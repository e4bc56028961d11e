---------------------------- MODULE DeskOrchestrator ----------------------------
(***************************************************************************)
(* The life of desk runs in one API process: DeskOrchestrator              *)
(* (backend/app/agents/orchestrator.py), the run table it shares with      *)
(* store.recover_stale_runs and store.prune_run_history, the rating        *)
(* snapshots, and the process around it (main.lifespan).                   *)
(*                                                                         *)
(* Each run has one asyncio task, _execute.  Everything it writes goes     *)
(* through asyncio.to_thread: the task submits a job and waits, a thread   *)
(* picks the job up, commits, and the task resumes.  Cancelling the task   *)
(* drops a job no thread has picked up, but never stops a running thread:  *)
(* that job is orphaned and commits later, on its own.                     *)
(*                                                                         *)
(* Runs are numbered by their start, so r < s says that r started first.   *)
(***************************************************************************)
EXTENDS Naturals, Sequences, FiniteSets

CONSTANTS Pipeline,   \* the stages between "queued" and the outcome, in order
          Venues,     \* market ids
          Keep,       \* settings.run_history_limit
          MaxRuns,    \* bound on the runs ever started
          Faults      \* what may go wrong: see FaultKinds

FaultKinds == {"agent",      \* an exception in ingest, an analyst or the policy
               "store",      \* a database call raises
               "shutdown",   \* the server is asked to stop
               "crash"}      \* the process dies

ASSUME OrchestratorAssumption == /\ Pipeline \in Seq(STRING) /\ Len(Pipeline) > 0
                                 /\ Keep \in Nat \ {0}
                                 /\ Venues # {}
                                 /\ MaxRuns \in Nat
                                 /\ Faults \subseteq FaultKinds

VARIABLES
  mode,        \* the process: "serving", "stopping", "exited" or "crashed"
  next,        \* the number the next run gets
  active,      \* _active_run_id, 0 for None
  status,      \* status[r] of the row, "none" before it, "pruned" once deleted
  stage,       \* stage[r] of the row: 0 queued, k Pipeline[k], Last the outcome
  venue,       \* market_id of the row
  snapshots,   \* runs that have RatingSnapshotRows
  notified,    \* runs whose completion was notified
  pc,          \* where the run's task is
  step,        \* the pipeline stage it has reached
  wait,        \* the job it waits for: "queued", "running", "done" or "error"
  orphans,     \* <<r, k>>: a thread still runs job k of r, nobody waits for it
  doomed,      \* rows the prune job of r has selected for deletion
  told,        \* last stage the bus published for r (Last for an outcome)
  closed       \* runs the bus has closed

row     == <<status, stage, venue>>
derived == <<snapshots, notified>>
task    == <<pc, step, wait>>
bus     == <<told, closed>>
vars    == <<mode, next, active, row, derived, task, orphans, doomed, bus>>

--------------------------------------------------------------------------------

Runs     == 1..MaxRuns
Last     == Len(Pipeline) + 1
Outcomes == {"completed", "failed"}

(* The points of _execute at which the task waits for a thread.  Mutant: a *)
(* failure is not recorded.                                                *)
RecordingSuccess == {"saving"}
Recording  == {"saving", "failing"}                   \* _persist
Reporting  == {"emitting", "announcing", "reporting"} \* _update_stage in _emit
Following  == {"snapshotting", "notifying"}
Jobs       == Recording \cup Reporting \cup Following \cup {"pruning"}

InTry      == {"emitting", "working", "saving", "snapshotting", "notifying",
               "announcing"}
InHandler  == {"failing", "reporting"}
Cancelled  == {"cancelled", "unwinding"}
Executing  == {"created"} \cup InTry \cup InHandler \cup Cancelled
Points     == Executing \cup {"none", "pruning", "done"}

Stored == {r \in Runs : status[r] \in Outcomes \cup {"running"}}

(* Mutants: the slice starts one row early, one row late. *)
StaleEarly == {r \in Stored : Cardinality({s \in Stored : s > r}) >= Keep - 1}
StaleLate  == {r \in Stored : Cardinality({s \in Stored : s > r}) > Keep}

(* prune_run_history: every row beyond the Keep newest, of all venues. *)
Stale == {r \in Stored : Cardinality({s \in Stored : s > r}) >= Keep}

(* DeskOrchestrator.latest: the newest completed row of the venue, 0 for None. *)
Latest(v) == LET books == {r \in Stored : status[r] = "completed" /\ venue[r] = v}
             IN IF books = {} THEN 0
                ELSE CHOOSE r \in books : \A s \in books : s <= r

Init == /\ mode = "exited" /\ next = 1 /\ active = 0
        /\ status = [r \in Runs |-> "none"]
        /\ stage  = [r \in Runs |-> 0]
        /\ venue  = [r \in Runs |-> CHOOSE v \in Venues : TRUE]
        /\ snapshots = {} /\ notified = {}
        /\ pc     = [r \in Runs |-> "none"]
        /\ step   = [r \in Runs |-> 0]
        /\ wait   = [r \in Runs |-> "none"]
        /\ orphans = {}
        /\ doomed = [r \in Runs |-> {}]
        /\ told   = [r \in Runs |-> 0] /\ closed = {}

--------------------------------------------------------------------------------
(* The process. *)

(* The rows recover_stale_runs fails and the runs backfill_snapshots gives *)
(* snapshots.  Mutants: none, every row; none.                             *)
InterruptedNone == {}
InterruptedAll  == Stored
Interrupted     == {r \in Runs : status[r] = "running"}
BookedNone      == {}
Booked          == {r \in Runs : status[r] = "completed"}

(* lifespan up to yield: init_db (whose backfill gives every completed run *)
(* its snapshots), recover_stale_runs, then a new orchestrator and bus.    *)
Boot ==
  /\ mode \in {"exited", "crashed"}
  /\ mode' = "serving"
  /\ snapshots' = snapshots \cup Booked
  /\ status' = [r \in Runs |-> IF r \in Interrupted THEN "failed" ELSE status[r]]
  /\ stage'  = [r \in Runs |-> IF r \in Interrupted THEN Last ELSE stage[r]]
  /\ UNCHANGED <<next, active, venue, notified, task, orphans, doomed, bus>>

(* RunInProgressError is raised unless the desk is idle.  Mutant: a start    *)
(* that does not look.                                                     *)
IdleUnchecked == TRUE
Idle          == active = 0

(* start: nothing awaits between the test of _active_run_id and the        *)
(* creation of the task, so the whole handler is one step of the loop.     *)
Start(v) ==
  /\ mode = "serving"
  /\ Idle
  /\ next <= MaxRuns
  /\ status' = [status EXCEPT ![next] = "running"]
  /\ stage'  = [stage EXCEPT ![next] = 0]
  /\ venue'  = [venue EXCEPT ![next] = v]
  /\ pc'     = [pc EXCEPT ![next] = "created"]
  /\ active' = next
  /\ next'   = next + 1
  /\ UNCHANGED <<mode, derived, step, wait, orphans, doomed, bus>>

(* orchestrator.shutdown cancels every task at the point where it waits.   *)
(* A task that has not begun ends without running a line of its body; a    *)
(* pruning one ends too, its CancelledError escapes `except Exception`.    *)
CancelAll(points) ==
  /\ pc' = [r \in Runs |-> CASE pc[r] \notin points -> pc[r]
                             [] pc[r] \in points \cap InTry     -> "cancelled"
                             [] pc[r] \in points \cap InHandler -> "unwinding"
                             [] OTHER -> "done"]
  /\ wait' = [r \in Runs |-> IF pc[r] \in points THEN "none" ELSE wait[r]]
  /\ orphans' = orphans \cup {<<r, pc[r]>> : r \in {q \in Runs : /\ pc[q] \in points
                                                                 /\ wait[q] = "running"}}

Shutdown ==
  /\ "shutdown" \in Faults
  /\ mode = "serving"
  /\ mode' = "stopping"
  /\ CancelAll({"created", "pruning"} \cup InTry \cup InHandler)
  /\ UNCHANGED <<next, active, row, derived, step, doomed, bus>>

(* The five seconds of grace are over: the loop cancels what still prunes. *)
GraceExpires ==
  /\ mode = "stopping"
  /\ \A r \in Runs : pc[r] \notin Cancelled
  /\ \E r \in Runs : pc[r] = "pruning"
  /\ CancelAll({"pruning"})
  /\ UNCHANGED <<mode, next, active, row, derived, step, doomed, bus>>

(* The memory of the process is gone: tasks, threads, orchestrator, bus. *)
MemoryLost ==
  /\ active' = 0
  /\ pc'   = [r \in Runs |-> IF pc[r] = "none" THEN "none" ELSE "done"]
  /\ step' = [r \in Runs |-> 0]
  /\ wait' = [r \in Runs |-> "none"]
  /\ orphans' = {}
  /\ doomed' = [r \in Runs |-> {}]
  /\ told' = [r \in Runs |-> 0] /\ closed' = {}
  /\ UNCHANGED <<next, row, derived>>

(* The interpreter joins the executor's threads before it exits. *)
Exit ==
  /\ mode = "stopping"
  /\ \A r \in Runs : pc[r] \in {"none", "done"}
  /\ orphans = {}
  /\ mode' = "exited"
  /\ MemoryLost

Crash ==
  /\ "crash" \in Faults
  /\ mode \in {"serving", "stopping"}
  /\ mode' = "crashed"
  /\ MemoryLost

--------------------------------------------------------------------------------
(* Worker threads. *)

(* The stage a job stores.  Mutant: the one before. *)
StageOfLate(r, k) == IF k = "emitting" THEN step[r] - 1 ELSE Last
StageOf(r, k)     == IF k = "emitting" THEN step[r] ELSE Last

(* The runs whose snapshots go with the job.  Mutant: pruning keeps them. *)
UnratedNone(r, k) == {}
Unrated(r, k)     == IF k = "pruning" THEN doomed[r] ELSE {}

(* What job k of run r writes.  _persist and _update_stage leave a row     *)
(* that is gone alone; the columns they write never depend on the old row. *)
Commit(r, k) ==
  LET gone    == IF k = "pruning" THEN doomed[r] ELSE {}
      outcome == IF k = "saving" THEN "completed" ELSE "failed"
  IN /\ status' = [s \in Runs |->
                     IF s \in gone THEN "pruned"
                     ELSE IF s = r /\ k \in Recording /\ r \in Stored THEN outcome
                     ELSE status[s]]
     /\ stage' = [s \in Runs |->
                    IF s = r /\ k \in Recording \cup Reporting /\ r \in Stored
                    THEN StageOf(r, k) ELSE stage[s]]
     /\ snapshots' = IF k = "snapshotting" THEN snapshots \cup {r}
                                           ELSE snapshots \ Unrated(r, k)
     /\ notified' = IF k = "notifying" THEN notified \cup {r} ELSE notified
     /\ doomed' = IF k = "pruning" THEN [doomed EXCEPT ![r] = {}] ELSE doomed
     /\ UNCHANGED venue

(* A thread takes the job; prune_run_history reads the table now and       *)
(* deletes later, so runs may start in between.                            *)
ThreadBegins(r) ==
  /\ wait[r] = "queued"
  /\ wait' = [wait EXCEPT ![r] = "running"]
  /\ doomed' = IF pc[r] = "pruning" THEN [doomed EXCEPT ![r] = Stale] ELSE doomed
  /\ UNCHANGED <<mode, next, active, row, derived, pc, step, orphans, bus>>

ThreadCommits(r) ==
  /\ wait[r] = "running"
  /\ wait' = [wait EXCEPT ![r] = "done"]
  /\ Commit(r, pc[r])
  /\ UNCHANGED <<mode, next, active, pc, step, orphans, bus>>

ThreadFails(r) ==
  /\ "store" \in Faults
  /\ wait[r] = "running"
  /\ wait' = [wait EXCEPT ![r] = "error"]
  /\ doomed' = [doomed EXCEPT ![r] = {}]
  /\ UNCHANGED <<mode, next, active, row, derived, pc, step, orphans, bus>>

OrphanCommits(r, k) ==
  /\ <<r, k>> \in orphans
  /\ orphans' = orphans \ {<<r, k>>}
  /\ Commit(r, k)
  /\ UNCHANGED <<mode, next, active, task, bus>>

OrphanFails(r, k) ==
  /\ "store" \in Faults
  /\ <<r, k>> \in orphans
  /\ orphans' = orphans \ {<<r, k>>}
  /\ doomed' = IF k = "pruning" THEN [doomed EXCEPT ![r] = {}] ELSE doomed
  /\ UNCHANGED <<mode, next, active, row, derived, task, bus>>

--------------------------------------------------------------------------------
(* The task: _execute, from one await to the next. *)

(* await asyncio.to_thread(job) *)
Submit(r, k) == /\ pc'   = [pc EXCEPT ![r] = k]
                /\ wait' = [wait EXCEPT ![r] = "queued"]

(* Mutant: the finally block forgets to clear _active_run_id. *)
FinishStaysActive(r) == /\ closed' = closed \cup {r}
                        /\ Submit(r, "pruning")
                        /\ UNCHANGED active

(* The finally block up to its last await: the run stops being active, the *)
(* bus closes it (a put on an unbounded queue does not suspend), and the   *)
(* history is pruned.                                                      *)
Finish(r) == /\ active' = IF active = r THEN 0 ELSE active
             /\ closed' = closed \cup {r}
             /\ Submit(r, "pruning")

Resumed(r, k, how) == pc[r] = k /\ wait[r] = how

TaskBegins(r) ==
  /\ pc[r] = "created"
  /\ Submit(r, "emitting")
  /\ step' = [step EXCEPT ![r] = 1]
  /\ UNCHANGED <<mode, next, active, row, derived, orphans, doomed, bus>>

(* _emit publishes what _update_stage has stored, then the stage's work     *)
(* runs.  Where that work has no await the next _emit follows at once; a    *)
(* cancellation then hits that _emit before its job has begun, which leaves *)
(* the same state as one that hits here.                                    *)
StagePublished(r) ==
  /\ Resumed(r, "emitting", "done")
  /\ told' = [told EXCEPT ![r] = step[r]]
  /\ pc'   = [pc EXCEPT ![r] = "working"]
  /\ wait' = [wait EXCEPT ![r] = "none"]
  /\ UNCHANGED <<mode, next, active, row, derived, step, orphans, doomed, closed>>

(* Whether another stage follows. *)
MoreStages(r) == step[r] < Len(Pipeline)

WorkDone(r) ==
  /\ pc[r] = "working"
  /\ IF MoreStages(r)
     THEN /\ step' = [step EXCEPT ![r] = @ + 1]
          /\ Submit(r, "emitting")
     ELSE /\ Submit(r, "saving")
          /\ UNCHANGED step
  /\ UNCHANGED <<mode, next, active, row, derived, orphans, doomed, bus>>

(* Each write after the outcome follows whether the one before it worked:  *)
(* its exception is logged and dropped.                                    *)
Then(r, k, following) ==
  /\ \/ Resumed(r, k, "done")
     \/ k \in Following /\ Resumed(r, k, "error")
  /\ Submit(r, following)
  /\ UNCHANGED <<mode, next, active, row, derived, step, orphans, doomed, bus>>

Saved(r)       == Then(r, "saving", "snapshotting")
Snapshotted(r) == Then(r, "snapshotting", "notifying")
Announces(r)   == Then(r, "notifying", "announcing")
Reports(r)     == Then(r, "failing", "reporting")

(* except Exception: anything raised in the try block fails the run, also  *)
(* a run whose result has been stored already.                             *)
Fails(r) ==
  /\ \/ "agent" \in Faults /\ pc[r] = "working"
     \/ \E k \in {"emitting", "saving", "announcing"} : Resumed(r, k, "error")
  /\ Submit(r, "failing")
  /\ UNCHANGED <<mode, next, active, row, derived, step, orphans, doomed, bus>>

(* The last event of the run is published and the finally block entered. *)
OutcomePublished(r) ==
  /\ \E k \in {"announcing", "reporting"} : Resumed(r, k, "done")
  /\ told' = [told EXCEPT ![r] = Last]
  /\ Finish(r)
  /\ UNCHANGED <<mode, next, row, derived, step, orphans, doomed>>

(* The failure itself could not be recorded or announced. *)
FailureLost(r) ==
  /\ \E k \in InHandler : Resumed(r, k, "error")
  /\ Finish(r)
  /\ UNCHANGED <<mode, next, row, derived, step, orphans, doomed, told>>

(* except CancelledError: _persist is called here on the loop itself. *)
CancelHandled(r) ==
  /\ pc[r] = "cancelled"
  /\ \/ Commit(r, "failing")
     \/ "store" \in Faults /\ UNCHANGED <<row, derived, doomed>>
  /\ Finish(r)
  /\ UNCHANGED <<mode, next, step, orphans, told>>

(* A cancellation raised inside the handler goes straight to finally. *)
Unwinds(r) ==
  /\ pc[r] = "unwinding"
  /\ Finish(r)
  /\ UNCHANGED <<mode, next, row, derived, step, orphans, doomed, told>>

Pruned(r) ==
  /\ \E how \in {"done", "error"} : Resumed(r, "pruning", how)
  /\ pc'   = [pc EXCEPT ![r] = "done"]
  /\ wait' = [wait EXCEPT ![r] = "none"]
  /\ UNCHANGED <<mode, next, active, row, derived, step, orphans, doomed, bus>>

--------------------------------------------------------------------------------

ThreadStep(r) == \/ ThreadBegins(r) \/ ThreadCommits(r) \/ ThreadFails(r)
                 \/ \E k \in Jobs : OrphanCommits(r, k) \/ OrphanFails(r, k)

TaskStep(r) == \/ TaskBegins(r) \/ StagePublished(r) \/ WorkDone(r)
               \/ Saved(r) \/ Snapshotted(r) \/ Announces(r) \/ Reports(r)
               \/ Fails(r) \/ OutcomePublished(r) \/ FailureLost(r)
               \/ CancelHandled(r) \/ Unwinds(r) \/ Pruned(r)

Next == \/ Boot \/ Shutdown \/ GraceExpires \/ Exit \/ Crash
        \/ \E v \in Venues : Start(v)
        \/ \E r \in Runs : ThreadStep(r) \/ TaskStep(r)

Spec == Init /\ [][Next]_vars

(* Threads and tasks that can move do: the loop and the executor are fair,  *)
(* every agent call has a timeout, and compose restarts the API             *)
(* (restart: unless-stopped).  A server that is stopping gets to its end;   *)
(* nobody has to start a run or stop the server.                            *)
Fairness == /\ WF_vars(Boot) /\ WF_vars(GraceExpires) /\ WF_vars(Exit)
            /\ \A r \in Runs : WF_vars(ThreadStep(r)) /\ WF_vars(TaskStep(r))

FairSpec == Spec /\ Fairness

--------------------------------------------------------------------------------
(* Properties. *)

(* Every variable has its type. *)
TypeOK ==
  /\ mode \in {"serving", "stopping", "exited", "crashed"}
  /\ next \in 1..MaxRuns + 1
  /\ active \in Runs \cup {0}
  /\ status \in [Runs -> Outcomes \cup {"none", "running", "pruned"}]
  /\ stage \in [Runs -> 0..Last]
  /\ venue \in [Runs -> Venues]
  /\ snapshots \subseteq Runs /\ notified \subseteq Runs
  /\ pc \in [Runs -> Points]
  /\ step \in [Runs -> 0..Len(Pipeline)]
  /\ wait \in [Runs -> {"none", "queued", "running", "done", "error"}]
  /\ orphans \subseteq Runs \X Jobs
  /\ doomed \in [Runs -> SUBSET Runs]
  /\ told \in [Runs -> 0..Last] /\ closed \subseteq Runs

(* README.md:15 "only one desk run executes at a time": whatever is        *)
(* cancelled, fails or crashes, a task that still executes is the active   *)
(* run's, so two never execute together and no start finds the desk idle   *)
(* while one does.                                                         *)
SingleDesk == \A r \in Runs : pc[r] \in Executing => active = r

(* Pruning never takes the row from under the active run, although the     *)
(* pruning of an earlier run goes on after the next one has started and    *)
(* selects its rows before it deletes them.                                *)
ActiveRowKept == active # 0 => active \in Stored

(* Snapshots never outlive their run's row (the foreign key of             *)
(* RatingSnapshotRow): not with record_snapshots orphaned by a shutdown    *)
(* and prune_run_history running beside it.                                *)
SnapshotsHaveRows == snapshots \subseteq Stored

(* The runs whose row some task or thread can still settle. *)
Writers == {r \in Runs : \/ pc[r] \in Executing
                         \/ \E k \in Recording : <<r, k>> \in orphans}

(* What SingleDesk and ActiveRowKept rest on: the active run is the newest, *)
(* the newest row is never selected for deletion, and every thread that     *)
(* outlives its task belongs to the newest run of a process that stops.     *)
RunsInOrder    == \A r \in Runs : /\ r < next <=> status[r] # "none"
                                  /\ r >= next => pc[r] = "none"
JobsAwaited    == \A r \in Runs : wait[r] # "none" => pc[r] \in Jobs
ActiveIsNewest == active # 0 => active = next - 1 /\ mode \in {"serving", "stopping"}
NewestKept     == next > 1 => next - 1 \in Stored
DoomedAreOld   == \A r \in Runs : \A s \in doomed[r] : s < next - 1
OrphansNewest  == \A o \in orphans : /\ mode = "stopping"
                                     /\ o[2] # "pruning" => o[1] = next - 1
IInv == /\ TypeOK /\ RunsInOrder /\ JobsAwaited /\ SingleDesk /\ ActiveIsNewest
        /\ NewestKept /\ DoomedAreOld /\ OrphansNewest /\ SnapshotsHaveRows

(* The desk keeps the promises of RunLedger. *)
Ledger == INSTANCE RunLedger WITH writers <- Writers
LedgerSpec == Ledger!Spec

(* _emit stores a stage before it tells anyone: whoever reads the run after *)
(* an event finds the row at that stage or beyond.                          *)
StreamBehindStore == \A r \in Stored : told[r] <= stage[r]

(* With a working database, the end of the event stream means the outcome   *)
(* is there: unless the server is being stopped, a client that saw the bus  *)
(* close the run never reads it as running.                                 *)
ClosedMeansSettled == mode = "serving" => \A r \in closed : status[r] # "running"

(* With a working database, an outcome changes only by the deletion of the  *)
(* row, and a venue's book is only replaced by that of a run started later, *)
(* unless a shutdown cancels the run: interleaved pruning, crashes, the     *)
(* recovery of the next boot and failed runs never bring an old book back.  *)
HistoryStands ==
  [][mode # "stopping" =>
       /\ \A r \in Runs : status[r] \in Outcomes => status'[r] \in {status[r], "pruned"}
       /\ \A v \in Venues : LET book == Latest(v) IN
            book # 0 => Latest(v)' >= book \/ book \notin Stored']_vars

(* With a working database, when the newest run of a serving desk has ended *)
(* in this process and no run prunes any more, pruning has kept its bound,  *)
(* even if several runs were pruning together or some were cut short by an  *)
(* earlier crash.                                                           *)
RetentionBound ==
  mode = "serving" /\ next - 1 \in closed /\ (\A r \in Runs : pc[r] \in {"none", "done"})
    => Cardinality(Stored) <= Keep

(* README.md:184 "nothing stays `running` forever": a started run gets its  *)
(* outcome, across crashes and shutdowns, at the latest at the next boot.   *)
EveryRunSettles ==
  \A r \in Runs : status[r] = "running" ~> status[r] # "running"

(* The desk always becomes free for another run. *)
DeskComesFree == \A r \in Runs : active = r ~> active # r

(* Every run that stays completed in the history gets its snapshots, if     *)
(* need be by the backfill of the next boot.                                *)
EveryBookSnapshotted ==
  \A r \in Runs : status[r] = "completed" ~> r \in snapshots \/ status[r] # "completed"

(* README.md:185: the book route "always returns the latest completed book  *)
(* for the venue; a failed run never blanks the desk".                      *)
BookNeverBlank == [][\A v \in Venues : Latest(v) # 0 => Latest(v)' # 0]_vars

================================================================================
