----------------------------- MODULE DeskScheduler -----------------------------
(***************************************************************************)
(* Scheduled desk runs: DeskScheduler (backend/app/scheduler.py), the two  *)
(* settings rows it works from (store.py), the admin route that saves a    *)
(* schedule (update_schedule in api.py) and the desk as it sees it.        *)
(*                                                                         *)
(* Clock jobs put fires into a queue; one worker takes them out, and runs  *)
(* each when the desk is idle.  The worker polls the desk every two        *)
(* seconds, so anybody else may start a run between two looks.  A schedule *)
(* is saved in a thread of the server, so two saves may overlap, and its   *)
(* steps interleave with the worker.  The life of a run, which             *)
(* DeskOrchestrator models, is reduced here to its row and to the desk     *)
(* being busy.  Fires and runs are numbered in their order.                *)
(***************************************************************************)
EXTENDS Naturals, Sequences, FiniteSets

CONSTANTS Venues,       \* market ids
          Times,        \* clock times an admin may enter
          Appetites,    \* risk appetites
          HasInterval,  \* settings.scheduler_hours > 0
          Savers,       \* server threads that save schedules
          Edits,        \* what admins change: see EditKinds
          Faults,       \* what may go wrong: "store" and "restart"
          MaxFires,     \* bound on the fires
          MaxManual,    \* bound on the runs admins start
          MaxEdits      \* bound on the edits of admins

EditKinds == {"schedule", "closed", "appetite", "market"}
Never     == "never"    \* an empty time box
Nowhere   == "nowhere"  \* no market_id

ASSUME SchedulerAssumption == /\ Never \notin Times /\ Nowhere \notin Venues
                              /\ Venues # {} /\ Appetites # {}
                              /\ HasInterval \in BOOLEAN
                              /\ Edits \subseteq EditKinds
                              /\ Faults \subseteq {"store", "restart"}
                              /\ MaxFires \in Nat /\ MaxManual \in Nat /\ MaxEdits \in Nat

VARIABLES
  times,     \* stored schedule: times[v][slot]
  enabled,   \* stored schedule: the venue is not paused
  closed,    \* today, in the venue's timezone, is one of its closed_dates
  market,    \* stored default venue
  appetite,  \* stored default appetite
  saver,     \* saver[h]: how far h is with a save, and what it has read
  edits,     \* number of edits so far
  jobs,      \* APScheduler's clock jobs: jobs[v][slot] is a time or Never
  interval,  \* its interval job is there
  queue,     \* fires that wait
  fired,     \* number of fires so far
  origin,    \* origin[n]: <<venue, slot>> of fire n
  worker,    \* what _drain does: [at, fire, run]
  handled,   \* fires done with since the last boot, in order
  lost,      \* number of fires that came before the last boot
  active,    \* the desk's active run, 0 for None
  next,      \* the number the next run gets
  runs,      \* runs[r]: [venue, fire, appetite, status], fire 0 for an admin's
  recorded,  \* stored schedule state: recorded[v][slot] = [run, status]
  alarms     \* alarms[n]: failure notifications sent for fire n

settings == <<times, enabled, closed, market, appetite>>
clock    == <<saver, jobs, interval>>
backlog  == <<queue, fired, origin, worker, handled, lost>>
desk     == <<active, next, runs>>
reports  == <<recorded, alarms>>
vars     == <<settings, clock, edits, backlog, desk, reports>>

--------------------------------------------------------------------------------

Slots    == {"morning", "afternoon"}
AllSlots == Slots \cup {"interval"}
Runs     == 1..(MaxFires + MaxManual)
Fires    == 1..MaxFires

(* parse_store: any time boxes but the same time twice in one venue. *)
Boxes == {b \in [Slots -> Times \cup {Never}] :
            b["morning"] = b["afternoon"] => b["morning"] = Never}

(* reload: a job for every time of a venue that is not paused; otherwise   *)
(* has_clock_jobs is false and the interval job stands in.                 *)
ClockJobs(t, on) == [v \in Venues |-> [s \in Slots |-> IF on[v] THEN t[v][s] ELSE Never]]
NoJobs == [v \in Venues |-> [s \in Slots |-> Never]]

(* The jobs after add_job(replace_existing=True) for each of new. *)
Replacing(old, new) == [v \in Venues |-> [s \in Slots |->
                          IF new[v][s] = Never THEN old[v][s] ELSE new[v][s]]]

Idle    == [at |-> "idle", fire |-> 0, run |-> 0]
NoFire  == [run |-> 0, status |-> "none"]
Resting == [at |-> "idle", times |-> NoJobs, enabled |-> [v \in Venues |-> TRUE]]

Init == /\ times \in [Venues -> Boxes] /\ enabled \in [Venues -> BOOLEAN]
        /\ closed = [v \in Venues |-> FALSE]
        /\ market \in Venues /\ appetite \in Appetites
        /\ saver = [h \in Savers |-> Resting]
        /\ edits = 0
        /\ jobs = ClockJobs(times, enabled)
        /\ interval = (HasInterval /\ jobs = NoJobs)
        /\ queue = <<>> /\ fired = 0 /\ handled = <<>> /\ lost = 0
        /\ origin = [n \in Fires |-> <<Nowhere, "interval">>]
        /\ worker = Idle
        /\ active = 0 /\ next = 1
        /\ runs = [r \in Runs |-> [venue |-> Nowhere, fire |-> 0,
                                   appetite |-> CHOOSE a \in Appetites : TRUE,
                                   status |-> "none"]]
        /\ recorded = [v \in Venues |-> [s \in AllSlots |-> NoFire]]
        /\ alarms = [n \in Fires |-> 0]

--------------------------------------------------------------------------------
(* The admin's settings. *)

MayEdit(kind) == kind \in Edits /\ edits < MaxEdits /\ edits' = edits + 1

(* update_schedule: the schedule is stored whole, then reload begins. *)
Save(h) == /\ MayEdit("schedule") /\ saver[h].at = "idle"
           /\ times' \in [Venues -> Boxes] /\ enabled' \in [Venues -> BOOLEAN]
           /\ saver' = [saver EXCEPT ![h].at = "saved"]
           /\ UNCHANGED <<closed, market, appetite, jobs, interval, backlog, desk, reports>>

(* reload: remove_all_jobs. *)
Clear(h) == /\ saver[h].at = "saved"
            /\ saver' = [saver EXCEPT ![h].at = "cleared"]
            /\ jobs' = NoJobs /\ interval' = FALSE
            /\ UNCHANGED <<settings, edits, backlog, desk, reports>>

(* reload: get_market_schedule.  If it raises, the save ends with no jobs   *)
(* at all.                                                                  *)
Read(h) == /\ saver[h].at = "cleared"
           /\ \/ saver' = [saver EXCEPT ![h] = [at |-> "read", times |-> times,
                                                enabled |-> enabled]]
              \/ "store" \in Faults /\ saver' = [saver EXCEPT ![h] = Resting]
           /\ UNCHANGED <<settings, edits, jobs, interval, backlog, desk, reports>>

(* What a reload adds.  Mutant: the jobs of paused venues too. *)
AddedAll(t, on) == t
Added(t, on)    == ClockJobs(t, on)

(* reload: _add_clock_jobs, or the interval job. *)
AddJobs(h) == LET new == Added(saver[h].times, saver[h].enabled)
              IN  /\ saver[h].at = "read"
                  /\ saver' = [saver EXCEPT ![h] = Resting]
                  /\ jobs' = Replacing(jobs, new)
                  /\ interval' = (interval \/ (HasInterval /\ new = NoJobs))
                  /\ UNCHANGED <<settings, edits, backlog, desk, reports>>

(* set_market, set_appetite; and a new day, on which a venue may be closed. *)
SetMarket   == /\ MayEdit("market") /\ market' \in Venues
               /\ UNCHANGED <<times, enabled, closed, appetite, clock, backlog, desk, reports>>
SetAppetite == /\ MayEdit("appetite") /\ appetite' \in Appetites
               /\ UNCHANGED <<times, enabled, closed, market, clock, backlog, desk, reports>>
NewDay      == /\ MayEdit("closed") /\ closed' \in [Venues -> BOOLEAN]
               /\ UNCHANGED <<times, enabled, market, appetite, clock, backlog, desk, reports>>

--------------------------------------------------------------------------------
(* The fires and the worker that takes them. *)

(* The queue with one more fire.  Mutant: the last comes first. *)
QueuedFirst(n) == <<n>> \o queue
Queued(n)      == Append(queue, n)

(* enqueue, called by a job when its time has come. *)
Enqueue(v, s) == /\ fired < MaxFires
                 /\ fired' = fired + 1
                 /\ origin' = [origin EXCEPT ![fired + 1] = <<v, s>>]
                 /\ queue' = Queued(fired + 1)
                 /\ UNCHANGED <<settings, clock, edits, worker, handled, lost, desk, reports>>
Fire == \/ \E v \in Venues, s \in Slots : jobs[v][s] # Never /\ Enqueue(v, s)
        \/ interval /\ Enqueue(Nowhere, "interval")

(* is_closed, of a fire that names a venue. *)
Closed(n) == LET v == origin[n][1] IN v # Nowhere /\ (~enabled[v] \/ closed[v])

(* The worker is done with fire n. *)
DoneWith(n) == handled' = Append(handled, n) /\ worker' = Idle

Record(v, s, r, status) ==
  recorded' = [recorded EXCEPT ![v][s] = [run |-> r, status |-> status]]

(* notify_run_failed for fire n. *)
Alarm(n) == alarms' = [alarms EXCEPT ![n] = @ + 1]

(* The handler of _drain: the fire is given up, with an alarm if it can be. *)
GiveUp(n) == /\ "store" \in Faults /\ DoneWith(n)
             /\ Alarm(n) \/ UNCHANGED alarms

(* A run comes into being: the only place where the desk gets busy. *)
Begin(r) == /\ active = 0 /\ next \in Runs
            /\ active' = next /\ next' = next + 1
            /\ runs' = [runs EXCEPT ![next] = r]

(* The appetite of a scheduled run: start is called without one, so that of *)
(* the environment; the admin's default is not read.                        *)
EnvAppetite == CHOOSE a \in Appetites : TRUE

(* start for fire n. *)
StartFor(n) == LET v == origin[n][1]
               IN  /\ Begin([venue |-> IF v = Nowhere THEN market ELSE v, fire |-> n,
                             appetite |-> EnvAppetite, status |-> "running"])
                   /\ worker' = [at |-> "watching", fire |-> n, run |-> next]
                   /\ UNCHANGED <<handled, reports>>

(* _drain takes the next fire, _run_when_idle looks at the schedule once. *)
Dequeue ==
  /\ worker.at = "idle" /\ queue # <<>>
  /\ queue' = Tail(queue)
  /\ LET n == Head(queue)
     IN  \/ /\ Closed(n)
            /\ Record(origin[n][1], origin[n][2], 0, "skipped")
            /\ DoneWith(n)
            /\ UNCHANGED <<desk, alarms>>
         \/ /\ ~Closed(n) /\ active # 0
            /\ worker' = [at |-> "waiting", fire |-> n, run |-> 0]
            /\ UNCHANGED <<handled, desk, reports>>
         \/ /\ ~Closed(n) /\ StartFor(n)
         \/ /\ GiveUp(n)
            /\ UNCHANGED <<desk, recorded>>
  /\ UNCHANGED <<settings, clock, edits, fired, origin, lost>>

(* The worker wakes and finds the desk idle. *)
Proceed == /\ worker.at = "waiting" /\ active = 0
           /\ \/ StartFor(worker.fire)
              \/ GiveUp(worker.fire) /\ UNCHANGED <<desk, recorded>>
           /\ UNCHANGED <<settings, clock, edits, queue, fired, origin, lost>>

(* Is the run it watches over?  Mutants: it never is, or at once. *)
OverNever(r)  == FALSE
OverAtOnce(r) == TRUE
Over(r)       == active # r

(* The status get reports: a row that is gone reads "unknown". *)
StatusOf(r) == IF runs[r].status = "pruned" THEN "unknown" ELSE runs[r].status

(* A failure is notified once the fire is recorded.  Mutant: it is not. *)
FailedNever(r) == FALSE
Failed(r)      == runs[r].status = "failed"

(* The worker wakes, its run is over: the fire is recorded. *)
Conclude ==
  LET n == worker.fire
      r == worker.run
  IN  /\ worker.at = "watching" /\ Over(r)
      /\ \/ /\ Record(runs[r].venue, origin[n][2], r, StatusOf(r))
            /\ IF Failed(r) THEN Alarm(n) ELSE UNCHANGED alarms
            /\ DoneWith(n)
         \/ /\ GiveUp(n)
            /\ \/ UNCHANGED recorded
               \/ Record(runs[r].venue, origin[n][2], r, StatusOf(r)) /\ Failed(r)
      /\ UNCHANGED <<settings, clock, edits, queue, fired, origin, lost, desk>>

--------------------------------------------------------------------------------
(* The desk and the process. *)

(* start_run: an admin starts a run; a busy desk answers 409. *)
ManualStart == /\ Cardinality({r \in Runs : r < next /\ runs[r].fire = 0}) < MaxManual
               /\ \E v \in Venues, a \in Appetites \cup {appetite} :
                    Begin([venue |-> v, fire |-> 0, appetite |-> a, status |-> "running"])
               /\ UNCHANGED <<settings, clock, edits, backlog, reports>>

(* The end of _execute.  A row whose outcome cannot be stored stays running. *)
RunEnds == /\ active # 0
           /\ \E out \in {"completed", "failed"} \cup
                         (IF "store" \in Faults THEN {"running"} ELSE {}) :
                runs' = [runs EXCEPT ![active].status = out]
           /\ active' = 0
           /\ UNCHANGED <<settings, clock, edits, backlog, next, reports>>

(* prune_run_history: an older row goes. *)
Prune(r) == /\ r # active /\ r + 1 < next /\ runs[r].status # "pruned"
            /\ runs' = [runs EXCEPT ![r].status = "pruned"]
            /\ UNCHANGED <<settings, clock, edits, backlog, active, next, reports>>

(* The server stops or dies and boots again: recover_stale_runs, a new      *)
(* worker with an empty queue, and the jobs of the stored schedule.         *)
Restart == /\ "restart" \in Faults
           /\ active' = 0
           /\ runs' = [r \in Runs |-> IF runs[r].status = "running"
                                      THEN [runs[r] EXCEPT !.status = "failed"]
                                      ELSE runs[r]]
           /\ queue' = <<>> /\ worker' = Idle /\ handled' = <<>> /\ lost' = fired
           /\ saver' = [h \in Savers |-> Resting]
           /\ jobs' = ClockJobs(times, enabled)
           /\ interval' = (HasInterval /\ jobs' = NoJobs)
           /\ UNCHANGED <<settings, edits, fired, origin, next, reports>>

Next == \/ \E h \in Savers : Save(h) \/ Clear(h) \/ Read(h) \/ AddJobs(h)
        \/ SetMarket \/ SetAppetite \/ NewDay
        \/ Fire \/ Dequeue \/ Proceed \/ Conclude
        \/ ManualStart \/ RunEnds \/ Restart
        \/ \E r \in Runs : Prune(r)

Spec == Init /\ [][Next]_vars

(* The worker keeps polling and a run comes to its end (DeskComesFree of    *)
(* DeskOrchestrator); no job need ever fire, no admin do anything.          *)
FairSpec == Spec /\ WF_vars(Dequeue) /\ WF_vars(Proceed) /\ WF_vars(Conclude)
                 /\ WF_vars(RunEnds)

--------------------------------------------------------------------------------

(* Every variable has its type. *)
Statuses == {"none", "running", "completed", "failed", "pruned", "unknown", "skipped"}
TypeOK ==
  /\ times \in [Venues -> Boxes] /\ enabled \in [Venues -> BOOLEAN]
  /\ closed \in [Venues -> BOOLEAN] /\ market \in Venues /\ appetite \in Appetites
  /\ saver \in [Savers -> [at : {"idle", "saved", "cleared", "read"},
                           times : [Venues -> [Slots -> Times \cup {Never}]],
                           enabled : [Venues -> BOOLEAN]]]
  /\ edits \in 0..MaxEdits /\ interval \in BOOLEAN
  /\ jobs \in [Venues -> [Slots -> Times \cup {Never}]]
  /\ queue \in Seq(Fires) /\ handled \in Seq(Fires)
  /\ fired \in 0..MaxFires /\ lost \in 0..MaxFires
  /\ origin \in [Fires -> (Venues \cup {Nowhere}) \X AllSlots]
  /\ worker \in [at : {"idle", "waiting", "watching"}, fire : 0..MaxFires,
                 run : 0..(MaxFires + MaxManual)]
  /\ active \in Runs \cup {0} /\ next \in 1..(MaxFires + MaxManual + 1)
  /\ runs \in [Runs -> [venue : Venues \cup {Nowhere}, fire : 0..MaxFires,
                        appetite : Appetites, status : Statuses]]
  /\ recorded \in [Venues -> [AllSlots -> [run : 0..(MaxFires + MaxManual),
                                          status : Statuses]]]
  /\ alarms \in [Fires -> Nat]

(* Overlapping jobs queue (README.md:15): what was handled, what the worker *)
(* holds and what waits are exactly the fires since the boot, in the order  *)
(* they came, each once; whatever fails on the way, no fire is dropped,     *)
(* repeated or overtaken.                                                   *)
InHand == IF worker.at = "idle" THEN <<>> ELSE <<worker.fire>>
EachFireOnce == handled \o InHand \o queue = [i \in 1..(fired - lost) |-> lost + i]

(* Scheduled runs start in the order of their fires, at most one for each,  *)
(* for the venue the fire names; the run the worker watches is its own.     *)
OneRunPerFire ==
  /\ \A r, s \in Runs : r < s /\ runs[s].fire # 0 => runs[r].fire < runs[s].fire
  /\ \A r \in Runs : runs[r].fire # 0 =>
                      origin[runs[r].fire][1] \in {runs[r].venue, Nowhere}
  /\ worker.at = "watching" => runs[worker.run].fire = worker.fire
  /\ worker.at = "waiting"  => \A r \in Runs : runs[r].fire # worker.fire

(* What makes these two inductive: no run has a later fire than the one in  *)
(* hand, or than the last one handled, and what did not come yet is blank.  *)
Reached == lost + Len(handled) + Len(InHand)
NoneAhead == /\ \A r \in Runs : /\ runs[r].fire <= Reached
                                /\ r >= next => runs[r].fire = 0
             /\ worker.at = "watching" => worker.run \in Runs /\ worker.run < next
             /\ active < next /\ lost <= fired

(* The schedule state tells the truth: the run it names was started for     *)
(* that venue and slot, is over, and its row, while there is one, has the   *)
(* status recorded (record_schedule_fire, with a database that works).      *)
RecordedRight ==
  \A v \in Venues, s \in AllSlots :
    LET entry == recorded[v][s]
        run   == runs[entry.run]
    IN  entry.run # 0 => /\ run.venue = v /\ origin[run.fire][2] = s
                         /\ entry.run # active
                         /\ \/ run.status = entry.status
                            \/ run.status = "pruned"
                         /\ entry.status \in {"completed", "failed", "unknown"}

(* A scheduled run that is recorded as failed was notified once, and no     *)
(* other fire is (notify_run_failed, with a database that works).           *)
FailuresNotified ==
  /\ \A v \in Venues, s \in AllSlots :
       recorded[v][s].status = "failed" => alarms[runs[recorded[v][s].run].fire] = 1
  /\ \A n \in Fires : alarms[n] > 0 =>
       /\ alarms[n] = 1
       /\ \E r \in Runs : runs[r].fire = n /\ runs[r].status \in {"failed", "pruned"}

(* reload: "Replace jobs from the stored admin schedule (and interval       *)
(* fallback)", that is, once no save is under way the jobs are those of the *)
(* stored schedule (with a database that works).                            *)
JobsMatch == (\A h \in Savers : saver[h].at = "idle") =>
               /\ jobs = ClockJobs(times, enabled)
               /\ interval = (HasInterval /\ jobs = NoJobs)

(* A fire that waits or is in hand is handled, or lost by a restart: the    *)
(* worker never gets stuck, whatever fails or is closed and whoever else    *)
(* starts runs in between, as long as those end at last.                    *)
Pending(n) == n \in {queue[i] : i \in 1..Len(queue)} \cup {worker.fire}
EveryFireHandled == \A n \in Fires : Pending(n) ~> ~Pending(n)
================================================================================
