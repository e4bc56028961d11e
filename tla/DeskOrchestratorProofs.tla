------------------------- MODULE DeskOrchestratorProofs -------------------------
(***************************************************************************)
(* Theorems about DeskOrchestrator, for every pipeline, set of venues,     *)
(* history limit, number of runs and combination of faults.                *)
(***************************************************************************)
EXTENDS DeskOrchestrator, FiniteSetTheorems, WellFoundedInduction, TLAPS

(* The pipeline has at least one stage. *)
LEMMA LenPipeline == Len(Pipeline) \in Nat /\ 1 \in 0..Len(Pipeline) /\ Last \in 0..Last
BY OrchestratorAssumption DEF Last

(* The newest stored row is never beyond the history limit. *)
LEMMA StaleIsOld ==
  ASSUME RunsInOrder, TypeOK, NEW r \in Stale
  PROVE  r \in Stored /\ r < next - 1
<1>1. r \in Stored /\ r \in Runs /\ Cardinality({s \in Stored : s > r}) >= Keep
  BY DEF Stale, Stored
<1>2. next \in Nat /\ MaxRuns \in Nat /\ Keep \in Nat \ {0}
  BY OrchestratorAssumption DEF TypeOK
<1>3. ASSUME NEW s \in Stored PROVE s \in Nat /\ s < next
  BY <1>2 DEF Stored, RunsInOrder, Runs, Outcomes
<1>4. ASSUME r >= next - 1 PROVE FALSE
  <2>1. {s \in Stored : s > r} = {}
    <3>1. ASSUME NEW s \in Stored, s > r PROVE FALSE
      BY <3>1, <1>1, <1>2, <1>3, <1>4 DEF Runs
    <3> QED BY <3>1
  <2>2. Cardinality({s \in Stored : s > r}) = 0
    BY <2>1, FS_EmptySet
  <2> QED BY <1>1, <1>2, <2>2
<1> QED BY <1>1, <1>2, <1>4 DEF Runs

(* The initial states satisfy the inductive invariant. *)
LEMMA InitInv == Init => IInv
<1> SUFFICES ASSUME Init PROVE IInv OBVIOUS
<1> USE OrchestratorAssumption DEF Init
<1>1. (CHOOSE v \in Venues : TRUE) \in Venues BY Zenon
<1>2. TypeOK
  BY <1>1 DEF TypeOK, Runs, Last, Outcomes, Points
<1>3. RunsInOrder /\ JobsAwaited
  BY DEF RunsInOrder, JobsAwaited, Runs
<1>4. SingleDesk
  BY DEF SingleDesk, Executing, InTry, InHandler, Cancelled
<1>5. ActiveIsNewest /\ NewestKept /\ DoomedAreOld /\ OrphansNewest
  BY DEF ActiveIsNewest, NewestKept, DoomedAreOld, OrphansNewest
<1>6. SnapshotsHaveRows BY DEF SnapshotsHaveRows
<1> QED BY <1>2, <1>3, <1>4, <1>5, <1>6 DEF IInv

(* What a task may do by itself: move to another point, submit or await a   *)
(* job, stop being active.  Every step of _execute between two awaits that  *)
(* writes no row is of this kind.                                           *)
TaskMoves(r) ==
  /\ pc[r] # "none"
  /\ \E p \in Points \ {"none"}, w \in {"none", "queued"} :
       /\ w = "none" \/ p \in Jobs
       /\ p \in Executing => pc[r] \in Executing /\ active' = active
       /\ pc'   = [pc EXCEPT ![r] = p]
       /\ wait' = [wait EXCEPT ![r] = w]
  /\ active' \in {active, 0}
  /\ active # r => active' = active
  /\ step' \in [Runs -> 0..Len(Pipeline)]
  /\ told' \in [Runs -> 0..Last] /\ closed' \subseteq Runs
  /\ UNCHANGED <<mode, next, orphans>>

LEMMA TaskMovesKeep ==
  ASSUME IInv, NEW r \in Runs, TaskMoves(r)
  PROVE  /\ JobsAwaited' /\ SingleDesk' /\ ActiveIsNewest' /\ OrphansNewest'
         /\ pc' \in [Runs -> Points] /\ active' \in Runs \cup {0}
         /\ wait' \in [Runs -> {"none", "queued", "running", "done", "error"}]
         /\ \A s \in Runs : s >= next => pc'[s] = "none"
<1> USE DEF IInv, TypeOK, TaskMoves
<1>1. r < next
  BY OrchestratorAssumption DEF RunsInOrder, Runs
<1>2. PICK p \in Points \ {"none"}, w \in {"none", "queued"} :
         /\ w = "none" \/ p \in Jobs
         /\ p \in Executing => pc[r] \in Executing /\ active' = active
         /\ pc' = [pc EXCEPT ![r] = p] /\ wait' = [wait EXCEPT ![r] = w]
  OBVIOUS
<1>3. /\ pc' \in [Runs -> Points] /\ active' \in Runs \cup {0}
      /\ wait' \in [Runs -> {"none", "queued", "running", "done", "error"}]
  BY <1>2
<1>4. JobsAwaited' BY <1>2 DEF JobsAwaited
<1>5. SingleDesk' BY <1>2 DEF SingleDesk
<1>6. ActiveIsNewest' /\ OrphansNewest'
  BY DEF ActiveIsNewest, OrphansNewest
<1>7. \A s \in Runs : s >= next => pc'[s] = "none"
  BY <1>1, <1>2, OrchestratorAssumption DEF RunsInOrder, Runs
<1> QED BY <1>3, <1>4, <1>5, <1>6, <1>7

(* A task step that leaves the rows alone keeps the whole invariant. *)
LEMMA TaskMovesOnly ==
  ASSUME IInv, NEW r \in Runs, TaskMoves(r), UNCHANGED <<row, derived, doomed>>
  PROVE  IInv'
<1> USE DEF IInv, row, derived
<1>1. UNCHANGED <<mode, next, orphans>> BY DEF TaskMoves
<1>2. TypeOK' BY <1>1, TaskMovesKeep DEF TypeOK, TaskMoves
<1>3. RunsInOrder' BY <1>1, TaskMovesKeep DEF RunsInOrder
<1>4. NewestKept' /\ SnapshotsHaveRows' /\ DoomedAreOld'
  BY <1>1 DEF NewestKept, SnapshotsHaveRows, DoomedAreOld, Stored
<1> QED BY <1>2, <1>3, <1>4, TaskMovesKeep

(* What the commit of a job changes: no row appears, and only the rows a    *)
(* pruning has selected, which are old, go.                                 *)
LEMMA CommitEffect ==
  ASSUME IInv, NEW r \in Runs, NEW k \in Jobs, Commit(r, k), UNCHANGED next,
         k # "pruning" => r = next - 1
  PROVE  /\ status' \in [Runs -> Outcomes \cup {"none", "running", "pruned"}]
         /\ stage' \in [Runs -> 0..Last]
         /\ venue' = venue /\ snapshots' \subseteq Runs /\ notified' \subseteq Runs
         /\ doomed' \in [Runs -> SUBSET Runs]
         /\ \A s \in Runs : s < next <=> status'[s] # "none"
         /\ NewestKept' /\ DoomedAreOld' /\ SnapshotsHaveRows'
<1> USE OrchestratorAssumption DEF IInv, Commit, StageOf, Unrated, TypeOK
<1>1. status' \in [Runs -> Outcomes \cup {"none", "running", "pruned"}]
  BY DEF Outcomes
<1>2. stage' \in [Runs -> 0..Last]
  BY DEF Last
<1>3. /\ venue' = venue /\ snapshots' \subseteq Runs /\ notified' \subseteq Runs
      /\ doomed' \in [Runs -> SUBSET Runs]
  <2>1. venue' = venue /\ notified' \subseteq Runs
    <3>1. notified' \in {notified, notified \cup {r}} OBVIOUS
    <3> QED BY <3>1
  <2>2. snapshots' \subseteq Runs
    <3>1. snapshots' \in {snapshots, snapshots \cup {r}, snapshots \ doomed[r]}
      OBVIOUS
    <3> QED BY <3>1
  <2>3. doomed' \in [Runs -> SUBSET Runs]
    <3>1. CASE k = "pruning"
      <4>1. {} \in SUBSET Runs OBVIOUS
      <4>2. doomed' = [doomed EXCEPT ![r] = {}] BY <3>1
      <4> QED BY <4>1, <4>2
    <3>2. CASE k # "pruning"
      BY <3>2
    <3> QED BY <3>1, <3>2
  <2> QED BY <2>1, <2>2, <2>3
<1>4. \A s \in Runs : s < next <=> status'[s] # "none"
  <2>1. CASE k = "pruning"
    <3>1. ASSUME NEW s \in doomed[r] PROVE s < next /\ status[s] # "none"
      BY DEF RunsInOrder, DoomedAreOld, Runs
    <3>2. k \notin Recording
      BY <2>1 DEF Recording
    <3>3. \A s \in Runs : status'[s] = IF s \in doomed[r] THEN "pruned" ELSE status[s]
      BY <2>1, <3>2
    <3> QED BY <3>1, <3>3 DEF RunsInOrder
  <2>2. CASE k # "pruning"
    <3>1. r \in Stored => status[r] # "none"
      BY DEF Stored, Outcomes
    <3> QED BY <2>2, <3>1 DEF RunsInOrder, Recording
  <2> QED BY <2>1, <2>2
<1>5. DoomedAreOld'
  BY DEF DoomedAreOld
<1>6. ASSUME NEW s \in Stored, s \notin doomed[r] \/ k # "pruning"
      PROVE  s \in Stored'
  BY <1>6 DEF Stored, Outcomes
<1>7. NewestKept'
  BY <1>6 DEF NewestKept, DoomedAreOld, Runs
<1>8. SnapshotsHaveRows'
  <2>1. CASE k = "snapshotting"
    <3>1. r \in Stored
      BY <2>1 DEF NewestKept, Runs
    <3> QED BY <2>1, <3>1, <1>6 DEF SnapshotsHaveRows
  <2>2. CASE k # "snapshotting"
    BY <2>2, <1>6 DEF SnapshotsHaveRows
  <2> QED BY <2>1, <2>2
<1> QED BY <1>1, <1>2, <1>3, <1>4, <1>5, <1>7, <1>8

(* Cancelling tasks ends or redirects them and orphans the jobs that run. *)
LEMMA CancelAllKeeps ==
  ASSUME IInv, NEW points \in SUBSET (Points \ ({"none", "done"} \cup Cancelled)),
         CancelAll(points), mode' = "stopping", UNCHANGED <<next, active>>
  PROVE  /\ JobsAwaited' /\ SingleDesk' /\ OrphansNewest' /\ ActiveIsNewest'
         /\ pc' \in [Runs -> Points] /\ orphans' \subseteq Runs \X Jobs
         /\ wait' \in [Runs -> {"none", "queued", "running", "done", "error"}]
         /\ \A s \in Runs : s >= next => pc'[s] = "none"
<1> USE DEF IInv, TypeOK, CancelAll, Executing, InTry, InHandler, Cancelled
<1>1. pc' \in [Runs -> Points]
  BY DEF Points
<1>2. wait' \in [Runs -> {"none", "queued", "running", "done", "error"}]
  OBVIOUS
<1>3. ASSUME NEW o \in orphans', o \notin orphans
      PROVE  /\ o \in Runs \X Jobs
             /\ o[2] # "pruning" => o[1] = next - 1
  <2>1. PICK q \in Runs : o = <<q, pc[q]>> /\ wait[q] = "running"
    BY <1>3
  <2>2. pc[q] \in Jobs
    BY <2>1 DEF JobsAwaited
  <2>3. pc[q] # "pruning" => active = q
    BY <2>2 DEF SingleDesk, Jobs, Recording, Reporting, Following
  <2> QED BY <2>1, <2>2, <2>3 DEF ActiveIsNewest, Runs
<1>4. orphans' \subseteq Runs \X Jobs
  BY <1>3
<1>5. OrphansNewest'
  BY <1>3 DEF OrphansNewest
<1>6. JobsAwaited'
  <2>1. ASSUME NEW s \in Runs, wait'[s] # "none"
        PROVE  pc'[s] = pc[s] /\ wait'[s] = wait[s]
    <3>1. pc[s] \notin points
      BY <2>1
    <3>2. pc'[s] = pc[s]
      BY <3>1
    <3> QED BY <3>1, <3>2
  <2> QED BY <2>1 DEF JobsAwaited
<1>7. SingleDesk'
  BY DEF SingleDesk, Points
<1>8. ActiveIsNewest'
  BY DEF ActiveIsNewest
<1>9. \A s \in Runs : s >= next => pc'[s] = "none"
  BY DEF RunsInOrder
<1> QED BY <1>1, <1>2, <1>4, <1>5, <1>6, <1>7, <1>8, <1>9

(* The initial states satisfy the inductive invariant and every step keeps *)
(* it.                                                                     *)
LEMMA StepInv == IInv /\ [Next]_vars => IInv'
<1> SUFFICES ASSUME IInv, [Next]_vars PROVE IInv' OBVIOUS
<1> USE OrchestratorAssumption DEF vars, row, derived, task, bus
<1> DEFINE Untouched == UNCHANGED <<next, row, derived, doomed>>
<1>0. ASSUME Untouched, TypeOK', JobsAwaited', SingleDesk', ActiveIsNewest',
             OrphansNewest', \A s \in Runs : s >= next => pc'[s] = "none"
      PROVE  IInv'
  BY <1>0 DEF IInv, RunsInOrder, NewestKept, DoomedAreOld, SnapshotsHaveRows, Stored
<1>1. CASE Boot
  <2> USE <1>1 DEF Boot, Booked, Interrupted, IInv
  <2>1. TypeOK'
    <3>1. /\ status' \in [Runs -> Outcomes \cup {"none", "running", "pruned"}]
          /\ snapshots' \subseteq Runs
      BY DEF TypeOK, Outcomes
    <3>2. stage' \in [Runs -> 0..Last]
      BY LenPipeline DEF TypeOK
    <3> QED BY <3>1, <3>2 DEF TypeOK
  <2>2. RunsInOrder' /\ JobsAwaited' /\ SingleDesk' /\ ActiveIsNewest' /\ DoomedAreOld'
    BY DEF RunsInOrder, JobsAwaited, SingleDesk, ActiveIsNewest, DoomedAreOld
  <2>3. NewestKept' /\ SnapshotsHaveRows'
    BY DEF NewestKept, SnapshotsHaveRows, Stored, Outcomes
  <2>4. OrphansNewest'
    BY DEF OrphansNewest
  <2> QED BY <2>1, <2>2, <2>3, <2>4
<1>2. CASE Shutdown
  <2> USE <1>2 DEF Shutdown
  <2> DEFINE points == {"created", "pruning"} \cup InTry \cup InHandler
  <2>1. points \in SUBSET (Points \ ({"none", "done"} \cup Cancelled))
    BY DEF Points, Executing, Cancelled, InTry, InHandler
  <2>2. CancelAll(points) /\ mode' = "stopping" /\ UNCHANGED <<next, active>>
    OBVIOUS
  <2> HIDE DEF points
  <2>3. TypeOK'
    BY <2>1, <2>2, CancelAllKeeps DEF TypeOK, IInv
  <2> QED BY <2>1, <2>2, <2>3, <1>0, CancelAllKeeps
<1>3. CASE GraceExpires
  <2> USE <1>3 DEF GraceExpires
  <2>1. {"pruning"} \in SUBSET (Points \ ({"none", "done"} \cup Cancelled))
    BY DEF Points, Executing, Cancelled, InTry, InHandler
  <2>2. CancelAll({"pruning"}) /\ mode' = "stopping" /\ UNCHANGED <<next, active>>
    OBVIOUS
  <2>3. TypeOK'
    BY <2>1, <2>2, CancelAllKeeps DEF TypeOK, IInv
  <2> QED BY <2>1, <2>2, <2>3, <1>0, CancelAllKeeps
<1>4. ASSUME MemoryLost, mode' \in {"exited", "crashed"} PROVE IInv'
  <2> USE <1>4 DEF MemoryLost, IInv
  <2>1. TypeOK'
    BY DEF TypeOK, Last, Points
  <2>2. RunsInOrder' /\ JobsAwaited' /\ ActiveIsNewest' /\ DoomedAreOld' /\ OrphansNewest'
    BY DEF RunsInOrder, JobsAwaited, ActiveIsNewest, DoomedAreOld, OrphansNewest
  <2>3. SingleDesk'
    BY DEF SingleDesk, Executing, InTry, InHandler, Cancelled
  <2>4. NewestKept' /\ SnapshotsHaveRows'
    BY DEF NewestKept, SnapshotsHaveRows, Stored
  <2> QED BY <2>1, <2>2, <2>3, <2>4
<1>5. ASSUME NEW v \in Venues, Start(v) PROVE IInv'
  <2> USE <1>5 DEF Start, Idle, IInv
  <2>1. next \in Runs /\ next \in Nat /\ pc[next] = "none" /\ status[next] = "none"
    BY DEF TypeOK, RunsInOrder, Runs
  <2>2. TypeOK'
    <3>1. 0 \in 0..Last /\ next' \in 1..MaxRuns + 1
      BY <2>1, LenPipeline DEF TypeOK, Last, Runs
    <3>2. "created" \in Points /\ "running" \in Outcomes \cup {"none", "running", "pruned"}
      BY DEF Points, Executing
    <3> QED BY <2>1, <3>1, <3>2 DEF TypeOK
  <2>3. RunsInOrder' /\ NewestKept'
    BY <2>1 DEF TypeOK, RunsInOrder, NewestKept, Stored, Runs
  <2>4. JobsAwaited'
    BY <2>1 DEF TypeOK, JobsAwaited, Jobs, Recording, Reporting, Following
  <2>5. SingleDesk' /\ ActiveIsNewest'
    BY <2>1 DEF TypeOK, SingleDesk, ActiveIsNewest, Runs
  <2>6. DoomedAreOld'
    BY <2>1 DEF TypeOK, DoomedAreOld, Runs
  <2>7. OrphansNewest'
    BY DEF OrphansNewest
  <2>8. SnapshotsHaveRows'
    BY <2>1 DEF TypeOK, SnapshotsHaveRows, Stored
  <2> QED BY <2>2, <2>3, <2>4, <2>5, <2>6, <2>7, <2>8
<1>6. ASSUME NEW r \in Runs, ThreadBegins(r) PROVE IInv'
  <2> USE <1>6 DEF ThreadBegins, IInv
  <2>1. Stale \in SUBSET Runs /\ \A s \in Stale : s < next - 1
    BY StaleIsOld DEF Stored
  <2>2. doomed' \in [Runs -> SUBSET Runs] /\ DoomedAreOld'
    BY <2>1 DEF TypeOK, DoomedAreOld
  <2>3. TypeOK'
    BY <2>2 DEF TypeOK
  <2>4. RunsInOrder' /\ JobsAwaited' /\ SingleDesk' /\ ActiveIsNewest'
    BY DEF TypeOK, RunsInOrder, JobsAwaited, SingleDesk, ActiveIsNewest
  <2>5. NewestKept' /\ OrphansNewest' /\ SnapshotsHaveRows'
    BY DEF NewestKept, OrphansNewest, SnapshotsHaveRows, Stored
  <2> QED BY <2>2, <2>3, <2>4, <2>5
<1>7. ASSUME NEW r \in Runs, ThreadCommits(r) PROVE IInv'
  <2> USE <1>7 DEF ThreadCommits, IInv
  <2>1. pc[r] \in Jobs /\ (pc[r] # "pruning" => r = next - 1)
    BY DEF JobsAwaited, SingleDesk, ActiveIsNewest, Executing, InTry, InHandler,
           Jobs, Recording, Reporting, Following, Runs
  <2> HIDE DEF ThreadCommits
  <2>2. /\ Commit(r, pc[r]) /\ wait' = [wait EXCEPT ![r] = "done"]
        /\ UNCHANGED <<mode, next, active, pc, step, orphans, bus>>
    BY DEF ThreadCommits
  <2>3. TypeOK'
    BY <2>1, <2>2, CommitEffect DEF TypeOK
  <2>4. RunsInOrder' /\ NewestKept' /\ DoomedAreOld' /\ SnapshotsHaveRows'
    BY <2>1, <2>2, CommitEffect DEF RunsInOrder
  <2>5. JobsAwaited' /\ SingleDesk' /\ ActiveIsNewest' /\ OrphansNewest'
    BY <2>1, <2>2 DEF TypeOK, JobsAwaited, SingleDesk, ActiveIsNewest, OrphansNewest
  <2> QED BY <2>3, <2>4, <2>5
<1>8. ASSUME NEW r \in Runs, ThreadFails(r) PROVE IInv'
  <2> USE <1>8 DEF ThreadFails, IInv
  <2>1. {} \in SUBSET Runs OBVIOUS
  <2>2. doomed' \in [Runs -> SUBSET Runs] /\ DoomedAreOld'
    BY <2>1 DEF TypeOK, DoomedAreOld
  <2>3. TypeOK'
    BY <2>2 DEF TypeOK
  <2>4. RunsInOrder' /\ JobsAwaited' /\ SingleDesk' /\ ActiveIsNewest'
    BY DEF TypeOK, RunsInOrder, JobsAwaited, SingleDesk, ActiveIsNewest
  <2>5. NewestKept' /\ OrphansNewest' /\ SnapshotsHaveRows'
    BY DEF NewestKept, OrphansNewest, SnapshotsHaveRows, Stored
  <2> QED BY <2>2, <2>3, <2>4, <2>5
<1>9. ASSUME NEW r \in Runs, NEW k \in Jobs, OrphanCommits(r, k) PROVE IInv'
  <2> USE <1>9 DEF IInv
  <2>1. /\ Commit(r, k) /\ orphans' \subseteq orphans /\ <<r, k>> \in orphans
        /\ UNCHANGED <<mode, next, active, task, bus>>
    BY DEF OrphanCommits
  <2>2. k # "pruning" => r = next - 1
    BY <2>1 DEF OrphansNewest
  <2>3. TypeOK'
    BY <2>1, <2>2, CommitEffect DEF TypeOK
  <2>4. RunsInOrder' /\ NewestKept' /\ DoomedAreOld' /\ SnapshotsHaveRows'
    BY <2>1, <2>2, CommitEffect DEF RunsInOrder
  <2>5. JobsAwaited' /\ SingleDesk' /\ ActiveIsNewest' /\ OrphansNewest'
    BY <2>1 DEF JobsAwaited, SingleDesk, ActiveIsNewest, OrphansNewest
  <2> QED BY <2>3, <2>4, <2>5
<1>10. ASSUME NEW r \in Runs, NEW k \in Jobs, OrphanFails(r, k) PROVE IInv'
  <2> USE <1>10 DEF OrphanFails, IInv
  <2>1. {} \in SUBSET Runs OBVIOUS
  <2>2. doomed' \in [Runs -> SUBSET Runs] /\ DoomedAreOld'
    BY <2>1 DEF TypeOK, DoomedAreOld
  <2>3. TypeOK'
    BY <2>2 DEF TypeOK
  <2>4. RunsInOrder' /\ JobsAwaited' /\ SingleDesk' /\ ActiveIsNewest'
    BY DEF RunsInOrder, JobsAwaited, SingleDesk, ActiveIsNewest
  <2>5. NewestKept' /\ OrphansNewest' /\ SnapshotsHaveRows'
    BY DEF NewestKept, OrphansNewest, SnapshotsHaveRows, Stored
  <2> QED BY <2>2, <2>3, <2>4, <2>5
<1>11. ASSUME NEW r \in Runs, CancelHandled(r) PROVE IInv'
  <2> USE <1>11 DEF IInv
  <2>1. /\ pc[r] = "cancelled" /\ Finish(r) /\ UNCHANGED <<mode, next, step, orphans, told>>
        /\ Commit(r, "failing") \/ UNCHANGED <<row, derived, doomed>>
    BY DEF CancelHandled
  <2>2. TaskMoves(r)
    BY <2>1 DEF TaskMoves, Finish, Submit, TypeOK, Points, Jobs, Executing, InTry,
                InHandler, Cancelled
  <2>3. CASE Commit(r, "failing")
    <3>1. r = next - 1 /\ "failing" \in Jobs
      BY <2>1 DEF SingleDesk, ActiveIsNewest, Executing, Cancelled, Jobs, Recording, Runs
    <3>2. TypeOK'
      BY <2>1, <2>2, <2>3, <3>1, CommitEffect, TaskMovesKeep DEF TypeOK, TaskMoves
    <3>3. RunsInOrder' /\ NewestKept' /\ DoomedAreOld' /\ SnapshotsHaveRows'
      BY <2>1, <2>2, <2>3, <3>1, CommitEffect, TaskMovesKeep DEF RunsInOrder
    <3> QED BY <3>2, <3>3, <2>2, TaskMovesKeep
  <2>4. CASE UNCHANGED <<row, derived, doomed>>
    BY <2>2, <2>4, TaskMovesOnly
  <2> QED BY <2>1, <2>3, <2>4
<1>12. ASSUME NEW r \in Runs, TaskStep(r), ~CancelHandled(r) PROVE IInv'
  <2> USE <1>12 DEF IInv, TypeOK, Resumed, Submit, Finish
  <2>1. UNCHANGED <<row, derived, doomed>>
    BY DEF TaskStep, TaskBegins, StagePublished, WorkDone, Saved, Snapshotted, Announces,
           Reports, Then, Fails, OutcomePublished, FailureLost, Unwinds, Pruned
  <2> USE DEF TaskMoves, Points, Jobs, Executing, InTry, InHandler, Cancelled,
              Recording, Reporting, Following, Runs, Last
  <2>2. CASE TaskBegins(r) \/ StagePublished(r) \/ WorkDone(r)
    <3>1. CASE TaskBegins(r)
      BY <3>1, LenPipeline, TaskMovesOnly, <2>1 DEF TaskBegins
    <3>2. CASE StagePublished(r)
      <4>1. step[r] \in 0..Last
        BY LenPipeline
      <4> QED BY <3>2, <4>1, TaskMovesOnly, <2>1 DEF StagePublished
    <3>3. CASE WorkDone(r)
      <4>1. step' \in [Runs -> 0..Len(Pipeline)]
        <5>1. CASE step[r] < Len(Pipeline)
          <6>1. step[r] + 1 \in 0..Len(Pipeline)
            BY <5>1, LenPipeline
          <6>2. step' = [step EXCEPT ![r] = step[r] + 1]
            BY <3>3, <5>1 DEF WorkDone, MoreStages
          <6>3. step \in [Runs -> 0..Len(Pipeline)]
            OBVIOUS
          <6> QED BY <6>1, <6>2, <6>3
        <5>2. CASE ~(step[r] < Len(Pipeline))
          BY <3>3, <5>2 DEF WorkDone, MoreStages
        <5> QED BY <5>1, <5>2
      <4> QED BY <3>3, <4>1, TaskMovesOnly, <2>1 DEF WorkDone, MoreStages
    <3> QED BY <2>2, <3>1, <3>2, <3>3
  <2>3. CASE \/ Saved(r) \/ Snapshotted(r) \/ Announces(r) \/ Reports(r) \/ Fails(r)
    <3>1. CASE Saved(r)
      BY <3>1, TaskMovesOnly, <2>1 DEF Saved, Then
    <3>2. CASE Snapshotted(r)
      BY <3>2, TaskMovesOnly, <2>1 DEF Snapshotted, Then
    <3>3. CASE Announces(r)
      BY <3>3, TaskMovesOnly, <2>1 DEF Announces, Then
    <3>4. CASE Reports(r)
      BY <3>4, TaskMovesOnly, <2>1 DEF Reports, Then
    <3>5. CASE Fails(r)
      BY <3>5, TaskMovesOnly, <2>1 DEF Fails
    <3> QED BY <2>3, <3>1, <3>2, <3>3, <3>4, <3>5
  <2>4. CASE OutcomePublished(r) \/ FailureLost(r) \/ Unwinds(r) \/ Pruned(r)
    <3>1. CASE OutcomePublished(r)
      BY <3>1, LenPipeline, TaskMovesOnly, <2>1 DEF OutcomePublished
    <3>2. CASE FailureLost(r)
      BY <3>2, TaskMovesOnly, <2>1 DEF FailureLost
    <3>3. CASE Unwinds(r)
      BY <3>3, TaskMovesOnly, <2>1 DEF Unwinds
    <3>4. CASE Pruned(r)
      BY <3>4, TaskMovesOnly, <2>1 DEF Pruned
    <3> QED BY <2>4, <3>1, <3>2, <3>3, <3>4
  <2> QED BY <1>12, <2>2, <2>3, <2>4 DEF TaskStep
<1>13. CASE UNCHANGED vars
  BY <1>13 DEF IInv, TypeOK, RunsInOrder, JobsAwaited, SingleDesk, ActiveIsNewest,
               NewestKept, DoomedAreOld, OrphansNewest, SnapshotsHaveRows, Stored
<1>14. Exit \/ Crash => MemoryLost /\ mode' \in {"exited", "crashed"}
  BY DEF Exit, Crash
<1> QED
  BY <1>1, <1>2, <1>3, <1>4, <1>5, <1>6, <1>7, <1>8, <1>9, <1>10, <1>11, <1>12,
     <1>13, <1>14 DEF Next, ThreadStep

THEOREM Invariance == Spec => []IInv
BY InitInv, StepInv, PTL DEF Spec

(* Every variable has its type in every reachable state. *)
THEOREM TypeCorrect == Spec => []TypeOK
BY Invariance, PTL DEF IInv

(* Only one desk run executes at a time: the task of the active run is the  *)
(* only one between its creation and the end of its finally block.          *)
THEOREM OneDesk == Spec => []SingleDesk
BY Invariance, PTL DEF IInv

(* The row of the active run is never pruned, however long the prunings of  *)
(* earlier runs take and whatever the history limit is.                     *)
THEOREM ActiveKept == Spec => []ActiveRowKept
<1>1. IInv => ActiveRowKept
  BY OrchestratorAssumption DEF IInv, TypeOK, ActiveIsNewest, NewestKept, ActiveRowKept, Runs
<1> QED BY <1>1, Invariance, PTL

(* No rating snapshot outlives the row of its run. *)
THEOREM SnapshotsKept == Spec => []SnapshotsHaveRows
BY Invariance, PTL DEF IInv

(* Only the newest run can be written, and only by a live process. *)
LEMMA WritersNewest ==
  ASSUME IInv
  PROVE  /\ Writers \subseteq {next - 1}
         /\ mode \notin {"serving", "stopping"} => Writers = {}
         /\ mode = "serving" /\ active = 0 => Writers = {}
<1> USE DEF IInv, TypeOK, Writers, Recording
<1>1. ASSUME NEW r \in Writers
      PROVE  /\ r = next - 1 /\ mode \in {"serving", "stopping"}
             /\ mode = "serving" => active # 0
  <2>1. CASE pc[r] \in Executing
    BY <2>1 DEF SingleDesk, ActiveIsNewest, Runs
  <2>2. CASE \E k \in Recording : <<r, k>> \in orphans
    BY <2>2 DEF OrphansNewest
  <2> QED BY <2>1, <2>2
<1> QED BY <1>1

(* A step that writes no row and adds no writer is a Release or a stutter. *)
LEMMA Quiet ==
  ASSUME IInv, status' = status, Writers' \subseteq Writers
  PROVE  [Ledger!Next]_(Ledger!ledgerVars)
<1>1. Writers' = Writers \/ Writers' = {}
  BY WritersNewest
<1> QED BY <1>1 DEF Ledger!Next, Ledger!Release, Ledger!ledgerVars

(* The commit of a job settles the row of a writer, forgets old rows, or    *)
(* writes no row.                                                           *)
LEMMA CommitRefines ==
  ASSUME IInv, NEW r \in Runs, NEW k \in Jobs, Commit(r, k),
         k \in Recording => r \in Writers,
         Writers' \subseteq Writers, Writers \subseteq Writers' \cup {r},
         k = "pruning" => Writers' = Writers
  PROVE  [Ledger!Next]_(Ledger!ledgerVars)
<1> USE DEF IInv, TypeOK
<1>1. CASE k \in Recording /\ r \in Stored
  <2> DEFINE outcome == IF k = "saving" THEN "completed" ELSE "failed"
  <2>1. status' = [status EXCEPT ![r] = outcome] /\ outcome \in Ledger!Settled
    BY <1>1 DEF Commit, Recording, Ledger!Settled
  <2>2. r \in Writers \cap Ledger!Stored
    BY <1>1 DEF Stored, Outcomes, Ledger!Stored, Ledger!Settled, Ledger!Runs, Runs
  <2>3. Writers' \in {Writers, Writers \ {r}}
    BY <1>1
  <2>4. Ledger!Settle(r, outcome)
    BY <2>1, <2>2, <2>3 DEF Ledger!Settle
  <2>5. r \in Ledger!Runs
    BY DEF Ledger!Runs, Runs
  <2> QED BY <2>1, <2>4, <2>5 DEF Ledger!Next
<1>2. CASE k = "pruning"
  <2> DEFINE S == doomed[r] \cap Stored
  <2>1. status' = [s \in Runs |-> IF s \in S THEN "pruned" ELSE status[s]]
    <3>1. \A s \in doomed[r] : s \in Runs /\ (s \notin Stored => status[s] = "pruned")
      BY OrchestratorAssumption DEF Stored, Outcomes, DoomedAreOld, RunsInOrder, Runs
    <3>2. k \notin Recording
      BY <1>2 DEF Recording
    <3> QED BY <1>2, <3>1, <3>2 DEF Commit
  <2>2. \A s \in S : s < next - 1 /\ next - 1 \in Stored
    BY OrchestratorAssumption DEF DoomedAreOld, NewestKept, Runs
  <2>3. S \cap Writers = {}
    <3>1. ASSUME NEW s \in S, s \in Writers PROVE FALSE
      <4>1. s = next - 1
        BY <3>1, WritersNewest
      <4>2. s < next - 1
        BY <3>1, <2>2
      <4> QED BY <4>1, <4>2, OrchestratorAssumption DEF Runs
    <3> QED BY <3>1
  <2>4. S \in SUBSET Ledger!Stored /\ Stored = Ledger!Stored
    BY DEF Stored, Outcomes, Ledger!Stored, Ledger!Settled, Ledger!Runs, Runs
  <2>5. \A s \in S : next - 1 > s /\ next - 1 \in Ledger!Stored
    BY <2>2, <2>4, OrchestratorAssumption DEF Runs
  <2>6. Ledger!Forget(S)
    BY <1>2, <2>1, <2>3, <2>5 DEF Ledger!Forget, Ledger!Runs, Runs
  <2> QED BY <2>4, <2>6 DEF Ledger!Next
<1>3. CASE k # "pruning" /\ ~(k \in Recording /\ r \in Stored)
  BY <1>3, Quiet DEF Commit
<1> QED BY <1>1, <1>2, <1>3

(* A task step adds no writer. *)
LEMMA TaskStepWriters ==
  ASSUME NEW r \in Runs, TaskStep(r), IInv
  PROVE  Writers' \subseteq Writers /\ Writers \subseteq Writers' \cup {r}
<1> USE DEF IInv, TypeOK, Writers
<1>1. UNCHANGED orphans
  BY DEF TaskStep, TaskBegins, StagePublished, WorkDone, Saved, Snapshotted, Announces,
         Reports, Then, Fails, OutcomePublished, FailureLost, Unwinds, Pruned, CancelHandled
<1>2. \E p \in Points : /\ pc' = [pc EXCEPT ![r] = p]
                        /\ p \in Executing => pc[r] \in Executing
  BY DEF TaskStep, TaskBegins, StagePublished, WorkDone, Saved, Snapshotted, Announces,
         Reports, Then, Fails, OutcomePublished, FailureLost, Unwinds, Pruned, CancelHandled,
         Finish, Submit, Resumed, Points, Executing, InTry, InHandler, Cancelled, Following
<1> QED BY <1>1, <1>2

(* Every step of the desk is a step of its ledger, or changes nothing there. *)
LEMMA StepRefines ==
  ASSUME IInv, IInv', [Next]_vars
  PROVE  [Ledger!Next]_(Ledger!ledgerVars)
<1> USE DEF vars, row, derived, task, bus
<1>1. CASE Boot
  <2>1. Writers = {} /\ Writers' = {}
    BY <1>1, WritersNewest DEF Boot, Writers
  <2>2. Ledger!Recover
    BY <1>1, <2>1 DEF Boot, Interrupted, Ledger!Recover, Ledger!Runs, Runs
  <2> QED BY <2>2 DEF Ledger!Next
<1>2. ASSUME NEW points, CancelAll(points), UNCHANGED row, points \cap Cancelled = {},
             points \subseteq Points
      PROVE  [Ledger!Next]_(Ledger!ledgerVars)
  <2>1. ASSUME NEW r \in Runs, pc'[r] \in Executing PROVE pc[r] \in Executing
    BY <1>2, <2>1 DEF CancelAll, Executing, InTry, InHandler, Cancelled
  <2>2. ASSUME NEW r \in Runs, NEW k \in Recording, <<r, k>> \in orphans'
        PROVE  r \in Writers
    BY <1>2, <2>2 DEF CancelAll, Writers, Recording, Executing, InTry, InHandler
  <2>3. Writers' \subseteq Writers
    BY <2>1, <2>2 DEF Writers
  <2> QED BY <1>2, <2>3, Quiet
<1>3. CASE Shutdown
  <2>1. ({"created", "pruning"} \cup InTry \cup InHandler) \cap Cancelled = {}
    BY DEF InTry, InHandler, Cancelled
  <2>2. {"created", "pruning"} \cup InTry \cup InHandler \subseteq Points
    BY DEF Points, Executing
  <2> QED BY <1>2, <1>3, <2>1, <2>2 DEF Shutdown
<1>4. CASE GraceExpires
  <2>1. {"pruning"} \cap Cancelled = {} /\ {"pruning"} \subseteq Points
    BY DEF Cancelled, Points
  <2> QED BY <1>2, <1>4, <2>1 DEF GraceExpires
<1>5. CASE Exit \/ Crash
  <2>1. Writers' = {}
    BY <1>5, WritersNewest DEF Exit, Crash, MemoryLost, Writers, Executing, InTry, InHandler,
                               Cancelled
  <2> QED BY <1>5, <2>1, Quiet DEF Exit, Crash, MemoryLost
<1>6. ASSUME NEW v \in Venues, Start(v) PROVE [Ledger!Next]_(Ledger!ledgerVars)
  <2> USE <1>6 DEF IInv, TypeOK
  <2>1. next \in Ledger!Runs /\ next \in Nat /\ Writers = {} /\ Ledger!Runs = Runs
    <3>1. Writers = {}
      BY WritersNewest DEF Start, Idle
    <3>2. next \in Runs /\ next \in Nat
      BY OrchestratorAssumption DEF Start, Runs
    <3> QED BY <3>1, <3>2 DEF Ledger!Runs, Runs
  <2>2. Writers' = {next}
    <3>1. \A r \in Runs : pc'[r] \in Executing <=> r = next
      BY <2>1 DEF Start, Writers, Executing
    <3>2. \A r \in Runs, k \in Recording : <<r, k>> \notin orphans'
      BY <2>1 DEF Start, Writers
    <3> QED BY <2>1, <3>1, <3>2 DEF Writers
  <2>3. \A s \in Runs : s < next <=> status[s] # "none"
    BY DEF RunsInOrder
  <2>4. status[next] = "none"
    BY <2>1, <2>3
  <2>5. Ledger!Open(next)
    BY <2>1, <2>2, <2>3, <2>4 DEF Start, Ledger!Open
  <2> QED BY <2>1, <2>5 DEF Ledger!Next
<1>7. ASSUME NEW r \in Runs, ThreadBegins(r) \/ ThreadFails(r)
      PROVE [Ledger!Next]_(Ledger!ledgerVars)
  BY <1>7, Quiet DEF ThreadBegins, ThreadFails, Writers
<1>8. ASSUME NEW r \in Runs, ThreadCommits(r) PROVE [Ledger!Next]_(Ledger!ledgerVars)
  <2>1. Writers' = Writers /\ Commit(r, pc[r])
    BY <1>8 DEF ThreadCommits, Writers
  <2>2. pc[r] \in Jobs /\ (pc[r] \in Recording => r \in Writers)
    BY <1>8 DEF ThreadCommits, IInv, JobsAwaited, Writers, Recording, Executing, InTry, InHandler
  <2> QED BY <2>1, <2>2, CommitRefines
<1>9. ASSUME NEW r \in Runs, NEW k \in Jobs, OrphanCommits(r, k)
      PROVE [Ledger!Next]_(Ledger!ledgerVars)
  <2>1. Writers' \subseteq Writers /\ Writers \subseteq Writers' \cup {r}
    BY <1>9 DEF OrphanCommits, Writers
  <2>2. k = "pruning" => Writers' = Writers
    BY <1>9 DEF OrphanCommits, Writers, Recording
  <2>3. Commit(r, k) /\ (k \in Recording => r \in Writers)
    BY <1>9 DEF OrphanCommits, Writers
  <2> QED BY <2>1, <2>2, <2>3, CommitRefines
<1>10. ASSUME NEW r \in Runs, NEW k \in Jobs, OrphanFails(r, k)
       PROVE [Ledger!Next]_(Ledger!ledgerVars)
  <2>1. Writers' \subseteq Writers
    BY <1>10 DEF OrphanFails, Writers
  <2> QED BY <1>10, <2>1, Quiet DEF OrphanFails
<1>11. ASSUME NEW r \in Runs, TaskStep(r) PROVE [Ledger!Next]_(Ledger!ledgerVars)
  <2>1. CASE UNCHANGED status
    BY <1>11, <2>1, TaskStepWriters, Quiet
  <2>2. CASE CancelHandled(r) /\ Commit(r, "failing")
    <3>1. r \in Writers /\ "failing" \in Jobs
      BY <2>2 DEF CancelHandled, Writers, Executing, Cancelled, Jobs, Recording
    <3> QED BY <1>11, <2>2, <3>1, TaskStepWriters, CommitRefines
  <2>3. ~CancelHandled(r) => UNCHANGED status
    BY <1>11 DEF TaskStep, TaskBegins, StagePublished, WorkDone, Saved, Snapshotted,
      Announces, Reports, Then, Fails, OutcomePublished, FailureLost, Unwinds, Pruned
  <2> QED BY <2>1, <2>2, <2>3 DEF CancelHandled
<1>12. CASE UNCHANGED vars
  <2>1. Writers' = Writers
    BY <1>12 DEF Writers
  <2> QED BY <1>12, <2>1, Quiet
<1> QED
  BY <1>1, <1>3, <1>4, <1>5, <1>6, <1>7, <1>8, <1>9, <1>10, <1>11, <1>12
  DEF Next, ThreadStep

(* The desk implements the ledger of runs: one writer at a time, outcomes   *)
(* only from the writer, deletions only of old rows nobody writes, and      *)
(* recovery before anything else.                                           *)
THEOREM DeskKeepsLedger == Spec => LedgerSpec
<1>1. Init => Ledger!Init
  BY DEF Init, Ledger!Init, Ledger!Runs, Runs, Writers, Executing, InTry, InHandler, Cancelled
<1>2. IInv /\ IInv' /\ [Next]_vars => [Ledger!Next]_(Ledger!ledgerVars)
  BY StepRefines
<1> QED BY <1>1, <1>2, Invariance, PTL DEF Spec, LedgerSpec, Ledger!Spec

--------------------------------------------------------------------------------
(* The stream behind the store. *)

(* Where a task is that has left a job behind. *)
Detached == {"cancelled", "unwinding", "pruning", "done"}

(* What is told of a run was stored before: while the task is in its try    *)
(* block the step it has reached bounds what is told, a stage whose job is  *)
(* done is in the row, and a stage that an orphaned thread stores late is   *)
(* not behind what was told before the task was cancelled.                  *)
StreamOf(r) ==
  /\ r \in Stored => told[r] <= stage[r]
  /\ pc[r] \in {"none", "created"} => told[r] = 0 /\ step[r] = 0
  /\ pc[r] \notin {"pruning", "done"} => told[r] <= step[r]
  /\ pc[r] = "emitting" /\ wait[r] = "done" /\ r \in Stored => stage[r] = step[r]
  /\ pc[r] \in {"announcing", "reporting"} /\ wait[r] = "done" /\ r \in Stored => stage[r] = Last
  /\ \A k \in Jobs \ {"pruning"} : <<r, k>> \in orphans => pc[r] \in Detached
  /\ <<r, "emitting">> \in orphans => told[r] <= step[r]

StreamInv == \A r \in Runs : StreamOf(r)

LEMMA CommitStores ==
  ASSUME TypeOK, NEW r \in Runs, NEW k \in Jobs, Commit(r, k), NEW s \in Runs
  PROVE  /\ s \in Stored' => s \in Stored
         /\ stage'[s] = IF s = r /\ k \in Recording \cup Reporting /\ r \in Stored
                        THEN StageOf(r, k) ELSE stage[s]
<1>1. s \in Stored' => s \in Stored
  BY DEF TypeOK, Commit, Stored, Outcomes
<1>2. stage'[s] = IF s = r /\ k \in Recording \cup Reporting /\ r \in Stored
                  THEN StageOf(r, k) ELSE stage[s]
  BY DEF Commit
<1> QED BY <1>1, <1>2

(* A step of one run's task leaves the tasks of the others alone. *)
LEMMA OthersStay ==
  ASSUME TypeOK, NEW r \in Runs, TaskStep(r), NEW s \in Runs, s # r
  PROVE  /\ pc'[s] = pc[s] /\ wait'[s] = wait[s] /\ step'[s] = step[s]
         /\ told'[s] = told[s] /\ (s \in closed' <=> s \in closed)
<1> USE DEF TypeOK, Submit, Finish, row, derived, task, bus
<1>1. CASE TaskBegins(r)
  BY <1>1 DEF TaskBegins
<1>2. CASE StagePublished(r)
  BY <1>2 DEF StagePublished
<1>3. CASE WorkDone(r)
  BY <1>3 DEF WorkDone
<1>4. CASE Saved(r) \/ Snapshotted(r) \/ Announces(r) \/ Reports(r)
  BY <1>4 DEF Saved, Snapshotted, Announces, Reports, Then
<1>5. CASE Fails(r)
  BY <1>5 DEF Fails
<1>6. CASE OutcomePublished(r) \/ FailureLost(r)
  BY <1>6 DEF OutcomePublished, FailureLost
<1>7. CASE CancelHandled(r) \/ Unwinds(r) \/ Pruned(r)
  BY <1>7 DEF CancelHandled, Unwinds, Pruned
<1> QED BY <1>1, <1>2, <1>3, <1>4, <1>5, <1>6, <1>7 DEF TaskStep

LEMMA StreamStarts == Init => StreamInv
<1> SUFFICES ASSUME Init, NEW r \in Runs PROVE StreamOf(r)
  BY DEF StreamInv
<1>1. status[r] = "none" /\ told[r] = 0 /\ step[r] = 0 /\ pc[r] = "none" /\ orphans = {}
  BY DEF Init
<1> QED BY <1>1 DEF StreamOf, Stored, Outcomes

LEMMA StreamStep == IInv /\ StreamInv /\ [Next]_vars => StreamInv'
<1> SUFFICES ASSUME IInv, StreamInv, [Next]_vars, NEW s \in Runs PROVE StreamOf(s)'
  BY DEF StreamInv
<1> USE DEF row, derived, task, bus
<1>1. TypeOK /\ StreamOf(s) /\ Last \in Nat /\ Len(Pipeline) \in Nat /\ Last = Len(Pipeline) + 1
  BY LenPipeline DEF IInv, StreamInv, Last
<1>2. /\ told[s] \in 0..Last /\ step[s] \in 0..Len(Pipeline) /\ stage[s] \in 0..Last
      /\ pc[s] \in Points
  BY <1>1 DEF TypeOK
<1>3. CASE Boot
  <2>1. /\ UNCHANGED <<told, step, pc, wait, orphans>>
        /\ stage'[s] = IF status[s] = "running" THEN Last ELSE stage[s]
        /\ s \in Stored' => s \in Stored
        /\ pc[s] \notin Executing
    BY <1>1, <1>3 DEF Boot, Interrupted, Stored, Outcomes, IInv, SingleDesk, ActiveIsNewest, Runs
  <2> QED BY <1>1, <1>2, <2>1 DEF StreamOf, Executing, InTry, InHandler
<1>4. ASSUME NEW points, CancelAll(points), UNCHANGED <<row, step, told>>,
             points \cap {"none", "done", "cancelled", "unwinding"} = {}
      PROVE  StreamOf(s)'
  <2>1. Stored' = Stored
    BY <1>4 DEF Stored
  <2>2. CASE pc[s] \notin points
    <3>1. pc'[s] = pc[s] /\ wait'[s] = wait[s]
      BY <1>4, <2>2 DEF CancelAll
    <3>2. \A k : <<s, k>> \in orphans' => <<s, k>> \in orphans
      BY <1>4, <2>2 DEF CancelAll
    <3> QED BY <1>1, <1>4, <2>1, <3>1, <3>2 DEF StreamOf
  <2>3. CASE pc[s] \in points
    <3>1. /\ pc'[s] \in Detached /\ wait'[s] = "none"
          /\ pc[s] = "pruning" => pc'[s] = "done"
      BY <1>4, <2>3 DEF CancelAll, Detached, InTry, InHandler
    <3>2. \A k : <<s, k>> \in orphans' => <<s, k>> \in orphans \/ k = pc[s]
      BY <1>4, <2>3 DEF CancelAll
    <3>3. pc[s] \notin {"none", "done", "cancelled", "unwinding"}
      BY <1>4, <2>3
    <3>4. UNCHANGED <<told, step, stage>>
      BY <1>4
    <3>5. /\ s \in Stored' => told'[s] <= stage'[s]
          /\ pc'[s] \notin {"none", "created", "emitting", "announcing", "reporting"}
      BY <1>1, <2>1, <3>1, <3>4 DEF StreamOf, Detached
    <3>6. pc'[s] \notin {"pruning", "done"} => told'[s] <= step'[s]
      BY <1>1, <3>1, <3>3, <3>4 DEF StreamOf
    <3>7. <<s, "emitting">> \in orphans' => told'[s] <= step'[s]
      <4>1. CASE pc[s] = "emitting"
        BY <1>1, <3>4, <4>1 DEF StreamOf
      <4> QED BY <1>1, <3>2, <3>4, <4>1 DEF StreamOf
    <3> QED BY <3>1, <3>5, <3>6, <3>7 DEF StreamOf
  <2> QED BY <2>2, <2>3
<1>5. CASE Shutdown \/ GraceExpires
  BY <1>4, <1>5 DEF Shutdown, GraceExpires, InTry, InHandler
<1>6. CASE Exit \/ Crash
  <2>1. MemoryLost
    BY <1>6 DEF Exit, Crash
  <2>2. /\ pc'[s] \in {"none", "done"} /\ step'[s] = 0 /\ told'[s] = 0 /\ orphans' = {}
        /\ UNCHANGED row
    BY <2>1 DEF MemoryLost
  <2> QED BY <1>2, <2>2 DEF StreamOf, Stored
<1>7. ASSUME NEW v \in Venues, Start(v) PROVE StreamOf(s)'
  <2>1. /\ UNCHANGED <<told, step, wait, orphans>> /\ next \in Runs
        /\ status' = [status EXCEPT ![next] = "running"]
        /\ stage' = [stage EXCEPT ![next] = 0] /\ pc' = [pc EXCEPT ![next] = "created"]
    BY <1>1, <1>7, OrchestratorAssumption DEF Start, TypeOK, Runs
  <2>2. CASE s = next
    <3>1. pc[s] = "none" /\ pc'[s] = "created" /\ stage'[s] = 0
      BY <1>1, <2>1, <2>2 DEF IInv, RunsInOrder, TypeOK, Runs
    <3> QED BY <1>1, <2>1, <3>1 DEF StreamOf, Detached
  <2>3. CASE s # next
    <3>1. pc'[s] = pc[s] /\ stage'[s] = stage[s] /\ (s \in Stored' <=> s \in Stored)
      BY <1>1, <2>1, <2>3 DEF TypeOK, Stored
    <3> QED BY <1>1, <2>1, <3>1 DEF StreamOf
  <2> QED BY <2>2, <2>3
<1>8. ASSUME NEW r \in Runs, ThreadBegins(r) \/ ThreadFails(r) PROVE StreamOf(s)'
  <2>1. /\ UNCHANGED <<told, step, pc, status, stage, orphans>> /\ Stored' = Stored
        /\ wait'[s] = "done" => wait[s] = "done"
    BY <1>1, <1>8 DEF ThreadBegins, ThreadFails, Stored, TypeOK
  <2> QED BY <1>1, <2>1 DEF StreamOf
<1>9. ASSUME NEW r \in Runs, ThreadCommits(r) PROVE StreamOf(s)'
  <2>1. /\ UNCHANGED <<told, step, pc, orphans>> /\ Commit(r, pc[r]) /\ pc[r] \in Jobs
        /\ wait[r] = "running" /\ wait' = [wait EXCEPT ![r] = "done"]
    BY <1>9 DEF ThreadCommits, IInv, JobsAwaited
  <2>2. /\ s \in Stored' => s \in Stored
        /\ stage'[s] = IF s = r /\ pc[r] \in Recording \cup Reporting /\ r \in Stored
                       THEN StageOf(r, pc[r]) ELSE stage[s]
    BY <1>1, <2>1, CommitStores
  <2>3. CASE s # r
    <3>1. wait'[s] = wait[s] /\ stage'[s] = stage[s]
      BY <1>1, <2>1, <2>2, <2>3 DEF TypeOK
    <3> QED BY <1>1, <2>1, <2>2, <3>1 DEF StreamOf
  <2>4. CASE s = r
    BY <1>1, <1>2, <2>1, <2>2, <2>4 DEF StreamOf, StageOf, Recording, Reporting
  <2> QED BY <2>3, <2>4
<1>10. ASSUME NEW r \in Runs, NEW k \in Jobs, OrphanCommits(r, k) PROVE StreamOf(s)'
  <2>1. /\ UNCHANGED <<told, step, pc, wait>> /\ Commit(r, k) /\ <<r, k>> \in orphans
        /\ orphans' \subseteq orphans
    BY <1>10 DEF OrphanCommits
  <2>2. /\ s \in Stored' => s \in Stored
        /\ stage'[s] = IF s = r /\ k \in Recording \cup Reporting /\ r \in Stored
                       THEN StageOf(r, k) ELSE stage[s]
    BY <1>1, <2>1, CommitStores
  <2>3. CASE stage'[s] = stage[s]
    BY <1>1, <2>1, <2>2, <2>3 DEF StreamOf
  <2>4. CASE s = r /\ k \in Recording \cup Reporting
    <3>1. pc[s] \in Detached
      BY <1>1, <2>1, <2>4 DEF StreamOf, Recording, Reporting
    <3> QED BY <1>1, <1>2, <2>1, <2>2, <2>4, <3>1
            DEF StreamOf, StageOf, Recording, Reporting, Detached
  <2> QED BY <2>2, <2>3, <2>4
<1>11. ASSUME NEW r \in Runs, NEW k \in Jobs, OrphanFails(r, k) PROVE StreamOf(s)'
  <2>1. /\ UNCHANGED <<told, step, pc, wait, status, stage>> /\ Stored' = Stored
        /\ orphans' \subseteq orphans
    BY <1>11 DEF OrphanFails, Stored
  <2> QED BY <1>1, <2>1 DEF StreamOf
<1>12. ASSUME NEW r \in Runs, CancelHandled(r) PROVE StreamOf(s)'
  <2>1. /\ UNCHANGED <<told, step, orphans>> /\ pc[r] = "cancelled"
        /\ pc' = [pc EXCEPT ![r] = "pruning"] /\ wait' = [wait EXCEPT ![r] = "queued"]
    BY <1>12 DEF CancelHandled, Finish, Submit
  <2>2. /\ s \in Stored' => s \in Stored
        /\ stage'[s] \in {stage[s], Last}
    <3>1. CASE Commit(r, "failing")
      BY <1>1, <3>1, CommitStores DEF Jobs, Recording, StageOf
    <3>2. CASE UNCHANGED row
      BY <3>2 DEF Stored
    <3> QED BY <1>12, <3>1, <3>2 DEF CancelHandled
  <2>3. CASE s = r
    <3>1. pc'[s] = "pruning" /\ pc[s] = "cancelled"
      BY <1>1, <2>1, <2>3 DEF TypeOK
    <3> QED BY <1>1, <1>2, <2>1, <2>2, <3>1 DEF StreamOf, Detached
  <2>4. CASE s # r
    <3>1. pc'[s] = pc[s] /\ wait'[s] = wait[s] /\ stage'[s] = stage[s]
      <4>1. pc'[s] = pc[s] /\ wait'[s] = wait[s]
        BY <1>1, <2>1, <2>4 DEF TypeOK
      <4>2. stage'[s] = stage[s]
        <5>1. CASE Commit(r, "failing")
          BY <1>1, <2>4, <5>1, CommitStores DEF Jobs, Recording
        <5> QED BY <1>12, <5>1 DEF CancelHandled
      <4> QED BY <4>1, <4>2
    <3> QED BY <1>1, <2>1, <2>2, <3>1 DEF StreamOf
  <2> QED BY <2>3, <2>4
<1>13. ASSUME NEW r \in Runs, TaskStep(r), ~CancelHandled(r) PROVE StreamOf(s)'
  <2>1. UNCHANGED <<status, stage, orphans>> /\ Stored' = Stored
    BY <1>13 DEF TaskStep, TaskBegins, StagePublished, WorkDone, Saved, Snapshotted, Announces,
           Reports, Then, Fails, OutcomePublished, FailureLost, Unwinds, Pruned, Stored
  <2>2. CASE s # r
    <3>1. pc'[s] = pc[s] /\ wait'[s] = wait[s] /\ step'[s] = step[s] /\ told'[s] = told[s]
      BY <1>1, <1>13, <2>2, OthersStay
    <3> QED BY <1>1, <2>1, <3>1 DEF StreamOf
  <2>3. CASE s = r
    <3> USE <1>1, <1>2, <2>1, <2>3 DEF TypeOK, Resumed, Submit, Finish, StreamOf, Detached, Jobs,
          Recording, Reporting, Following
    <3>1. CASE TaskBegins(s)
      BY <3>1 DEF TaskBegins
    <3>2. CASE StagePublished(s)
      BY <3>2 DEF StagePublished
    <3>3. CASE WorkDone(s)
      BY <3>3 DEF WorkDone, MoreStages
    <3>4. CASE Saved(s) \/ Snapshotted(s) \/ Announces(s) \/ Reports(s)
      BY <3>4 DEF Saved, Snapshotted, Announces, Reports, Then
    <3>5. CASE Fails(s)
      BY <3>5 DEF Fails
    <3>6. CASE OutcomePublished(s)
      BY <3>6 DEF OutcomePublished
    <3>7. CASE FailureLost(s)
      BY <3>7 DEF FailureLost, InHandler
    <3>8. CASE Unwinds(s) \/ Pruned(s)
      BY <3>8 DEF Unwinds, Pruned
    <3> QED BY <1>13, <3>1, <3>2, <3>3, <3>4, <3>5, <3>6, <3>7, <3>8 DEF TaskStep
  <2> QED BY <2>2, <2>3
<1>14. CASE UNCHANGED vars
  BY <1>1, <1>14 DEF vars, StreamOf, Stored
<1> QED
  BY <1>3, <1>5, <1>6, <1>7, <1>8, <1>9, <1>10, <1>11, <1>12, <1>13, <1>14
  DEF Next, ThreadStep

(* _emit stores a stage before it publishes it: whoever reads the run after *)
(* an event finds the row at that stage or beyond, also while the threads   *)
(* of a cancelled task still write.                                         *)
THEOREM StreamIsBehind == Spec => []StreamBehindStore
<1>1. StreamInv => StreamBehindStore
  BY DEF StreamInv, StreamOf, StreamBehindStore, Stored
<1> QED BY <1>1, StreamStarts, StreamStep, Invariance, PTL DEF Spec

--------------------------------------------------------------------------------
(* What the end of the stream says, with a working database. *)

(* The task of a run settles it once: until its outcome is written the row  *)
(* has none, from then on the row does not run, and only a server that      *)
(* stops closes a run whose row may still run.                              *)
SettledOf(r) ==
  /\ wait[r] # "error"
  /\ pc[r] \notin {"none", "done"} => mode \in {"serving", "stopping"}
  /\ pc[r] \in Cancelled => mode = "stopping"
  /\ r \in closed => pc[r] \in {"pruning", "done"} /\ mode \in {"serving", "stopping"}
  /\ pc[r] \in {"created", "emitting", "working"} => status[r] \notin Outcomes
  /\ pc[r] \in Recording /\ wait[r] # "done" => status[r] \notin Outcomes
  /\ pc[r] \in Recording /\ wait[r] = "done" => status[r] # "running"
  /\ pc[r] \in {"snapshotting", "notifying", "announcing", "reporting"} => status[r] # "running"
  /\ mode = "serving" /\ r \in closed => status[r] # "running"

SettledInv == \A r \in Runs : SettledOf(r)

LEMMA CommitSettles ==
  ASSUME TypeOK, NEW r \in Runs, NEW k, Commit(r, k), NEW s \in Runs
  PROVE  /\ \/ status'[s] = status[s]
            \/ status'[s] = "pruned" /\ k = "pruning" /\ s \in doomed[r]
            \/ status'[s] \in Outcomes /\ s = r /\ k \in Recording
         /\ status[s] # "running" => status'[s] # "running"
         /\ k \in Recording => status'[r] # "running"
<1>1. status'[s] = IF s \in (IF k = "pruning" THEN doomed[r] ELSE {}) THEN "pruned"
                   ELSE IF s = r /\ k \in Recording /\ r \in Stored
                   THEN (IF k = "saving" THEN "completed" ELSE "failed") ELSE status[s]
  BY DEF Commit
<1>2. k \in Recording => status'[r] = IF r \in Stored
                                      THEN (IF k = "saving" THEN "completed" ELSE "failed")
                                      ELSE status[r]
  BY DEF Commit, Recording
<1>3. r \notin Stored => status[r] # "running"
  BY DEF Stored
<1> QED BY <1>1, <1>2, <1>3 DEF Outcomes

LEMMA SettledStarts == Init => SettledInv
<1> SUFFICES ASSUME Init, NEW r \in Runs PROVE SettledOf(r)
  BY DEF SettledInv
<1>1. wait[r] = "none" /\ pc[r] = "none" /\ closed = {}
  BY DEF Init
<1> QED BY <1>1 DEF SettledOf, Cancelled, Recording

LEMMA SettledStep ==
  ASSUME "store" \notin Faults
  PROVE  IInv /\ StreamInv /\ SettledInv /\ [Next]_vars => SettledInv'
<1> SUFFICES ASSUME IInv, StreamInv, SettledInv, [Next]_vars, NEW s \in Runs
             PROVE  SettledOf(s)'
  BY DEF SettledInv
<1> USE DEF row, derived, task, bus
<1>1. TypeOK /\ StreamOf(s) /\ SettledOf(s)
  BY DEF IInv, StreamInv, SettledInv
<1>2. /\ pc[s] \in Points /\ status[s] \in Outcomes \cup {"none", "running", "pruned"}
      /\ mode \in {"serving", "stopping", "exited", "crashed"}
  BY <1>1 DEF TypeOK
<1>3. CASE Boot
  <2>1. /\ UNCHANGED <<pc, wait, closed>> /\ mode \notin {"serving", "stopping"}
        /\ mode' = "serving"
    BY <1>3 DEF Boot
  <2>2. pc[s] \in {"none", "done"} /\ s \notin closed
    BY <1>1, <2>1 DEF SettledOf
  <2> QED BY <1>1, <2>1, <2>2 DEF SettledOf, Cancelled, Recording
<1>4. ASSUME NEW points, CancelAll(points), UNCHANGED <<row, closed>>, mode' = "stopping",
             points \cap {"none", "done", "cancelled", "unwinding"} = {},
             mode \in {"serving", "stopping"}
      PROVE  SettledOf(s)'
  <2>1. CASE pc[s] \notin points
    <3>1. pc'[s] = pc[s] /\ wait'[s] = wait[s]
      BY <1>4, <2>1 DEF CancelAll
    <3> QED BY <1>1, <1>4, <3>1 DEF SettledOf
  <2>2. CASE pc[s] \in points
    <3>1. pc'[s] \in {"cancelled", "unwinding", "done"} /\ wait'[s] = "none"
      BY <1>4, <2>2 DEF CancelAll
    <3>2. pc[s] # "pruning" => pc[s] \notin {"pruning", "done"}
      BY <1>4, <2>2
    <3>3. s \in closed => pc[s] = "pruning" /\ pc'[s] = "done"
      BY <1>1, <1>4, <2>2, <3>2 DEF CancelAll, SettledOf, InTry, InHandler
    <3>4. mode' = "stopping" /\ (s \in closed' <=> s \in closed)
      BY <1>4
    <3> QED BY <3>1, <3>3, <3>4 DEF SettledOf, Cancelled, Recording
  <2> QED BY <2>1, <2>2
<1>5. CASE Shutdown \/ GraceExpires
  BY <1>4, <1>5 DEF Shutdown, GraceExpires, InTry, InHandler
<1>6. CASE Exit \/ Crash
  <2>1. /\ MemoryLost
        /\ mode' \in {"exited", "crashed"}
    BY <1>6 DEF Exit, Crash
  <2>2. /\ pc'[s] \in {"none", "done"} /\ wait'[s] = "none" /\ closed' = {}
    BY <2>1 DEF MemoryLost
  <2> QED BY <2>1, <2>2 DEF SettledOf, Cancelled, Recording
<1>7. ASSUME NEW v \in Venues, Start(v) PROVE SettledOf(s)'
  <2>1. /\ UNCHANGED <<mode, wait, closed>> /\ next \in Runs /\ mode = "serving"
        /\ status' = [status EXCEPT ![next] = "running"]
        /\ pc' = [pc EXCEPT ![next] = "created"]
    BY <1>1, <1>7, OrchestratorAssumption DEF Start, TypeOK, Runs
  <2>2. CASE s = next
    <3>1. pc[s] = "none" /\ pc'[s] = "created" /\ status'[s] = "running"
      BY <1>1, <2>1, <2>2 DEF IInv, RunsInOrder, TypeOK, Runs
    <3>2. s \notin closed
      BY <1>1, <3>1 DEF SettledOf
    <3> QED BY <1>1, <2>1, <3>1, <3>2 DEF SettledOf, Cancelled, Recording, Outcomes
  <2>3. CASE s # next
    <3>1. pc'[s] = pc[s] /\ status'[s] = status[s]
      BY <1>1, <2>1, <2>3 DEF TypeOK
    <3> QED BY <1>1, <2>1, <3>1 DEF SettledOf
  <2> QED BY <2>2, <2>3
<1>8. ASSUME NEW r \in Runs, ThreadBegins(r) PROVE SettledOf(s)'
  <2>1. /\ UNCHANGED <<mode, pc, status, closed>>
        /\ wait' = [wait EXCEPT ![r] = "running"] /\ wait[r] = "queued"
    BY <1>8 DEF ThreadBegins
  <2>2. /\ wait'[s] # "error"
        /\ wait'[s] = "done" <=> wait[s] = "done"
    BY <1>1, <2>1 DEF TypeOK, SettledOf
  <2> QED BY <1>1, <2>1, <2>2 DEF SettledOf
<1>9. ASSUME NEW r \in Runs, ThreadCommits(r) PROVE SettledOf(s)'
  <2>1. /\ UNCHANGED <<mode, pc, closed>> /\ Commit(r, pc[r])
        /\ wait' = [wait EXCEPT ![r] = "done"] /\ wait[r] = "running"
    BY <1>9 DEF ThreadCommits
  <2>2. /\ \/ status'[s] = status[s]
           \/ status'[s] = "pruned"
           \/ status'[s] \in Outcomes /\ s = r /\ pc[s] \in Recording
        /\ status[s] # "running" => status'[s] # "running"
        /\ pc[r] \in Recording => status'[r] # "running"
    BY <1>1, <2>1, CommitSettles
  <2>3. CASE s = r
    <3>1. wait'[s] = "done"
      BY <1>1, <2>1, <2>3 DEF TypeOK
    <3> QED BY <1>1, <2>1, <2>2, <2>3, <3>1 DEF SettledOf, Recording, Outcomes
  <2>4. CASE s # r
    <3>1. wait'[s] = wait[s]
      BY <1>1, <2>1, <2>4 DEF TypeOK
    <3> QED BY <1>1, <2>1, <2>2, <2>4, <3>1 DEF SettledOf, Outcomes
  <2> QED BY <2>3, <2>4
<1>10. ASSUME NEW r \in Runs, NEW k \in Jobs, OrphanCommits(r, k) PROVE SettledOf(s)'
  <2>1. /\ UNCHANGED <<mode, pc, wait, closed>> /\ Commit(r, k) /\ <<r, k>> \in orphans
    BY <1>10 DEF OrphanCommits
  <2>2. /\ \/ status'[s] = status[s]
           \/ status'[s] = "pruned"
           \/ status'[s] \in Outcomes /\ s = r /\ k \in Recording
        /\ status[s] # "running" => status'[s] # "running"
    BY <1>1, <2>1, CommitSettles
  <2>3. s = r /\ k \in Recording => pc[s] \in Detached
    BY <1>1, <2>1 DEF StreamOf, Recording
  <2> QED BY <1>1, <2>1, <2>2, <2>3 DEF SettledOf, Outcomes, Detached, Recording
<1>11. ASSUME NEW r \in Runs, TaskStep(r), s # r PROVE SettledOf(s)'
  <2>1. pc'[s] = pc[s] /\ wait'[s] = wait[s] /\ (s \in closed' <=> s \in closed)
    BY <1>1, <1>11, OthersStay
  <2>2. mode' = mode
    BY <1>11 DEF TaskStep, TaskBegins, StagePublished, WorkDone, Saved, Snapshotted, Announces,
           Reports, Then, Fails, OutcomePublished, FailureLost, CancelHandled, Unwinds, Pruned
  <2>3. status'[s] = status[s]
    <3>1. CASE CancelHandled(r) /\ Commit(r, "failing")
      BY <1>1, <1>11, <3>1, CommitSettles
    <3> QED BY <1>11, <3>1 DEF TaskStep, TaskBegins, StagePublished, WorkDone, Saved,
              Snapshotted, Announces, Reports, Then, Fails, OutcomePublished, FailureLost,
              CancelHandled, Unwinds, Pruned
  <2> QED BY <1>1, <2>1, <2>2, <2>3 DEF SettledOf
<1>12. CASE TaskStep(s)
  <2> USE <1>1, <1>2 DEF TypeOK, Resumed, Submit, Finish, SettledOf, Recording, Following,
        Cancelled, Outcomes
  <2>1. CASE TaskBegins(s)
    BY <2>1 DEF TaskBegins
  <2>2. CASE StagePublished(s)
    BY <2>2 DEF StagePublished
  <2>3. CASE WorkDone(s)
    BY <2>3 DEF WorkDone, MoreStages
  <2>4. CASE Saved(s) \/ Snapshotted(s) \/ Announces(s) \/ Reports(s)
    BY <2>4 DEF Saved, Snapshotted, Announces, Reports, Then
  <2>5. CASE Fails(s)
    BY <2>5 DEF Fails
  <2>6. CASE OutcomePublished(s)
    BY <2>6 DEF OutcomePublished
  <2>7. CASE FailureLost(s)
    BY <2>7 DEF FailureLost, InHandler
  <2>8. CASE Unwinds(s) \/ Pruned(s)
    BY <2>8 DEF Unwinds, Pruned
  <2>9. CASE CancelHandled(s)
    BY <2>9 DEF CancelHandled
  <2> QED BY <1>12, <2>1, <2>2, <2>3, <2>4, <2>5, <2>6, <2>7, <2>8, <2>9 DEF TaskStep
<1>13. CASE UNCHANGED vars
  BY <1>1, <1>13 DEF vars, SettledOf
<1> QED
  BY <1>3, <1>5, <1>6, <1>7, <1>8, <1>9, <1>10, <1>11, <1>12, <1>13
  DEF Next, ThreadStep, ThreadFails, OrphanFails

LEMMA SettledHolds == ASSUME "store" \notin Faults PROVE Spec => []SettledInv
  BY StreamStarts, StreamStep, SettledStarts, SettledStep, Invariance, PTL DEF Spec

(* With a working database a client of a serving desk that saw the bus      *)
(* close a run never reads the run as running: every way to the finally     *)
(* block but a cancellation goes through the write of an outcome.           *)
THEOREM ClosedIsSettled ==
  ASSUME "store" \notin Faults
  PROVE  Spec => []ClosedMeansSettled
<1>1. TypeOK /\ SettledInv => ClosedMeansSettled
  BY DEF TypeOK, SettledInv, SettledOf, ClosedMeansSettled
<1>2. IInv => TypeOK
  BY DEF IInv
<1> QED BY <1>1, <1>2, SettledHolds, Invariance, PTL

--------------------------------------------------------------------------------
(* The history limit, with a working database. *)

LEMMA StoredFinite == IsFiniteSet(Stored) /\ Stored \subseteq Nat
<1>1. IsFiniteSet(Runs) /\ Runs \subseteq Nat
  BY FS_Interval, OrchestratorAssumption DEF Runs
<1>2. Stored \subseteq Runs
  BY DEF Stored
<1> QED BY <1>1, <1>2, FS_Subset

(* Some runs have a first and a last one.  The intervals that begin with 1  *)
(* are finite sets, so one of those that end at these runs has none of the  *)
(* others within it; the last run is the first one from the other end.      *)
LEMMA FirstOf ==
  ASSUME NEW n \in Nat, NEW S \in SUBSET (1..n), S # {}
  PROVE  \E p \in S : \A q \in S : p <= q
<1> DEFINE T == {1..p : p \in S}
<1>1. T \subseteq FiniteSubsetsOf(1..n) /\ T # {}
  <2>1. \A p \in S : 1..p \subseteq 1..n /\ IsFiniteSet(1..p)
    BY FS_Interval
  <2> QED BY <2>1 DEF FiniteSubsetsOf
<1>2. IsWellFoundedOn(StrictSubsetOrdering(1..n), FiniteSubsetsOf(1..n))
  BY FS_StrictSubsetOrderingWellFounded
<1>3. PICK x \in T : \A y \in T : ~(<<y, x>> \in StrictSubsetOrdering(1..n))
  <2> HIDE DEF T
  <2> QED BY <1>1, <1>2, WFMin
<1>4. PICK p \in S : x = 1..p
  OBVIOUS
<1>5. ASSUME NEW q \in S, q < p PROVE FALSE
  <2>1. /\ 1..q \subseteq 1..p /\ p \in 1..p /\ p \notin 1..q
        /\ 1..q \subseteq 1..n /\ 1..p \subseteq 1..n
    BY <1>5
  <2>2. <<1..q, 1..p>> \in StrictSubsetOrdering(1..n)
    BY <2>1 DEF StrictSubsetOrdering
  <2> QED BY <1>3, <1>4, <2>2
<1>6. \A q \in S : p <= q
  BY <1>5
<1> QED BY <1>6

LEMMA LastOf ==
  ASSUME NEW n \in Nat, NEW S \in SUBSET (1..n), S # {}
  PROVE  \E p \in S : \A q \in S : q <= p
<1> DEFINE R == {n + 1 - s : s \in S}
<1>1. R \in SUBSET (1..n) /\ R # {}
  <2>1. \A s \in S : n + 1 - s \in 1..n
    OBVIOUS
  <2> QED BY <2>1
<1>2. PICK x \in R : \A y \in R : x <= y
  <2> HIDE DEF R
  <2> QED BY <1>1, FirstOf
<1>3. PICK p \in S : x = n + 1 - p
  OBVIOUS
<1>4. \A q \in S : n + 1 - p <= n + 1 - q
  BY <1>2, <1>3
<1> QED BY <1>4

(* What prune_run_history selects leaves no more than the limit: beside the *)
(* oldest row that it spares there are at most Keep - 1 newer ones.         *)
LEMMA SparedFit == Cardinality(Stored \ Stale) <= Keep /\ Cardinality(Stored \ Stale) \in Nat
<1> DEFINE K == Stored \ Stale
<1> SUFFICES Cardinality(K) <= Keep /\ Cardinality(K) \in Nat
  OBVIOUS
<1>1. /\ IsFiniteSet(K) /\ K \subseteq Stored /\ K \subseteq Nat /\ Cardinality(K) \in Nat
      /\ K \in SUBSET (1..MaxRuns) /\ MaxRuns \in Nat
  BY StoredFinite, FS_Subset, FS_CardinalityType, OrchestratorAssumption DEF Stored, Runs
<1>2. Keep \in Nat \ {0}
  BY OrchestratorAssumption
<1>3. CASE K = {}
  BY <1>1, <1>2, <1>3, FS_EmptySet
<1>4. CASE K # {}
  <2>1. PICK m \in K : \A k \in K : m <= k
    <3> HIDE DEF K
    <3> QED BY <1>1, <1>4, FirstOf
  <2> DEFINE Newer == {s \in Stored : s > m}
  <2>2. ~(Cardinality(Newer) >= Keep)
    BY <2>1 DEF Stale, Stored
  <2>3. IsFiniteSet(Newer) /\ Cardinality(Newer) \in Nat /\ m \notin Newer
    <3>1. Newer \subseteq Stored /\ m \notin Newer
      BY <1>1, <2>1
    <3> QED BY <3>1, StoredFinite, FS_Subset, FS_CardinalityType
  <2>4. K \subseteq Newer \cup {m}
    <3>1. ASSUME NEW k \in K, k # m PROVE k \in Stored /\ k > m
      BY <1>1, <2>1, <3>1
    <3> QED BY <3>1
  <2> HIDE DEF Newer, K
  <2>5. IsFiniteSet(Newer \cup {m}) /\ Cardinality(Newer \cup {m}) = Cardinality(Newer) + 1
    BY <2>3, FS_AddElement
  <2>6. Cardinality(K) <= Cardinality(Newer \cup {m})
    BY <2>4, <2>5, FS_Subset
  <2> QED BY <1>1, <1>2, <2>2, <2>3, <2>5, <2>6
<1> QED BY <1>3, <1>4

LEMMA FewerFit ==
  ASSUME NEW T, T \subseteq Stored, NEW S \in SUBSET T, Cardinality(T) <= Keep
  PROVE  Cardinality(S) <= Keep
<1>1. IsFiniteSet(T) /\ Cardinality(T) \in Nat /\ Cardinality(S) \in Nat
      /\ Cardinality(S) <= Cardinality(T)
  BY StoredFinite, FS_Subset, FS_CardinalityType
<1> QED BY <1>1, OrchestratorAssumption

(* Of the newest run: what its pruning has selected leaves the bound while  *)
(* it deletes, and the bound stands once it is done.                        *)
KeptOf(n) ==
  /\ pc[n] = "pruning" /\ wait[n] = "running" => Cardinality(Stored \ doomed[n]) <= Keep
  /\ pc[n] = "pruning" /\ wait[n] = "done" => Cardinality(Stored) <= Keep
  /\ pc[n] = "done" /\ n \in closed => Cardinality(Stored) <= Keep

KeptInv == mode = "serving" => \A n \in Runs : n = next - 1 => KeptOf(n)

(* A step that leaves the task of a run and its selection alone and stores  *)
(* no new run keeps what holds of it.                                       *)
LEMMA KeptStays ==
  ASSUME NEW n \in Runs, KeptOf(n), pc'[n] = pc[n], wait'[n] = wait[n],
         doomed'[n] = doomed[n], n \in closed' <=> n \in closed, Stored' \subseteq Stored
  PROVE  KeptOf(n)'
<1>1. ASSUME Cardinality(Stored \ doomed[n]) <= Keep
      PROVE  Cardinality(Stored' \ doomed[n]) <= Keep
  BY <1>1, FewerFit
<1>2. ASSUME Cardinality(Stored) <= Keep PROVE Cardinality(Stored') <= Keep
  BY <1>2, FewerFit
<1> QED BY <1>1, <1>2 DEF KeptOf

LEMMA KeptStep ==
  ASSUME "store" \notin Faults
  PROVE  IInv /\ SettledInv /\ KeptInv /\ [Next]_vars => KeptInv'
<1> SUFFICES ASSUME IInv, SettledInv, KeptInv, [Next]_vars, mode' = "serving",
                    NEW n \in Runs, n = next' - 1
             PROVE  KeptOf(n)'
  BY DEF KeptInv
<1> USE DEF row, derived, task, bus
<1>1. TypeOK /\ SettledOf(n)
  BY DEF IInv, SettledInv
<1>2. CASE Boot
  <2>1. UNCHANGED <<pc, closed>> /\ mode \notin {"serving", "stopping"}
    BY <1>2 DEF Boot
  <2>2. pc'[n] \in {"none", "done"} /\ n \notin closed'
    BY <1>1, <2>1 DEF SettledOf
  <2> QED BY <2>2 DEF KeptOf
<1>3. CASE Shutdown \/ GraceExpires \/ Exit \/ Crash
  BY <1>3 DEF Shutdown, GraceExpires, Exit, Crash
<1>4. ASSUME NEW v \in Venues, Start(v) PROVE KeptOf(n)'
  <2>1. next' = next + 1 /\ pc' = [pc EXCEPT ![next] = "created"] /\ next \in Nat
    BY <1>1, <1>4, OrchestratorAssumption DEF Start, TypeOK
  <2>2. pc'[n] = "created"
    BY <1>1, <2>1 DEF TypeOK
  <2> QED BY <2>2 DEF KeptOf
<1>5. ASSUME mode' = mode, next' = next PROVE KeptOf(n) /\ n = next - 1 /\ mode = "serving"
  BY <1>5 DEF KeptInv
<1>6. ASSUME NEW r \in Runs, ThreadBegins(r) PROVE KeptOf(n)'
  <2>1. /\ UNCHANGED <<mode, next, pc, closed>> /\ Stored' = Stored
        /\ wait' = [wait EXCEPT ![r] = "running"]
        /\ doomed' = IF pc[r] = "pruning" THEN [doomed EXCEPT ![r] = Stale] ELSE doomed
    BY <1>6 DEF ThreadBegins, Stored
  <2>2. KeptOf(n)
    BY <1>5, <2>1
  <2>3. CASE r # n
    <3>1. wait'[n] = wait[n] /\ doomed'[n] = doomed[n]
      BY <1>1, <2>1, <2>3 DEF TypeOK
    <3> QED BY <2>1, <2>2, <3>1, KeptStays
  <2>4. CASE r = n
    <3>1. wait'[n] = "running" /\ pc'[n] = pc[n] /\ (pc[n] = "pruning" => doomed'[n] = Stale)
      BY <1>1, <2>1, <2>4 DEF TypeOK
    <3>2. pc[n] = "done" => wait[n] = "none"
      BY DEF IInv, JobsAwaited, Jobs, Recording, Reporting, Following
    <3>3. wait[r] = "queued"
      BY <1>6 DEF ThreadBegins
    <3> QED BY <2>1, <2>4, <3>1, <3>2, <3>3, SparedFit DEF KeptOf
  <2> QED BY <2>3, <2>4
<1>7. ASSUME NEW r \in Runs, ThreadCommits(r) PROVE KeptOf(n)'
  <2>1. /\ UNCHANGED <<mode, next, pc, closed>> /\ Commit(r, pc[r])
        /\ wait' = [wait EXCEPT ![r] = "done"] /\ wait[r] = "running"
    BY <1>7 DEF ThreadCommits
  <2>2. KeptOf(n)
    BY <1>5, <2>1
  <2>3. \A s \in Runs : s \in Stored' => s \in Stored /\ (pc[r] = "pruning" => s \notin doomed[r])
    BY <1>1, <2>1 DEF TypeOK, Commit, Stored, Outcomes
  <2>4. Stored' \subseteq Stored /\ Stored' \subseteq Runs
    BY <2>3 DEF Stored
  <2>5. CASE r # n
    <3>1. wait'[n] = wait[n] /\ doomed'[n] = doomed[n]
      BY <1>1, <2>1, <2>5 DEF TypeOK, Commit
    <3> QED BY <2>1, <2>2, <2>4, <3>1, KeptStays
  <2>6. CASE r = n
    <3>1. wait'[n] = "done" /\ pc'[n] = pc[n] /\ pc[n] # "done"
      BY <1>1, <2>1, <2>6 DEF TypeOK, IInv, JobsAwaited, Jobs, Recording, Reporting, Following
    <3>2. ASSUME pc[n] = "pruning" PROVE Cardinality(Stored') <= Keep
      <4>1. Cardinality(Stored \ doomed[n]) <= Keep
        BY <2>1, <2>2, <2>6, <3>2 DEF KeptOf
      <4>2. Stored' \subseteq Stored \ doomed[n]
        BY <2>3, <2>4, <2>6, <3>2
      <4> QED BY <4>1, <4>2, FewerFit
    <3> QED BY <3>1, <3>2 DEF KeptOf
  <2> QED BY <2>5, <2>6
<1>8. ASSUME NEW r \in Runs, NEW k \in Jobs, OrphanCommits(r, k) PROVE FALSE
  <2>1. UNCHANGED <<mode, next>> /\ <<r, k>> \in orphans
    BY <1>8 DEF OrphanCommits
  <2> QED BY <1>5, <2>1 DEF IInv, OrphansNewest
<1>9. ASSUME NEW r \in Runs, TaskStep(r) PROVE KeptOf(n)'
  <2>1. UNCHANGED <<mode, next>>
    BY <1>9 DEF TaskStep, TaskBegins, StagePublished, WorkDone, Saved, Snapshotted, Announces,
           Reports, Then, Fails, OutcomePublished, FailureLost, CancelHandled, Unwinds, Pruned
  <2>2. KeptOf(n) /\ mode = "serving"
    BY <1>5, <2>1
  <2>3. ~CancelHandled(r)
    BY <2>2 DEF CancelHandled, SettledInv, SettledOf, Cancelled
  <2>4. UNCHANGED doomed /\ Stored' = Stored
    BY <1>9, <2>3 DEF TaskStep, TaskBegins, StagePublished, WorkDone, Saved, Snapshotted,
           Announces, Reports, Then, Fails, OutcomePublished, FailureLost, Unwinds, Pruned, Stored
  <2>5. CASE r # n
    BY <1>1, <1>9, <2>2, <2>4, <2>5, OthersStay, KeptStays
  <2>6. CASE Pruned(n)
    <3>1. pc[n] = "pruning" /\ wait[n] = "done" /\ pc' = [pc EXCEPT ![n] = "done"]
      BY <1>1, <2>6 DEF Pruned, Resumed, SettledOf
    <3>2. pc'[n] = "done"
      BY <1>1, <3>1 DEF TypeOK
    <3> QED BY <2>2, <2>4, <3>1, <3>2 DEF KeptOf
  <2>7. CASE r = n /\ ~Pruned(n)
    <3>1. pc'[n] # "done" /\ (pc'[n] = "pruning" => wait'[n] = "queued")
      <4> USE <1>1, <2>7 DEF TypeOK, Submit, Finish
      <4>1. CASE TaskBegins(n)
        BY <4>1 DEF TaskBegins
      <4>2. CASE StagePublished(n)
        BY <4>2 DEF StagePublished
      <4>3. CASE WorkDone(n)
        BY <4>3 DEF WorkDone
      <4>4. CASE Saved(n) \/ Snapshotted(n) \/ Announces(n) \/ Reports(n) \/ Fails(n)
        BY <4>4 DEF Saved, Snapshotted, Announces, Reports, Then, Fails
      <4>5. CASE OutcomePublished(n) \/ FailureLost(n) \/ Unwinds(n)
        BY <4>5 DEF OutcomePublished, FailureLost, Unwinds
      <4> QED BY <1>9, <2>3, <4>1, <4>2, <4>3, <4>4, <4>5 DEF TaskStep
    <3> QED BY <3>1 DEF KeptOf
  <2> QED BY <1>9, <2>5, <2>6, <2>7
<1>10. CASE UNCHANGED vars
  <2>1. Stored' = Stored
    BY <1>10 DEF vars, Stored
  <2> QED BY <1>5, <1>10, <2>1, KeptStays DEF vars
<1> QED
  BY <1>2, <1>3, <1>4, <1>6, <1>7, <1>8, <1>9, <1>10
  DEF Next, ThreadStep, ThreadFails, OrphanFails

(* With a working database the history limit is kept: when the newest run   *)
(* of a serving desk has ended in this process, its pruning has deleted     *)
(* every row that was too old when it looked, and no run started since.     *)
THEOREM HistoryIsBounded ==
  ASSUME "store" \notin Faults
  PROVE  Spec => []RetentionBound
<1>1. Init => KeptInv
  BY DEF Init, KeptInv
<1>2. Spec => []KeptInv
  BY <1>1, SettledHolds, KeptStep, Invariance, PTL DEF Spec
<1>3. IInv /\ SettledInv /\ KeptInv => RetentionBound
  <2> SUFFICES ASSUME IInv, SettledInv, KeptInv, mode = "serving", next - 1 \in closed,
                      \A r \in Runs : pc[r] \in {"none", "done"}
               PROVE  Cardinality(Stored) <= Keep
    BY DEF RetentionBound
  <2>1. next - 1 \in Runs
    BY DEF IInv, TypeOK
  <2>2. pc[next - 1] = "done"
    BY <2>1 DEF SettledInv, SettledOf
  <2> QED BY <2>1, <2>2 DEF KeptInv, KeptOf
<1> QED BY <1>2, <1>3, SettledHolds, Invariance, PTL

--------------------------------------------------------------------------------
(* What the steps of a desk with a working database leave as it is. *)

LEMMA NewestIs ==
  ASSUME NEW S \in SUBSET Runs, S # {}
  PROVE  LET m == CHOOSE r \in S : \A s \in S : s <= r IN m \in S /\ \A s \in S : s <= m
<1>1. \E r \in S : \A s \in S : s <= r
  BY LastOf, OrchestratorAssumption DEF Runs
<1> QED BY <1>1

(* Only a shutdown lets a write reach a row that has its outcome: otherwise *)
(* no step changes an outcome but a deletion, and none moves a stored row   *)
(* to another venue.                                                        *)
LEMMA OutcomesStay ==
  ASSUME IInv, SettledInv, [Next]_vars, "store" \notin Faults, mode # "stopping", NEW s \in Runs,
         status[s] \in Outcomes
  PROVE  status'[s] \in {status[s], "pruned"} /\ venue'[s] = venue[s]
<1> USE DEF row, derived, task, bus
<1>1. TypeOK /\ SettledOf(s) /\ status[s] \notin {"none", "running"}
  BY DEF IInv, SettledInv, Outcomes
<1>2. CASE Boot
  BY <1>1, <1>2 DEF Boot, Interrupted
<1>3. CASE Shutdown \/ GraceExpires \/ Exit \/ Crash
  BY <1>3 DEF Shutdown, GraceExpires, Exit, Crash, MemoryLost
<1>4. ASSUME NEW v \in Venues, Start(v) PROVE UNCHANGED <<status[s], venue[s]>>
  <2>1. s # next
    BY <1>1 DEF IInv, RunsInOrder, Runs, TypeOK
  <2> QED BY <1>1, <1>4, <2>1 DEF Start, TypeOK
<1>5. ASSUME NEW r \in Runs, ThreadCommits(r)
      PROVE  status'[s] \in {status[s], "pruned"} /\ venue'[s] = venue[s]
  <2>1. Commit(r, pc[r]) /\ wait[r] = "running"
    BY <1>5 DEF ThreadCommits
  <2>2. ~(s = r /\ pc[r] \in Recording)
    BY <1>1, <2>1 DEF SettledOf
  <2> QED BY <1>1, <2>1, <2>2, CommitSettles DEF Commit
<1>6. ASSUME NEW r \in Runs, NEW k \in Jobs, OrphanCommits(r, k) PROVE FALSE
  BY <1>6 DEF OrphanCommits, IInv, OrphansNewest
<1>7. ASSUME NEW r \in Runs, CancelHandled(r) PROVE FALSE
  BY <1>7 DEF CancelHandled, SettledInv, SettledOf, Cancelled
<1>8. ASSUME NEW r \in Runs, ThreadBegins(r) \/ (TaskStep(r) /\ ~CancelHandled(r))
      PROVE  UNCHANGED <<status, venue>>
  BY <1>8 DEF ThreadBegins, TaskStep, TaskBegins, StagePublished, WorkDone, Saved, Snapshotted,
       Announces, Reports, Then, Fails, OutcomePublished, FailureLost, Unwinds, Pruned
<1>9. CASE UNCHANGED vars
  BY <1>9 DEF vars
<1> QED
  BY <1>2, <1>3, <1>4, <1>5, <1>6, <1>7, <1>8, <1>9
  DEF Next, ThreadStep, ThreadFails, OrphanFails

(* With a working database and unless a shutdown cancels the run, an        *)
(* outcome is final until its row is deleted, and the latest book of a      *)
(* venue is only replaced by a newer one: pruning beside the next run,      *)
(* crashes, the next boot's recovery and failed runs bring no old book back.*)
THEOREM HistoryIsKept ==
  ASSUME "store" \notin Faults
  PROVE  Spec => HistoryStands
<1>1. ASSUME IInv, SettledInv, [Next]_vars, mode # "stopping",
             NEW v \in Venues, Latest(v) # 0, Latest(v) \in Stored'
      PROVE  Latest(v)' >= Latest(v)
  <2> DEFINE books == {r \in Stored : status[r] = "completed" /\ venue[r] = v}
             after == {r \in Stored' : status'[r] = "completed" /\ venue'[r] = v}
  <2>1. /\ Latest(v) = IF books = {} THEN 0 ELSE CHOOSE r \in books : \A s \in books : s <= r
        /\ Latest(v)' = IF after = {} THEN 0 ELSE CHOOSE r \in after : \A s \in after : s <= r
    BY DEF Latest
  <2>2. books \in SUBSET Runs /\ after \in SUBSET Runs
    BY DEF Stored, Runs
  <2>3. PICK b : b = Latest(v)
    OBVIOUS
  <2>4. b \in books
    <3> HIDE DEF books
    <3> QED BY <1>1, <2>1, <2>2, <2>3, NewestIs
  <2>5. b \in Runs /\ status[b] \in Outcomes /\ status[b] = "completed" /\ venue[b] = v
    BY <2>2, <2>4 DEF Outcomes
  <2>6. status'[b] \in {"completed", "pruned"} /\ venue'[b] = v
    BY <1>1, <2>5, OutcomesStay
  <2>7. b \in Stored' /\ status'[b] # "pruned"
    BY <1>1, <2>3 DEF Stored, Outcomes
  <2>8. b \in after
    BY <2>6, <2>7
  <2> HIDE DEF books, after
  <2>9. Latest(v)' \in Runs /\ b <= Latest(v)'
    BY <2>1, <2>2, <2>8, NewestIs
  <2> QED BY <2>3, <2>5, <2>9 DEF Runs
<1>2. IInv /\ SettledInv /\ [Next]_vars =>
        [mode # "stopping" =>
           /\ \A r \in Runs : status[r] \in Outcomes => status'[r] \in {status[r], "pruned"}
           /\ \A v \in Venues : LET book == Latest(v) IN
                book # 0 => Latest(v)' >= book \/ book \notin Stored']_vars
  BY <1>1, OutcomesStay
<1> QED BY <1>2, SettledHolds, Invariance, PTL DEF Spec, HistoryStands
================================================================================
