------------------------------- MODULE RunLedger -------------------------------
(***************************************************************************)
(* What the desk promises about its table of runs (AnalysisRunRow), apart  *)
(* from how a run is executed.  A run is opened when nobody is writing,    *)
(* only its one writer settles it, it may be deleted only once it has no   *)
(* writer and is not the newest, and rows an interruption left running are *)
(* failed before anything else is opened.                                  *)
(***************************************************************************)
EXTENDS Naturals

CONSTANT MaxRuns    \* bound on the runs ever opened

VARIABLES status,   \* status[r]: the row of run r, "none" before, "pruned" after
          writers   \* the runs some task or thread may still write

ledgerVars == <<status, writers>>

Runs    == 1..MaxRuns
Settled == {"completed", "failed"}
Stored  == {r \in Runs : status[r] \in Settled \cup {"running"}}

Init == /\ status  = [r \in Runs |-> "none"]
        /\ writers = {}

(* Runs are opened in the order of their start times, one writer at a time. *)
Open(r) == /\ writers = {}
           /\ status[r] = "none"
           /\ \A s \in Runs : s < r <=> status[s] # "none"
           /\ status'  = [status EXCEPT ![r] = "running"]
           /\ writers' = {r}

(* The writer records an outcome, and may be done with that. *)
Settle(r, outcome) == /\ r \in writers \cap Stored
                      /\ status'  = [status EXCEPT ![r] = outcome]
                      /\ writers' \in {writers, writers \ {r}}

(* The writer ends, by itself or because the process stops. *)
Release == /\ writers' = {}
           /\ UNCHANGED status

(* Old rows go; the newest row and a row that is being written stay. *)
Forget(S) == /\ S \cap writers = {}
             /\ \A r \in S : \E s \in Stored : s > r
             /\ status' = [r \in Runs |-> IF r \in S THEN "pruned" ELSE status[r]]
             /\ UNCHANGED writers

(* The next boot fails what an interruption left running. *)
Recover == /\ writers = {}
           /\ status' = [r \in Runs |-> IF status[r] = "running" THEN "failed"
                                                                 ELSE status[r]]
           /\ UNCHANGED writers

Next == \/ \E r \in Runs : Open(r)
        \/ \E r \in Runs, outcome \in Settled : Settle(r, outcome)
        \/ Release
        \/ \E S \in SUBSET Stored : Forget(S)
        \/ Recover

Spec == Init /\ [][Next]_ledgerVars
================================================================================
