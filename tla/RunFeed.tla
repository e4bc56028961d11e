-------------------------------- MODULE RunFeed --------------------------------
(***************************************************************************)
(* What a reader of a run's live events is promised, apart from how the    *)
(* events reach it: every event of the run from the first one on, in the   *)
(* order of publication and once each, and the word that the run is over   *)
(* exactly when it has read them all.  The desk may forget the events of a *)
(* run that is over; a reader who comes later is told at once that nothing *)
(* will come.                                                              *)
(***************************************************************************)
EXTENDS Naturals, Sequences

CONSTANTS Runs, Events, Readers

VARIABLES log,      \* log[r]: the events of run r, in order
          over,     \* runs no event will be added to
          lost,     \* runs whose events can no longer be read
          reading,  \* reading[l]: the run that l reads, 0 before
          got,      \* got[l]: what l has read
          blank,    \* readers that came when the run was lost
          ended,    \* readers that have been told the end
          gone      \* readers that went away, or were cut off, before it

feedVars == <<log, over, lost, reading, got, blank, ended, gone>>

Init == /\ log     = [r \in Runs |-> <<>>]
        /\ over    = {}
        /\ lost    = {}
        /\ reading = [l \in Readers |-> 0]
        /\ got     = [l \in Readers |-> <<>>]
        /\ blank   = {}
        /\ ended   = {}
        /\ gone    = {}

Append1(r, e) == /\ r \notin over \cup lost
                 /\ log' = [log EXCEPT ![r] = Append(@, e)]
                 /\ UNCHANGED <<over, lost, reading, got, blank, ended, gone>>

End(r) == /\ over' = over \cup {r}
          /\ UNCHANGED <<log, lost, reading, got, blank, ended, gone>>

(* Only what is over is forgotten while the desk runs. *)
Forget(S) == /\ S \subseteq over
             /\ lost' = lost \cup S
             /\ UNCHANGED <<log, over, reading, got, blank, ended, gone>>

Attach(l, r) == /\ reading[l] = 0
                /\ reading' = [reading EXCEPT ![l] = r]
                /\ blank'   = IF r \in lost THEN blank \cup {l} ELSE blank
                /\ UNCHANGED <<log, over, lost, got, ended, gone>>

Following(l) == reading[l] # 0 /\ l \notin ended \cup gone

Read(l) == /\ Following(l) /\ l \notin blank
           /\ Len(got[l]) < Len(log[reading[l]])
           /\ got' = [got EXCEPT ![l] = Append(@, log[reading[l]][Len(@) + 1])]
           /\ UNCHANGED <<log, over, lost, reading, blank, ended, gone>>

(* The end is announced only to a reader that has everything. *)
Finish(l) == /\ Following(l)
             /\ \/ l \in blank
                \/ reading[l] \in over /\ got[l] = log[reading[l]]
             /\ ended' = ended \cup {l}
             /\ UNCHANGED <<log, over, lost, reading, got, blank, gone>>

(* A reader may go at any time; it has not been told anything then. *)
Leave(l) == /\ Following(l)
            /\ gone' = gone \cup {l}
            /\ UNCHANGED <<log, over, lost, reading, got, blank, ended>>

(* The desk restarts: its runs are over, their events lost, readers cut off. *)
Restart(S) == /\ over'  = over \cup S
              /\ lost'  = lost \cup S
              /\ gone'  = gone \cup {l \in Readers : Following(l)}
              /\ UNCHANGED <<log, reading, got, blank, ended>>

Next == \/ \E r \in Runs, e \in Events : Append1(r, e)
        \/ \E r \in Runs : End(r)
        \/ \E S \in SUBSET Runs : Forget(S) \/ Restart(S)
        \/ \E l \in Readers, r \in Runs : Attach(l, r)
        \/ \E l \in Readers : Read(l) \/ Finish(l) \/ Leave(l)

Spec == Init /\ [][Next]_feedVars
================================================================================
