------------------------------ MODULE MCDeskPolicy ------------------------------
(* A universe of eight names for TLC.  The first four come in a strong      *)
(* variant and in one that misses a floor of its own, and the runs range    *)
(* over every mix of the two; in one more, a name is missing and another    *)
(* is rated reduce.                                                         *)
EXTENDS DeskPolicy

Strong(t, s, c) ==
  [ticker |-> t, sector |-> s, action |-> "accumulate", conviction |-> c, composite |-> 60,
   quality |-> 70, risk |-> 30, source_quality |-> 60, sources |-> 3, cheap |-> FALSE]

(* In the order of the universe, not of the alphabet. *)
Names == <<Strong(4, "Tech", 90), Strong(2, "Tech", 90), Strong(7, "Health", 85),
           Strong(1, "Unknown", 80), Strong(5, "Energy", 78), Strong(3, "", 75),
           Strong(6, "Finance", 74),
           [Strong(8, "Tech", 73) EXCEPT !.source_quality = 50]>>

Weak == <<[Names[1] EXCEPT !.quality = 50],
          [Names[2] EXCEPT !.risk = 70, !.composite = 70],
          [Names[3] EXCEPT !.cheap = TRUE],
          [Names[4] EXCEPT !.sources = 2, !.conviction = 60]>>

MCSectors == {"Tech", "Health", "Energy", "Finance", "Unknown"}

MCRaws == {[i \in 1..8 |-> IF i \in weak THEN Weak[i] ELSE Names[i]] : weak \in SUBSET (1..4)}
            \cup {[i \in 1..7 |-> IF i = 4 THEN [Names[5] EXCEPT !.action = "reduce"]
                                 ELSE Names[i + 1]]}
================================================================================
