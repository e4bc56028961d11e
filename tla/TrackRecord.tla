------------------------------ MODULE TrackRecord ------------------------------
(***************************************************************************)
(* The horizon a return of an "accumulate" rating is filed under           *)
(* (track_record of backend/app/snapshots.py).                             *)
(***************************************************************************)
EXTENDS Integers

Horizons == {30, 90, 180}

(* A return after so many days is old enough for a horizon at 85 per cent.  *)
OldEnough(days) == {h \in Horizons : 100 * days >= 85 * h}

(* The loop goes through the horizons from the shortest and stops at the    *)
(* first that fits.                                                         *)
FiledUnder(days) == {h \in OldEnough(days) : \A other \in OldEnough(days) : h <= other}

(* What a bucket of track_record holds of the returns after the given days. *)
Bucket(horizon, ages) == {days \in ages : horizon \in FiledUnder(days)}
================================================================================
