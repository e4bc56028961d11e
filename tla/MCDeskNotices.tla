---------------------------- MODULE MCDeskNotices ----------------------------
(* Small instances of DeskNotices for TLC. *)
EXTENDS DeskNotices, TLC

CONSTANTS us, nse, amd, tcs

(* What default_universe of each venue is. *)
OneEach == us :> {amd} @@ nse :> {amd}

(* A name moves up or down, or a run is about another name only.            *)
Moves == {amd :> "accumulate" @@ tcs :> "avoid", amd :> "avoid" @@ tcs :> "avoid",
          amd :> Unset @@ tcs :> "avoid"}

Interchangeable == Permutations(Threads)
================================================================================
