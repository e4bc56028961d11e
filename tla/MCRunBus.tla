-------------------------------- MODULE MCRunBus --------------------------------
(* Instances of RunBus for TLC; no symmetry, as the run checks liveness too. *)
EXTENDS RunBus
================================================================================
