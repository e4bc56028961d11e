---------------------------- MODULE MCDeskScheduler ----------------------------
(* Instances of DeskScheduler for TLC. *)
EXTENDS DeskScheduler
================================================================================
