------------------------- MODULE MCCommandScheduler -------------------------
(* Instances of CommandScheduler for TLC.                                  *)
EXTENDS CommandScheduler
=============================================================================
