---------------------------- MODULE MCEventQueue -----------------------------
(* An instance of EventQueue for TLC.                                      *)
EXTENDS EventQueue, TLC

CONSTANTS u, h

\* u may be added as any kind of user event, h is a timer.
MixedKinds == u :> {"level", "edge", "queued"} @@ h :> {"timer"}
=============================================================================
