----------------------------- MODULE MCGpuThread -----------------------------
(***************************************************************************)
(* An instance of GpuThread for TLC: a graphics program that waits three   *)
(* buffers deep for what a compute program writes, which waits for the     *)
(* guest, and a flip.                                                      *)
(***************************************************************************)
EXTENDS GpuThread, TLC

P(op, arg) == [op |-> op, arg |-> arg]

MCBuffers ==
  "dcb" :> <<P("draw", "a"), P("call", "ib1"), P("draw", "d")>> @@
  "ib1" :> <<P("call", "ib2"), P("draw", "c")>> @@
  "ib2" :> <<P("wait", "x"), P("draw", "b")>> @@
  "acb" :> <<P("wait", "y"), P("write", "x")>>

MCPrograms ==
  "frame"   :> [type |-> "graphics", queue |-> 0, buf |-> "dcb"] @@
  "compute" :> [type |-> "compute", queue |-> 1, buf |-> "acb"] @@
  "present" :> [type |-> "flip", queue |-> 0, buf |-> "none"]
=============================================================================
