----------------------------- MODULE MCFlipQueue -----------------------------
(* Instances of FlipQueue for TLC.                                         *)
EXTENDS FlipQueue
=============================================================================
