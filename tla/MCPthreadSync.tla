--------------------------- MODULE MCPthreadSync ----------------------------
(***************************************************************************)
(* Small instances of PthreadSync for TLC.                                 *)
(***************************************************************************)
EXTENDS PthreadSync, TLC

Symmetry == Permutations(Threads)
=============================================================================
