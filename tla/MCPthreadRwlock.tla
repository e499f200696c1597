--------------------------- MODULE MCPthreadRwlock ---------------------------
(***************************************************************************)
(* A small instance of PthreadRwlock for TLC: the constants are in the     *)
(* configuration.  No symmetry, because it also checks liveness.           *)
(***************************************************************************)
EXTENDS PthreadRwlock
=============================================================================
