----------------------------- MODULE MCPosixSem -----------------------------
(***************************************************************************)
(* A small instance of PosixSem for TLC.                                   *)
(***************************************************************************)
EXTENDS PosixSem

\* A free and a taken semaphore, and a value above the limit.
MCValues == {0, 1, 3}
=============================================================================
