---------------------------- MODULE MCKernelSema ----------------------------
(***************************************************************************)
(* Small instances of KernelSema for TLC.                                  *)
(***************************************************************************)
EXTENDS KernelSema

\* A creation refused, a binary semaphore and one with a spare unit.
MCCounts       == {<<2, 1>>, <<0, 2>>, <<1, 2>>}
MCNeedCounts   == 0..2
MCSignalCounts == {-1, 1, 2}
MCCancelCounts == {-1, 0, 3}
MCPriorities   == {1, 2}
MCCountFloor   == -1
=============================================================================
