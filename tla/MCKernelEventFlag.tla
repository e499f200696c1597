------------------------- MODULE MCKernelEventFlag --------------------------
(***************************************************************************)
(* Small instances of KernelEventFlag for TLC: two bits.                   *)
(***************************************************************************)
EXTENDS KernelEventFlag

MCInitPatterns   == {{}}
MCWaitPatterns   == {{1, 2}}
MCSetPatterns    == {{1}, {2}}
MCKeepPatterns   == {{2}}
MCCancelPatterns == {{}}
=============================================================================
