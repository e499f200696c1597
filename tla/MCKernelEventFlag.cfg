CONSTANTS
  Threads = {t1, t2, t3}
  InitPatterns <- MCInitPatterns
  WaitPatterns <- MCWaitPatterns
  SetPatterns <- MCSetPatterns
  KeepPatterns <- MCKeepPatterns
  CancelPatterns <- MCCancelPatterns
  MaxRefs = 2
SPECIFICATION Spec
INVARIANTS NoLostWakeup
PROPERTIES InterruptionReported SpinsEnd
