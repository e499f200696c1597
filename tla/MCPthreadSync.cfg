CONSTANTS
  Threads = {t1, t2, t3}
  NoThread = NoThread
  CountMax = 2
SPECIFICATION Spec
SYMMETRY Symmetry
INVARIANTS HoldersAgree NoForgottenWaiter FreeMutexIsNoticed
PROPERTIES SignalIsReported ImplementsMonitor
