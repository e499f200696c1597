CONSTANTS
  Threads = {t1, t2, t3}
  NoThread = NoThread
  HoldMax = 2
SPECIFICATION Spec
INVARIANTS Exclusion HolderNeverSleeps
PROPERTIES WriterNotOvertaken FreeLockIsTaken
