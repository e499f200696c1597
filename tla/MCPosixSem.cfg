CONSTANTS
  Threads = {t1, t2, t3, t4}
  Values <- MCValues
  ValueMax = 2
SPECIFICATION Spec
INVARIANTS UnitsAreCovered GuestCopyExact
PROPERTIES UnitIsTaken
