CONSTANTS
  Guests = {g1, g2}
  Queues = {0, 1}
  Buffers <- MCBuffers
  Programs <- MCPrograms
  Labels = {"x", "y"}
  GuestLabels = {"y"}
  SubMax = 3
  CallMax = 2
SPECIFICATION GpuSpec
INVARIANTS ExecutedInOrder
PROPERTIES DoneCovers CommandAnswered WorkEnds
CHECK_DEADLOCK FALSE
