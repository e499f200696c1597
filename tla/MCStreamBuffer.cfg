CONSTANTS
  Size = 3
  Sizes = {1, 2, 4}
  Alignments = {1, 2}
  StreamTickMax = 4
  UnrecordedMax = 2
SPECIFICATION StreamSpec
INVARIANTS MappedRangeIsFree
PROPERTIES MapReturnsEventually
