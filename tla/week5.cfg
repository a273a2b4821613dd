CONSTANTS
  Structures = {"heap", "checker", "timer"}
  First = 24
  Limit = 168
  Chunk = 64
  Sizes = {16, 24, 40, 72}
  Ids = {0, 1, 2}
  Files <- TraceFiles
  NumTraces = 2
  Alignment = 2
  Breaks = {0, 4, 6}
  Half = 2
  Word = 3
  Durations = {1, 4}
  TickCost = 2
  Ks = {1, 2}
  MaxSamples = 3
  CacheSizes = {1, 2}
  EpsNum = 1
  EpsDen = 4
SPECIFICATION Week5Spec
CHECK_DEADLOCK FALSE
INVARIANTS Tiled Coalesced BooksKept MeasuresBest
PROPERTIES NoFalseAlarm
