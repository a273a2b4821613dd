CONSTANTS
  ChunkSize = 48
  MaxHeap = 128
  SizeMod = 512
  Base = 256
  ClassSize = 2
  Allocators = {"mm", "lab3", "lab2", "lab1"}
  Ids = {0, 1, 2}
  Requests = {0, 8, 32, 48, 496}
SPECIFICATION Spec
CHECK_DEADLOCK FALSE
INVARIANTS TypeOK PayloadsValid DataIntact NoLeak FootersMatch DeniedOnlyWhenFull FreeListsExact
PROPERTIES ImplementsBlockHeap
