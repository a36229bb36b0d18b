SPECIFICATION Spec
CONSTANTS
  HeapBlocks = 8
  MaxCalls = 4
INVARIANTS
  ReadsContinuously
