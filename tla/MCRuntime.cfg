\* Every graph of arrays of no and of two members, collected into adjacent
\* and distant chunks.
CONSTANTS
  i1 = i1
  i2 = i2
  Imm = {i1}
  Bases <- MCBases
  MinCap = 6
  MaxExtraRoots = 2
  NGlobals = 0
  Code = {}
  UNBOX <- MCUnbox
  Texts = {}
  ArraySizes = {0, 2}
  SexpSizes = {}
  ClosureSizes = {}
  Library = {}
  MaxStack = 3
  MaxAllocs = 4
SPECIFICATION Spec
INVARIANTS
  ReferencesResolve
  HeapTiled
  BitsClear
  AllocSucceeds
  QueueHoldsUnmarkedOnce
  MarkedIsReachable
  OnlyReachableSurvive
  CInv
PROPERTY
  SlidingSparesTheRest
CHECK_DEADLOCK FALSE
