\* Every kind of value and every function that allocates; what the program sees.
CONSTANTS
  i1 = i1
  i2 = i2
  Imm = {i1}
  Bases <- MCFarBases
  MinCap = 6
  MaxExtraRoots = 2
  NGlobals = 0
  Code = {4}
  UNBOX <- MCUnbox
  Texts <- MCTexts
  ArraySizes = {2, 3}
  SexpSizes = {1}
  ClosureSizes = {1}
  Library = {"Lstring", "Lclone"}
  MaxStack = 3
  MaxAllocs = 3
SPECIFICATION Spec
INVARIANTS
  TypeOK
  ExtraRootsBalanced
  VInv
PROPERTY
  ImplementsStore
CHECK_DEADLOCK FALSE
