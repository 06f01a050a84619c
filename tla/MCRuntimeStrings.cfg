\* Functions of the library that read their operands again after an allocation;
\* every call of alloc comes back.
CONSTANTS
  i1 = i1
  i2 = i2
  Imm = {i1, i2}
  Bases <- MCFarBases
  MinCap = 6
  MaxExtraRoots = 2
  NGlobals = 0
  Code = {}
  UNBOX <- MCUnbox
  Texts <- MCTwoTexts
  ArraySizes = {1}
  SexpSizes = {}
  ClosureSizes = {}
  Library = {"LmakeArray", "Lsubstring", "Li__Infix_4343"}
  MaxStack = 3
  MaxAllocs = 3
SPECIFICATION FairSpec
INVARIANT
  ExtraRootsBalanced
PROPERTIES
  
  GcTerminates
CHECK_DEADLOCK FALSE
