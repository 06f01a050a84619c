\* Every instruction on values of every kind.
CONSTANTS
  Half <- MCHalf
  MAX_SEXP_TAGLEN = 2
  STRINGBUF_INIT = 2
  Rubbish = 63
  HASH_DEPTH = 1
  HalfWord = 128
  HashRange = 64
  Consts <- MCConsts
  Inputs <- MCInputs
  Texts <- MCTexts
  Tags <- MCTags
  Sizes <- MCSizes
  Codes = {10}
  Starts <- MCStarts
  MaxStack = 4
  MaxObjects = 4
  MaxSteps = 3
  PrintAt = {1}
SPECIFICATION FairSpec
INVARIANTS
  WellMade
  
  PrintedSoFar
  CompareFindsEquals
  CompareOrders
  HashRespectsEquality
PROPERTIES
  ImplementsMachine
  PrintsWhole
  PrintingEnds
CHECK_DEADLOCK FALSE
