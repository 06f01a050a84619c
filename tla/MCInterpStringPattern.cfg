\* PATT =str on a scrutinee that is no string.
CONSTANTS
  Half <- MCHalf
  MAX_SEXP_TAGLEN = 2
  STRINGBUF_INIT = 2
  Rubbish = 63
  HASH_DEPTH = 1
  HalfWord = 128
  HashRange = 64
  Consts <- MCConsts
  Inputs <- MCInputs
  Texts <- MCTexts
  Tags <- MCTags
  Sizes <- MCSizes
  Codes = {10}
  Starts <- MCStarts
  MaxStack = 2
  MaxObjects = 2
  MaxSteps = 3
  PrintAt = {1}
SPECIFICATION Spec
PROPERTY StringPatternTakesAnyValue
CHECK_DEADLOCK FALSE
