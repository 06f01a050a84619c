\* DROP beyond the operands of the program.
CONSTANTS
  Data = {7}
  Main <- MCMain
  Funs <- MCMainOnly
  NGlobals = 0
  Sites = {1}
  CaptureSizes = {2}
  STACK_SIZE = 16
  MaxOperands = 3
  Compiled = FALSE
  MaxClosures = 1
SPECIFICATION Spec
INVARIANT StackTopBelowBottom
CHECK_DEADLOCK FALSE
