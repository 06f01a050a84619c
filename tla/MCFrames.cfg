\* Calls of functions and closures: globals, arguments, locals, captured values
\* and the saved words next to each other.
CONSTANTS
  Data <- MCData
  Main <- MCMain
  Funs <- MCFuns
  NGlobals = 1
  Sites = {1}
  CaptureSizes = {1}
  STACK_SIZE = 17
  MaxOperands = 2
  Compiled = TRUE
  MaxClosures = 1
SPECIFICATION Spec
INVARIANTS
  TypeOK
  LinkedFrames
  AccessesStayInFrame
PROPERTY ImplementsCalls
VIEW MCView
CHECK_DEADLOCK FALSE
