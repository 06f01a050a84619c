\* The file in the block that was allocated for it.
CONSTANTS
  Programs <- NoMain
  MaxCalls = 3
SPECIFICATION Spec
INVARIANT FileFitsBlock
CHECK_DEADLOCK FALSE
