\* Every code, and every control flow of small programs.
CONSTANTS
  Programs <- MCPrograms
  MaxCalls = 3
SPECIFICATION Spec
PROPERTIES
  ImplementsBytecode
CHECK_DEADLOCK FALSE
