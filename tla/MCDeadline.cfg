SPECIFICATION Spec
CONSTANTS
  Budget = 9
  MinTool = 1
  MaxTimeout = 3
  Ghidra = 4
  Settle = 1
  Emulation = 2
  GuiWait = 2
  GuiActions = 3
  GuiCheck = 1
  GuiLook = 2
  GuiLast = 2
  Escape = 2
  AskMax = 2
  MaxCalls = 2
  Requests <- MCRequests
INVARIANTS
  CallEndsInTime
  RunEndsInTime
CHECK_DEADLOCK FALSE
