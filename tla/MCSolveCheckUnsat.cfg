SPECIFICATION Spec
CONSTANTS
  Byte = 4
  Modulus = 16
  Width = 4
  Constants = {0, 2, 5, 9}
  Tables <- MCTables
  MaxOps = 2
  Charsets <- MCCharsets
  MaxCalls = 2
INVARIANT UnsatAsDescribed

CHECK_DEADLOCK FALSE
