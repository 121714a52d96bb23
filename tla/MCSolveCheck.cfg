SPECIFICATION FairSpec
CONSTANTS
  Byte = 4
  Modulus = 16
  Width = 4
  Constants = {0, 2, 5, 9}
  Tables <- MCTables
  MaxOps = 2
  Charsets <- MCCharsets
  MaxCalls = 2
INVARIANTS SatIsTrue UnsatIsTrue
PROPERTY CallEnds
CHECK_DEADLOCK FALSE
