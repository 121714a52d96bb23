SPECIFICATION Spec
CONSTANTS
  rsa = rsa
  vm = vm
  right = right
  wrong = wrong
  NoFlag = NoFlag
  Dirs = {rsa, vm}
  Flags = {right, wrong}
  Expected <- MCExpected
  MaxRuns = 3
  MaxRows = 2
INVARIANT StaleNeverReported
CHECK_DEADLOCK FALSE
