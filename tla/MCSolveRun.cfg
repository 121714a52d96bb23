SPECIFICATION Spec
CONSTANTS
  rsa = rsa
  vm = vm
  right = right
  wrong = wrong
  NoFlag = NoFlag
  Dirs = {rsa, vm}
  Flags = {right, wrong}
  Expected <- MCExpected
  MaxRuns = 3
  MaxRows = 2
INVARIANTS RowsAreOfTheirRuns ExitCodeIsTrue WrongIsMarked EveryDirHasItsRow
CHECK_DEADLOCK FALSE
