SPECIFICATION CaseSpec
CONSTANTS
  Keep = 1
  ShrinkCap = 200
  Summaries <- Expected
  Replies <- Broken
  NoteShapes <- AllNotes
  MaxEvents = 4
INVARIANTS
  CaseTypeOK
  LedgerSurvives
  FactsSurvive
  
  BlocksInLog
CHECK_DEADLOCK FALSE
