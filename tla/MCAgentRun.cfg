SPECIFICATION FairSpec
CONSTANTS
  a = a
  b = b
  m0 = m0
  m1 = m1
  MaxSteps = 4
  KeepRecent = 2
  CriticMax = 2
  CriticIdle = 2
  LongLimit = 2
  MaxCalls = 2
  Signatures <- OneSignature
  Markers <- TwoMarkers
  Effects <- Anything
  Thinking <- Always
  LlmFails <- Perhaps
INVARIANTS
  TypeOK
  SentWellFormed
  ContextShape
  GivesUpAfterTwoCompactions
  AfterAcceptance
PROPERTIES
  CompactionKeepsRecent
  RepeatIsTrue
  RunReturns
  ImplementsSession
CHECK_DEADLOCK FALSE
