SPECIFICATION Spec
CONSTANTS
  a = a
  b = b
  m0 = m0
  m1 = m1
  MaxSteps = 3
  KeepRecent = 1
  CriticMax = 1
  CriticIdle = 2
  LongLimit = 2
  MaxCalls = 1
  Signatures <- OneSignature
  Markers <- OneMarker
  Effects <- Losing
  Thinking <- Never
  LlmFails <- Never
INVARIANT
  DeletedCaseFileIsSurvived
CHECK_DEADLOCK FALSE
