SPECIFICATION Spec
CONSTANTS
  Retries = 2
  Default = 4
  MaxCalls = 3
  Budgets <- MCBudgets
  Fragments <- MCFragments
  Replies <- MCReplies
INVARIANTS
  BudgetOfCall
  RetriesAreCounted
  ThresholdIsLastChat
  ReplyIsWhole
CHECK_DEADLOCK FALSE
