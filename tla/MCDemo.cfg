CONSTANTS
  Loop = loop
  Viewer = {v1}
  TokenSet = TRUE
  TTL = 2
  Patience = 1
  Capacity = 2
  MaxTime = 2
  MaxCases = 3
SPECIFICATION Spec
INVARIANTS NothingExpiredIsShown CorrelationIsTrue
PROPERTIES AnsweredOnce
CHECK_DEADLOCK FALSE
