SPECIFICATION SessionSpec
CONSTANTS
  Delays <- MCDelays
  WiredCache = TRUE
  WaitBudget = 3
  PollInterval = 2
  MaxLate = 2
  Spelling <- MCSpelling
  Tasks = {t1, t2}
  Messages <- MCMessages
  Filters <- MCFilters
  Slugs <- MCSlugs
  MaxCalls = 2
INVARIANTS TypeOK ClosedStaysClosed NothingIsForgotten StatusMeansOpen NoStarForEventType BuiltSubjectsParse
  LoopReturnsInside ColdFinalAttemptRaises
CHECK_DEADLOCK FALSE
