SPECIFICATION SessionSpec
CONSTANTS
  Delays <- MCDelays
  WiredCache = TRUE
  WaitBudget = 2
  PollInterval = 1
  MaxLate = 1
  Spelling <- MCSpelling
  Tasks = {t1, t2}
  Messages <- MCMessages
  Filters <- MCFilters
  Slugs <- MCSlugs
  MaxCalls = 2
INVARIANTS LogTellsTheOutcome LogNeverOverstates
  OutcomeIsTheConnection ExitTellsCopies ReceivedAsMeant
PROPERTIES Terminates
CHECK_DEADLOCK FALSE
