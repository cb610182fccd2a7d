CONSTANTS
  Retries = 3
  Statuses <- LedgerStatuses
  HooksThrow = FALSE
SPECIFICATION LedgerSpec
CHECK_DEADLOCK FALSE
INVARIANT
  TimeoutsAreRetried
