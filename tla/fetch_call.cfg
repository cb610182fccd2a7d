CONSTANTS
  Retries = 3
  Statuses <- LedgerStatuses
  HooksThrow = TRUE
SPECIFICATION LedgerSpec
\* A method that has returned takes no more steps.
CHECK_DEADLOCK FALSE
INVARIANTS
  GivesUpWhenExhausted
  TimerReleased
  ValueMeansExecuted
PROPERTIES
  
  FirstAttemptEnds
  MethodEnds
