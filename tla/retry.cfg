SPECIFICATION Spec
CONSTANTS
  MaxAttempts = 12
  PollEvery = 5
  Timeout = 5
CHECK_DEADLOCK FALSE
INVARIANTS
  PacedRetries
