CONSTANTS
  Cases <- FailingCleanup
SPECIFICATION Spec
INVARIANTS CleanupRetryable
CHECK_DEADLOCK FALSE
