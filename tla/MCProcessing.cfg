CONSTANTS
  Cases <- Overlaps
SPECIFICATION Spec
INVARIANTS TypeOK SourceKept FailedIsSwept DerivativesKept
CHECK_DEADLOCK FALSE
