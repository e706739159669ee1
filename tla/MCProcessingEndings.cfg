CONSTANTS
  Cases <- Endings
SPECIFICATION FairSpec
PROPERTIES ProcessingEnds
CHECK_DEADLOCK FALSE
