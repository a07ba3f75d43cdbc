SPECIFICATION FairSpec
CONSTANTS
  Slippages = {100, 5000}
  Tiers <- MCTiers
  MaxAttempts = 2
  MaxResends = 3
  MaxJitoSends = 2
  MaxLost = 2
  Faults = {"database", "crash"}
INVARIANTS
  TypeOK
  SwapsAccountedFor
  RowIsTruthful
  SlippageIsConsented
PROPERTIES
  SubmissionEnds
CHECK_DEADLOCK FALSE
