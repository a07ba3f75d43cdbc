SPECIFICATION FairSpec
CONSTANTS
  c1 = c1
  c2 = c2
  Clients = {c1}
  Capacity = 1
  Welcomes = TRUE
  MaxUpdates = 2
PROPERTIES
  NobodyLeftUnserved
\* Every update may have been offered.
CHECK_DEADLOCK FALSE
