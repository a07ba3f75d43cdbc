SPECIFICATION FairSpec
CONSTANTS
  c1 = c1
  c2 = c2
  Clients = {c1, c2}
  Capacity = 1
  Welcomes = TRUE
  MaxUpdates = 2
INVARIANTS
  TypeOK
  NoPanic
PROPERTIES
  LaggingClientsLeave
\* Every update may have been offered.
CHECK_DEADLOCK FALSE
