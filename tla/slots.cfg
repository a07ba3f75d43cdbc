SPECIFICATION Spec
CONSTANTS
  w1 = w1
  h1 = h1
  LastSlot = 4
  NoBlock = {2}
  StartBlock = 1
  Redundancy = 1
  MaxGap = 1
  ScanWindow = 3
  RetryWindow = 4
  Lag = 1
  ScanBatch = 1
  RetryBatch = 1
  QueueSize = 1
  Live = {w1}
  History = {h1}
  Faults = {"rpc", "crash", "kafka", "database", "lagging", "socket"}
  MaxFaults = 1
INVARIANTS
  TypeOK
  ProcessedWasPublished
  GapsAreFilled
