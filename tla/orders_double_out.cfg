SPECIFICATION Spec
CONSTANTS
  Orders = {o1, o2, o3}
  NoOrder = NoOrder
  Requests <- DoubleOutBuys
  MaxPlaced = 1
  Confirmers = {c1, c2}
  Matchers = {m1}
  Tickers = {t1, t2}
  NoTicker = NoTicker
  Before = {}
  RpcChecks = 3
  Traces = {}
  MaxFaults = 2
  LostReplies = TRUE
SYMMETRY Symmetry
INVARIANTS
  FilledMeansLanded
  FollowUpLineage
\* Every order may have reached its last status.
CHECK_DEADLOCK FALSE
