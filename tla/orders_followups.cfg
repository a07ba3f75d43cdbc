SPECIFICATION Spec
CONSTANTS
  Orders = {o1, o2, o3}
  NoOrder = NoOrder
  Requests <- AttachedBuys
  MaxPlaced = 1
  Confirmers = {c1}
  Matchers = {m1, m2}
  Tickers = {t1, t2}
  NoTicker = NoTicker
  Before = {}
  RpcChecks = 3
  Traces = {}
  MaxFaults = 2
  LostReplies = FALSE
SYMMETRY Symmetry
INVARIANTS
  TypeOK
  FilledMeansLanded
  FollowUpLineage
  OneFollowUp
  OneExecutor
  NoSwapAfterCancel
PROPERTIES
  LifecycleSpec
\* Every order may have reached its last status.
CHECK_DEADLOCK FALSE
