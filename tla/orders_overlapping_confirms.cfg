SPECIFICATION Spec
CONSTANTS
  Orders = {o1, o2, o3}
  NoOrder = NoOrder
  Requests <- TrailingBuys
  MaxPlaced = 1
  Confirmers = {c1, c2}
  Matchers = {m1}
  Tickers = {t1}
  NoTicker = NoTicker
  Before = {}
  RpcChecks = 3
  Traces = {}
  MaxFaults = 0
  LostReplies = FALSE
SYMMETRY Symmetry
INVARIANTS
  OneFollowUp
\* Every order may have reached its last status.
CHECK_DEADLOCK FALSE
