SPECIFICATION FairSpec
CONSTANTS
  Orders = {o1}
  NoOrder = NoOrder
  Requests <- LimitOrders
  MaxPlaced = 1
  Confirmers = {c1}
  Matchers = {m1}
  Tickers = {t1}
  NoTicker = NoTicker
  Before = {}
  RpcChecks = 3
  Traces = {}
  MaxFaults = 0
  LostReplies = FALSE
PROPERTIES
  TriggeredLimitSwaps
\* Every order may have reached its last status.
CHECK_DEADLOCK FALSE
