SPECIFICATION FairSpec
CONSTANTS
  Orders = {o1, o2}
  NoOrder = NoOrder
  Requests <- StopsAndTrailingBuys
  MaxPlaced = 2
  Confirmers = {c1}
  Matchers = {m1}
  Tickers = {t1}
  NoTicker = NoTicker
  Before <- AutoIncrement
  RpcChecks = 1
  Traces = {"index", "never"}
  MaxFaults = 0
  LostReplies = FALSE
PROPERTIES
  FollowUpCreated
  OnChainSettlesInWindow
\* Every order may have reached its last status.
CHECK_DEADLOCK FALSE
