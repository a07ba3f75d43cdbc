SPECIFICATION Spec
CONSTANTS
  t1 = t1
  t2 = t2
  t3 = t3
  p1 = p1
  p2 = p2
  c1 = c1
  Trades = {t1, t2, t3}
  Attr <- ThreeTrades
  Candles = {c1}
  Partitions = {p1}
  Messages <- OnePartition
  MaxMessages <- Two
  Free = Free
  None = None
  ChanSize = 2
  Faults = {"rebalance"}
  MaxFaults = 1
INVARIANTS
  SeenIsFolded
\* Everything that was published may have been handled.
CHECK_DEADLOCK FALSE
