SPECIFICATION Spec
CONSTANTS
  t1 = t1
  t2 = t2
  t3 = t3
  p1 = p1
  p2 = p2
  c1 = c1
  Trades = {t1, t2, t3}
  Attr <- ThreeTrades
  Candles = {c1}
  Partitions = {p1, p2}
  Messages <- TwoPartitions
  MaxMessages <- TwoAndOne
  Free = Free
  None = None
  ChanSize = 1
  Faults = {"redis", "timeout", "rebalance", "crash", "expiry", "mysql"}
  MaxFaults = 2
INVARIANTS
  TypeOK
  NoTradeTwice
  NoTradeMissing
  CandleEnclosesTrades
PROPERTIES
  MergeIsAtomic
\* Everything that was published may have been handled.
CHECK_DEADLOCK FALSE
