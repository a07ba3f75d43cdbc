SPECIFICATION FairSpec
CONSTANTS
  t1 = t1
  t2 = t2
  t3 = t3
  p1 = p1
  p2 = p2
  c1 = c1
  Trades = {t1, t2, t3}
  Attr <- WashTrade
  Candles = {c1}
  Partitions = {p1}
  Messages <- OnePartition
  MaxMessages <- Three
  Free = Free
  None = None
  ChanSize = 2
  Faults = {"seen"}
  MaxFaults = 1
PROPERTIES
  RowNeverFallsBack
  RowCatchesUp
\* Everything that was published may have been handled.
CHECK_DEADLOCK FALSE
