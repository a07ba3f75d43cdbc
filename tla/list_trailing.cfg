SPECIFICATION FairSpec
CONSTANTS
  Orders = {o1, o2}
  Matchers = {m1, m2}
  Free = Free
  Kind = "trailing"
  Prices <- ThreePrices
  Percent = 50
  Faults = {"timeout"}
  MaxFaults = 1
INVARIANTS
  TypeOK
  NoOrderLost
  LineNeverFalls
PROPERTIES
  ReachableStopTriggers
