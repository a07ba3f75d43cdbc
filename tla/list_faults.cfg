SPECIFICATION Spec
CONSTANTS
  Orders = {o1, o2}
  Matchers = {m1, m2}
  Free = Free
  Kind = "trailing"
  Prices <- ThreePrices
  Percent = 50
  Faults = {"redis", "timeout"}
  MaxFaults = 2
INVARIANTS
  TypeOK
  NoOrderLost
  LineNeverFalls
