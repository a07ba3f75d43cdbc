SPECIFICATION Spec
CONSTANTS
  Orders = {o1, o2}
  Matchers = {m1, m2}
  Free = Free
  Kind = "sell"
  Prices <- TwoPrices
  Percent = 50
  Faults = {"redis", "timeout", "pipeline", "deadline", "database", "crash", "expiry"}
  MaxFaults = 2
SYMMETRY Symmetry
PROPERTIES
  TriggeredByItsLine
