SPECIFICATION Spec
CONSTANTS
  Orders = {o1, o2}
  Matchers = {m1}
  Free = Free
  Kind = "sell"
  Prices <- TwoPrices
  Percent = 50
  Faults = {}
  MaxFaults = 0
SYMMETRY Symmetry
INVARIANTS
  TickLosesNoOrder
