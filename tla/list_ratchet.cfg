SPECIFICATION Spec
CONSTANTS
  Orders = {o1}
  Matchers = {m1}
  Free = Free
  Kind = "trailing"
  Prices <- FourPrices
  Percent = 50
  Faults = {}
  MaxFaults = 0
SYMMETRY Symmetry
PROPERTIES
  HighestSeen
