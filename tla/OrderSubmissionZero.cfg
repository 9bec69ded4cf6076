SPECIFICATION Spec
CONSTANTS
  Symbols = {s1}
  Cycles = {c1}
  Earnings = {}
  Watches = {w1}
  Clis = {}
  MaxDaily = 1
  CycleLimits = {0}
  Budget = 1
  Var = 2
  LastDay = 2
  None = None
SYMMETRY Symmetry
INVARIANT ZeroLimitBuysNothing
CHECK_DEADLOCK FALSE
CONSTRAINT Followed
