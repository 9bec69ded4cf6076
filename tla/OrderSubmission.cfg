SPECIFICATION Spec
CONSTANTS
  Symbols = {s1, s2}
  Cycles = {c1}
  Earnings = {e1}
  Watches = {w1}
  Clis = {h1}
  MaxDaily = 1
  CycleLimits = {0, 1}
  Budget = 1
  Var = 2
  LastDay = 2
  None = None
SYMMETRY Symmetry
INVARIANTS OneBuyPerSymbol DailyLimitHolds BudgetHolds LevelsOfTheHeldPlan
CHECK_DEADLOCK FALSE
CONSTRAINT Followed
