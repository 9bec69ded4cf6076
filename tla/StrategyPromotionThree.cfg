SPECIFICATION Spec
CONSTANTS
  breakout = breakout
  s1 = s1
  s2 = s2
  w1 = w1
  w2 = w2
  w3 = w3
  k1 = k1
  k2 = k2
  night = night
  Builtin = breakout
  Strategies = {breakout, s1, s2}
  Windows = {w1, w2}
  Starters = {k1}
  Evaluators = {night}
  MaxConcurrent = 2
  MaxPerWeek = 1
  MaxFaults = 1
SYMMETRY Symmetry
INVARIANTS TypeOK WeeklyBudgetHolds OneChampionPerFault ChampionsAreNotRetired
