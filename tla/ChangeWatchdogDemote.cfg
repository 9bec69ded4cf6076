SPECIFICATION Spec
CONSTANTS
  a = a
  h = h
  night = night
  o1 = o1
  Lab = {a}
  Human = {}
  Trading = {a}
  Night = night
  Operators = {}
  Window = 2
  StartLevel = 3
  MinApplied = 1
  DemoteRollbacks = 1
  DemoteSessions = 1
  MaxFaults = 0
PROPERTY DemotionIsRecent
CHECK_DEADLOCK FALSE
