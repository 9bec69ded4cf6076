SPECIFICATION Spec
CONSTANTS
  a = a
  h = h
  night = night
  o1 = o1
  Lab = {}
  Human = {h}
  Trading = {}
  Night = night
  Operators = {}
  Window = 2
  StartLevel = 1
  MinApplied = 1
  DemoteRollbacks = 1
  DemoteSessions = 1
  MaxFaults = 0
PROPERTY VerdictStands
CHECK_DEADLOCK FALSE
