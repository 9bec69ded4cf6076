SPECIFICATION LiveSpec
CONSTANTS
  a = a
  h = h
  night = night
  o1 = o1
  Lab = {a}
  Human = {h}
  Trading = {a}
  Night = night
  Operators = {o1}
  Window = 2
  StartLevel = 1
  MinApplied = 1
  DemoteRollbacks = 1
  DemoteSessions = 1
  MaxFaults = 1
INVARIANTS RolledBackIsOut AppliedIsIn
PROPERTY RequestIsSettled
