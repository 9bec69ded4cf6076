SPECIFICATION Spec
CONSTANTS
  p1 = p1
  p2 = p2
  p3 = p3
  sleeve = sleeve
  overlay = overlay
  Procs = {p1, p2, p3}
  Services = {sleeve, overlay}
  Order <- MCOrder
  Due <- MCDue
  SelfDated = {overlay}
  Once = {p3}
  Deployments <- MCDeployments
  LastSlot = 1
  LastDay = 2
  MaxAge = 1
  Auxiliary = Auxiliary
INVARIANTS OneAttemptPerDay PassLeavesNothingDue OneChildAtATime SleepingIsHealthy
PROPERTY StateNeverGoesBack
CHECK_DEADLOCK FALSE
