SPECIFICATION Spec
CONSTANTS
  p = p
  q = q
  code = code
  test = test
  doc = doc
  Proposals = {p, q}
  Files = {code, test, doc}
  Targets <- MCTargets
  Added = {test}
  Bumping = {p}
  Approvers = {a}
  MaxDiffs = 2
  MaxStale = 2
INVARIANT RejectedLeavesTreeClean
CHECK_DEADLOCK FALSE
