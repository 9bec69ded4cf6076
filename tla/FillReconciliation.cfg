SPECIFICATION Spec
CONSTANTS
  N = 1
  Watcher = watcher
  pmr = pmr
  job = job
  script = script
  Reconcilers = {pmr, job, script}
  Learners = {job, script}
  Silent = {script}
  WatchEnabled = TRUE
  WatchLimit = 1
  ReconLimit = 1
  MayCrash = TRUE
  StoreMayFail = TRUE
  LearningMayFail = TRUE
  AnswerMayBeLost = TRUE
INVARIANTS
  EffectsExactlyOnce
  MessageAfterCommit
  TwiceOnlyUnanswered
PROPERTIES
  TerminalIsFinal
  KeepsContract
