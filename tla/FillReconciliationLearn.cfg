SPECIFICATION Spec
CONSTANTS
  N = 1
  Watcher = watcher
  pmr = pmr
  job = job
  script = script
  Reconcilers = {job}
  Learners = {job}
  Silent = {}
  WatchEnabled = TRUE
  WatchLimit = 1
  ReconLimit = 1
  MayCrash = FALSE
  StoreMayFail = FALSE
  LearningMayFail = TRUE
  AnswerMayBeLost = FALSE
INVARIANTS
  NoFillForgotten
