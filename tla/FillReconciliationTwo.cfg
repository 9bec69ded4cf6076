SPECIFICATION Spec
CONSTANTS
  N = 2
  Watcher = watcher
  pmr = pmr
  job = job
  script = script
  Reconcilers = {pmr}
  Learners = {}
  Silent = {}
  WatchEnabled = TRUE
  WatchLimit = 1
  ReconLimit = 2
  MayCrash = FALSE
  StoreMayFail = FALSE
  LearningMayFail = FALSE
  AnswerMayBeLost = FALSE
INVARIANTS
  NoFillForgotten
