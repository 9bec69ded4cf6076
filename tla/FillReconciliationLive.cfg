SPECIFICATION LiveSpec
CONSTANTS
  N = 1
  Watcher = watcher
  pmr = pmr
  job = job
  script = script
  Reconcilers = {pmr, job}
  Learners = {job}
  Silent = {}
  WatchEnabled = TRUE
  WatchLimit = 1
  ReconLimit = 1
  MayCrash = FALSE
  StoreMayFail = FALSE
  LearningMayFail = FALSE
  AnswerMayBeLost = FALSE
INVARIANTS NoFillForgotten
PROPERTIES EveryOrderSettles EveryFillIsFinished
