SPECIFICATION LiveSpec
CONSTANTS
  N = 1
  Watcher = watcher
  pmr = pmr
  job = job
  script = script
  Reconcilers = {job}
  Learners = {job}
  Silent = {}
  WatchEnabled = FALSE
  WatchLimit = 1
  ReconLimit = 1
  MayCrash = FALSE
  StoreMayFail = FALSE
  LearningMayFail = FALSE
  AnswerMayBeLost = FALSE
PROPERTIES
  EveryOrderSettles
CHECK_DEADLOCK FALSE
