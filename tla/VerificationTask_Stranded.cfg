SPECIFICATION Spec
CONSTANTS
  w1 = w1
  w2 = w2
  Worker = {w1, w2}
  Pipeline <- TinyPipeline
  Input = "text"
  Allegation = FALSE
  TimelyTasks = TRUE
  MaxRetries = 1
  RevisionLimit = 0
  ApiMayCrash = FALSE
  Losses = {"requeued"}
  MaxCrashes = 1
  MaxRedisErrors = 0
INVARIANT
  NeverStranded
SYMMETRY WorkerSymmetry
CHECK_DEADLOCK FALSE
