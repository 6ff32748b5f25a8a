SPECIFICATION Spec
CONSTANTS
  w1 = w1
  w2 = w2
  Worker = {w1, w2}
  Pipeline <- TinyPipeline
  Input = "text"
  Allegation = TRUE
  TimelyTasks = TRUE
  MaxRetries = 1
  RevisionLimit = 1
  ApiMayCrash = TRUE
  Losses = {"requeued", "acknowledged"}
  MaxCrashes = 1
  MaxRedisErrors = 0
INVARIANTS
  TypeOK
  EventsRecordedOnce
  RowMatchesLog
  SingleOwner
  CompletedStaysAudited
PROPERTY
  ImplementsContract
SYMMETRY WorkerSymmetry
CHECK_DEADLOCK FALSE
