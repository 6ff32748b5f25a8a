SPECIFICATION FairSpec
CONSTANTS
  w1 = w1
  w2 = w2
  Worker = {w1}
  Pipeline <- ShortPipeline
  Input = "text"
  Allegation = FALSE
  TimelyTasks = FALSE
  MaxRetries = 2
  RevisionLimit = 2
  ApiMayCrash = FALSE
  Losses = {}
  MaxCrashes = 1
  MaxRedisErrors = 1
INVARIANTS
  CancellationWins
  CancelStopsBeforeNextStage
PROPERTY
  EventuallySettled
CHECK_DEADLOCK FALSE
