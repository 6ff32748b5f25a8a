CONSTANTS
  Modes = {"single", "repaired", "evidence", "citation"}
  Batches <- Pairs
  Models = {1, 2}
  MaxTokens <- Caps
  RetryMaxTokens = 16000
  BatchAttempts = 2
  Concurrency = 2
  MaxRecoveryCalls = 6
SPECIFICATION FairSpec
INVARIANTS
  EveryTaskIsAnswered
  AccountsAreExact
  CancelBoundsSpending
PROPERTY
  EventuallyEnds
CHECK_DEADLOCK FALSE
