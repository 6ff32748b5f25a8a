SPECIFICATION FairSpec
CONSTANTS
  c1 = c1
  x = x
  Chunk = {c1}
  Invented = {x}
  Index = {0, 1}
  MaxSentences = 2
  MaxSequence = 3
  MaxSubmissions = 2
INVARIANTS
  PageFollowsItsSubmission
  AnswersAreStored
PROPERTY
  EverySubmissionSettles
CHECK_DEADLOCK FALSE
