SPECIFICATION Spec
CONSTANTS
  c1 = c1
  c2 = c2
  p1 = p1
  p2 = p2
  Claim = {c1, c2}
  Essential = {c1}
  Ambiguous = {c1}
  Attributed = {c2}
  Checkable = {c1}
  Importance <- MCImportance
  Passage = {p1, p2}
  Source <- Sources
  Features <- MCFeatures
  Inputs <- MCInputs
  SourceOf <- MCSourceOf
  Quality <- MCQuality
  Domain <- Own
  Primary = {1}
  SelfReport = {2}
  ContextPenalty <- Penalties
  Task <- Tasks
  JudgmentsOf <- Judgments
  Legible = {p1, p2}
  RevisionLimit = 1
  MaxAttempts = 2
  None = None
INVARIANTS
  SentencesAreSupported
  RowsAreOfTheFinalReport
  ContradictionHasItsSentence
  PenaltyOnce
  RejectedEvidenceIsMute
  ClustersAreComponents
  OriginIsHeard
  GraphShowsTheClusters
CHECK_DEADLOCK FALSE
