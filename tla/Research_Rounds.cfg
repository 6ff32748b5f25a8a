SPECIFICATION Spec
INVARIANT
  SecondPhaseIsBounded
CHECK_DEADLOCK FALSE
CONSTANTS
  None = None
  wrap = wrap
  page = page
  news = news
  blog = blog
  record = record
  moved = moved
  Urls <- MCUrls
  DomainOf <- MCDomainOf
  TitleOf <- MCTitleOf
  Webs <- MCWebs
  Submitted = {wrap}
  Required <- MCRequired
  Drafts <- MCDrafts
  Profiles = {1, 2, 3}
  Ambiguous = {4}
  Holders <- MCHolders
  Registered <- MCRegistered
  PerClaim = 2
  PreflightBudget = 3
  Answers <- MCAnswers
  PhaseOneTarget = 2
  SecondPhaseTarget = 1
  BatchSize = 1
  MinCandidates = 3
  MinDomains = 2
  DepthLimit = 3
  PerDomain = 2
  BroadReserve = 1
  MaxDeliveries = 2
  MaxRounds = 3
