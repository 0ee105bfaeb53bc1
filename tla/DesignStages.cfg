SPECIFICATION Spec
CONSTANTS
  Proposals <- Briefs
  Corpora <- Files
  Relevance <- Scores
  SourceCount = 3
  MaxResults = 2
  MinScore = 2
  AmbiguityGap = 1
  RevisionLimit = 1
  MaxRequests = 5
  MaxFaults = 2
  MaxCrashes = 1
  None = None
INVARIANTS
  GroundedCites
  ErrorHasStep
  ProviderBudget
PROPERTY SettledOnce
CHECK_DEADLOCK FALSE
