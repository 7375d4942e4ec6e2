SPECIFICATION PlatformSpec
CONSTANTS
  MaxSteps = 9
  MaxDelegations = 12
  MaxPerAgent = 3
  MaxRevisions = 1
  NodeRetries = 1
  Upfront = {TRUE, FALSE}
  Faulty = {"listing", "browser"}
  MaxPlans = 3
  MaxResumes = 1
  Requests = {"r1", "r2"}
  Threads = {1, 2}
  MaxCalls = 2
  Direct = {"r1", "r2"}
  Slots = 1
  NoRequest = "no request"
  Callers = {"c1", "c2"}
  Kinds = {"read", "write"}
  Threshold = 2
  Window = 1
  Retries = 1
  Capacity = 1
  MaxUses = 2
INVARIANTS
  PlatformTypeOK
  OnlyReviewedPlansLand
  CompletedMeansWritten
  SettledWhenSaved
  OneAnswerPerRequest
  NoUncertainRepeat
PROPERTIES
  ImplementsPlans
  ImplementsAnswers
  RunEnds
  PageIsAnswered
  EveryCallEnds
CHECK_DEADLOCK FALSE
