SPECIFICATION FlowSpec
CONSTANTS
  MaxSteps = 12
  MaxDelegations = 12
  MaxPerAgent = 3
  MaxRevisions = 2
  NodeRetries = 1
  Upfront = {FALSE}
  Faulty = {"listing", "browser"}
  MaxPlans = 3
  MaxResumes = 2
INVARIANT
  ApprovalCoversPlan
CHECK_DEADLOCK FALSE
