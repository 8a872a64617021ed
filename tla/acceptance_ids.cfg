SPECIFICATION FairSpec
CONSTANTS
  Replies <- SilentReplies
  Criteria <- OneCriterion
  Policies = {"Prompt"}
  BudgetValues = {2}
  Faults = {}
  MaxInvocations = 5
  MaxChecks = 0
INVARIANT
  AcceptanceIdsUnique
