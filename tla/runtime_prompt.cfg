SPECIFICATION FairSpec
CONSTANTS
  Replies <- PromptReplies
  Criteria <- BothCriteria
  Policies = {"Prompt"}
  BudgetValues = {2}
  Faults = {"hook", "context", "kill", "provider", "review", "tool"}
  MaxInvocations = 5
  MaxChecks = 1
INVARIANTS
  NeverAbandoned
  WaitingMatchesQueue
  SettledWhenOver
  EveryRunIsChecked
PROPERTIES
  VerifiedOnlyOnEvidence
  DriveReturns
