SPECIFICATION Spec
CONSTANTS
  Replies <- YoloReplies
  Criteria <- NoCriteria
  Policies = {"Prompt", "Yolo"}
  BudgetValues = {1, 2}
  Faults = {"journal", "hook", "kill", "review", "tool"}
  MaxInvocations = 6
  MaxChecks = 0
INVARIANTS
  ApprovalGate
  QueueOrder
PROPERTIES
  TaskEdgesRespected
  ToolEdgesRespected
  ImplementsGate
