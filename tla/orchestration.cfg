SPECIFICATION FairSpec
CONSTANTS
  Tasks = {1, 2, 3}
  Provider <- Providers
  Workspace <- Workspaces
  Environment <- Environments
  PerProvider = 1
  PerWorkspace = 2
  PerEnvironment = 1
  Caps = {1, 2}
  Priorities = {0, 1}
  Reports <- MixedReports
  MaxSubmits = 4
INVARIANTS
  WorkersAreKnown
  PrerequisitesSucceeded
  SchedulerMatchesGraph
  CancelAgrees
PROPERTIES
  OutcomesAreFinal
  EverythingSettles
