SPECIFICATION FairSpec
CONSTANTS
  Automations = {1, 2}
  Every <- Intervals
  Anchor <- Anchors
  CatchUp <- Policies
  MaxConcurrency <- Limits
  Global = 2
  Window = 1
  RecentRunLimit = 2
  Outcomes = {"retry", "unknown"}
  MaxTime = 2
  MaxExtra = 1
  MaxFaults = 1
  MaxCrashes = 1
INVARIANTS
  OneRunPerInstant
PROPERTIES
  DueIsDecided
  ExecutionsAreClaimed
  EveryRunSettles
