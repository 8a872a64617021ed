SPECIFICATION Spec
CONSTANTS
  NoId = NoId
  Ids = {"c1", "w1"}
  WriteIds = {"w1"}
  Replies <- MixedReplies
  MaxCalls = 2
  MaxCrashes = 2
  MaxEvents = 12
  DiskFails = TRUE
INVARIANTS
  JournalIsPrefix
  AtMostOnce
  RunningIsShownUnknown
  RecoveryMatchesOnline
  ReasonNeverStale
