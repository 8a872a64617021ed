SPECIFICATION Spec
CONSTANTS
  NoId = NoId
  Ids = {"w1"}
  WriteIds = {"w1"}
  Replies <- OneWrite
  MaxCalls = 1
  MaxCrashes = 1
  MaxEvents = 8
  DiskFails = FALSE
INVARIANT
  WriteRecoversUnknown
