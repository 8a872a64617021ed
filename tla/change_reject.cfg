SPECIFICATION Spec
CONSTANTS
  Agents = {a1}
  Files = {"f1"}
  Existing = {}
  Batches <- OneBatch
  DiskFails = FALSE
  MaxVersions = 3
  MaxCheckpoints = 1
PROPERTY RejectedIsNotWritten
