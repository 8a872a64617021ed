SPECIFICATION Spec
CONSTANTS
  Agents = {a1, a2}
  Files = {"f1", "f2"}
  Existing = {"f1", "f2"}
  Batches <- SmallBatches
  DiskFails = TRUE
  MaxVersions = 4
  MaxCheckpoints = 2
SYMMETRY Executors
INVARIANTS
  ReviewedEditsKept
  NothingLost
  WritesUndoable
  RestoreUndoes
