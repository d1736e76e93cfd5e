SPECIFICATION Spec
CHECK_DEADLOCK FALSE
CONSTANTS
  Job = {j1, j2}
  Version = {v1}
  MaxHead = 1
  MaxAttempts = 2
  NoCommit = NoCommit
  NoAsset = NoAsset
  NoOwner = NoOwner
  Foreign = Foreign
INVARIANTS
  EvidenceIsOfTaggedCommit
