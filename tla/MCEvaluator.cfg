SPECIFICATION Spec
\* A behaviour ends when its runs and edits are used up.
CHECK_DEADLOCK FALSE
CONSTANTS
  NodeName <- MCNodes
  Text <- MCText
  Malformed = Malformed
  Missing = Missing
  Corrupt = Corrupt
  NoReceipt = NoReceipt
  NoRun = NoRun
  NoPlan = NoPlan
  Paths = {"hello.txt"}
  Metas <- BothMetas
  Sources <- FewSources
  ProgramOf <- FewProgramOf
  Contracts = {"denominator", "draft"}
  ValidContracts = {"denominator"}
  Contents = {"hi", "ho"}
  Refs = {"a", "b"}
  ExternalReceipts <- FewExternal
  MaxRuns = 2
  MaxEdits = 2
INVARIANTS
  TypeOK
  ReuseGrounded
  OwnReceiptVerifies
  IssuedProofHonoured
PROPERTIES
  LedgerSpec
