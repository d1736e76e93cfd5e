SPECIFICATION Spec
\* A behaviour ends when its runs and edits are used up.
CHECK_DEADLOCK FALSE
CONSTANTS
  NodeName <- MCNodes
  Text <- MCText
  Malformed = Malformed
  Missing = Missing
  Corrupt = Corrupt
  NoReceipt = NoReceipt
  NoRun = NoRun
  NoPlan = NoPlan
  Paths = {"hello.txt"}
  Metas <- BothMetas
  Sources <- AllSources
  ProgramOf <- MCProgramOf
  Contracts = {"denominator", "draft"}
  ValidContracts = {"denominator"}
  Contents = {"hi", "ho"}
  Refs = {"a", "b"}
  ExternalReceipts <- AllExternal
  MaxRuns = 1
  MaxEdits = 1
INVARIANTS
  ModesAgree
  QuietRunIsAtomic
  ReuseIsLicensed
  ClosureNeedsEveryReceipt
