SPECIFICATION Spec
CONSTANTS
  NodeName <- MCNodes
  Sources <- MCSources
  ProgramOf <- MCProgramOf
  Contracts = {"denominator", "draft"}
  Contents = {"hi", "bye"}
  Receipts <- MCReceipts
  Meta <- MCMeta
  Greeting <- MCGreeting
  Measured = {"test_wall_ms", "test_peak_rss_kib"}
  Amounts = {0, 1}
  MaxAttempts = 2
  MaxEdits = 2
  Malformed = Malformed
  Missing = Missing
  Absent = Absent
INVARIANTS
  TypeOK
  WrittenPairIsAccepted
  PassedPairIsProved
  QuietPairIsMatched
CHECK_DEADLOCK FALSE
