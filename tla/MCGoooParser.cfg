SPECIFICATION Spec
\* A parse ends.
CHECK_DEADLOCK FALSE
CONSTANTS
  NodeName = {}
  Text <- MCText
  BeforeHash <- MCBeforeHash
  WellFormed <- MCWellFormed
  Files <- MCFiles
  Long = "long"
  ObligationOf <- MCObligationOf
  GivenMeta <- MCGivenMeta
INVARIANTS
  TypeOK
  ScanIsExact
  VerdictIsExact
  RestrictionsReachThePlan
