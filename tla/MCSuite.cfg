SPECIFICATION FairSpec
\* A behaviour ends when its suites and edits are used up.
CHECK_DEADLOCK FALSE
CONSTANTS
  Id = {"a", "b", "c", "./a"}
  Dir = {"a", "b", "c"}
  DirOf <- MCDirOf
  Contracts = {"fixed", "aliased", "unfixed", "lopsided", "repeated", "misnamed", "short"}
  WellFormed <- MCWellFormed
  CasesOf <- MCCasesOf
  PerState = 1
  Selected = 1
  MaxSuites = 2
  MaxEdits = 1
  Missing = Missing
  Absent = Absent
  Torn = Torn
  NoSuite = NoSuite
INVARIANTS
  TypeOK
  TalliesAddUp
  ReportIsWholeVerdict
  ReportStandsForCases
  GateIsEarned
  QuietSuiteHasOneContract
PROPERTIES
  SuiteEnds
