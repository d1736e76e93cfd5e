SPECIFICATION Spec
CONSTANTS
  Outcome = {closed, refuted}
  MaxRuns = 3
  Absent = Absent
  Torn = Torn
  NoRun = NoRun
INVARIANTS
  TypeOK
  ReportCommits
PROPERTIES
  CompletedRunCommits
