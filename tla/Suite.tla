-------------------------------- MODULE Suite --------------------------------
(***************************************************************************)
(* engine.RunSuite and the gate of scripts/conformance.sh behind it.  The  *)
(* suite reads the contract, runs its cases one by one, each into its own  *)
(* directory and each reading the contract again, counts what they decide, *)
(* and writes suite-report.json only when no case returned an error.  The  *)
(* contract may be edited at any time, the process may die at any step,    *)
(* and the next suite may use the same directory.                          *)
(*                                                                         *)
(* What a case decides is any decision, with an action that goes with it:  *)
(* Evaluator is about how it comes about.                                  *)
(***************************************************************************)
EXTENDS Naturals, Sequences, FiniteSets, Functions

CONSTANTS
  Id,            \* identifiers of cases
  Dir, DirOf,    \* case directories, and the one that an identifier names once cleaned
  Contracts,     \* the contract files
  WellFormed,    \* those with the schema, the fixed flag, the precedence and no empty field
  CasesOf,       \* their cases, as sequences of [id, expected]
  PerState,      \* how many cases the denominator has of each state: 3
  Selected,      \* how many of the CLOSED ones the gate wants selected: 1
  MaxSuites, MaxEdits,
  Missing, Absent, Torn, NoSuite

State  == {"CLOSED", "UNKNOWN", "REFUTED"}
Action == {"SELECTED", "REUSED", "UNKNOWN", "REFUTED"}
Mode   == {"full", "incremental"}
Case   == [id : Id, expected : State \union {"PASS"}]

\* A case as the suite report lists it, with the contract its own run read.
Result == [id : Id, expected : State, decision : State, action : Action, contract : Contracts]

ASSUME SuiteAssumption ==
  /\ CasesOf \in [Contracts -> Seq(Case)] /\ WellFormed \subseteq Contracts
  /\ DirOf \in [Id -> Dir]
  /\ PerState \in Nat \ {0} /\ Selected \in 0 .. PerState
  /\ MaxSuites \in Nat /\ MaxEdits \in Nat
  /\ Missing \notin Contracts

Denominator == 3 * PerState

Deciding(cases, s)  == Cardinality({i \in DOMAIN cases : cases[i].decision = s})
Expecting(cases, s) == Cardinality({i \in DOMAIN cases : cases[i].expected = s})

\* validateContract
Valid(file) ==
  LET cases == CasesOf[file]
  IN  /\ file \in WellFormed
      /\ Len(cases) = Denominator
      /\ \A i \in DOMAIN cases : cases[i].expected \in State
      /\ \A i, k \in DOMAIN cases : cases[i].id = cases[k].id => i = k
      /\ \A s \in State : Expecting(cases, s) = PerState

Counts == [State -> Nat]
NoCounts == [s \in State |-> 0]
Tally == [total : Nat, selected : Nat, executed : Nat, reused : Nat, unknown : Nat, failed : Nat]
NoTally == [total |-> 0, selected |-> 0, executed |-> 0, reused |-> 0, unknown |-> 0, failed |-> 0]

\* What a suite holds in memory: the contract it digested, the one it parsed,
\* and what it has counted so far.
Memory ==
  [mode : Mode, digest : Contracts \union {Missing}, contract : Contracts \union {Missing},
   cases : Seq(Result), actual : Tally, expectedStates : Counts, actualStates : Counts]

\* suite-report.json
Report ==
  [suite : 1 .. MaxSuites, digest : Contracts, decision : {"CLOSED", "REFUTED"},
   cases : Seq(Result), actual : Tally, expectedStates : Counts, actualStates : Counts]

CaseDir == [suite : 1 .. MaxSuites, case : Id, contract : Contracts]

ASSUME SuiteMarksAssumption ==
  /\ NoSuite \notin Memory
  /\ Absent \notin Report \union CaseDir /\ Torn \notin Report \union CaseDir

VARIABLES
  contract,         \* the contract file as it is now
  dirs, report,     \* the case directories and suite-report.json
  pc, suite,        \* where the suite is and what it holds
  gate,             \* what conformance.sh made of the last suite
  suites, edits,    \* how often the bounds were drawn on; suites numbers the suites
  quiet             \* ghost: no edit between the suite's first read and its last

vars == <<contract, dirs, report, pc, suite, gate, suites, edits, quiet>>

Init ==
  /\ contract \in {c \in Contracts : Valid(c)}
  /\ dirs = [dir \in Dir |-> Absent] /\ report = Absent
  /\ pc = "idle" /\ suite = NoSuite /\ gate = "open"
  /\ suites = 0 /\ edits = 0 /\ quiet = TRUE

-----------------------------------------------------------------------------
(* The suite *)

Start(mode) ==
  /\ pc = "idle" /\ suites < MaxSuites
  /\ mode \in {"", "full", "incremental"}
  /\ suites' = suites + 1
  /\ suite' = [mode |-> IF mode = "" THEN "incremental" ELSE mode,
               digest |-> Missing, contract |-> Missing, cases |-> <<>>, actual |-> NoTally,
               expectedStates |-> NoCounts, actualStates |-> NoCounts]
  /\ pc' = "digest" /\ gate' = "open" /\ quiet' = TRUE
  /\ UNCHANGED <<contract, dirs, report, edits>>

\* A fault to catch: the digest is taken over from the last report.
DigestContractOnce ==
  /\ pc = "digest" /\ contract # Missing
  /\ suite' = [suite EXCEPT !.digest = IF report \in Report THEN report.digest ELSE contract]
  /\ pc' = "parse"
  /\ UNCHANGED <<contract, dirs, report, gate, suites, edits, quiet>>

\* loadContract takes the digest from one read and the cases from another.
DigestContract ==
  /\ pc = "digest" /\ contract # Missing
  /\ suite' = [suite EXCEPT !.digest = contract]
  /\ pc' = "parse"
  /\ UNCHANGED <<contract, dirs, report, gate, suites, edits, quiet>>

ParseContract ==
  /\ pc = "parse" /\ contract # Missing /\ Valid(contract)
  /\ suite' = [suite EXCEPT !.contract = contract]
  /\ pc' = "cases"
  /\ UNCHANGED <<contract, dirs, report, gate, suites, edits, quiet>>

Cases     == CasesOf[suite.contract]
MoreCases == Len(suite.cases) < Len(Cases)
NextCase  == Cases[Len(suite.cases) + 1]

\* The directory of the next case, and what a run leaves in it.
CaseOut   == DirOf[NextCase.id]
Artifacts == [suite |-> suites, case |-> NextCase.id, contract |-> contract]

\* The action of a plan goes with its decision; only incremental runs reuse.
ActionsOf(decision) ==
  IF decision # "CLOSED" THEN {decision}
  ELSE IF suite.mode = "incremental" THEN {"SELECTED", "REUSED"} ELSE {"SELECTED"}

\* A fault to catch: a reused case counts as selected, too.
TallyingReuseTwice(action) ==
  [suite.actual EXCEPT
     !.total    = @ + 1,
     !.selected = IF action \in {"SELECTED", "REUSED"} THEN @ + 1 ELSE @,
     !.executed = IF action = "SELECTED" THEN @ + 1 ELSE @,
     !.reused   = IF action = "REUSED" THEN @ + 1 ELSE @,
     !.unknown  = IF action = "UNKNOWN" THEN @ + 1 ELSE @,
     !.failed   = IF action = "REFUTED" THEN @ + 1 ELSE @]

Tallied(action) ==
  [suite.actual EXCEPT
     !.total    = @ + 1,
     !.selected = IF action = "SELECTED" THEN @ + 1 ELSE @,
     !.executed = IF action = "SELECTED" THEN @ + 1 ELSE @,
     !.reused   = IF action = "REUSED" THEN @ + 1 ELSE @,
     !.unknown  = IF action = "UNKNOWN" THEN @ + 1 ELSE @,
     !.failed   = IF action = "REFUTED" THEN @ + 1 ELSE @]

\* The memory when a case is listed and counted.
Listed(decision, action) ==
  [suite EXCEPT
     !.cases = Append(@, [id |-> NextCase.id, expected |-> NextCase.expected,
                          decision |-> decision, action |-> action, contract |-> contract]),
     !.actual = Tallied(action),
     !.expectedStates[NextCase.expected] = @ + 1,
     !.actualStates[decision] = @ + 1]

\* A fault to catch: a case is listed although a write of its Run failed.
RunCaseTolerant ==
  /\ pc = "cases" /\ MoreCases
  /\ contract # Missing /\ Valid(contract)
  /\ \E decision \in State : \E action \in ActionsOf(decision) : suite' = Listed(decision, action)
  /\ \E left \in {Artifacts, Torn} : dirs' = [dirs EXCEPT ![CaseOut] = left]
  /\ UNCHANGED <<contract, report, pc, gate, suites, edits, quiet>>

\* One case whose Run returns a report.  Two identifiers that filepath.Join makes
\* one path share a directory, and the later case has it.
RunCase ==
  /\ pc = "cases" /\ MoreCases
  /\ contract # Missing /\ Valid(contract)
  /\ \E decision \in State : \E action \in ActionsOf(decision) : suite' = Listed(decision, action)
  /\ dirs' = [dirs EXCEPT ![CaseOut] = Artifacts]
  /\ UNCHANGED <<contract, report, pc, gate, suites, edits, quiet>>

CasesDone ==
  /\ pc = "cases" /\ ~MoreCases
  /\ pc' = "report"
  /\ UNCHANGED <<contract, dirs, report, suite, gate, suites, edits, quiet>>

\* A fault to catch: a suite is judged by its counts.
DecisionOfCounts ==
  IF suite.actualStates = suite.expectedStates THEN "CLOSED" ELSE "REFUTED"

SuiteDecision ==
  IF \A r \in Range(suite.cases) : r.decision = r.expected THEN "CLOSED" ELSE "REFUTED"

OpenReport ==
  /\ pc = "report"
  /\ report' = Torn
  /\ pc' = "fill"
  /\ UNCHANGED <<contract, dirs, suite, gate, suites, edits, quiet>>

FillReport ==
  /\ pc = "fill"
  /\ report' = [suite |-> suites, digest |-> suite.digest, decision |-> SuiteDecision,
                cases |-> suite.cases, actual |-> suite.actual,
                expectedStates |-> suite.expectedStates, actualStates |-> suite.actualStates]
  /\ pc' = "human"
  /\ UNCHANGED <<contract, dirs, suite, gate, suites, edits, quiet>>

\* With the human report the suite returns its report and the command exits 0.
WriteHuman ==
  /\ pc = "human"
  /\ pc' = "gate" /\ suite' = NoSuite
  /\ UNCHANGED <<contract, dirs, report, gate, suites, edits, quiet>>

\* What jq asks of suite-report.json.
GateCondition ==
  /\ report \in Report
  /\ report.decision = "CLOSED" /\ Len(report.cases) = Denominator
  /\ report.actual = [total |-> Denominator, selected |-> Selected, executed |-> Selected,
                      reused |-> PerState - Selected, unknown |-> PerState, failed |-> PerState]
  /\ \A s \in State : report.actualStates[s] = PerState /\ report.expectedStates[s] = PerState

Gate ==
  /\ pc = "gate"
  /\ gate' = IF GateCondition THEN "passed" ELSE "failed"
  /\ pc' = "idle"
  /\ UNCHANGED <<contract, dirs, report, suite, suites, edits, quiet>>

\* Faults to catch: the memory of a failed suite is kept; the script goes on to
\* the gate after it; a case that returned an error is tried again.
FailedSuiteKept == pc' = "idle" /\ UNCHANGED suite
FailedSuiteGated == pc' = "gate" /\ suite' = NoSuite
FailedSuiteRetried ==
  IF pc = "cases" THEN UNCHANGED <<pc, suite>> ELSE pc' = "idle" /\ suite' = NoSuite

FailedSuite == pc' = "idle" /\ suite' = NoSuite

\* An error return, at the contract, in a case, or in a write, or a kill: a
\* case that does not return may leave its directory half written.
Stop ==
  /\ pc \notin {"idle", "gate"}
  /\ FailedSuite
  /\ \/ UNCHANGED dirs
     \/ pc = "cases" /\ MoreCases /\ dirs' = [dirs EXCEPT ![CaseOut] = Torn]
  /\ UNCHANGED <<contract, report, gate, suites, edits, quiet>>

SuiteStep ==
  DigestContract \/ ParseContract \/ RunCase \/ CasesDone \/ OpenReport \/ FillReport
    \/ WriteHuman \/ Gate \/ Stop

-----------------------------------------------------------------------------
(* Everybody else *)

\* Only while a suite has cases to run does it matter to it.
EditContract ==
  /\ edits < MaxEdits /\ edits' = edits + 1
  /\ quiet' = (quiet /\ pc \notin {"parse", "cases"})
  /\ contract' \in Contracts \union {Missing}
  /\ UNCHANGED <<dirs, report, pc, suite, gate, suites>>

Next == (\E mode \in {"", "full", "incremental"} : Start(mode)) \/ SuiteStep \/ EditContract

Spec == Init /\ [][Next]_vars

\* A started suite goes on or is stopped.
FairSpec == Spec /\ WF_vars(SuiteStep)

-----------------------------------------------------------------------------
(* Correctness *)

\* Files, counters and lists hold values of their kinds, and a suite has read
\* by each point what it holds.
TypeOK ==
  /\ contract \in Contracts \union {Missing}
  /\ dirs \in [Dir -> CaseDir \union {Absent, Torn}]
  /\ report \in Report \union {Absent, Torn}
  /\ pc \in {"idle", "digest", "parse", "cases", "report", "fill", "human", "gate"}
  /\ suite \in Memory \union {NoSuite}
  /\ suite = NoSuite <=> pc \in {"idle", "gate"}
  /\ pc \in {"parse", "cases", "report", "fill", "human"} => suite.digest \in Contracts
  /\ pc \in {"cases", "report", "fill", "human"} =>
       suite.contract \in Contracts /\ Valid(suite.contract)
  /\ gate \in {"open", "passed", "failed"}
  /\ suites \in 0 .. MaxSuites /\ (pc # "idle" => suites > 0)
  /\ edits \in 0 .. MaxEdits /\ quiet \in BOOLEAN

\* The counters always add up to the cases that ran: each case is counted once
\* under its action and once under its decision, what is executed is what is
\* selected, and closed cases are the selected and the reused ones
\* (engine.go:274-325).
TalliesAddUp ==
  suite # NoSuite =>
    LET a == suite.actual
    IN  /\ a.total = Len(suite.cases) /\ a.executed = a.selected
        /\ a.selected + a.reused = suite.actualStates["CLOSED"]
        /\ a.unknown = suite.actualStates["UNKNOWN"] /\ a.failed = suite.actualStates["REFUTED"]
        /\ a.total = a.selected + a.reused + a.unknown + a.failed
        /\ \A s \in State :
             /\ suite.actualStates[s] = Deciding(suite.cases, s)
             /\ suite.expectedStates[s] = Expecting(suite.cases, s)

\* A suite report that is there is the verdict on a whole denominator: it lists
\* as many different cases as the contract must have, PerState of each expected
\* state, and it is CLOSED only if each case was decided as expected, whereupon
\* the counts agree as well (engine.go:289, 326-332; parse.go:274-300).
ReportIsWholeVerdict ==
  report \in Report =>
    /\ Len(report.cases) = Denominator
    /\ \A i, k \in DOMAIN report.cases : report.cases[i].id = report.cases[k].id => i = k
    /\ \A s \in State : report.expectedStates[s] = PerState
    /\ report.decision = "CLOSED" =>
         /\ \A r \in Range(report.cases) : r.decision = r.expected
         /\ report.actualStates = report.expectedStates

\* No later case of the list has the same directory.
LastInDirectory(cases, i) ==
  \A k \in i + 1 .. Len(cases) : DirOf[cases[k].id] # DirOf[cases[i].id]

\* While no later suite has started in the directory, the report stands for
\* what is in the case directories: the directory of each case it lists is whole
\* and of the same suite, and holds that very case, under the contract it was judged
\* by, unless a later case has the same directory (engine.go:281-291, 346).
ReportStandsForCases ==
  report \in Report /\ report.suite = suites =>
    \A i \in DOMAIN report.cases :
      LET r   == report.cases[i]
          dir == dirs[DirOf[r.id]]
      IN  /\ dir \in CaseDir /\ dir.suite = suites
          /\ LastInDirectory(report.cases, i) => dir.case = r.id /\ dir.contract = r.contract

\* The conformance gate passes only on the report of the suite it has just run,
\* whatever reports were there before and wherever suites stopped, and only if
\* every case was decided as expected (conformance.sh:17-24).
GateIsEarned ==
  gate = "passed" =>
    /\ report \in Report /\ report.suite = suites
    /\ \A r \in Range(report.cases) : r.decision = r.expected
    /\ \A r \in Range(report.cases) :
         LET dir == dirs[DirOf[r.id]] IN dir \in CaseDir /\ dir.suite = suites

\* When nobody edits the contract while the suite runs its cases, whatever happens
\* to it before and after, the digest in the report is of the contract that gave the
\* cases and that every case judged itself by (engine.go:267, 282; parse.go:261-271).
QuietSuiteHasOneContract ==
  report \in Report /\ report.suite = suites /\ quiet =>
    \A i \in DOMAIN report.cases :
      /\ report.cases[i].contract = report.digest
      /\ report.cases[i].id = CasesOf[report.digest][i].id

\* A suite that was started ends, at the gate or stopped.
SuiteEnds == pc # "idle" ~> pc = "idle"
=============================================================================
