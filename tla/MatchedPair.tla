----------------------------- MODULE MatchedPair -----------------------------
(***************************************************************************)
(* The matched pair of scripts/conformance.sh: one source is planned in    *)
(* full mode, built and tested, then planned in incremental mode and built *)
(* again; two jq programs check the reports, a third classifies the seven  *)
(* indicators into a pair file and a fourth, which states the same policy  *)
(* in other words, accepts that file or does not.                          *)
(*                                                                         *)
(* A stage that exits with an error ends the script and leaves the files   *)
(* of all stages where they are, and the next attempt uses the same work   *)
(* directory.  The inputs may be edited between two stages.  A run reads   *)
(* them at one instant here; Evaluator is about edits inside a run.        *)
(***************************************************************************)
EXTENDS Planning, Integers, SequencesExt

CONSTANTS
  Sources, ProgramOf,   \* source files and what they parse to
  Contracts, Contents, Receipts,
  Meta,                 \* the meta file, which is not edited here
  Greeting,             \* what the test compares the output with
  Measured,             \* the measured indicators: time and memory of a stage
  Amounts,              \* what may be measured, in milliseconds and kibibytes
  MaxAttempts, MaxEdits,
  Malformed, Missing, Absent

Counted  == {"selected", "executed", "reused"}
Direction == [i \in Measured \union Counted |-> IF i = "reused" THEN "INCREASE" ELSE "DECREASE"]

ASSUME PairAssumption ==
  /\ Measured \cap Counted = {} /\ Amounts \subseteq Nat
  /\ MaxAttempts \in Nat /\ MaxEdits \in Nat
  /\ Missing \notin Contracts /\ Missing \notin Contents /\ Missing \notin Receipts

VARIABLES
  source, contract, fixture, receipt,  \* the inputs, as they are now
  before, after,                       \* what the two runs have written
  pair,                                \* the pair file
  pc, outcome,                         \* where the script is, how the last attempt ended
  attempts, edits,                     \* how often the bounds were drawn on
  quiet                                \* ghost: no edit between the two runs of the attempt

inputs == <<source, contract, fixture, receipt>>
vars == <<inputs, before, after, pair, pc, outcome, attempts, edits, quiet>>

Init ==
  /\ source \in Sources /\ contract \in Contracts /\ fixture \in Contents
  /\ receipt \in Receipts \union {Missing}
  /\ before = Absent /\ after = Absent /\ pair = Absent
  /\ pc = "idle" /\ outcome = "none" /\ attempts = 0 /\ edits = 0 /\ quiet = TRUE

-----------------------------------------------------------------------------
(* The two runs *)

Program == ProgramOf[source]

Key == [source    |-> Digest(source), contract |-> Digest(contract), fixture |-> Digest(fixture),
        toolchain |-> Digest(Program.obligation.toolchain),
        runner    |-> Digest(Program.obligation.runner)]

\* A program names one receipt or none: more of them only block an incremental run.
Loaded == IF Program.refs = <<>> \/ receipt = Missing THEN <<>> ELSE <<receipt>>

MetricsFor(action) ==
  [selected |-> IF action = "SELECTED" THEN 1 ELSE 0,
   executed |-> IF action = "SELECTED" THEN 1 ELSE 0,
   reused   |-> IF action = "REUSED" THEN 1 ELSE 0]

\* report.json, with what the program that is generated beside it prints; receipts,
\* which no file has, are those the run went by.
Report(mode) ==
  LET plan == PlanFor(Meta, Program, Key, Loaded, Program.refs # <<>> /\ receipt = Missing, mode)
  IN  [attempt |-> attempts, plan |-> plan, metrics |-> MetricsFor(plan.action),
       output |-> Program.output, reusedProof |-> plan.action = "REUSED", receipts |-> Loaded]

\* The inputs a run cannot do without: it returns an error and writes no report.
Runnable == Program # Malformed /\ contract # Missing /\ fixture # Missing

-----------------------------------------------------------------------------
(* The stages of the script *)

Start ==
  /\ pc = "idle" /\ attempts < MaxAttempts
  /\ attempts' = attempts + 1
  /\ pc' = "plan_before" /\ outcome' = "none"
  /\ UNCHANGED <<inputs, before, after, pair, edits, quiet>>

\* The command exits with 0 once there is a report, whatever it decided.
PlanBefore ==
  /\ pc = "plan_before" /\ Runnable
  /\ before' = Report("full") /\ quiet' = TRUE
  /\ pc' = "test_before"
  /\ UNCHANGED <<inputs, after, pair, outcome, attempts, edits>>

IsNul(piece) == piece = "nul"
IsNewline(piece) == piece = "newline"

\* What a shell makes of $(...): an output, which is a sequence of pieces, without
\* its NUL bytes and then without the newlines at its end.
Captured(output) ==
  LET IsKept(piece) == ~IsNul(piece)
      IsText(piece) == ~IsNewline(piece)
      kept == SelectSeq(output, IsKept)
  IN  SubSeq(kept, 1, SelectLastInSeq(kept, IsText))

\* Build and test stage: the generated program prints the declared output, and
\* what the shell captures of that is compared.
TestBefore ==
  /\ pc = "test_before" /\ Captured(before.output) = Greeting
  /\ pc' = "plan_after"
  /\ UNCHANGED <<inputs, before, after, pair, outcome, attempts, edits, quiet>>

PlanAfter ==
  /\ pc = "plan_after" /\ Runnable
  /\ after' = Report("incremental")
  /\ pc' = "test_after"
  /\ UNCHANGED <<inputs, before, pair, outcome, attempts, edits, quiet>>

\* The after program is built but not run: its test stage is a look at the report.
TestAfter ==
  /\ pc = "test_after"
  /\ after.plan.action = "REUSED" /\ after.metrics = MetricsFor("REUSED") /\ after.reusedProof
  /\ pc' = "check"
  /\ UNCHANGED <<inputs, before, after, pair, outcome, attempts, edits, quiet>>

CheckReports ==
  /\ pc = "check"
  /\ before.plan.decision = "CLOSED" /\ before.plan.action = "SELECTED"
  /\ before.metrics = MetricsFor("SELECTED")
  /\ after.plan.decision = "CLOSED" /\ after.plan.action = "REUSED"
  /\ after.metrics = MetricsFor("REUSED")
  /\ pc' = "pair"
  /\ UNCHANGED <<inputs, before, after, pair, outcome, attempts, edits, quiet>>

-----------------------------------------------------------------------------
(* The classification *)

Observed(direction, delta) ==
  IF delta = 0 THEN "UNCHANGED"
  ELSE IF (delta < 0) = (direction = "DECREASE") THEN "IMPROVED"
  ELSE "REGRESSED"

ClaimOf(observation) ==
  CASE observation = "IMPROVED"  -> "CLOSED"
    [] observation = "UNCHANGED" -> "NOT_CLAIMED"
    [] observation = "REGRESSED" -> "REFUTED"

ProofGate ==
  /\ before.plan.action = "SELECTED" /\ before.metrics = MetricsFor("SELECTED")
  /\ ~before.reusedProof
  /\ after.plan.action = "REUSED" /\ after.metrics = MetricsFor("REUSED")
  /\ after.reusedProof

\* A fault to catch: fewer is better for every indicator.
ClassifiedAsDecrease(i, from, to, gate) ==
  LET observation == Observed("DECREASE", to - from)
  IN  [before |-> from, after |-> to, delta |-> to - from, observation |-> observation,
       claim |-> IF i \in {"selected", "executed"} /\ to < from /\ ~gate
                 THEN "REFUTED" ELSE ClaimOf(observation)]

Classified(i, from, to, gate) ==
  LET observation == Observed(Direction[i], to - from)
  IN  [before |-> from, after |-> to, delta |-> to - from, observation |-> observation,
       claim |-> IF i \in {"selected", "executed"} /\ to < from /\ ~gate
                 THEN "REFUTED" ELSE ClaimOf(observation)]

Vector(from, to) ==
  [i \in Measured \union Counted |->
     IF i \in Counted THEN Classified(i, before.metrics[i], after.metrics[i], ProofGate)
     ELSE Classified(i, from[i], to[i], ProofGate)]

\* The stages before have measured some amounts, and looked at none of them.
\* The identity of the pair is taken from the report of the first run.
WritePair ==
  /\ pc = "pair"
  /\ \E from, to \in [Measured -> Amounts] :
       pair' = [attempt |-> attempts, key |-> before.plan.key, sameInputs |-> TRUE,
                before |-> before.plan.action, after |-> after.plan.action,
                gate |-> ProofGate, vector |-> Vector(from, to)]
  /\ pc' = "gate"
  /\ UNCHANGED <<inputs, before, after, outcome, attempts, edits, quiet>>

-----------------------------------------------------------------------------
(* The final gate, in its own words *)

ExpectedObservation(direction, delta) ==
  IF direction = "DECREASE"
  THEN IF delta < 0 THEN "IMPROVED" ELSE IF delta = 0 THEN "UNCHANGED" ELSE "REGRESSED"
  ELSE IF delta > 0 THEN "IMPROVED" ELSE IF delta = 0 THEN "UNCHANGED" ELSE "REGRESSED"

ExpectedClaim(i, item) ==
  IF i \in {"selected", "executed"} \/ item.observation = "IMPROVED" THEN "CLOSED"
  ELSE IF item.observation = "UNCHANGED" THEN "NOT_CLAIMED"
  ELSE "REFUTED"

Acceptable ==
  /\ pair.sameInputs /\ pair.gate
  /\ pair.before = "SELECTED" /\ pair.after = "REUSED"
  /\ \A i \in DOMAIN pair.vector :
       LET item == pair.vector[i]
       IN  /\ item.delta = item.after - item.before
           /\ item.observation = ExpectedObservation(Direction[i], item.delta)
           /\ item.claim = ExpectedClaim(i, item)
  /\ \A i \in Counted :
       /\ pair.vector[i].before = MetricsFor("SELECTED")[i]
       /\ pair.vector[i].after = MetricsFor("REUSED")[i]

FinalGate ==
  /\ pc = "gate" /\ Acceptable
  /\ pc' = "idle" /\ outcome' = "passed"
  /\ UNCHANGED <<inputs, before, after, pair, attempts, edits, quiet>>

\* A fault to catch: the script goes on with the report of an earlier attempt.
FailedStageIgnored ==
  IF pc = "plan_after" /\ after # Absent
  THEN pc' = "test_after" /\ UNCHANGED outcome
  ELSE pc' = "idle" /\ outcome' = "failed"

FailedStage == pc' = "idle" /\ outcome' = "failed"

\* A stage that exits with an error, or a kill.
Stop ==
  /\ pc # "idle"
  /\ FailedStage
  /\ UNCHANGED <<inputs, before, after, pair, attempts, edits, quiet>>

-----------------------------------------------------------------------------
(* Everybody else *)

Edit ==
  /\ edits < MaxEdits
  /\ edits' = edits + 1 /\ quiet' = (quiet /\ pc \notin {"test_before", "plan_after"})
  /\ \/ source' \in Sources /\ UNCHANGED <<contract, fixture, receipt>>
     \/ contract' \in Contracts \union {Missing} /\ UNCHANGED <<source, fixture, receipt>>
     \/ fixture' \in Contents \union {Missing} /\ UNCHANGED <<source, contract, receipt>>
     \/ receipt' \in Receipts \union {Missing} /\ UNCHANGED <<source, contract, fixture>>
  /\ UNCHANGED <<before, after, pair, pc, outcome, attempts>>

Next ==
  Start \/ PlanBefore \/ TestBefore \/ PlanAfter \/ TestAfter \/ CheckReports \/ WritePair
    \/ FinalGate \/ Stop \/ Edit

Spec == Init /\ [][Next]_vars

-----------------------------------------------------------------------------
(* Correctness *)

\* The script is at a stage only behind those whose results it uses: both
\* reports are of this attempt by the time they are read.
TypeOK ==
  /\ source \in Sources /\ contract \in Contracts \union {Missing}
  /\ fixture \in Contents \union {Missing} /\ receipt \in Receipts \union {Missing}
  /\ pc \in {"idle", "plan_before", "test_before", "plan_after", "test_after", "check",
             "pair", "gate"}
  /\ outcome \in {"none", "passed", "failed"} /\ (pc # "idle" => outcome = "none")
  /\ attempts \in 0 .. MaxAttempts /\ edits \in 0 .. MaxEdits /\ quiet \in BOOLEAN
  /\ pc \in {"test_before", "plan_after", "test_after", "check", "pair", "gate"} =>
       before.attempt = attempts
  /\ pc \in {"test_after", "check", "pair", "gate"} => after.attempt = attempts
  /\ pc = "gate" => pair.attempt = attempts

\* The two statements of the indicator policy agree: whatever was measured, and
\* whatever was edited meanwhile, the gate accepts each pair the script gets as
\* far as writing, regressions in time and memory included
\* (conformance.sh:73-87 against 116-127).
WrittenPairIsAccepted == pc = "gate" => Acceptable

\* A pair that passed is proved: in this very attempt the first run selected the
\* test and its program printed what the shell takes for the greeting, and the
\* second skipped the test on one PASS receipt for its whole key; so a decrease of
\* selected and executed is CLOSED on an exact proof only.  The result in the
\* report is the digest of what was printed, trailing newlines included
\* (conformance.sh:38-55, 98, 114-138).
PassedPairIsProved ==
  outcome = "passed" =>
    /\ pair.attempt = attempts /\ before.attempt = attempts /\ after.attempt = attempts
    /\ before.plan.decision = "CLOSED"
    /\ Captured(before.output) = Greeting /\ before.plan.result = Digest(before.output)
    /\ pair.key = before.plan.key
    /\ Len(after.receipts) = 1
    /\ after.receipts[1].state = "PASS" /\ after.receipts[1].result # NoDigest
    /\ after.receipts[1].key = after.plan.key
    /\ after.receipts[1].obligation = after.plan.obligation
    /\ \A i \in {"selected", "executed"} :
         pair.vector[i].delta = -1 /\ pair.vector[i].claim = "CLOSED"

\* When nobody edits the inputs between the two runs the pair is matched, whatever
\* happens to them before the first and after the second: both runs have one key and
\* one declared output, so the program that was not run prints what the tested one
\* printed (conformance.sh:38-44, 60-64).
QuietPairIsMatched ==
  outcome = "passed" /\ quiet =>
    before.plan.key = after.plan.key /\ before.output = after.output
=============================================================================
