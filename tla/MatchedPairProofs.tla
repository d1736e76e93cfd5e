-------------------------- MODULE MatchedPairProofs --------------------------
(***************************************************************************)
(* Theorems about MatchedPair, for every set of sources, receipts, edits   *)
(* and measured amounts.                                                   *)
(***************************************************************************)
EXTENDS MatchedPair, TLAPS

-----------------------------------------------------------------------------
(* The script is at a stage only behind those whose results it uses. *)

\* Every step keeps the types: one case per action.
LEMMA StepType == TypeOK /\ [Next]_vars => TypeOK'
<1> SUFFICES ASSUME TypeOK, [Next]_vars PROVE TypeOK'
  OBVIOUS
<1> USE DEF TypeOK, inputs
<1>1. CASE Start
  BY <1>1, PairAssumption DEF Start
<1>2. CASE PlanBefore
  BY <1>2 DEF PlanBefore, Report
<1>3. CASE TestBefore
  BY <1>3 DEF TestBefore
<1>4. CASE PlanAfter
  BY <1>4 DEF PlanAfter, Report
<1>5. CASE TestAfter
  BY <1>5 DEF TestAfter
<1>6. CASE CheckReports
  BY <1>6 DEF CheckReports
<1>7. CASE WritePair
  <2>1. pair'.attempt = attempts
    BY <1>7 DEF WritePair
  <2> QED BY <1>7, <2>1 DEF WritePair
<1>8. CASE FinalGate
  BY <1>8 DEF FinalGate
<1>9. CASE Stop
  BY <1>9 DEF Stop, FailedStage
<1>10. CASE Edit
  <2>1. edits' \in 0 .. MaxEdits
    BY <1>10, PairAssumption DEF Edit
  <2> QED BY <1>10, <2>1 DEF Edit
<1>11. CASE UNCHANGED vars
  BY <1>11 DEF vars
<1> QED BY <1>1, <1>2, <1>3, <1>4, <1>5, <1>6, <1>7, <1>8, <1>9, <1>10, <1>11 DEF Next

\* What the script holds is well formed and of the attempt at work, in every
\* reachable state.
THEOREM TypeCorrect == Spec => []TypeOK
<1>1. Init => TypeOK
  BY PairAssumption DEF Init, TypeOK
<1> QED BY <1>1, StepType, PTL DEF Spec

-----------------------------------------------------------------------------
(* What a stage leaves true for the next. *)

\* A report that reuses does so on one exact PASS receipt.
Grounded(report) ==
  report.plan.action = "REUSED" =>
    /\ Len(report.receipts) = 1
    /\ report.receipts[1].state = "PASS" /\ report.receipts[1].result # NoDigest
    /\ report.receipts[1].key = report.plan.key
    /\ report.receipts[1].obligation = report.plan.obligation

Truthful(report) ==
  /\ report.metrics = MetricsFor(report.plan.action)
  /\ report.plan.result = Digest(report.output)
  /\ report.reusedProof <=> report.plan.action = "REUSED"

Closed(report, action) == report.plan.decision = "CLOSED" /\ report.plan.action = action

\* The counted indicators of a pair are the two runs' metrics.
PairHeld ==
  /\ pair.key = before.plan.key
  /\ \A i \in {"selected", "executed"} :
       pair.vector[i].delta = -1 /\ pair.vector[i].claim = "CLOSED"

StagesHeld ==
  /\ pc \in {"test_before", "plan_after", "test_after", "check", "pair", "gate"} => Truthful(before)
  /\ pc \in {"plan_after", "test_after", "check", "pair", "gate"} =>
       Captured(before.output) = Greeting
  /\ pc \in {"test_after", "check", "pair", "gate"} => Truthful(after) /\ Grounded(after)
  /\ pc \in {"pair", "gate"} => Closed(before, "SELECTED") /\ Closed(after, "REUSED")
  /\ pc = "gate" => PairHeld

IInv == TypeOK /\ StagesHeld /\ WrittenPairIsAccepted /\ PassedPairIsProved

\* What a run that reuses has found: its one receipt, a PASS for the obligation
\* and the whole key of its program.
LEMMA ReusedReceipt ==
  ASSUME NEW missing, NEW mode,
         PlanFor(Meta, Program, Key, Loaded, missing, mode).action = "REUSED"
  PROVE  /\ Len(Loaded) = 1 /\ Loaded[1].state = "PASS"
         /\ ReceiptMatches(Loaded[1], Key, Program.obligation.id)
<1> DEFINE decision == Decision(Meta, Program, Key, Loaded, missing, mode)
<1>1. decision = "CLOSED" /\ mode = "incremental" /\ Len(Loaded) = 1
  <2>1. Action(decision, mode, Loaded, PathToTarget(Program)) = "REUSED"
    BY DEF PlanFor
  <2>2. decision \in {"CLOSED", "UNKNOWN", "REFUTED"}
    BY DEF Decision, Reduce
  <2> HIDE DEF decision
  <2> QED BY <2>1, <2>2 DEF Action
<1>2. Unknown(Program, Key, Loaded, missing, mode) = {} /\ Refuted(Meta, Program, Loaded, mode) = {}
  BY <1>1 DEF Decision, Reduce
<1>3. ReceiptUnknown(Program, Key, Loaded, missing, mode) = {} /\ ReceiptRefuted(Loaded, mode) = {}
  BY <1>2 DEF Unknown, Refuted
<1>4. ~Ambiguous(Loaded, mode) /\ Loaded = <<receipt>> /\ Loaded[1] \in Range(Loaded)
  BY <1>1 DEF Ambiguous, Loaded, Range
<1>5. Loaded[1].state \in {"PASS", "FAIL"} /\ Loaded[1].state # "FAIL"
  BY <1>3, <1>4 DEF ReceiptUnknown, ReceiptRefuted, Claim
<1>6. ReceiptMatches(Loaded[1], Key, Program.obligation.id)
  BY <1>1, <1>3, <1>4, <1>5 DEF ReceiptUnknown, Claim
<1> QED BY <1>1, <1>5, <1>6

\* What a run reports about itself is so.
LEMMA ReportFacts ==
  ASSUME NEW mode
  PROVE  Truthful(Report(mode)) /\ Grounded(Report(mode))
<1> DEFINE missing == Program.refs # <<>> /\ receipt = Missing
           plan == PlanFor(Meta, Program, Key, Loaded, missing, mode)
<1>1. Report(mode) = [attempt |-> attempts, plan |-> plan, metrics |-> MetricsFor(plan.action),
                      output |-> Program.output, reusedProof |-> plan.action = "REUSED",
                      receipts |-> Loaded]
  BY DEF Report
<1>2. /\ plan.key = Key /\ plan.obligation = Program.obligation.id
      /\ plan.result = Digest(Program.output)
  BY DEF PlanFor
<1>3. ASSUME plan.action = "REUSED"
      PROVE  Len(Loaded) = 1 /\ Loaded[1].state = "PASS"
               /\ ReceiptMatches(Loaded[1], Key, Program.obligation.id)
  <2> HIDE DEF missing
  <2> QED BY <1>3, ReusedReceipt
<1> HIDE DEF plan
<1>4. PICK r : r = Report(mode)
  OBVIOUS
<1>5. /\ r.plan = plan /\ r.metrics = MetricsFor(plan.action) /\ r.receipts = Loaded
      /\ r.output = Program.output /\ r.reusedProof = (plan.action = "REUSED")
  BY <1>1, <1>4
<1>6. Truthful(r)
  BY <1>2, <1>5 DEF Truthful
<1>7. Grounded(r)
  BY <1>2, <1>3, <1>5 DEF Grounded, ReceiptMatches
<1> QED BY <1>4, <1>6, <1>7

\* What the gate expects of an indicator it observes o of.
ClaimExpected(i, o) ==
  IF i \in {"selected", "executed"} \/ o = "IMPROVED" THEN "CLOSED"
  ELSE IF o = "UNCHANGED" THEN "NOT_CLAIMED" ELSE "REFUTED"

\* The classification when the reuse is proved.
Proved(i, from, to) == Classified(i, from, to, TRUE)

\* The policy of the pair is the policy of the gate, for every two amounts: what
\* the one classifies passes the other.
LEMMA PoliciesAgree ==
  ASSUME NEW i, Direction[i] \in {"INCREASE", "DECREASE"}, NEW from \in Int, NEW to \in Int,
         i \in {"selected", "executed"} => Direction[i] = "DECREASE" /\ to < from,
         NEW item, item = Proved(i, from, to)
  PROVE  /\ item.before = from /\ item.after = to /\ item.delta = item.after - item.before
         /\ item.observation = ExpectedObservation(Direction[i], item.delta)
         /\ item.claim = ExpectedClaim(i, item)
<1>1. PICK delta \in Int : delta = to - from
  OBVIOUS
<1>2. PICK o : o = Observed(Direction[i], delta)
  OBVIOUS
<1>3. o = ExpectedObservation(Direction[i], delta)
  BY <1>2 DEF Observed, ExpectedObservation
<1>4. o \in {"IMPROVED", "UNCHANGED", "REGRESSED"}
  BY <1>3 DEF ExpectedObservation
<1>5. i \in {"selected", "executed"} => o = "IMPROVED"
  BY <1>1, <1>3 DEF ExpectedObservation
<1>6. PICK claim : claim = ClaimOf(o)
  OBVIOUS
<1>7. item = [before |-> from, after |-> to, delta |-> delta, observation |-> o, claim |-> claim]
  BY <1>1, <1>2, <1>6 DEF Proved, Classified
<1>8. /\ item.before = from /\ item.after = to /\ item.delta = delta
      /\ item.observation = o /\ item.claim = claim
  BY <1>7
<1>9. claim = ExpectedClaim(i, item)
  BY <1>4, <1>5, <1>6, <1>8 DEF ClaimOf, ExpectedClaim
<1> QED BY <1>1, <1>3, <1>8, <1>9

\* Selected and executed are to decrease, and every indicator has a direction.
LEMMA DirectionFacts ==
  /\ Direction["selected"] = "DECREASE" /\ Direction["executed"] = "DECREASE"
  /\ \A i \in Measured \union Counted : Direction[i] \in {"INCREASE", "DECREASE"}
BY DEF Direction, Counted

\* A pair that is written is acceptable, and its counts are those of its runs.
LEMMA WritePairAccepted ==
  ASSUME IInv, WritePair
  PROVE  Acceptable' /\ PairHeld'
<1>1. /\ Truthful(before) /\ Truthful(after)
      /\ Closed(before, "SELECTED") /\ Closed(after, "REUSED")
  BY DEF IInv, StagesHeld, WritePair
<1>2. ProofGate = TRUE
  BY <1>1 DEF ProofGate, Truthful, Closed
<1>3. PICK from, to \in [Measured -> Amounts] :
        pair' = [attempt |-> attempts, key |-> before.plan.key, sameInputs |-> TRUE,
                 before |-> before.plan.action, after |-> after.plan.action,
                 gate |-> ProofGate, vector |-> Vector(from, to)]
  BY DEF WritePair
<1>4. PICK v : v = Vector(from, to)
  OBVIOUS
<1>5. pair'.vector = v /\ pair'.key = before.plan.key /\ pair'.sameInputs /\ pair'.gate
        /\ pair'.before = "SELECTED" /\ pair'.after = "REUSED"
  BY <1>1, <1>2, <1>3, <1>4 DEF Closed
<1>6. DOMAIN v = Measured \union Counted
  BY <1>4 DEF Vector
<1>7. before.metrics = MetricsFor("SELECTED") /\ after.metrics = MetricsFor("REUSED")
  BY <1>1 DEF Truthful, Closed
<1>8. ASSUME NEW i \in Counted
      PROVE  v[i] = Proved(i, MetricsFor("SELECTED")[i], MetricsFor("REUSED")[i])
  BY <1>2, <1>4, <1>7, <1>8 DEF Vector, Proved
<1>9. ASSUME NEW i \in Measured
      PROVE  v[i] = Proved(i, from[i], to[i]) /\ i \notin Counted
  <2>1. i \notin Counted
    BY <1>9, PairAssumption
  <2> QED BY <1>2, <1>4, <1>9, <2>1 DEF Vector, Proved
<1>10. ASSUME NEW i \in Counted
       PROVE  /\ v[i].before = MetricsFor("SELECTED")[i] /\ v[i].after = MetricsFor("REUSED")[i]
              /\ v[i].delta = v[i].after - v[i].before
              /\ v[i].observation = ExpectedObservation(Direction[i], v[i].delta)
              /\ v[i].claim = ExpectedClaim(i, v[i])
  <2>1. PICK a, b : a = MetricsFor("SELECTED")[i] /\ b = MetricsFor("REUSED")[i]
    OBVIOUS
  <2>2. /\ a \in Int /\ b \in Int
        /\ i \in {"selected", "executed"} => b < a
    BY <1>10, <2>1 DEF MetricsFor, Counted
  <2>3. Direction[i] \in {"INCREASE", "DECREASE"}
          /\ (i \in {"selected", "executed"} => Direction[i] = "DECREASE")
    BY <1>10, DirectionFacts
  <2>4. v[i] = Proved(i, a, b)
    BY <1>8, <1>10, <2>1
  <2>5. i \in {"selected", "executed"} => Direction[i] = "DECREASE" /\ b < a
    BY <2>2, <2>3
  <2>6. PICK item : item = v[i] /\ item = Proved(i, a, b)
    BY <2>4
  <2>7. /\ item.before = a /\ item.after = b /\ item.delta = item.after - item.before
        /\ item.observation = ExpectedObservation(Direction[i], item.delta)
        /\ item.claim = ExpectedClaim(i, item)
    BY <2>2, <2>3, <2>5, <2>6, PoliciesAgree
  <2> QED BY <2>1, <2>6, <2>7
<1>11. ASSUME NEW i \in Measured
       PROVE  /\ v[i].delta = v[i].after - v[i].before
              /\ v[i].observation = ExpectedObservation(Direction[i], v[i].delta)
              /\ v[i].claim = ExpectedClaim(i, v[i])
  <2>1. PICK a, b : a = from[i] /\ b = to[i]
    OBVIOUS
  <2>2. a \in Int /\ b \in Int
    BY <1>11, <2>1, PairAssumption
  <2>3. Direction[i] \in {"INCREASE", "DECREASE"} /\ i \notin {"selected", "executed"}
    BY <1>9, <1>11, DirectionFacts DEF Counted
  <2>4. v[i] = Proved(i, a, b)
    BY <1>9, <1>11, <2>1
  <2>5. i \in {"selected", "executed"} => Direction[i] = "DECREASE" /\ b < a
    BY <2>2, <2>3
  <2>6. PICK item : item = v[i] /\ item = Proved(i, a, b)
    BY <2>4
  <2>7. /\ item.before = a /\ item.after = b /\ item.delta = item.after - item.before
        /\ item.observation = ExpectedObservation(Direction[i], item.delta)
        /\ item.claim = ExpectedClaim(i, item)
    BY <2>2, <2>3, <2>5, <2>6, PoliciesAgree
  <2> QED BY <2>1, <2>6, <2>7
<1>12. Acceptable'
  BY <1>5, <1>6, <1>10, <1>11 DEF Acceptable
<1>13. ASSUME NEW i \in {"selected", "executed"}
       PROVE  v[i].delta = -1 /\ v[i].claim = "CLOSED"
  <2>1. i \in Counted
    BY <1>13 DEF Counted
  <2>2. MetricsFor("SELECTED")[i] = 1 /\ MetricsFor("REUSED")[i] = 0
    BY <1>13 DEF MetricsFor
  <2> QED BY <1>10, <1>13, <2>1, <2>2 DEF ExpectedClaim
<1>14. PairHeld'
  BY <1>5, <1>13 DEF PairHeld, WritePair
<1> QED BY <1>12, <1>14

-----------------------------------------------------------------------------
(* The invariant. *)

\* It holds before anything was run.
LEMMA InitInv == Init => IInv
<1> SUFFICES ASSUME Init PROVE IInv
  OBVIOUS
<1>1. TypeOK
  BY PairAssumption DEF Init, TypeOK
<1> QED BY <1>1 DEF Init, IInv, StagesHeld, WrittenPairIsAccepted, PassedPairIsProved

\* Every step keeps the invariant: one case per action.
LEMMA StepInv == IInv /\ [Next]_vars => IInv'
<1> SUFFICES ASSUME IInv, [Next]_vars PROVE IInv'
  OBVIOUS
<1>1. TypeOK /\ TypeOK'
  BY StepType DEF IInv
<1>2. StagesHeld /\ WrittenPairIsAccepted /\ PassedPairIsProved
  BY DEF IInv
<1> SUFFICES StagesHeld' /\ WrittenPairIsAccepted' /\ PassedPairIsProved'
  BY <1>1 DEF IInv
<1>a. CASE Start
  BY <1>a DEF Start, StagesHeld, WrittenPairIsAccepted, PassedPairIsProved
<1>b. CASE PlanBefore
  <2>1. before' = Report("full") /\ pc' = "test_before" /\ outcome' = "none"
    BY <1>1, <1>b DEF PlanBefore, TypeOK
  <2>2. PICK r : r = Report("full")
    OBVIOUS
  <2>3. Truthful(r) /\ before' = r
    BY <2>1, <2>2, ReportFacts
  <2>4. Truthful(before)'
    BY <2>3 DEF Truthful
  <2> QED BY <2>1, <2>4 DEF StagesHeld, WrittenPairIsAccepted, PassedPairIsProved
<1>c. CASE TestBefore
  <2>1. pc' = "plan_after" /\ outcome' = "none" /\ before' = before /\ pc = "test_before"
          /\ Captured(before.output) = Greeting
    BY <1>1, <1>c DEF TestBefore, TypeOK
  <2>2. Truthful(before)'
    BY <1>2, <2>1 DEF StagesHeld, Truthful
  <2> QED BY <2>1, <2>2 DEF StagesHeld, WrittenPairIsAccepted, PassedPairIsProved
<1>d. CASE PlanAfter
  <2>1. /\ after' = Report("incremental") /\ pc' = "test_after" /\ outcome' = "none"
        /\ before' = before /\ pc = "plan_after"
    BY <1>1, <1>d DEF PlanAfter, TypeOK
  <2>2. PICK r : r = Report("incremental")
    OBVIOUS
  <2>3. Truthful(r) /\ Grounded(r) /\ after' = r
    BY <2>1, <2>2, ReportFacts
  <2>4. Truthful(after)' /\ Grounded(after)'
    BY <2>3 DEF Truthful, Grounded
  <2>5. Truthful(before)' /\ Captured(before'.output) = Greeting
    BY <1>2, <2>1 DEF StagesHeld, Truthful
  <2> QED BY <2>1, <2>4, <2>5 DEF StagesHeld, WrittenPairIsAccepted, PassedPairIsProved
<1>e. CASE TestAfter
  BY <1>1, <1>2, <1>e DEF TestAfter, TypeOK, StagesHeld, WrittenPairIsAccepted,
                          PassedPairIsProved, Truthful, Grounded
<1>f. CASE CheckReports
  BY <1>1, <1>2, <1>f DEF CheckReports, TypeOK, StagesHeld, WrittenPairIsAccepted,
                          PassedPairIsProved, Truthful, Grounded, Closed
<1>g. CASE WritePair
  <2>1. pc' = "gate" /\ outcome' = "none" /\ before' = before /\ after' = after /\ pc = "pair"
    BY <1>1, <1>g DEF WritePair, TypeOK
  <2>2. Acceptable' /\ PairHeld'
    BY <1>g, WritePairAccepted
  <2> QED BY <1>2, <2>1, <2>2 DEF StagesHeld, WrittenPairIsAccepted, PassedPairIsProved,
                                  Truthful, Grounded, Closed
<1>h. CASE FinalGate
  <2>1. /\ pc' = "idle" /\ before' = before /\ after' = after /\ pair' = pair
        /\ attempts' = attempts /\ pc = "gate"
    BY <1>h DEF FinalGate
  <2>2. PassedPairIsProved'
    BY <1>1, <1>2, <2>1 DEF TypeOK, StagesHeld, PassedPairIsProved, PairHeld, Truthful, Grounded, Closed
  <2> QED BY <2>1, <2>2 DEF StagesHeld, WrittenPairIsAccepted
<1>i. CASE Stop
  BY <1>i DEF Stop, FailedStage, StagesHeld, WrittenPairIsAccepted, PassedPairIsProved
<1>j. CASE Edit \/ UNCHANGED vars
  <2>1. /\ before' = before /\ after' = after /\ pair' = pair /\ pc' = pc /\ outcome' = outcome
        /\ attempts' = attempts
    BY <1>j DEF Edit, vars
  <2> QED BY <1>2, <2>1 DEF StagesHeld, WrittenPairIsAccepted, PassedPairIsProved, Truthful,
                            Grounded, Closed, PairHeld, Acceptable
<1> QED BY <1>a, <1>b, <1>c, <1>d, <1>e, <1>f, <1>g, <1>h, <1>i, <1>j DEF Next

\* The jq programs that write and that accept a pair agree on the policy,
\* whatever was measured and edited.
THEOREM WrittenPairsAreAccepted == Spec => []WrittenPairIsAccepted
<1>1. IInv => WrittenPairIsAccepted
  BY DEF IInv
<1> QED BY <1>1, InitInv, StepInv, PTL DEF Spec

\* A pair that passed rests on an exact PASS receipt, on an output that the shell takes
\* for the greeting, and on reports of the very attempt that wrote it.
THEOREM PassedPairsAreProved == Spec => []PassedPairIsProved
<1>1. IInv => PassedPairIsProved
  BY DEF IInv
<1> QED BY <1>1, InitInv, StepInv, PTL DEF Spec

-----------------------------------------------------------------------------
(* Pairs of two runs between which nobody edits. *)

OfNow(report) == report.plan.key = Key /\ report.output = Program.output

QuietInv ==
  /\ pc \in {"test_before", "plan_after"} /\ quiet => OfNow(before)
  /\ (pc \in {"test_after", "check", "pair", "gate"} \/ outcome = "passed") /\ quiet =>
       before.plan.key = after.plan.key /\ before.output = after.output

\* A report is of the inputs it was made from.
LEMMA ReportIsOfNow == ASSUME NEW mode PROVE OfNow(Report(mode))
BY DEF Report, PlanFor, OfNow

\* No step but an edit between the runs parts the first report from the inputs.
LEMMA QuietStep == TypeOK /\ QuietInv /\ [Next]_vars => QuietInv'
<1> SUFFICES ASSUME TypeOK, QuietInv, [Next]_vars PROVE QuietInv'
  OBVIOUS
<1>1. pc # "idle" => outcome = "none"
  BY DEF TypeOK
<1>a. CASE Start
  BY <1>1, <1>a DEF Start, QuietInv
<1>b. CASE PlanBefore
  <2>1. PICK k, d : k = Key /\ d = Program.output
    OBVIOUS
  <2>2. Key' = k /\ Program'.output = d
    BY <1>b, <2>1 DEF PlanBefore, inputs, Key, Program, Digest
  <2>3. before'.plan.key = k /\ before'.output = d
    BY <1>b, <2>1, ReportIsOfNow DEF PlanBefore, OfNow
  <2> QED BY <1>1, <1>b, <2>2, <2>3 DEF PlanBefore, QuietInv, OfNow
<1>c. CASE TestBefore
  BY <1>1, <1>c DEF TestBefore, QuietInv, OfNow, inputs, Key, Program, Digest
<1>d. CASE PlanAfter
  <2>1. OfNow(Report("incremental"))
    BY ReportIsOfNow
  <2> QED BY <1>1, <1>d, <2>1 DEF PlanAfter, QuietInv, OfNow
<1>e. CASE TestAfter \/ CheckReports \/ WritePair \/ FinalGate
  BY <1>1, <1>e DEF TestAfter, CheckReports, WritePair, FinalGate, QuietInv
<1>f. CASE Stop
  BY <1>f DEF Stop, FailedStage, QuietInv
<1>g. CASE Edit
  BY <1>1, <1>g DEF Edit, QuietInv
<1>h. CASE UNCHANGED vars
  BY <1>h DEF vars, inputs, QuietInv, OfNow, Key, Program, Digest
<1> QED BY <1>a, <1>b, <1>c, <1>d, <1>e, <1>f, <1>g, <1>h DEF Next

\* Without an edit between them both runs have one key and one declared output.
THEOREM QuietPairsAreMatched == Spec => []QuietPairIsMatched
<1>1. Init => QuietInv
  BY DEF Init, QuietInv
<1>2. QuietInv => QuietPairIsMatched
  BY DEF QuietInv, QuietPairIsMatched
<1> QED BY <1>1, <1>2, QuietStep, TypeCorrect, PTL DEF Spec
=============================================================================
