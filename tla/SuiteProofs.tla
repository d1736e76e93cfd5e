----------------------------- MODULE SuiteProofs -----------------------------
(* Theorems about Suite, for any contracts, any size of the denominator and    *)
(* any number of suites and edits.                                             *)
EXTENDS Suite, FiniteSetTheorems, TLAPS

\* A contract that passed its validation has usable cases.
LEMMA ValidCases ==
  ASSUME NEW c \in Contracts, Valid(c)
  PROVE  /\ CasesOf[c] \in Seq(Case) /\ Len(CasesOf[c]) = Denominator
         /\ \A i \in 1 .. Denominator : CasesOf[c][i].id \in Id /\ CasesOf[c][i].expected \in State
         /\ \A i, k \in 1 .. Denominator : CasesOf[c][i].id = CasesOf[c][k].id => i = k
         /\ \A s \in State : Expecting(CasesOf[c], s) = PerState
<1> DEFINE cases == CasesOf[c]
<1>1. cases \in Seq(Case)
  BY SuiteAssumption
<1>2. Len(cases) = Denominator /\ DOMAIN cases = 1 .. Denominator
  BY <1>1 DEF Valid
<1>3. \A i \in 1 .. Denominator : cases[i].id \in Id
  <2>1. \A i \in 1 .. Len(cases) : cases[i] \in Case
    BY <1>1
  <2> QED
    BY <1>2, <2>1 DEF Case
<1> QED
  BY <1>1, <1>2, <1>3 DEF Valid

\* What the next case is.
LEMMA NextCaseType ==
  ASSUME TypeOK, pc = "cases", MoreCases
  PROVE  NextCase.id \in Id /\ NextCase.expected \in State
         /\ Len(suite.cases) + 1 \in 1 .. Denominator
<1>1. suite \in Memory /\ suite.contract \in Contracts /\ Valid(suite.contract)
  BY DEF TypeOK
<1>2. Len(suite.cases) \in Nat /\ Denominator \in Nat /\ Len(Cases) = Denominator
  BY <1>1, ValidCases, SuiteAssumption DEF Memory, Denominator, Cases
<1>3. Len(suite.cases) + 1 \in 1 .. Denominator
  BY <1>2 DEF MoreCases
<1> QED
  BY <1>1, <1>3, ValidCases DEF NextCase, Cases

\* The result that a case adds to the list.
NewResult(decision, action) ==
  [id |-> NextCase.id, expected |-> NextCase.expected,
   decision |-> decision, action |-> action, contract |-> contract]

\* What one case adds to the memory.
LEMMA ListedFields ==
  ASSUME TypeOK, pc = "cases", MoreCases, contract \in Contracts,
         NEW decision \in State, NEW action \in Action,
         NEW after, after = Listed(decision, action)
  PROVE  /\ after \in Memory
         /\ after.mode = suite.mode /\ after.digest = suite.digest
         /\ after.contract = suite.contract
         /\ after.cases = Append(suite.cases, NewResult(decision, action))
         /\ NewResult(decision, action) \in Result
         /\ after.actual = Tallied(action)
         /\ after.expectedStates = [suite.expectedStates EXCEPT ![NextCase.expected] = @ + 1]
         /\ after.actualStates = [suite.actualStates EXCEPT ![decision] = @ + 1]
<1>1. suite \in Memory /\ NextCase.id \in Id /\ NextCase.expected \in State
  BY NextCaseType DEF TypeOK
<1>2. /\ suite.cases \in Seq(Result) /\ suite.actual \in Tally
      /\ suite.expectedStates \in Counts /\ suite.actualStates \in Counts
  BY <1>1 DEF Memory
<1>3. NewResult(decision, action) \in Result
  BY <1>1 DEF NewResult, Result
<1>4. Append(suite.cases, NewResult(decision, action)) \in Seq(Result)
  BY <1>2, <1>3
<1>5. Tallied(action) \in Tally
  <2>1. suite.actual \in [total : Nat, selected : Nat, executed : Nat, reused : Nat,
                          unknown : Nat, failed : Nat]
    BY <1>2 DEF Tally
  <2>2. \A n \in Nat : \A a : (IF action = a THEN n + 1 ELSE n) \in Nat
    OBVIOUS
  <2> QED
    BY <2>1, <2>2 DEF Tallied, Tally
<1>6. /\ [suite.expectedStates EXCEPT ![NextCase.expected] = @ + 1] \in Counts
      /\ [suite.actualStates EXCEPT ![decision] = @ + 1] \in Counts
  <2>1. suite.expectedStates[NextCase.expected] + 1 \in Nat /\ suite.actualStates[decision] + 1 \in Nat
    BY <1>1, <1>2 DEF Counts
  <2> QED
    BY <1>1, <1>2, <2>1 DEF Counts
<1>7. /\ after.mode = suite.mode /\ after.digest = suite.digest
      /\ after.contract = suite.contract
      /\ after.cases = Append(suite.cases, NewResult(decision, action))
      /\ after.actual = Tallied(action)
      /\ after.expectedStates = [suite.expectedStates EXCEPT ![NextCase.expected] = @ + 1]
      /\ after.actualStates = [suite.actualStates EXCEPT ![decision] = @ + 1]
  BY <1>1 DEF Listed, Memory, NewResult
<1>8. after = [mode |-> after.mode, digest |-> after.digest, contract |-> after.contract,
               cases |-> after.cases, actual |-> after.actual,
               expectedStates |-> after.expectedStates, actualStates |-> after.actualStates]
  BY <1>1 DEF Listed, Memory
<1>9. after.mode \in Mode /\ after.digest \in Contracts \union {Missing}
      /\ after.contract \in Contracts \union {Missing}
  BY <1>1, <1>7 DEF Memory
<1>10. after \in Memory
  BY <1>4, <1>5, <1>6, <1>7, <1>8, <1>9 DEF Memory
<1> QED
  BY <1>3, <1>7, <1>10

\* RunCase lists one result of the next case.
LEMMA CaseStep ==
  ASSUME TypeOK, RunCase
  PROVE  \E decision \in State, action \in Action :
           action \in ActionsOf(decision) /\ suite' = Listed(decision, action)
<1>1. PICK decision \in State : \E action \in ActionsOf(decision) : suite' = Listed(decision, action)
  BY DEF RunCase
<1>2. PICK action \in ActionsOf(decision) : suite' = Listed(decision, action)
  BY <1>1
<1>3. action \in Action
  BY DEF ActionsOf, State, Action
<1> QED
  BY <1>2, <1>3

\* Every step keeps every variable in its type.
THEOREM TypeCorrect == Spec => []TypeOK
<1> USE SuiteAssumption, SuiteMarksAssumption
<1>1. Init => TypeOK
  BY DEF Init, TypeOK
<1>2. TypeOK /\ [Next]_vars => TypeOK'
  <2> SUFFICES ASSUME TypeOK, [Next]_vars PROVE TypeOK'
    OBVIOUS
  <2>1. CASE \E mode \in {"", "full", "incremental"} : Start(mode)
    <3>1. PICK mode \in Mode : suite' =
            [mode |-> mode, digest |-> Missing, contract |-> Missing, cases |-> <<>>,
             actual |-> NoTally, expectedStates |-> NoCounts, actualStates |-> NoCounts]
      BY <2>1 DEF Start, Mode
    <3>2. NoTally \in Tally /\ NoCounts \in Counts
      BY DEF NoTally, Tally, NoCounts, Counts
    <3>3. suite' \in Memory
      BY <3>1, <3>2 DEF Memory
    <3>4. suites' \in 1 .. MaxSuites
      <4>1. suites' = suites + 1 /\ suites < MaxSuites
        BY <2>1 DEF Start
      <4>2. suites \in 0 .. MaxSuites
        BY DEF TypeOK
      <4> QED
        BY <4>1, <4>2
    <3>5. pc' = "digest" /\ gate' = "open" /\ quiet' = TRUE /\ UNCHANGED <<contract, dirs, report, edits>>
      BY <2>1 DEF Start
    <3> QED
      BY <3>3, <3>4, <3>5 DEF TypeOK
  <2>2. CASE DigestContract
    <3>1. suite' \in Memory /\ suite'.digest \in Contracts
      BY <2>2 DEF DigestContract, TypeOK, Memory
    <3> QED
      BY <2>2, <3>1 DEF DigestContract, TypeOK
  <2>3. CASE ParseContract
    <3>1. suite' \in Memory /\ suite'.contract \in Contracts /\ Valid(suite'.contract)
          /\ suite'.digest \in Contracts
      BY <2>3 DEF ParseContract, TypeOK, Memory
    <3> QED
      BY <2>3, <3>1 DEF ParseContract, TypeOK
  <2>4. CASE RunCase
    <3>1. PICK after : suite' = after /\ \E decision \in State, action \in Action : after = Listed(decision, action)
      BY <2>4, CaseStep
    <3>2. pc = "cases" /\ MoreCases /\ contract \in Contracts
      BY <2>4 DEF RunCase, TypeOK
    <3>3. NextCase.id \in Id
      BY <3>2, NextCaseType
    <3>4. PICK decision \in State, action \in Action : after = Listed(decision, action)
      BY <3>1
    <3>5. after \in Memory /\ after.digest = suite.digest /\ after.contract = suite.contract
      <4>1. TypeOK /\ pc = "cases" /\ MoreCases /\ contract \in Contracts /\ decision \in State /\ action \in Action
        BY <3>2
      <4>2. after = Listed(decision, action)
        BY <3>4
      <4>3. after \in Memory
        BY <4>1, <4>2, ListedFields
      <4>4. after.digest = suite.digest /\ after.contract = suite.contract
        BY <4>2 DEF Listed, Memory, TypeOK
      <4> QED
        BY <4>3, <4>4
    <3>7. suite' \in Memory /\ suite'.digest = suite.digest /\ suite'.contract = suite.contract
      BY <3>1, <3>5
    <3>8. Artifacts \in CaseDir
      BY <2>4, <3>2, <3>3 DEF RunCase, TypeOK, CaseDir, Artifacts
    <3>9. dirs' \in [Dir -> CaseDir \union {Absent, Torn}]
      BY <2>4, <3>3, <3>8 DEF RunCase, TypeOK
    <3> QED
      BY <2>4, <3>7, <3>9 DEF RunCase, TypeOK
  <2>5. CASE CasesDone
    BY <2>5 DEF CasesDone, TypeOK
  <2>6. CASE OpenReport
    BY <2>6 DEF OpenReport, TypeOK
  <2>7. CASE FillReport
    <3>1. report' \in Report
      BY <2>7 DEF FillReport, TypeOK, Memory, Report, SuiteDecision
    <3> QED
      BY <2>7, <3>1 DEF FillReport, TypeOK
  <2>8. CASE WriteHuman
    BY <2>8 DEF WriteHuman, TypeOK
  <2>9. CASE Gate
    BY <2>9 DEF Gate, TypeOK
  <2>10. CASE Stop
    <3>1. dirs' \in [Dir -> CaseDir \union {Absent, Torn}]
      BY <2>10 DEF Stop, TypeOK
    <3> QED
      BY <2>10, <3>1 DEF Stop, FailedSuite, TypeOK
  <2>11. CASE EditContract
    <3>1. edits' \in 0 .. MaxEdits
      BY <2>11 DEF EditContract, TypeOK
    <3> QED
      BY <2>11, <3>1 DEF EditContract, TypeOK
  <2>12. CASE UNCHANGED vars
    BY <2>12 DEF vars, TypeOK
  <2> QED
    BY <2>1, <2>2, <2>3, <2>4, <2>5, <2>6, <2>7, <2>8, <2>9, <2>10, <2>11, <2>12
    DEF Next, SuiteStep
<1> QED
  BY <1>1, <1>2, PTL DEF Spec

-----------------------------------------------------------------------------
(* The counters *)

\* What RunCase does to the memory.
LEMMA CaseEffects ==
  ASSUME TypeOK, RunCase
  PROVE  \E decision \in State : \E action \in ActionsOf(decision) :
           /\ action \in Action
           /\ suite'.mode = suite.mode /\ suite'.digest = suite.digest
           /\ suite'.contract = suite.contract
           /\ suite'.cases = Append(suite.cases, NewResult(decision, action))
           /\ suite'.actual = Tallied(action)
           /\ suite'.expectedStates = [suite.expectedStates EXCEPT ![NextCase.expected] = @ + 1]
           /\ suite'.actualStates = [suite.actualStates EXCEPT ![decision] = @ + 1]
<1>1. PICK decision \in State, action \in Action :
        action \in ActionsOf(decision) /\ suite' = Listed(decision, action)
  BY CaseStep
<1>2. suite \in Memory
  BY DEF TypeOK, RunCase
<1>3. /\ suite'.mode = suite.mode /\ suite'.digest = suite.digest
      /\ suite'.contract = suite.contract
      /\ suite'.cases = Append(suite.cases, NewResult(decision, action))
      /\ suite'.actual = Tallied(action)
      /\ suite'.expectedStates = [suite.expectedStates EXCEPT ![NextCase.expected] = @ + 1]
      /\ suite'.actualStates = [suite.actualStates EXCEPT ![decision] = @ + 1]
  BY <1>1, <1>2 DEF Listed, Memory, NewResult
<1> QED
  BY <1>1, <1>3

\* A result of the next case, from where RunCase runs it.
LEMMA NewResultType ==
  ASSUME TypeOK, RunCase, NEW decision \in State, NEW action \in Action
  PROVE  NewResult(decision, action) \in Result
<1>1. NextCase.id \in Id /\ NextCase.expected \in State
  BY NextCaseType DEF RunCase
<1>2. contract \in Contracts
  BY DEF RunCase, TypeOK
<1> QED
  BY <1>1, <1>2 DEF NewResult, Result

\* One more result counts where its decision says.
LEMMA DecidingAppend ==
  ASSUME NEW cases \in Seq(Result), NEW r \in Result, NEW s
  PROVE  /\ Deciding(cases, s) \in Nat
         /\ Deciding(Append(cases, r), s) = Deciding(cases, s) + (IF r.decision = s THEN 1 ELSE 0)
<1> DEFINE n == Len(cases)
           before == {i \in DOMAIN cases : cases[i].decision = s}
           after == {i \in DOMAIN Append(cases, r) : Append(cases, r)[i].decision = s}
<1>1. n \in Nat /\ DOMAIN cases = 1 .. n /\ DOMAIN Append(cases, r) = 1 .. n + 1
      /\ (\A i \in 1 .. n : Append(cases, r)[i] = cases[i]) /\ Append(cases, r)[n + 1] = r
  OBVIOUS
<1>2. IsFiniteSet(before) /\ Cardinality(before) \in Nat
  <2>1. before \subseteq 1 .. n
    BY <1>1
  <2>2. IsFiniteSet(1 .. n)
    BY <1>1, FS_Interval
  <2> QED
    BY <2>1, <2>2, FS_Subset, FS_CardinalityType
<1>3. n + 1 \notin before /\ 1 .. n + 1 = (1 .. n) \union {n + 1}
  BY <1>1
<1>4. CASE r.decision = s
  <2>1. after = before \union {n + 1}
    BY <1>1, <1>3, <1>4
  <2> QED
    BY <1>2, <1>3, <1>4, <2>1, FS_AddElement DEF Deciding
<1>5. CASE r.decision # s
  <2>1. after = before
    BY <1>1, <1>3, <1>5
  <2>2. Deciding(Append(cases, r), s) = Deciding(cases, s) /\ Deciding(cases, s) \in Nat
    BY <1>2, <2>1 DEF Deciding
  <2> QED
    BY <1>5, <2>2
<1> QED
  BY <1>4, <1>5, <1>2 DEF Deciding

\* One more result counts where its expectation says.
LEMMA ExpectingAppend ==
  ASSUME NEW cases \in Seq(Result), NEW r \in Result, NEW s
  PROVE  /\ Expecting(cases, s) \in Nat
         /\ Expecting(Append(cases, r), s) = Expecting(cases, s) + (IF r.expected = s THEN 1 ELSE 0)
<1> DEFINE n == Len(cases)
           before == {i \in DOMAIN cases : cases[i].expected = s}
           after == {i \in DOMAIN Append(cases, r) : Append(cases, r)[i].expected = s}
<1>1. n \in Nat /\ DOMAIN cases = 1 .. n /\ DOMAIN Append(cases, r) = 1 .. n + 1
      /\ (\A i \in 1 .. n : Append(cases, r)[i] = cases[i]) /\ Append(cases, r)[n + 1] = r
  OBVIOUS
<1>2. IsFiniteSet(before) /\ Cardinality(before) \in Nat
  <2>1. before \subseteq 1 .. n
    BY <1>1
  <2>2. IsFiniteSet(1 .. n)
    BY <1>1, FS_Interval
  <2> QED
    BY <2>1, <2>2, FS_Subset, FS_CardinalityType
<1>3. n + 1 \notin before /\ 1 .. n + 1 = (1 .. n) \union {n + 1}
  BY <1>1
<1>4. CASE r.expected = s
  <2>1. after = before \union {n + 1}
    BY <1>1, <1>3, <1>4
  <2> QED
    BY <1>2, <1>3, <1>4, <2>1, FS_AddElement DEF Expecting
<1>5. CASE r.expected # s
  <2>1. after = before
    BY <1>1, <1>3, <1>5
  <2>2. Expecting(Append(cases, r), s) = Expecting(cases, s) /\ Expecting(cases, s) \in Nat
    BY <1>2, <2>1 DEF Expecting
  <2> QED
    BY <1>5, <2>2
<1> QED
  BY <1>4, <1>5, <1>2 DEF Expecting

\* The counters agree with the list.
TallyOf(memory) ==
  LET a == memory.actual
  IN  /\ a.total = Len(memory.cases) /\ a.executed = a.selected
      /\ a.selected + a.reused = memory.actualStates["CLOSED"]
      /\ a.unknown = memory.actualStates["UNKNOWN"] /\ a.failed = memory.actualStates["REFUTED"]

CountsOf(memory) ==
  \A s \in State :
    /\ memory.actualStates[s] = Deciding(memory.cases, s)
    /\ memory.expectedStates[s] = Expecting(memory.cases, s)

\* The total is the sum because the states partition the list.
Summed(memory) ==
  LET a == memory.actual IN a.total = a.selected + a.reused + a.unknown + a.failed

\* A case keeps the counters of actions with the counters of decisions.
LEMMA CaseTally ==
  ASSUME TypeOK, RunCase, TallyOf(suite), Summed(suite)
  PROVE  TallyOf(suite)' /\ Summed(suite)'
<1>1. PICK decision \in State : \E action \in ActionsOf(decision) :
           /\ action \in Action
           /\ suite'.mode = suite.mode /\ suite'.digest = suite.digest
           /\ suite'.contract = suite.contract
           /\ suite'.cases = Append(suite.cases, NewResult(decision, action))
           /\ suite'.actual = Tallied(action)
           /\ suite'.expectedStates = [suite.expectedStates EXCEPT ![NextCase.expected] = @ + 1]
           /\ suite'.actualStates = [suite.actualStates EXCEPT ![decision] = @ + 1]
  BY CaseEffects
<1>2. PICK action \in ActionsOf(decision) :
           /\ action \in Action
           /\ suite'.cases = Append(suite.cases, NewResult(decision, action))
           /\ suite'.actual = Tallied(action)
           /\ suite'.actualStates = [suite.actualStates EXCEPT ![decision] = @ + 1]
  BY <1>1
<1>3. /\ suite.cases \in Seq(Result) /\ suite.actual \in Tally /\ suite.actualStates \in Counts
  BY DEF TypeOK, RunCase, Memory
<1>4. Len(suite'.cases) = Len(suite.cases) + 1 /\ Len(suite.cases) \in Nat
  BY <1>2, <1>3, NewResultType
<1>5. /\ suite.actual.total \in Nat /\ suite.actual.selected \in Nat /\ suite.actual.executed \in Nat
      /\ suite.actual.reused \in Nat /\ suite.actual.unknown \in Nat /\ suite.actual.failed \in Nat
  BY <1>3 DEF Tally
<1>6. /\ suite'.actual.total = suite.actual.total + 1
      /\ suite'.actual.selected = IF action = "SELECTED" THEN suite.actual.selected + 1 ELSE suite.actual.selected
      /\ suite'.actual.executed = IF action = "SELECTED" THEN suite.actual.executed + 1 ELSE suite.actual.executed
      /\ suite'.actual.reused = IF action = "REUSED" THEN suite.actual.reused + 1 ELSE suite.actual.reused
      /\ suite'.actual.unknown = IF action = "UNKNOWN" THEN suite.actual.unknown + 1 ELSE suite.actual.unknown
      /\ suite'.actual.failed = IF action = "REFUTED" THEN suite.actual.failed + 1 ELSE suite.actual.failed
  BY <1>2, <1>3 DEF Tallied, Tally
<1>7. \A s \in State : suite.actualStates[s] \in Nat /\
        suite'.actualStates[s] = IF s = decision THEN suite.actualStates[s] + 1 ELSE suite.actualStates[s]
  BY <1>2, <1>3 DEF Counts
<1>8. \/ decision = "CLOSED" /\ action = "SELECTED"
      \/ decision = "CLOSED" /\ action = "REUSED"
      \/ decision = "UNKNOWN" /\ action = "UNKNOWN"
      \/ decision = "REFUTED" /\ action = "REFUTED"
  BY DEF ActionsOf, State
<1>9. TallyOf(suite)'
  <2>1. /\ suite.actualStates["CLOSED"] \in Nat
        /\ suite'.actualStates["CLOSED"] =
             IF decision = "CLOSED" THEN suite.actualStates["CLOSED"] + 1 ELSE suite.actualStates["CLOSED"]
        /\ suite'.actualStates["UNKNOWN"] =
             IF decision = "UNKNOWN" THEN suite.actualStates["UNKNOWN"] + 1 ELSE suite.actualStates["UNKNOWN"]
        /\ suite'.actualStates["REFUTED"] =
             IF decision = "REFUTED" THEN suite.actualStates["REFUTED"] + 1 ELSE suite.actualStates["REFUTED"]
    BY <1>7 DEF State
  <2>2. /\ suite.actual.total = Len(suite.cases) /\ suite.actual.executed = suite.actual.selected
        /\ suite.actual.selected + suite.actual.reused = suite.actualStates["CLOSED"]
        /\ suite.actual.unknown = suite.actualStates["UNKNOWN"]
        /\ suite.actual.failed = suite.actualStates["REFUTED"]
    BY DEF TallyOf
  <2>3. suite'.actual.total = Len(suite'.cases) /\ suite'.actual.executed = suite'.actual.selected
    BY <1>4, <1>6, <2>2
  <2>4. suite'.actual.selected + suite'.actual.reused = suite'.actualStates["CLOSED"]
    <3>1. CASE action = "SELECTED"
      <4>1. /\ suite'.actual.selected = suite.actual.selected + 1
            /\ suite'.actual.reused = suite.actual.reused
            /\ suite'.actualStates["CLOSED"] = suite.actualStates["CLOSED"] + 1
        BY <1>6, <1>8, <2>1, <3>1
      <4> QED
        BY <1>5, <2>2, <4>1
    <3>2. CASE action = "REUSED"
      <4>1. /\ suite'.actual.selected = suite.actual.selected
            /\ suite'.actual.reused = suite.actual.reused + 1
            /\ suite'.actualStates["CLOSED"] = suite.actualStates["CLOSED"] + 1
        BY <1>6, <1>8, <2>1, <3>2
      <4> QED
        BY <1>5, <2>2, <4>1
    <3>3. CASE decision # "CLOSED"
      BY <1>6, <1>8, <2>1, <2>2, <3>3
    <3> QED
      BY <1>8, <3>1, <3>2, <3>3
  <2>5. /\ suite'.actual.unknown = suite'.actualStates["UNKNOWN"]
        /\ suite'.actual.failed = suite'.actualStates["REFUTED"]
    BY <1>6, <1>8, <2>1, <2>2
  <2> QED
    BY <2>3, <2>4, <2>5 DEF TallyOf
<1>10. Summed(suite)'
  BY <1>5, <1>6, <1>8 DEF Summed
<1> QED
  BY <1>9, <1>10

\* A case keeps the counters of states with the list.
LEMMA CaseCounts ==
  ASSUME TypeOK, RunCase, CountsOf(suite)
  PROVE  CountsOf(suite)'
<1>1. PICK decision \in State : \E action \in ActionsOf(decision) :
           /\ action \in Action
           /\ suite'.mode = suite.mode /\ suite'.digest = suite.digest
           /\ suite'.contract = suite.contract
           /\ suite'.cases = Append(suite.cases, NewResult(decision, action))
           /\ suite'.actual = Tallied(action)
           /\ suite'.expectedStates = [suite.expectedStates EXCEPT ![NextCase.expected] = @ + 1]
           /\ suite'.actualStates = [suite.actualStates EXCEPT ![decision] = @ + 1]
  BY CaseEffects
<1>2. PICK action \in Action :
           /\ suite'.cases = Append(suite.cases, NewResult(decision, action))
           /\ suite'.expectedStates = [suite.expectedStates EXCEPT ![NextCase.expected] = @ + 1]
           /\ suite'.actualStates = [suite.actualStates EXCEPT ![decision] = @ + 1]
  BY <1>1
<1>3. /\ suite.cases \in Seq(Result)
      /\ suite.expectedStates \in Counts /\ suite.actualStates \in Counts
  BY DEF TypeOK, RunCase, Memory
<1>4. PICK r \in Result : r = NewResult(decision, action)
  BY NewResultType
<1>5. r.decision = decision /\ r.expected = NextCase.expected
  BY <1>4 DEF NewResult
<1>6. ASSUME NEW s \in State
      PROVE  /\ suite'.actualStates[s] = Deciding(suite'.cases, s)
             /\ suite'.expectedStates[s] = Expecting(suite'.cases, s)
  <2>1. /\ suite'.actualStates[s] = suite.actualStates[s] + (IF s = decision THEN 1 ELSE 0)
        /\ suite'.expectedStates[s] = suite.expectedStates[s] + (IF s = NextCase.expected THEN 1 ELSE 0)
    BY <1>2, <1>3 DEF Counts
  <2>2. suite.actualStates[s] = Deciding(suite.cases, s) /\ suite.expectedStates[s] = Expecting(suite.cases, s)
    BY DEF CountsOf
  <2>3. /\ Deciding(suite'.cases, s) = Deciding(suite.cases, s) + (IF r.decision = s THEN 1 ELSE 0)
        /\ Expecting(suite'.cases, s) = Expecting(suite.cases, s) + (IF r.expected = s THEN 1 ELSE 0)
    BY <1>2, <1>3, <1>4, DecidingAppend, ExpectingAppend
  <2> QED
    BY <1>5, <2>1, <2>2, <2>3
<1> QED
  BY <1>6 DEF CountsOf

\* A step that changes nothing of the list and its counters keeps them in order.
LEMMA SameTally ==
  ASSUME TallyOf(suite), Summed(suite), CountsOf(suite),
         suite'.cases = suite.cases, suite'.actual = suite.actual,
         suite'.expectedStates = suite.expectedStates, suite'.actualStates = suite.actualStates
  PROVE  TallyOf(suite)' /\ Summed(suite)' /\ CountsOf(suite)'
BY DEF TallyOf, Summed, CountsOf

\* A suite starts with empty counters and an empty list.
LEMMA EmptyTally ==
  ASSUME NEW mode, Start(mode)
  PROVE  TallyOf(suite)' /\ Summed(suite)' /\ CountsOf(suite)'
<1>1. /\ suite'.cases = <<>> /\ suite'.actual = NoTally
      /\ suite'.expectedStates = NoCounts /\ suite'.actualStates = NoCounts
  BY DEF Start
<1>2. \A s \in State : Deciding(<<>>, s) = 0 /\ Expecting(<<>>, s) = 0
  BY FS_EmptySet DEF Deciding, Expecting
<1>3. Len(<<>>) = 0
  OBVIOUS
<1> QED
  BY <1>1, <1>2, <1>3 DEF TallyOf, Summed, CountsOf, NoTally, NoCounts, State

\* The counters of a running suite always add up to its list (TalliesAddUp).
THEOREM TalliesAreRight == Spec => []TalliesAddUp
<1> DEFINE Tallying == suite # NoSuite => TallyOf(suite) /\ Summed(suite) /\ CountsOf(suite)
<1>1. Init => Tallying
  BY DEF Init
<1>2. TypeOK /\ Tallying /\ [Next]_vars => Tallying'
  <2> SUFFICES ASSUME TypeOK, Tallying, [Next]_vars, suite' # NoSuite
               PROVE  TallyOf(suite)' /\ Summed(suite)' /\ CountsOf(suite)'
    OBVIOUS
  <2>1. CASE \E mode \in {"", "full", "incremental"} : Start(mode)
    BY <2>1, EmptyTally
  <2>2. CASE DigestContract \/ ParseContract
    <3>1. suite \in Memory /\ suite # NoSuite
      BY <2>2, SuiteMarksAssumption DEF DigestContract, ParseContract, TypeOK
    <3>2. /\ suite'.cases = suite.cases /\ suite'.actual = suite.actual
          /\ suite'.expectedStates = suite.expectedStates /\ suite'.actualStates = suite.actualStates
      BY <2>2, <3>1 DEF DigestContract, ParseContract, Memory
    <3> QED
      BY <3>1, <3>2, SameTally
  <2>3. CASE RunCase
    <3>1. suite # NoSuite
      BY <2>3 DEF RunCase, TypeOK
    <3> QED
      BY <2>3, <3>1, CaseTally, CaseCounts
  <2>4. CASE CasesDone \/ OpenReport \/ FillReport \/ Gate \/ EditContract \/ UNCHANGED vars
    <3>1. suite' = suite
      BY <2>4 DEF CasesDone, OpenReport, FillReport, Gate, EditContract, vars
    <3> QED
      BY <3>1, SameTally
  <2>5. CASE WriteHuman \/ Stop
    BY <2>5 DEF WriteHuman, Stop, FailedSuite
  <2> QED
    BY <2>1, <2>2, <2>3, <2>4, <2>5 DEF Next, SuiteStep
<1>3. Tallying => TalliesAddUp
  BY DEF TallyOf, Summed, CountsOf, TalliesAddUp
<1> QED
  BY <1>1, <1>2, <1>3, TypeCorrect, PTL DEF Spec

-----------------------------------------------------------------------------
(* The list *)

\* While it runs, the suite has listed the first cases of the contract it
\* parsed, in order, and all of them once it is past the last.
Listing ==
  /\ pc \in {"digest", "parse"} => suite.cases = <<>>
  /\ pc \in {"cases", "report", "fill", "human"} =>
       /\ Len(suite.cases) <= Denominator
       /\ \A i \in 1 .. Len(suite.cases) :
            suite.cases[i].id = Cases[i].id /\ suite.cases[i].expected = Cases[i].expected
  /\ pc \in {"report", "fill", "human"} => Len(suite.cases) = Denominator

\* RunCase lists the next case of the contract.
LEMMA CaseListing ==
  ASSUME TypeOK, Listing, RunCase
  PROVE  Listing'
<1>1. PICK r \in Result : /\ suite'.cases = Append(suite.cases, r) /\ suite'.contract = suite.contract
                          /\ r.id = NextCase.id /\ r.expected = NextCase.expected
  BY CaseEffects, NewResultType DEF NewResult
<1> DEFINE n == Len(suite.cases)
<1>2. suite.cases \in Seq(Result) /\ n \in Nat
  BY DEF TypeOK, RunCase, Memory
<1>3. Len(suite.cases) + 1 \in 1 .. Denominator /\ Denominator \in Nat
  BY NextCaseType, SuiteAssumption DEF RunCase, Denominator
<1>4. PICK later : later = suite'.cases
  OBVIOUS
<1>5. /\ Len(later) = n + 1 /\ later[n + 1] = r
      /\ \A i \in 1 .. n : later[i] = suite.cases[i]
  BY <1>1, <1>2, <1>4
<1>6. NextCase = Cases[n + 1]
  BY DEF NextCase
<1>7. \A i \in 1 .. n : suite.cases[i].id = Cases[i].id /\ suite.cases[i].expected = Cases[i].expected
  BY DEF Listing, RunCase
<1>8. \A i \in 1 .. n + 1 : later[i].id = Cases[i].id /\ later[i].expected = Cases[i].expected
  <2> TAKE i \in 1 .. n + 1
  <2>1. CASE i = n + 1
    BY <1>1, <1>5, <1>6, <2>1
  <2>2. CASE i # n + 1
    <3>1. i \in 1 .. n
      BY <1>2, <2>2
    <3> QED
      BY <1>5, <1>7, <3>1
  <2> QED
    BY <2>1, <2>2
<1>9. Cases' = Cases
  BY <1>1 DEF Cases
<1>10. pc' = "cases"
  BY DEF RunCase
<1> QED
  BY <1>3, <1>4, <1>5, <1>8, <1>9, <1>10 DEF Listing

\* Listing holds at every point of a suite.
LEMMA ListingHolds == Spec => []Listing
<1>1. Init => Listing
  BY DEF Init, Listing
<1>2. TypeOK /\ Listing /\ [Next]_vars => Listing'
  <2> SUFFICES ASSUME TypeOK, Listing, [Next]_vars PROVE Listing'
    OBVIOUS
  <2>1. CASE \E mode \in {"", "full", "incremental"} : Start(mode)
    <3>1. PICK mode : Start(mode)
      BY <2>1
    <3>2. suite'.cases = <<>> /\ pc' = "digest"
      BY <3>1 DEF Start
    <3> QED
      BY <3>2 DEF Listing
  <2>2. CASE DigestContract
    <3>1. suite'.cases = <<>>
      BY <2>2 DEF DigestContract, Listing, TypeOK, Memory
    <3> QED
      BY <2>2, <3>1 DEF DigestContract, Listing
  <2>3. CASE ParseContract
    <3>1. suite'.cases = <<>> /\ pc' = "cases"
      BY <2>3 DEF ParseContract, Listing, TypeOK, Memory
    <3>2. Len(<<>>) = 0 /\ 0 <= Denominator
      BY SuiteAssumption DEF Denominator
    <3> QED
      BY <3>1, <3>2 DEF Listing
  <2>4. CASE RunCase
    BY <2>4, CaseListing
  <2>5. CASE CasesDone
    <3>1. suite \in Memory /\ suite.contract \in Contracts /\ Valid(suite.contract)
      BY <2>5 DEF CasesDone, TypeOK
    <3>2. Len(Cases) = Denominator /\ Denominator \in Nat /\ Len(suite.cases) \in Nat
      BY <3>1, ValidCases, SuiteAssumption DEF Cases, Denominator, Memory
    <3>3. Len(suite.cases) = Denominator
      BY <2>5, <3>2 DEF CasesDone, MoreCases, Listing
    <3> QED
      BY <2>5, <3>3 DEF CasesDone, Listing, Cases
  <2>6. CASE OpenReport \/ FillReport \/ EditContract \/ UNCHANGED vars
    BY <2>6 DEF OpenReport, FillReport, EditContract, vars, Listing, Cases
  <2>7. CASE WriteHuman \/ Gate \/ Stop
    BY <2>7 DEF WriteHuman, Gate, Stop, FailedSuite, Listing
  <2> QED
    BY <2>1, <2>2, <2>3, <2>4, <2>5, <2>6, <2>7 DEF Next, SuiteStep
<1> QED
  BY <1>1, <1>2, TypeCorrect, PTL DEF Spec

-----------------------------------------------------------------------------
(* The report *)

\* What a finished suite has counted and listed, as the report will say it.
LEMMA WholeVerdict ==
  ASSUME TypeOK, Listing, TalliesAddUp, pc = "fill"
  PROVE  /\ Len(suite.cases) = Denominator
         /\ \A i, k \in DOMAIN suite.cases : suite.cases[i].id = suite.cases[k].id => i = k
         /\ \A s \in State : suite.expectedStates[s] = PerState
         /\ SuiteDecision = "CLOSED" =>
              /\ \A r \in Range(suite.cases) : r.decision = r.expected
              /\ suite.actualStates = suite.expectedStates
<1>1. /\ suite \in Memory /\ suite # NoSuite
      /\ suite.contract \in Contracts /\ Valid(suite.contract)
  BY DEF TypeOK
<1>2. /\ suite.cases \in Seq(Result) /\ suite.expectedStates \in Counts /\ suite.actualStates \in Counts
  BY <1>1 DEF Memory
<1>3. Len(suite.cases) = Denominator /\ DOMAIN suite.cases = 1 .. Denominator
  BY <1>2 DEF Listing
<1>4. \A i \in 1 .. Denominator :
        suite.cases[i].id = Cases[i].id /\ suite.cases[i].expected = Cases[i].expected
  BY <1>3 DEF Listing
<1>5. /\ DOMAIN Cases = 1 .. Denominator
      /\ \A i, k \in 1 .. Denominator : Cases[i].id = Cases[k].id => i = k
      /\ \A s \in State : Expecting(Cases, s) = PerState
  <2>1. Cases \in Seq(Case) /\ Len(Cases) = Denominator
    BY <1>1, ValidCases DEF Cases
  <2> QED
    BY <1>1, <2>1, ValidCases DEF Cases
<1>6. \A i, k \in DOMAIN suite.cases : suite.cases[i].id = suite.cases[k].id => i = k
  BY <1>3, <1>4, <1>5
<1>7. ASSUME NEW s \in State
      PROVE  suite.expectedStates[s] = PerState
  <2>1. {i \in DOMAIN suite.cases : suite.cases[i].expected = s}
          = {i \in DOMAIN Cases : Cases[i].expected = s}
    BY <1>3, <1>4, <1>5
  <2>2. suite.expectedStates[s] = Expecting(suite.cases, s)
    BY <1>1 DEF TalliesAddUp
  <2> QED
    BY <1>5, <2>1, <2>2 DEF Expecting
<1>8. ASSUME SuiteDecision = "CLOSED"
      PROVE  /\ \A r \in Range(suite.cases) : r.decision = r.expected
             /\ suite.actualStates = suite.expectedStates
  <2>1. \A r \in Range(suite.cases) : r.decision = r.expected
    BY <1>8 DEF SuiteDecision
  <2>2. \A i \in DOMAIN suite.cases : suite.cases[i].decision = suite.cases[i].expected
    BY <2>1 DEF Range
  <2>3. \A s \in State : Deciding(suite.cases, s) = Expecting(suite.cases, s)
    <3> TAKE s \in State
    <3>1. {i \in DOMAIN suite.cases : suite.cases[i].decision = s}
            = {i \in DOMAIN suite.cases : suite.cases[i].expected = s}
      BY <2>2
    <3> QED
      BY <3>1 DEF Deciding, Expecting
  <2>4. \A s \in State : suite.actualStates[s] = suite.expectedStates[s]
    BY <1>1, <2>3 DEF TalliesAddUp
  <2>5. suite.actualStates = suite.expectedStates
    BY <1>2, <2>4 DEF Counts
  <2> QED
    BY <2>1, <2>5
<1> QED
  BY <1>3, <1>6, <1>7, <1>8

\* FillReport writes down what is in the memory.
LEMMA FilledReport ==
  ASSUME FillReport
  PROVE  /\ report'.suite = suites /\ report'.digest = suite.digest
         /\ report'.decision = SuiteDecision /\ report'.cases = suite.cases
         /\ report'.actualStates = suite.actualStates
         /\ report'.expectedStates = suite.expectedStates
BY DEF FillReport

\* Other steps leave the report as it is, or torn.
LEMMA ReportKept ==
  ASSUME [Next]_vars, ~FillReport
  PROVE  report' = report \/ report' = Torn
BY DEF Next, SuiteStep, Start, DigestContract, ParseContract, RunCase, CasesDone, OpenReport, WriteHuman,
       Gate, Stop, EditContract, vars

\* A report that is there is the verdict on a whole denominator (ReportIsWholeVerdict).
THEOREM ReportsAreWhole == Spec => []ReportIsWholeVerdict
<1>1. Init => ReportIsWholeVerdict
  BY SuiteMarksAssumption DEF Init, ReportIsWholeVerdict
<1>2. /\ TypeOK /\ Listing /\ TalliesAddUp /\ ReportIsWholeVerdict /\ [Next]_vars
      => ReportIsWholeVerdict'
  <2> SUFFICES ASSUME TypeOK, Listing, TalliesAddUp, ReportIsWholeVerdict, [Next]_vars
               PROVE  ReportIsWholeVerdict'
    OBVIOUS
  <2>1. CASE FillReport
    <3>1. pc = "fill"
      BY <2>1 DEF FillReport
    <3>2. PICK written : written = report'
      OBVIOUS
    <3>3. /\ written.decision = SuiteDecision /\ written.cases = suite.cases
          /\ written.actualStates = suite.actualStates
          /\ written.expectedStates = suite.expectedStates
      BY <2>1, <3>2, FilledReport
    <3>4. /\ Len(written.cases) = Denominator
          /\ \A i, k \in DOMAIN written.cases : written.cases[i].id = written.cases[k].id => i = k
          /\ \A s \in State : written.expectedStates[s] = PerState
          /\ written.decision = "CLOSED" =>
               /\ \A r \in Range(written.cases) : r.decision = r.expected
               /\ written.actualStates = written.expectedStates
      BY <3>1, <3>3, WholeVerdict
    <3> QED
      BY <3>2, <3>4 DEF ReportIsWholeVerdict
  <2>2. CASE ~FillReport
    <3>1. report' = report \/ report' = Torn
      BY <2>2, ReportKept
    <3> QED
      BY <3>1, SuiteMarksAssumption DEF ReportIsWholeVerdict
  <2> QED
    BY <2>1, <2>2
<1> QED
  BY <1>1, <1>2, TypeCorrect, ListingHolds, TalliesAreRight, PTL DEF Spec

\* A report is of its own suite, never of one that has not reached it.
ReportAge ==
  /\ report \in Report => report.suite <= suites
  /\ pc \in {"digest", "parse", "cases", "report"} /\ report \in Report => report.suite < suites
  /\ pc = "fill" => report = Torn
  /\ pc \in {"human", "gate"} => report \in Report /\ report.suite = suites

\* The report is of no suite later than the last.
LEMMA ReportAgeHolds == Spec => []ReportAge
<1>1. Init => ReportAge
  BY SuiteMarksAssumption DEF Init, ReportAge
<1>2. TypeOK /\ TypeOK' /\ ReportAge /\ [Next]_vars => ReportAge'
  <2> SUFFICES ASSUME TypeOK, TypeOK', ReportAge, [Next]_vars PROVE ReportAge'
    OBVIOUS
  <2>0. suites \in Nat /\ suites' \in Nat
    BY SuiteAssumption DEF TypeOK
  <2>1. CASE \E mode \in {"", "full", "incremental"} : Start(mode)
    <3>1. suites' = suites + 1 /\ pc' = "digest" /\ report' = report
      BY <2>1 DEF Start
    <3>2. report \in Report => report.suite \in Nat /\ report.suite <= suites
      BY SuiteAssumption DEF ReportAge, Report
    <3> QED
      BY <2>0, <3>1, <3>2 DEF ReportAge
  <2>2. CASE DigestContract \/ ParseContract \/ RunCase \/ CasesDone
    <3>1. /\ pc \in {"digest", "parse", "cases"} /\ pc' \in {"parse", "cases", "report"}
          /\ report' = report /\ suites' = suites
      BY <2>2 DEF DigestContract, ParseContract, RunCase, CasesDone
    <3> QED
      BY <3>1 DEF ReportAge
  <2>3. CASE OpenReport
    BY <2>3, SuiteMarksAssumption DEF OpenReport, ReportAge
  <2>4. CASE FillReport
    <3>1. report'.suite = suites /\ suites' = suites /\ pc' = "human"
      BY <2>4 DEF FillReport
    <3>2. report' \in Report
      BY <2>4 DEF FillReport, TypeOK, Memory, Report, SuiteDecision
    <3> QED
      BY <2>0, <3>1, <3>2 DEF ReportAge
  <2>5. CASE WriteHuman \/ Gate \/ EditContract \/ Stop \/ UNCHANGED vars
    <3>1. /\ report' = report /\ suites' = suites
          /\ pc' = "idle" \/ pc' = pc \/ (pc = "human" /\ pc' = "gate")
      BY <2>5 DEF WriteHuman, Gate, EditContract, Stop, FailedSuite, vars
    <3> QED
      BY <3>1 DEF ReportAge
  <2> QED
    BY <2>1, <2>2, <2>3, <2>4, <2>5 DEF Next, SuiteStep
<1> QED
  BY <1>1, <1>2, TypeCorrect, PTL DEF Spec

\* A case that is listed has its directory, or a later case has it.
CaseHeld(cases, i) ==
  LET r   == cases[i]
      dir == dirs[DirOf[r.id]]
  IN  /\ dir \in CaseDir /\ dir.suite = suites
      /\ LastInDirectory(cases, i) => dir.case = r.id /\ dir.contract = r.contract

\* Each case the running suite has listed is in its directory.
DirsHeld ==
  pc \in {"cases", "report", "fill", "human"} =>
    \A i \in 1 .. Len(suite.cases) : CaseHeld(suite.cases, i)

\* A case takes no directory but its own.
LEMMA CaseDirs ==
  ASSUME TypeOK, DirsHeld, RunCase
  PROVE  DirsHeld'
<1>1. PICK r \in Result : /\ suite'.cases = Append(suite.cases, r)
                          /\ r.id = NextCase.id /\ r.contract = contract
  BY CaseEffects, NewResultType DEF NewResult
<1> DEFINE n == Len(suite.cases)
<1>2. suite.cases \in Seq(Result) /\ n \in Nat
  BY DEF TypeOK, RunCase, Memory
<1>3. PICK later : later = suite'.cases
  OBVIOUS
<1>4. /\ Len(later) = n + 1 /\ later[n + 1] = r
      /\ \A i \in 1 .. n : later[i] = suite.cases[i]
  BY <1>1, <1>2, <1>3
<1>5. NextCase.id \in Id /\ CaseOut \in Dir /\ CaseOut = DirOf[r.id] /\ contract \in Contracts
  BY <1>1, NextCaseType, SuiteAssumption DEF RunCase, CaseOut, TypeOK
<1>6. PICK work : work = Artifacts
  OBVIOUS
<1>7. work \in CaseDir /\ work.suite = suites /\ work.case = r.id /\ work.contract = r.contract
  BY <1>1, <1>5, <1>6 DEF Artifacts, CaseDir, RunCase, TypeOK
<1>8. PICK left : left = dirs'
  OBVIOUS
<1>9. /\ dirs \in [Dir -> CaseDir \union {Absent, Torn}]
      /\ left = [dirs EXCEPT ![CaseOut] = work] /\ suites' = suites
  BY <1>6, <1>8 DEF TypeOK, RunCase
<1>10. \A i \in 1 .. n : DirOf[suite.cases[i].id] \in Dir
  <2>1. \A i \in 1 .. n : suite.cases[i] \in Result
    BY <1>2
  <2> QED
    BY <2>1, SuiteAssumption DEF Result
<1>11. ASSUME NEW i \in 1 .. n + 1
       PROVE  LET dir == left[DirOf[later[i].id]]
              IN  /\ dir \in CaseDir /\ dir.suite = suites
                  /\ LastInDirectory(later, i) =>
                       dir.case = later[i].id /\ dir.contract = later[i].contract
  <2>1. CASE i = n + 1
    BY <1>4, <1>5, <1>7, <1>9, <2>1
  <2>2. CASE i # n + 1
    <3>1. i \in 1 .. n /\ later[i] = suite.cases[i]
      BY <1>2, <1>4, <2>2
    <3>2. CASE DirOf[later[i].id] = CaseOut
      <4>1. n + 1 \in i + 1 .. Len(later) /\ DirOf[later[n + 1].id] = DirOf[later[i].id]
        BY <1>2, <1>4, <1>5, <3>1, <3>2
      <4>2. ~LastInDirectory(later, i)
        BY <4>1 DEF LastInDirectory
      <4> QED
        BY <1>5, <1>7, <1>9, <3>2, <4>2
    <3>3. CASE DirOf[later[i].id] # CaseOut
      <4>1. left[DirOf[later[i].id]] = dirs[DirOf[suite.cases[i].id]]
        BY <1>9, <1>10, <3>1, <3>3
      <4>2. CaseHeld(suite.cases, i)
        BY <3>1 DEF DirsHeld, RunCase
      <4>3. \A k \in i + 1 .. n : k \in i + 1 .. n + 1 /\ later[k] = suite.cases[k]
        BY <1>2, <1>4, <3>1
      <4>4. LastInDirectory(later, i) => LastInDirectory(suite.cases, i)
        BY <1>4, <3>1, <4>3 DEF LastInDirectory
      <4> QED
        BY <3>1, <4>1, <4>2, <4>4 DEF CaseHeld
    <3> QED
      BY <3>2, <3>3
  <2> QED
    BY <2>1, <2>2
<1>12. \A i \in 1 .. Len(suite'.cases) : CaseHeld(suite.cases, i)'
  BY <1>3, <1>4, <1>8, <1>9, <1>11 DEF CaseHeld, LastInDirectory
<1> QED
  BY <1>12 DEF DirsHeld

\* The directories hold what the running suite has listed.
LEMMA DirsHeldHolds == Spec => []DirsHeld
<1>1. Init => DirsHeld
  BY DEF Init, DirsHeld
<1>2. TypeOK /\ Listing /\ DirsHeld /\ [Next]_vars => DirsHeld'
  <2> SUFFICES ASSUME TypeOK, Listing, DirsHeld, [Next]_vars PROVE DirsHeld'
    OBVIOUS
  <2>1. CASE \E mode \in {"", "full", "incremental"} : Start(mode)
    BY <2>1 DEF Start, DirsHeld
  <2>2. CASE DigestContract
    BY <2>2 DEF DigestContract, DirsHeld
  <2>3. CASE ParseContract
    <3>1. suite'.cases = <<>>
      BY <2>3 DEF ParseContract, Listing, TypeOK, Memory
    <3> QED
      BY <3>1 DEF DirsHeld
  <2>4. CASE RunCase
    BY <2>4, CaseDirs
  <2>5. CASE CasesDone \/ OpenReport \/ FillReport \/ EditContract \/ UNCHANGED vars
    <3>1. /\ suite' = suite /\ suites' = suites /\ dirs' = dirs
          /\ pc' \in {"cases", "report", "fill", "human"} =>
               pc \in {"cases", "report", "fill", "human"}
      BY <2>5 DEF CasesDone, OpenReport, FillReport, EditContract, vars
    <3> QED
      BY <3>1 DEF DirsHeld, CaseHeld
  <2>6. CASE WriteHuman \/ Gate \/ Stop
    BY <2>6 DEF WriteHuman, Gate, Stop, FailedSuite, DirsHeld
  <2> QED
    BY <2>1, <2>2, <2>3, <2>4, <2>5, <2>6 DEF Next, SuiteStep
<1> QED
  BY <1>1, <1>2, TypeCorrect, ListingHolds, PTL DEF Spec

\* Until the next suite starts, the report stands for the case directories
\* (ReportStandsForCases).
THEOREM ReportsStandForCases == Spec => []ReportStandsForCases
<1>1. Init => ReportStandsForCases
  BY SuiteMarksAssumption DEF Init, ReportStandsForCases
<1>2. /\ TypeOK /\ Listing /\ ReportAge /\ DirsHeld /\ ReportStandsForCases /\ [Next]_vars
      => ReportStandsForCases'
  <2> SUFFICES ASSUME TypeOK, Listing, ReportAge, DirsHeld, ReportStandsForCases, [Next]_vars
               PROVE  ReportStandsForCases'
    OBVIOUS
  <2>1. CASE \E mode \in {"", "full", "incremental"} : Start(mode)
    <3>1. suites' = suites + 1 /\ report' = report
      BY <2>1 DEF Start
    <3>3. suites \in Nat
      BY SuiteAssumption DEF TypeOK
    <3>2. report \in Report => report.suite \in Nat /\ report.suite <= suites
      BY SuiteAssumption DEF ReportAge, Report
    <3> QED
      BY <3>1, <3>2, <3>3 DEF ReportStandsForCases
  <2>2. CASE OpenReport
    BY <2>2, SuiteMarksAssumption DEF OpenReport, ReportStandsForCases
  <2>3. CASE FillReport
    <3>1. report'.cases = suite.cases /\ suites' = suites /\ dirs' = dirs /\ pc = "fill"
      BY <2>3 DEF FillReport
    <3>2. suite.cases \in Seq(Result)
      BY <3>1 DEF TypeOK, Memory
    <3>3. \A i \in DOMAIN suite.cases : CaseHeld(suite.cases, i)
      BY <3>1, <3>2 DEF DirsHeld
    <3> QED
      BY <3>1, <3>3 DEF ReportStandsForCases, CaseHeld, LastInDirectory
  <2>4. CASE RunCase \/ Stop \/ ParseContract \/ DigestContract \/ CasesDone
    <3>1. report' = report /\ suites' = suites
      BY <2>4 DEF RunCase, Stop, ParseContract, DigestContract, CasesDone
    <3>2. CASE pc = "cases"
      <4>1. report \in Report => report.suite < suites /\ report.suite \in Nat
        BY <3>2, SuiteAssumption DEF ReportAge, Report
      <4>2. suites \in Nat
        BY SuiteAssumption DEF TypeOK
      <4> QED
        BY <3>1, <4>1, <4>2 DEF ReportStandsForCases
    <3>3. CASE pc # "cases"
      <4>1. dirs' = dirs
        BY <2>4, <3>3 DEF RunCase, Stop, ParseContract, DigestContract, CasesDone
      <4> QED
        BY <3>1, <4>1 DEF ReportStandsForCases
    <3> QED
      BY <3>2, <3>3
  <2>5. CASE WriteHuman \/ Gate \/ EditContract \/ UNCHANGED vars
    BY <2>5 DEF WriteHuman, Gate, EditContract, vars, ReportStandsForCases
  <2> QED
    BY <2>1, <2>2, <2>3, <2>4, <2>5 DEF Next, SuiteStep
<1> QED
  BY <1>1, <1>2, TypeCorrect, ListingHolds, ReportAgeHolds, DirsHeldHolds, PTL DEF Spec

\* A passed gate is behind the suite and in front of the next.
GateHeld ==
  gate = "passed" =>
    pc = "idle" /\ report \in Report /\ report.suite = suites /\ report.decision = "CLOSED"

\* The gate passes only on the report of the suite it has just run, with every
\* case decided as expected and in its directory (GateIsEarned).
THEOREM GatesAreEarned == Spec => []GateIsEarned
<1>1. Init => GateHeld
  BY DEF Init, GateHeld
<1>2. TypeOK /\ ReportAge /\ GateHeld /\ [Next]_vars => GateHeld'
  <2> SUFFICES ASSUME TypeOK, ReportAge, GateHeld, [Next]_vars PROVE GateHeld'
    OBVIOUS
  <2>1. CASE \E mode \in {"", "full", "incremental"} : Start(mode)
    BY <2>1 DEF Start, GateHeld
  <2>2. CASE Gate
    BY <2>2 DEF Gate, GateCondition, ReportAge, GateHeld
  <2>3. CASE pc # "idle" /\ pc # "gate" /\ SuiteStep
    <3>1. gate' = gate
      BY <2>3 DEF SuiteStep, DigestContract, ParseContract, RunCase, CasesDone, OpenReport, FillReport,
         WriteHuman, Gate, Stop
    <3> QED
      BY <2>3, <3>1 DEF GateHeld
  <2>4. CASE EditContract \/ UNCHANGED vars
    BY <2>4 DEF EditContract, vars, GateHeld
  <2>5. SuiteStep => Gate \/ (pc # "idle" /\ pc # "gate" /\ SuiteStep)
    BY DEF SuiteStep, DigestContract, ParseContract, RunCase, CasesDone, OpenReport, FillReport,
       WriteHuman, Gate, Stop
  <2> QED
    BY <2>1, <2>2, <2>3, <2>4, <2>5 DEF Next
<1>3. TypeOK /\ GateHeld /\ ReportIsWholeVerdict /\ ReportStandsForCases => GateIsEarned
  <2> SUFFICES ASSUME TypeOK, GateHeld, ReportIsWholeVerdict, ReportStandsForCases, gate = "passed"
               PROVE  /\ report \in Report /\ report.suite = suites
                      /\ \A r \in Range(report.cases) : r.decision = r.expected
                      /\ \A r \in Range(report.cases) :
                           LET dir == dirs[DirOf[r.id]] IN dir \in CaseDir /\ dir.suite = suites
    BY DEF GateIsEarned
  <2>1. report \in Report /\ report.suite = suites /\ report.decision = "CLOSED"
    BY DEF GateHeld
  <2>2. \A r \in Range(report.cases) : r.decision = r.expected
    BY <2>1 DEF ReportIsWholeVerdict
  <2>3. \A r \in Range(report.cases) :
          LET dir == dirs[DirOf[r.id]] IN dir \in CaseDir /\ dir.suite = suites
    BY <2>1 DEF ReportStandsForCases, Range
  <2> QED
    BY <2>1, <2>2, <2>3
<1> QED
  BY <1>1, <1>2, <1>3, TypeCorrect, ReportAgeHolds, ReportsAreWhole, ReportsStandForCases, PTL DEF Spec

-----------------------------------------------------------------------------
(* A suite nobody disturbs *)

\* While nobody edits it between two of its reads, everything the suite has read of
\* the contract is one file, which it is still when more is to be read.
QuietMemory ==
  quiet =>
    /\ pc \in {"parse", "cases"} => suite.digest = contract
    /\ pc \in {"cases", "report", "fill", "human"} =>
         /\ suite.contract = suite.digest
         /\ \A i \in 1 .. Len(suite.cases) : suite.cases[i].contract = suite.digest

\* Every case of a quiet suite reads the contract the suite parsed.
LEMMA CaseQuiet ==
  ASSUME TypeOK, QuietMemory, RunCase
  PROVE  QuietMemory'
<1>1. PICK r \in Result : /\ suite'.cases = Append(suite.cases, r) /\ suite'.contract = suite.contract
                          /\ suite'.digest = suite.digest /\ r.contract = contract
  BY CaseEffects, NewResultType DEF NewResult
<1>2. suite.cases \in Seq(Result) /\ Len(suite.cases) \in Nat
  BY DEF TypeOK, RunCase, Memory
<1>3. PICK later : later = suite'.cases
  OBVIOUS
<1>4. /\ Len(later) = Len(suite.cases) + 1 /\ later[Len(suite.cases) + 1] = r
      /\ \A i \in 1 .. Len(suite.cases) : later[i] = suite.cases[i]
  BY <1>1, <1>2, <1>3
<1>5. quiet => suite.digest = contract /\ \A i \in 1 .. Len(later) : later[i].contract = contract
  <2> SUFFICES ASSUME quiet, NEW i \in 1 .. Len(suite.cases) + 1 PROVE later[i].contract = contract
    BY <1>4 DEF QuietMemory, RunCase
  <2>1. CASE i = Len(suite.cases) + 1
    BY <1>1, <1>4, <2>1
  <2>2. CASE i # Len(suite.cases) + 1
    <3>1. i \in 1 .. Len(suite.cases)
      BY <1>2, <2>2
    <3> QED
      BY <1>4, <3>1 DEF QuietMemory, RunCase
  <2> QED
    BY <2>1, <2>2
<1>6. contract' = contract /\ quiet' = quiet /\ pc = "cases"
  BY DEF RunCase
<1> QED
  BY <1>1, <1>3, <1>5, <1>6 DEF QuietMemory

\* QuietMemory holds at every point of a suite.
LEMMA QuietMemoryHolds == Spec => []QuietMemory
<1>1. Init => QuietMemory
  BY DEF Init, QuietMemory
<1>2. TypeOK /\ Listing /\ QuietMemory /\ [Next]_vars => QuietMemory'
  <2> SUFFICES ASSUME TypeOK, Listing, QuietMemory, [Next]_vars PROVE QuietMemory'
    OBVIOUS
  <2>1. CASE \E mode \in {"", "full", "incremental"} : Start(mode)
    BY <2>1 DEF Start, QuietMemory
  <2>2. CASE DigestContract
    <3>1. suite'.digest = contract /\ contract' = contract /\ pc' = "parse"
      BY <2>2 DEF DigestContract, TypeOK, Memory
    <3> QED
      BY <3>1 DEF QuietMemory
  <2>3. CASE ParseContract
    <3>1. /\ suite'.digest = suite.digest /\ suite'.contract = contract /\ suite'.cases = <<>>
          /\ contract' = contract /\ quiet' = quiet /\ pc = "parse"
      BY <2>3 DEF ParseContract, Listing, TypeOK, Memory
    <3> QED
      BY <3>1 DEF QuietMemory
  <2>4. CASE RunCase
    BY <2>4, CaseQuiet
  <2>5. CASE CasesDone \/ OpenReport \/ FillReport \/ UNCHANGED vars
    <3>1. /\ suite' = suite /\ contract' = contract /\ quiet' = quiet
          /\ pc' = pc \/ (pc \in {"cases", "report", "fill"} /\ pc' \in {"report", "fill", "human"})
      BY <2>5 DEF CasesDone, OpenReport, FillReport, vars
    <3> QED
      BY <3>1 DEF QuietMemory
  <2>6. CASE WriteHuman \/ Gate \/ Stop
    BY <2>6 DEF WriteHuman, Gate, Stop, FailedSuite, QuietMemory
  <2>7. CASE EditContract
    <3>1. UNCHANGED <<pc, suite>> /\ (quiet' => quiet /\ pc \notin {"parse", "cases"})
      BY <2>7 DEF EditContract
    <3> QED
      BY <3>1 DEF QuietMemory
  <2> QED
    BY <2>1, <2>2, <2>3, <2>4, <2>5, <2>6, <2>7 DEF Next, SuiteStep
<1> QED
  BY <1>1, <1>2, TypeCorrect, ListingHolds, PTL DEF Spec

\* Without edits between its reads one contract stands behind the digest, the cases and every
\* judgement in the report (QuietSuiteHasOneContract).
THEOREM QuietSuitesHaveOneContract == Spec => []QuietSuiteHasOneContract
<1>1. Init => QuietSuiteHasOneContract
  BY SuiteMarksAssumption DEF Init, QuietSuiteHasOneContract
<1>2. /\ TypeOK /\ Listing /\ ReportAge /\ QuietMemory /\ QuietSuiteHasOneContract /\ [Next]_vars
      => QuietSuiteHasOneContract'
  <2> SUFFICES ASSUME TypeOK, Listing, ReportAge, QuietMemory, QuietSuiteHasOneContract, [Next]_vars
               PROVE  QuietSuiteHasOneContract'
    OBVIOUS
  <2>1. CASE \E mode \in {"", "full", "incremental"} : Start(mode)
    <3>1. suites' = suites + 1 /\ report' = report
      BY <2>1 DEF Start
    <3>2. report \in Report => report.suite \in Nat /\ report.suite <= suites
      BY SuiteAssumption DEF ReportAge, Report
    <3>3. suites \in Nat
      BY SuiteAssumption DEF TypeOK
    <3> QED
      BY <3>1, <3>2, <3>3 DEF QuietSuiteHasOneContract
  <2>2. CASE OpenReport
    BY <2>2, SuiteMarksAssumption DEF OpenReport, QuietSuiteHasOneContract
  <2>3. CASE FillReport
    <3>1. /\ report'.cases = suite.cases /\ report'.digest = suite.digest
          /\ quiet' = quiet /\ pc = "fill"
      BY <2>3 DEF FillReport
    <3>2. suite.cases \in Seq(Result)
      BY <3>1 DEF TypeOK, Memory
    <3>3. quiet => \A i \in DOMAIN suite.cases : suite.cases[i].contract = suite.digest
      BY <3>1, <3>2 DEF QuietMemory
    <3>4. quiet => \A i \in DOMAIN suite.cases : suite.cases[i].id = CasesOf[suite.digest][i].id
      BY <3>1, <3>2 DEF QuietMemory, Listing, Cases
    <3> QED
      BY <3>1, <3>3, <3>4 DEF QuietSuiteHasOneContract
  <2>4. CASE EditContract
    <3>1. UNCHANGED <<report, suites>> /\ (quiet' => quiet)
      BY <2>4 DEF EditContract
    <3> QED
      BY <3>1 DEF QuietSuiteHasOneContract
  <2>5. CASE DigestContract \/ ParseContract \/ RunCase \/ CasesDone \/ WriteHuman \/ Gate \/ Stop \/ UNCHANGED vars
    <3>1. report' = report /\ suites' = suites /\ contract' = contract /\ quiet' = quiet
      BY <2>5 DEF DigestContract, ParseContract, RunCase, CasesDone, WriteHuman, Gate, Stop, vars
    <3> QED
      BY <3>1 DEF QuietSuiteHasOneContract
  <2> QED
    BY <2>1, <2>2, <2>3, <2>4, <2>5 DEF Next, SuiteStep
<1> QED
  BY <1>1, <1>2, TypeCorrect, ListingHolds, ReportAgeHolds, QuietMemoryHolds, PTL DEF Spec

-----------------------------------------------------------------------------
(* Why a suite ends: a measure that each of its steps lowers. *)

\* How many stages are still to come.
Stages == [idle |-> 0, gate |-> 1, human |-> 2, fill |-> 3, report |-> 4, cases |-> 5,
           parse |-> 6, digest |-> 7]

CasesLeft == Denominator - Len(suite.cases)

\* A stage is done, or a case of those left; or somebody edits the contract and
\* the suite is where it was.
Advances ==
  \/ Stages[pc'] < Stages[pc]
  \/ pc = "cases" /\ pc' = "cases" /\ 0 <= CasesLeft' /\ CasesLeft' < CasesLeft
  \/ edits' = edits + 1 /\ UNCHANGED <<pc, suite>>

\* A case is taken from those left.
LEMMA CaseAdvances ==
  ASSUME TypeOK, RunCase
  PROVE  Advances
<1>1. pc = "cases" /\ pc' = "cases" /\ MoreCases /\ suite \in Memory
  BY DEF RunCase, TypeOK
<1>2. Len(suite.cases) + 1 \in 1 .. Denominator
  BY <1>1, NextCaseType
<1>3. Len(suite'.cases) = Len(suite.cases) + 1 /\ Len(suite.cases) \in Nat
  <2>1. PICK r \in Result : suite'.cases = Append(suite.cases, r)
    BY CaseEffects, NewResultType
  <2>2. suite.cases \in Seq(Result)
    BY <1>1 DEF Memory
  <2> QED BY <2>1, <2>2
<1>4. Denominator \in Nat
  BY SuiteAssumption DEF Denominator
<1> DEFINE m == Len(suite.cases)
           d == Denominator
<1>5. m \in Nat /\ d \in Nat /\ m + 1 \in 1 .. d /\ Len(suite'.cases) = m + 1
  BY <1>2, <1>3, <1>4
<1>6. CasesLeft = d - m /\ CasesLeft' = d - (m + 1)
  BY <1>5 DEF CasesLeft, Denominator
<1> HIDE DEF m, d
<1>7. 0 <= d - (m + 1) /\ d - (m + 1) < d - m
  BY <1>5
<1> QED BY <1>1, <1>6, <1>7 DEF Advances

\* Whatever its cases decide and however often the contract is edited, a suite
\* that was started has at most the rest of its stages and of its denominator
\* before it: no step takes it back (engine.go:263-347).
THEOREM SuitesAdvance == Spec => [][pc # "idle" => Advances]_vars
<1>1. TypeOK /\ [Next]_vars => [pc # "idle" => Advances]_vars
  <2> SUFFICES ASSUME TypeOK, Next, pc # "idle" PROVE Advances
    OBVIOUS
  <2>1. CASE RunCase
    BY <2>1, CaseAdvances
  <2>2. CASE EditContract
    BY <2>2 DEF EditContract, Advances
  <2>3. CASE DigestContract \/ ParseContract \/ CasesDone \/ OpenReport \/ FillReport
               \/ WriteHuman \/ Gate
    <3>1. <<pc, pc'>> \in {<<"digest", "parse">>, <<"parse", "cases">>, <<"cases", "report">>,
                           <<"report", "fill">>, <<"fill", "human">>, <<"human", "gate">>,
                           <<"gate", "idle">>}
      BY <2>3 DEF DigestContract, ParseContract, CasesDone, OpenReport, FillReport, WriteHuman, Gate
    <3> QED BY <3>1 DEF Advances, Stages
  <2>4. CASE Stop
    <3>1. /\ pc \in {"digest", "parse", "cases", "report", "fill", "human"}
          /\ pc' = "idle"
      BY <2>4 DEF Stop, FailedSuite, TypeOK
    <3> QED BY <3>1 DEF Advances, Stages
  <2> QED BY <2>1, <2>2, <2>3, <2>4 DEF Next, SuiteStep, Start
<1> QED BY <1>1, TypeCorrect, PTL DEF Spec
=============================================================================
