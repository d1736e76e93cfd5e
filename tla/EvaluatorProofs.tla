-------------------------- MODULE EvaluatorProofs --------------------------
(***************************************************************************)
(* Theorems about Evaluator, for every choice of files, receipts, programs *)
(* and bounds.                                                             *)
(***************************************************************************)
EXTENDS Evaluator, FiniteSetTheorems, TLAPS

\* What a run has read is a matter of where it is.
USE DEF HasFixture, HasSource, HasContract, HasMeta

-----------------------------------------------------------------------------
(* Facts about the pure functions of Planning. *)

\* A decision is CLOSED exactly when nothing is unknown and nothing refuted.
LEMMA ClosedMeansNothingElse ==
  ASSUME NEW unknown, NEW refuted
  PROVE  /\ Reduce(unknown, refuted) \in {"CLOSED", "UNKNOWN", "REFUTED"}
         /\ Reduce(unknown, refuted) = "CLOSED" <=> unknown = {} /\ refuted = {}
         /\ Reduce(unknown, refuted) = "REFUTED" <=> refuted # {}
BY DEF Reduce

\* A plan selects or reuses exactly when its decision is CLOSED.
LEMMA ActionFollowsDecision ==
  ASSUME NEW decision \in {"CLOSED", "UNKNOWN", "REFUTED"}, NEW mode, NEW loaded, NEW path
  PROVE  /\ Action(decision, mode, loaded, path) \in {"SELECTED", "REUSED", "UNKNOWN", "REFUTED"}
         /\ Action(decision, mode, loaded, path) \in {"SELECTED", "REUSED"} <=> decision = "CLOSED"
         /\ Action(decision, mode, loaded, path) = "REUSED" =>
              mode = "incremental" /\ Len(loaded) = 1 /\ ~path
BY DEF Action

\* What a reused receipt is: the one receipt loaded, an explicit PASS, for the
\* obligation and the whole key of the plan.
LEMMA ReusedReceiptMatches ==
  ASSUME NEW m, NEW program, NEW key, NEW R, NEW loaded \in Seq(R), NEW missing, NEW mode,
         PlanFor(m, program, key, loaded, missing, mode).action = "REUSED"
  PROVE  /\ Len(loaded) = 1
         /\ loaded[1].state = "PASS"
         /\ ReceiptMatches(loaded[1], key, program.obligation.id)
<1> DEFINE unknown  == Unknown(program, key, loaded, missing, mode)
           refuted  == Refuted(m, program, loaded, mode)
           decision == Reduce(unknown, refuted)
           action   == Action(decision, mode, loaded, PathToTarget(program))
<1>1. action = "REUSED"
  BY DEF PlanFor, Decision
<1>2. decision = "CLOSED" /\ mode = "incremental" /\ Len(loaded) = 1
  <2> HIDE DEF unknown, refuted
  <2> QED BY <1>1, ActionFollowsDecision, ClosedMeansNothingElse
<1>3. ReceiptUnknown(program, key, loaded, missing, mode) = {} /\ ReceiptRefuted(loaded, mode) = {}
  <2>1. unknown = {} /\ refuted = {}
    <3> HIDE DEF unknown, refuted
    <3> QED BY <1>2, ClosedMeansNothingElse
  <2> QED BY <2>1 DEF Unknown, Refuted
<1>4. loaded[1] \in Range(loaded) /\ ~Ambiguous(loaded, mode)
  BY <1>2 DEF Range, Ambiguous
<1>5. loaded[1].state # "FAIL"
  BY <1>3, <1>4 DEF ReceiptRefuted, Claim
<1>6. loaded[1].state \in {"PASS", "FAIL"}
  BY <1>3, <1>4 DEF ReceiptUnknown, Claim
<1>7. ~(loaded[1].state = "PASS" /\ ~ReceiptMatches(loaded[1], key, program.obligation.id))
  BY <1>2, <1>3, <1>4 DEF ReceiptUnknown, Claim
<1> QED BY <1>2, <1>5, <1>6, <1>7

\* What a full run would decide on the same reads: it knows no more reasons to
\* stop than an incremental one, but for the receipts an ambiguity hides.
LEMMA FullKnowsNoMore ==
  ASSUME NEW m, NEW program, NEW key, NEW loaded, NEW missing,
         NEW inc, NEW full,
         inc = Decision(m, program, key, loaded, missing, "incremental"),
         full = Decision(m, program, key, loaded, missing, "full")
  PROVE  /\ inc = "CLOSED" => full = "CLOSED"
         /\ inc = "REFUTED" => full = "REFUTED"
         /\ full = "REFUTED" /\ ~Ambiguous(loaded, "incremental") => inc = "REFUTED"
<1> DEFINE unknown(mode) == Unknown(program, key, loaded, missing, mode)
           refuted(mode) == Refuted(m, program, loaded, mode)
<1>1. /\ inc = Reduce(unknown("incremental"), refuted("incremental"))
      /\ full = Reduce(unknown("full"), refuted("full"))
  BY DEF Decision
<1>2. refuted("incremental") \subseteq refuted("full")
  BY DEF Refuted, ReceiptRefuted, Claim, Ambiguous
<1>3. ASSUME unknown("incremental") = {}
      PROVE  unknown("full") = {} /\ refuted("full") = refuted("incremental")
  <2>1. ~Ambiguous(loaded, "incremental")
    BY <1>3 DEF Unknown, ReceiptUnknown, Claim
  <2>2. ~Ambiguous(loaded, "full")
    BY DEF Ambiguous
  <2>3. unknown("full") \subseteq unknown("incremental")
    BY <2>1, <2>2 DEF Unknown, ReceiptUnknown, Claim
  <2>4. ReceiptRefuted(loaded, "full") = ReceiptRefuted(loaded, "incremental")
    BY <2>1, <2>2 DEF ReceiptRefuted
  <2> QED BY <1>3, <2>3, <2>4 DEF Refuted
<1>4. ASSUME ~Ambiguous(loaded, "incremental")
      PROVE  refuted("full") = refuted("incremental")
  BY <1>4 DEF Refuted, ReceiptRefuted, Ambiguous
<1>5. \A mode : Reduce(unknown(mode), refuted(mode)) = "REFUTED" <=> refuted(mode) # {}
  BY DEF Reduce
<1> HIDE DEF unknown, refuted
<1> QED BY <1>1, <1>2, <1>3, <1>4, <1>5, ClosedMeansNothingElse

\* A plan is a plan: every field has its kind.
LEMMA PlanForType ==
  ASSUME NEW m, NEW program \in Program, NEW key \in ProofKey, NEW loaded, NEW missing,
         NEW mode \in {"full", "incremental"}
  PROVE  /\ PlanFor(m, program, key, loaded, missing, mode) \in Plan
         /\ PlanFor(m, program, key, loaded, missing, mode).action \in {"SELECTED", "REUSED"}
              <=> PlanFor(m, program, key, loaded, missing, mode).decision = "CLOSED"
<1> DEFINE decision == Decision(m, program, key, loaded, missing, mode)
           action   == Action(decision, mode, loaded, PathToTarget(program))
           result   == Digest(program.output)
           verified == Verified(action, loaded, result)
<1>1. decision \in {"CLOSED", "UNKNOWN", "REFUTED"}
  BY ClosedMeansNothingElse DEF Decision
<1>2. /\ action \in {"SELECTED", "REUSED", "UNKNOWN", "REFUTED"}
      /\ action \in {"SELECTED", "REUSED"} <=> decision = "CLOSED"
  <2> HIDE DEF decision
  <2> QED BY <1>1, ActionFollowsDecision
<1>3. program.obligation.id \in Text /\ result \in DigestsOf(Text)
  BY DEF Program, Obligation, DigestsOf
<1>4. Frontier(program) \in SUBSET NodeName
  BY DEF Frontier, Program
<1>5. verified \in BOOLEAN
  BY DEF Verified
<1>6. PlanFor(m, program, key, loaded, missing, mode)
        = [mode |-> mode, obligation |-> program.obligation.id, key |-> key,
           decision |-> decision, action |-> action, frontier |-> Frontier(program),
           result |-> result, verified |-> verified]
  BY DEF PlanFor
<1> HIDE DEF decision, action, result, verified
<1> QED BY <1>1, <1>2, <1>3, <1>4, <1>5, <1>6 DEF Plan

\* So is the receipt for it.
LEMMA ResultReceiptType ==
  ASSUME NEW m \in Meta, NEW p \in Plan
  PROVE  ResultReceipt(m, p) \in Receipt
<1>1. ReceiptState(p.decision) \in {"PASS", "CLOSED", "UNKNOWN", "REFUTED"}
  BY DEF ReceiptState, Plan
<1>2. ReceiptState(p.decision) \in Word
  BY <1>1 DEF Word
<1>3. m.schema \in Text /\ p.obligation \in Text /\ p.key \in ProofKey /\ p.result \in DigestsOf(Text)
  BY DEF Meta, Plan
<1> QED BY <1>2, <1>3 DEF ResultReceipt, Receipt

\* Digests of what a run has read make a proof key.
LEMMA KeyOfType ==
  ASSUME NEW s \in Sources, ProgramOf[s] \in Program, NEW c \in Contracts, NEW f \in Contents
  PROVE  KeyOf(s, c, f) \in ProofKey
<1>1. ProgramOf[s].obligation.toolchain \in Text /\ ProgramOf[s].obligation.runner \in Text
  BY DEF Program, Obligation
<1> QED BY <1>1 DEF KeyOf, ProofKey, DigestsOf

-----------------------------------------------------------------------------
(* Type correctness. *)

\* The files of the first moment have their kinds, and no run has started.
LEMMA InitType == Init => TypeOK
<1> SUFFICES ASSUME Init PROVE TypeOK
  OBVIOUS
<1>1. FilesOK
  BY ConstantsAssumption DEF Init, FilesOK
<1>2. RunOK
  BY MarksAssumption DEF Init, RunOK
<1>3. proved \subseteq Text \X ProofKey
  <2>1. \A r \in ExternalReceipts : r.obligation \in Text /\ r.key \in ProofKey
    BY ConstantsAssumption DEF Receipt
  <2>2. proved = Trusted
    BY DEF Init
  <2> QED BY <2>1, <2>2 DEF Trusted, FactOf
<1>4. runs \in 0 .. MaxRuns /\ edits \in 0 .. MaxEdits
  <2>1. MaxRuns \in Nat /\ MaxEdits \in Nat
    BY ConstantsAssumption
  <2>2. runs = 0 /\ edits = 0
    BY DEF Init
  <2> QED BY <2>1, <2>2
<1>5. emitted = NoReceipt /\ quiet = TRUE
  BY DEF Init
<1> QED BY <1>1, <1>2, <1>3, <1>4, <1>5 DEF TypeOK

\* A run that starts has read nothing.
LEMMA StartType == ASSUME TypeOK, NEW mode, Start(mode) PROVE TypeOK'
<1>1. run' \in Run /\ run' # NoRun
  <2> DEFINE m == IF mode = "" THEN "incremental" ELSE mode
  <2>1. m \in {"full", "incremental"}
    BY DEF Start
  <2>2. run' = [mode |-> m, meta |-> Missing, contract |-> Missing, source |-> Missing,
                fixture |-> Missing, loaded |-> <<>>, missing |-> FALSE, next |-> 1]
    BY DEF Start
  <2> HIDE DEF m
  <2>3. run' \in Run
    BY <2>1, <2>2 DEF Run
  <2> QED BY <2>3, MarksAssumption
<1>2. runs' \in 0 .. MaxRuns
  <2>1. runs \in 0 .. MaxRuns
    BY DEF TypeOK
  <2>2. runs < MaxRuns /\ runs' = runs + 1
    BY DEF Start
  <2>3. MaxRuns \in Nat
    BY ConstantsAssumption
  <2> QED BY <2>1, <2>2, <2>3
<1> QED BY <1>1, <1>2 DEF Start, TypeOK, FilesOK, RunOK, files

\* A meta file that parses is one of Metas.
LEMMA LoadMetaType == ASSUME TypeOK, LoadMeta PROVE TypeOK'
<1>1. run \in Run /\ meta \in Meta
  BY ConstantsAssumption DEF LoadMeta, TypeOK, RunOK, FilesOK
<1>2. run' \in Run /\ run'.meta \in Meta /\ run' # NoRun
  BY <1>1, MarksAssumption DEF LoadMeta, Run
<1> QED BY <1>2 DEF LoadMeta, TypeOK, FilesOK, RunOK, files

\* Any contract file that exists has a digest.
LEMMA DigestContractType == ASSUME TypeOK, DigestContract PROVE TypeOK'
<1>1. run \in Run /\ contract \in Contracts /\ run.meta \in Meta
  BY DEF DigestContract, TypeOK, RunOK, FilesOK
<1>2. run' \in Run /\ run'.contract \in Contracts /\ run'.meta = run.meta /\ run' # NoRun
  BY <1>1, MarksAssumption DEF DigestContract, Run
<1> QED BY <1>1, <1>2 DEF DigestContract, TypeOK, FilesOK, RunOK, files

\* The second read of the contract leaves nothing behind.
LEMMA ParseContractType == ASSUME TypeOK, ParseContract PROVE TypeOK'
BY DEF ParseContract, TypeOK, FilesOK, RunOK, files

\* A source that parses is a program.
LEMMA LoadProgramType == ASSUME TypeOK, LoadProgram PROVE TypeOK'
<1>1. run \in Run /\ source \in Sources /\ run.meta \in Meta /\ run.contract \in Contracts
  BY DEF LoadProgram, TypeOK, RunOK, FilesOK
<1>2. ProgramOf[source] \in Program
  BY <1>1, ConstantsAssumption DEF LoadProgram
<1>3. /\ run' \in Run /\ run'.source = source /\ run' # NoRun
      /\ run'.meta = run.meta /\ run'.contract = run.contract
  BY <1>1, MarksAssumption DEF LoadProgram, Run
<1> QED BY <1>1, <1>2, <1>3 DEF LoadProgram, TypeOK, FilesOK, RunOK, ProgramRead, files

\* The fixture that is digested is the one the program names.
LEMMA DigestFixtureType == ASSUME TypeOK, DigestFixture PROVE TypeOK'
<1>1. /\ run \in Run /\ run.source \in Sources /\ run.meta \in Meta /\ run.contract \in Contracts
      /\ ProgramRead \in Program
  BY DEF DigestFixture, TypeOK, RunOK, FilesOK
<1>2. ProgramRead.obligation.fixture \in Paths
  BY <1>1 DEF Program, Obligation
<1>3. FixtureOf(ProgramRead) \in Contents
  BY <1>2 DEF DigestFixture, FixtureOf, TypeOK, FilesOK
<1>4. /\ run' \in Run /\ run'.fixture \in Contents /\ run' # NoRun
      /\ run'.meta = run.meta /\ run'.contract = run.contract /\ run'.source = run.source
  <2> DEFINE content == FixtureOf(ProgramRead)
  <2>1. run' = [run EXCEPT !.fixture = content] /\ content \in Contents
    BY <1>3 DEF DigestFixture
  <2> HIDE DEF content
  <2> QED BY <1>1, <2>1, MarksAssumption DEF Run
<1> QED BY <1>1, <1>4 DEF DigestFixture, TypeOK, FilesOK, RunOK, ProgramRead, files

\* The elements of a sequence that grows are its old ones and the new one.
LEMMA AppendFacts ==
  ASSUME NEW S, NEW q \in Seq(S), NEW x \in S
  PROVE  /\ Append(q, x) \in Seq(S)
         /\ Len(Append(q, x)) = Len(q) + 1
         /\ \A i \in 1 .. Len(q) : Append(q, x)[i] = q[i]
         /\ Append(q, x)[Len(q) + 1] = x
  OBVIOUS


\* And its set of elements grows by the new one.
LEMMA AppendRange ==
  ASSUME NEW S, NEW q \in Seq(S), NEW x \in S
  PROVE  Range(Append(q, x)) = Range(q) \union {x}
<1>1. DOMAIN q = 1 .. Len(q) /\ DOMAIN Append(q, x) = 1 .. Len(q) + 1 /\ Len(q) \in Nat
  BY AppendFacts
<1>2. \A i \in 1 .. Len(q) + 1 : i \in 1 .. Len(q) \/ i = Len(q) + 1
  BY <1>1
<1>3. 1 .. Len(q) \subseteq 1 .. Len(q) + 1 /\ Len(q) + 1 \in 1 .. Len(q) + 1
  BY <1>1
<1> QED BY <1>1, <1>2, <1>3, AppendFacts DEF Range

\* What reading one receipt does to a run: the position moves on, and the file
\* is either noted as missing or kept as a receipt.
LEMMA LoadReceiptReads ==
  ASSUME TypeOK, LoadReceipt
  PROVE  /\ run \in Run /\ run' \in Run
         /\ run.next \in 1 .. Len(ProgramRead.refs) /\ run'.next = run.next + 1
         /\ run'.mode = run.mode /\ run'.meta = run.meta /\ run'.contract = run.contract
         /\ run'.source = run.source /\ run'.fixture = run.fixture
         /\ ProgramRead.refs[run.next] \in Refs
         /\ LET file == store[ProgramRead.refs[run.next]]
            IN  \/ file = Missing /\ run'.missing /\ run'.loaded = run.loaded
                \/ /\ file \in Receipt /\ file # Missing
                   /\ run'.loaded = Append(run.loaded, file) /\ run'.missing = run.missing
<1> DEFINE ref  == ProgramRead.refs[run.next]
           file == store[ref]
<1>1. run \in Run /\ ProgramRead \in Program
  BY DEF LoadReceipt, TypeOK, RunOK
<1>2. ProgramRead.refs \in Seq(Refs) /\ run.next \in 1 .. Len(ProgramRead.refs)
  <2>1. ProgramRead.refs \in Seq(Refs)
    BY <1>1 DEF Program
  <2>2. run.next <= Len(ProgramRead.refs)
    BY DEF LoadReceipt, MoreReceipts
  <2>3. run.next \in Nat \ {0}
    BY <1>1 DEF Run
  <2> QED BY <2>1, <2>2, <2>3
<1>3. ref \in Refs
  BY <1>2
<1>4. file \in Receipt \union {Missing}
  <2>1. store \in [Refs -> Receipt \union {Missing, Corrupt}]
    BY DEF TypeOK, FilesOK
  <2>2. file # Corrupt
    BY DEF LoadReceipt
  <2> QED BY <1>3, <2>1, <2>2
<1>5. /\ file = Missing => run' = [run EXCEPT !.next = @ + 1, !.missing = TRUE]
      /\ file # Missing => run' = [run EXCEPT !.next = @ + 1, !.loaded = Append(@, file)]
  BY DEF LoadReceipt
<1> HIDE DEF file
<1> DEFINE n == run.next + 1
<1>6. n \in Nat \ {0}
  BY <1>2
<1> HIDE DEF ref
<1>7. CASE file = Missing
  <2>1. run' = [run EXCEPT !.next = n, !.missing = TRUE]
    BY <1>5, <1>7
  <2> HIDE DEF n
  <2>2. /\ run' \in Run /\ run'.next = n /\ run'.missing /\ run'.loaded = run.loaded
        /\ run'.mode = run.mode /\ run'.meta = run.meta /\ run'.contract = run.contract
        /\ run'.source = run.source /\ run'.fixture = run.fixture
    BY <1>1, <1>6, <2>1 DEF Run
  <2> QED BY <1>1, <1>2, <1>3, <1>7, <2>2 DEF n, file, ref
<1>8. CASE file \in Receipt
  <2>1. file # Missing
    BY <1>8, MarksAssumption
  <2>2. run.loaded \in Seq(Receipt)
    BY <1>1 DEF Run
  <2>3. Append(run.loaded, file) \in Seq(Receipt)
    BY <2>2, <1>8, AppendFacts
  <2> DEFINE more == Append(run.loaded, file)
  <2>4. run' = [run EXCEPT !.next = n, !.loaded = more]
    BY <2>1, <1>5
  <2> HIDE DEF n, more
  <2>5. /\ run' \in Run /\ run'.next = n /\ run'.loaded = more /\ run'.missing = run.missing
        /\ run'.mode = run.mode /\ run'.meta = run.meta /\ run'.contract = run.contract
        /\ run'.source = run.source /\ run'.fixture = run.fixture
    <3>1. more \in Seq(Receipt)
      BY <2>3 DEF more
    <3> QED BY <1>1, <1>6, <2>4, <3>1 DEF Run
  <2> QED BY <1>1, <1>2, <1>3, <1>8, <2>1, <2>5 DEF n, more, file, ref
<1> QED BY <1>4, <1>7, <1>8 DEF file

\* In particular, what is added was a receipt in the store.
LEMMA LoadReceiptEffect ==
  ASSUME TypeOK, LoadReceipt
  PROVE  /\ run \in Run /\ run' \in Run
         /\ run.next <= Len(ProgramRead.refs) /\ run'.next = run.next + 1
         /\ run'.mode = run.mode /\ run'.meta = run.meta /\ run'.contract = run.contract
         /\ run'.source = run.source /\ run'.fixture = run.fixture
         /\ \/ run'.missing /\ run'.loaded = run.loaded
            \/ \E ref \in Refs : /\ store[ref] \in Receipt
                                /\ run'.loaded = Append(run.loaded, store[ref])
                                /\ run'.missing = run.missing
BY LoadReceiptReads

\* A receipt that is read is a receipt, or the note that there is none.
LEMMA LoadReceiptType == ASSUME TypeOK, LoadReceipt PROVE TypeOK'
<1>1. /\ run' \in Run /\ run' # NoRun
      /\ run'.meta = run.meta /\ run'.contract = run.contract
      /\ run'.source = run.source /\ run'.fixture = run.fixture
  BY LoadReceiptEffect, MarksAssumption
<1>2. ProgramRead' = ProgramRead
  BY <1>1 DEF ProgramRead
<1> QED BY <1>1, <1>2 DEF LoadReceipt, TypeOK, FilesOK, RunOK, files

\* What Decide knows: everything has been read, so the plan and its key are whole.
LEMMA PlanReadType ==
  ASSUME TypeOK, pc \in {"receipts", "emit"}
  PROVE  /\ run \in Run /\ ProgramRead \in Program /\ KeyRead \in ProofKey
         /\ PlanRead \in Plan
         /\ PlanRead.action \in {"SELECTED", "REUSED"} <=> PlanRead.decision = "CLOSED"
<1>1. /\ run \in Run /\ run.source \in Sources /\ run.contract \in Contracts
      /\ run.fixture \in Contents /\ ProgramRead \in Program
  <2>1. run # NoRun
    BY DEF TypeOK, RunOK
  <2> QED BY <2>1 DEF TypeOK, RunOK
<1>2. KeyRead \in ProofKey
  BY <1>1, KeyOfType DEF KeyRead, ProgramRead
<1>3. run.mode \in {"full", "incremental"}
  BY <1>1 DEF Run
<1> QED BY <1>1, <1>2, <1>3, PlanForType DEF PlanRead

\* The fact of a plan is a fact.
LEMMA PlanFactType == ASSUME NEW p \in Plan PROVE FactOf(p) \in Text \X ProofKey
BY DEF FactOf, Plan

\* A plan and the fact it proves are of their kinds.
LEMMA DecideType == ASSUME TypeOK, Decide PROVE TypeOK'
<1>1. pc = "receipts"
  BY DEF Decide
<1>2. PlanRead \in Plan /\ run \in Run
  BY <1>1, PlanReadType
<1>3. proved' \subseteq Text \X ProofKey
  <2>1. FactOf(PlanRead) \in Text \X ProofKey
    BY <1>2, PlanFactType
  <2> QED BY <2>1 DEF Decide, TypeOK
<1>4. plan' \in Plan /\ plan' # NoPlan
  BY <1>2, MarksAssumption DEF Decide
<1> QED BY <1>1, <1>3, <1>4 DEF Decide, TypeOK, FilesOK, RunOK, ProgramRead, files

\* So is the receipt that is written.
LEMMA EmitReceiptType == ASSUME TypeOK, EmitReceipt PROVE TypeOK'
<1>1. run.meta \in Meta /\ plan \in Plan
  BY DEF EmitReceipt, TypeOK, RunOK
<1>2. emitted' \in Receipt
  BY <1>1, ResultReceiptType DEF EmitReceipt
<1> QED BY <1>2 DEF EmitReceipt, TypeOK, FilesOK, RunOK, files

\* A run that ends leaves nothing in memory.
LEMMA EndType == ASSUME TypeOK, End PROVE TypeOK'
BY DEF End, TypeOK, FilesOK, RunOK, files

\* An edit leaves the run alone, and ends the quiet or does not.
LEMMA EditFacts ==
  ASSUME Environment
  PROVE  /\ edits < MaxEdits /\ edits' = edits + 1
         /\ UNCHANGED <<pc, run, plan, emitted, proved, runs>>
         /\ quiet' \in BOOLEAN /\ (quiet' => quiet)
<1>1. ASSUME NEW hasRead, Edit(hasRead)
      PROVE  /\ edits < MaxEdits /\ edits' = edits + 1
             /\ UNCHANGED <<pc, run, plan, emitted, proved, runs>>
             /\ quiet' \in BOOLEAN /\ (quiet' => quiet)
  BY <1>1, Zenon DEF Edit
<1>2. CASE EditMeta
  BY <1>1, <1>2 DEF EditMeta
<1>3. CASE EditSource
  BY <1>1, <1>3 DEF EditSource
<1>4. CASE EditContract
  BY <1>1, <1>4 DEF EditContract
<1>5. ASSUME NEW path \in Paths, EditFixture(path)
      PROVE  \E hasRead \in BOOLEAN : Edit(hasRead)
  BY <1>5, Zenon DEF EditFixture
<1>6. ASSUME NEW ref \in Refs, PutReceipt(ref) \/ PublishReceipt(ref)
      PROVE  \E hasRead \in BOOLEAN : Edit(hasRead)
  BY <1>6, Zenon DEF PutReceipt, PublishReceipt, HasReceipt
<1> QED BY <1>1, <1>2, <1>3, <1>4, <1>5, <1>6 DEF Environment

\* Each file gets a value of its kind.
LEMMA EnvironmentType == ASSUME TypeOK, Environment PROVE TypeOK'
<1>1. /\ edits < MaxEdits /\ edits' = edits + 1
      /\ UNCHANGED <<pc, run, plan, emitted, proved, runs>> /\ quiet' \in BOOLEAN
  BY EditFacts
<1>2. edits' \in 0 .. MaxEdits
  <2>1. edits \in 0 .. MaxEdits
    BY DEF TypeOK
  <2>2. edits < MaxEdits /\ edits' = edits + 1
    BY <1>1
  <2>3. MaxEdits \in Nat
    BY ConstantsAssumption
  <2> QED BY <2>1, <2>2, <2>3
<1>3. FilesOK'
  <2>1. CASE EditMeta \/ EditSource \/ EditContract
    BY <2>1, ConstantsAssumption DEF EditMeta, EditSource, EditContract, TypeOK, FilesOK
  <2>2. CASE \E path \in Paths : EditFixture(path)
    BY <2>2 DEF EditFixture, TypeOK, FilesOK
  <2>3. CASE \E ref \in Refs : PutReceipt(ref)
    <3>1. PICK ref \in Refs : PutReceipt(ref)
      BY <2>3
    <3>2. PICK r \in ExternalReceipts \union {Missing, Corrupt} : store' = [store EXCEPT ![ref] = r]
      BY <3>1 DEF PutReceipt
    <3>3. r \in Receipt \union {Missing, Corrupt}
      BY ConstantsAssumption
    <3> QED BY <3>1, <3>2, <3>3 DEF PutReceipt, TypeOK, FilesOK
  <2>4. CASE \E ref \in Refs : PublishReceipt(ref)
    BY <2>4 DEF PublishReceipt, TypeOK, FilesOK
  <2> QED BY <2>1, <2>2, <2>3, <2>4 DEF Environment
<1>4. RunOK'
  BY <1>1 DEF TypeOK, RunOK, ProgramRead
<1> QED BY <1>1, <1>2, <1>3, <1>4 DEF TypeOK

\* No step takes a value of the wrong kind.
LEMMA StepType == TypeOK /\ [Next]_vars => TypeOK'
<1> SUFFICES ASSUME TypeOK, [Next]_vars PROVE TypeOK'
  OBVIOUS
<1>1. CASE \E mode \in {"", "full", "incremental"} : Start(mode)
  BY <1>1, StartType
<1>2. CASE RunStep
  BY <1>2, LoadMetaType, DigestContractType, ParseContractType, LoadProgramType,
     DigestFixtureType, LoadReceiptType, DecideType, EmitReceiptType, EndType
     DEF RunStep, ReturnError
<1>3. CASE Crash
  BY <1>3, EndType DEF Crash
<1>4. CASE Environment
  BY <1>4, EnvironmentType
<1>5. CASE UNCHANGED vars
  BY <1>5 DEF vars, files, TypeOK, FilesOK, RunOK, ProgramRead
<1> QED BY <1>1, <1>2, <1>3, <1>4, <1>5 DEF Next

\* Every value a run or the disk ever holds is of its kind, whoever edits what
\* while a run reads.
THEOREM TypeCorrect == Spec => []TypeOK
<1> QED BY InitType, StepType, PTL DEF Spec

-----------------------------------------------------------------------------
(* Where receipts are, and how they get there. *)

\* Every receipt a run could read, has read or has written.
ReceiptsAround ==
  Range(store) \union {emitted} \union (IF run = NoRun THEN {} ELSE Range(run.loaded))

\* Somebody vouched for the fact of a PASS receipt.
Vouched(r) == r \in Receipt /\ r.state = "PASS" => FactOf(r) \in proved

PlanIsRead == pc = "emit" => plan = PlanRead

\* A CLOSED plan's own fact is proved: it was selected just now, or it is reused
\* on the strength of a receipt for the same fact.
PlanVouched == pc = "emit" /\ plan.decision = "CLOSED" => FactOf(plan) \in proved

\* ReuseGrounded speaks of the plan alone.  It holds because it holds of every
\* receipt anywhere, which is what a step can preserve.
IInv ==
  /\ TypeOK
  /\ Trusted \subseteq proved
  /\ \A r \in ReceiptsAround : Vouched(r)
  /\ PlanIsRead
  /\ PlanVouched

\* A receipt that is somewhere after a step was somewhere before, came from
\* outside, or is the one the run has just written.
LEMMA ReceiptsMove ==
  ASSUME TypeOK, [Next]_vars, NEW r \in ReceiptsAround', r \in Receipt
  PROVE  \/ r \in ReceiptsAround \union ExternalReceipts
         \/ EmitReceipt /\ r = ResultReceipt(run.meta, plan)
<1> USE DEF ReceiptsAround
<1>1. CASE \E mode \in {"", "full", "incremental"} : Start(mode)
  <2>1. run'.loaded = <<>> /\ store' = store /\ emitted' = emitted
    <3>1. PICK mode : Start(mode)
      BY <1>1
    <3>2. store' = store /\ emitted' = emitted
      BY <3>1 DEF Start, files
    <3>3. run'.loaded = <<>>
      BY <3>1 DEF Start
    <3> QED BY <3>2, <3>3
  <2>2. Range(run'.loaded) = {}
    <3>1. <<>> \in Seq(Receipt) /\ Len(<<>>) = 0
      OBVIOUS
    <3>2. DOMAIN run'.loaded = {}
      BY <2>1, <3>1
    <3> QED BY <3>2 DEF Range
  <2> QED BY <2>1, <2>2
<1>2. CASE LoadMeta \/ DigestContract \/ LoadProgram \/ DigestFixture
  <2>1. run \in Run /\ run # NoRun
    BY <1>2, MarksAssumption DEF TypeOK, RunOK, LoadMeta, DigestContract, LoadProgram, DigestFixture
  <2>2. run'.loaded = run.loaded /\ store' = store /\ emitted' = emitted
    BY <1>2, <2>1 DEF Run, LoadMeta, DigestContract, LoadProgram, DigestFixture, files
  <2> QED BY <2>1, <2>2
<1>3. CASE LoadReceipt
  <2>1. /\ run \in Run /\ run # NoRun /\ store' = store /\ emitted' = emitted
    BY <1>3, LoadReceiptEffect, MarksAssumption DEF LoadReceipt, files
  <2>2. CASE run'.loaded = run.loaded
    BY <2>1, <2>2
  <2>3. CASE \E ref \in Refs : store[ref] \in Receipt /\ run'.loaded = Append(run.loaded, store[ref])
    <3>1. PICK ref \in Refs : store[ref] \in Receipt /\ run'.loaded = Append(run.loaded, store[ref])
      BY <2>3
    <3>2. store[ref] \in Range(store)
      BY DEF Range, TypeOK, FilesOK
    <3>3. Range(run'.loaded) = Range(run.loaded) \union {store[ref]}
      <4>1. run.loaded \in Seq(Receipt)
        BY <2>1 DEF Run
      <4> QED BY <3>1, <4>1, AppendRange
    <3> QED BY <2>1, <3>2, <3>3
  <2> QED BY <1>3, <2>2, <2>3, LoadReceiptEffect
<1>4. CASE ParseContract \/ Decide
  BY <1>4 DEF ParseContract, Decide, files
<1>5. CASE EmitReceipt
  BY <1>5 DEF EmitReceipt, files
<1>6. CASE End
  BY <1>6 DEF End, files
<1>7. CASE EditMeta \/ EditSource \/ EditContract \/ \E path \in Paths : EditFixture(path)
  BY <1>7 DEF EditMeta, EditSource, EditContract, EditFixture, Edit
<1>8. CASE \E ref \in Refs : PutReceipt(ref) \/ PublishReceipt(ref)
  <2>1. PICK ref \in Refs : PutReceipt(ref) \/ PublishReceipt(ref)
    BY <1>8
  <2>2. /\ run' = run /\ emitted' = emitted
        /\ \E x \in ExternalReceipts \union {Missing, Corrupt, emitted} : store' = [store EXCEPT ![ref] = x]
    BY <2>1 DEF PutReceipt, PublishReceipt, Edit
  <2>3. PICK x \in ExternalReceipts \union {Missing, Corrupt, emitted} : store' = [store EXCEPT ![ref] = x]
    BY <2>2
  <2>4. Range(store') \subseteq Range(store) \union {x}
    BY <2>3 DEF Range
  <2>5. r # Missing /\ r # Corrupt
    BY MarksAssumption
  <2> QED BY <2>2, <2>4, <2>5
<1>9. CASE UNCHANGED vars
  BY <1>9 DEF vars, files
<1> QED
  BY <1>1, <1>2, <1>3, <1>4, <1>5, <1>6, <1>7, <1>8, <1>9
     DEF Next, RunStep, ReturnError, Crash, Environment

\* Nothing that was proved is ever un-proved.
LEMMA ProvedGrows == ASSUME [Next]_vars PROVE proved \subseteq proved'
BY DEF Next, vars, Start, RunStep, LoadMeta, DigestContract, ParseContract, LoadProgram,
       DigestFixture, LoadReceipt, Decide, EmitReceipt, ReturnError, Crash, End, Environment,
       EditMeta, EditSource, EditContract, EditFixture, PutReceipt, PublishReceipt, Edit

-----------------------------------------------------------------------------
(* Reuse is grounded. *)

\* The heart of it: a CLOSED plan that the run decides is for a fact that was
\* proved before, or that it is selecting itself.
LEMMA DecideVouches ==
  ASSUME IInv, Decide
  PROVE  PlanRead.decision = "CLOSED" => FactOf(PlanRead) \in proved'
<1>1. pc = "receipts" /\ run # NoRun
  BY DEF Decide, IInv, TypeOK, RunOK
<1>2. run \in Run /\ (PlanRead.action \in {"SELECTED", "REUSED"} <=> PlanRead.decision = "CLOSED")
  BY <1>1, PlanReadType DEF IInv
<1>3. CASE PlanRead.action = "SELECTED"
  BY <1>3 DEF Decide
<1>4. CASE PlanRead.action = "REUSED"
  <2> DEFINE r == run.loaded[1]
  <2>1. run.loaded \in Seq(Receipt)
    BY <1>2 DEF Run
  <2>2. /\ Len(run.loaded) = 1 /\ r.state = "PASS"
        /\ ReceiptMatches(r, KeyRead, ProgramRead.obligation.id)
    BY <1>4, <2>1, ReusedReceiptMatches DEF PlanRead
  <2>3. r \in Receipt /\ r \in Range(run.loaded)
    BY <2>1, <2>2 DEF Range
  <2>4. FactOf(r) \in proved
    <3>1. Vouched(r)
      BY <1>1, <2>3 DEF IInv, ReceiptsAround
    <3> QED BY <2>2, <2>3, <3>1 DEF Vouched
  <2>5. FactOf(r) = FactOf(PlanRead)
    BY <2>2 DEF ReceiptMatches, FactOf, PlanRead, PlanFor
  <2> QED BY <1>4, <2>4, <2>5 DEF Decide
<1> QED BY <1>2, <1>3, <1>4

\* A PASS receipt that a run writes is for a fact that is proved.
LEMMA EmitVouches ==
  ASSUME IInv, EmitReceipt
  PROVE  Vouched(ResultReceipt(run.meta, plan))
<1>1. pc = "emit" /\ plan \in Plan
  BY DEF EmitReceipt, IInv, TypeOK, RunOK
<1>2. FactOf(ResultReceipt(run.meta, plan)) = FactOf(plan)
  BY DEF ResultReceipt, FactOf
<1>3. ResultReceipt(run.meta, plan).state = "PASS" => plan.decision = "CLOSED"
  BY <1>1 DEF ResultReceipt, ReceiptState, Plan
<1> QED BY <1>1, <1>2, <1>3 DEF IInv, PlanVouched, Vouched

\* Between Decide and EmitReceipt, what the run has read stays as it is.
LEMMA PlanStays ==
  ASSUME TypeOK, [Next]_vars, ~Decide, pc' = "emit"
  PROVE  pc = "emit" /\ run' = run /\ plan' = plan
<1>1. CASE Environment \/ UNCHANGED vars
  BY <1>1 DEF Environment, EditMeta, EditSource, EditContract, EditFixture, PutReceipt,
              PublishReceipt, Edit, vars
<1>2. CASE LoadReceipt
  BY <1>2 DEF LoadReceipt
<1> QED BY <1>1, <1>2
     DEF Next, RunStep, Start, LoadMeta, DigestContract, ParseContract, LoadProgram,
         DigestFixture, EmitReceipt, ReturnError, Crash, End

\* At first every PASS receipt is a trusted one.
LEMMA InitInv == Init => IInv
<1> SUFFICES ASSUME Init PROVE IInv
  OBVIOUS
<1>1. \A r \in ReceiptsAround : r \in Receipt => r \in ExternalReceipts
  <2>1. Range(store) \subseteq ExternalReceipts \union {Missing}
    BY DEF Init, Range
  <2> QED BY <2>1, MarksAssumption DEF Init, ReceiptsAround
<1>2. \A r \in ReceiptsAround : Vouched(r)
  BY <1>1 DEF Vouched, Trusted, Init
<1> QED BY <1>2, InitType DEF Init, IInv, PlanIsRead, PlanVouched

\* A receipt that appears anywhere is vouched for; what was proved stays so.
LEMMA StepInv == IInv /\ [Next]_vars => IInv'
<1> SUFFICES ASSUME IInv, [Next]_vars PROVE IInv'
  OBVIOUS
<1>1. TypeOK /\ TypeOK'
  BY StepType DEF IInv
<1>2. proved \subseteq proved'
  BY ProvedGrows
<1>3. Trusted' = Trusted /\ Trusted \subseteq proved'
  BY <1>2 DEF IInv, Trusted, FactOf
<1>4. ASSUME NEW r \in ReceiptsAround'
      PROVE  Vouched(r)'
  <2>1. SUFFICES ASSUME r \in Receipt, r.state = "PASS" PROVE FactOf(r) \in proved'
    BY DEF Vouched, FactOf, Receipt
  <2>2. CASE r \in ReceiptsAround
    BY <1>2, <2>1, <2>2 DEF IInv, Vouched
  <2>3. CASE r \in ExternalReceipts
    BY <1>3, <2>1, <2>3 DEF Trusted
  <2>4. CASE EmitReceipt /\ r = ResultReceipt(run.meta, plan)
    BY <1>2, <2>1, <2>4, EmitVouches DEF Vouched
  <2> QED BY <1>1, <2>1, <2>2, <2>3, <2>4, ReceiptsMove
<1>5. PlanIsRead' /\ PlanVouched'
  <2>1. CASE Decide
    <3>1. plan' = PlanRead /\ run' = run
      BY <2>1 DEF Decide
    <3>2. PlanRead' = PlanRead
      BY <3>1 DEF PlanRead, ProgramRead, KeyRead
    <3> QED BY <2>1, <3>1, <3>2, DecideVouches DEF PlanIsRead, PlanVouched, FactOf
  <2>2. CASE ~Decide /\ pc' = "emit"
    <3>1. pc = "emit" /\ run' = run /\ plan' = plan
      BY <1>1, <2>2, PlanStays
    <3>2. PlanRead' = PlanRead
      BY <3>1 DEF PlanRead, ProgramRead, KeyRead
    <3> QED BY <1>2, <3>1, <3>2 DEF IInv, PlanIsRead, PlanVouched, FactOf
  <2> QED BY <2>1, <2>2 DEF PlanIsRead, PlanVouched
<1> QED BY <1>1, <1>3, <1>4, <1>5 DEF IInv

\* What IInv says of a reuse.
LEMMA IInvGrounds == IInv => ReuseGrounded
<1> SUFFICES ASSUME IInv, pc = "emit", plan.action = "REUSED" PROVE FactOf(plan) \in proved
  BY DEF ReuseGrounded
<1>1. plan.decision = "CLOSED"
  BY PlanReadType DEF IInv, PlanIsRead
<1> QED BY <1>1 DEF IInv, PlanVouched

\* No interleaving of edits with the reads of runs, and no way of carrying
\* receipts from run to run, makes the evaluator reuse what nobody proved.
THEOREM ReuseIsGrounded == Spec => []ReuseGrounded
<1> QED BY InitInv, StepInv, IInvGrounds, PTL DEF Spec

\* The pair of modes that CI compares: full never contradicts incremental.
LEMMA IInvAgrees == IInv => ModesAgree
<1> SUFFICES ASSUME IInv, pc = "emit", run.mode = "incremental" PROVE ModesAgree
  BY DEF ModesAgree
<1>1. plan = PlanRead
  BY DEF IInv, PlanIsRead
<1>2. plan.decision = Decision(run.meta, ProgramRead, KeyRead, run.loaded, run.missing, "incremental")
  BY <1>1 DEF PlanRead, PlanFor
<1> DEFINE full == Decision(run.meta, ProgramRead, KeyRead, run.loaded, run.missing, "full")
<1>3. /\ plan.decision = "CLOSED" => full = "CLOSED"
      /\ plan.decision = "REFUTED" => full = "REFUTED"
      /\ full = "REFUTED" /\ ~Ambiguous(run.loaded, "incremental") => plan.decision = "REFUTED"
  BY <1>2, FullKnowsNoMore
<1> QED BY <1>3 DEF ModesAgree

\* On the reads of any run, a full run closes what an incremental one closes and
\* refutes what it refutes; the other way round a refutation is missed only where
\* several receipts are ambiguous.
THEOREM ModesNeverContradict == Spec => []ModesAgree
<1> QED BY InitInv, StepInv, IInvAgrees, PTL DEF Spec

-----------------------------------------------------------------------------
(* The evaluator implements ReuseLedger. *)

\* The moments before and after a plan exists: the ledger sees nothing of them.
LEMMA NoPlanSteps ==
  ASSUME TypeOK, [Next]_vars, ~Decide
  PROVE  proved' = proved /\ (plan' = plan \/ plan' = NoPlan)
BY DEF Next, vars, Start, RunStep, LoadMeta, DigestContract, ParseContract, LoadProgram,
       DigestFixture, LoadReceipt, EmitReceipt, ReturnError, Crash, End, Environment,
       EditMeta, EditSource, EditContract, EditFixture, PutReceipt, PublishReceipt, Edit

\* The fact of a plan is one a run can be about.
LEMMA PlanReadFact ==
  ASSUME TypeOK, pc = "receipts"
  PROVE  FactOf(PlanRead) \in RunFacts
<1>1. /\ run.source \in {s \in Sources : ProgramOf[s] # Malformed}
      /\ run.contract \in Contracts /\ run.fixture \in Contents
  BY MarksAssumption DEF TypeOK, RunOK, ProgramRead
<1>2. FactOf(PlanRead)
        = <<ProgramOf[run.source].obligation.id, KeyOf(run.source, run.contract, run.fixture)>>
  BY DEF FactOf, PlanRead, PlanFor, ProgramRead, KeyRead
<1> DEFINE x == <<run.source, run.contract, run.fixture>>
<1>3. x \in {s \in Sources : ProgramOf[s] # Malformed} \X Contracts \X Contents
  BY <1>1
<1>4. FactOf(PlanRead) = <<ProgramOf[x[1]].obligation.id, KeyOf(x[1], x[2], x[3])>>
  BY <1>2
<1> HIDE DEF x
<1> QED BY <1>3, <1>4 DEF RunFacts

\* Deciding is one of the ledger's verdicts.
LEMMA DecideRefines == ASSUME IInv, Decide PROVE Ledger!Next
<1> DEFINE f == FactOf(PlanRead)
<1>1. pc = "receipts" /\ plan = NoPlan /\ plan' = PlanRead
  BY DEF Decide, IInv, TypeOK, RunOK
<1>2. /\ PlanRead \in Plan /\ PlanRead # NoPlan
      /\ (PlanRead.action \in {"SELECTED", "REUSED"} <=> PlanRead.decision = "CLOSED")
  BY <1>1, PlanReadType, MarksAssumption DEF IInv
<1>3. f \in RunFacts
  BY <1>1, PlanReadFact DEF IInv
<1>4. LedgerVerdict = NoPlan /\ LedgerVerdict' = [action |-> PlanRead.action, fact |-> f]
  <2>1. FactOf(plan)' = f
    BY <1>1 DEF FactOf
  <2> QED BY <1>1, <1>2, <2>1 DEF LedgerVerdict
<1>5. CASE PlanRead.action = "SELECTED"
  <2>1. proved' = proved \union {f}
    BY <1>5 DEF Decide
  <2>2. Ledger!Select(f)
    BY <1>4, <1>5, <2>1 DEF Ledger!Select, Ledger!Verdict, LedgerVerdict
  <2> QED BY <1>3, <2>2 DEF Ledger!Next
<1>6. CASE PlanRead.action = "REUSED"
  <2>1. proved' = proved
    BY <1>6 DEF Decide
  <2>2. f \in proved
    BY <1>2, <1>6, <2>1, DecideVouches
  <2>3. Ledger!Reuse(f)
    BY <1>4, <1>6, <2>1, <2>2 DEF Ledger!Reuse, Ledger!Verdict, LedgerVerdict
  <2> QED BY <1>3, <2>3 DEF Ledger!Next
<1>7. CASE PlanRead.action \in {"UNKNOWN", "REFUTED"}
  <2>1. proved' = proved
    BY <1>7 DEF Decide
  <2>2. Ledger!Block(f, PlanRead.action)
    BY <1>4, <2>1 DEF Ledger!Block, Ledger!Verdict, LedgerVerdict
  <2> QED BY <1>3, <1>7, <2>2 DEF Ledger!Next
<1> QED BY <1>2, <1>5, <1>6, <1>7 DEF Plan

\* Seen through the facts that were selected and the verdict of the plan, every
\* behaviour of the evaluator, edits and crashes included, is one of the ledger.
THEOREM EvaluatorImplementsLedger == Spec => LedgerSpec
<1>1. Init => Ledger!Init
  BY DEF Init, Ledger!Init, LedgerVerdict
<1>2. IInv /\ [Next]_vars => [Ledger!Next]_(Ledger!vars)
  <2> SUFFICES ASSUME IInv, [Next]_vars PROVE [Ledger!Next]_(Ledger!vars)
    OBVIOUS
  <2>1. CASE Decide
    BY <2>1, DecideRefines
  <2>2. CASE ~Decide
    <3>1. proved' = proved /\ (plan' = plan \/ plan' = NoPlan)
      BY <2>2, NoPlanSteps DEF IInv
    <3>2. CASE plan' = plan
      BY <3>1, <3>2 DEF Ledger!vars, LedgerVerdict, FactOf
    <3>3. CASE plan' = NoPlan /\ plan # NoPlan
      <4>1. plan \in Plan
        BY <3>3 DEF IInv, TypeOK, RunOK
      <4>2. LedgerVerdict \in LedgerVerdicts
        BY <3>3, <4>1, PlanFactType DEF LedgerVerdict, LedgerVerdicts, Plan
      <4>3. LedgerVerdict # NoPlan /\ LedgerVerdict' = NoPlan
        BY <3>3, <4>2, MarksAssumption DEF LedgerVerdict
      <4>4. Ledger!Settle
        BY <3>1, <4>3 DEF Ledger!Settle, LedgerVerdict
      <4> QED BY <4>4 DEF Ledger!Next
    <3> QED BY <3>1, <3>2, <3>3
  <2> QED BY <2>1, <2>2
<1> QED BY <1>1, <1>2, InitInv, StepInv, PTL DEF Spec, LedgerSpec, Ledger!Spec

-----------------------------------------------------------------------------
(* How far the loading of receipts has come. *)

\* Each reference read so far has given a receipt or the note that one is missing.
ReadSoFar ==
  /\ pc \in {"meta", "digest", "contract", "source", "fixture"} =>
       run.next = 1 /\ Len(run.loaded) = 0 /\ ~run.missing
  /\ pc \in {"receipts", "emit"} =>
       /\ run.next <= Len(ProgramRead.refs) + 1
       /\ Len(run.loaded) < run.next
       /\ run.missing <=> Len(run.loaded) + 1 < run.next
  /\ pc = "emit" => run.next = Len(ProgramRead.refs) + 1

\* Before a run there is nothing to have read.
LEMMA InitReadSoFar == Init => ReadSoFar
BY DEF Init, ReadSoFar

\* Every reading step counts one reference more.
LEMMA StepReadSoFar == TypeOK /\ ReadSoFar /\ [Next]_vars => ReadSoFar'
<1> SUFFICES ASSUME TypeOK, ReadSoFar, [Next]_vars PROVE ReadSoFar'
  OBVIOUS
<1>1. CASE \E mode \in {"", "full", "incremental"} : Start(mode)
  <2>1. PICK mode : Start(mode)
    BY <1>1
  <2>2. run'.next = 1 /\ run'.loaded = <<>> /\ run'.missing = FALSE /\ pc' = "meta"
    BY <2>1 DEF Start
  <2> QED BY <2>2 DEF ReadSoFar
<1>2. CASE LoadMeta \/ DigestContract \/ LoadProgram
  <2>1. run \in Run
    BY <1>2 DEF TypeOK, RunOK, LoadMeta, DigestContract, LoadProgram
  <2>2. run'.next = run.next /\ run'.loaded = run.loaded /\ run'.missing = run.missing
    BY <1>2, <2>1 DEF Run, LoadMeta, DigestContract, LoadProgram
  <2>3. pc \in {"meta", "digest", "source"} /\ pc' \in {"digest", "contract", "fixture"}
    BY <1>2 DEF LoadMeta, DigestContract, LoadProgram
  <2> QED BY <2>2, <2>3 DEF ReadSoFar
<1>3. CASE ParseContract
  BY <1>3 DEF ParseContract, ReadSoFar
<1>4. CASE DigestFixture
  <2>1. run \in Run /\ ProgramRead \in Program /\ pc = "fixture" /\ pc' = "receipts"
    BY <1>4 DEF TypeOK, RunOK, DigestFixture
  <2>2. /\ run'.next = run.next /\ run'.loaded = run.loaded /\ run'.missing = run.missing
        /\ run'.source = run.source
    BY <1>4, <2>1 DEF Run, DigestFixture
  <2>3. ProgramRead' = ProgramRead
    BY <2>2 DEF ProgramRead
  <2>4. Len(ProgramRead.refs) \in Nat
    BY <2>1 DEF Program
  <2>5. run.next = 1 /\ Len(run.loaded) = 0 /\ ~run.missing
    BY <2>1 DEF ReadSoFar
  <2> QED BY <2>1, <2>2, <2>3, <2>4, <2>5 DEF ReadSoFar
<1>5. CASE LoadReceipt
  <2>1. pc = "receipts" /\ pc' = "receipts"
    BY <1>5 DEF LoadReceipt
  <2>2. /\ run \in Run /\ run.next <= Len(ProgramRead.refs) /\ run'.next = run.next + 1
        /\ run'.source = run.source
    BY <1>5, LoadReceiptEffect
  <2>3. ProgramRead' = ProgramRead /\ ProgramRead \in Program
    BY <2>1, <2>2 DEF ProgramRead, TypeOK, RunOK
  <2>4. /\ Len(ProgramRead.refs) \in Nat /\ run.next \in Nat \ {0}
        /\ run.loaded \in Seq(Receipt) /\ Len(run.loaded) \in Nat
    BY <2>2, <2>3 DEF Program, Run
  <2>5. Len(run.loaded) < run.next /\ (run.missing <=> Len(run.loaded) + 1 < run.next)
    BY <2>1 DEF ReadSoFar
  <2>6. \/ run'.missing /\ run'.loaded = run.loaded
        \/ Len(run'.loaded) = Len(run.loaded) + 1 /\ run'.missing = run.missing
    BY <1>5, <2>4, LoadReceiptEffect, AppendFacts
  <2>7. /\ run'.next <= Len(ProgramRead.refs) + 1
        /\ Len(run'.loaded) < run'.next
        /\ run'.missing <=> Len(run'.loaded) + 1 < run'.next
    BY <2>2, <2>4, <2>5, <2>6
  <2> QED BY <2>1, <2>3, <2>7 DEF ReadSoFar
<1>6. CASE Decide
  <2>1. pc = "receipts" /\ pc' = "emit" /\ run' = run
    BY <1>6 DEF Decide
  <2>2. ProgramRead' = ProgramRead /\ ProgramRead \in Program /\ run \in Run
    BY <2>1, PlanReadType DEF ProgramRead
  <2>3. Len(ProgramRead.refs) \in Nat /\ run.next \in Nat
    BY <2>2 DEF Program, Run
  <2>4. ~(run.next <= Len(ProgramRead.refs)) /\ run.next <= Len(ProgramRead.refs) + 1
    BY <1>6, <2>1 DEF Decide, MoreReceipts, ReadSoFar
  <2>5. run.next = Len(ProgramRead.refs) + 1
    BY <2>3, <2>4
  <2> QED BY <2>1, <2>2, <2>5 DEF ReadSoFar
<1>7. CASE EmitReceipt \/ End
  BY <1>7 DEF EmitReceipt, End, ReadSoFar
<1>8. CASE Environment \/ UNCHANGED vars
  <2>1. pc' = pc /\ run' = run
    BY <1>8 DEF Environment, EditMeta, EditSource, EditContract, EditFixture, PutReceipt,
                PublishReceipt, Edit, vars
  <2>2. ProgramRead' = ProgramRead
    BY <2>1 DEF ProgramRead
  <2> QED BY <2>1, <2>2 DEF ReadSoFar
<1> QED BY <1>1, <1>2, <1>3, <1>4, <1>5, <1>6, <1>7, <1>8 DEF Next, RunStep, ReturnError, Crash

-----------------------------------------------------------------------------
(* What runs have written is worth reading. *)

\* A run wrote such a receipt for the source s: the result is the digest of the
\* output that s declares, and a PASS was not written over an open decision.
IssuedFor(r, s) ==
  /\ r.obligation = ProgramOf[s].obligation.id
  /\ r.key.source = Digest(s)
  /\ r.result = Digest(ProgramOf[s].output)
  /\ r.state = "PASS" => ProgramOf[s].top # "UNKNOWN"

\* OwnReceiptVerifies and IssuedProofHonoured speak of the receipt a run has
\* loaded; they hold because every receipt anywhere that did not come from
\* outside still says what the run that wrote it knew.
OwnInv ==
  \A r \in ReceiptsAround : r \in Receipt /\ Own(r) => \E s \in Sources : IssuedFor(r, s)

\* A CLOSED decision leaves no decision of the program open.
LEMMA ClosedNeedsNoOpenDecision ==
  ASSUME NEW m, NEW program, NEW key, NEW loaded, NEW missing, NEW mode,
         Decision(m, program, key, loaded, missing, mode) = "CLOSED"
  PROVE  program.top # "UNKNOWN"
<1> DEFINE unknown == Unknown(program, key, loaded, missing, mode)
           refuted == Refuted(m, program, loaded, mode)
<1>1. unknown = {}
  <2>1. Reduce(unknown, refuted) = "CLOSED"
    BY DEF Decision
  <2> HIDE DEF unknown, refuted
  <2> QED BY <2>1, ClosedMeansNothingElse
<1> QED BY <1>1 DEF Unknown, ValidationUnknown, Claim

\* The receipt a run writes is one for the source it read.
LEMMA EmitIssues ==
  ASSUME IInv, EmitReceipt
  PROVE  \E s \in Sources : IssuedFor(ResultReceipt(run.meta, plan), s)
<1> DEFINE r == ResultReceipt(run.meta, plan)
<1>1. pc = "emit" /\ plan \in Plan /\ plan = PlanRead /\ run.source \in Sources
  BY DEF EmitReceipt, IInv, TypeOK, RunOK, PlanIsRead
<1>2. /\ r.obligation = ProgramRead.obligation.id
      /\ r.key = KeyRead
      /\ r.result = Digest(ProgramRead.output)
  BY <1>1 DEF ResultReceipt, PlanRead, PlanFor
<1>3. KeyRead.source = Digest(run.source)
  BY DEF KeyRead, KeyOf
<1>4. r.state = "PASS" => ProgramRead.top # "UNKNOWN"
  <2> SUFFICES ASSUME r.state = "PASS" PROVE ProgramRead.top # "UNKNOWN"
    OBVIOUS
  <2>1. plan.decision = "CLOSED"
    BY <1>1 DEF ResultReceipt, ReceiptState, Plan
  <2>2. Decision(run.meta, ProgramRead, KeyRead, run.loaded, run.missing, run.mode) = "CLOSED"
    BY <1>1, <2>1 DEF PlanRead, PlanFor
  <2> QED BY <2>2, ClosedNeedsNoOpenDecision
<1>5. IssuedFor(r, run.source)
  <2> HIDE DEF r
  <2> QED BY <1>2, <1>3, <1>4 DEF IssuedFor, ProgramRead
<1> QED BY <1>1, <1>5

\* At first every receipt there is comes from outside.
LEMMA InitOwn == Init => OwnInv
<1> SUFFICES ASSUME Init PROVE OwnInv
  OBVIOUS
<1>1. Range(store) \subseteq ExternalReceipts \union {Missing}
  BY DEF Init, Range
<1> QED BY <1>1, MarksAssumption DEF Init, OwnInv, ReceiptsAround, Own

\* A step carries receipts about unchanged, or writes one for a source.
LEMMA StepOwn == IInv /\ OwnInv /\ [Next]_vars => OwnInv'
<1> SUFFICES ASSUME IInv, OwnInv, [Next]_vars,
                    NEW r \in ReceiptsAround', r \in Receipt, Own(r)
             PROVE  \E s \in Sources : IssuedFor(r, s)
  BY DEF OwnInv, Own, IssuedFor
<1>1. CASE r \in ReceiptsAround \union ExternalReceipts
  BY <1>1 DEF OwnInv, Own
<1>2. CASE EmitReceipt /\ r = ResultReceipt(run.meta, plan)
  BY <1>2, EmitIssues
<1> QED BY <1>1, <1>2, ReceiptsMove DEF IInv

\* The one receipt a run has loaded, when a run wrote it under the same source,
\* says what this run says of its program.
LEMMA OwnReceiptSpeaksOfThisSource ==
  ASSUME TypeOK, OwnInv, pc = "emit", Len(run.loaded) = 1, Own(run.loaded[1]),
         run.loaded[1].key = KeyRead
  PROVE  IssuedFor(run.loaded[1], run.source)
<1> DEFINE r == run.loaded[1]
<1>1. run \in Run /\ run # NoRun
  BY DEF TypeOK, RunOK
<1>2. run.loaded \in Seq(Receipt)
  BY <1>1 DEF Run
<1>3. r \in Receipt /\ r \in Range(run.loaded)
  BY <1>2 DEF Range
<1>4. PICK s \in Sources : IssuedFor(r, s)
  BY <1>1, <1>3 DEF OwnInv, ReceiptsAround
<1>5. r.key.source = Digest(run.source)
  BY DEF KeyRead, KeyOf
<1>6. s = run.source
  BY <1>4, <1>5 DEF IssuedFor, Digest
<1> QED BY <1>4, <1>6

\* A reused receipt that a run wrote has the result digest of the output its
\* program declares.
LEMMA OwnVerifies == IInv /\ OwnInv => OwnReceiptVerifies
<1> SUFFICES ASSUME IInv, OwnInv, pc = "emit", plan.action = "REUSED", Own(run.loaded[1])
             PROVE  plan.verified
  BY DEF OwnReceiptVerifies
<1>1. plan = PlanRead /\ run.loaded \in Seq(Receipt)
  BY PlanReadType DEF IInv, PlanIsRead, Run
<1>2. Len(run.loaded) = 1 /\ ReceiptMatches(run.loaded[1], KeyRead, ProgramRead.obligation.id)
  BY <1>1, ReusedReceiptMatches DEF PlanRead
<1>3. IssuedFor(run.loaded[1], run.source)
  BY <1>2, OwnReceiptSpeaksOfThisSource DEF IInv, ReceiptMatches
<1>4. run.loaded[1].result = Digest(ProgramRead.output)
  BY <1>3 DEF IssuedFor, ProgramRead
<1>5. plan.verified = Verified(plan.action, run.loaded, Digest(ProgramRead.output))
  BY <1>1 DEF PlanRead, PlanFor
<1> QED BY <1>4, <1>5 DEF Verified

\* An incremental run does not close on a PASS receipt of another schema.
LEMMA OtherSchemaBlocks ==
  ASSUME IInv, pc = "emit", run.mode = "incremental", Len(run.loaded) = 1,
         run.loaded[1].state = "PASS", run.loaded[1].schema # ReceiptSchemaV1
  PROVE  plan.decision # "CLOSED"
<1> DEFINE r       == run.loaded[1]
           unknown == Unknown(ProgramRead, KeyRead, run.loaded, run.missing, run.mode)
           refuted == Refuted(run.meta, ProgramRead, run.loaded, run.mode)
<1>1. plan = PlanRead /\ run.loaded \in Seq(Receipt)
  BY PlanReadType DEF IInv, PlanIsRead, Run
<1>2. ~ReceiptMatches(r, KeyRead, ProgramRead.obligation.id) /\ r \in Range(run.loaded)
  BY <1>1 DEF ReceiptMatches, Range
<1>3. ~Ambiguous(run.loaded, run.mode)
  BY DEF Ambiguous
<1>4. "RECEIPT_PROOF_KEY_STALE" \in unknown
  BY <1>2, <1>3 DEF Unknown, ReceiptUnknown, Claim
<1>5. plan.decision = Reduce(unknown, refuted)
  BY <1>1 DEF PlanRead, PlanFor, Decision
<1> HIDE DEF unknown, refuted
<1> QED BY <1>4, <1>5 DEF Reduce

\* An incremental run finds nothing unknown about its one own PASS receipt, when
\* that has the schema of the code.
LEMMA OwnHonoured == IInv /\ ReadSoFar /\ OwnInv => IssuedProofHonoured
<1> SUFFICES ASSUME IInv, ReadSoFar, OwnInv, pc = "emit", run.mode = "incremental",
                    Len(ProgramRead.refs) = 1, Len(run.loaded) = 1, Own(run.loaded[1]),
                    run.loaded[1].state = "PASS",
                    run.loaded[1].schema = ReceiptSchemaV1, run.loaded[1].key = KeyRead
             PROVE  plan.decision # "UNKNOWN"
  BY OtherSchemaBlocks DEF IssuedProofHonoured
<1> DEFINE r == run.loaded[1]
<1>1. plan = PlanRead /\ run.loaded \in Seq(Receipt)
  BY PlanReadType DEF IInv, PlanIsRead, Run
<1>2. IssuedFor(r, run.source)
  BY OwnReceiptSpeaksOfThisSource DEF IInv
<1>3. ReceiptMatches(r, KeyRead, ProgramRead.obligation.id)
  BY <1>2 DEF IssuedFor, ReceiptMatches, ProgramRead, Digest, NoDigest
<1>4. ~run.missing
  BY DEF ReadSoFar
<1>5. Range(run.loaded) = {r}
  BY <1>1 DEF Range
<1>6. ReceiptUnknown(ProgramRead, KeyRead, run.loaded, run.missing, run.mode) = {}
  <2>1. ProgramRead.refs # <<>>
    OBVIOUS
  <2>2. ~Ambiguous(run.loaded, run.mode)
    BY DEF Ambiguous
  <2> HIDE DEF r
  <2> QED BY <1>3, <1>4, <1>5, <2>1, <2>2 DEF ReceiptUnknown, Claim, r
<1>7. ValidationUnknown(ProgramRead) = {}
  BY <1>2 DEF IssuedFor, ValidationUnknown, Claim, ProgramRead
<1> DEFINE unknown == Unknown(ProgramRead, KeyRead, run.loaded, run.missing, run.mode)
           refuted == Refuted(run.meta, ProgramRead, run.loaded, run.mode)
<1>8. unknown = {}
  BY <1>6, <1>7 DEF Unknown
<1>9. plan.decision = Reduce(unknown, refuted)
  BY <1>1 DEF PlanRead, PlanFor, Decision
<1> HIDE DEF unknown, refuted
<1> QED BY <1>8, <1>9 DEF Reduce

\* However own receipts are copied about, reusing one never fails the digest
\* check that Run only reports.
THEOREM OwnReceiptsVerify == Spec => []OwnReceiptVerifies
<1> QED BY InitInv, StepInv, InitOwn, StepOwn, OwnVerifies, PTL DEF Spec

\* And a PASS that a run wrote lets a later incremental run of the same source,
\* contract and fixture go on.
THEOREM IssuedProofsAreHonoured == Spec => []IssuedProofHonoured
<1>1. IInv => TypeOK
  BY DEF IInv
<1> QED BY <1>1, InitInv, StepInv, InitReadSoFar, StepReadSoFar, InitOwn, StepOwn, OwnHonoured, PTL DEF Spec

-----------------------------------------------------------------------------
(* Nothing comes from nothing. *)

\* No PASS receipt comes from outside, and every program names a receipt.
NothingCertified ==
  /\ \A r \in ExternalReceipts : r.state # "PASS"
  /\ \A s \in Sources : ProgramOf[s] \in Program => ProgramOf[s].refs # <<>>

\* No run has written a PASS receipt.
NoPassFromNothing == emitted # NoReceipt => emitted.state # "PASS"

NoPassInv ==
  /\ \A r \in ReceiptsAround : r \in Receipt => r.state # "PASS"
  /\ pc = "emit" => plan.decision # "CLOSED"

\* A CLOSED decision has found every receipt it looked for, and each a PASS.
LEMMA ClosedNeedsPass ==
  ASSUME NEW m, NEW program, NEW key, NEW loaded, NEW missing, NEW mode,
         Decision(m, program, key, loaded, missing, mode) = "CLOSED"
  PROVE  ~missing /\ \A r \in Range(loaded) : r.state = "PASS"
<1> DEFINE unknown == Unknown(program, key, loaded, missing, mode)
           refuted == Refuted(m, program, loaded, mode)
<1>1. unknown = {} /\ refuted = {}
  <2>1. Reduce(unknown, refuted) = "CLOSED"
    BY DEF Decision
  <2> HIDE DEF unknown, refuted
  <2> QED BY <2>1, ClosedMeansNothingElse
<1>2. ReceiptUnknown(program, key, loaded, missing, mode) = {} /\ ReceiptRefuted(loaded, mode) = {}
  BY <1>1 DEF Unknown, Refuted
<1>3. ~missing /\ ~Ambiguous(loaded, mode)
  BY <1>2 DEF ReceiptUnknown, Claim
<1>4. \A r \in Range(loaded) : r.state \in {"PASS", "FAIL"}
  BY <1>2, <1>3 DEF ReceiptUnknown, Claim
<1>5. \A r \in Range(loaded) : r.state # "FAIL"
  BY <1>2, <1>3 DEF ReceiptRefuted, Claim
<1> QED BY <1>3, <1>4, <1>5

\* With no PASS anywhere and a receipt to look for, no decision is CLOSED.
LEMMA DecideNotClosed ==
  ASSUME NothingCertified, TypeOK, ReadSoFar, NoPassInv, Decide
  PROVE  PlanRead.decision # "CLOSED"
<1> SUFFICES ASSUME PlanRead.decision = "CLOSED" PROVE FALSE
  OBVIOUS
<1>1. pc = "receipts" /\ run # NoRun
  BY DEF Decide, TypeOK, RunOK
<1>2. run \in Run /\ ProgramRead \in Program /\ run.source \in Sources
  BY <1>1, PlanReadType DEF TypeOK, RunOK
<1>3. ~run.missing /\ \A r \in Range(run.loaded) : r.state = "PASS"
  BY ClosedNeedsPass DEF PlanRead, PlanFor
<1>4. run.loaded \in Seq(Receipt) /\ ProgramRead.refs \in Seq(Refs) /\ run.next \in Nat
  BY <1>2 DEF Run, Program
<1>5. Len(run.loaded) # 0
  <2>1. ProgramRead.refs # <<>>
    BY <1>2 DEF NothingCertified, ProgramRead
  <2>2. Len(ProgramRead.refs) \in Nat \ {0}
    BY <1>4, <2>1
  <2>3. ~(run.next <= Len(ProgramRead.refs))
    BY DEF Decide, MoreReceipts
  <2>4. ~(Len(run.loaded) + 1 < run.next)
    BY <1>1, <1>3 DEF ReadSoFar
  <2>5. Len(run.loaded) \in Nat
    BY <1>4
  <2> QED BY <1>4, <2>2, <2>3, <2>4, <2>5
<1>6. run.loaded[1] \in Range(run.loaded) /\ run.loaded[1] \in Receipt
  BY <1>4, <1>5 DEF Range
<1>7. run.loaded[1].state # "PASS"
  BY <1>1, <1>6 DEF NoPassInv, ReceiptsAround
<1> QED BY <1>3, <1>6, <1>7

\* A chain of reuse has to start outside: without a certified PASS receipt no run
\* of a program that names receipts ever writes one, in whatever mode.
THEOREM NothingFromNothing ==
  ASSUME NothingCertified
  PROVE  Spec => []NoPassFromNothing
<1> DEFINE Inv == TypeOK /\ ReadSoFar /\ NoPassInv
<1>1. Init => Inv
  <2> SUFFICES ASSUME Init PROVE Inv
    OBVIOUS
  <2>1. Range(store) \subseteq ExternalReceipts \union {Missing}
    BY DEF Init, Range
  <2>2. NoPassInv
    BY <2>1, MarksAssumption DEF Init, NoPassInv, ReceiptsAround, NothingCertified
  <2> QED BY <2>2, InitType, InitReadSoFar
<1>2. Inv /\ [Next]_vars => Inv'
  <2> SUFFICES ASSUME Inv, [Next]_vars PROVE Inv'
    OBVIOUS
  <2>1. TypeOK' /\ ReadSoFar'
    BY StepType, StepReadSoFar
  <2>2. ASSUME NEW r \in ReceiptsAround', r \in Receipt
        PROVE  r.state # "PASS"
    <3>1. CASE r \in ReceiptsAround \union ExternalReceipts
      BY <2>2, <3>1 DEF NoPassInv, NothingCertified
    <3>2. CASE EmitReceipt /\ r = ResultReceipt(run.meta, plan)
      <4>1. plan.decision # "CLOSED" /\ plan \in Plan
        BY <3>2 DEF EmitReceipt, NoPassInv, TypeOK, RunOK
      <4> QED BY <3>2, <4>1 DEF ResultReceipt, ReceiptState, Plan
    <3> QED BY <2>2, <3>1, <3>2, ReceiptsMove
  <2>3. (pc = "emit" => plan.decision # "CLOSED")'
    <3>1. CASE Decide
      BY <3>1, DecideNotClosed DEF Decide
    <3>2. CASE ~Decide
      BY <3>2, PlanStays DEF NoPassInv
    <3> QED BY <3>1, <3>2
  <2> QED BY <2>1, <2>2, <2>3 DEF NoPassInv, Receipt
<1>3. Inv => NoPassFromNothing
  BY DEF NoPassInv, NoPassFromNothing, TypeOK, ReceiptsAround
<1> QED BY <1>1, <1>2, <1>3, PTL DEF Spec

\* A CLOSED plan was made of receipts that were all there and all PASS.
LEMMA ClosedPlanIsProved == IInv /\ ReadSoFar => ClosureNeedsEveryReceipt
<1> SUFFICES ASSUME IInv, ReadSoFar, pc = "emit", plan.decision = "CLOSED"
             PROVE  /\ Len(run.loaded) = Len(ProgramRead.refs)
                    /\ \A r \in Range(run.loaded) : r.state = "PASS"
  BY DEF ClosureNeedsEveryReceipt
<1>1. plan = PlanRead /\ run \in Run /\ ProgramRead \in Program
  BY PlanReadType DEF IInv, PlanIsRead
<1>2. ~run.missing /\ \A r \in Range(run.loaded) : r.state = "PASS"
  BY <1>1, ClosedNeedsPass DEF PlanRead, PlanFor
<1>3. Len(run.loaded) \in Nat /\ Len(ProgramRead.refs) \in Nat
  BY <1>1 DEF Run, Program
<1>4. Len(run.loaded) < run.next /\ ~(Len(run.loaded) + 1 < run.next)
        /\ run.next = Len(ProgramRead.refs) + 1
  BY <1>2 DEF ReadSoFar
<1> QED BY <1>2, <1>3, <1>4

\* Closure takes every receipt the program names, in either mode.
THEOREM ClosureNeedsAllReceipts == Spec => []ClosureNeedsEveryReceipt
<1>1. IInv => TypeOK
  BY DEF IInv
<1> QED BY <1>1, InitInv, StepInv, InitReadSoFar, StepReadSoFar, ClosedPlanIsProved, PTL DEF Spec

-----------------------------------------------------------------------------
(* An undisturbed run *)

\* One more file that is there goes to the end of a selection, one that is not
\* leaves it as it is.
LEMMA SelectionGrows ==
  ASSUME NEW n \in Nat, NEW read, DOMAIN read = 1 .. n + 1, NEW R, NEW loaded \in Seq(R),
         IsSelection(loaded, [i \in 1 .. n |-> read[i]])
  PROVE  /\ read[n + 1] = Missing => IsSelection(loaded, read)
         /\ read[n + 1] # Missing /\ read[n + 1] \in R =>
              IsSelection(Append(loaded, read[n + 1]), read)
<1> DEFINE front == {i \in 1 .. n : read[i] # Missing}
           whole == {i \in 1 .. n + 1 : read[i] # Missing}
<1>1. Len(loaded) = Cardinality(front) /\ \A i \in front : loaded[Cardinality(front \cap 1 .. i)] = read[i]
  <2>1. DOMAIN [i \in 1 .. n |-> read[i]] = 1 .. n
    OBVIOUS
  <2>2. \A i \in 1 .. n : [j \in 1 .. n |-> read[j]][i] = read[i]
    OBVIOUS
  <2>3. {i \in DOMAIN [j \in 1 .. n |-> read[j]] : [j \in 1 .. n |-> read[j]][i] # Missing} = front
    BY <2>1, <2>2
  <2> QED BY <2>2, <2>3 DEF IsSelection
<1>2. 1 .. n + 1 = 1 .. n \union {n + 1} /\ n + 1 \notin 1 .. n
  OBVIOUS
<1>3. IsFiniteSet(front) /\ front \subseteq 1 .. n
  <2>1. IsFiniteSet(1 .. n)
    BY FS_Interval
  <2> QED BY <2>1, FS_Subset
<1>4. ASSUME read[n + 1] = Missing
      PROVE  IsSelection(loaded, read)
  <2>1. whole = front
    BY <1>2, <1>4
  <2> QED BY <1>1, <2>1 DEF IsSelection
<1>5. ASSUME read[n + 1] # Missing, read[n + 1] \in R
      PROVE  IsSelection(Append(loaded, read[n + 1]), read)
  <2> DEFINE more == Append(loaded, read[n + 1])
  <2>1. whole = front \union {n + 1} /\ n + 1 \notin front
    BY <1>2, <1>5
  <2>2. /\ Len(more) = Len(loaded) + 1 /\ more[Len(loaded) + 1] = read[n + 1]
        /\ \A i \in 1 .. Len(loaded) : more[i] = loaded[i]
    BY <1>5, AppendFacts
  <2> HIDE DEF front, whole, more
  <2>3. Cardinality(whole) = Cardinality(front) + 1
    BY <1>3, <2>1, FS_AddElement
  <2>4. ASSUME NEW i \in front
        PROVE  more[Cardinality(whole \cap 1 .. i)] = read[i]
    <3>1. i \in 1 .. n /\ i \in Nat
      BY <1>3
    <3>2. whole \cap 1 .. i = front \cap 1 .. i
      BY <2>1, <3>1
    <3>3. i \in front \cap 1 .. i
      BY <3>1
    <3>4. /\ IsFiniteSet(front \cap 1 .. i)
          /\ Cardinality(front \cap 1 .. i) <= Cardinality(front)
      BY <1>3, FS_Subset
    <3>5. Cardinality(front \cap 1 .. i) \in 1 .. Cardinality(front)
      <4>1. Cardinality(front \cap 1 .. i) \in Nat /\ Cardinality(front) \in Nat
        BY <1>3, <3>4, FS_CardinalityType
      <4>2. Cardinality(front \cap 1 .. i) # 0
        BY <3>3, <3>4, FS_EmptySet
      <4> QED BY <3>4, <4>1, <4>2
    <3> QED BY <1>1, <2>2, <3>2, <3>5
  <2>5. more[Cardinality(whole \cap 1 .. n + 1)] = read[n + 1]
    <3>1. whole \cap 1 .. n + 1 = whole
      BY <1>2, <1>3, <2>1
    <3> QED BY <1>1, <2>2, <2>3, <3>1
  <2>6. \A i \in whole : more[Cardinality(whole \cap 1 .. i)] = read[i]
    BY <2>1, <2>4, <2>5
  <2>7. Len(more) = Cardinality(whole)
    BY <1>1, <2>2, <2>3
  <2> QED BY <2>6, <2>7 DEF IsSelection, more, whole
<1> QED BY <1>4, <1>5

\* Nothing is selected from nothing.
LEMMA NothingSelected ==
  ASSUME NEW loaded, Len(loaded) = 0, NEW read, DOMAIN read = {}
  PROVE  IsSelection(loaded, read) /\ Missing \notin Range(read)
BY FS_EmptySet DEF IsSelection, Range

\* The files behind the first references of the program, as they are now.
ReadNow == [i \in 1 .. run.next - 1 |-> store[ProgramRead.refs[i]]]

\* What an undisturbed run has read is what the files hold now.
QuietRead ==
  quiet =>
    /\ HasMeta => run.meta = meta
    /\ HasContract => run.contract = contract
    /\ HasSource => run.source = source
    /\ HasFixture =>
         /\ run.fixture = FixtureOf(ProgramRead)
         /\ IsSelection(run.loaded, ReadNow)
         /\ run.missing <=> Missing \in Range(ReadNow)

\* Reading one more receipt of undisturbed files keeps it so.
LEMMA LoadReceiptQuiet ==
  ASSUME TypeOK, QuietRead, LoadReceipt
  PROVE  QuietRead'
<1> SUFFICES ASSUME quiet PROVE QuietRead'
  BY DEF QuietRead, LoadReceipt
<1>1. pc = "receipts" /\ pc' = "receipts" /\ UNCHANGED <<meta, source, contract, fixtures, store>>
  BY DEF LoadReceipt, files
<1>2. /\ run \in Run /\ run.next \in 1 .. Len(ProgramRead.refs) /\ run'.next = run.next + 1
      /\ run'.meta = run.meta /\ run'.contract = run.contract
      /\ run'.source = run.source /\ run'.fixture = run.fixture
  BY LoadReceiptReads
<1>3. ProgramRead' = ProgramRead /\ FixtureOf(ProgramRead)' = FixtureOf(ProgramRead)
  BY <1>1, <1>2 DEF ProgramRead, FixtureOf
<1>4. /\ run.meta = meta /\ run.contract = contract /\ run.source = source
      /\ run.fixture = FixtureOf(ProgramRead)
      /\ IsSelection(run.loaded, ReadNow) /\ (run.missing <=> Missing \in Range(ReadNow))
  BY <1>1 DEF QuietRead
<1>5. run.next \in Nat \ {0} /\ run.loaded \in Seq(Receipt)
  BY <1>2 DEF Run
<1>6. PICK n \in Nat : run.next = n + 1
  <2>1. run.next - 1 \in Nat /\ run.next = (run.next - 1) + 1
    BY <1>5
  <2> QED BY <2>1
<1> DEFINE read == [i \in 1 .. n + 1 |-> store[ProgramRead.refs[i]]]
           file == store[ProgramRead.refs[run.next]]
<1>7. ReadNow' = read /\ ReadNow = [i \in 1 .. n |-> read[i]]
  <2>1. run'.next - 1 = n + 1 /\ run.next - 1 = n
    BY <1>2, <1>6
  <2>2. 1 .. n \subseteq 1 .. n + 1
    OBVIOUS
  <2> QED BY <1>1, <1>3, <2>1, <2>2 DEF ReadNow
<1>8. DOMAIN read = 1 .. n + 1 /\ read[n + 1] = file
  BY <1>6
<1>9. Missing \in Range(read) <=> Missing \in Range(ReadNow) \/ file = Missing
  <2>1. 1 .. n + 1 = 1 .. n \union {n + 1}
    OBVIOUS
  <2>2. DOMAIN ReadNow = 1 .. n /\ \A i \in 1 .. n : ReadNow[i] = read[i]
    BY <1>7
  <2> HIDE DEF read, file
  <2> QED BY <1>8, <2>1, <2>2 DEF Range
<1>10. \/ file = Missing /\ run'.missing /\ run'.loaded = run.loaded
       \/ /\ file \in Receipt /\ file # Missing
          /\ run'.loaded = Append(run.loaded, file) /\ run'.missing = run.missing
  BY LoadReceiptReads
<1> HIDE DEF read, file
<1>11. IsSelection(run'.loaded, read)
  BY <1>4, <1>5, <1>7, <1>8, <1>10, SelectionGrows
<1>12. run'.missing <=> Missing \in Range(read)
  BY <1>4, <1>9, <1>10
<1>13. IsSelection(run.loaded, ReadNow)' /\ (Missing \in Range(ReadNow))' = (Missing \in Range(read))
  BY <1>7, <1>11 DEF IsSelection
<1> QED BY <1>1, <1>2, <1>3, <1>4, <1>12, <1>13 DEF QuietRead

\* An edit of what was not read yet leaves what was read as it is.
LEMMA EnvironmentQuiet ==
  ASSUME TypeOK, ReadSoFar, QuietRead, Environment
  PROVE  QuietRead'
<1> SUFFICES ASSUME quiet' PROVE QuietRead'
  BY DEF QuietRead
<1>1. quiet /\ UNCHANGED <<pc, run>>
  BY EditFacts
<1>2. /\ HasMeta => run.meta = meta
      /\ HasContract => run.contract = contract
      /\ HasSource => run.source = source
      /\ HasFixture =>
           /\ run.fixture = FixtureOf(ProgramRead)
           /\ IsSelection(run.loaded, ReadNow)
           /\ run.missing <=> Missing \in Range(ReadNow)
  BY <1>1 DEF QuietRead
<1>read. ProgramRead' = ProgramRead
  BY <1>1 DEF ProgramRead
<1>3. CASE EditMeta
  <2>1. ~HasMeta
    BY <1>1, <1>3, Zenon DEF EditMeta, Edit
  <2> QED BY <1>1, <2>1 DEF QuietRead
<1>4. CASE EditContract
  <2>1. ~HasContract
    BY <1>1, <1>4, Zenon DEF EditContract, Edit
  <2>2. UNCHANGED meta
    BY <1>4 DEF EditContract
  <2> QED BY <1>1, <1>2, <2>1, <2>2 DEF QuietRead
<1>5. CASE EditSource
  <2>1. ~HasSource
    BY <1>1, <1>5, Zenon DEF EditSource, Edit
  <2>2. UNCHANGED <<meta, contract>>
    BY <1>5 DEF EditSource
  <2> QED BY <1>1, <1>2, <2>1, <2>2 DEF QuietRead
<1>6. ASSUME NEW path \in Paths, EditFixture(path) PROVE QuietRead'
  <2>1. ~(HasFixture /\ path = ProgramRead.obligation.fixture)
    BY <1>1, <1>6, Zenon DEF EditFixture, Edit
  <2>2. UNCHANGED <<meta, source, contract, store>>
    BY <1>6 DEF EditFixture
  <2>3. PICK content : fixtures' = [fixtures EXCEPT ![path] = content]
    BY <1>6 DEF EditFixture
  <2>4. HasFixture => FixtureOf(ProgramRead)' = FixtureOf(ProgramRead)
    <3>1. fixtures \in [Paths -> Contents \union {Missing}]
      BY DEF TypeOK, FilesOK
    <3> QED BY <1>read, <2>1, <2>3, <3>1 DEF FixtureOf
  <2>5. ReadNow' = ReadNow
    BY <1>1, <1>read, <2>2 DEF ReadNow
  <2>6. IsSelection(run.loaded, ReadNow)' = IsSelection(run.loaded, ReadNow)
          /\ (Missing \in Range(ReadNow))' = (Missing \in Range(ReadNow))
    BY <1>1, <2>5 DEF IsSelection
  <2> QED BY <1>1, <1>2, <2>2, <2>4, <2>6 DEF QuietRead
<1>7. ASSUME NEW ref \in Refs, PutReceipt(ref) \/ PublishReceipt(ref) PROVE QuietRead'
  <2>1. ~HasReceipt(ref)
    BY <1>1, <1>7, Zenon DEF PutReceipt, PublishReceipt, Edit
  <2>2. UNCHANGED <<meta, source, contract, fixtures>>
    BY <1>7 DEF PutReceipt, PublishReceipt
  <2>3. \A other \in Refs \ {ref} : store'[other] = store[other]
    <3>1. store \in [Refs -> Receipt \union {Missing, Corrupt}]
      BY DEF TypeOK, FilesOK
    <3>2. PICK r : store' = [store EXCEPT ![ref] = r]
      BY <1>7 DEF PutReceipt, PublishReceipt
    <3> QED BY <3>1, <3>2
  <2>4. HasFixture => ReadNow' = ReadNow
    <3> SUFFICES ASSUME HasFixture PROVE ReadNow' = ReadNow
      OBVIOUS
    <3>1. run \in Run /\ ProgramRead \in Program
      BY DEF TypeOK, RunOK
    <3>2. run.next - 1 <= Len(ProgramRead.refs) /\ run.next \in Nat \ {0}
      BY <3>1 DEF ReadSoFar, Run
    <3>3. \A i \in 1 .. run.next - 1 : ProgramRead.refs[i] \in Refs \ {ref}
      BY <2>1, <3>1, <3>2 DEF HasReceipt, Program
    <3> QED BY <1>1, <1>read, <2>3, <3>3 DEF ReadNow
  <2>5. HasFixture =>
          /\ FixtureOf(ProgramRead)' = FixtureOf(ProgramRead)
          /\ IsSelection(run.loaded, ReadNow)' = IsSelection(run.loaded, ReadNow)
          /\ (Missing \in Range(ReadNow))' = (Missing \in Range(ReadNow))
    BY <1>1, <1>read, <2>2, <2>4 DEF IsSelection, FixtureOf
  <2> QED BY <1>1, <1>2, <2>2, <2>5 DEF QuietRead
<1> QED BY <1>3, <1>4, <1>5, <1>6, <1>7 DEF Environment

\* So does every other step.
LEMMA StepQuietRead == TypeOK /\ ReadSoFar /\ QuietRead /\ [Next]_vars => QuietRead'
<1> SUFFICES ASSUME TypeOK, ReadSoFar, QuietRead, [Next]_vars PROVE QuietRead'
  OBVIOUS
<1>same. ASSUME run' = run, files' = files
       PROVE  /\ FixtureOf(ProgramRead)' = FixtureOf(ProgramRead)
              /\ IsSelection(run.loaded, ReadNow)' = IsSelection(run.loaded, ReadNow)
              /\ (Missing \in Range(ReadNow))' = (Missing \in Range(ReadNow))
  <2>1. ReadNow' = ReadNow /\ FixtureOf(ProgramRead)' = FixtureOf(ProgramRead)
    BY <1>same DEF files, ReadNow, ProgramRead, FixtureOf
  <2> QED BY <1>same, <2>1 DEF IsSelection
<1>1. CASE \E mode \in {"", "full", "incremental"} : Start(mode)
  BY <1>1 DEF Start, QuietRead
<1>2. CASE LoadMeta
  <2>1. run \in Run
    BY <1>2 DEF LoadMeta, TypeOK, RunOK
  <2>2. run'.meta = meta
    BY <1>2, <2>1 DEF LoadMeta, Run
  <2> QED BY <1>2, <2>2 DEF LoadMeta, QuietRead, files
<1>3. CASE DigestContract
  <2>1. run \in Run
    BY <1>3 DEF DigestContract, TypeOK, RunOK
  <2>2. run'.contract = contract /\ run'.meta = run.meta
    BY <1>3, <2>1 DEF DigestContract, Run
  <2> QED BY <1>3, <2>2 DEF DigestContract, QuietRead, files
<1>4. CASE ParseContract
  BY <1>4 DEF ParseContract, QuietRead, files
<1>5. CASE LoadProgram
  <2>1. run \in Run
    BY <1>5 DEF LoadProgram, TypeOK, RunOK
  <2>2. run'.source = source /\ run'.contract = run.contract /\ run'.meta = run.meta
    BY <1>5, <2>1 DEF LoadProgram, Run
  <2> QED BY <1>5, <2>2 DEF LoadProgram, QuietRead, files
<1>6. CASE DigestFixture
  <2>1. run \in Run /\ pc = "fixture" /\ pc' = "receipts"
    BY <1>6 DEF DigestFixture, TypeOK, RunOK
  <2>2. /\ run'.fixture = FixtureOf(ProgramRead) /\ run'.source = run.source
        /\ run'.contract = run.contract /\ run'.meta = run.meta
        /\ run'.next = run.next /\ run'.loaded = run.loaded /\ run'.missing = run.missing
    <3> DEFINE content == FixtureOf(ProgramRead)
    <3>1. run' = [run EXCEPT !.fixture = content]
      BY <1>6 DEF DigestFixture
    <3> HIDE DEF content
    <3> QED BY <2>1, <3>1 DEF Run, content
  <2>3. ProgramRead' = ProgramRead /\ FixtureOf(ProgramRead)' = FixtureOf(ProgramRead)
    BY <1>6, <2>2 DEF DigestFixture, ProgramRead, FixtureOf, files
  <2>4. run.next = 1 /\ Len(run.loaded) = 0 /\ ~run.missing
    BY <2>1 DEF ReadSoFar
  <2>5. DOMAIN ReadNow' = {}
    BY <2>2, <2>4 DEF ReadNow
  <2>6. IsSelection(run'.loaded, ReadNow') /\ Missing \notin Range(ReadNow')
    BY <2>2, <2>4, <2>5, NothingSelected
  <2>7. IsSelection(run.loaded, ReadNow)' /\ ~(Missing \in Range(ReadNow))'
    BY <2>6 DEF IsSelection, Range
  <2> QED BY <1>6, <2>1, <2>2, <2>3, <2>4, <2>7 DEF DigestFixture, QuietRead, files
<1>7. CASE LoadReceipt
  BY <1>7, LoadReceiptQuiet
<1>8. CASE Decide
  <2>1. pc = "receipts" /\ run' = run /\ files' = files /\ quiet' = quiet
    BY <1>8 DEF Decide
  <2> QED BY <2>1, <1>same DEF QuietRead, files
<1>9. CASE EmitReceipt \/ End
  BY <1>9 DEF EmitReceipt, End, QuietRead
<1>10. CASE Environment
  BY <1>10, EnvironmentQuiet
<1>11. CASE UNCHANGED vars
  <2>1. pc' = pc /\ run' = run /\ files' = files /\ quiet' = quiet
    BY <1>11 DEF vars
  <2> QED BY <2>1, <1>same DEF QuietRead, files
<1> QED BY <1>1, <1>2, <1>3, <1>4, <1>5, <1>6, <1>7, <1>8, <1>9, <1>10, <1>11
        DEF Next, RunStep, ReturnError, Crash

\* An undisturbed plan is the plan of the files as they are.
LEMMA QuietPlan == IInv /\ ReadSoFar /\ QuietRead => QuietRunIsAtomic
<1> SUFFICES ASSUME IInv, ReadSoFar, QuietRead, pc = "emit", quiet PROVE QuietRunIsAtomic
  BY DEF QuietRunIsAtomic
<1> DEFINE program == ProgramOf[source]
           read    == [i \in DOMAIN program.refs |-> store[program.refs[i]]]
<1>1. plan = PlanRead /\ run \in Run /\ ProgramRead \in Program
  BY PlanReadType DEF IInv, PlanIsRead
<1>2. /\ run.meta = meta /\ run.contract = contract /\ run.source = source
      /\ run.fixture = FixtureOf(ProgramRead)
      /\ IsSelection(run.loaded, ReadNow) /\ (run.missing <=> Missing \in Range(ReadNow))
  BY DEF QuietRead
<1>3. ProgramRead = program
  BY <1>2 DEF ProgramRead
<1>4. ReadNow = read
  <2>1. run.next - 1 = Len(program.refs) /\ DOMAIN program.refs = 1 .. Len(program.refs)
    BY <1>1, <1>3 DEF ReadSoFar, Program
  <2> QED BY <1>3, <2>1 DEF ReadNow
<1>5. run.missing = (Missing \in Range(read))
  BY <1>1, <1>2, <1>4 DEF Run
<1>6. plan = PlanFor(run.meta, program, KeyOf(run.source, run.contract, run.fixture), run.loaded,
                    run.missing, run.mode)
  BY <1>1, <1>3 DEF PlanRead, KeyRead
<1> HIDE DEF read
<1>7. plan = PlanFor(meta, program, KeyOf(source, contract, FixtureOf(program)), run.loaded,
                    Missing \in Range(read), run.mode)
  BY <1>2, <1>3, <1>5, <1>6
<1> QED BY <1>2, <1>4, <1>7 DEF QuietRunIsAtomic, read

\* A run behind whose back nothing changed plans as if it had read all files at once.
THEOREM QuietRunsAreAtomic == Spec => []QuietRunIsAtomic
<1>1. Init => QuietRead
  BY DEF Init, QuietRead
<1>2. IInv => TypeOK
  BY DEF IInv
<1> QED BY <1>1, <1>2, InitInv, StepInv, InitReadSoFar, StepReadSoFar, StepQuietRead, QuietPlan, PTL DEF Spec

-----------------------------------------------------------------------------
(* The policy of reuse, complete *)

\* Nothing is wrong with the program, no path leads to the obligation, and one
\* receipt was found, that matches.
LicensedAsRead(m, program, key, loaded, missing, mode) ==
  /\ mode = "incremental"
  /\ ValidationUnknown(program) = {} /\ ValidationRefuted(m, program) = {}
  /\ GraphRefuted(program) = {} /\ ~PathToTarget(program)
  /\ program.refs # <<>> /\ ~missing
  /\ Len(loaded) = 1
  /\ loaded[1].state = "PASS"
  /\ ReceiptMatches(loaded[1], key, program.obligation.id)

\* A plan reuses exactly when what was read licenses it.
LEMMA ReuseExactly ==
  ASSUME NEW m, NEW program, NEW key, NEW R, NEW loaded \in Seq(R), NEW missing, NEW mode
  PROVE  PlanFor(m, program, key, loaded, missing, mode).action = "REUSED"
           <=> LicensedAsRead(m, program, key, loaded, missing, mode)
<1> DEFINE unknown  == Unknown(program, key, loaded, missing, mode)
           refuted  == Refuted(m, program, loaded, mode)
           decision == Reduce(unknown, refuted)
           path     == PathToTarget(program)
           action   == Action(decision, mode, loaded, path)
           doubts   == ReceiptUnknown(program, key, loaded, missing, mode)
<1>1. PlanFor(m, program, key, loaded, missing, mode).action = action
  BY DEF PlanFor, Decision
<1>2. action = "REUSED" <=>
        unknown = {} /\ refuted = {} /\ mode = "incremental" /\ Len(loaded) = 1 /\ ~path
  <2> HIDE DEF unknown, refuted, path
  <2>1. decision \in {"CLOSED", "UNKNOWN", "REFUTED"}
          /\ (decision = "CLOSED" <=> unknown = {} /\ refuted = {})
    BY ClosedMeansNothingElse
  <2> HIDE DEF decision
  <2> QED BY <2>1 DEF Action
<1>3. unknown = {} /\ refuted = {} <=>
        /\ ValidationUnknown(program) = {} /\ doubts = {}
        /\ ValidationRefuted(m, program) = {} /\ GraphRefuted(program) = {}
        /\ ReceiptRefuted(loaded, mode) = {}
  BY DEF Unknown, Refuted
<1>4. ASSUME mode = "incremental", Len(loaded) = 1
      PROVE  doubts = {} /\ ReceiptRefuted(loaded, mode) = {} <=>
               /\ program.refs # <<>> /\ ~missing
               /\ loaded[1].state = "PASS"
               /\ ReceiptMatches(loaded[1], key, program.obligation.id)
  <2> DEFINE r == loaded[1]
  <2>1. Range(loaded) = {r} /\ ~Ambiguous(loaded, mode)
    BY <1>4 DEF Range, Ambiguous
  <2> HIDE DEF r
  <2>2. doubts = {} <=>
          /\ ~missing /\ program.refs # <<>>
          /\ r.state \in {"PASS", "FAIL"}
          /\ ~(r.state = "PASS" /\ ~ReceiptMatches(r, key, program.obligation.id))
    BY <1>4, <2>1 DEF ReceiptUnknown, Claim
  <2>3. ReceiptRefuted(loaded, mode) = {} <=> r.state # "FAIL"
    BY <2>1 DEF ReceiptRefuted, Claim
  <2> QED BY <2>2, <2>3 DEF r
<1> HIDE DEF unknown, refuted, path, action, doubts
<1> QED BY <1>1, <1>2, <1>3, <1>4 DEF path, LicensedAsRead

\* The receipts that an undisturbed run has loaded are one exactly when the
\* program names one and its file is there; and then it is that file.
LEMMA OneReceiptRead ==
  ASSUME IInv, ReadSoFar, QuietRead, pc = "emit", quiet
  PROVE  LET refs == ProgramRead.refs
         IN  /\ (refs # <<>> /\ ~run.missing /\ Len(run.loaded) = 1)
                  <=> (Len(refs) = 1 /\ store[refs[1]] \in Receipt)
             /\ Len(refs) = 1 /\ ~run.missing =>
                  run.loaded \in Seq(Receipt) /\ run.loaded[1] = store[refs[1]]
<1> DEFINE refs == ProgramRead.refs
           file == store[refs[1]]
<1>1. run \in Run /\ ProgramRead \in Program
  BY PlanReadType DEF IInv
<1>2. refs \in Seq(Refs) /\ run.loaded \in Seq(Receipt) /\ run.missing \in BOOLEAN
  BY <1>1 DEF Program, Run
<1>3. Len(refs) \in Nat /\ Len(run.loaded) \in Nat /\ (refs # <<>> <=> Len(refs) # 0)
  <2> HIDE DEF refs
  <2> QED BY <1>2
<1>4. /\ run.next = Len(refs) + 1 /\ Len(run.loaded) < run.next
      /\ run.missing <=> Len(run.loaded) + 1 < run.next
      /\ IsSelection(run.loaded, ReadNow) /\ (run.missing <=> Missing \in Range(ReadNow))
  BY DEF ReadSoFar, QuietRead
<1>5. ASSUME Len(refs) = 1
      PROVE  /\ DOMAIN ReadNow = {1} /\ ReadNow[1] = file
             /\ run.missing <=> file = Missing
  <2>1. run.next - 1 = 1 /\ 1 .. 1 = {1}
    BY <1>4, <1>5
  <2>2. DOMAIN ReadNow = {1} /\ ReadNow[1] = file
    BY <2>1 DEF ReadNow
  <2>3. Range(ReadNow) = {file}
    BY <2>2 DEF Range
  <2> HIDE DEF file
  <2> QED BY <1>4, <2>2, <2>3
<1>6. ASSUME Len(refs) = 1, ~run.missing
      PROVE  run.loaded[1] = file
  <2>1. DOMAIN ReadNow = {1} /\ ReadNow[1] = file /\ file # Missing
    BY <1>5, <1>6
  <2> HIDE DEF file
  <2>2. {i \in DOMAIN ReadNow : ReadNow[i] # Missing} = {1} /\ {1} \cap 1 .. 1 = {1}
    BY <2>1
  <2>3. Cardinality({1}) = 1
    BY FS_Singleton
  <2> QED BY <1>4, <2>1, <2>2, <2>3 DEF IsSelection
<1>7. ASSUME refs # <<>>, ~run.missing, Len(run.loaded) = 1
      PROVE  Len(refs) = 1 /\ file \in Receipt
  <2>1. Len(refs) = 1
    <3> HIDE DEF refs
    <3> QED BY <1>3, <1>4, <1>7
  <2>2. run.loaded[1] \in Receipt
    BY <1>2, <1>7
  <2> QED BY <1>6, <1>7, <2>1, <2>2
<1>8. ASSUME Len(refs) = 1, file \in Receipt
      PROVE  refs # <<>> /\ ~run.missing /\ Len(run.loaded) = 1
  <2>1. ~run.missing
    BY <1>5, <1>8, MarksAssumption
  <2>2. refs # <<>>
    <3> HIDE DEF refs
    <3> QED BY <1>3, <1>8
  <2> HIDE DEF refs
  <2> DEFINE many == Len(run.loaded)
  <2>3. many \in Nat /\ many < 2 /\ ~(many + 1 < 2)
    BY <1>3, <1>4, <1>8, <2>1
  <2>4. many = 1
    <3> HIDE DEF many
    <3> QED BY <2>3
  <2> QED BY <2>1, <2>2, <2>4
<1> QED BY <1>2, <1>6, <1>7, <1>8

\* So the plan of an undisturbed run reuses exactly when the files license it.
LEMMA QuietPlanIsLicensed == IInv /\ ReadSoFar /\ QuietRead => ReuseIsLicensed
<1> SUFFICES ASSUME IInv, ReadSoFar, QuietRead, pc = "emit", quiet PROVE ReuseIsLicensed
  BY DEF ReuseIsLicensed
<1> DEFINE program == ProgramOf[source]
           key     == KeyOf(source, contract, FixtureOf(program))
<1>1. plan = PlanRead /\ run \in Run /\ run.loaded \in Seq(Receipt)
  BY PlanReadType DEF IInv, PlanIsRead, Run
<1>2. /\ run.meta = meta /\ run.contract = contract /\ run.source = source
      /\ run.fixture = FixtureOf(ProgramRead)
  BY DEF QuietRead
<1>3. ProgramRead = program /\ KeyRead = key
  BY <1>2 DEF ProgramRead, KeyRead
<1>4. plan = PlanFor(meta, program, key, run.loaded, run.missing, run.mode)
  BY <1>1, <1>2, <1>3 DEF PlanRead
<1> HIDE DEF program, key
<1>5. PICK loaded \in Seq(Receipt), missing \in BOOLEAN, mode \in {"full", "incremental"} :
        loaded = run.loaded /\ missing = run.missing /\ mode = run.mode
  BY <1>1 DEF Run
<1>6. plan.action = "REUSED" <=> LicensedAsRead(meta, program, key, loaded, missing, mode)
  <2>1. plan = PlanFor(meta, program, key, loaded, missing, mode)
    BY <1>4, <1>5
  <2> QED BY <2>1, ReuseExactly
<1>7. /\ (program.refs # <<>> /\ ~missing /\ Len(loaded) = 1)
           <=> (Len(program.refs) = 1 /\ store[program.refs[1]] \in Receipt)
      /\ Len(program.refs) = 1 /\ ~missing => loaded[1] = store[program.refs[1]]
  BY <1>3, <1>5, OneReceiptRead
<1>8. ASSUME Len(program.refs) = 1
      PROVE  store[program.refs[1]] \in Receipt <=> store[program.refs[1]] \notin {Missing, Corrupt}
  <2>1. program \in Program /\ store \in [Refs -> Receipt \union {Missing, Corrupt}]
    BY <1>3, PlanReadType DEF IInv, TypeOK, FilesOK
  <2>2. program.refs[1] \in Refs
    BY <1>8, <2>1 DEF Program
  <2> QED BY <2>1, <2>2, MarksAssumption
<1>9. plan.action = "REUSED" <=> run.mode = "incremental" /\ Licensed(meta, program, key)
  BY <1>5, <1>6, <1>7, <1>8 DEF Licensed, LicensedAsRead, ReceiptMatches
<1> QED BY <1>9 DEF ReuseIsLicensed, program, key

(* The policy of reuse in full: unless a file it has read was changed, a run *)
(* skips the test exactly when it is incremental, the program is valid and   *)
(* its graph whole, no declared change has a path to the obligation, and its *)
(* one reference is a PASS receipt for the obligation and the whole proof    *)
(* key of the files as they are (engine.go:88-105, 444-493).                 *)
THEOREM ReusesAreLicensed == Spec => []ReuseIsLicensed
<1>1. Init => QuietRead
  BY DEF Init, QuietRead
<1>2. IInv => TypeOK
  BY DEF IInv
<1> QED BY <1>1, <1>2, InitInv, StepInv, InitReadSoFar, StepReadSoFar, StepQuietRead,
           QuietPlanIsLicensed, PTL DEF Spec

-----------------------------------------------------------------------------
(* Why a run ends: a measure that each of its steps lowers. *)

\* How many kinds of files are still to be read, and the receipt to be written.
Stages == [idle |-> 0, emit |-> 1, receipts |-> 2, fixture |-> 3, source |-> 4, contract |-> 5,
           digest |-> 6, meta |-> 7]

RefsLeft == Len(ProgramRead.refs) + 1 - run.next

\* A file is read, or a receipt of those left; or somebody edits a file and the
\* run is where it was.
Advances ==
  \/ Stages[pc'] < Stages[pc]
  \/ pc = "receipts" /\ pc' = "receipts" /\ 0 <= RefsLeft' /\ RefsLeft' < RefsLeft
  \/ edits' = edits + 1 /\ UNCHANGED <<pc, run>>

\* The references are those of the source as it was read: no edit adds one.
LEMMA ReceiptAdvances == ASSUME TypeOK, LoadReceipt PROVE Advances
<1> DEFINE refs == ProgramRead.refs
           d == Len(refs)
           n == run.next
<1>1. n \in 1 .. d /\ run'.next = n + 1 /\ run'.source = run.source /\ run \in Run
  BY LoadReceiptReads
<1>2. pc = "receipts" /\ pc' = "receipts"
  BY DEF LoadReceipt
<1>3. ProgramRead' = ProgramRead
  BY <1>1 DEF ProgramRead
<1>4. d \in Nat
  <2>1. ProgramRead \in Program
    BY <1>2 DEF TypeOK, RunOK
  <2> QED BY <2>1 DEF Program
<1>5. RefsLeft = d + 1 - n /\ RefsLeft' = d + 1 - (n + 1)
  BY <1>1, <1>3 DEF RefsLeft
<1> HIDE DEF d, n
<1>6. 0 <= d + 1 - (n + 1) /\ d + 1 - (n + 1) < d + 1 - n
  BY <1>1, <1>4
<1> QED BY <1>2, <1>5, <1>6 DEF Advances

\* However the files change under it, a run that has started reads each of them
\* at most as often as its source says when it is read, and then ends: no step
\* takes it back (engine.go:45-86, 455-467).
THEOREM RunsAdvance == Spec => [][pc # "idle" => Advances]_vars
<1>1. TypeOK /\ [Next]_vars => [pc # "idle" => Advances]_vars
  <2> SUFFICES ASSUME TypeOK, Next, pc # "idle" PROVE Advances
    OBVIOUS
  <2>1. CASE LoadReceipt
    BY <2>1, ReceiptAdvances
  <2>2. CASE Environment
    BY <2>2, EditFacts DEF Advances
  <2>3. CASE LoadMeta \/ DigestContract \/ ParseContract \/ LoadProgram \/ DigestFixture
               \/ Decide \/ EmitReceipt
    <3>1. <<pc, pc'>> \in {<<"meta", "digest">>, <<"digest", "contract">>, <<"contract", "source">>,
                           <<"source", "fixture">>, <<"fixture", "receipts">>,
                           <<"receipts", "emit">>, <<"emit", "idle">>}
      BY <2>3 DEF LoadMeta, DigestContract, ParseContract, LoadProgram, DigestFixture, Decide,
                  EmitReceipt
    <3> QED BY <3>1 DEF Advances, Stages
  <2>4. CASE End
    <3>1. /\ pc \in {"meta", "digest", "contract", "source", "fixture", "receipts", "emit"}
          /\ pc' = "idle"
      BY <2>4 DEF End, TypeOK, RunOK
    <3> QED BY <3>1 DEF Advances, Stages
  <2> QED BY <2>1, <2>2, <2>3, <2>4 DEF Next, RunStep, ReturnError, Crash, Start
<1> QED BY <1>1, TypeCorrect, PTL DEF Spec
=============================================================================
