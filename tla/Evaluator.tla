----------------------------- MODULE Evaluator -----------------------------
(***************************************************************************)
(* engine.Run as a process among others.  A run reads the meta file, the   *)
(* contract (twice), the source, the fixture and the receipts one file at  *)
(* a time, decides, and writes a receipt for its own outcome.  Meanwhile,  *)
(* and between runs, people and jobs edit those files and copy the written *)
(* receipt into the store that later runs read.                            *)
(*                                                                         *)
(* The rest of what a run writes is in OutputDirectory; the pure functions *)
(* are in Planning.  Two ghost variables state the properties: proved, the *)
(* facts some run selected for execution or somebody outside certified,    *)
(* and quiet, which says that no file changed since the run read it.       *)
(***************************************************************************)
EXTENDS Planning, FiniteSets

CONSTANTS
  Text,              \* the words a source or a meta file is made of
  Metas,             \* the valid meta files, as records
  Sources,           \* the source files
  ProgramOf,         \* what ParseProgram makes of each source
  Contracts,         \* the contract files
  ValidContracts,    \* those validateContract accepts
  Paths, Contents,   \* fixture paths and the contents of fixture files
  Refs,              \* names of receipts in the receipts directory
  ExternalReceipts,  \* receipts that were not written by a run
  MaxRuns, MaxEdits, \* bounds on the runs and on the edits of a behaviour
  Malformed, Missing, Corrupt, NoReceipt, NoRun, NoPlan

Obligation == [id : Text, contract : Text, fixture : Paths, toolchain : Text, runner : Text]

\* A state or a decision may be any text; these are the ones the code compares with.
Word == Text \union {"", "PASS", "FAIL", "CLOSED", "UNKNOWN", "REFUTED"}

Meta == [namespace : Text, schema : Text, obligation : Obligation, forbidden : SUBSET Text]

Program ==
  [namespace : Text, obligation : Obligation, claims : SUBSET Text,
   edges : SUBSET (NodeName \X NodeName), impacts : SUBSET NodeName, refs : Seq(Refs),
   output : Text, effects : SUBSET Text, top : Word]

DigestsOf(S) == {Digest(x) : x \in S}

ProofKey ==
  [source : DigestsOf(Sources), contract : DigestsOf(Contracts),
   fixture : DigestsOf(Contents), toolchain : DigestsOf(Text), runner : DigestsOf(Text)]

Receipt ==
  [schema : Text, obligation : Text, state : Word, key : ProofKey,
   result : DigestsOf(Text) \union {NoDigest}]

\* Everything a run holds in memory before it decides.
Run ==
  [mode : {"full", "incremental"}, meta : Meta \union {Missing},
   contract : Contracts \union {Missing}, source : Sources \union {Missing},
   fixture : Contents \union {Missing}, loaded : Seq(Receipt), missing : BOOLEAN, next : Nat \ {0}]

Plan ==
  [mode : {"full", "incremental"}, obligation : Text, key : ProofKey,
   decision : {"CLOSED", "UNKNOWN", "REFUTED"},
   action : {"SELECTED", "REUSED", "UNKNOWN", "REFUTED"},
   frontier : SUBSET NodeName, result : DigestsOf(Text), verified : BOOLEAN]

\* A plan as ReuseLedger sees it.
LedgerVerdicts ==
  [action : {"SELECTED", "REUSED", "UNKNOWN", "REFUTED"}, fact : Text \X ProofKey]

ASSUME ConstantsAssumption ==
  /\ Metas \subseteq Meta
  /\ ProgramOf \in [Sources -> Program \union {Malformed}]
  /\ ValidContracts \subseteq Contracts
  /\ ExternalReceipts \subseteq Receipt
  /\ MaxRuns \in Nat /\ MaxEdits \in Nat

\* A mark is none of the things it stands in for the absence of.
ASSUME MarksAssumption ==
  /\ Malformed \notin Meta \union Program
  /\ Missing \notin Contracts \union Contents \union Receipt
  /\ Corrupt \notin Receipt \union {Missing}
  /\ NoReceipt \notin Receipt
  /\ NoPlan \notin Plan
  /\ NoPlan \notin LedgerVerdicts
  /\ NoRun \notin Run

VARIABLES
  meta, source, contract, fixtures, store,  \* the files, as they are now
  pc, run, plan,                            \* the run: where it is, what it has read, its plan
  emitted,                                  \* reuse-receipt.json in the output directory
  proved, quiet,                            \* ghosts
  runs, edits                               \* how often the bounds were drawn on

files == <<meta, source, contract, fixtures, store>>
vars  == <<files, pc, run, plan, emitted, proved, quiet, runs, edits>>

-----------------------------------------------------------------------------
FactOf(r) == <<r.obligation, r.key>>

\* What certified receipts vouch for before any run.
Trusted == {FactOf(r) : r \in {x \in ExternalReceipts : x.state = "PASS"}}

ProgramRead == ProgramOf[run.source]

\* A run reads the files in this order.
KeyOf(s, c, f) ==
  [source    |-> Digest(s), contract |-> Digest(c), fixture |-> Digest(f),
   toolchain |-> Digest(ProgramOf[s].obligation.toolchain),
   runner    |-> Digest(ProgramOf[s].obligation.runner)]

KeyRead == KeyOf(run.source, run.contract, run.fixture)

\* The facts a run can be about.
RunFacts ==
  {<<ProgramOf[x[1]].obligation.id, KeyOf(x[1], x[2], x[3])>> :
     x \in {s \in Sources : ProgramOf[s] # Malformed} \X Contracts \X Contents}

Init ==
  /\ meta \in Metas
  /\ source \in {s \in Sources : ProgramOf[s] # Malformed}
  /\ contract \in ValidContracts
  /\ fixtures \in [Paths -> Contents]
  /\ store \in [Refs -> ExternalReceipts \union {Missing}]
  /\ pc = "idle" /\ run = NoRun /\ plan = NoPlan /\ emitted = NoReceipt
  /\ proved = Trusted /\ quiet = TRUE
  /\ runs = 0 /\ edits = 0

-----------------------------------------------------------------------------
(* The run *)

Start(mode) ==
  /\ pc = "idle" /\ runs < MaxRuns
  /\ mode \in {"", "full", "incremental"}
  /\ runs' = runs + 1
  /\ run' = [mode    |-> IF mode = "" THEN "incremental" ELSE mode,
             meta    |-> Missing, contract |-> Missing, source  |-> Missing,
             fixture |-> Missing, loaded   |-> <<>>,    missing |-> FALSE, next |-> 1]
  /\ pc' = "meta" /\ quiet' = TRUE
  /\ UNCHANGED <<files, plan, emitted, proved, edits>>

LoadMeta ==
  /\ pc = "meta" /\ meta # Malformed
  /\ run' = [run EXCEPT !.meta = meta]
  /\ pc' = "digest"
  /\ UNCHANGED <<files, plan, emitted, proved, quiet, runs, edits>>

\* loadContract reads the file for its digest ...
DigestContract ==
  /\ pc = "digest" /\ contract # Missing
  /\ run' = [run EXCEPT !.contract = contract]
  /\ pc' = "contract"
  /\ UNCHANGED <<files, plan, emitted, proved, quiet, runs, edits>>

\* ... and reads it again for its cases, which only have to be valid.
ParseContract ==
  /\ pc = "contract" /\ contract \in ValidContracts
  /\ pc' = "source"
  /\ UNCHANGED <<files, run, plan, emitted, proved, quiet, runs, edits>>

\* ParseProgram takes digest and meaning from one read.
LoadProgram ==
  /\ pc = "source" /\ ProgramOf[source] # Malformed
  /\ run' = [run EXCEPT !.source = source]
  /\ pc' = "fixture"
  /\ UNCHANGED <<files, plan, emitted, proved, quiet, runs, edits>>

FixtureOf(program) == fixtures[program.obligation.fixture]

DigestFixture ==
  /\ pc = "fixture" /\ FixtureOf(ProgramRead) # Missing
  /\ run' = [run EXCEPT !.fixture = FixtureOf(ProgramRead)]
  /\ pc' = "receipts"
  /\ UNCHANGED <<files, plan, emitted, proved, quiet, runs, edits>>

MoreReceipts == run.next <= Len(ProgramRead.refs)

\* A fault to catch: a later receipt makes a run forget that one was missing.
LoadReceiptForgetting ==
  /\ pc = "receipts" /\ MoreReceipts
  /\ LET file == store[ProgramRead.refs[run.next]]
     IN  /\ file # Corrupt
         /\ run' = [run EXCEPT !.next = @ + 1, !.missing = (file = Missing),
                              !.loaded = IF file = Missing THEN @ ELSE Append(@, file)]
  /\ UNCHANGED <<files, pc, plan, emitted, proved, quiet, runs, edits>>

LoadReceipt ==
  /\ pc = "receipts" /\ MoreReceipts
  /\ LET file == store[ProgramRead.refs[run.next]]
     IN  /\ file # Corrupt
         /\ run' = IF file = Missing
                   THEN [run EXCEPT !.next = @ + 1, !.missing = TRUE]
                   ELSE [run EXCEPT !.next = @ + 1, !.loaded = Append(@, file)]
  /\ UNCHANGED <<files, pc, plan, emitted, proved, quiet, runs, edits>>

PlanRead == PlanFor(run.meta, ProgramRead, KeyRead, run.loaded, run.missing, run.mode)

Decide ==
  /\ pc = "receipts" /\ ~MoreReceipts
  /\ plan' = PlanRead
  /\ proved' = IF PlanRead.action = "SELECTED" THEN proved \union {FactOf(PlanRead)} ELSE proved
  /\ pc' = "emit"
  /\ UNCHANGED <<files, run, emitted, quiet, runs, edits>>

EmitReceipt ==
  /\ pc = "emit"
  /\ emitted' = ResultReceipt(run.meta, plan)
  /\ pc' = "idle" /\ run' = NoRun /\ plan' = NoPlan
  /\ UNCHANGED <<files, proved, quiet, runs, edits>>

\* A fault to catch: the plan of a run that failed is still there afterwards.
EndKeepingPlan ==
  /\ pc' = "idle" /\ run' = NoRun
  /\ UNCHANGED <<files, plan, emitted, proved, quiet, runs, edits>>

End ==
  /\ pc' = "idle" /\ run' = NoRun /\ plan' = NoPlan
  /\ UNCHANGED <<files, emitted, proved, quiet, runs, edits>>

\* The error returns: the file the run needs next is absent or unreadable.
ReturnError ==
  /\ \/ pc = "meta" /\ meta = Malformed
     \/ pc = "digest" /\ contract = Missing
     \/ pc = "contract" /\ contract \notin ValidContracts
     \/ pc = "source" /\ ProgramOf[source] = Malformed
     \/ pc = "fixture" /\ FixtureOf(ProgramRead) = Missing
     \/ pc = "receipts" /\ MoreReceipts /\ store[ProgramRead.refs[run.next]] = Corrupt
  /\ End

\* A killed process, or a write that failed.
Crash == pc # "idle" /\ End

RunStep ==
  LoadMeta \/ DigestContract \/ ParseContract \/ LoadProgram \/ DigestFixture
    \/ LoadReceipt \/ Decide \/ EmitReceipt \/ ReturnError

-----------------------------------------------------------------------------
(* Everybody else *)

\* What the run has read by now.
HasFixture  == pc \in {"receipts", "emit"}
HasSource   == pc = "fixture" \/ HasFixture
HasContract == pc \in {"contract", "source"} \/ HasSource
HasMeta     == pc = "digest" \/ HasContract
HasReceipt(ref) == HasFixture /\ \E i \in 1 .. run.next - 1 : ProgramRead.refs[i] = ref

\* Behind the back of a run are edits of what it has read, and no others.
Edit(hasRead) ==
  /\ edits < MaxEdits
  /\ edits' = edits + 1 /\ quiet' = (quiet /\ ~hasRead)
  /\ UNCHANGED <<pc, run, plan, emitted, proved, runs>>

EditMeta ==
  /\ Edit(HasMeta)
  /\ meta' \in Metas \union {Malformed}
  /\ UNCHANGED <<source, contract, fixtures, store>>

EditSource ==
  /\ Edit(HasSource)
  /\ source' \in Sources
  /\ UNCHANGED <<meta, contract, fixtures, store>>

EditContract ==
  /\ Edit(HasContract)
  /\ contract' \in Contracts \union {Missing}
  /\ UNCHANGED <<meta, source, fixtures, store>>

EditFixture(path) ==
  /\ Edit(HasFixture /\ path = ProgramRead.obligation.fixture)
  /\ \E content \in Contents \union {Missing} : fixtures' = [fixtures EXCEPT ![path] = content]
  /\ UNCHANGED <<meta, source, contract, store>>

PutReceipt(ref) ==
  /\ Edit(HasReceipt(ref))
  /\ \E r \in ExternalReceipts \union {Missing, Corrupt} : store' = [store EXCEPT ![ref] = r]
  /\ UNCHANGED <<meta, source, contract, fixtures>>

\* A receipt a run wrote becomes an input of later runs.
PublishReceipt(ref) ==
  /\ Edit(HasReceipt(ref))
  /\ emitted # NoReceipt
  /\ store' = [store EXCEPT ![ref] = emitted]
  /\ UNCHANGED <<meta, source, contract, fixtures>>

Environment ==
  \/ EditMeta \/ EditSource \/ EditContract
  \/ \E path \in Paths : EditFixture(path)
  \/ \E ref \in Refs : PutReceipt(ref) \/ PublishReceipt(ref)

Next == (\E mode \in {"", "full", "incremental"} : Start(mode)) \/ RunStep \/ Crash \/ Environment

Spec == Init /\ [][Next]_vars

-----------------------------------------------------------------------------
(* Correctness *)

FilesOK ==
  /\ meta \in Metas \union {Malformed}
  /\ source \in Sources
  /\ contract \in Contracts \union {Missing}
  /\ fixtures \in [Paths -> Contents \union {Missing}]
  /\ store \in [Refs -> Receipt \union {Missing, Corrupt}]

RunOK ==
  /\ pc \in {"idle", "meta", "digest", "contract", "source", "fixture", "receipts", "emit"}
  /\ run \in Run \union {NoRun}
  /\ plan \in Plan \union {NoPlan}
  /\ run = NoRun <=> pc = "idle"
  /\ plan = NoPlan <=> pc # "emit"
  /\ HasMeta => run.meta \in Meta
  /\ HasContract => run.contract \in Contracts
  /\ HasSource => run.source \in Sources /\ ProgramRead \in Program
  /\ HasFixture => run.fixture \in Contents

\* The type invariant: every file and every field of the run holds a value of
\* its kind, and a run has read by each point what Run has in its variables.
TypeOK ==
  /\ FilesOK
  /\ RunOK
  /\ emitted \in Receipt \union {NoReceipt}
  /\ proved \subseteq Text \X ProofKey
  /\ quiet \in BOOLEAN
  /\ runs \in 0 .. MaxRuns
  /\ edits \in 0 .. MaxEdits

\* Nothing is reused that was never selected: whatever happens to the files
\* between the reads of a run, and however receipts travel from run to run, a
\* plan that skips a test is for an obligation and a proof key that an earlier
\* run selected or that an outside PASS receipt names (engine.go:472-484, 101).
ReuseGrounded ==
  pc = "emit" /\ plan.action = "REUSED" => FactOf(plan) \in proved

\* Whoever read the file: ownership shows in the receipt not being external.
Own(receipt) == receipt \notin ExternalReceipts

\* Reusing a receipt that a run wrote always passes the digest check that
\* execution.json reports: Run does not require it before it reuses, and needs
\* not to for its own receipts, because an equal source has an equal output
\* (engine.go:143-145, 488-493).
OwnReceiptVerifies ==
  pc = "emit" /\ plan.action = "REUSED" /\ Own(run.loaded[1]) => plan.verified

\* A PASS receipt that a run wrote is worth something exactly when the meta file
\* of that run declared the schema that the code accepts: as the one receipt of the
\* same source, contract and fixture it does not leave an incremental run UNKNOWN;
\* with any other schema, which Run writes just as well, it never lets the run close
\* (engine.go:183-195 against 444-493).
IssuedProofHonoured ==
  pc = "emit" /\ run.mode = "incremental"
    /\ Len(ProgramRead.refs) = 1 /\ Len(run.loaded) = 1
    /\ Own(run.loaded[1]) /\ run.loaded[1].state = "PASS" /\ run.loaded[1].key = KeyRead
    => IF run.loaded[1].schema = ReceiptSchemaV1
       THEN plan.decision # "UNKNOWN" ELSE plan.decision # "CLOSED"

\* The two modes that CI compares as a pair never contradict each other on the
\* same reads: what incremental closes or refutes, full does too.  And incremental
\* hides a refutation only behind the ambiguity of several receipts
\* (engine.go:444-486, the return at 468).
ModesAgree ==
  pc = "emit" /\ run.mode = "incremental" =>
    LET full == Decision(run.meta, ProgramRead, KeyRead, run.loaded, run.missing, "full")
    IN  /\ plan.decision = "CLOSED" => full = "CLOSED"
        /\ plan.decision = "REFUTED" => full = "REFUTED"
        /\ full = "REFUTED" /\ ~Ambiguous(run.loaded, run.mode) => plan.decision = "REFUTED"

\* What of the files read was there, in its order: each is where as many are
\* there up to it.
IsSelection(loaded, read) ==
  LET there == {i \in DOMAIN read : read[i] # Missing}
  IN  /\ Len(loaded) = Cardinality(there)
      /\ \A i \in there : loaded[Cardinality(there \cap 1 .. i)] = read[i]

\* A run behind whose back nothing changed plans as if it had read all files at one
\* instant, in spite of its many reads: a file may be edited while the run works, as
\* long as the run has not come to it (engine.go:45-86, 455-467).
QuietRunIsAtomic ==
  pc = "emit" /\ quiet =>
    LET program == ProgramOf[source]
        read    == [i \in DOMAIN program.refs |-> store[program.refs[i]]]
    IN  /\ IsSelection(run.loaded, read)
        /\ plan = PlanFor(meta, program, KeyOf(source, contract, FixtureOf(program)),
                          run.loaded, Missing \in Range(read), run.mode)

\* What the repository, as it is, has to hold for a test to be skipped.
Licensed(m, program, key) ==
  /\ ValidationUnknown(program) = {} /\ ValidationRefuted(m, program) = {}
  /\ GraphRefuted(program) = {} /\ ~PathToTarget(program)
  /\ Len(program.refs) = 1
  /\ LET receipt == store[program.refs[1]]
     IN  /\ receipt \notin {Missing, Corrupt}
         /\ receipt.state = "PASS" /\ receipt.schema = ReceiptSchemaV1
         /\ receipt.obligation = program.obligation.id /\ receipt.key = key
         /\ receipt.result # NoDigest

\* The policy of reuse in full: unless something changed behind its back, a run skips
\* the test exactly when it is incremental, the program is valid and its graph whole,
\* no declared change has a path to the obligation, and its one reference is a PASS
\* receipt for the obligation and the whole proof key of the files as they are now
\* (engine.go:88-105, 444-493).
ReuseIsLicensed ==
  pc = "emit" /\ quiet =>
    LET program == ProgramOf[source]
        key     == KeyOf(source, contract, FixtureOf(program))
    IN  plan.action = "REUSED" <=> run.mode = "incremental" /\ Licensed(meta, program, key)

\* A run closes on all of its evidence or not at all: every receipt the program
\* names was there and is a PASS, in either mode.  A missing file is UNKNOWN even
\* in full mode, so a chain of reuse has to start outside (engine.go:455-484).
ClosureNeedsEveryReceipt ==
  pc = "emit" /\ plan.decision = "CLOSED" =>
    /\ Len(run.loaded) = Len(ProgramRead.refs)
    /\ \A r \in Range(run.loaded) : r.state = "PASS"

LedgerVerdict == IF plan = NoPlan THEN NoPlan ELSE [action |-> plan.action, fact |-> FactOf(plan)]

\* The evaluator implements the promise of reuse: the verdict is the plan's
\* action, from Decide until the run lets go of the plan.
Ledger == INSTANCE ReuseLedger WITH
  Fact <- RunFacts,
  NoVerdict <- NoPlan,
  verdict <- LedgerVerdict

LedgerSpec == Ledger!Spec

-----------------------------------------------------------------------------
(* What the documents say and the code does not do *)

\* "A result digest mismatch is stale evidence", and stale evidence is never
\* reused; receiptMatches compares the digest with "" only (engine.go:492).
ReusedResultMatches ==
  pc = "emit" /\ plan.action = "REUSED" => run.loaded[1].result = plan.result
=============================================================================
