------------------------------ MODULE Planning ------------------------------
(***************************************************************************)
(* The pure half of engine.Run: what follows from the meta file, a parsed  *)
(* program, a proof key and the receipts that were loaded.                 *)
(*                                                                         *)
(* Records stand for the parsed inputs.                                    *)
(*   meta     [namespace, schema, obligation, forbidden]                   *)
(*   program  [namespace, obligation, claims, edges, impacts, refs,        *)
(*             output, effects, top]                                       *)
(*   obligation [id, contract, fixture, toolchain, runner]                 *)
(*   receipt  [schema, obligation, state, key, result]                     *)
(*   key      [source, contract, fixture, toolchain, runner], all digests  *)
(* The lists of Unknown and Refutation claims are sets of their reasons:   *)
(* the order of a list decides only which reason a report prints first.    *)
(***************************************************************************)
EXTENDS Naturals, Sequences, Functions, Reachability

CONSTANT NodeName   \* every name an edge, a claim or an impact may use

\* SHA-256 is taken to be injective; "" is the digest nobody computes.
Digest(content) == <<"sha256", content>>
NoDigest == <<>>

ReceiptSchemaV1 == "receipt/v1"

Claim(condition, reason) == IF condition THEN {reason} ELSE {}

-----------------------------------------------------------------------------
(* validateProgram *)

ValidationUnknown(program) ==
  Claim(program.top = "UNKNOWN", "TOP_LEVEL_DECISION_UNKNOWN")

\* A fault to catch: a program that declares itself CLOSED may have any effect.
ValidationRefutedUnlessClosed(meta, program) ==
  Claim(program.namespace # meta.namespace, "NAMESPACE_CONTRACT_MISMATCH")
  \union
  Claim(program.top # "CLOSED" /\ program.effects \cap meta.forbidden # {}, "FORBIDDEN_EFFECT")

ValidationRefuted(meta, program) ==
  Claim(program.namespace # meta.namespace, "NAMESPACE_CONTRACT_MISMATCH")
  \union
  Claim(\E field \in {"contract", "fixture", "toolchain", "runner"} :
          program.obligation[field] # meta.obligation[field],
        "OBLIGATION_CONTRACT_MISMATCH")
  \union
  Claim(program.top = "REFUTED", "EXPLICIT_REFUTED_TOP_LEVEL_DECISION")
  \union
  Claim(program.top \notin {"", "CLOSED", "UNKNOWN", "REFUTED"},
        "UNKNOWN_TOP_LEVEL_DECISION_FAIL_CLOSED")
  \union
  Claim(program.effects \cap meta.forbidden # {}, "FORBIDDEN_EFFECT")

-----------------------------------------------------------------------------
(* The dependency graph.  Its search is specified in DependencyGraph, whose *)
(* theorem Exactness is why PathToTarget may be written as a definition.    *)

Target(program) == <<"obligation", program.obligation.id>>

GraphNodes(program) ==
  {<<"claim", c>> : c \in program.claims} \union {Target(program)} \union program.impacts

PathToTarget(program) ==
  \E n \in program.impacts : Reaches(NodeName, program.edges, n, Target(program))

\* The frontier Run publishes: all impacts, or none when no path exists.
Frontier(program) == IF PathToTarget(program) THEN program.impacts ELSE {}

GraphRefuted(program) ==
  Claim(\E e \in program.edges : ~({e[1], e[2]} \subseteq GraphNodes(program)),
        "BROKEN_DEPENDENCY_EDGE")

-----------------------------------------------------------------------------
(* inspectReceipts, after its loading loop: loaded are the receipts that    *)
(* were read, missing says that some reference had no file.                 *)

\* A fault to catch: the contract digest is not compared.
MatchesButContract(receipt, key, obligation) ==
  /\ receipt.schema = ReceiptSchemaV1 /\ receipt.obligation = obligation
  /\ [receipt.key EXCEPT !.contract = key.contract] = key
  /\ receipt.result # NoDigest

\* Another: neither is the source digest.
MatchesButSource(receipt, key, obligation) ==
  /\ receipt.schema = ReceiptSchemaV1 /\ receipt.obligation = obligation
  /\ [receipt.key EXCEPT !.source = key.source] = key
  /\ receipt.result # NoDigest

ReceiptMatches(receipt, key, obligation) ==
  /\ receipt.schema = ReceiptSchemaV1
  /\ receipt.obligation = obligation
  /\ receipt.key = key
  /\ receipt.result # NoDigest

\* Several receipts in incremental mode: the loop over them is never entered.
Ambiguous(loaded, mode) == Len(loaded) > 1 /\ mode = "incremental"

\* A fault to catch: a full run takes a missing receipt for no reason to stop.
ReceiptUnknownUnlessFull(program, key, loaded, missing, mode) ==
  Claim(mode = "incremental" /\ (missing \/ program.refs = <<>>), "MISSING_IMMUTABLE_RECEIPT")

ReceiptUnknown(program, key, loaded, missing, mode) ==
  Claim(missing \/ (program.refs = <<>> /\ mode = "incremental"),
        "MISSING_IMMUTABLE_RECEIPT")
  \union
  Claim(Ambiguous(loaded, mode), "MULTIPLE_RECEIPTS_FOR_ONE_OBLIGATION")
  \union
  Claim(~Ambiguous(loaded, mode)
          /\ \E r \in Range(loaded) : r.state \notin {"PASS", "FAIL"},
        "RECEIPT_STATE_NOT_PASS")
  \union
  Claim(~Ambiguous(loaded, mode) /\ mode = "incremental"
          /\ \E r \in Range(loaded) :
               r.state = "PASS" /\ ~ReceiptMatches(r, key, program.obligation.id),
        "RECEIPT_PROOF_KEY_STALE")

\* A fault to catch: only incremental runs honour an explicit failure.
ReceiptRefutedUnlessFull(loaded, mode) ==
  Claim(mode = "incremental" /\ ~Ambiguous(loaded, mode)
          /\ \E r \in Range(loaded) : r.state = "FAIL",
        "IMMUTABLE_RECEIPT_EXPLICIT_FAIL")

ReceiptRefuted(loaded, mode) ==
  Claim(~Ambiguous(loaded, mode) /\ \E r \in Range(loaded) : r.state = "FAIL",
        "IMMUTABLE_RECEIPT_EXPLICIT_FAIL")

-----------------------------------------------------------------------------
(* Reduce and the plan *)

Reduce(unknown, refuted) ==
  IF refuted # {} THEN "REFUTED" ELSE IF unknown # {} THEN "UNKNOWN" ELSE "CLOSED"

Unknown(program, key, loaded, missing, mode) ==
  ValidationUnknown(program) \union ReceiptUnknown(program, key, loaded, missing, mode)

Refuted(meta, program, loaded, mode) ==
  ValidationRefuted(meta, program) \union GraphRefuted(program)
    \union ReceiptRefuted(loaded, mode)

Decision(meta, program, key, loaded, missing, mode) ==
  Reduce(Unknown(program, key, loaded, missing, mode),
         Refuted(meta, program, loaded, mode))

\* A fault to catch: a full run reuses as well.
ActionInAnyMode(decision, mode, loaded, path) ==
  IF decision # "CLOSED" THEN decision
  ELSE IF Len(loaded) = 1 /\ ~path THEN "REUSED"
  ELSE "SELECTED"

\* Another: declared impacts do not make it run.
ActionIgnoringPath(decision, mode, loaded, path) ==
  IF decision # "CLOSED" THEN decision
  ELSE IF mode = "incremental" /\ Len(loaded) = 1 THEN "REUSED"
  ELSE "SELECTED"

Action(decision, mode, loaded, path) ==
  IF decision # "CLOSED" THEN decision
  ELSE IF mode = "incremental" /\ Len(loaded) = 1 /\ ~path THEN "REUSED"
  ELSE "SELECTED"

\* A selected obligation counts as verified as soon as it is selected; a
\* reused one when its receipt carries the digest of the declared output.
Verified(action, loaded, result) ==
  action = "SELECTED" \/ (action = "REUSED" /\ loaded[1].result = result)

PlanFor(meta, program, key, loaded, missing, mode) ==
  LET decision == Decision(meta, program, key, loaded, missing, mode)
      action   == Action(decision, mode, loaded, PathToTarget(program))
      result   == Digest(program.output)
  IN  [mode |-> mode, obligation |-> program.obligation.id, key |-> key,
       decision |-> decision, action |-> action, frontier |-> Frontier(program),
       result |-> result, verified |-> Verified(action, loaded, result)]

ReceiptState(decision) == IF decision = "CLOSED" THEN "PASS" ELSE decision

\* A fault to catch: the result digest is left out.
ResultReceiptWithoutResult(meta, plan) ==
  [schema |-> meta.schema, obligation |-> plan.obligation,
   state |-> ReceiptState(plan.decision), key |-> plan.key, result |-> NoDigest]

\* The receipt a run writes for its own outcome.
ResultReceipt(meta, plan) ==
  [schema |-> meta.schema, obligation |-> plan.obligation,
   state |-> ReceiptState(plan.decision), key |-> plan.key, result |-> plan.result]
=============================================================================
