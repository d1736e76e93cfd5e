---------------------------- MODULE MCEvaluator ----------------------------
(* Sources, meta files and receipts for the runs of Evaluator.  The sources   *)
(* are those of fixtures/cases in small; each cfg chooses some of them.       *)
EXTENDS Evaluator

MCText == {"gooo.proof.reuse", "contract", "smoke", "message", "go1.27.0", "go1.28.0",
           "ubuntu-latest", "hello", "goodbye", "commit", "elsewhere",
           "MAYBE", ReceiptSchemaV1, "receipt/v0", "receipt/v2"}

MessageNode == <<"claim", "message">>
SmokeNode   == <<"obligation", "smoke">>
NowhereNode == <<"claim", "elsewhere">>   \* no program declares this claim

MCNodes == {MessageNode, SmokeNode, NowhereNode}

Smoke == [id |-> "smoke", contract |-> "contract", fixture |-> "hello.txt",
          toolchain |-> "go1.27.0", runner |-> "ubuntu-latest"]

MetaV1 == [namespace |-> "gooo.proof.reuse", schema |-> ReceiptSchemaV1,
           obligation |-> Smoke, forbidden |-> {"commit"}]

\* A meta file may declare any receipt schema: validateMeta asks for some text.
MetaV2 == [MetaV1 EXCEPT !.schema = "receipt/v2"]

OneMeta   == {MetaV1}
BothMetas == {MetaV1, MetaV2}

Plain == [namespace |-> "gooo.proof.reuse", obligation |-> Smoke, claims |-> {"message"},
          edges |-> {<<MessageNode, SmokeNode>>}, impacts |-> {}, refs |-> <<"a">>,
          output |-> "hello", effects |-> {}, top |-> ""]

MCProgramOf == [
  plain      |-> Plain,
  reworded   |-> [Plain EXCEPT !.output = "goodbye"],
  impact     |-> [Plain EXCEPT !.impacts = {MessageNode}],
  apart      |-> [Plain EXCEPT !.impacts = {NowhereNode}],
  twice      |-> [Plain EXCEPT !.refs = <<"a", "b">>],
  unproved   |-> [Plain EXCEPT !.refs = <<>>],
  undecided  |-> [Plain EXCEPT !.top = "UNKNOWN"],
  maybe      |-> [Plain EXCEPT !.top = "MAYBE"],
  committing |-> [Plain EXCEPT !.effects = {"commit"}],
  broken     |-> [Plain EXCEPT !.edges = {<<NowhereNode, SmokeNode>>}],
  upgraded   |-> [Plain EXCEPT !.obligation.toolchain = "go1.28.0"],
  renamed    |-> [Plain EXCEPT !.namespace = "elsewhere"],
  garbled    |-> Malformed]

AllSources  == DOMAIN MCProgramOf
FewSources  == {"plain", "reworded", "impact", "twice", "garbled"}
FewProgramOf == [s \in FewSources |-> MCProgramOf[s]]

KeyFor(s) ==
  [source    |-> Digest(s), contract |-> Digest("denominator"), fixture |-> Digest("hi"),
   toolchain |-> Digest("go1.27.0"), runner |-> Digest("ubuntu-latest")]

Exact(s) == [schema |-> ReceiptSchemaV1, obligation |-> "smoke", state |-> "PASS",
             key |-> KeyFor(s), result |-> Digest("hello")]

StaleReceipt == [Exact("plain") EXCEPT !.key.contract = Digest("draft")]
WrongResult  == [Exact("plain") EXCEPT !.result = Digest("goodbye")]
Failed       == [Exact("plain") EXCEPT !.state = "FAIL"]
Pending      == [Exact("plain") EXCEPT !.state = "UNKNOWN"]
NoResult     == [Exact("plain") EXCEPT !.result = NoDigest]
OldSchema    == [Exact("plain") EXCEPT !.schema = "receipt/v0"]
Other        == [Exact("plain") EXCEPT !.obligation = "elsewhere"]

AllExternal  == {Exact("plain"), Exact("impact"), Exact("apart"), StaleReceipt, WrongResult,
                 Failed, Pending, NoResult, OldSchema, Other}
FewExternal  == {StaleReceipt, Failed}
=============================================================================
