--------------------------- MODULE MCMatchedPair ---------------------------
(* The greeting example in small, with sources, contracts and receipts that  *)
(* differ from it in one respect each.                                       *)
EXTENDS MatchedPair

MessageNode == <<"claim", "message">>
SmokeNode   == <<"obligation", "smoke">>
MCNodes     == {MessageNode, SmokeNode}

Smoke == [id |-> "smoke", contract |-> "contract", fixture |-> "hello.txt",
          toolchain |-> "go1.27.0", runner |-> "ubuntu-latest"]

MCMeta == [namespace |-> "gooo.proof.reuse", schema |-> ReceiptSchemaV1,
           obligation |-> Smoke, forbidden |-> {"commit"}]

Plain == [namespace |-> "gooo.proof.reuse", obligation |-> Smoke, claims |-> {"message"},
          edges |-> {<<MessageNode, SmokeNode>>}, impacts |-> {}, refs |-> <<"a">>,
          output |-> <<"hello">>, effects |-> {}, top |-> ""]

MCGreeting == <<"hello">>

\* commented: the text differs, the program does not.  closing prints more than the
\* greeting, and the shell does not see it; spaced prints a second line.
MCProgramOf == [
  plain     |-> Plain,
  commented |-> Plain,
  reworded  |-> [Plain EXCEPT !.output = <<"goodbye">>],
  closing   |-> [Plain EXCEPT !.output = <<"hello", "newline", "nul", "newline">>],
  spaced    |-> [Plain EXCEPT !.output = <<"hello", "newline", "goodbye">>],
  impact    |-> [Plain EXCEPT !.impacts = {MessageNode}],
  unproved  |-> [Plain EXCEPT !.refs = <<>>],
  garbled   |-> Malformed]

MCSources == DOMAIN MCProgramOf

Exact(s) ==
  [schema |-> ReceiptSchemaV1, obligation |-> "smoke", state |-> "PASS",
   key |-> [source |-> Digest(s), contract |-> Digest("denominator"),
            fixture |-> Digest("hi"), toolchain |-> Digest("go1.27.0"),
            runner |-> Digest("ubuntu-latest")],
   result |-> Digest(MCGreeting)]

MCReceipts == {Exact("plain"), Exact("reworded"), Exact("closing"), [Exact("plain") EXCEPT !.state = "FAIL"],
               [Exact("plain") EXCEPT !.result = NoDigest]}
=============================================================================
