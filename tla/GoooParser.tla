----------------------------- MODULE GoooParser -----------------------------
(***************************************************************************)
(* ParseMeta and ParseProgram: scanLines walks a .gooo file line by line   *)
(* and a switch on the first word gathers what the lines say.  A word that *)
(* is gathered once keeps its last value, the others are lists; everything *)
(* else is passed over.  The first line that is not well formed ends the   *)
(* parse, and a file that was read to its end is validated as a whole.     *)
(*                                                                         *)
(* A line is its first word, whether a single space follows it, and the    *)
(* text behind.  What strconv, strings.Fields and strings.Split make of a  *)
(* text is whether it is well formed for its word.                         *)
(***************************************************************************)
EXTENDS Naturals, Sequences, FiniteSets, Functions, Planning

CONSTANTS
  Text,          \* what may stand behind the first word
  BeforeHash,    \* the part of a text that is left when comments are cut off
  WellFormed,    \* the texts with the shape their word wants, by word
  Files,         \* the files, as sequences of lines
  Long,          \* the text of a line that does not fit the buffer of a Scanner
  ObligationOf,  \* the obligation a text declares
  GivenMeta      \* the meta file that a parsed program is held against

\* The words of the two switches.
Singles == [
  meta    |-> {"program", "namespace", "precedence", "receipt_schema", "receipt_policy",
               "impact_policy", "delta_definition", "improvement_policy", "unchanged_claim",
               "regression_claim"},
  program |-> {"case", "program", "namespace", "output", "decision"}]
Lists == [
  meta    |-> {"receipt_state", "receipt_field", "claim", "obligation", "edge", "activity",
               "forbid_effect", "indicator"},
  program |-> {"claim", "obligation", "edge", "impact", "receipt", "effect"}]
Shaped == {"claim", "obligation", "edge", "indicator", "output"}

Kind == {"meta", "program"}
Word == UNION {Singles[k] \union Lists[k] : k \in Kind} \union {"other"}
Line == [word : Word, space : BOOLEAN, text : Text]

ASSUME TextAssumption ==
  /\ {"", "after-minus-before", "indicator-vector-only", "NOT_CLAIMED", "REFUTED",
      "REFUTED > UNKNOWN > CLOSED", "immutable-pass-only"} \subseteq Text
  /\ BeforeHash \in [Text -> Text] /\ BeforeHash[""] = ""
  /\ WellFormed \in [Shaped -> SUBSET Text]
  /\ Files \subseteq Seq(Line) /\ Long \in Text

VARIABLES
  kind, file,       \* which parser runs on which file
  at,               \* lines scanned so far
  single, list,     \* what was gathered: values, and lines by number
  status            \* reading, accepted or refused

parserVars == <<kind, file, at, single, list, status>>

NothingSingle == [w \in Word |-> ""]
NothingListed == [w \in Word |-> <<>>]

Init ==
  /\ kind \in Kind /\ file \in Files
  /\ at = 0 /\ single = NothingSingle /\ list = NothingListed /\ status = "reading"

-----------------------------------------------------------------------------
(* One line.  A line is trimmed and cut at its first #, so that a word with *)
(* nothing behind it has lost the space that HasPrefix looks for.           *)

Value(line) == BeforeHash[line.text]

Says(line, words) == line.word \in words /\ line.space /\ Value(line) # ""

Malformed(line) == line.word \in Shaped /\ Value(line) \notin WellFormed[line.word]

NextLine == file[at + 1]

Reading == status = "reading" /\ at < Len(file)

\* A fault to catch: the first value of a word is kept.
SetFirst ==
  /\ Reading /\ NextLine.text # Long
  /\ Says(NextLine, Singles[kind]) /\ ~Malformed(NextLine)
  /\ single' = [single EXCEPT ![NextLine.word] = IF @ = "" THEN Value(NextLine) ELSE @]
  /\ at' = at + 1
  /\ UNCHANGED <<kind, file, list, status>>

Set ==
  /\ Reading /\ NextLine.text # Long
  /\ Says(NextLine, Singles[kind]) /\ ~Malformed(NextLine)
  /\ single' = [single EXCEPT ![NextLine.word] = Value(NextLine)]
  /\ at' = at + 1
  /\ UNCHANGED <<kind, file, list, status>>

Add ==
  /\ Reading /\ NextLine.text # Long
  /\ Says(NextLine, Lists[kind]) /\ ~Malformed(NextLine)
  /\ list' = [list EXCEPT ![NextLine.word] = Append(@, at + 1)]
  /\ at' = at + 1
  /\ UNCHANGED <<kind, file, single, status>>

Pass ==
  /\ Reading /\ NextLine.text # Long
  /\ ~Says(NextLine, Singles[kind] \union Lists[kind])
  /\ at' = at + 1
  /\ UNCHANGED <<kind, file, single, list, status>>

\* A fault to catch: what was gathered is returned along with the error.
RefusedKeeping == status' = "refused" /\ UNCHANGED <<kind, file, at, single, list>>

\* Both parsers return an empty record with their error.
Refused ==
  /\ status' = "refused"
  /\ single' = NothingSingle /\ list' = NothingListed
  /\ UNCHANGED <<kind, file, at>>

Refuse ==
  /\ Reading
  /\ \/ NextLine.text = Long
     \/ Says(NextLine, Singles[kind] \union Lists[kind]) /\ Malformed(NextLine)
  /\ Refused

-----------------------------------------------------------------------------
(* The whole file *)

ExpectedIndicators ==
  <<"build_wall_ms", "build_peak_rss_kib", "test_wall_ms", "test_peak_rss_kib",
    "selected", "executed", "reused">>

\* What validateMeta wants to be what it is.  A precedence is one text however
\* it is spaced, and an indicator is its name with the direction and goal it must
\* have: any other direction or goal is another text.
FixedValues == [
  delta_definition |-> "after-minus-before", improvement_policy |-> "indicator-vector-only",
  unchanged_claim |-> "NOT_CLAIMED", regression_claim |-> "REFUTED",
  precedence |-> "REFUTED > UNKNOWN > CLOSED", receipt_policy |-> "immutable-pass-only"]

\* validateMeta, of what was gathered: values by word, and lists of values.
ValidMeta(values, lists) ==
  /\ \A w \in {"program", "namespace", "receipt_schema", "receipt_policy", "impact_policy"} :
       values[w] # ""
  /\ \A w \in {"claim", "obligation", "edge", "activity"} : lists[w] # <<>>
  /\ lists["indicator"] = ExpectedIndicators
  /\ \A w \in DOMAIN FixedValues : values[w] = FixedValues[w]

\* A fault to catch: several obligations are as good as one.
ValidProgramOfSeveral(values, lists) ==
  /\ \A w \in {"case", "program", "namespace", "output"} : values[w] # ""
  /\ lists["obligation"] # <<>>

\* The check at the end of ParseProgram.
ValidProgram(values, lists) ==
  /\ \A w \in {"case", "program", "namespace", "output"} : values[w] # ""
  /\ Len(lists["obligation"]) = 1

Listed == [w \in Word |-> [i \in DOMAIN list[w] |-> Value(file[list[w][i]])]]

Valid ==
  IF kind = "meta" THEN ValidMeta(single, Listed) ELSE ValidProgram(single, Listed)

Accept ==
  /\ status = "reading" /\ at = Len(file) /\ Valid
  /\ status' = "accepted"
  /\ UNCHANGED <<kind, file, at, single, list>>

Reject ==
  /\ status = "reading" /\ at = Len(file) /\ ~Valid
  /\ Refused

Next == Set \/ Add \/ Pass \/ Refuse \/ Accept \/ Reject

Spec == Init /\ [][Next]_parserVars

-----------------------------------------------------------------------------
(* Correctness *)

\* Gathered values are texts, lists hold numbers of scanned lines, and a
\* refused file leaves nothing behind.
TypeOK ==
  /\ kind \in Kind /\ file \in Files /\ at \in 0 .. Len(file)
  /\ single \in [Word -> Text]
  /\ list \in [Word -> Seq(1 .. Len(file))]
  /\ status \in {"reading", "accepted", "refused"}
  /\ status = "accepted" => at = Len(file)
  /\ status = "refused" => single = NothingSingle /\ list = NothingListed

SaysAt(w, n) == Says(file[n], {w})

Bad(n) ==
  \/ file[n].text = Long
  \/ Says(file[n], Singles[kind] \union Lists[kind]) /\ Malformed(file[n])

LastToSay(w, n) == SaysAt(w, n) /\ \A m \in n + 1 .. at : ~SaysAt(w, m)

\* At every point of the scan, what was gathered is what the lines so far say:
\* a list has every line of its word, once and in the order of the file, and a
\* single word has the value of the last line that says it (parse.go:11-147,
\* 203-220).
ScanIsExact ==
  status # "refused" =>
    /\ \A n \in 1 .. at : ~Bad(n)
    /\ \A w \in Lists[kind] :
         /\ Range(list[w]) = {n \in 1 .. at : SaysAt(w, n)}
         /\ \A i, k \in DOMAIN list[w] : i < k => list[w][i] < list[w][k]
    /\ \A w \in Singles[kind] :
         \/ single[w] = "" /\ \A n \in 1 .. at : ~SaysAt(w, n)
         \/ \E n \in 1 .. at : LastToSay(w, n) /\ single[w] = Value(file[n])

\* What a file must say as a whole, without a word of how it is read.
Numbers(w) == {n \in DOMAIN file : SaysAt(w, n)}
Final(w, value) ==
  \E n \in Numbers(w) : Value(file[n]) = value /\ \A m \in Numbers(w) : m <= n

GoodProgram ==
  /\ \A w \in {"case", "program", "namespace", "output"} : Numbers(w) # {}
  /\ \E n \in DOMAIN file : Numbers("obligation") = {n}

GoodMeta ==
  /\ \A w \in {"program", "namespace", "receipt_schema", "receipt_policy", "impact_policy",
                "claim", "obligation", "edge", "activity"} : Numbers(w) # {}
  /\ \A w \in DOMAIN FixedValues : Final(w, FixedValues[w])
  /\ Cardinality(Numbers("indicator")) = Len(ExpectedIndicators)
  /\ \A n \in Numbers("indicator") :
       Value(file[n]) = ExpectedIndicators[Cardinality(Numbers("indicator") \intersect 1 .. n)]

GoodFile ==
  /\ \A n \in DOMAIN file : ~Bad(n)
  /\ IF kind = "meta" THEN GoodMeta ELSE GoodProgram

\* A file is accepted or refused for what it says as a whole, wherever its lines
\* stand: no early return hides a later mistake and no later line heals an
\* earlier one (parse.go:81-84, 148-153, 222-259).
VerdictIsExact ==
  (status = "accepted" => GoodFile) /\ (status = "refused" => ~GoodFile)

\* The program a run makes its plan for, as far as validateProgram looks at it.
Parsed ==
  [namespace |-> single["namespace"], top |-> single["decision"],
   obligation |-> ObligationOf[Listed["obligation"][1]], effects |-> Range(Listed["effect"])]

\* Nothing else in a program can hide a forbidden effect, a foreign obligation
\* or a last decision that is not CLOSED from the planner: it is REFUTED, or
\* UNKNOWN for an UNKNOWN decision (parse.go:87-154; engine.go:352-384).
RestrictionsReachThePlan ==
  status = "accepted" /\ kind = "program" =>
    LET refuted == ValidationRefuted(GivenMeta, Parsed)
        unknown == ValidationUnknown(Parsed)
    IN  /\ \A n \in Numbers("effect") :
             Value(file[n]) \in GivenMeta.forbidden => Reduce(unknown, refuted) = "REFUTED"
        /\ \A n \in Numbers("obligation") :
             (\E field \in {"contract", "fixture", "toolchain", "runner"} :
                ObligationOf[Value(file[n])][field] # GivenMeta.obligation[field])
             => Reduce(unknown, refuted) = "REFUTED"
        /\ \A value \in Text \ {"", "CLOSED"} :
             Final("decision", value) => Reduce(unknown, refuted) # "CLOSED"

-----------------------------------------------------------------------------
(* What the program says of itself *)

\* An impact that names nothing is an error, "empty impact" (parse.go:125-127).
EmptyImpactRefused ==
  status = "accepted" /\ kind = "program" =>
    \A n \in DOMAIN file : file[n].word = "impact" => Value(file[n]) # ""
=============================================================================
