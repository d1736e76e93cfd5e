----------------------- MODULE OutputDirectoryProofs -----------------------
(***************************************************************************)
(* Theorems about OutputDirectory, for any outcomes, any number of runs    *)
(* and any places at which they stop.                                      *)
(***************************************************************************)
EXTENDS OutputDirectory, TLAPS

\* The writes have positions 1 to 8, and no file is written twice by a run.
LEMMA OrderFacts ==
  /\ Len(Order) = 8 /\ DOMAIN Order = 1 .. 8
  /\ \A i, j \in 1 .. 8 : Order[i] = Order[j] => i = j
  /\ Order[8] = "report.json"
  /\ \A i \in 1 .. 8 : Order[i] = "report.json" => i = 8
  /\ \A i \in 1 .. 8 : Order[i] = "generated/program.go" <=> i = 6
<1>1. /\ Order[1] = "dependency-graph.json" /\ Order[2] = "semantic-ir.json"
      /\ Order[3] = "test-plan.json" /\ Order[4] = "execution.json"
      /\ Order[5] = "reuse-receipt.json" /\ Order[6] = "generated/program.go"
      /\ Order[7] = "human-report.md" /\ Order[8] = "report.json"
      /\ Len(Order) = 8 /\ DOMAIN Order = 1 .. 8
  BY DEF Order
<1>2. \A i \in 1 .. 8 : i = 1 \/ i = 2 \/ i = 3 \/ i = 4 \/ i = 5 \/ i = 6 \/ i = 7 \/ i = 8
  OBVIOUS
<1> HIDE DEF Order
<1>3. \A i, j \in 1 .. 8 : Order[i] = Order[j] => i = j
  BY <1>1, <1>2
<1>4. /\ \A i \in 1 .. 8 : Order[i] = "report.json" => i = 8
      /\ \A i \in 1 .. 8 : Order[i] = "generated/program.go" <=> i = 6
  BY <1>1, <1>2
<1> QED BY <1>1, <1>3, <1>4

\* Files are the things written, and the collected ones are among them.
LEMMA FileFacts ==
  /\ \A i \in 1 .. 8 : Order[i] \in File
  /\ \A f \in File : \E i \in 1 .. 8 : f = Order[i]
  /\ Collected \subseteq File
  /\ \A f \in Collected : \E i \in 1 .. 6 : f = Order[i]
  /\ "report.json" \in File
BY OrderFacts DEF File, Range, Collected

-----------------------------------------------------------------------------
\* In the first moment there is nothing.
LEMMA InitType == Init => TypeOK
BY OrderFacts, OutcomeAssumption DEF Init, TypeOK, Content, NothingRead

\* No step puts anything but an outcome or a mark into a file.
LEMMA StepType == TypeOK /\ [Next]_vars => TypeOK'
<1> SUFFICES ASSUME TypeOK, [Next]_vars PROVE TypeOK'
  OBVIOUS
<1> USE OrderFacts, FileFacts DEF TypeOK, Content
<1>1. CASE \E outcome \in Outcome : Start(outcome)
  <2>1. runs' \in 0 .. MaxRuns /\ sinceEmpty' \in 0 .. runs'
    BY <1>1, OutcomeAssumption DEF Start
  <2> QED BY <1>1, <2>1, OutcomeAssumption DEF Start, NothingRead
<1>2. CASE Open
  BY <1>2 DEF Open
<1>3. CASE Fill
  <2>1. run \in Outcome /\ disk' \in [File -> Content]
    BY <1>3 DEF Fill
  <2>2. listed' \in [Collected -> Content]
    BY <1>3 DEF Fill
  <2>3. CASE next = 8
    BY <1>3, <2>1, <2>2, <2>3 DEF Fill, Finish, NothingRead
  <2>4. CASE next # 8
    <3>1. next + 1 \in 1 .. 8
      BY <2>4
    <3> QED BY <1>3, <2>1, <2>2, <2>4, <3>1 DEF Fill
  <2> QED BY <2>3, <2>4
<1>4. CASE Collect
  BY <1>4 DEF Collect
<1>5. CASE Stop
  BY <1>5 DEF Stop, Finish, NothingRead
<1>6. CASE Empty
  BY <1>6 DEF Empty, NothingRead
<1>7. CASE UNCHANGED vars
  BY <1>7 DEF vars
<1> QED BY <1>1, <1>2, <1>3, <1>4, <1>5, <1>6, <1>7 DEF Next, WriteStep

\* Files and digests are always of outcomes, and positions are positions.
THEOREM TypeCorrect == Spec => []TypeOK
<1> QED BY InitType, StepType, PTL DEF Spec

-----------------------------------------------------------------------------
(* What a run at work has done. *)

\* Everything before the position of a run is its own; the file at the position
\* is torn while it is being written; once past the generated program the run
\* has read back its own six files.
ProgressInv ==
  pc # "idle" =>
    /\ \A i \in 1 .. 8 : i < next => disk[Order[i]] = run
    /\ pc = "fill" => disk[Order[next]] = Torn
    /\ pc = "collect" => next = 7
    /\ next >= 7 /\ pc # "collect" => \A f \in Collected : read[f] = run

\* A directory that nobody has used holds no report, and one that its first run
\* is still using holds no whole report.
FreshInv ==
  /\ sinceEmpty = 0 => pc = "idle" /\ disk["report.json"] = Absent
  /\ sinceEmpty = 1 /\ pc # "idle" => ~Whole("report.json")

\* ReportCommits says nothing of a directory without a whole report, which is
\* when the files that the report will vouch for are written.
IInv == TypeOK /\ ProgressInv /\ FreshInv /\ ReportCommits

\* The last write: every file is the run's, and so is every digest.
LEMMA LastFill ==
  ASSUME TypeOK, ProgressInv, Fill, next = 8
  PROVE  /\ \A f \in File : disk'[f] = run
         /\ \A f \in Collected : listed'[f] = run
<1>1. pc = "fill" /\ disk' = [disk EXCEPT ![Order[8]] = run] /\ listed' = read
  BY OrderFacts DEF Fill
<1>2. \A i \in 1 .. 8 : disk'[Order[i]] = run
  <2>1. TAKE i \in 1 .. 8
  <2>2. CASE i = 8
    BY <1>1, <2>2, FileFacts DEF TypeOK
  <2>3. CASE i < 8
    BY <1>1, <2>3, FileFacts, OrderFacts DEF TypeOK, ProgressInv
  <2> QED BY <2>2, <2>3
<1>3. \A f \in Collected : read[f] = run
  BY <1>1 DEF ProgressInv
<1> QED BY <1>1, <1>2, <1>3, FileFacts

\* Before any run there is nothing that could be wrong.
LEMMA InitInv == Init => IInv
<1> SUFFICES ASSUME Init PROVE IInv
  OBVIOUS
<1>1. disk["report.json"] = Absent
  BY FileFacts DEF Init
<1> QED BY <1>1, InitType, OutcomeAssumption
        DEF Init, IInv, ProgressInv, FreshInv, ReportCommits, Whole

\* A step of a run adds to what it has done; a stop or a start forgets it.
LEMMA StepProgress == TypeOK /\ ProgressInv /\ [Next]_vars => ProgressInv'
<1> SUFFICES ASSUME TypeOK, ProgressInv, [Next]_vars PROVE ProgressInv'
  OBVIOUS
<1>1. CASE \E outcome \in Outcome : Start(outcome)
  BY <1>1 DEF Start, ProgressInv
<1>2. CASE Open
  <2>1. /\ pc = "open" /\ pc' = "fill" /\ next' = next /\ run' = run /\ read' = read
        /\ disk' = [disk EXCEPT ![Order[next]] = Torn] /\ next \in 1 .. 8
    BY <1>2, OrderFacts DEF Open, TypeOK
  <2>2. \A i \in 1 .. 8 : i < next => disk'[Order[i]] = run
    BY <2>1, OrderFacts, FileFacts DEF TypeOK, ProgressInv
  <2>3. disk'[Order[next]] = Torn
    BY <2>1, FileFacts DEF TypeOK
  <2> QED BY <2>1, <2>2, <2>3 DEF ProgressInv
<1>3. CASE Fill
  <2>1. CASE next = 8
    BY <1>3, <2>1, OrderFacts DEF Fill, Finish, ProgressInv
  <2>2. CASE next # 8
    <3>1. /\ pc = "fill" /\ next' = next + 1 /\ run' = run /\ read' = read
          /\ disk' = [disk EXCEPT ![Order[next]] = run] /\ next \in 1 .. 7
          /\ pc' = IF next = 6 THEN "collect" ELSE "open"
      BY <1>3, <2>2, OrderFacts DEF Fill, TypeOK
    <3>2. \A i \in 1 .. 8 : i < next' => disk'[Order[i]] = run
      <4>1. TAKE i \in 1 .. 8
      <4>2. CASE i = next
        BY <3>1, <4>2, FileFacts DEF TypeOK
      <4>3. CASE i < next
        BY <3>1, <4>3, OrderFacts, FileFacts DEF TypeOK, ProgressInv
      <4> QED BY <3>1, <4>2, <4>3
    <3>3. pc' = "collect" => next' = 7
      BY <3>1
    <3>4. next' >= 7 /\ pc' # "collect" => next >= 7
      BY <3>1
    <3> QED BY <3>1, <3>2, <3>3, <3>4 DEF ProgressInv
  <2> QED BY <2>1, <2>2
<1>4. CASE Collect
  <2>1. /\ pc = "collect" /\ pc' = "open" /\ next' = next /\ run' = run /\ disk' = disk
        /\ read' = [f \in Collected |-> disk[f]] /\ next = 7
    BY <1>4 DEF Collect, ProgressInv
  <2>2. \A i \in 1 .. 6 : disk[Order[i]] = run
    BY <2>1 DEF ProgressInv
  <2>3. \A f \in Collected : read'[f] = run
    BY <2>1, <2>2, FileFacts
  <2> QED BY <2>1, <2>3 DEF ProgressInv
<1>5. CASE Stop \/ Empty
  BY <1>5 DEF Stop, Finish, Empty, ProgressInv
<1>6. CASE UNCHANGED vars
  BY <1>6 DEF vars, ProgressInv
<1> QED BY <1>1, <1>2, <1>3, <1>4, <1>5, <1>6 DEF Next, WriteStep

\* Only the last write of a run makes a report whole.
LEMMA StepInv == IInv /\ [Next]_vars => IInv'
<1> SUFFICES ASSUME IInv, [Next]_vars PROVE IInv'
  OBVIOUS
<1>1. TypeOK /\ ProgressInv /\ TypeOK' /\ ProgressInv'
  BY StepType, StepProgress DEF IInv
<1>2. "report.json" \in File /\ Absent \notin Outcome /\ Torn \notin Outcome
  BY FileFacts, OutcomeAssumption
<1>n. sinceEmpty \in Nat
  BY <1>1, OutcomeAssumption DEF TypeOK
<1>3. FreshInv' /\ ReportCommits'
  <2>1. CASE \E outcome \in Outcome : Start(outcome)
    BY <1>1, <1>2, <1>n, <2>1 DEF Start, IInv, FreshInv, ReportCommits, Whole
  <2>2. CASE Open
    <3>1. /\ disk' = [disk EXCEPT ![Order[next]] = Torn] /\ next \in 1 .. 8
          /\ pc # "idle" /\ pc' # "idle" /\ sinceEmpty' = sinceEmpty
      BY <1>1, <2>2, OrderFacts DEF Open, TypeOK
    <3>2. disk'["report.json"] = disk["report.json"] \/ disk'["report.json"] = Torn
      BY <1>1, <1>2, <3>1 DEF TypeOK
    <3>3. sinceEmpty <= 1 => sinceEmpty = 1
      BY <1>n, <3>1 DEF IInv, FreshInv
    <3> QED BY <1>2, <3>1, <3>2, <3>3 DEF IInv, FreshInv, ReportCommits, Whole
  <2>3. CASE Fill
    <3>1. CASE next = 8
      <4>1. /\ \A f \in File : disk'[f] = run
            /\ \A f \in Collected : listed'[f] = run
            /\ pc' = "idle" /\ pc = "fill" /\ sinceEmpty' = sinceEmpty
        BY <1>1, <2>3, <3>1, LastFill, OrderFacts DEF Fill, Finish
      <4> QED BY <1>2, <4>1, FileFacts DEF IInv, FreshInv, ReportCommits
    <3>2. CASE next # 8
      <4>1. /\ disk' = [disk EXCEPT ![Order[next]] = run] /\ next \in 1 .. 8
            /\ pc # "idle" /\ pc' # "idle" /\ sinceEmpty' = sinceEmpty
        BY <1>1, <2>3, <3>2, OrderFacts DEF Fill, TypeOK
      <4>2. disk'["report.json"] = disk["report.json"]
        <5>1. Order[next] # "report.json"
          BY <3>2, <4>1, OrderFacts
        <5> QED BY <1>1, <1>2, <4>1, <5>1 DEF TypeOK
      <4>3. sinceEmpty <= 1 => sinceEmpty = 1
        BY <1>n, <4>1 DEF IInv, FreshInv
      <4> QED BY <4>1, <4>2, <4>3 DEF IInv, FreshInv, ReportCommits, Whole
    <3> QED BY <3>1, <3>2
  <2>4. CASE Collect
    BY <2>4 DEF Collect, IInv, FreshInv, ReportCommits, Whole
  <2>5. CASE Stop
    BY <2>5 DEF Stop, Finish, IInv, FreshInv, ReportCommits, Whole
  <2>6. CASE Empty
    BY <1>2, <2>6 DEF Empty, FreshInv, ReportCommits, Whole
  <2>7. CASE UNCHANGED vars
    BY <2>7 DEF vars, IInv, FreshInv, ReportCommits, Whole
  <2> QED BY <2>1, <2>2, <2>3, <2>4, <2>5, <2>6, <2>7 DEF Next, WriteStep
<1> QED BY <1>1, <1>3 DEF IInv

\* report.json commits the first run in a directory, wherever that run stopped.
THEOREM ReportIsCommit == Spec => []ReportCommits
<1>1. IInv => ReportCommits
  BY DEF IInv
<1> QED BY <1>1, InitInv, StepInv, PTL DEF Spec

\* A run that gets as far as its report leaves nothing of earlier runs behind.
THEOREM CompletedRunsCommit == Spec => CompletedRunCommits
<1>1. IInv /\ [Next]_vars =>
        [pc = "fill" /\ next = Len(Order) /\ disk'["report.json"] = run =>
           /\ \A f \in File : disk'[f] = run
           /\ \A f \in Collected : listed'[f] = run]_vars
  <2> SUFFICES ASSUME IInv, Next, pc = "fill", next = Len(Order), disk'["report.json"] = run
               PROVE  /\ \A f \in File : disk'[f] = run
                      /\ \A f \in Collected : listed'[f] = run
    OBVIOUS
  <2>1. next = 8 /\ disk["report.json"] = Torn /\ run # Torn
    BY OrderFacts, OutcomeAssumption DEF IInv, ProgressInv, TypeOK
  <2>2. Fill \/ Stop
    BY DEF Next, Start, WriteStep, Open, Collect, Empty
  <2>3. ~Stop
    BY <2>1 DEF Stop
  <2> QED BY <2>1, <2>2, <2>3, LastFill DEF IInv
<1> QED BY <1>1, InitInv, StepInv, PTL DEF Spec, CompletedRunCommits
=============================================================================
