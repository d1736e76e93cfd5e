-------------------------- MODULE OutputDirectory --------------------------
(***************************************************************************)
(* What runs leave in the output directory that their caller owns.  A run  *)
(* writes six files in a fixed order, reads them back to put their digests *)
(* into the report, and writes the human report and, last, report.json.    *)
(* A file is truncated before it is filled, so a run that is killed, or a  *)
(* write that fails, leaves one torn file and the later ones as they were. *)
(*                                                                         *)
(* The content of a file is the outcome of the run that wrote it.  One run *)
(* at a time uses a directory; between runs the caller may empty it, and   *)
(* may also leave it as it is.                                             *)
(***************************************************************************)
EXTENDS Naturals, Sequences, Functions

CONSTANTS
  Outcome,   \* what runs decide: other inputs give other artifacts
  MaxRuns,   \* bound on the runs of a behaviour
  Absent, Torn, NoRun

\* The order of the writes in Run.
Order == <<"dependency-graph.json", "semantic-ir.json", "test-plan.json", "execution.json",
           "reuse-receipt.json", "generated/program.go", "human-report.md", "report.json">>

File == Range(Order)

\* The files whose digests the report carries: all that are written before it is made.
Collected == {Order[i] : i \in 1 .. 6}

Content == Outcome \union {Absent, Torn}

ASSUME OutcomeAssumption ==
  Absent \notin Outcome /\ Torn \notin Outcome /\ NoRun \notin Outcome /\ MaxRuns \in Nat

VARIABLES
  disk,      \* the files
  listed,    \* what the digests in report.json are digests of
  pc,        \* "idle", "open", "fill" or "collect"
  run,       \* the outcome of the run at work
  next,      \* the position in Order of the file being written
  read,      \* what collectArtifacts read back
  runs,      \* how many runs have started ...
  sinceEmpty \* ... and how many of them since the directory was empty

vars == <<disk, listed, pc, run, next, read, runs, sinceEmpty>>

NothingRead == [f \in Collected |-> Absent]

Init ==
  /\ disk = [f \in File |-> Absent] /\ listed = NothingRead
  /\ pc = "idle" /\ run = NoRun /\ next = 1 /\ read = NothingRead
  /\ runs = 0 /\ sinceEmpty = 0

\* ensureOutputDir does not mind what the directory holds.
Start(outcome) ==
  /\ pc = "idle" /\ runs < MaxRuns
  /\ pc' = "open" /\ run' = outcome /\ next' = 1 /\ read' = NothingRead
  /\ runs' = runs + 1 /\ sinceEmpty' = sinceEmpty + 1
  /\ UNCHANGED <<disk, listed>>

\* os.WriteFile creates or truncates the file ...
Open ==
  /\ pc = "open"
  /\ disk' = [disk EXCEPT ![Order[next]] = Torn]
  /\ pc' = "fill"
  /\ UNCHANGED <<listed, run, next, read, runs, sinceEmpty>>

Finish == pc' = "idle" /\ run' = NoRun /\ next' = 1 /\ read' = NothingRead

\* Faults to catch: the run goes on past its last file; the digests are taken
\* before the generated program is written.
FillPastTheEnd ==
  /\ pc = "fill"
  /\ disk' = [disk EXCEPT ![Order[next]] = run]
  /\ next' = next + 1
  /\ pc' = IF Order[next] = "generated/program.go" THEN "collect" ELSE "open"
  /\ UNCHANGED <<listed, run, read, runs, sinceEmpty>>

FillCollectingEarly ==
  /\ pc = "fill"
  /\ disk' = [disk EXCEPT ![Order[next]] = run]
  /\ listed' = IF Order[next] = "report.json" THEN read ELSE listed
  /\ IF next = Len(Order)
     THEN Finish
     ELSE /\ next' = next + 1
          /\ pc' = IF Order[next] = "reuse-receipt.json" THEN "collect" ELSE "open"
          /\ UNCHANGED <<run, read>>
  /\ UNCHANGED <<runs, sinceEmpty>>

\* ... and fills it.  After the generated program come the inventory and the
\* digests; after report.json the run is done.
Fill ==
  /\ pc = "fill"
  /\ disk' = [disk EXCEPT ![Order[next]] = run]
  /\ listed' = IF Order[next] = "report.json" THEN read ELSE listed
  /\ IF next = Len(Order)
     THEN Finish
     ELSE /\ next' = next + 1
          /\ pc' = IF Order[next] = "generated/program.go" THEN "collect" ELSE "open"
          /\ UNCHANGED <<run, read>>
  /\ UNCHANGED <<runs, sinceEmpty>>

\* A fault to catch: digests that an earlier report listed are not taken again.
CollectOnce ==
  /\ pc = "collect"
  /\ read' = IF listed # NothingRead THEN listed ELSE [f \in Collected |-> disk[f]]
  /\ pc' = "open"
  /\ UNCHANGED <<disk, listed, run, next, runs, sinceEmpty>>

\* collectArtifacts reads the six files back.
Collect ==
  /\ pc = "collect"
  /\ read' = [f \in Collected |-> disk[f]]
  /\ pc' = "open"
  /\ UNCHANGED <<disk, listed, run, next, runs, sinceEmpty>>

\* The process is killed, a write fails, or BuildInventory does.
Stop == pc # "idle" /\ Finish /\ UNCHANGED <<disk, listed, runs, sinceEmpty>>

\* The caller makes room for the next run.
Empty ==
  /\ pc = "idle"
  /\ disk' = [f \in File |-> Absent] /\ listed' = NothingRead /\ sinceEmpty' = 0
  /\ UNCHANGED <<pc, run, next, read, runs>>

WriteStep == Open \/ Fill \/ Collect

Next == (\E outcome \in Outcome : Start(outcome)) \/ WriteStep \/ Stop \/ Empty

Spec == Init /\ [][Next]_vars

-----------------------------------------------------------------------------
\* Files and digests are of outcomes, and positions are positions.
TypeOK ==
  /\ disk \in [File -> Content]
  /\ listed \in [Collected -> Content]
  /\ pc \in {"idle", "open", "fill", "collect"}
  /\ run \in Outcome \union {NoRun}
  /\ pc # "idle" => run # NoRun
  /\ next \in 1 .. Len(Order)
  /\ read \in [Collected -> Content]
  /\ runs \in 0 .. MaxRuns
  /\ sinceEmpty \in 0 .. runs

Whole(f) == disk[f] \in Outcome

\* report.json is the commit record of a directory that one run has used since
\* it was empty: when it is whole, so is every other file, all are of the same
\* run, and their digests are the listed ones, wherever a run may have stopped
\* (engine.go:171-252).
ReportCommits ==
  sinceEmpty <= 1 /\ Whole("report.json") =>
    /\ \A f \in File : disk[f] = disk["report.json"]
    /\ \A f \in Collected : listed[f] = disk[f]

\* A directory in which runs stopped half way is not spoiled: the next run that
\* writes a report leaves every file its own and lists their digests, whatever
\* it found there (engine.go:156-252).
CompletedRunCommits ==
  [][pc = "fill" /\ next = Len(Order) /\ disk'["report.json"] = run =>
       /\ \A f \in File : disk'[f] = run
       /\ \A f \in Collected : listed'[f] = run]_vars
=============================================================================
