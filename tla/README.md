# Proof-aware test reuse, specified

The program under `src/` decides, for one test obligation of a `.gooo` source,
whether the test must run (`SELECTED`), may be skipped because an exact PASS
receipt proves it (`REUSED`), or is blocked (`UNKNOWN`, `REFUTED`). This
directory holds TLA+ models of how it decides, of the suite, scripts and release
job around it, TLC configurations that check them on small instances, and TLAPS
proofs of what matters most for every instance. Everything is translated from the
code; line numbers without a path are of `src/internal/engine/`, those of
`conformance.sh` and `release.yml` of `src/scripts/` and `src/.github/workflows/`.

## The system

| Component | State | Operations | Hard behaviour | What makes it correct |
|---|---|---|---|---|
| Dependency graph, `buildDependencyGraph` (engine.go:386) | adjacency lists, one `seen` map and queue per impacted node, the flag | one search from each impacted node | cycles, self loops, duplicate edges, several starts, `break` out of one search but not of the outer loop | the flag is raised exactly when an impacted node reaches the obligation; the search ends |
| Planner, `validateProgram`, `graphRefutations`, `inspectReceipts`, `receiptMatches`, `Reduce`, and the body of `Run` | none: pure | claims, decision, action, frontier, verification, outgoing receipt | early returns that hide other claims; what it writes against what it accepts | precedence; full and incremental modes do not contradict each other |
| Evaluator run, `Run` (engine.go:38) | what has been read so far; on disk meta, contract, source, fixture, receipts | read each file, decide, write a receipt | inputs rewritten between two reads, killed runs, receipts carried from run to run | only proved facts are reused; a run behind whose back nothing changed is atomic and reuses exactly what is licensed; closure takes every receipt the program names |
| Output directory, `Run` and `collectArtifacts` | eight files and the digests in the report | write in a fixed order, read back, report | killed half way, directories used again | `report.json` commits a run; a completed run repairs what stopped ones left |
| Suite, `RunSuite` (engine.go:263) and its gate (conformance.sh:16) | case directories, counters, `suite-report.json` | run every contract case, count, compare with the expected decision, pass or fail | an error in the middle, the contract re-read per case, a directory used again | a report is the verdict on a whole denominator and stands for what is in the directories; the gate passes on nothing older |
| Parser, `ParseMeta`, `ParseProgram` (parse.go) | what was gathered so far | lines to records, validation of the whole | last line wins, unknown lines ignored, early error returns | what is gathered is what the file says; what restricts a program reaches the planner |
| Inventory, `BuildInventory` | counters | walk and count | files come and go, exclusions by name, counts its own output | every visited place is counted once; counts of an unchanged tree are exact |
| Matched pair, `conformance.sh` | work directory: two reports, measurements, the pair file | full run, test, incremental run, classify, accept | a stage fails and its files stay, inputs change between the runs, one policy in two wordings | a passed pair is proved and, with no edit between its runs, matched; classifier and gate agree |
| Release job, `release.yml` | branch, tag, release, asset | checkout, test, tag, draft, upload, publish, verify | jobs race, `main` moves, the job dies half way and is started over, people meddle | what a green job verified lasts; a release is the work of one attempt |
| Command line, `cmd/` | none | flags, exit codes | — | success means that there is a report, whatever it says |
| `integration.sh`, `assemble-ci-evidence.sh`, `conformance.yml` | files of one job | run, look, collect | — | — |

How they interact: `Run` calls parser, planner and dependency graph in sequence,
then writes its files and walks the repository; it shares the input files with
whoever edits them and the output directory with its caller. There are no
goroutines and no locks. Concurrency enters through the file system: a run takes
each input at a different instant, and a receipt that one run wrote is, once
somebody copies it into the receipts directory, an input of the next. `RunSuite`
calls `Run` once per contract case. `conformance.sh` calls a suite, then two runs,
and leaves its files to its next attempt. The release job calls that script and
then shares a server with other jobs and with people.

## The modules

| Module | Models | Depends on |
|---|---|---|
| `Reachability` | what "has a path" means: a set closed under the edges separates no pair | — |
| `DependencyGraph` | `buildDependencyGraph` as the loop it is, one action per pop, per visited edge and per loop exit | `Reachability` |
| `Planning` | the pure part of `Run`, one operator per function | `Reachability` |
| `Evaluator` | `Run` as a process, one action per file it reads, with an environment that edits the files, kills the run and republishes receipts | `Planning` |
| `ReuseLedger` | the abstract promise: a fact may be reused only when it is proved, and is proved by being selected | — |
| `OutputDirectory` | the eight writes, the read-back, stopped runs | — |
| `Suite` | `RunSuite`, one action per case, and the gate behind it | — |
| `GoooParser` | `ParseMeta` and `ParseProgram`, one action per line | `Planning` |
| `Inventory` | `BuildInventory`, one action per call of the walk function | — |
| `MatchedPair` | the second half of `conformance.sh`, one action per stage | `Planning` |
| `Release` | `release.yml`, one action per step that matters to others | — |
| `VersionLifecycle` | the abstract promise of `Release`: a version is claimed once, goes forward, and is given up with its owner | — |
| `…Proofs` | theorems | the module of that name |
| `MC…` | small instances | the module of that name |

**`DependencyGraph`.** `edges` is `program.Edges` in file order. `adjacency[n]` is
the sublist of edges that leave `n`, so scanning `edges` and skipping the others
visits it in the same order (`VisitEdge`). `PickStart` is one round of
the outer loop with its fresh `seen` and `queue`; `PopTarget` is the branch with
the `break`. The code sorts the impacted nodes; the model takes them in any order,
which covers the sorted one.

**`Planning`.** `PathToTarget` is defined by reachability rather than by running
the search: theorem `Exactness` says the two agree. Claims are sets of reasons;
their order decides only which one a report prints first. `PlanFor` is the whole
of engine.go:62–147 apart from wording, `ResultReceipt` the receipt at 183.

**`Evaluator`.** The variables `meta`, `source`, `contract`, `fixtures`, `store`
are the input files as they are now; `run` is what the process holds in memory;
`plan` exists from `Decide` to `EmitReceipt`; `emitted` is `reuse-receipt.json`.
The contract is read twice, for its digest (`DigestContract`) and for its contents
(`ParseContract`), as `loadContract` does; the source once, because
`ParseProgram` hashes and parses the same bytes. `LoadReceipt` is one turn of the
loop of `inspectReceipts`. Every error return is a disjunct of `ReturnError`.
`Crash` may happen before any step. `Decide` is one step because no file is touched
between the last receipt and the first write.

The programs a run may read are a constant function `ProgramOf` from sources to
what the parser makes of them. A program has exactly one obligation because
`ParseProgram` refuses any other number (parse.go:150).

**`OutputDirectory`.** The content of a file is the outcome of the run that wrote
it, or `Torn` between truncation and filling. `Fill` of `report.json` is the last
act of a run. `Stop` is a kill, a failed write or a failed `BuildInventory`.

**`Suite`.** `suite` is what `RunSuite` holds in memory, `dirs` the case
directories, `report` the file `suite-report.json`, torn between truncation and
filling. `RunCase` is one turn of the loop whose `Run` returns a report: any decision
with an action that goes with it, so that no property rests on what cases happen to
decide; that `Run` reads the contract at one instant here, since `Evaluator` is about
the reads inside a run. `Stop` is every error return and a kill, and leaves the
directory of the running case as it was or half written. A contract is given by its
cases and by whether it belongs to `WellFormed`, which stands for the schema, the fixed
flag, the precedence and the fields that must not be empty. `DirOf` says which directory
a case id names once `filepath.Join` has cleaned it (`CaseOut`): two ids that
`validateContract` takes for different may name one, and the later case overwrites the
earlier. `Gate` is the `jq` condition
of the script, which `set -e` reaches only when the suite exits with 0.

**`GoooParser`.** A line is its first word, whether a space follows, and the text
behind. `HasPrefix(line, "impact ")` on a trimmed and cut line asks for all three,
which is `Says`. What `strconv.Unquote`, `strings.Fields` and `strings.Split` make of a
text is whether it belongs to `WellFormed` of its word. `Refuse` is the first error of
a line and a line too long for `bufio.Scanner`; `Accept` and `Reject` are the
validation of the whole. Both parsers are one module because they share `scanLines` and
differ in the words of their switch.

**`Inventory`.** A place is the sequence of the names on its way from the root.
`listed` is what `filepath.WalkDir` has read from directories and not yet visited: it
visits what it listed even if that has gone (`Vanished`), and lists a directory right
after visiting it. The order of names is left open.

**`MatchedPair`.** `before` and `after` are the two `report.json`, `pair` the file that
`jq` writes. A plan is `PlanFor` of `Planning` on the inputs of that instant. `Observed`,
`ClaimOf` and `Classified` translate the first statement of the indicator policy
(conformance.sh:73-87), `ExpectedObservation` and `ExpectedClaim` the second
(116-127). Every stage may exit with an error (`Stop`); the script then ends because of
`set -e`, `measure-stage.sh` passes the error on, and the files stay. The generated
program of the first run prints its declared output, a sequence of pieces of which some
are newlines or NUL bytes. `TestBefore` compares with the greeting what the shell makes of
that output (`Captured`): `$(...)` drops NULs, and then the newlines at the end, so that
more than one output passes. The second program is built and not run. A program names one
receipt or none here (`Loaded`): several only block the second run, which `Evaluator`
covers.

**`Release`.** `job` is what each job knows, `tag`, `release` and `asset` what GitHub
has. `Checkout` records the tip of `main` and the tags it fetched; `Tag` looks for the
tag in what was fetched and pushes it, which GitHub refuses when it is there by now.
`Fail` may come before or after the effect of a step, since the effect and the next
`pc` of a step are one action and `Fail` is possible on both sides of it. `Rerun`
starts a job over with its old `GITHUB_SHA`. `ReplaceAsset` and `MoveTag` are people
with write access; nobody deletes a release or a tag. The ghost `owner` says who pushed a tag, `touched` whether anybody
meddled.

## Assumptions

* SHA-256 is injective on the contents that occur (`Digest`). Nothing is proved
  about a program whose digests collide.
* `proved` is the set of facts (obligation and proof key) that some run
  **selected**, or that an outside PASS receipt names. The code marks a selected
  obligation as verified without running a test in the same process
  (engine.go:141): the execution happens in the integration workflow. Grounded
  reuse therefore means "selected under this key before", not "passed before".
* `quiet` is a ghost of its own in each module. In `Evaluator`: no file changed
  since the run read it (`HasMeta`, `HasReceipt` and so on say what it has read); in
  `Suite`: the contract was not edited between the first read of the suite and its last
  case; in `MatchedPair`: no edit between the two runs of the attempt; in `Inventory`: the
  tree did not change during the walk.
* One run at a time reads these files, and one run at a time writes an output
  directory. The README of the program calls that directory caller-owned.
* Of `Suite`, too, one at a time uses a directory, and one attempt of `conformance.sh`
  its work directory.
* Case directories of a suite coincide or lie apart: an id with a path that leaves
  `cases`, or that lies inside the directory of another case, is not in the model.
* Of GitHub, which is outside the repository, `Release` assumes what the workflow
  relies on: a tag that exists is not replaced by a push, a draft is created and an
  asset uploaded only where there is none, an immutable release that is published locks
  its asset and its tag, a re-run keeps `GITHUB_SHA`. That nobody deletes a release or a tag
  is assumed, too; what a green job verified lasts no longer than that. `main` only moves forward, a job
  may be dispatched on another branch, and asset digests of different attempts differ.
  Whether the repository has immutable releases is not known to the workflow and does
  not change.
* A directory that cannot be read, or a file that changes its kind between being
  listed and visited, is not among the changes of `Inventory`.
* `ConstantsAssumption` and `MarksAssumption` of `Evaluator` give the constants
  their types and say that the marks (`Missing`, `NoPlan` and so on) are none of
  the things they stand in for; `GraphAssumption` says that the target is a node
  and edges join nodes; `OutcomeAssumption`,
  `SuiteAssumption`, `TextAssumption`, `PairAssumption` and those of `Release` are of the
  same kind. `InventoryAssumption` says that places are non-empty sequences of names, that
  what a place lies in is the root or a directory, and that a file has bytes.

## The runs

| Run | Checks | Shows |
|---|---|---|
| `graph_search` | `TypeOK`, `SearchIsExact`, `EachNodeOnce`, `SearchReturns` | the search is exact and ends, on every graph of the bound |
| `evaluator` | `TypeOK`, `ReuseGrounded`, `OwnReceiptVerifies`, `IssuedProofHonoured`, `LedgerSpec` | two runs among edits, crashes and republished receipts reuse only what was proved, close on what they wrote exactly under the accepted schema, and implement `ReuseLedger` |
| `evaluator_plans` | `ModesAgree`, `QuietRunIsAtomic`, `ReuseIsLicensed`, `ClosureNeedsEveryReceipt` | one run on every kind of source and receipt, with a file changed before or during its reads: it plans as at one instant and reuses exactly what the files license, unless the change was behind its back; nothing closes on a receipt that is missing or not a PASS |
| `output_directory` | `TypeOK`, `ReportCommits`, `CompletedRunCommits` | what stopped and completed runs leave |
| `suite` | `TypeOK`, `TalliesAddUp`, `ReportIsWholeVerdict`, `ReportStandsForCases`, `GateIsEarned`, `QuietSuiteHasOneContract`, `SuiteEnds` | what two suites, stopped anywhere and with the contract edited, leave behind, what the gate passes on, and that a started suite ends |
| `gooo_parser` | `TypeOK`, `ScanIsExact`, `VerdictIsExact`, `RestrictionsReachThePlan` | what a file says is what is gathered, what it is accepted for, and what the planner sees |
| `matched_pair` | `TypeOK`, `WrittenPairIsAccepted`, `PassedPairIsProved`, `QuietPairIsMatched` | two attempts in one work directory, with edits between any stages |
| `release` | `TypeOK`, `SuccessLasts`, `ReleaseIsOfOneAttempt`, `LifecycleSpec`, `ClaimsAreSettled` | two jobs and their reruns among pushes and meddlers; they implement `VersionLifecycle`, and a claimed version does not stay pending |
| `inventory` | `TypeOK`, `CountsVisitedOnce`, `QuietCountsAreExact`, `WalkEnds` | walks over every subtree of a small tree that changes |
| `stale_result`, `empty_impact`, `release_evidence` | `ReusedResultMatches`, `EmptyImpactRefused`, `EvidenceIsOfTaggedCommit` | three of the disagreements below, each as a counterexample |

### Bounds, and why they are enough

* `graph_search`: three nodes and up to three edges, with duplicates and self
  loops, every set of impacted nodes. Three edges give a cycle that misses the
  target, a path of length two, and a start that fails before one that succeeds,
  which are all the branches the loop has. Theorem `Exactness` covers every other
  size.
* `evaluator`: two runs and two edits. Two runs are the least for a receipt to be
  written by one and read by the other; two edits are the least to publish it and to
  change one more file, before or between the reads. Two receipts' names give one
  present and one missing; two contracts give a valid and an invalid one; two
  contents of the fixture give a stale key. Two meta files differ in the receipt
  schema.
* `evaluator_plans`: all thirteen sources and all ten outside receipts but one run and
  one edit, since its properties are about one run and what changes before or during
  it: a second run would only repeat the first.
* `output_directory`: three runs and two outcomes, enough for a mixed directory and
  a completed run after it.
* `suite`: `PerState` is 1 and not 3, so a denominator has three cases, one of each
  expected state; two suites and one edit. One case before and one after the one that
  stops, a second suite in the directory of a stopped one, and an edit between any two
  reads are all there. Of the seven contracts two are valid, one of them with two ids for
  one directory; the others have a wrong schema, flag, precedence or empty field (one
  contract for all of these), too few cases, an id twice, a state that is none, and
  unequal numbers of states.
  `SuiteProofs` covers every `PerState`.
* `gooo_parser`: a least program and a least meta file with up to two lines put in at
  any place, one taken out or two neighbours swapped. Two lines are enough for one to
  follow, precede or repeat another; every word that is checked at the end is missing
  in some file. `GoooParserProofs` covers every file.
* `matched_pair`: two attempts and two edits; two measured indicators stand for the
  four, which are treated alike, and two amounts give an increase, a decrease and no
  change. Eight sources, two contracts and five receipts differ from the greeting example
  in one respect each; one source prints the greeting with NULs and newlines behind it,
  one prints a second line.
* `release`: two jobs of two attempts, one version and two commits, enough for two
  jobs or two attempts to race for the version and for `main` to move in between. Jobs
  of different versions share nothing but `main`; `ReleaseProofs` covers any number of
  either. There is no symmetry, which is not sound for liveness.
* `inventory`: ten places, among them a directory whose name is excluded in another
  case, a README.md at the root and below, a link, and an output directory; two edits, so
  that a file may go and come back while the walk goes on. `InventoryProofs` covers every
  tree.

Deadlock is not checked where behaviours stop because a bound is used up (`MaxRuns`,
`MaxEdits`, `MaxSuites`, `MaxAttempts`) or because what is modelled is done (a parse, a
walk).

### Fairness

`DependencyGraph` and `Inventory` ask for weak fairness of their own next
step: each is a plain loop in a process that Go continues, and none of its steps waits
for anything. `Suite` asks the same for a suite that was started, its gate and the
script between. Starting a suite, crashing and editing files are not fair, and no strong
fairness is used; edits may go on beside a walk or a suite (as far as `MaxEdits`).
`Release` asks that a job step is taken or the job fails: GitHub ends a job that hangs,
and `Fail` is one of those steps. Nobody is obliged to start a job, or to start it over.
`Evaluator`, `OutputDirectory`, `MatchedPair` and `GoooParser` state no fairness, since
they are straight lines of reads and writes, or one pass over a finite file, and only
their safety is asked about.

## What is proved

All theorems hold for every value of the constants that satisfies the assumptions
above: any number of files, receipts, sources, runs and edits.

* `DependencyGraphProofs`
  * `TypeCorrect`: the types of the search.
  * `Soundness`: at every moment a raised flag means a path exists (`FlagIsSound`, a
    part of the invariant; at the end `SearchIsExact` includes it).
  * `Exactness`: at the end the flag says exactly whether there is one. The
    inductive invariant says of each search that `seen` holds only nodes the start
    reaches, that the queue and the current node are in `seen`, and that every seen
    node is queued, current, or has all its successors in `seen`; when the queue
    is empty `seen` is a set closed under the edges that holds the start and not the
    target, which is what the definition of `Reaches` excludes. A second part keeps
    this for the starts already dealt with.
  * `NodesOnce`: `EachNodeOnce`, from the same invariant (what is queued or being
    visited is marked, and only unmarked nodes are queued).
  * `ReachesIsPath`: `Reaches`, which speaks of closed sets, is the existence of a finite
    sequence of edges. A path from inside a closed set stays inside, since the first of
    its nodes outside would be entered by an edge that leaves the set; and the nodes that
    have a path from the start are a closed set. `PathsDecide` is `Exactness` in these
    terms, so what the search is exact for does not hang on how `Reachability` puts it.
  * `SearchDescends`: an action property. Every step uses up a start; or, with the same
    starts, a node to pop (the queue and the edges whose end is unmarked, together); or,
    with as many, a position of the loop. So a search over finitely many impacts makes
    finitely many steps, whatever the cycles.
* `EvaluatorProofs`
  * `TypeCorrect`: with what a run has read by each point.
  * `ReuseIsGrounded`: `ReuseGrounded` is not inductive, since it speaks of a plan
    and not of where its receipt came from. The invariant says of every PASS receipt
    wherever it is (in the store, in a run's memory, in the output directory) that
    its fact is in `proved`, and of a plan that it is the one `PlanFor` makes of what
    the run has read. A reused receipt matches the plan's key and obligation, so its
    fact is the plan's.
  * `ModesNeverContradict`: from the same invariant, by the definitions of the
    claims. The early return for several receipts is the only place where incremental mode
    drops a refutation, which gives the third part of `ModesAgree`.
  * `EvaluatorImplementsLedger`: the initial states map to initial states of
    `ReuseLedger`; `Decide` maps to `Select`, `Reuse` or `Block`, the end of a run
    that has decided to `Settle`, and every other step stutters.
  * `ClosureNeedsAllReceipts`: a CLOSED decision has no claims, so every receipt that
    was loaded is a PASS and none is noted as missing; `ReadSoFar` says that each
    reference so far gave one or the other, so as many were loaded as are named.
  * `NothingFromNothing`: under the added assumption `NothingCertified` (every
    program names a receipt, no outside receipt is PASS) no run ever writes PASS: a
    chain of reuse has to start outside. The invariant says that no PASS receipt is
    anywhere.
  * `QuietRunsAreAtomic`: `QuietRead` says that what a run has read so far is, if nothing
    changed behind its back, what the files hold now (`EnvironmentQuiet`: an edit of what
    it has not come to keeps that), and that the loaded receipts are those of the first references
    whose file is there, each at the position that its count gives it (`IsSelection`); one
    more receipt goes to the end (`SelectionGrows`).
  * `ReusesAreLicensed`: the policy as one equivalence. `ReuseExactly` says what has to be
    read for a plan to reuse, in both directions; with `QuietRead` and `ReadSoFar` it says
    what the repository has to hold (`Licensed`): nothing invalid, no path from an impact
    to the obligation, one reference, and its file a PASS for the obligation and all five
    digests.
  * `RunsAdvance`: an action property: each step of a run reads a file of those left, or
    ends it, and no edit adds one, since the references are those of the source as read.
  * `OwnReceiptsVerify`, `IssuedProofsAreHonoured`: both speak of the receipt a run
    has loaded; the invariant `OwnInv` says of every receipt anywhere that is not an
    outside one that some source has its obligation, its source digest and its result
    digest, and that a PASS was not written over an open top decision. Equal source
    digests are of equal sources, so the receipt says what the reading run knows; one of
    another schema blocks every run that reads it (`OtherSchemaBlocks`).
* `OutputDirectoryProofs`
  * `TypeCorrect`, `ReportIsCommit` (`ReportCommits`) and `CompletedRunsCommit`, the
    action property. `ProgressInv` says what a run at work has done: every file before
    its position is its own, the file it is writing is torn, and once the digests are
    taken they are its own. `FreshInv` says that a directory's first run has no whole
    report before its last write.
* `SuiteProofs`
  * `TypeCorrect`, and `TalliesAreRight`: appending a case adds one to the cardinality
    that each counter stands for (`DecidingAppend`, `ExpectingAppend`).
  * `ReportsAreWhole`: `Listing` says that what is listed is a prefix of the cases of
    the contract in memory, which is valid; when no case is left it is the denominator.
  * `ReportsStandForCases`: a case directory must survive to the end of the suite, so
    `DirsHeld` says that every case listed so far has a whole directory of this suite, and
    that it is that case's own if no later one listed has the same; `ReportAge` says that no report is of a later suite than the present.
  * `GatesAreEarned`: `GateHeld` says that a gate that passed is followed by nothing but
    the start of another suite, and `ReportAge` that the file at the gate is the present
    suite's while earlier on it may be any old one, which is why the property is not
    inductive by itself.
  * `QuietSuitesHaveOneContract`: `QuietMemory` says the same of the memory of a suite
    between whose reads nobody edited, and that the contract is still the one it digested
    while it has reads to make.
  * `SuitesAdvance`: an action property: no step takes a started suite back, each has
    fewer stages or fewer cases of the denominator before it.
* `GoooParserProofs`
  * `TypeCorrect`, `ScansAreExact`: each list is exact and increasing, each value that
    of the last line; both are kept by one more line.
  * `VerdictsAreExact`: at the end of a file the lists and values are its lines. The
    seven indicators in their order are seven increasing numbers, and the position of
    a number in an increasing list is how many there are up to it (`IncreasingCounts`).
  * `RestrictionsReach`: an accepted program has one obligation line and its last
    decision in `single`; the rest is the definition of the planner's claims.
* `MatchedPairProofs`
  * `TypeCorrect`, with which report is of this attempt at which stage.
  * `WrittenPairsAreAccepted`: `PoliciesAgree` compares the two wordings for all
    integers; `StagesHeld` says what each stage has established of both reports.
  * `PassedPairsAreProved`: `StagesHeld` together with what a plan that reuses says of its
    receipt (`ReusedReceipt`). It says of the output that the shell takes it for the
    greeting, and of the result that it is the digest of the output; it does not say that
    the result is the digest of the greeting.
  * `QuietPairsAreMatched`: `QuietInv` says that the first report is of the inputs as they
    are until the second run, and that the two agree after it.
* `ReleaseProofs`
  * `TypeCorrect`; `SuccessIsLasting`: the verification of an immutable release holds
    at the instant it is made, and a published immutable release has no way to change.
  * `SuccessIsUnique`: two green jobs of one version would both vouch for its one asset,
    which names the attempt that made it, so at most one is green at a time.
  * `ReleasesAreOfOneAttempt`: `ClaimInv` ties the position of a job to what of its
    version is its own: an attempt behind its tag owns the version, behind its upload the
    asset, and no two attempts are behind the tag of one version.
  * `ReleaseImplementsLifecycle`: every step of a job, of `main` and of a meddler is a
    step of `VersionLifecycle` or a stutter, by the same invariant.
* `InventoryProofs`
  * `TypeCorrect`; `VisitedOnce` and `QuietWalksAreExact`: `WalkHeld` says that what is
    listed is not visited, that no directory on the way to it is excluded and that its
    directory was visited; `CountHeld` that the counters are those of the visited places,
    as cardinalities of sets of files and of their lines; `QuietHeld` that in a tree that
    does not change everything in a directory that was visited is known to the walk.
    When nothing is listed any more, everything that counts was visited
    (`OpenIsVisited`): a place nearest to the root for which it were not so would lie in
    a directory that was.
  * `NoPlaceTwice`: an action property: what a step visits was not visited before, so a
    walk of a finite tree ends.

Induction over data is out of the provers' reach where it takes a predicate as a
parameter; where it was needed (a path through a graph, a place in a tree) the proofs
take the least counterexample instead, which exists because `<` on the naturals is
well-founded (`LeastElement`).

What stays with TLC: the liveness properties (`SearchReturns`, `SuiteEnds`,
`ClaimsAreSettled`, `WalkEnds`). Weak fairness is about ENABLED, which the provers do
not treat. For three of them half of the argument is proved: `SearchDescends`,
`SuitesAdvance` and `NoPlaceTwice` say that no step goes round in circles. That a step
is always possible until the end, and so is taken, is what TLC adds. A release job moves
to its next stage with every step.
Every safety and action property and both refinements that the runs check are proved. No
module declares a RECURSIVE operator.

## What disagrees with the documents

Three are runs with the expectation *violation*, whose counterexample is the evidence:

* `ReusedResultMatches`: a receipt with the right key and another result digest is
  reused (engine.go:492), and only noted as not verified; the normative document
  calls such evidence stale.
* `EmptyImpactRefused`: the error "empty impact" (parse.go:125) cannot happen, because
  the line has been trimmed before it is matched; it is passed over, and the program is
  planned without the impact. A slip of the code, and the same for "empty receipt".
* `EvidenceIsOfTaggedCommit`: the job builds and tests `main` as it is at the checkout and
  tags and names the commit of the dispatch (release.yml:24 against 68 and 82).

The others are read off the definitions, which do what the code does:

* Receipts are written in states UNKNOWN and REFUTED, which the meta file does not
  declare (engine.go:550, `ReceiptState`).
* An explicit FAIL among several receipts is UNKNOWN in incremental mode, because the
  function returns before looking (engine.go:468, `ReceiptRefuted`).
* Impacts that do not reach the obligation are not on the frontier (engine.go:81,
  `Frontier`), where the normative document puts every one.
* The receipt is on disk before the generated program (engine.go:196, `Order`), the
  other way round than the end-to-end path has it.
* A later `decision CLOSED` replaces an earlier UNKNOWN one (parse.go:144, `Set`); the
  README has unknown top-level decisions fail closed.
* The pair file says that both runs had the same inputs, which the script writes as a
  constant and compares nowhere (conformance.sh:97, `WritePair`).
* The inventory says that the output directory of the caller is excluded
  (inventory.go:13) and counts it when it lies in the repository (`LeftOut`).
  `QuietCountsAreExact` counts as the code does, so it does not show this.
* The test stage of the matched pair compares what the shell captures
  (conformance.sh:40, `Captured`), and the program prints its output as it is
  (engine.go:522): an output with newlines or NULs behind the greeting passes, and the
  result digest in its report is not that of the greeting.
* Two case ids that a clean path makes equal are two cases to `validateContract`
  (parse.go:286) and one directory to `RunSuite` (engine.go:284, `CaseOut`): the suite
  report lists both, and the artifacts on disk are the later one's
  (`LastInDirectory` in `ReportStandsForCases`).

Two consequences of `ReusedResultMatches` reach further: the matched pair asks for
`reused_proof` and not for `execution_verified` (conformance.sh:44, 98), so it passes on a
receipt with another result; and the program of its second run is built but not run, so
nothing else would notice.

## What is not modelled

* The flags, defaults and printing of the command line. That a command succeeds when
  there is a report, whatever it decides, is in `MatchedPair` and `Suite`.
* `integration.sh`: one more full run and a test of its program, as the first half of
  `MatchedPair`; that `git status` does not change is about a repository the models do
  not have. `assemble-ci-evidence.sh` collects files of earlier steps of one job, and
  `conformance.yml` runs the same steps in a line; neither has state that a later step
  or another process could find changed.
* The time and memory `measure-stage.sh` measures: any amount. Its file of a failed
  stage is written and never read.
* In `Suite`, kind, source path, reason and artifact sizes of a case; the inventory it
  copies from the first one.
* `loadReceipts` (parse.go:309), `DigestJSON` (io.go:27) and `IndicatorObservation`
  (types.go:48), which nothing uses.
* The text of claims (stage, step, next operation, blocked-by) and of the human
  report; the fields of `report.json` other than the digests.
* JSON decoding: a receipt file is a receipt, missing, or corrupt.
* A torn `reuse-receipt.json` in `Evaluator`: it is `Torn` in `OutputDirectory`, and
  whoever copies one puts a `Corrupt` file into the store (`PutReceipt`).

## Plan

Everything planned is there: `DependencyGraph`, `Planning`, `Evaluator`,
`ReuseLedger` and `OutputDirectory` first, then `Suite`, `GoooParser`, `MatchedPair`,
`Release` with `VersionLifecycle`, and `Inventory`, with the proofs above. What could be
added:

1. The step from the measures of `SearchDescends`, `SuitesAdvance` and `NoPlaceTwice` to
   termination, once a prover treats ENABLED.
2. `Evaluator` with the reads of a contract inside a case of `Suite`: the two meet only
   in what a case may decide.
3. The artifacts of earlier jobs that `assemble-ci-evidence.sh` collects, should they
   ever outlive their job.
