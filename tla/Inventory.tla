------------------------------ MODULE Inventory ------------------------------
(***************************************************************************)
(* engine.BuildInventory: the walk over the repository that a run or a     *)
(* suite makes when its artifacts are written, to count directories, files *)
(* and lines.  A place is the sequence of the names on its way from the    *)
(* root; which places are there may change while the walk is going on.     *)
(*                                                                         *)
(* filepath.WalkDir calls the walk function once for each entry it has     *)
(* listed, and lists a directory that was not skipped right after that     *)
(* call.  It goes by name; no count depends on that, so here any place     *)
(* that is listed may come next.                                           *)
(***************************************************************************)
EXTENDS Naturals, Sequences, FiniteSets, SequencesExt

CONSTANTS
  Place,          \* the places of the tree, the root <<>> apart
  Kind,           \* "dir", "regular" or "other": links, sockets, pipes
  Extension,      \* of a name
  Content,        \* of a regular file, a sequence of "byte" and "newline"
  Lower,          \* a name in lower case
  OfToolchain,    \* the lower-case names that contain "toolchain"
  MaxEdits

Parent(p) == Front(p)
NameOf(p) == Last(p)

ASSUME InventoryAssumption ==
  /\ Place \subseteq Seq(DOMAIN Lower) \ {<<>>} /\ MaxEdits \in Nat
  /\ \A p \in Place :
       /\ Parent(p) = <<>> \/ (Parent(p) \in Place /\ Kind[Parent(p)] = "dir")
       /\ Kind[p] \in {"dir", "regular", "other"}
       /\ Kind[p] = "regular" => Content[p] \in Seq({"byte", "newline"})

VARIABLES
  there,      \* the places that exist now
  listed,     \* the places WalkDir has listed and not visited
  visited,    \* the places the walk function was called for
  inventory,  \* the counters
  pc, edits,
  quiet       \* ghost: no edit since the walk began

vars == <<there, listed, visited, inventory, pc, edits, quiet>>

NoInventory ==
  [dirs |-> 0, files |-> 0, lines |-> 0, goFiles |-> 0, goLines |-> 0,
   goooFiles |-> 0, goooLines |-> 0, callerOutputExcluded |-> TRUE]

Names == {".git", ".cache", "cache", "vendor", "toolchain", "toolchains", "node_modules"}

\* A fault to catch: the name is compared as it is written.
ExcludedAsWritten(p) ==
  Kind[p] = "dir" /\ (NameOf(p) \in Names \/ NameOf(p) \in OfToolchain)

ExcludedDirectory(p) ==
  Kind[p] = "dir" /\ (Lower[NameOf(p)] \in Names \/ Lower[NameOf(p)] \in OfToolchain)

\* Another: README.md is left out wherever it is.
LeftOutAnywhere(p) == Kind[p] # "dir" /\ (NameOf(p) = "README.md" \/ Kind[p] # "regular")

\* What is no directory is left out when it is the README.md of the root, or
\* when it is not a regular file.
LeftOut(p) == Kind[p] # "dir" /\ (p = <<"README.md">> \/ Kind[p] # "regular")

\* A last line without a newline is a line.
PhysicalLineCount(bytes) ==
  LET newlines == {i \in DOMAIN bytes : bytes[i] = "newline"}
  IN  Cardinality(newlines) + IF bytes # <<>> /\ Len(bytes) \notin newlines THEN 1 ELSE 0

Tree(t) == t \subseteq Place /\ \A p \in t : Parent(p) \in t \union {<<>>}

In(dir) == {p \in there : Parent(p) = dir}

Init ==
  /\ there \in {t \in SUBSET Place : Tree(t)}
  /\ listed = {} /\ visited = {} /\ inventory = NoInventory
  /\ pc = "idle" /\ edits = 0 /\ quiet = TRUE

-----------------------------------------------------------------------------
(* The walk *)

Begin ==
  /\ pc = "idle"
  /\ listed' = In(<<>>)
  /\ pc' = "walk" /\ quiet' = TRUE
  /\ UNCHANGED <<there, visited, inventory, edits>>

Visit(p) ==
  /\ pc = "walk" /\ p \in listed
  /\ visited' = visited \union {p}

\* An excluded directory is not listed, and whether it is still there not seen.
Skip(p) ==
  /\ Visit(p) /\ (ExcludedDirectory(p) \/ LeftOut(p))
  /\ listed' = listed \ {p}
  /\ UNCHANGED <<there, inventory, pc, edits, quiet>>

EnterDirectory(p) ==
  /\ Visit(p) /\ Kind[p] = "dir" /\ ~ExcludedDirectory(p) /\ p \in there
  /\ inventory' = [inventory EXCEPT !.dirs = @ + 1]
  /\ listed' = (listed \ {p}) \union In(p)
  /\ UNCHANGED <<there, pc, edits, quiet>>

If(condition, n) == IF condition THEN n ELSE 0

Adding(p) ==
  LET lines == PhysicalLineCount(Content[p])
      go    == Extension[NameOf(p)] = ".go"
      gooo  == Extension[NameOf(p)] = ".gooo"
  IN  [inventory EXCEPT
         !.files = @ + 1, !.lines = @ + lines,
         !.goFiles = @ + If(go, 1), !.goLines = @ + If(go, lines),
         !.goooFiles = @ + If(gooo, 1), !.goooLines = @ + If(gooo, lines)]

CountFile(p) ==
  /\ Visit(p) /\ Kind[p] = "regular" /\ ~LeftOut(p) /\ p \in there
  /\ inventory' = Adding(p)
  /\ listed' = listed \ {p}
  /\ UNCHANGED <<there, pc, edits, quiet>>

\* A fault to catch: the rest of the walk is still to do after an error.
VanishedGoingOn(p) ==
  /\ Visit(p) /\ ~ExcludedDirectory(p) /\ ~LeftOut(p) /\ p \notin there
  /\ listed' = listed \ {p} /\ pc' = "failed"
  /\ UNCHANGED <<there, inventory, edits, quiet>>

\* Another: what has gone is looked for until it is back.
VanishedAwaited(p) ==
  /\ Visit(p) /\ ~ExcludedDirectory(p) /\ ~LeftOut(p) /\ p \notin there
  /\ UNCHANGED <<there, listed, inventory, pc, edits, quiet>>

\* A directory or a file that went since it was listed: the run ends in an error.
Vanished(p) ==
  /\ Visit(p) /\ ~ExcludedDirectory(p) /\ ~LeftOut(p) /\ p \notin there
  /\ listed' = {} /\ pc' = "failed"
  /\ UNCHANGED <<there, inventory, edits, quiet>>

Done ==
  /\ pc = "walk" /\ listed = {}
  /\ pc' = "done"
  /\ UNCHANGED <<there, listed, visited, inventory, edits, quiet>>

WalkStep ==
  Done \/ \E p \in Place : Skip(p) \/ EnterDirectory(p) \/ CountFile(p) \/ Vanished(p)

-----------------------------------------------------------------------------
(* Everybody else *)

\* A place and all that is in it goes, or a place is made in a directory.
Edit ==
  /\ edits < MaxEdits
  /\ edits' = edits + 1 /\ quiet' = FALSE
  /\ \/ \E p \in there : there' = {q \in there : ~IsPrefix(p, q)}
     \/ \E p \in Place \ there : Tree(there \union {p}) /\ there' = there \union {p}
  /\ UNCHANGED <<listed, visited, inventory, pc>>

Next == Begin \/ WalkStep \/ Edit

Spec == Init /\ [][Next]_vars

\* A walk goes on; it is started by a run that goes on.
FairSpec == Spec /\ WF_vars(Begin \/ WalkStep)

-----------------------------------------------------------------------------
(* Correctness *)

\* The tree is a tree, counters count, and nothing is left to visit once the
\* walk is over.
TypeOK ==
  /\ Tree(there) /\ listed \subseteq Place /\ visited \subseteq Place
  /\ DOMAIN inventory = DOMAIN NoInventory
  /\ \A c \in DOMAIN inventory \ {"callerOutputExcluded"} : inventory[c] \in Nat
  /\ pc \in {"idle", "walk", "done", "failed"} /\ (pc # "walk" => listed = {})
  /\ edits \in 0 .. MaxEdits /\ quiet \in BOOLEAN

\* The n-th directory on the way to p has a name that hides what is in it.
Hidden(p, n) == Kind[SubSeq(p, 1, n)] = "dir" /\ Lower[p[n]] \in Names \union OfToolchain

Counts(p) ==
  /\ \A n \in DOMAIN p : ~Hidden(p, n)
  /\ Kind[p] = "dir" \/ (Kind[p] = "regular" /\ p # <<"README.md">>)

FilesOf(places) == {p \in places : Counts(p) /\ Kind[p] = "regular"}

\* A line is a file and the line's number in it.
LinesIn(p) == {p} \X (1 .. PhysicalLineCount(Content[p]))

LinesAt(places) == UNION {LinesIn(p) : p \in FilesOf(places)}

LinesOf(places) == Cardinality(LinesAt(places))

With(places, ext) == {p \in places : Extension[NameOf(p)] = ext}

\* What the counters have to be for a tree of these places.
InventoryOf(places) ==
  [dirs      |-> Cardinality({p \in places : Counts(p) /\ Kind[p] = "dir"}),
   files     |-> Cardinality(FilesOf(places)),
   lines     |-> LinesOf(places),
   goFiles   |-> Cardinality(FilesOf(With(places, ".go"))),
   goLines   |-> LinesOf(With(places, ".go")),
   goooFiles |-> Cardinality(FilesOf(With(places, ".gooo"))),
   goooLines |-> LinesOf(With(places, ".gooo")),
   callerOutputExcluded |-> TRUE]

\* Whatever comes and goes meanwhile, nothing below an excluded directory is
\* visited, and every visited place is counted exactly once, in the counters it
\* belongs to: a file that goes and comes back is not counted twice
\* (inventory.go:29-58, 64-71).
CountsVisitedOnce ==
  /\ \A p \in visited : \A n \in 1 .. Len(p) - 1 : ~Hidden(p, n)
  /\ pc # "failed" => inventory = InventoryOf(visited)

\* When the tree does not change, the walk succeeds and its counts are those of
\* the tree, every directory, file and line in it, the output directory of the
\* run too when it lies inside (inventory.go:18-61).
QuietCountsAreExact ==
  /\ pc = "failed" => ~quiet
  /\ pc = "done" /\ quiet => inventory = InventoryOf(there)

\* A walk comes to an end, with counts or an error, also while files come and go.
WalkEnds == <>(pc \in {"done", "failed"})
=============================================================================
