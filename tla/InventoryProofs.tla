-------------------------- MODULE InventoryProofs --------------------------
(***************************************************************************)
(* Theorems about Inventory, for every set of places, tree and number of   *)
(* edits.                                                                  *)
(***************************************************************************)
EXTENDS Inventory, FiniteSetTheorems, SequenceTheorems, WellFoundedInduction, TLAPS

-----------------------------------------------------------------------------
(* The inductive invariant *)

\* No directory on the way to p hides what is in it.
Open(p) == \A n \in 1 .. Len(p) - 1 : ~Hidden(p, n)

\* What is in the directory of p was listed.
WasListed(p) ==
  Parent(p) = <<>> \/ (Parent(p) \in visited /\ ~ExcludedDirectory(Parent(p)))

\* A place is listed once, when its directory is visited, and not below an
\* excluded directory.
WalkHeld ==
  /\ listed \cap visited = {}
  /\ \A p \in listed \union visited : Open(p) /\ WasListed(p)
  /\ pc = "idle" => visited = {}

CountHeld ==
  /\ IsFiniteSet(visited)
  /\ pc # "failed" => inventory = InventoryOf(visited)

\* As long as nobody edits, what was listed is there, and what is there and in
\* a directory that was listed is known to the walk.
QuietHeld ==
  quiet =>
    /\ pc # "failed"
    /\ listed \union visited \subseteq there
    /\ pc # "idle" => \A p \in there : WasListed(p) => p \in listed \union visited

IInv == TypeOK /\ WalkHeld /\ CountHeld /\ QuietHeld
-----------------------------------------------------------------------------
(* Places *)

\* A set of numbers has a least one: what is not so of some place is not so of
\* one nearest to the root.
LEMMA LeastElement ==
  ASSUME NEW S \in SUBSET Nat, S # {}
  PROVE  \E n \in S : \A m \in S : n <= m
<1> DEFINE less == {ss \in Nat \X Nat : ss[1] < ss[2]}
<1>1. IsWellFoundedOn(less, Nat)
  BY NatLessThanWellFounded DEF OpToRel
<1>2. PICK n \in S : \A m \in S : <<m, n>> \notin less
  <2> HIDE DEF less
  <2> QED BY <1>1, WFMin
<1>3. ASSUME NEW m \in S
      PROVE  n <= m
  <2>1. m \in Nat /\ n \in Nat /\ <<m, n>> \in Nat \X Nat
    OBVIOUS
  <2>2. ~(m < n)
    BY <1>2, <2>1
  <2> QED BY <2>1, <2>2
<1> QED BY <1>3

\* What a place is, and its parent.
LEMMA PlaceFacts ==
  ASSUME NEW p \in Place
  PROVE  /\ p \in Seq(DOMAIN Lower) /\ Len(p) \in Nat \ {0}
         /\ Parent(p) \in Seq(DOMAIN Lower) /\ Len(Parent(p)) = Len(p) - 1
         /\ Parent(p) # <<>> => Parent(p) \in Place /\ Kind[Parent(p)] = "dir"
         /\ Kind[p] \in {"dir", "regular", "other"}
<1>1. p \in Seq(DOMAIN Lower) /\ p # <<>>
  BY InventoryAssumption
<1>2. Len(p) \in Nat \ {0}
  BY <1>1, EmptySeq, LenProperties
<1>3. Parent(p) \in Seq(DOMAIN Lower) /\ Len(Parent(p)) = Len(p) - 1
  <2>1. \A i \in 1 .. Len(p) - 1 : p[i] \in DOMAIN Lower
    BY <1>1, <1>2, ElementOfSeq
  <2>2. /\ SubSeq(p, 1, Len(p) - 1) \in Seq(DOMAIN Lower)
        /\ Len(SubSeq(p, 1, Len(p) - 1)) = IF 1 <= Len(p) - 1 THEN Len(p) - 1 - 1 + 1 ELSE 0
    BY <1>2, <2>1, SubSeqProperties
  <2>3. Parent(p) = SubSeq(p, 1, Len(p) - 1)
    BY DEF Parent, Front
  <2>4. Len(SubSeq(p, 1, Len(p) - 1)) = Len(p) - 1
    <3> DEFINE m == Len(p)
    <3>1. Len(SubSeq(p, 1, m - 1)) = (IF 1 <= m - 1 THEN m - 1 - 1 + 1 ELSE 0) /\ m \in Nat \ {0}
      BY <1>2, <2>2
    <3> HIDE DEF m
    <3>2. Len(SubSeq(p, 1, m - 1)) = m - 1
      BY <3>1
    <3> QED BY <3>2 DEF m
  <2> QED BY <2>2, <2>3, <2>4
<1> QED BY <1>1, <1>2, <1>3, InventoryAssumption

\* A directory on the way to the parent is the same one on the way to the place.
LEMMA SameWay ==
  ASSUME NEW p \in Place, NEW n \in 1 .. Len(p) - 1
  PROVE  Hidden(p, n) <=> Hidden(Parent(p), n)
<1>1. SubSeq(Parent(p), 1, n) = SubSeq(p, 1, n)
  BY PlaceFacts, SubSeqOfSubSeq DEF Parent, Front
<1>2. Parent(p)[n] = p[n]
  BY PlaceFacts, SubSeqProperties DEF Parent, Front
<1> QED BY <1>1, <1>2 DEF Hidden

\* A place is a hidden directory when its own name hides it.
LEMMA HiddenItself ==
  ASSUME NEW p \in Place
  PROVE  Hidden(p, Len(p)) <=> ExcludedDirectory(p)
<1>1. SubSeq(p, 1, Len(p)) = p
  BY PlaceFacts, SubSeqFull
<1> QED BY <1>1 DEF Hidden, ExcludedDirectory, NameOf, Last

\* The way to a place is that to its parent and the parent.
LEMMA OpenBelow ==
  ASSUME NEW p \in Place
  PROVE  IF Parent(p) = <<>> THEN Open(p)
         ELSE Open(p) <=> Open(Parent(p)) /\ ~ExcludedDirectory(Parent(p))
<1>1. CASE Parent(p) = <<>>
  <2>1. Len(Parent(p)) = Len(p) - 1 /\ Len(p) \in Nat /\ Len(<<>>) = 0
    BY PlaceFacts, EmptySeq
  <2>2. Len(p) = 1
    BY <1>1, <2>1
  <2> QED BY <1>1, <2>2 DEF Open
<1>2. CASE Parent(p) # <<>>
  <2> DEFINE q == Parent(p)
  <2>1. q \in Place /\ Len(q) = Len(p) - 1 /\ Len(q) \in Nat \ {0}
    BY <1>2, PlaceFacts
  <2>2. \A n \in 1 .. Len(q) : Hidden(p, n) <=> Hidden(q, n)
    BY <2>1, SameWay
  <2>3. Hidden(q, Len(q)) <=> ExcludedDirectory(q)
    BY <2>1, HiddenItself
  <2>4. 1 .. Len(q) = (1 .. Len(q) - 1) \union {Len(q)}
    BY <2>1
  <2> HIDE DEF q
  <2>5. Open(p) <=> Open(q) /\ ~ExcludedDirectory(q)
    BY <2>1, <2>2, <2>3, <2>4 DEF Open
  <2> QED BY <1>2, <2>5 DEF q
<1> QED BY <1>1, <1>2

\* What counts is on an open way and not excluded itself.
LEMMA CountsIsOpen ==
  ASSUME NEW p \in Place
  PROVE  Counts(p) <=>
           /\ Open(p) /\ ~ExcludedDirectory(p)
           /\ Kind[p] = "dir" \/ (Kind[p] = "regular" /\ p # <<"README.md">>)
<1>1. DOMAIN p = (1 .. Len(p) - 1) \union {Len(p)}
  <2>1. Len(p) \in Nat \ {0}
    BY PlaceFacts
  <2>2. DOMAIN p = 1 .. Len(p)
    BY PlaceFacts, LenProperties
  <2> QED BY <2>1, <2>2
<1>2. (\A n \in DOMAIN p : ~Hidden(p, n)) <=> Open(p) /\ ~ExcludedDirectory(p)
  BY <1>1, HiddenItself DEF Open
<1> QED BY <1>2 DEF Counts

-----------------------------------------------------------------------------
(* Counting *)

\* A regular file has as many lines as a number says.
LEMMA LineCountType ==
  ASSUME NEW p \in Place, Kind[p] = "regular"
  PROVE  PhysicalLineCount(Content[p]) \in Nat
<1> DEFINE newlines == {i \in DOMAIN Content[p] : Content[p][i] = "newline"}
<1>1. Content[p] \in Seq({"byte", "newline"})
  BY InventoryAssumption
<1>2. DOMAIN Content[p] = 1 .. Len(Content[p]) /\ Len(Content[p]) \in Nat
  BY <1>1, LenProperties
<1>3. IsFiniteSet(DOMAIN Content[p])
  BY <1>2, FS_Interval
<1>4. Cardinality(newlines) \in Nat
  BY <1>3, FS_Subset, FS_CardinalityType
<1> HIDE DEF newlines
<1>5. PhysicalLineCount(Content[p]) =
        Cardinality(newlines)
          + IF Content[p] # <<>> /\ Len(Content[p]) \notin newlines THEN 1 ELSE 0
  BY DEF PhysicalLineCount, newlines
<1> QED BY <1>4, <1>5

\* The lines in a finite number of places are a finite number.
LEMMA LinesFinite ==
  ASSUME NEW V \in SUBSET Place, IsFiniteSet(V)
  PROVE  IsFiniteSet(LinesAt(V)) /\ LinesOf(V) \in Nat
<1> DEFINE F == FilesOf(V)
           T == {LinesIn(p) : p \in F}
           lines == [p \in F |-> LinesIn(p)]
<1>1. F \subseteq Place /\ IsFiniteSet(F) /\ \A p \in F : Kind[p] = "regular"
  BY FS_Subset DEF FilesOf
<1> HIDE DEF F
<1>2. lines \in Surjection(F, T)
  BY DEF Surjection
<1>3. IsFiniteSet(T)
  BY <1>1, <1>2, FS_Surjection
<1>4. ASSUME NEW p \in F
      PROVE  IsFiniteSet(LinesIn(p))
  <2>1. PICK k \in Nat : k = PhysicalLineCount(Content[p])
    BY <1>1, LineCountType
  <2>2. IsFiniteSet(1 .. k)
    BY FS_Interval
  <2>3. IsFiniteSet({p})
    BY FS_Singleton
  <2> QED BY <2>1, <2>2, <2>3, FS_Product DEF LinesIn
<1>5. IsFiniteSet(UNION T)
  BY <1>3, <1>4, FS_UNION
<1> QED BY <1>5, FS_CardinalityType DEF LinesAt, LinesOf, F

\* One more file adds its lines.
LEMMA LinesAdd ==
  ASSUME NEW V \in SUBSET Place, IsFiniteSet(V), NEW p \in Place \ V,
         Counts(p), Kind[p] = "regular"
  PROVE  LinesOf(V \union {p}) = LinesOf(V) + PhysicalLineCount(Content[p])
<1> DEFINE k == PhysicalLineCount(Content[p])
<1>1. k \in Nat
  BY LineCountType
<1>2. IsFiniteSet(LinesAt(V))
  BY LinesFinite
<1>3. IsFiniteSet(LinesIn(p)) /\ Cardinality(LinesIn(p)) = k
  <2>1. IsFiniteSet(1 .. k) /\ Cardinality(1 .. k) = k
    BY <1>1, FS_Interval
  <2>2. IsFiniteSet({p}) /\ Cardinality({p}) = 1
    BY FS_Singleton
  <2>3. IsFiniteSet(LinesIn(p)) /\ Cardinality(LinesIn(p)) = 1 * k
    BY <2>1, <2>2, FS_Product DEF LinesIn
  <2> QED BY <1>1, <2>3
<1> HIDE DEF k
<1>4. LinesAt(V \union {p}) = LinesAt(V) \union LinesIn(p)
  <2>1. FilesOf(V \union {p}) = FilesOf(V) \union {p}
    BY DEF FilesOf
  <2> QED BY <2>1 DEF LinesAt
<1>5. LinesAt(V) \cap LinesIn(p) = {}
  BY DEF LinesAt, LinesIn, FilesOf
<1>6. Cardinality(LinesAt(V) \union LinesIn(p)) = Cardinality(LinesAt(V)) + k
  <2>1. Cardinality(LinesAt(V) \cap LinesIn(p)) = 0
    BY <1>5, FS_EmptySet
  <2>2. Cardinality(LinesAt(V) \union LinesIn(p)) = Cardinality(LinesAt(V)) + k - 0
    BY <1>2, <1>3, <2>1, FS_Union
  <2>3. Cardinality(LinesAt(V)) \in Nat
    BY <1>2, FS_CardinalityType
  <2> QED BY <1>1, <2>2, <2>3
<1> QED BY <1>4, <1>6 DEF LinesOf, k

\* A place that does not count changes nothing.
LEMMA OthersAddNothing ==
  ASSUME NEW V, NEW p, ~Counts(p)
  PROVE  InventoryOf(V \union {p}) = InventoryOf(V)
<1>1. /\ {q \in V \union {p} : Counts(q) /\ Kind[q] = "dir"} = {q \in V : Counts(q) /\ Kind[q] = "dir"}
      /\ FilesOf(V \union {p}) = FilesOf(V)
      /\ \A ext : FilesOf(With(V \union {p}, ext)) = FilesOf(With(V, ext))
  BY DEF FilesOf, With
<1> QED BY <1>1 DEF InventoryOf, LinesOf, LinesAt

\* A directory that counts adds one to the directories.
LEMMA DirectoryAdds ==
  ASSUME NEW V, IsFiniteSet(V), inventory = InventoryOf(V),
         NEW p, p \notin V, Counts(p), Kind[p] = "dir"
  PROVE  InventoryOf(V \union {p}) = [inventory EXCEPT !.dirs = @ + 1]
<1> DEFINE D == {q \in V : Counts(q) /\ Kind[q] = "dir"}
<1>1. /\ {q \in V \union {p} : Counts(q) /\ Kind[q] = "dir"} = D \union {p}
      /\ FilesOf(V \union {p}) = FilesOf(V)
      /\ \A ext : FilesOf(With(V \union {p}, ext)) = FilesOf(With(V, ext))
  BY DEF FilesOf, With
<1>2. Cardinality(D \union {p}) = Cardinality(D) + 1
  <2>1. IsFiniteSet(D) /\ p \notin D
    BY FS_Subset
  <2> HIDE DEF D
  <2> QED BY <2>1, FS_AddElement
<1>3. \A ext : LinesOf(With(V \union {p}, ext)) = LinesOf(With(V, ext))
  BY <1>1 DEF LinesOf, LinesAt
<1>4. LinesOf(V \union {p}) = LinesOf(V)
  BY <1>1 DEF LinesOf, LinesAt
<1> DEFINE counts(n, f, l, gof, gol, gooof, goool, x) ==
             [dirs |-> n, files |-> f, lines |-> l, goFiles |-> gof, goLines |-> gol,
              goooFiles |-> gooof, goooLines |-> goool, callerOutputExcluded |-> x]
<1>5. Cardinality(D) \in Nat
  BY FS_Subset, FS_CardinalityType
<1>6. \E n, f, l, gof, gol, gooof, goool, x :
        /\ n \in Nat
        /\ InventoryOf(V) = counts(n, f, l, gof, gol, gooof, goool, x)
        /\ InventoryOf(V \union {p}) = counts(n + 1, f, l, gof, gol, gooof, goool, x)
  <2> DEFINE f == Cardinality(FilesOf(V))
             l == LinesOf(V)
             gof == Cardinality(FilesOf(With(V, ".go")))
             gol == LinesOf(With(V, ".go"))
             gooof == Cardinality(FilesOf(With(V, ".gooo")))
             goool == LinesOf(With(V, ".gooo"))
  <2>1. InventoryOf(V) = counts(Cardinality(D), f, l, gof, gol, gooof, goool, TRUE)
    BY DEF InventoryOf
  <2>2. InventoryOf(V \union {p}) = counts(Cardinality(D) + 1, f, l, gof, gol, gooof, goool, TRUE)
    BY <1>1, <1>2, <1>3, <1>4 DEF InventoryOf
  <2> HIDE DEF D, f, l, gof, gol, gooof, goool, counts
  <2> QED BY <1>5, <2>1, <2>2
<1>7. PICK n, f, l, gof, gol, gooof, goool, x :
        /\ n \in Nat
        /\ inventory = counts(n, f, l, gof, gol, gooof, goool, x)
        /\ InventoryOf(V \union {p}) = counts(n + 1, f, l, gof, gol, gooof, goool, x)
  BY <1>6
<1> QED BY <1>7

\* A file that counts adds one to the files, its lines to the lines, and the
\* same to the counters of its extension.
LEMMA FileAdds ==
  ASSUME NEW V \in SUBSET Place, IsFiniteSet(V), inventory = InventoryOf(V),
         NEW p \in Place \ V, Counts(p), Kind[p] = "regular"
  PROVE  InventoryOf(V \union {p}) = Adding(p)
<1> DEFINE k == PhysicalLineCount(Content[p])
<1>1. ASSUME NEW W \in SUBSET V
      PROVE  /\ Cardinality(FilesOf(W \union {p})) = Cardinality(FilesOf(W)) + 1
             /\ LinesOf(W \union {p}) = LinesOf(W) + k
             /\ Cardinality(FilesOf(W)) \in Nat /\ LinesOf(W) \in Nat
  <2>1. W \in SUBSET Place /\ IsFiniteSet(W) /\ p \in Place \ W
    BY FS_Subset
  <2>2. FilesOf(W \union {p}) = FilesOf(W) \union {p} /\ p \notin FilesOf(W)
    BY <2>1 DEF FilesOf
  <2>3. IsFiniteSet(FilesOf(W))
    BY <2>1, FS_Subset DEF FilesOf
  <2>4. Cardinality(FilesOf(W \union {p})) = Cardinality(FilesOf(W)) + 1
    BY <2>2, <2>3, FS_AddElement
  <2> QED BY <2>1, <2>3, <2>4, LinesAdd, LinesFinite, FS_CardinalityType
<1>2. ASSUME NEW ext
      PROVE  /\ With(V, ext) \in SUBSET V
             /\ With(V \union {p}, ext) =
                  IF Extension[NameOf(p)] = ext THEN With(V, ext) \union {p} ELSE With(V, ext)
  BY DEF With
<1>3. ASSUME NEW ext
      PROVE  /\ Cardinality(FilesOf(With(V \union {p}, ext))) =
                  Cardinality(FilesOf(With(V, ext))) + If(Extension[NameOf(p)] = ext, 1)
             /\ LinesOf(With(V \union {p}, ext)) =
                  LinesOf(With(V, ext)) + If(Extension[NameOf(p)] = ext, k)
  <2> HIDE DEF k
  <2>1. CASE Extension[NameOf(p)] = ext
    BY <1>1, <1>2, <2>1 DEF If
  <2>2. CASE Extension[NameOf(p)] # ext
    <3>1. Cardinality(FilesOf(With(V, ext))) \in Nat /\ LinesOf(With(V, ext)) \in Nat
      BY <1>1, <1>2
    <3>2. If(Extension[NameOf(p)] = ext, 1) = 0 /\ If(Extension[NameOf(p)] = ext, k) = 0
      BY <2>2 DEF If
    <3>3. With(V \union {p}, ext) = With(V, ext)
      BY <1>2, <2>2
    <3> QED BY <3>1, <3>2, <3>3
  <2> QED BY <2>1, <2>2
<1>4. {q \in V \union {p} : Counts(q) /\ Kind[q] = "dir"} = {q \in V : Counts(q) /\ Kind[q] = "dir"}
  OBVIOUS
<1>5. /\ Cardinality(FilesOf(V \union {p})) = Cardinality(FilesOf(V)) + 1
      /\ LinesOf(V \union {p}) = LinesOf(V) + k
  BY <1>1
<1> DEFINE go(n)   == If(Extension[NameOf(p)] = ".go", n)
           gooo(n) == If(Extension[NameOf(p)] = ".gooo", n)
<1>7. InventoryOf(V \union {p}) =
        [dirs      |-> Cardinality({q \in V : Counts(q) /\ Kind[q] = "dir"}),
         files     |-> Cardinality(FilesOf(V)) + 1,
         lines     |-> LinesOf(V) + k,
         goFiles   |-> Cardinality(FilesOf(With(V, ".go"))) + go(1),
         goLines   |-> LinesOf(With(V, ".go")) + go(k),
         goooFiles |-> Cardinality(FilesOf(With(V, ".gooo"))) + gooo(1),
         goooLines |-> LinesOf(With(V, ".gooo")) + gooo(k),
         callerOutputExcluded |-> TRUE]
  BY <1>3, <1>4, <1>5 DEF InventoryOf
<1>6. Adding(p) =
        [inventory EXCEPT
           !.files = @ + 1, !.lines = @ + k, !.goFiles = @ + go(1), !.goLines = @ + go(k),
           !.goooFiles = @ + gooo(1), !.goooLines = @ + gooo(k)]
  BY DEF Adding
<1> HIDE DEF go, gooo, k
<1> QED BY <1>6, <1>7 DEF InventoryOf

-----------------------------------------------------------------------------
(* Types *)

\* Without a place and what is below it the tree is a tree.
LEMMA RemovalKeepsTree ==
  ASSUME NEW t, Tree(t), NEW p \in t
  PROVE  Tree({q \in t : ~IsPrefix(p, q)})
<1> DEFINE rest == {q \in t : ~IsPrefix(p, q)}
<1>1. ASSUME NEW q \in rest, Parent(q) # <<>>
      PROVE  Parent(q) \in rest
  <2>1. q \in Place /\ p \in Place /\ Parent(q) \in t
    BY <1>1 DEF Tree
  <2>2. SUFFICES ASSUME IsPrefix(p, Parent(q))
                 PROVE  IsPrefix(p, q)
    BY <1>1, <2>1
  <2>3. /\ q \in Seq(DOMAIN Lower) /\ Len(q) \in Nat \ {0}
        /\ Len(Parent(q)) = Len(q) - 1 /\ Len(p) \in Nat \ {0}
    BY <2>1, PlaceFacts
  <2>4. Len(p) <= Len(q) - 1 /\ SubSeq(p, 1, Len(p)) = SubSeq(Parent(q), 1, Len(p))
    BY <2>2, <2>3 DEF IsPrefix
  <2>5. SubSeq(Parent(q), 1, Len(p)) = SubSeq(q, 1, Len(p))
    BY <2>3, <2>4, SubSeqOfSubSeq DEF Parent, Front
  <2> QED BY <2>3, <2>4, <2>5 DEF IsPrefix
<1>2. rest \subseteq Place
  BY DEF Tree
<1> QED BY <1>1, <1>2 DEF Tree

\* The types at the start.
LEMMA InitType == Init => TypeOK
BY InventoryAssumption DEF Init, TypeOK, NoInventory

\* Every step keeps the types: one case per action.
LEMMA StepType == TypeOK /\ [Next]_vars => TypeOK'
<1> SUFFICES ASSUME TypeOK, [Next]_vars PROVE TypeOK'
  OBVIOUS
<1>1. CASE Begin
  BY <1>1 DEF TypeOK, Begin, In, Tree
<1>2. CASE Done
  BY <1>2 DEF TypeOK, Done
<1>3. ASSUME NEW p \in Place, Skip(p)
      PROVE  TypeOK'
  BY <1>3 DEF TypeOK, Skip, Visit
<1>4. ASSUME NEW p \in Place, EnterDirectory(p)
      PROVE  TypeOK'
  <2>1. /\ DOMAIN inventory' = DOMAIN inventory
        /\ \A c \in DOMAIN inventory \ {"callerOutputExcluded"} : inventory'[c] \in Nat
    BY <1>4 DEF TypeOK, EnterDirectory, NoInventory
  <2>2. listed' \subseteq Place /\ visited' \subseteq Place
    BY <1>4 DEF TypeOK, EnterDirectory, Visit, In, Tree
  <2> QED BY <1>4, <2>1, <2>2 DEF TypeOK, EnterDirectory, Visit
<1>5. ASSUME NEW p \in Place, CountFile(p)
      PROVE  TypeOK'
  <2>1. /\ DOMAIN inventory' = DOMAIN inventory
        /\ \A c \in DOMAIN inventory \ {"callerOutputExcluded"} : inventory'[c] \in Nat
    <3>1. PICK k \in Nat : k = PhysicalLineCount(Content[p])
      BY <1>5, LineCountType DEF CountFile
    <3> DEFINE go(n)   == If(Extension[NameOf(p)] = ".go", n)
               gooo(n) == If(Extension[NameOf(p)] = ".gooo", n)
    <3>2. inventory' =
            [inventory EXCEPT
               !.files = @ + 1, !.lines = @ + k, !.goFiles = @ + go(1), !.goLines = @ + go(k),
               !.goooFiles = @ + gooo(1), !.goooLines = @ + gooo(k)]
      BY <1>5, <3>1 DEF CountFile, Adding
    <3>3. go(1) \in Nat /\ go(k) \in Nat /\ gooo(1) \in Nat /\ gooo(k) \in Nat
      BY <3>1 DEF If
    <3> HIDE DEF go, gooo
    <3>4. \A c \in DOMAIN inventory \ {"callerOutputExcluded"} : inventory[c] \in Nat
      BY DEF TypeOK
    <3>5. DOMAIN inventory = {"dirs", "files", "lines", "goFiles", "goLines", "goooFiles",
                              "goooLines", "callerOutputExcluded"}
      BY DEF TypeOK, NoInventory
    <3>6. ASSUME NEW c \in DOMAIN inventory \ {"callerOutputExcluded"}
          PROVE  \E n \in Nat : inventory'[c] = inventory[c] + n
      <4>1. inventory[c] \in Nat
        BY <3>4
      <4>2. CASE c = "dirs"
        <5>1. inventory'[c] = inventory[c]
          BY <3>2, <3>5, <4>2
        <5> QED BY <4>1, <5>1
      <4>3. CASE c # "dirs"
        <5>1. inventory'[c] \in {inventory[c] + n : n \in {1, k, go(1), go(k), gooo(1), gooo(k)}}
          BY <3>2, <3>5, <4>3
        <5> QED BY <3>3, <5>1
      <4> QED BY <4>2, <4>3
    <3> QED BY <3>2, <3>4, <3>6
  <2> QED BY <1>5, <2>1 DEF TypeOK, CountFile, Visit
<1>6. ASSUME NEW p \in Place, Vanished(p)
      PROVE  TypeOK'
  BY <1>6 DEF TypeOK, Vanished, Visit
<1>7. CASE Edit
  <2>1. Tree(there')
    BY <1>7, RemovalKeepsTree DEF Edit, TypeOK
  <2>2. edits' \in 0 .. MaxEdits
    BY <1>7, InventoryAssumption DEF Edit, TypeOK
  <2> QED BY <1>7, <2>1, <2>2 DEF Edit, TypeOK
<1>8. CASE UNCHANGED vars
  BY <1>8 DEF TypeOK, vars
<1> QED BY <1>1, <1>2, <1>3, <1>4, <1>5, <1>6, <1>7, <1>8 DEF Next, WalkStep

-----------------------------------------------------------------------------
(* Every place once *)

\* What is listed when a directory is entered is new to the walk, and in an
\* open directory.
LEMMA EnteredIsNew ==
  ASSUME WalkHeld, TypeOK, NEW p \in listed, ~ExcludedDirectory(p)
  PROVE  /\ In(p) \cap (listed \union visited \union {p}) = {}
         /\ \A q \in In(p) : q \in Place /\ Open(q) /\ Parent(q) = p
<1>1. p \in Place /\ p \notin visited /\ p # <<>> /\ Open(p)
  BY InventoryAssumption DEF WalkHeld, TypeOK
<1>2. ASSUME NEW q \in In(p)
      PROVE  q \in Place /\ Parent(q) = p /\ Open(q) /\ q # p
  <2>1. q \in Place /\ Parent(q) = p
    BY DEF In, TypeOK, Tree
  <2>2. Open(q)
    BY <1>1, <2>1, OpenBelow
  <2>3. q # p
    <3>1. Len(p) \in Nat /\ Len(q) \in Nat /\ Len(p) = Len(q) - 1
      BY <1>1, <2>1, PlaceFacts
    <3> QED BY <3>1
  <2> QED BY <2>1, <2>2, <2>3
<1>3. ASSUME NEW q \in In(p)
      PROVE  q \notin listed \union visited
  BY <1>1, <1>2 DEF WalkHeld, WasListed
<1> QED BY <1>2, <1>3

\* Every step keeps that nothing is listed twice or below an excluded directory.
LEMMA StepWalk == TypeOK /\ WalkHeld /\ [Next]_vars => WalkHeld'
<1> SUFFICES ASSUME TypeOK, WalkHeld, [Next]_vars PROVE WalkHeld'
  OBVIOUS
<1>1. CASE Begin
  <2>1. visited' = {} /\ listed' = In(<<>>) /\ pc' = "walk"
    BY <1>1 DEF Begin, WalkHeld
  <2>2. ASSUME NEW p \in In(<<>>)
        PROVE  Open(p) /\ Parent(p) = <<>>
    BY OpenBelow DEF In, TypeOK, Tree
  <2> QED BY <2>1, <2>2 DEF WalkHeld, WasListed
<1>2. CASE Done
  BY <1>2 DEF Done, WalkHeld, WasListed
<1>3. ASSUME NEW p \in listed, visited' = visited \union {p}, pc' # "idle",
             listed' \subseteq listed \ {p}
      PROVE  WalkHeld'
  BY <1>3 DEF WalkHeld, WasListed
<1>4. ASSUME NEW p \in Place, Skip(p)
      PROVE  WalkHeld'
  BY <1>3, <1>4 DEF Skip, Visit
<1>5. ASSUME NEW p \in Place, EnterDirectory(p)
      PROVE  WalkHeld'
  <2>1. /\ p \in listed /\ visited' = visited \union {p} /\ pc' # "idle"
        /\ listed' = (listed \ {p}) \union In(p) /\ ~ExcludedDirectory(p)
    BY <1>5 DEF EnterDirectory, Visit
  <2>2. /\ In(p) \cap (listed \union visited \union {p}) = {}
        /\ \A q \in In(p) : Open(q) /\ Parent(q) = p
    BY <2>1, EnteredIsNew
  <2> QED BY <2>1, <2>2 DEF WalkHeld, WasListed
<1>6. ASSUME NEW p \in Place, CountFile(p)
      PROVE  WalkHeld'
  BY <1>3, <1>6 DEF CountFile, Visit
<1>7. ASSUME NEW p \in Place, Vanished(p)
      PROVE  WalkHeld'
  BY <1>3, <1>7 DEF Vanished, Visit
<1>8. CASE Edit
  BY <1>8 DEF Edit, WalkHeld, WasListed
<1>9. CASE UNCHANGED vars
  BY <1>9 DEF vars, WalkHeld, WasListed
<1> QED BY <1>1, <1>2, <1>4, <1>5, <1>6, <1>7, <1>8, <1>9 DEF Next, WalkStep

-----------------------------------------------------------------------------
(* The counters *)

\* Nothing visited, nothing counted.
LEMMA EmptyInventory == InventoryOf({}) = NoInventory
<1>1. FilesOf({}) = {} /\ \A ext : With({}, ext) = {}
  BY DEF FilesOf, With
<1>2. LinesAt({}) = {}
  BY <1>1 DEF LinesAt
<1>3. {p \in {} : Counts(p) /\ Kind[p] = "dir"} = {}
  OBVIOUS
<1>4. Cardinality({}) = 0
  BY FS_EmptySet
<1> QED BY <1>1, <1>2, <1>3, <1>4 DEF InventoryOf, LinesOf, NoInventory

\* Every step keeps that the counters are those of what was visited.
LEMMA StepCount == TypeOK /\ WalkHeld /\ CountHeld /\ [Next]_vars => CountHeld'
<1> SUFFICES ASSUME TypeOK, WalkHeld, CountHeld, [Next]_vars PROVE CountHeld'
  OBVIOUS
<1>1. CASE Begin
  BY <1>1 DEF Begin, CountHeld
<1>2. CASE Done
  BY <1>2 DEF Done, CountHeld
<1>3. ASSUME NEW p \in Place, Visit(p)
      PROVE  /\ IsFiniteSet(visited') /\ visited' = visited \union {p}
             /\ p \in Place \ visited /\ visited \in SUBSET Place /\ Open(p)
             /\ inventory = InventoryOf(visited)
  BY <1>3, FS_AddElement DEF Visit, WalkHeld, CountHeld, TypeOK
<1>4. ASSUME NEW p \in Place, Skip(p)
      PROVE  CountHeld'
  <2>1. ~Counts(p)
    BY <1>4, CountsIsOpen DEF Skip, LeftOut
  <2>2. InventoryOf(visited \union {p}) = InventoryOf(visited)
    BY <2>1, OthersAddNothing
  <2> QED BY <1>3, <1>4, <2>2 DEF Skip, CountHeld
<1>5. ASSUME NEW p \in Place, EnterDirectory(p)
      PROVE  CountHeld'
  <2>1. Visit(p) /\ Kind[p] = "dir" /\ ~ExcludedDirectory(p)
        /\ inventory' = [inventory EXCEPT !.dirs = @ + 1]
    BY <1>5 DEF EnterDirectory
  <2>2. Counts(p)
    BY <1>3, <2>1, CountsIsOpen
  <2>3. InventoryOf(visited \union {p}) = [inventory EXCEPT !.dirs = @ + 1]
    BY <1>3, <2>1, <2>2, DirectoryAdds DEF CountHeld
  <2> QED BY <1>3, <2>1, <2>3 DEF CountHeld
<1>6. ASSUME NEW p \in Place, CountFile(p)
      PROVE  CountHeld'
  <2>1. Visit(p) /\ Kind[p] = "regular" /\ ~LeftOut(p) /\ inventory' = Adding(p)
    BY <1>6 DEF CountFile
  <2>2. Counts(p)
    BY <1>3, <2>1, CountsIsOpen DEF LeftOut, ExcludedDirectory
  <2>3. InventoryOf(visited \union {p}) = Adding(p)
    BY <1>3, <2>1, <2>2, FileAdds DEF CountHeld
  <2> QED BY <1>3, <2>1, <2>3 DEF CountHeld
<1>7. ASSUME NEW p \in Place, Vanished(p)
      PROVE  CountHeld'
  BY <1>3, <1>7 DEF Vanished, CountHeld
<1>8. CASE Edit
  BY <1>8 DEF Edit, CountHeld
<1>9. CASE UNCHANGED vars
  BY <1>9 DEF vars, CountHeld
<1> QED BY <1>1, <1>2, <1>4, <1>5, <1>6, <1>7, <1>8, <1>9 DEF Next, WalkStep

-----------------------------------------------------------------------------
(* An undisturbed walk *)

\* Every step of an undisturbed walk keeps that it knows what there is.
LEMMA StepQuiet == TypeOK /\ WalkHeld /\ QuietHeld /\ [Next]_vars => QuietHeld'
<1> SUFFICES ASSUME TypeOK, WalkHeld, QuietHeld, [Next]_vars, quiet' PROVE QuietHeld'
  BY DEF QuietHeld
<1>1. CASE Begin
  <2>1. visited' = {} /\ listed' = In(<<>>) /\ pc' = "walk" /\ there' = there
    BY <1>1 DEF Begin, WalkHeld
  <2> QED BY <2>1 DEF QuietHeld, WasListed, In
<1>2. CASE Done
  BY <1>2 DEF Done, QuietHeld, WasListed
\* A place that is visited and not entered has nothing that would be listed.
<1>3. ASSUME NEW p \in listed, pc = "walk", quiet, there' = there, pc' = "walk",
             visited' = visited \union {p}, listed' = listed \ {p},
             Kind[p] = "dir" => ExcludedDirectory(p)
      PROVE  QuietHeld'
  <2>1. ASSUME NEW q \in there, WasListed(q)'
        PROVE  WasListed(q)
    <3>1. q \in Place
      BY DEF TypeOK, Tree
    <3>2. CASE Parent(q) = <<>>
      BY <3>2 DEF WasListed
    <3>3. CASE Parent(q) # <<>>
      <4>1. Kind[Parent(q)] = "dir" /\ Parent(q) \in visited \union {p}
              /\ ~ExcludedDirectory(Parent(q))
        BY <1>3, <2>1, <3>1, <3>3, PlaceFacts DEF WasListed
      <4> QED BY <1>3, <4>1 DEF WasListed
    <3> QED BY <3>2, <3>3
  <2> QED BY <1>3, <2>1 DEF QuietHeld
<1>4. ASSUME NEW p \in Place, Skip(p)
      PROVE  QuietHeld'
  BY <1>3, <1>4 DEF Skip, Visit, LeftOut
<1>5. ASSUME NEW p \in Place, EnterDirectory(p)
      PROVE  QuietHeld'
  <2>1. /\ p \in listed /\ p \in there /\ pc = "walk" /\ pc' = "walk" /\ quiet
        /\ there' = there /\ visited' = visited \union {p}
        /\ listed' = (listed \ {p}) \union In(p)
    BY <1>5 DEF EnterDirectory, Visit
  <2>2. ASSUME NEW q \in there, WasListed(q)'
        PROVE  q \in listed' \union visited'
    <3>1. WasListed(q) \/ Parent(q) = p
      BY <2>1, <2>2 DEF WasListed
    <3> QED BY <2>1, <3>1 DEF QuietHeld, In
  <2> QED BY <2>1, <2>2 DEF QuietHeld, In
<1>6. ASSUME NEW p \in Place, CountFile(p)
      PROVE  QuietHeld'
  BY <1>3, <1>6 DEF CountFile, Visit
<1>7. ASSUME NEW p \in Place, Vanished(p)
      PROVE  QuietHeld'
  BY <1>7 DEF Vanished, Visit, QuietHeld
<1>8. CASE Edit
  BY <1>8 DEF Edit
<1>9. CASE UNCHANGED vars
  BY <1>9 DEF vars, QuietHeld, WasListed
<1> QED BY <1>1, <1>2, <1>4, <1>5, <1>6, <1>7, <1>8, <1>9 DEF Next, WalkStep

\* At the end of an undisturbed walk every place that is there on an open way
\* was visited: take one nearest to the root that was not; the directory it is
\* in was visited, so it was listed.
LEMMA OpenIsVisited ==
  ASSUME TypeOK, QuietHeld, quiet, pc = "done", NEW p \in there, Open(p)
  PROVE  p \in visited
<1> DEFINE left == {q \in there : Open(q) /\ q \notin visited}
           lengths == {Len(q) : q \in left}
<1>1. SUFFICES ASSUME left # {} PROVE FALSE
  OBVIOUS
<1>2. there \subseteq Place /\ \A q \in there : Parent(q) \in there \union {<<>>}
  BY DEF TypeOK, Tree
<1>3. lengths \in SUBSET Nat /\ lengths # {}
  <2>1. \A q \in left : Len(q) \in Nat
    BY <1>2, PlaceFacts
  <2> HIDE DEF left
  <2> QED BY <1>1, <2>1
<1>4. PICK n \in lengths : \A m \in lengths : n <= m
  <2> HIDE DEF lengths
  <2> QED BY <1>3, LeastElement
<1>5. PICK q \in left : Len(q) = n
  BY <1>4
<1>6. q \in Place /\ Open(q) /\ q \notin visited
  BY <1>2, <1>5
<1>7. WasListed(q)
  <2>1. CASE Parent(q) = <<>>
    BY <2>1 DEF WasListed
  <2>2. CASE Parent(q) # <<>>
    <3>1. Open(Parent(q)) /\ ~ExcludedDirectory(Parent(q)) /\ Parent(q) \in there
      BY <1>2, <1>6, <2>2, OpenBelow
    <3>2. Len(Parent(q)) = n - 1 /\ n \in Nat
      BY <1>3, <1>5, <1>6, PlaceFacts
    <3>3. Parent(q) \in visited
      <4>1. SUFFICES ASSUME Parent(q) \in left PROVE FALSE
        BY <3>1
      <4>2. n <= n - 1
        BY <1>4, <3>2, <4>1
      <4> QED BY <3>2, <4>2
    <3> QED BY <3>1, <3>3 DEF WasListed
  <2> QED BY <2>1, <2>2
<1>8. q \in visited
  BY <1>5, <1>7 DEF QuietHeld, TypeOK
<1> QED BY <1>6, <1>8

\* What counts in the tree is then what counts among the visited.
LEMMA QuietInventory ==
  ASSUME TypeOK, QuietHeld, quiet, pc = "done"
  PROVE  InventoryOf(there) = InventoryOf(visited)
<1>1. visited \subseteq there /\ there \subseteq Place
  BY DEF QuietHeld, TypeOK, Tree
<1>2. \A p \in there : Counts(p) => p \in visited
  BY <1>1, OpenIsVisited, CountsIsOpen
<1>3. /\ {p \in there : Counts(p) /\ Kind[p] = "dir"} = {p \in visited : Counts(p) /\ Kind[p] = "dir"}
      /\ FilesOf(there) = FilesOf(visited)
      /\ \A ext : FilesOf(With(there, ext)) = FilesOf(With(visited, ext))
  BY <1>1, <1>2 DEF FilesOf, With
<1> QED BY <1>3 DEF InventoryOf, LinesOf, LinesAt

-----------------------------------------------------------------------------
(* The theorems *)

\* The invariant holds at every moment of every behaviour.
LEMMA Invariance == Spec => []IInv
<1>1. Init => IInv
  <2> SUFFICES ASSUME Init PROVE IInv
    OBVIOUS
  <2>1. WalkHeld /\ QuietHeld
    BY DEF Init, WalkHeld, QuietHeld
  <2>2. CountHeld
    BY EmptyInventory, FS_EmptySet DEF Init, CountHeld
  <2> QED BY <2>1, <2>2, InitType DEF IInv
<1>2. IInv /\ [Next]_vars => IInv'
  BY StepType, StepWalk, StepCount, StepQuiet DEF IInv
<1> QED BY <1>1, <1>2, PTL DEF Spec

\* The counters are numbers, the tree is a tree, and a walk that is over has
\* nothing left to visit.
THEOREM TypeCorrect == Spec => []TypeOK
BY Invariance, PTL DEF IInv

\* Whatever comes and goes, nothing below an excluded directory is visited, and
\* the counters are those of the visited places, each counted once.
THEOREM VisitedOnce == Spec => []CountsVisitedOnce
<1>1. IInv => CountsVisitedOnce
  BY DEF IInv, WalkHeld, CountHeld, CountsVisitedOnce, Open
<1> QED BY <1>1, Invariance, PTL

\* An undisturbed walk does not fail, and its counts are those of the tree.
THEOREM QuietWalksAreExact == Spec => []QuietCountsAreExact
<1>1. IInv => QuietCountsAreExact
  BY QuietInventory DEF IInv, QuietHeld, CountHeld, QuietCountsAreExact
<1> QED BY <1>1, Invariance, PTL

\* The walk function is called for no place twice, so no more often than there
\* are places, whatever is edited while it goes on: the bound under WalkEnds.
VisitsAreNew == [][\A p \in Place : Visit(p) => p \notin visited]_vars

\* No place is visited twice (inventory.go:18).
THEOREM NoPlaceTwice == Spec => VisitsAreNew
<1>1. IInv => \A p \in Place : Visit(p) => p \notin visited
  BY DEF IInv, WalkHeld, Visit
<1> QED BY <1>1, Invariance, PTL DEF VisitsAreNew
=============================================================================
