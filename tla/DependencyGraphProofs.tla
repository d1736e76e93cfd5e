------------------------ MODULE DependencyGraphProofs ------------------------
(***************************************************************************)
(* The breadth-first search of buildDependencyGraph is exact on every      *)
(* graph: proofs about DependencyGraph.                                    *)
(*                                                                         *)
(* SearchIsExact is not inductive: it speaks of the returned flag only.    *)
(* The strengthening says what the search has established so far.  Every   *)
(* marked node is reachable from the start (so the flag is sound); every   *)
(* marked node that is no longer queued is not the target and has had its  *)
(* successors marked, those of the current node up to position scan.  When *)
(* the queue runs empty the marked set is therefore a closed set that      *)
(* contains the start and not the target, which refutes reachability.      *)
(***************************************************************************)
EXTENDS DependencyGraph, Functions, FiniteSetTheorems,
        WellFoundedInduction, TLAPS

Searching == pc \in {"dequeue", "visit"}

Queued == Range(queue)

\* The edges leaving n that the search has followed lead to marked nodes.
Explored(n) ==
  \A i \in DOMAIN edges :
    edges[i][1] = n /\ (pc = "visit" /\ n = current => i < scan)
      => edges[i][2] \in seen

SearchInv ==
  Searching =>
    /\ start \in impacted \ todo
    /\ start \in seen
    /\ \A n \in seen : Reaches(Node, EdgeSet, start, n)
    /\ Queued \subseteq seen
    /\ \A n \in seen \ Queued : n # Target /\ Explored(n)
    /\ pc = "visit" => current \in seen /\ current # Target

\* An impacted node whose search is over has had its say.
FinishedInv ==
  \A n \in impacted \ todo :
    ~(Searching /\ n = start) =>
      (Reaches(Node, EdgeSet, n, Target) => pathToTarget)

DoneInv == pc = "done" => todo = {}

IInv == TypeOK /\ FlagIsSound /\ SearchInv /\ FinishedInv /\ DoneInv

-----------------------------------------------------------------------------
\* What popping does to the elements of a queue.
LEMMA PopFacts ==
  ASSUME NEW S, NEW q \in Seq(S), q # <<>>
  PROVE  /\ Head(q) \in S
         /\ Tail(q) \in Seq(S)
         /\ Range(q) = {Head(q)} \union Range(Tail(q))
<1>1. /\ Head(q) \in S
      /\ Tail(q) \in Seq(S)
      /\ Len(q) \in Nat \ {0}
      /\ Len(Tail(q)) = Len(q) - 1
      /\ \A i \in 1 .. Len(Tail(q)) : Tail(q)[i] = q[i + 1]
      /\ Head(q) = q[1]
      /\ DOMAIN q = 1 .. Len(q)
      /\ DOMAIN Tail(q) = 1 .. Len(Tail(q))
  OBVIOUS
<1>2. \A i \in DOMAIN q : i = 1 \/ (i - 1 \in DOMAIN Tail(q) /\ q[i] = Tail(q)[i - 1])
  BY <1>1
<1>3. \A i \in DOMAIN Tail(q) : i + 1 \in DOMAIN q /\ Tail(q)[i] = q[i + 1]
  BY <1>1
<1>4. 1 \in DOMAIN q
  BY <1>1
<1>5. QED
  BY <1>1, <1>2, <1>3, <1>4 DEF Range

\* What enqueueing does to them.
LEMMA AppendFacts ==
  ASSUME NEW S, NEW q \in Seq(S), NEW x \in S
  PROVE  /\ Append(q, x) \in Seq(S)
         /\ Range(Append(q, x)) = Range(q) \union {x}
<1>1. /\ Append(q, x) \in Seq(S)
      /\ Len(q) \in Nat
      /\ DOMAIN q = 1 .. Len(q)
      /\ DOMAIN Append(q, x) = 1 .. Len(q) + 1
      /\ \A i \in 1 .. Len(q) : Append(q, x)[i] = q[i]
      /\ Append(q, x)[Len(q) + 1] = x
  OBVIOUS
<1>2. \A i \in DOMAIN Append(q, x) : i \in DOMAIN q \/ i = Len(q) + 1
  BY <1>1
<1>3. DOMAIN q \subseteq DOMAIN Append(q, x) /\ Len(q) + 1 \in DOMAIN Append(q, x)
  BY <1>1
<1>4. QED
  BY <1>1, <1>2, <1>3 DEF Range

\* Following one edge more keeps a node reachable.
LEMMA ReachesStep ==
  ASSUME NEW node, NEW E, NEW s, NEW e \in E, Reaches(node, E, s, e[1])
  PROVE  Reaches(node, E, s, e[2])
BY DEF Reaches, ClosedUnder

\* A closed set that contains s and not t refutes a path from s to t.
LEMMA ClosedSetRefutes ==
  ASSUME NEW node, NEW E, NEW s, NEW t, NEW S \in SUBSET node,
         s \in S, ClosedUnder(E, S), t \notin S
  PROVE  ~ Reaches(node, E, s, t)
BY DEF Reaches

\* What the type invariant says of the edge list.
LEMMA EdgeFacts ==
  ASSUME edges \in EdgeLists
  PROVE  /\ edges \in Seq(Node \X Node)
         /\ Len(edges) \in Nat
         /\ DOMAIN edges = 1 .. Len(edges)
         /\ \A i \in DOMAIN edges : edges[i] \in Node \X Node /\ edges[i][2] \in Node
<1>1. edges \in Seq(Node \X Node)
  BY GraphAssumption
<1>2. QED
  BY <1>1

\* The search starts with its variables in their types.
LEMMA InitType == Init => TypeOK
<1> SUFFICES ASSUME Init PROVE TypeOK
  OBVIOUS
<1>1. edges \in EdgeLists /\ scan \in 1 .. Len(edges) + 1
  BY EdgeFacts DEF Init
<1>2. queue \in Seq(Node)
  BY DEF Init
<1>3. QED
  BY <1>1, <1>2, GraphAssumption DEF Init, TypeOK

-----------------------------------------------------------------------------
(* The type invariant: every variable of the search stays in its type,      *)
(* whatever the edge list (engine.go:386-428).                              *)
THEOREM TypeCorrect == Spec => []TypeOK
<1>. USE GraphAssumption DEF TypeOK
<1>1. Init => TypeOK
  BY InitType
<1>2. TypeOK /\ [Next]_vars => TypeOK'
  <2> SUFFICES ASSUME TypeOK, [Next]_vars
               PROVE  TypeOK'
    OBVIOUS
  <2>. edges \in Seq(Node \X Node) /\ Len(edges) \in Nat
    BY EdgeFacts
  <2>1. ASSUME NEW n \in todo, PickStart(n) PROVE TypeOK'
    BY <2>1 DEF PickStart, program
  <2>2. CASE Return
    BY <2>2 DEF Return, program
  <2>3. CASE PopTarget
    BY <2>3, PopFacts DEF PopTarget, program
  <2>4. CASE PopNode
    BY <2>4, PopFacts DEF PopNode, program
  <2>5. CASE SearchExhausted
    BY <2>5 DEF SearchExhausted, program
  <2>6. CASE VisitEdge
    <3>1. edges[scan][2] \in Node /\ scan + 1 \in 1 .. Len(edges) + 1
      BY <2>6, EdgeFacts DEF VisitEdge
    <3>2. queue' \in Seq(Node) /\ seen' \in SUBSET Node
      <4>1. Append(queue, edges[scan][2]) \in Seq(Node)
        BY <3>1, AppendFacts
      <4>2. QED
        BY <2>6, <3>1, <4>1 DEF VisitEdge
    <3>3. QED
      BY <2>6, <3>1, <3>2 DEF VisitEdge, program
  <2>7. CASE VisitsDone
    BY <2>7 DEF VisitsDone, program
  <2>8. CASE UNCHANGED vars
    BY <2>8 DEF vars, program
  <2>9. QED
    BY <2>1, <2>2, <2>3, <2>4, <2>5, <2>6, <2>7, <2>8 DEF Next, Step, Returned
<1>3. QED
  BY <1>1, <1>2, PTL DEF Spec

-----------------------------------------------------------------------------
\* One lemma per step of the search.

\* A fresh search has marked its start only, and has it queued.
LEMMA PickStartStep ==
  ASSUME IInv, TypeOK', NEW n \in todo, PickStart(n)
  PROVE  IInv'
<1>. USE DEF PickStart, program, TypeOK
<1>1. EdgeSet' = EdgeSet /\ Queued' = {n} /\ Reaches(Node, EdgeSet, n, n)
  BY DEF EdgeSet, Queued, Range, Reaches
<1>2. FlagIsSound'
  BY <1>1 DEF IInv, FlagIsSound, ChangeReachesTarget
<1>3. SearchInv'
  BY <1>1 DEF IInv, SearchInv, Searching
<1>4. FinishedInv'
  BY <1>1 DEF IInv, FinishedInv, Searching
<1>5. QED
  BY <1>2, <1>3, <1>4 DEF IInv, DoneInv

\* Popping the target raises the flag, with the path that was followed to it.
LEMMA PopTargetStep ==
  ASSUME IInv, TypeOK', PopTarget
  PROVE  IInv'
<1>. USE DEF PopTarget, program, TypeOK
<1>1. EdgeSet' = EdgeSet
  BY DEF EdgeSet
<1>2. Target \in Queued
  BY PopFacts DEF Queued
<1>3. start \in impacted /\ Reaches(Node, EdgeSet, start, Target)
  BY <1>2 DEF IInv, SearchInv, Searching
<1>4. FlagIsSound'
  BY <1>1, <1>3 DEF FlagIsSound, ChangeReachesTarget
<1>5. SearchInv' /\ FinishedInv' /\ DoneInv'
  BY DEF SearchInv, FinishedInv, DoneInv, Searching
<1>6. QED
  BY <1>4, <1>5 DEF IInv

\* A popped node that is not the target is visited from its first edge.
LEMMA PopNodeStep ==
  ASSUME IInv, TypeOK', PopNode
  PROVE  IInv'
<1>. USE DEF PopNode, program, TypeOK
<1>1. EdgeSet' = EdgeSet
  BY DEF EdgeSet
<1>2. Queued = {current'} \union Queued'
  <2>1. queue \in Seq(Node) /\ queue # <<>>
    BY DEF IInv
  <2>2. QED
    BY <2>1, PopFacts DEF Queued
<1>3. /\ start \in impacted \ todo
      /\ start \in seen
      /\ \A n \in seen : Reaches(Node, EdgeSet, start, n)
      /\ Queued \subseteq seen
      /\ \A n \in seen \ Queued : n # Target /\ Explored(n)
  BY DEF IInv, SearchInv, Searching
<1>4. \A n \in (seen \ Queued') : n # Target /\ Explored(n)'
  <2> SUFFICES ASSUME NEW n \in seen \ Queued' PROVE n # Target /\ Explored(n)'
    OBVIOUS
  <2>1. CASE n = current'
    <3>1. \A i \in DOMAIN edges : ~(i < 1)
      BY EdgeFacts DEF IInv
    <3>2. QED
      BY <2>1, <3>1 DEF Explored
  <2>2. CASE n # current'
    <3>1. n # Target /\ Explored(n)
      BY <1>2, <1>3, <2>2
    <3>2. QED
      BY <2>2, <3>1 DEF Explored
  <2>3. QED
    BY <2>1, <2>2
<1>5. SearchInv'
  BY <1>1, <1>2, <1>3, <1>4 DEF SearchInv
<1>6. FlagIsSound' /\ FinishedInv' /\ DoneInv'
  BY <1>1 DEF IInv, FlagIsSound, ChangeReachesTarget, FinishedInv, DoneInv, Searching
<1>7. QED
  BY <1>5, <1>6 DEF IInv

\* An empty queue leaves a marked set closed under the edges, without the target.
LEMMA SearchExhaustedStep ==
  ASSUME IInv, TypeOK', SearchExhausted
  PROVE  IInv'
<1>. USE DEF SearchExhausted, program, TypeOK
<1>1. EdgeSet' = EdgeSet
  BY DEF EdgeSet
<1>2. Queued = {}
  BY DEF Queued, Range
<1>3. start \in seen /\ \A n \in seen : n # Target /\ Explored(n)
  BY <1>2 DEF IInv, SearchInv, Searching
<1>4. ClosedUnder(EdgeSet, seen)
  BY <1>3 DEF ClosedUnder, EdgeSet, Explored
<1>5. ~ Reaches(Node, EdgeSet, start, Target)
  BY <1>3, <1>4, ClosedSetRefutes
<1>6. FinishedInv'
  BY <1>1, <1>5 DEF IInv, FinishedInv, Searching
<1>7. FlagIsSound' /\ SearchInv' /\ DoneInv'
  BY <1>1 DEF IInv, FlagIsSound, ChangeReachesTarget, SearchInv, DoneInv, Searching
<1>8. QED
  BY <1>6, <1>7 DEF IInv

\* A visited edge has its end marked, and queued if it was not marked before.
LEMMA VisitEdgeStep ==
  ASSUME IInv, TypeOK', VisitEdge
  PROVE  IInv'
<1>. USE DEF VisitEdge, program, TypeOK
<1>1. EdgeSet' = EdgeSet /\ edges[scan] \in EdgeSet /\ scan \in DOMAIN edges
  BY EdgeFacts DEF IInv, EdgeSet
<1>2. /\ start \in impacted \ todo
      /\ start \in seen
      /\ \A n \in seen : Reaches(Node, EdgeSet, start, n)
      /\ Queued \subseteq seen
      /\ \A n \in seen \ Queued : n # Target /\ Explored(n)
      /\ current \in seen /\ current # Target
  BY DEF IInv, SearchInv, Searching
<1>3. FlagIsSound' /\ FinishedInv' /\ DoneInv'
  BY <1>1 DEF IInv, FlagIsSound, ChangeReachesTarget, FinishedInv, DoneInv, Searching
<1>4. CASE edges[scan][1] = current /\ edges[scan][2] \notin seen
  <2>1. edges[scan][2] \in Node
    BY <1>1, EdgeFacts DEF IInv
  <2>2. Queued' = Queued \union {edges[scan][2]}
    <3>1. queue \in Seq(Node) /\ queue' = Append(queue, edges[scan][2])
      BY <1>4 DEF IInv
    <3>2. QED
      BY <2>1, <3>1, AppendFacts DEF Queued
  <2>3. Reaches(Node, EdgeSet, start, edges[scan][2])
    BY <1>1, <1>2, <1>4, ReachesStep
  <2>4. \A n \in seen' \ Queued' : n # Target /\ Explored(n)'
    <3> SUFFICES ASSUME NEW n \in seen' \ Queued' PROVE n # Target /\ Explored(n)'
      OBVIOUS
    <3>1. n \in seen \ Queued
      BY <1>4, <2>2
    <3>2. n # Target /\ Explored(n)
      BY <1>2, <3>1
    <3>3. \A i \in DOMAIN edges : i < scan + 1 => i < scan \/ i = scan
      BY EdgeFacts DEF IInv
    <3>4. QED
      BY <1>4, <3>2, <3>3 DEF Explored
  <2>5. SearchInv'
    BY <1>1, <1>2, <1>4, <2>2, <2>3, <2>4 DEF SearchInv
  <2>6. QED
    BY <1>3, <2>5 DEF IInv
<1>5. CASE ~(edges[scan][1] = current /\ edges[scan][2] \notin seen)
  <2>1. Queued' = Queued /\ seen' = seen
    BY <1>5 DEF Queued
  <2>2. \A n \in seen \ Queued : n # Target /\ Explored(n)'
    <3>1. \A i \in DOMAIN edges : i < scan + 1 => i < scan \/ i = scan
      BY EdgeFacts DEF IInv
    <3>2. QED
      BY <1>2, <1>5, <2>1, <3>1 DEF Explored
  <2>3. SearchInv'
    BY <1>1, <1>2, <2>1, <2>2 DEF SearchInv
  <2>4. QED
    BY <1>3, <2>3 DEF IInv
<1>6. QED
  BY <1>4, <1>5

\* A node all of whose edges are visited is explored.
LEMMA VisitsDoneStep ==
  ASSUME IInv, TypeOK', VisitsDone
  PROVE  IInv'
<1>. USE DEF VisitsDone, program, TypeOK
<1>1. EdgeSet' = EdgeSet /\ Queued' = Queued
  BY DEF EdgeSet, Queued
<1>2. \A i \in DOMAIN edges : i < scan
  BY EdgeFacts DEF IInv
<1>3. \A n \in seen \ Queued : n # Target /\ Explored(n)'
  BY <1>2 DEF IInv, SearchInv, Searching, Explored
<1>4. SearchInv'
  BY <1>1, <1>3 DEF IInv, SearchInv, Searching
<1>5. FlagIsSound' /\ FinishedInv' /\ DoneInv'
  BY <1>1 DEF IInv, FlagIsSound, ChangeReachesTarget, FinishedInv, DoneInv, Searching
<1>6. QED
  BY <1>4, <1>5 DEF IInv

-----------------------------------------------------------------------------
\* Before the first search nothing is claimed of any node.
LEMMA InitInv == Init => IInv
<1> SUFFICES ASSUME Init PROVE IInv
  OBVIOUS
<1>1. TypeOK
  BY InitType
<1>2. QED
  BY <1>1 DEF Init, IInv, FlagIsSound, SearchInv, FinishedInv, DoneInv, Searching

\* No step of the loop breaks the invariant.
LEMMA Inductive == IInv /\ TypeOK' /\ [Next]_vars => IInv'
<1> SUFFICES ASSUME IInv, TypeOK', [Next]_vars
             PROVE  IInv'
  OBVIOUS
<1>1. CASE Return
  <2>1. EdgeSet' = EdgeSet
    BY <1>1 DEF Return, program, EdgeSet
  <2>2. QED
    BY <1>1, <2>1 DEF Return, program, IInv, TypeOK, FlagIsSound,
       ChangeReachesTarget, SearchInv, FinishedInv, DoneInv, Searching
<1>2. CASE UNCHANGED vars
  <2>1. EdgeSet' = EdgeSet /\ Queued' = Queued /\ \A n : Explored(n)' = Explored(n)
    BY <1>2 DEF vars, program, EdgeSet, Queued, Explored
  <2>2. QED
    BY <1>2, <2>1 DEF vars, program, IInv, TypeOK, FlagIsSound,
       ChangeReachesTarget, SearchInv, FinishedInv, DoneInv, Searching
<1>3. QED
  BY <1>1, <1>2, PickStartStep, PopTargetStep, PopNodeStep, SearchExhaustedStep,
     VisitEdgeStep, VisitsDoneStep DEF Next, Step, Returned

(* For every edge list and every set of impacts, a returned search has      *)
(* raised path_to_target exactly when a declared change reaches the         *)
(* obligation (engine.go:408-426).                                          *)
THEOREM Exactness == Spec => []SearchIsExact
<1>1. IInv => SearchIsExact
  BY DEF IInv, SearchIsExact, FlagIsSound, FinishedInv, DoneInv, Searching,
     ChangeReachesTarget, TypeOK
<1>2. QED
  BY <1>1, InitInv, Inductive, TypeCorrect, PTL DEF Spec

(* Already while the search runs, a raised flag means a path exists: the    *)
(* break at engine.go:415-418 loses nothing.                                *)
THEOREM Soundness == Spec => []FlagIsSound
<1>1. IInv => FlagIsSound
  BY DEF IInv
<1>2. QED
  BY <1>1, InitInv, Inductive, TypeCorrect, PTL DEF Spec

-----------------------------------------------------------------------------
(* No node is queued twice, which is what bounds the search. *)

\* No element of the sequence occurs twice.
Distinct(q) == \A i, j \in DOMAIN q : i # j => q[i] # q[j]

\* A queue without repetitions keeps none when its head is taken, and the head
\* is not in the rest.
LEMMA PopDistinct ==
  ASSUME NEW S, NEW q \in Seq(S), q # <<>>, Distinct(q)
  PROVE  Distinct(Tail(q)) /\ \A i \in DOMAIN Tail(q) : Tail(q)[i] # Head(q)
<1>1. /\ Len(q) \in Nat \ {0}
      /\ Len(Tail(q)) = Len(q) - 1
      /\ \A i \in 1 .. Len(Tail(q)) : Tail(q)[i] = q[i + 1]
      /\ Head(q) = q[1]
      /\ DOMAIN q = 1 .. Len(q)
      /\ DOMAIN Tail(q) = 1 .. Len(Tail(q))
  OBVIOUS
<1>2. \A i \in DOMAIN Tail(q) : i + 1 \in DOMAIN q /\ i + 1 # 1 /\ Tail(q)[i] = q[i + 1]
  BY <1>1
<1>3. \A i, j \in DOMAIN Tail(q) : i # j => i + 1 # j + 1
  BY <1>1
<1>4. 1 \in DOMAIN q
  BY <1>1
<1> QED BY <1>1, <1>2, <1>3, <1>4 DEF Distinct

\* Nor does it get one when a node that is not in it is enqueued.
LEMMA AppendDistinct ==
  ASSUME NEW S, NEW q \in Seq(S), NEW x \in S, Distinct(q), x \notin Range(q)
  PROVE  Distinct(Append(q, x))
<1>1. /\ Len(q) \in Nat
      /\ DOMAIN q = 1 .. Len(q)
      /\ DOMAIN Append(q, x) = 1 .. Len(q) + 1
      /\ \A i \in 1 .. Len(q) : Append(q, x)[i] = q[i]
      /\ Append(q, x)[Len(q) + 1] = x
  OBVIOUS
<1>2. \A i \in DOMAIN Append(q, x) : i \in DOMAIN q \/ i = Len(q) + 1
  BY <1>1
<1>3. \A i \in DOMAIN q : q[i] # x
  BY DEF Range
<1> QED BY <1>1, <1>2, <1>3 DEF Distinct

\* What is enqueued was not marked, and whatever is queued or being visited is.
LEMMA OnceStep == IInv /\ EachNodeOnce /\ [Next]_vars => EachNodeOnce'
<1> SUFFICES ASSUME IInv, EachNodeOnce, [Next]_vars PROVE EachNodeOnce'
  OBVIOUS
<1>1. queue \in Seq(Node) /\ Distinct(queue) /\ current \in Node /\ edges \in EdgeLists
  BY DEF IInv, TypeOK, EachNodeOnce, Distinct
<1>2. SUFFICES Distinct(queue') /\ (pc' = "visit" => \A i \in DOMAIN queue' : queue'[i] # current')
  BY DEF EachNodeOnce, Distinct
<1>3. CASE \E n \in todo : PickStart(n)
  <2>1. PICK n \in todo : PickStart(n)
    BY <1>3
  <2>2. queue' = <<n>> /\ pc' = "dequeue"
    BY <2>1 DEF PickStart
  <2> QED BY <2>2 DEF Distinct
<1>4. CASE PopTarget \/ PopNode
  <2>1. queue # <<>> /\ queue' = Tail(queue) /\ current' = Head(queue)
    BY <1>4 DEF PopTarget, PopNode
  <2> QED BY <1>1, <2>1, PopDistinct
<1>5. CASE VisitEdge
  <2> DEFINE next == edges[scan][2]
  <2>1. pc = "visit" /\ pc' = pc /\ current' = current
    BY <1>5 DEF VisitEdge
  <2>2. CASE queue' = queue
    BY <1>1, <2>1, <2>2 DEF EachNodeOnce
  <2>3. CASE next \notin seen /\ queue' = Append(queue, next)
    <3>1. next \in Node
      <4>1. scan \in DOMAIN edges
        BY <1>1, <1>5, EdgeFacts DEF VisitEdge, IInv, TypeOK
      <4> QED BY <1>1, <4>1, EdgeFacts
    <3>2. next \notin Range(queue) /\ next # current
      BY <2>1, <2>3 DEF IInv, SearchInv, Searching, Queued
    <3>3. Distinct(queue')
      BY <1>1, <2>3, <3>1, <3>2, AppendDistinct
    <3>4. current \notin Range(queue')
      <4> HIDE DEF next
      <4>1. current \notin Range(queue)
        BY <2>1 DEF EachNodeOnce, Range
      <4> QED BY <1>1, <2>3, <3>1, <3>2, <4>1, AppendFacts
    <3> QED BY <2>1, <3>3, <3>4 DEF Range
  <2> QED BY <1>5, <2>2, <2>3 DEF VisitEdge
<1>6. CASE Return \/ SearchExhausted \/ VisitsDone
  BY <1>1, <1>6 DEF Return, SearchExhausted, VisitsDone
<1>7. CASE UNCHANGED vars
  BY <1>1, <1>7 DEF vars, EachNodeOnce
<1> QED BY <1>3, <1>4, <1>5, <1>6, <1>7 DEF Next, Step, Returned

(* Marking at enqueue time keeps every node in the queue at most once and   *)
(* never brings back the one being visited, on any graph                    *)
(* (engine.go:419-424).                                                     *)
THEOREM NodesOnce == Spec => []EachNodeOnce
<1>1. Init => EachNodeOnce
  BY DEF Init, EachNodeOnce
<1> QED BY <1>1, InitInv, Inductive, OnceStep, TypeCorrect, PTL DEF Spec

-----------------------------------------------------------------------------
(* Paths.  Reaches speaks of closed sets; here it is shown to be what a     *)
(* reader of the program means by a path: a sequence of edges.              *)

\* p[0], p[1], ... p[n] follows n edges from s to t.
IsPath(node, E, p, n, s, t) ==
  /\ p \in [0 .. n -> node]
  /\ p[0] = s
  /\ p[n] = t
  /\ \A i \in 0 .. n - 1 : <<p[i], p[i + 1]>> \in E

HasPath(node, E, s, t) == \E n \in Nat : \E p \in [0 .. n -> node] : IsPath(node, E, p, n, s, t)

\* A set of numbers has a least one.
LEMMA LeastElement ==
  ASSUME NEW S \in SUBSET Nat, S # {}
  PROVE  \E n \in S : \A m \in S : n <= m
<1> DEFINE less == {ss \in Nat \X Nat : ss[1] < ss[2]}
<1>1. IsWellFoundedOn(less, Nat)
  BY NatLessThanWellFounded DEF OpToRel
<1>2. PICK n \in S : \A m \in S : <<m, n>> \notin less
  <2> HIDE DEF less
  <2> QED BY <1>1, WFMin
<1>3. ASSUME NEW m \in S PROVE n <= m
  <2>1. m \in Nat /\ n \in Nat /\ <<m, n>> \in Nat \X Nat
    OBVIOUS
  <2>2. ~(m < n)
    BY <1>2, <2>1
  <2> QED BY <2>1, <2>2
<1> QED BY <1>3

\* A path that starts in a closed set stays in it: the first of its nodes
\* outside would be entered by an edge that leaves the set.
LEMMA PathStaysClosed ==
  ASSUME NEW node, NEW E, NEW S \in SUBSET node, NEW s \in S, NEW t,
         NEW n \in Nat, NEW p \in [0 .. n -> node],
         ClosedUnder(E, S), IsPath(node, E, p, n, s, t)
  PROVE  t \in S
<1> SUFFICES ASSUME t \notin S PROVE FALSE
  OBVIOUS
<1> DEFINE outside == {i \in 0 .. n : p[i] \notin S}
<1>1. n \in outside /\ outside \in SUBSET Nat
  BY DEF IsPath
<1>2. PICK i \in outside : \A j \in outside : i <= j
  <2> HIDE DEF outside
  <2> QED BY <1>1, LeastElement
<1>3. i \in 0 .. n /\ p[i] \notin S /\ i # 0
  BY DEF IsPath
<1>4. i - 1 \in 0 .. n - 1 /\ i - 1 \in 0 .. n /\ ~(i <= i - 1) /\ (i - 1) + 1 = i
  BY <1>3
<1>5. p[i - 1] \in S
  BY <1>2, <1>4
<1>6. <<p[i - 1], p[i]>> \in E
  BY <1>4 DEF IsPath
<1> QED BY <1>3, <1>5, <1>6 DEF ClosedUnder

\* One edge more makes a longer path.
LEMMA PathExtends ==
  ASSUME NEW node, NEW E, NEW s, NEW u, NEW v \in node,
         <<u, v>> \in E, HasPath(node, E, s, u)
  PROVE  HasPath(node, E, s, v)
<1>1. PICK n \in Nat : \E p \in [0 .. n -> node] : IsPath(node, E, p, n, s, u)
  BY DEF HasPath
<1>2. PICK p \in [0 .. n -> node] : IsPath(node, E, p, n, s, u)
  BY <1>1
<1> DEFINE q == [i \in 0 .. n + 1 |-> IF i = n + 1 THEN v ELSE p[i]]
<1>3. q \in [0 .. n + 1 -> node]
  OBVIOUS
<1>4. q[0] = s /\ q[n + 1] = v
  BY <1>2 DEF IsPath
<1>5. ASSUME NEW i \in 0 .. (n + 1) - 1 PROVE <<q[i], q[i + 1]>> \in E
  <2>1. CASE i = n
    <3>1. q[i] = p[n] /\ q[i + 1] = v
      BY <2>1
    <3> QED BY <1>2, <3>1 DEF IsPath
  <2>2. CASE i # n
    <3>1. i \in 0 .. n - 1 /\ q[i] = p[i] /\ q[i + 1] = p[i + 1]
      BY <2>2
    <3> QED BY <1>2, <3>1 DEF IsPath
  <2> QED BY <2>1, <2>2
<1> HIDE DEF q
<1>6. n + 1 \in Nat /\ IsPath(node, E, q, n + 1, s, v)
  BY <1>3, <1>4, <1>5 DEF IsPath
<1> QED BY <1>3, <1>6 DEF HasPath

(* The definition by closed sets is the one by paths: whatever the graph, a *)
(* node is reachable exactly when a finite sequence of edges leads to it.   *)
(* It is the meaning of path_to_target (engine.go:408-426), and cycles and  *)
(* self loops need no exception.                                            *)
THEOREM ReachesIsPath ==
  ASSUME NEW node, NEW E \in SUBSET (node \X node), NEW s \in node, NEW t
  PROVE  Reaches(node, E, s, t) <=> HasPath(node, E, s, t)
<1>1. ASSUME HasPath(node, E, s, t) PROVE Reaches(node, E, s, t)
  <2>1. PICK n \in Nat : \E p \in [0 .. n -> node] : IsPath(node, E, p, n, s, t)
    BY <1>1 DEF HasPath
  <2>2. PICK p \in [0 .. n -> node] : IsPath(node, E, p, n, s, t)
    BY <2>1
  <2> QED BY <2>2, PathStaysClosed DEF Reaches
<1>2. ASSUME Reaches(node, E, s, t) PROVE HasPath(node, E, s, t)
  <2> DEFINE S == {x \in node : HasPath(node, E, s, x)}
  <2>1. s \in S
    <3> DEFINE p == [i \in 0 .. 0 |-> s]
    <3>1. p \in [0 .. 0 -> node] /\ IsPath(node, E, p, 0, s, s)
      BY DEF IsPath
    <3>2. HasPath(node, E, s, s)
      <4> HIDE DEF p
      <4> QED BY <3>1 DEF HasPath
    <3> QED BY <3>2
  <2>2. ClosedUnder(E, S)
    <3> SUFFICES ASSUME NEW e \in E, e[1] \in S PROVE e[2] \in S
      BY DEF ClosedUnder
    <3>1. e[2] \in node /\ <<e[1], e[2]>> \in E /\ HasPath(node, E, s, e[1])
      OBVIOUS
    <3> QED BY <3>1, PathExtends
  <2>3. S \in SUBSET node
    OBVIOUS
  <2>4. t \in S
    <3> HIDE DEF S
    <3> QED BY <1>2, <2>1, <2>2, <2>3 DEF Reaches
  <2> QED BY <2>4
<1> QED BY <1>1, <1>2

\* The flag says whether a sequence of edges leads from an impact to the target.
FlagSaysPath ==
  pc = "done" => (pathToTarget <=> \E n \in impacted : HasPath(Node, EdgeSet, n, Target))

(* Exactness in the program's own terms: the search returns with            *)
(* path_to_target raised exactly when some declared change has a finite     *)
(* chain of dependency edges to the obligation (engine.go:386-428).         *)
THEOREM PathsDecide == Spec => []FlagSaysPath
<1>1. TypeOK /\ SearchIsExact => FlagSaysPath
  <2> SUFFICES ASSUME TypeOK, SearchIsExact PROVE FlagSaysPath
    OBVIOUS
  <2>1. EdgeSet \in SUBSET (Node \X Node) /\ impacted \subseteq Node
    BY EdgeFacts DEF EdgeSet, TypeOK
  <2>2. \A n \in impacted : Reaches(Node, EdgeSet, n, Target) <=> HasPath(Node, EdgeSet, n, Target)
    BY <2>1, ReachesIsPath
  <2> QED BY <2>2 DEF SearchIsExact, FlagSaysPath, ChangeReachesTarget
<1> QED BY <1>1, TypeCorrect, Exactness, PTL

-----------------------------------------------------------------------------
(* Why the search ends: a measure that every step lowers. *)

\* The edges whose end is not marked yet, by position.
Unmarked == {i \in DOMAIN edges : edges[i][2] \notin seen}

\* Nodes the current search may still pop.
Pops == Cardinality(Unmarked) + Len(queue)

\* Steps until the next pop, or until the next start is picked.
Steps ==
  CASE pc = "visit"   -> Len(edges) + 4 - scan
    [] pc = "dequeue" -> 2
    [] pc = "start"   -> 1
    [] pc = "done"    -> 0

\* A start is used up; or the current search has fewer nodes to pop; or as many
\* and it is nearer to the next pop.
Descends ==
  \/ todo' \subseteq todo /\ todo' # todo
  \/ todo' = todo /\ Pops' < Pops
  \/ todo' = todo /\ Pops' = Pops /\ Steps' < Steps

\* Both parts of the measure are numbers.
LEMMA MeasureType ==
  ASSUME TypeOK
  PROVE  /\ edges \in Seq(Node \X Node) /\ Len(edges) \in Nat /\ DOMAIN edges = 1 .. Len(edges)
         /\ IsFiniteSet(Unmarked) /\ Cardinality(Unmarked) \in Nat
         /\ Pops \in Nat
<1>1. /\ edges \in Seq(Node \X Node) /\ Len(edges) \in Nat /\ DOMAIN edges = 1 .. Len(edges)
      /\ Len(queue) \in Nat
  BY EdgeFacts DEF TypeOK
<1>2. Unmarked \in SUBSET (1 .. Len(edges)) /\ IsFiniteSet(1 .. Len(edges))
  <2>1. 1 \in Int /\ Len(edges) \in Int
    BY <1>1
  <2>2. IsFiniteSet(1 .. Len(edges))
    BY <2>1, FS_Interval
  <2> QED BY <1>1, <2>2 DEF Unmarked
<1>3. IsFiniteSet(Unmarked)
  BY <1>2, FS_Subset
<1>4. Cardinality(Unmarked) \in Nat
  BY <1>3, FS_CardinalityType
<1> QED BY <1>1, <1>3, <1>4 DEF Pops

\* A pop takes one node off what the search may still pop.
LEMMA PopDescends ==
  ASSUME TypeOK, TypeOK', PopTarget \/ PopNode
  PROVE  Descends
<1>1. todo' = todo /\ edges' = edges /\ seen' = seen /\ queue # <<>> /\ queue' = Tail(queue)
  BY DEF PopTarget, PopNode, program
<1>2. Unmarked' = Unmarked
  BY <1>1 DEF Unmarked
<1>3. Len(queue') = Len(queue) - 1 /\ Len(queue) \in Nat
  BY <1>1 DEF TypeOK
<1>4. Cardinality(Unmarked) \in Nat
  BY MeasureType
<1> QED BY <1>1, <1>2, <1>3, <1>4 DEF Descends, Pops

\* A node is enqueued at the price of the edge that led to it.
LEMMA VisitDescends ==
  ASSUME TypeOK, TypeOK', VisitEdge
  PROVE  Descends
<1> DEFINE next == edges[scan][2]
<1>1. /\ pc = "visit" /\ pc' = "visit" /\ todo' = todo /\ edges' = edges
      /\ scan \in DOMAIN edges /\ scan' = scan + 1 /\ scan \in Nat
      /\ \/ seen' = seen \union {next} /\ next \notin seen /\ queue' = Append(queue, next)
         \/ seen' = seen /\ queue' = queue
  BY MeasureType DEF VisitEdge, program, TypeOK
<1>2. Steps' < Steps
  BY <1>1, MeasureType DEF Steps
<1>3. CASE seen' = seen /\ queue' = queue
  <2>1. Unmarked' = Unmarked
    BY <1>1, <1>3 DEF Unmarked
  <2>2. Pops' = Pops
    BY <1>3, <2>1 DEF Pops
  <2> QED BY <1>1, <1>2, <2>2 DEF Descends
<1>4. CASE seen' = seen \union {next} /\ next \notin seen /\ queue' = Append(queue, next)
  <2>1. Unmarked' \in SUBSET Unmarked /\ scan \in Unmarked /\ scan \notin Unmarked'
    BY <1>1, <1>4 DEF Unmarked
  <2>2. IsFiniteSet(Unmarked) /\ Cardinality(Unmarked) \in Nat /\ Cardinality(Unmarked') \in Nat
    <3>1. IsFiniteSet(Unmarked) /\ Cardinality(Unmarked) \in Nat
      BY MeasureType
    <3>2. IsFiniteSet(Unmarked')
      BY <2>1, <3>1, FS_Subset
    <3>3. Cardinality(Unmarked') \in Nat
      BY <3>2, FS_CardinalityType
    <3> QED BY <3>1, <3>3
  <2>3. Cardinality(Unmarked') < Cardinality(Unmarked)
    <3>1. /\ Cardinality(Unmarked') <= Cardinality(Unmarked)
          /\ Cardinality(Unmarked) = Cardinality(Unmarked') => Unmarked = Unmarked'
      BY <2>1, <2>2, FS_Subset
    <3>2. Unmarked # Unmarked'
      BY <2>1
    <3> QED BY <2>2, <3>1, <3>2
  <2>4. Len(queue') = Len(queue) + 1 /\ Len(queue) \in Nat
    <3>1. queue \in Seq(Node) /\ Len(queue) \in Nat
      BY DEF TypeOK
    <3> HIDE DEF next
    <3>2. next \in Node
      <4>1. edges[scan][2] \in Node
        BY <1>1, EdgeFacts DEF TypeOK
      <4> QED BY <4>1 DEF next
    <3> QED BY <1>4, <3>1, <3>2
  <2>5. Pops' <= Pops /\ Pops' \in Nat /\ Pops \in Nat
    BY <2>2, <2>3, <2>4, MeasureType DEF Pops
  <2>6. Pops' < Pops \/ Pops' = Pops
    BY <2>5
  <2> QED BY <1>1, <1>2, <2>6 DEF Descends
<1> QED BY <1>1, <1>3, <1>4

\* The other steps change the place in the loop only, or use up a start.
LEMMA ControlDescends ==
  ASSUME TypeOK, Return \/ SearchExhausted \/ VisitsDone \/ \E n \in todo : PickStart(n)
  PROVE  Descends
<1>1. CASE \E n \in todo : PickStart(n)
  BY <1>1 DEF PickStart, Descends
<1>2. CASE Return \/ SearchExhausted \/ VisitsDone
  <2>1. /\ todo' = todo /\ edges' = edges /\ seen' = seen /\ queue' = queue /\ scan' = scan
        /\ \/ pc = "start" /\ pc' = "done"
           \/ pc = "dequeue" /\ pc' = "start"
           \/ pc = "visit" /\ pc' = "dequeue"
    BY <1>2 DEF Return, SearchExhausted, VisitsDone, program
  <2>2. Pops' = Pops
    BY <2>1 DEF Pops, Unmarked
  <2>3. pc = "visit" => Steps >= 3
    <3>1. scan \in 1 .. Len(edges) + 1 /\ Len(edges) \in Nat
      BY MeasureType DEF TypeOK
    <3>2. Len(edges) + 4 - scan >= 3
      BY <3>1
    <3> QED BY <3>2 DEF Steps
  <2>4. Steps' < Steps
    BY <2>1, <2>3, MeasureType DEF Steps, TypeOK
  <2> QED BY <2>1, <2>2, <2>4 DEF Descends
<1> QED BY <1>1, <1>2

(* The search never goes round: whatever the cycles of the graph, every     *)
(* step uses up a start, or a node to pop, or an edge to look at, so a      *)
(* search over finitely many impacts ends (engine.go:408-426).              *)
THEOREM SearchDescends == Spec => [][Descends]_vars
<1>1. TypeOK /\ TypeOK' /\ [Next]_vars => [Descends]_vars
  BY PopDescends, VisitDescends, ControlDescends DEF Next, Step, Returned
<1> QED BY <1>1, TypeCorrect, PTL DEF Spec
=============================================================================
