--------------------------- MODULE DependencyGraph ---------------------------
(***************************************************************************)
(* buildDependencyGraph (internal/engine/engine.go): from every impacted   *)
(* node a breadth-first search over the edges of the program decides       *)
(* whether a declared change can reach the obligation under test.  The     *)
(* answer, path_to_target, is what forbids the reuse of a receipt.         *)
(*                                                                         *)
(* The edge list is the program's, in file order, with whatever duplicate  *)
(* edges, self loops and cycles the author wrote.  adjacency[n] is the     *)
(* sublist of edges leaving n; scanning the list and skipping the edges of *)
(* other nodes visits it in the same order.  The code takes the impacted   *)
(* nodes in sorted order; the model takes them in any order.               *)
(***************************************************************************)
EXTENDS Naturals, Sequences, Reachability

CONSTANTS
  Node,       \* node names: claims, obligations, and undeclared names
  Target,     \* "obligation:" + the obligation's identifier
  EdgeLists   \* the edge lists a program may have

ASSUME GraphAssumption ==
  /\ Target \in Node
  /\ EdgeLists \subseteq Seq(Node \X Node)

VARIABLES
  edges,         \* program.Edges
  impacted,      \* the set of program.Impacts
  todo,          \* impacted nodes the outer loop has not started from yet
  start,         \* the outer loop's current node
  seen,          \* the seen map of the current search
  queue,         \* the queue of the current search
  current,       \* the node whose successors are being visited
  scan,          \* position in edges of the loop over adjacency[current]
  pathToTarget,  \* the result
  pc             \* "start", "dequeue", "visit" or "done"

program == <<edges, impacted>>
vars == <<edges, impacted, todo, start, seen, queue, current, scan, pathToTarget, pc>>

EdgeSet == {edges[i] : i \in DOMAIN edges}

TypeOK ==
  /\ edges \in EdgeLists
  /\ impacted \in SUBSET Node
  /\ todo \in SUBSET impacted
  /\ start \in Node
  /\ seen \in SUBSET Node
  /\ queue \in Seq(Node)
  /\ current \in Node
  /\ scan \in 1 .. Len(edges) + 1
  /\ pathToTarget \in BOOLEAN
  /\ pc \in {"start", "dequeue", "visit", "done"}

Init ==
  /\ edges \in EdgeLists
  /\ impacted \in SUBSET Node
  /\ todo = impacted
  /\ start = Target
  /\ seen = {}
  /\ queue = <<>>
  /\ current = Target
  /\ scan = 1
  /\ pathToTarget = FALSE
  /\ pc = "start"

\* for _, start := range impacted: a fresh seen map and a fresh queue.
PickStart(n) ==
  /\ pc = "start"
  /\ n \in todo
  /\ todo' = todo \ {n}
  /\ start' = n
  /\ seen' = {n}
  /\ queue' = <<n>>
  /\ pc' = "dequeue"
  /\ UNCHANGED <<program, current, scan, pathToTarget>>

\* The outer loop is exhausted: the graph is returned.
Return ==
  /\ pc = "start"
  /\ todo = {}
  /\ pc' = "done"
  /\ UNCHANGED <<program, todo, start, seen, queue, current, scan, pathToTarget>>

\* The target is popped: the flag is raised and the break leaves the rest of
\* the queue behind; the outer loop goes on.
PopTarget ==
  /\ pc = "dequeue"
  /\ queue # <<>>
  /\ Head(queue) = Target
  /\ current' = Head(queue)
  /\ queue' = Tail(queue)
  /\ pathToTarget' = TRUE
  /\ pc' = "start"
  /\ UNCHANGED <<program, todo, start, seen, scan>>

\* A fault to catch: positions counted from 0.
PopNodeFromZero ==
  /\ pc = "dequeue" /\ queue # <<>> /\ Head(queue) # Target
  /\ current' = Head(queue) /\ queue' = Tail(queue)
  /\ scan' = 0
  /\ pc' = "visit"
  /\ UNCHANGED <<program, todo, start, seen, pathToTarget>>

\* A fault to catch: seen is made in the inner loop, and forgets.
PopNodeForgetting ==
  /\ pc = "dequeue" /\ queue # <<>> /\ Head(queue) # Target
  /\ current' = Head(queue) /\ queue' = Tail(queue)
  /\ seen' = {Head(queue)}
  /\ scan' = 1
  /\ pc' = "visit"
  /\ UNCHANGED <<program, todo, start, pathToTarget>>

\* Any other node is popped and its successors are visited next.
PopNode ==
  /\ pc = "dequeue"
  /\ queue # <<>>
  /\ Head(queue) # Target
  /\ current' = Head(queue)
  /\ queue' = Tail(queue)
  /\ scan' = 1
  /\ pc' = "visit"
  /\ UNCHANGED <<program, todo, start, seen, pathToTarget>>

\* A fault to catch: the first search that fails ends the outer loop too.
SearchExhaustedReturns ==
  /\ pc = "dequeue" /\ queue = <<>>
  /\ pc' = "done"
  /\ UNCHANGED <<program, todo, start, seen, queue, current, scan, pathToTarget>>

\* The queue ran empty without meeting the target.
SearchExhausted ==
  /\ pc = "dequeue"
  /\ queue = <<>>
  /\ pc' = "start"
  /\ UNCHANGED <<program, todo, start, seen, queue, current, scan, pathToTarget>>

\* A fault to catch: successors are not marked until they are popped.
VisitEdgeUnmarked ==
  /\ pc = "visit" /\ scan <= Len(edges)
  /\ IF edges[scan][1] = current /\ edges[scan][2] \notin seen
     THEN queue' = Append(queue, edges[scan][2])
     ELSE UNCHANGED queue
  /\ scan' = scan + 1
  /\ UNCHANGED <<program, todo, start, seen, current, pathToTarget, pc>>

\* One iteration over adjacency[current]: an unseen successor is marked when
\* it is enqueued, not when it is popped.
VisitEdge ==
  /\ pc = "visit"
  /\ scan <= Len(edges)
  /\ LET from == edges[scan][1]
         next == edges[scan][2]
     IN  IF from = current /\ next \notin seen
         THEN /\ seen' = seen \union {next}
              /\ queue' = Append(queue, next)
         ELSE UNCHANGED <<seen, queue>>
  /\ scan' = scan + 1
  /\ UNCHANGED <<program, todo, start, current, pathToTarget, pc>>

VisitsDone ==
  /\ pc = "visit"
  /\ scan > Len(edges)
  /\ pc' = "dequeue"
  /\ UNCHANGED <<program, todo, start, seen, queue, current, scan, pathToTarget>>

Step ==
  \/ \E n \in todo : PickStart(n)
  \/ Return
  \/ PopTarget
  \/ PopNode
  \/ SearchExhausted
  \/ VisitEdge
  \/ VisitsDone

\* buildDependencyGraph is called once; after it has returned nothing moves.
Returned == pc = "done" /\ UNCHANGED vars

Next == Step \/ Returned

\* The search is a plain loop of one goroutine: nothing can hold it up.
Spec == Init /\ [][Next]_vars /\ WF_vars(Step)

-----------------------------------------------------------------------------
\* Some declared change reaches the obligation.
ChangeReachesTarget ==
  \E n \in impacted : Reaches(Node, EdgeSet, n, Target)

(* The search answers the question it is asked: when it returns, the flag   *)
(* is raised exactly if a path from some impacted node exists, for any      *)
(* cycles, duplicate edges and order of the starts (engine.go:408-426).     *)
SearchIsExact == pc = "done" => (pathToTarget <=> ChangeReachesTarget)

(* The flag is never raised on a guess: already during the search it        *)
(* implies a path, so the break that abandons the queue loses nothing.      *)
FlagIsSound == pathToTarget => ChangeReachesTarget

(* Marking at enqueue time keeps every node in the queue at most once and   *)
(* never brings a popped node back, which is what bounds the search         *)
(* (engine.go:419-424).                                                     *)
EachNodeOnce ==
  /\ \A i, j \in DOMAIN queue : i # j => queue[i] # queue[j]
  /\ pc = "visit" => \A i \in DOMAIN queue : queue[i] # current

(* The search returns on every graph, cyclic ones included.                 *)
SearchReturns == <>(pc = "done")
=============================================================================
