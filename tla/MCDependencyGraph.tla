-------------------------- MODULE MCDependencyGraph --------------------------
(* Every edge list of at most MaxEdges edges over three nodes, the target    *)
(* among them: self loops, cycles, duplicate edges and paths of two occur.   *)
EXTENDS DependencyGraph

CONSTANT MaxEdges

MCEdgeLists == UNION {[1 .. k -> Node \X Node] : k \in 0 .. MaxEdges}
=============================================================================
