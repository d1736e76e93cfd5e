---------------------------- MODULE Reachability ----------------------------
(***************************************************************************)
(* What "there is a path" means for the dependency graph of a .gooo        *)
(* program, independently of how the evaluator searches for one.  A graph  *)
(* is a set of <<from, to>> pairs.                                         *)
(*                                                                         *)
(* A node t is reachable from s when t is in every set of nodes that       *)
(* contains s and that no edge leaves.  This is the least fixed point of   *)
(* "follow an edge", stated without recursion.                             *)
(***************************************************************************)

\* No edge of edges leads out of S.
ClosedUnder(edges, S) == \A e \in edges : e[1] \in S => e[2] \in S

Reaches(node, edges, s, t) ==
  \A S \in SUBSET node : s \in S /\ ClosedUnder(edges, S) => t \in S
=============================================================================
