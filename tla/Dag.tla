-------------------------------- MODULE Dag --------------------------------
(***************************************************************************)
(* What a graph of needs must be: the notions the depth-first searches of  *)
(* src/dag decide.                                                         *)
(***************************************************************************)
EXTENDS Integers, Sequences

(* Every set of nodes has one that needs none of the others: nothing can    *)
(* wait on itself through others.                                           *)
Acyclic(nodes, edges) ==
  \A S \in SUBSET nodes : S # {} => \E n \in S : edges[n] \cap S = {}

(* A closed walk along the edges.                                           *)
ClosedWalk(c, edges) ==
  /\ Len(c) > 1
  /\ c[1] = c[Len(c)]
  /\ \A i \in 1..(Len(c) - 1) : c[i + 1] \in edges[c[i]]

=============================================================================
