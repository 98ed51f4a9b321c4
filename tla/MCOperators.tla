---------------------------- MODULE MCOperators -----------------------------
(* A gated job and the job that needs it.                                   *)
EXTENDS Operators, TLC

CONSTANTS a, b, s1, s2, i

OneNeedsOther == (a :> {}) @@ (b :> {a})
Undeclared    == [j \in Jobs |-> "none"]
Policies      == [j \in Jobs |-> "fail"]
Groups        == [j \in Jobs |-> NoGroup]
Once          == [j \in Jobs |-> 1]
Exceeded      == [j \in Jobs |-> "blocked"]
GateThenWork  == (a :> 2) @@ (b :> 1)
Agents        == [j \in Jobs |-> "agent"]
Shelled       == Permutations(Shells)
=============================================================================
