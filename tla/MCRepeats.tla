----------------------------- MODULE MCRepeats ------------------------------
(* A group of two reviewers and a judge, a job after it, and a traverse.    *)
EXTENDS Repeats, TLC

CONSTANTS a, b, c, d, g

(* a and b in parallel, c after both, d after the group.                    *)
Diamond   == (a :> {}) @@ (b :> {}) @@ (c :> {a, b}) @@ (d :> {c})
Undeclared == [j \in Jobs |-> "none"]
Policies  == [j \in Jobs |-> IF j = b THEN "continue" ELSE "fail"]
Unqueued  == [j \in Jobs |-> NoGroup]
Attempts  == [j \in Jobs |-> IF j = a THEN 2 ELSE 1]
Exceeded  == [j \in Jobs |-> "failed"]
OneStep   == [j \in Jobs |-> 1]
AllAgents == [j \in Jobs |-> "agent"]
Grouped   == [j \in Jobs |-> IF j = d THEN NoJob ELSE g]
Twice     == [x \in Groups |-> 2]
ByJudge   == [x \in Groups |-> c]
=============================================================================
