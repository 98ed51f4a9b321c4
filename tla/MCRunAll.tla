------------------------------ MODULE MCRunAll ------------------------------
(* Workflows on which TLC checks RunAll.                                    *)
EXTENDS RunAll, TLC

CONSTANTS a, b, c, d, g

(* Shapes of the DAG. *)
Join3  == (a :> {}) @@ (b :> {}) @@ (c :> {a, b})
Free4  == (a :> {}) @@ (b :> {}) @@ (c :> {}) @@ (d :> {b})
Free2  == (a :> {}) @@ (b :> {})

(* One value for all the jobs. *)
NoneDeclared == [j \in Jobs |-> "none"]
AllAgents   == [j \in Jobs |-> "agent"]
AllScripts  == [j \in Jobs |-> "script"]
AllFail     == [j \in Jobs |-> "fail"]
AllOnce     == [j \in Jobs |-> 1]
AllBlocked  == [j \in Jobs |-> "blocked"]
AllFailed   == [j \in Jobs |-> "failed"]
NoGroups    == [j \in Jobs |-> NoGroup]

(* One job different from the others. *)
BlockContinue  == [j \in Jobs |-> IF j = a THEN "block"
                                 ELSE IF j = b THEN "continue" ELSE "fail"]
FirstTwoQueued == [j \in Jobs |-> IF j = c THEN NoGroup ELSE g]
FirstRetries   == [j \in Jobs |-> IF j = a THEN 2 ELSE 1]
FirstHasTwo    == [j \in Jobs |-> IF j = a THEN 2 ELSE 1]
LastIsAgent    == [j \in Jobs |-> IF j = d THEN "agent" ELSE "script"]
=============================================================================
