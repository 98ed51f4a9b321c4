----------------------------- MODULE MCRouting ------------------------------
(* A workflow with a route of every kind.                                   *)
EXTENDS Routing, TLC

CONSTANTS a, b, c, d

Go(via, action, target) == [via |-> via, do |-> action, at |-> target]

Shape      == (a :> {}) @@ (b :> {a}) @@ (c :> {}) @@ (d :> {b})
Declaring  == [j \in Jobs |-> IF j \in {c} THEN "optional" ELSE "none"]
Policies   == [j \in Jobs |-> "fail"]
Groups     == [j \in Jobs |-> NoGroup]
Twice      == [j \in Jobs |-> IF j \in {a, c, d} THEN 2 ELSE 1]
Exceeded   == [j \in Jobs |-> "blocked"]
Lengths    == (a :> 2) @@ (b :> 1) @@ (c :> 3) @@ (d :> 1)
Agents     == [j \in Jobs |-> "agent"]
Second     == {<<a, 2>>, <<c, 2>>}
Kinds      == (a :> <<"agent", "agent">>) @@ (b :> <<"router">>)
                @@ (c :> <<"agent", "check", "check">>) @@ (d :> <<"agent">>)
AllRoutes  ==
  (a :> <<{Go("output", "activate_job", c)},
          {Go("output", "goto_step", 1), Go("output", "goto_job", d),
           Go("status", "continue", 0), Go("status", "retry_job", a)}>>)
  @@ (b :> <<{Go("case", "continue", 0), Go("case", "activate_job", c),
              Go("case", "goto_job", d), Go("case", "goto_step", 1),
              Go("case", "fail", 0)}>>)
  @@ (c :> <<{Go("output", "retry_job", c), Go("status", "block", 0)}, {},
             {Go("fail", "retry_job", a)}>>)
  @@ (d :> <<{Go("output", "retry_job", d)}>>)

(* What a run becomes after a collision is not followed.                    *)
NoCollision == ~collided
=============================================================================
