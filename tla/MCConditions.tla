---------------------------- MODULE MCConditions ----------------------------
(* The workflow files that are loaded, the conditions written in them, and  *)
(* the facts of the runs.                                                   *)
EXTENDS Conditions

MCNames == {"a", "b", "c", "g", "h", "other"}

Step == [id |-> "s1", type |-> "agent", exposes |-> {}, returns |-> {},
         on_return |-> {}, outputs |-> {}, on_output |-> {}, routes |-> {},
         max_visits |-> {}, failure_policy |-> {}, constrained |-> FALSE,
         conditions |-> {}, templates |-> {}, prompt |-> "text",
         uses |-> FALSE, run |-> FALSE, inputs |-> {}, on_submit |-> {}]

None == [n \in MCNames |-> {}]

OneStep(s) == [j \in {"a", "b", "c"} |-> <<s>>]

Base == [yaml |-> "ok", host |-> "local", jobs |-> {"a", "b", "c"},
         needs |-> [None EXCEPT !["b"] = {"a"}], optional_needs |-> None,
         group |-> None, max_attempts |-> None, steps |-> OneStep(Step),
         until |-> None, groups |-> {}, group_needs |-> None, max_iterations |-> None,
         traverse |-> {}, skills |-> {"skill"}, variables |-> {},
         on |-> {"manual"}, cron |-> TRUE, inputs |-> {}, manual_inputs |-> {"task"}]

(* Every graph over three jobs, and a need or an optional need of no job.   *)
JobGraphs ==
  {[Base EXCEPT !.needs = [n \in MCNames |-> IF n \in DOMAIN e THEN e[n] ELSE {}]] :
     e \in [Base.jobs -> SUBSET Base.jobs]}
  \cup {[Base EXCEPT !.needs["a"] = {"other"}], [Base EXCEPT !.optional_needs["a"] = {"other"}],
        [Base EXCEPT !.optional_needs["a"] = {"a"}]}

(* Every graph over two groups, one of them possibly undeclared.            *)
Grouped == [Base EXCEPT !.groups = {"g", "h"}, !.group["a"] = {"g"}]

GroupGraphs ==
  {[Grouped EXCEPT !.group_needs["g"] = e, !.group_needs["h"] = f] :
     e, f \in SUBSET {"g", "h", "other"}}
  \cup {[Grouped EXCEPT !.groups = {"h"}], [Grouped EXCEPT !.max_iterations["g"] = {0}]}

Actions == {"goto_step", "goto_job", "retry_job", "fail", "status_blocked"}

Fields == {"cases", "on_failure", "on_pass", "on_output"}

Routed ==
  {[w EXCEPT !.steps = OneStep([Step EXCEPT !.type = t, !.routes = {[at |-> f, do |-> d, to |-> x]}])] :
     w \in {Base, Grouped}, t \in {"agent", "router"}, f \in Fields, d \in Actions,
     x \in {"s1", "s2"}}

WithStep(s) == [Grouped EXCEPT !.steps["a"] = <<s>>]

Chain(n) == [t |-> "chain", v |-> [i \in 1..n |-> "p"]]

Hole(h) == <<[t |-> "hole", v |-> h]>>

Templates ==
  {Hole(<<Chain(n)>>) : n \in 1..6}
  \cup {Hole(<<Chain(2), [t |-> "op", v |-> "=="], Chain(n)>>) : n \in 1..4}
  \cup {Hole(<<[t |-> k, v |-> "x"]>>) : k \in {"arithmetic", "call", "literal"}}
  \cup {Hole(<<[t |-> "chain", v |-> <<"iteration", "previous", "jobs", "a", "outputs", "x">>]>>)}

Traverse == [id |-> "t", input |-> Hole(<<Chain(4)>>), target |-> "c",
             concurrency |-> {}, item_key |-> "variable", index_key |-> {}, outputs |-> {}]

Details ==
  {WithStep(s) : s \in
     {[Step EXCEPT !.max_visits = {n}] : n \in {0, 1}}
     \cup {[Step EXCEPT !.exposes = {k}] : k \in {"skill", "unknown"}}
     \cup {[Step EXCEPT !.returns = {"ok"}, !.on_return = {k}] : k \in {"ok", "unknown"}}
     \cup {[Step EXCEPT !.outputs = {"x"}, !.on_output = {k}] : k \in {"x", "unknown"}}
     \cup {[Step EXCEPT !.type = k, !.constrained = TRUE] : k \in {"agent", "script"}}
     \cup {[Step EXCEPT !.conditions = {e}] : e \in Templates}
     \cup {[Step EXCEPT !.type = "human", !.prompt = p, !.on_submit = {k}] :
             p \in {"text", "none"}, k \in {"decision", "unknown"}}}
  \cup {[Base EXCEPT !.yaml = y] : y \in {"syntax", "duplicate"}}
  \cup {[Base EXCEPT !.steps["b"] = <<Step, [Step EXCEPT !.id = i]>>] : i \in {"s1", "s2"}}
  \cup {[Base EXCEPT !.max_attempts["b"] = {n}] : n \in {0, 1}}
  \cup {[Base EXCEPT !.variables = {[allowed_writers |-> {e}]}] :
          e \in [job : {"a", "other"}, step : {"*", "s1", "s2"}]}
  \cup {[Base EXCEPT !.traverse = {x}] : x \in
          {Traverse, [Traverse EXCEPT !.target = "other"], [Traverse EXCEPT !.id = "a"],
           [Traverse EXCEPT !.concurrency = {11}], [Traverse EXCEPT !.input = Hole(<<Chain(5)>>)],
           [Traverse EXCEPT !.input = Hole(<<Chain(4)>>) \o <<[t |-> "text", v |-> "x"]>>],
           [Traverse EXCEPT !.index_key = {"no variable"}],
           [Traverse EXCEPT !.index_key = {"variable"}, !.outputs = {Hole(<<Chain(4)>>)}],
           [Traverse EXCEPT !.outputs = {Hole(<<Chain(5)>>)}]}}
  \cup {[Base EXCEPT !.on = o, !.host = k, !.cron = c] :
          o \in SUBSET {"manual", "schedule", "push", "timer"},
          k \in {"local", "zigma-server"}, c \in BOOLEAN}

Is(t, v)     == [op |-> "is", x |-> Token(t, v)]
Ref(p)       == [op |-> "is", x |-> Token("hole", <<Token("chain", p)>>)]
Not(e)       == [op |-> "not", e |-> e]
Bin(o, l, r) == [op |-> o, l |-> l, r |-> r]

Job      == Ref(<<"jobs", "a", "outputs", "x">>)
OwnStep  == Ref(<<"steps", "s0", "outputs", "x">>)
Variable == Ref(<<"variables", "v">>)
Previously == Ref(<<"iteration", "previous", "jobs", "a", "outputs", "x">>)

Alone == {Job, OwnStep, Variable, Previously, Ref(<<"jobs", "a", "status">>),
          Is("ident", "v"), Is("string", "ok"), Is("number", "3"), Is("boolean", "false"),
          Is("call", "success"), Is("call", "failure")}

Compared == {Bin(o, l, r) : o \in {"equal", "differ"},
                            l \in {Job, OwnStep, Variable, Previously, Is("ident", "v")},
                            r \in {Is("string", "ok"), Job, Is("number", "3")}}

Atoms == {Bin("equal", Job, Is("string", "ok")), Bin("differ", Variable, Job),
          Is("ident", "v"), Is("call", "failure")}

Pairs == {Bin(o, l, r) : o \in {"or", "and"}, l, r \in Atoms}

MCWritten ==
  Alone \cup Compared \cup Pairs
  \cup {Not(x) : x \in Alone \cup Compared \cup Pairs}
  \cup {Bin(o, l, r) : o \in {"or", "and"}, l \in Pairs, r \in Atoms}
  \cup {Bin(o, Not(l), r) : o \in {"or", "and"}, l \in Atoms, r \in Pairs}

Value(t, v) == [t |-> t, text |-> v, words |-> <<Token(IF t = "string" THEN "ident" ELSE t, v)>>]

Values == {Value("string", "ok"), Value("string", "no"), Value("number", "3"),
           Value("number", "0"), Value("boolean", "true"), Value("string", "v"),
           [t |-> "string", text |-> "", words |-> <<>>]}

MCFacts ==
  {[p \in {<<"jobs", "a", "outputs", "x">>, <<"jobs", "a", "status">>, <<"run", "id">>} |->
      IF p[1] = "jobs" /\ p[3] = "outputs" THEN x ELSE Value("string", "completed")] : x \in Values}
  \cup {[p \in {<<"jobs", "a", "outputs", "x">>, <<"variables", "v">>} |->
      IF p[1] = "jobs" THEN x ELSE y] :
     x \in Values, y \in {Value("string", "ok"), Value("number", "0"), Value("boolean", "true")}}

Conditional ==
  {[Base EXCEPT !.steps["a"] = <<[Step EXCEPT !.id = "s0"],
                                 [Step EXCEPT !.type = t, !.conditions = {Unparse(x)}]>>] :
     t \in {"agent", "check"}, x \in MCWritten}
  \cup {[Grouped EXCEPT !.until["g"] = {Unparse(x)}] : x \in Alone \cup Compared}

MCDefinitions == JobGraphs \cup GroupGraphs \cup Routed \cup Details \cup Conditional

=============================================================================
