----------------------------- MODULE MCCommands -----------------------------
(* A job of two agent steps, one that needs it, and an optional check.      *)
EXTENDS Commands, TLC

CONSTANTS a, b, c, s1, s2, s3

Shape     == (a :> {}) @@ (b :> {a}) @@ (c :> {})
Declaring == [j \in Jobs |-> IF j = c THEN "optional" ELSE "none"]
Policies  == [j \in Jobs |-> "fail"]
Groups    == [j \in Jobs |-> NoGroup]
Attempts  == [j \in Jobs |-> IF j = a THEN 2 ELSE 1]
Exceeded  == [j \in Jobs |-> "blocked"]
Lengths   == [j \in Jobs |-> IF j = a THEN 2 ELSE 1]
Agents    == [j \in Jobs |-> "agent"]
Kinds     == (a :> <<"agent", "agent">>) @@ (b :> <<"agent">>) @@ (c :> <<"check">>)

Go(action, to) == [do |-> action, at |-> to]

NoRoutes == (a :> <<{}, {}>>) @@ (b :> <<{}>>) @@ (c :> <<{}>>)

Signal == "extend" :> [from |-> {a}, priority |-> 2, go |-> Go("activate_job", c)]
            @@ "stop" :> [from |-> {a, b}, priority |-> 1, go |-> Go("block", 0)]

Bare == [artifacts |-> {}, names |-> {}, type |-> [x \in {} |-> ""], enum |-> [x \in {} |-> {}],
          status |-> {}, required |-> FALSE, onReturn |-> [x \in {} |-> Go("fail", 0)],
          onOutput |-> <<>>, edit |-> TRUE, vars |-> {}, blocks |-> {}]

Contracts ==
  (a :> <<[Bare EXCEPT !.names = {"plan"}, !.type = "plan" :> "array",
                        !.artifacts = {"plan.md"},
                        !.vars = {"mode"}, !.blocks = {"notes"}],
          [Bare EXCEPT !.names = {"verdict"}, !.type = "verdict" :> "string",
                        !.enum = "verdict" :> {"done", "redo"},
                        !.onOutput = <<[key |-> "verdict", value |-> "redo",
                                        go |-> Go("goto_step", 1)]>>,
                        !.vars = {"mode"}, !.blocks = {"notes"}]>>)
  @@ (b :> <<[Bare EXCEPT !.status = {"ok", "again"}, !.required = TRUE,
                           !.type = "status" :> "string",
                           !.enum = "status" :> {"ok", "again"},
                           !.onReturn = "again" :> Go("retry_job", a),
                           !.edit = FALSE]>>)
  @@ (c :> <<Bare>>)

Says(value) == [type |-> "string", is |-> value]

Patches(kind, name, value) == [kind |-> kind, name |-> name, value |-> value]

Empty == [shaped |-> TRUE, outputs |-> [x \in {} |-> Says("ok")], artifacts |-> {},
          top |-> NoReport, signals |-> <<>>, patches |-> <<>>]

AllWritten ==
  (a :> <<{[Empty EXCEPT !.outputs = "plan" :> Says("ok"), !.artifacts = {"plan.md"},
                         !.patches = <<Patches("variable_set", "mode", "ok"),
                                       Patches("context_block_append", "notes", "ok")>>],
           [Empty EXCEPT !.outputs = "plan" :> Says("again"), !.artifacts = {"plan.md"},
                         !.signals = <<"stop", "extend">>,
                         !.patches = <<Patches("context_block_set", "notes", "again")>>],
           [Empty EXCEPT !.outputs = "plan" :> Says("ok")]},
          {[Empty EXCEPT !.outputs = "verdict" :> Says("done"),
                         !.patches = <<Patches("context_block_append", "notes", "done"),
                                       Patches("context_block_append", "notes", "ok")>>],
           [Empty EXCEPT !.outputs = "verdict" :> Says("redo"),
                         !.patches = <<Patches("variable_delete", "mode", "ok"),
                                       Patches("context_block_delete", "notes", "ok")>>],
           [Empty EXCEPT !.outputs = "verdict" :> Says("redo"),
                         !.patches = <<Patches("context_block_set", "notes", "redo"),
                                       Patches("variable_set", "mode", "redo")>>]}>>)
  @@ (b :> <<{[Empty EXCEPT !.top = "ok", !.outputs = "status" :> Says("ok")],
              [Empty EXCEPT !.outputs = "status" :> Says("again")],
              [Empty EXCEPT !.top = "ok",
                            !.patches = <<Patches("context_block_set", "notes", "ok")>>]}>>)
  @@ (c :> <<{}>>)

Modes == "mode" :> {"ok", "done"}

FirstMode == "mode" :> "done"

FirstNotes == "notes" :> <<"redo">>

ShellsAlike == Permutations(Shells)
=============================================================================
