----------------------------- MODULE Conditions -----------------------------
(***************************************************************************)
(* The conditions of a workflow from the file to their values: the loader  *)
(* refuses some, and the ones it accepts are evaluated by the engine with  *)
(* the facts of the run (advanceJob for `if`, the poll loop of a check,    *)
(* evaluateUntilCondition for the groups).                                 *)
(***************************************************************************)
EXTENDS Loader, Expressions

CONSTANTS
  Written,   \* conditions as their authors mean them: syntax trees
  Facts      \* what a run may know when it comes to a condition

VARIABLE answer   \* the last condition evaluated, with its context and its value

conditionsVars == <<loaderVars, answer>>

Unasked == [condition |-> <<>>, context |-> <<>>, value |-> "none"]

Answer(e, ctx) == [condition |-> e, context |-> ctx, value |-> evaluateCondition(e, ctx)]

ConditionsInit == LoaderInit /\ answer = Unasked

Load == LoaderNext /\ UNCHANGED answer

Running == verdict = "accepted" /\ answer = Unasked /\ UNCHANGED loaderVars

(* The condition of step i of job j: of a polling check, or its `if`.       *)
AskStep(j, i, facts) ==
  LET s     == wf.steps[j][i]
      place == IF s.type = "check" THEN "poll" ELSE "if"
      earlier == {wf.steps[j][k].id : k \in 1..(i - 1)}
  IN /\ Running
     /\ \E e \in s.conditions : answer' = Answer(e, Context(place, facts, j, earlier))

AskUntil(g, facts) ==
  /\ Running
  /\ \E e \in wf.until[g] : answer' = Answer(e, Context("until", facts, "none", {}))

ConditionsNext ==
  \/ Load
  \/ \E j \in wf.jobs : \E i \in DOMAIN wf.steps[j] : \E f \in Facts : AskStep(j, i, f)
  \/ \E g \in wf.groups : \E f \in Facts : AskUntil(g, f)

ConditionsSpec == ConditionsInit /\ [][ConditionsNext]_conditionsVars

-----------------------------------------------------------------------------
(* The tree of a condition: [op: "or", "and", "equal" or "differ", l, r],   *)
(* [op: "not", e], or [op: "is", x] for an operand, a token.                *)
RECURSIVE Operands(_), Unparse(_), Holds(_, _)

Operands(x) == CASE x.op = "is"  -> {x.x}
                 [] x.op = "not" -> Operands(x.e)
                 [] OTHER        -> Operands(x.l) \cup Operands(x.r)

Level(x) == CASE x.op = "or" -> 1 [] x.op = "and" -> 2 [] x.op = "not" -> 3
              [] x.op \in {"equal", "differ"} -> 4 [] OTHER -> 5

Within(level, x) ==
  IF Level(x) >= level THEN Unparse(x)
  ELSE <<Token("paren", "(")>> \o Unparse(x) \o <<Token("paren", ")")>>

(* As an author writes it, with the parentheses it needs.                   *)
Unparse(x) ==
  LET infix(op, level) == Within(level, x.l) \o <<Token("op", op)>> \o Within(level, x.r) IN
  CASE x.op = "is"     -> <<x.x>>
    [] x.op = "not"    -> <<Token("op", "!")>> \o Within(3, x.e)
    [] x.op = "or"     -> infix("||", 1)
    [] x.op = "and"    -> infix("&&", 2)
    [] x.op = "equal"  -> infix("==", 5)
    [] x.op = "differ" -> infix("!=", 5)

IsPath(x) == x.t = "hole"

PathOf(x) == x.v[1].v

Text(x, ctx) ==
  CASE IsPath(x) -> ctx[PathOf(x)].text
    [] x.t = "call" -> IF x.v \in {"success", "always"} THEN "true" ELSE "false"
    [] x.t = "ident" -> IF <<"variables", x.v>> \in DOMAIN ctx
                        THEN ctx[<<"variables", x.v>>].text ELSE x.v
    [] OTHER -> x.v

Holds(x, ctx) ==
  CASE x.op = "is"     -> isTruthy(Text(x.x, ctx))
    [] x.op = "not"    -> ~ Holds(x.e, ctx)
    [] x.op = "or"     -> Holds(x.l, ctx) \/ Holds(x.r, ctx)
    [] x.op = "and"    -> Holds(x.l, ctx) /\ Holds(x.r, ctx)
    [] x.op = "equal"  -> Text(x.l.x, ctx) = Text(x.r.x, ctx)
    [] x.op = "differ" -> Text(x.l.x, ctx) # Text(x.r.x, ctx)

Trees == {<<Unparse(x), x>> : x \in Written}

(* One word, number or truth value, that is not the name of a variable: the *)
(* values for which reading the text again gives the value back.            *)
Plain(value, ctx) ==
  /\ Len(value.words) = 1
  /\ value.words[1].v = value.text
  /\ <<"variables", value.text>> \notin DOMAIN ctx

Supplied(x, ctx) == \A o \in Operands(x) : IsPath(o) => PathOf(o) \in DOMAIN ctx

AllPlain(x, ctx) ==
  \A o \in Operands(x) : IsPath(o) /\ PathOf(o) \in DOMAIN ctx => Plain(ctx[PathOf(o)], ctx)

(* A number or a name alone says nothing that can hold.                     *)
NoCondition(x, ctx) ==
  /\ x.op = "is"
  /\ \/ x.x.t = "number"
     \/ IsPath(x.x) /\ ctx[PathOf(x.x)].words[1].t \in {"ident", "number"}
     \/ /\ x.x.t = "ident"
        /\ <<"variables", x.x.v>> \in DOMAIN ctx
           => ctx[<<"variables", x.x.v>>].t # "boolean"

(* A condition that was accepted has the value its author gave it, with the *)
(* precedence of the operators as documented, or is refused aloud when the  *)
(* context lacks one of its operands: a missing fact never decides a step,  *)
(* a poll or an iteration.  (Of values that are one word; an empty one, one *)
(* of several words or one that names a variable is read as something else.)*)
ConditionAsWritten ==
  answer # Unasked =>
    \A t \in Trees : t[1] = answer.condition /\ AllPlain(t[2], answer.context) =>
      answer.value =
        IF ~ Supplied(t[2], answer.context) \/ NoCondition(t[2], answer.context) THEN "error"
        ELSE IF Holds(t[2], answer.context) THEN "true" ELSE "false"

=============================================================================
