---------------------------- MODULE Expressions ----------------------------
(***************************************************************************)
(* Conditions of workflows (src/expression): `if` of a step, the condition *)
(* of a polling check, repeat.until of a group.                            *)
(*                                                                         *)
(* A condition is a sequence of tokens [t: type, v: value]; one ${{ }} in  *)
(* it is a token of type "hole", whose value is the tokens inside, and a   *)
(* "chain" is a dotted path of names.  A value the context supplies is     *)
(* [t: its type, text: its text, words: the tokens its text is made of]:   *)
(* the text is put where the hole was, without quotes, and read again.     *)
(***************************************************************************)
EXTENDS Integers, Sequences, SequencesExt

Token(t, v) == [t |-> t, v |-> v]

Truth(b) == Token("boolean", IF b THEN "true" ELSE "false")

Previous(p) == Len(p) >= 6 /\ SubSeq(p, 1, 3) = <<"iteration", "previous", "jobs">>

(* ---------------------- where a condition is read -----------------------*)
(* What the callers put into the context, of the facts of the run.  An `if` *)
(* is read without steps and statuses, `until` with the outputs of jobs     *)
(* alone; in a polling check every earlier step has the outputs of the job. *)
Output(p) == Len(p) = 4 /\ p[3] = "outputs"

Knows(place, p) ==
  \/ p[1] = "jobs" /\ Output(p)
  \/ place = "poll" /\ p[1] = "jobs"
  \/ place # "until" /\ p[1] = "variables"
  \/ place # "until" /\ p \in {<<"run", "id">>, <<"run", "workflow">>}
  \/ place = "if" /\ (p[1] = "invocation" \/ p = <<"inputs", "task">>)

Context(place, facts, job, earlier) ==
  LET known == {p \in DOMAIN facts : Knows(place, p)}
      own   == {p \in known : Output(p) /\ p[2] = job}
      steps == IF place = "poll" THEN {<<"steps", s, "outputs", p[4]>> : s \in earlier, p \in own}
                                 ELSE {}
  IN [p \in known \cup steps |->
        IF p \in known THEN facts[p] ELSE facts[<<"jobs", job, "outputs", p[4]>>]]

(* ------------------------- resolveExpression ----------------------------*)
(* The paths the resolver knows by their shape.                             *)
Path(p) ==
  \/ p \in {<<"run", k>> : k \in {"id", "workflow", "dir"}}
  \/ p \in {<<"invocation", k>> : k \in {"trigger", "backend"}}
  \/ p \in {<<"attempt", k>> : k \in {"number", "trigger", "previous_outcome"}}
  \/ Len(p) = 2 /\ p[1] \in {"inputs", "variables"}
  \/ Len(p) = 3 /\ p[1] = "retry" /\ p[2] = "inputs"
  \/ Len(p) = 3 /\ p[1] = "jobs" /\ p[3] \in {"status", "attempt"}
  \/ Len(p) = 3 /\ p[1] = "steps" /\ p[3] = "status"
  \/ Len(p) >= 4 /\ p[1] \in {"jobs", "steps"} /\ p[3] = "outputs"
  \/ Previous(p)

(* A hole becomes the text of its path when the whole inside is one (more   *)
(* may follow a variable), nothing for a previous iteration there was not,  *)
(* and stays as it is otherwise.                                            *)
Replaced(hole, ctx) ==
  LET inside == hole.v
      p == IF inside # <<>> /\ inside[1].t = "chain" THEN inside[1].v ELSE <<"none">>
      found == Path(p) /\ p \in DOMAIN ctx
  IN CASE found /\ Len(inside) = 1                -> ctx[p].words
       [] found /\ Len(inside) > 1 /\ p[1] = "variables" -> ctx[p].words \o Tail(inside)
       [] ~ found /\ Previous(p) /\ Len(inside) = 1 -> <<>>
       [] OTHER                                   -> <<hole>>

resolveExpression(e, ctx) ==
  FlattenSeq([i \in DOMAIN e |-> IF e[i].t = "hole" THEN Replaced(e[i], ctx) ELSE <<e[i]>>])

(* ---------------------- resolveStatusFunctions --------------------------*)
(* No caller passes the statuses of steps or of the run: success() and      *)
(* always() are true, failure() and cancelled() false.                      *)
Status(name) == CASE name \in {"success", "always"}    -> <<Truth(TRUE)>>
                  [] name \in {"failure", "cancelled"} -> <<Truth(FALSE)>>
                  [] OTHER                             -> <<Token("call", name)>>

resolveStatusFunctions(e) ==
  FlattenSeq([i \in DOMAIN e |-> IF e[i].t = "call" THEN Status(e[i].v) ELSE <<e[i]>>])

(* ---------------------- tokenize, isTruthy, Parser ----------------------*)
(* What is left of a hole, a dotted path or an unknown call is refused.     *)
tokenize(e) == \A i \in DOMAIN e :
  e[i].t \in {"paren", "op", "ident", "string", "number", "boolean"}

(* A name that is a variable stands for its value, wherever it comes from.  *)
resolveValue(token, ctx) ==
  LET p == <<"variables", token.v>> IN
  IF token.t = "ident" /\ p \in DOMAIN ctx THEN ctx[p].text ELSE token.v

isTruthy(text) == text \notin {"", "false", "0", "null", "undefined"}

IsOp(s, i, op) == i \in DOMAIN s /\ s[i] = Token("op", op)

(* A reading of s from i on: where it ends (0 for an error) and its value.  *)
At(i, x) == [pos |-> i, val |-> x]
Error == At(0, FALSE)

RECURSIVE parseOr(_, _, _), parseAnd(_, _, _), parseNot(_, _, _),
          MoreOr(_, _, _), MoreAnd(_, _, _)

(* A closing parenthesis is not told from an opening one.                   *)
parsePrimary(s, i, ctx) ==
  IF i \notin DOMAIN s THEN Error
  ELSE IF s[i] = Token("paren", "(")
       THEN LET e == parseOr(s, i + 1, ctx) IN
            IF e.pos \in DOMAIN s /\ s[e.pos].t = "paren"
            THEN At(e.pos + 1, Truth(e.val)) ELSE Error
       ELSE IF s[i].t \in {"string", "number", "boolean", "ident"}
            THEN At(i + 1, s[i]) ELSE Error

parseComparison(s, i, ctx) ==
  LET l == parsePrimary(s, i, ctx)
      compared == IsOp(s, l.pos, "==") \/ IsOp(s, l.pos, "!=")
      r == parsePrimary(s, l.pos + 1, ctx)
      same == resolveValue(l.val, ctx) = resolveValue(r.val, ctx)
  IN IF l.pos = 0 \/ (compared /\ r.pos = 0) THEN Error
     ELSE IF ~ compared THEN At(l.pos, isTruthy(resolveValue(l.val, ctx)))
     ELSE At(r.pos, IF IsOp(s, l.pos, "==") THEN same ELSE ~ same)

(* Mutant: the negation extends to the rest of the conjunction. *)
parseNotLoose(s, i, ctx) ==
  IF ~ IsOp(s, i, "!") THEN parseComparison(s, i, ctx)
  ELSE LET e == parseAnd(s, i + 1, ctx) IN
       IF e.pos = 0 THEN Error ELSE At(e.pos, ~ e.val)

parseNot(s, i, ctx) ==
  IF ~ IsOp(s, i, "!") THEN parseComparison(s, i, ctx)
  ELSE LET e == parseNot(s, i + 1, ctx) IN
       IF e.pos = 0 THEN Error ELSE At(e.pos, ~ e.val)

MoreAnd(s, l, ctx) ==
  IF l.pos = 0 \/ ~ IsOp(s, l.pos, "&&") THEN l
  ELSE LET r == parseNot(s, l.pos + 1, ctx) IN
       IF r.pos = 0 THEN Error ELSE MoreAnd(s, At(r.pos, l.val /\ r.val), ctx)

parseAnd(s, i, ctx) == MoreAnd(s, parseNot(s, i, ctx), ctx)

MoreOr(s, l, ctx) ==
  IF l.pos = 0 \/ ~ IsOp(s, l.pos, "||") THEN l
  ELSE LET r == parseAnd(s, l.pos + 1, ctx) IN
       IF r.pos = 0 THEN Error ELSE MoreOr(s, At(r.pos, l.val \/ r.val), ctx)

parseOr(s, i, ctx) == MoreOr(s, parseAnd(s, i, ctx), ctx)

(* A number or a name alone is no condition, unless the name is a variable  *)
(* that holds a boolean.                                                    *)
Bare(s, ctx) ==
  /\ Len(s) = 1
  /\ \/ s[1].t = "number"
     \/ s[1].t = "ident" /\ ~ (/\ <<"variables", s[1].v>> \in DOMAIN ctx
                               /\ ctx[<<"variables", s[1].v>>].t = "boolean")

(* "true", "false", or "error" where the source throws.                     *)
evaluateCondition(e, ctx) ==
  LET s == resolveStatusFunctions(resolveExpression(e, ctx))
      r == parseOr(s, 1, ctx)
  IN IF s = <<>> \/ Bare(s, ctx) \/ ~ tokenize(s) THEN "error"
     ELSE IF r.pos # Len(s) + 1 THEN "error"
     ELSE IF r.val THEN "true" ELSE "false"

=============================================================================
