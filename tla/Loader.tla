------------------------------- MODULE Loader -------------------------------
(***************************************************************************)
(* loadWorkflow (src/workflow): what stands between a workflow file and    *)
(* the engine.  The checks run in the order of the source and the first    *)
(* one that fails refuses the file; the two cycle checks (detectCycles of  *)
(* src/dag for jobs, detectGroupDagCycles for groups) are depth-first      *)
(* searches and are modelled edge by edge.                                 *)
(*                                                                         *)
(* A definition is a record.  An optional field is a set of at most one    *)
(* element; a step's routes are the RouterActions found in its fields,     *)
(* [at: the field, do: the action, to: its target].                        *)
(***************************************************************************)
EXTENDS Dag, FiniteSets

CONSTANTS
  Names,        \* job ids and group ids a file may mention
  Definitions   \* the workflow files that may be loaded

ASSUME DefinitionsAssumption ==
  \A w \in Definitions :
    /\ {"jobs", "needs", "steps", "group", "groups", "group_needs"} \subseteq DOMAIN w
    /\ w.jobs \subseteq Names
    /\ w.groups \subseteq Names
    /\ w.needs \in [Names -> SUBSET Names]
    /\ w.group_needs \in [Names -> SUBSET Names]

VARIABLES
  wf,        \* the definition being loaded (normalised on the way)
  at,        \* the check that runs next
  verdict,   \* "none", "accepted", or the rule that refused the file
  color,     \* the marks of the running depth-first search
  frames,    \* its recursion: each node with the neighbours left to visit
  cycle      \* the first cycle it found, <<>> while there is none

loaderVars == <<wf, at, verdict, color, frames, cycle>>

search == <<color, frames, cycle>>

Searches == {"job_cycles", "group_cycles"}

White == [n \in Names |-> "white"]

LoaderInit ==
  /\ wf \in Definitions
  /\ at = "yaml"
  /\ verdict = "none"
  /\ color = White
  /\ frames = <<>>
  /\ cycle = <<>>

(* A check of the source: refuse, or go on with the next one.               *)
Check(here, next, holds, rule) ==
  /\ at = here
  /\ at' = IF holds THEN next ELSE "done"
  /\ verdict' = IF holds THEN verdict ELSE rule
  /\ UNCHANGED <<wf, search>>

StepsOf(w) == UNION {{w.steps[j][i] : i \in DOMAIN w.steps[j]} : j \in w.jobs}

(* ------------------------- syntax and schema ----------------------------*)
(* A duplicated key is reported as a duplicate job id wherever it is.       *)
CheckYaml ==
  Check("yaml", "schema", wf.yaml = "ok",
        IF wf.yaml = "duplicate" THEN "duplicate_key" ELSE "yaml")

StepSchema(s) ==
  /\ \A n \in s.max_visits : n > 0
  /\ \A p \in s.failure_policy : p \in {"fail", "continue", "block", "expect_failure"}

JobSchema(w, j) ==
  /\ \A n \in w.max_attempts[j] : n >= 1
  /\ \A i \in DOMAIN w.steps[j] : StepSchema(w.steps[j][i])

TraverseSchema(t) == \A n \in t.concurrency : n \in 1..10

JobGroupSchema(w, g) == \A n \in w.max_iterations[g] : n > 0

WorkflowSchema(w) ==
  /\ \A j \in w.jobs : JobSchema(w, j)
  /\ \A t \in w.traverse : TraverseSchema(t)
  /\ \A g \in w.groups : JobGroupSchema(w, g)

CheckSchema == Check("schema", "normalize", WorkflowSchema(wf), "schema")

(* on_failure becomes failure_policy where it says the same and none is     *)
(* given; the routing forms of on_failure stay.                             *)
PolicyOf(r) == CASE r.do \in {"fail", "status_failed"}   -> {"fail"}
                 [] r.do \in {"block", "status_blocked"} -> {"block"}
                 [] r.do = "continue"                    -> {"continue"}
                 [] OTHER                                -> {}

Normalized(s) ==
  LET given == {r \in s.routes : r.at = "on_failure"} IN
  IF s.failure_policy # {} THEN s
  ELSE [s EXCEPT !.failure_policy = UNION {PolicyOf(r) : r \in given}]

(* Mutant: optional needs become needs. *)
NormalizeOptional ==
  /\ at = "normalize"
  /\ wf' = [wf EXCEPT !.needs = [j \in Names |-> wf.needs[j] \cup wf.optional_needs[j]]]
  /\ at' = "step_ids"
  /\ UNCHANGED <<verdict, search>>

Normalize ==
  /\ at = "normalize"
  /\ wf' = [wf EXCEPT !.steps =
              [j \in DOMAIN wf.steps |->
                 [i \in DOMAIN wf.steps[j] |-> Normalized(wf.steps[j][i])]]]
  /\ at' = "step_ids"
  /\ UNCHANGED <<verdict, search>>

(* ----------------------- checks within a job ----------------------------*)
CheckStepIds ==
  Check("step_ids", "skills",
        \A j \in wf.jobs : \A a, b \in DOMAIN wf.steps[j] :
          a # b => wf.steps[j][a].id # wf.steps[j][b].id,
        "duplicate_step")

CheckSkills ==
  Check("skills", "on_return",
        \A s \in StepsOf(wf) : s.type = "agent" => s.exposes \subseteq wf.skills,
        "skill")

CheckOnReturn ==
  Check("on_return", "on_output",
        \A s \in StepsOf(wf) : s.returns # {} => s.on_return \subseteq s.returns,
        "on_return")

CheckOnOutput ==
  Check("on_output", "goto_step",
        \A s \in StepsOf(wf) : s.on_output \subseteq s.outputs,
        "on_output")

(* Only the cases of routers are looked at; a goto_step of another field is *)
(* looked up when it is taken.                                              *)
CheckGotoStep ==
  Check("goto_step", "constraints",
        \A j \in wf.jobs : \A i \in DOMAIN wf.steps[j] :
          \A r \in wf.steps[j][i].routes :
            wf.steps[j][i].type = "router" /\ r.at = "cases" /\ r.do = "goto_step"
            => \E k \in DOMAIN wf.steps[j] : wf.steps[j][k].id = r.to,
        "goto_step")

CheckConstraints ==
  Check("constraints", "references",
        \A s \in StepsOf(wf) : s.constrained => s.type = "agent",
        "constraints")

(* ---------------------- the graphs of a workflow ------------------------*)
validateNeedsReferences(w) ==
  \A j \in w.jobs : w.needs[j] \cup w.optional_needs[j] \subseteq w.jobs

CheckReferences ==
  Check("references", "job_cycles", validateNeedsReferences(wf), "reference")

Nodes == IF at = "job_cycles" THEN wf.jobs ELSE wf.groups

Edges == IF at = "job_cycles" THEN wf.needs ELSE wf.group_needs

Top == frames[Len(frames)]

Frame(n) == [node |-> n, todo |-> Edges[n]]

WithoutTop == SubSeq(frames, 1, Len(frames) - 1)

(* The neighbour m of the node on top of the stack has been looked at.      *)
LookedAt(m) ==
  [frames EXCEPT ![Len(frames)] = [node |-> Top.node, todo |-> Top.todo \ {m}]]

(* Mutant: the slice of the stack starts one place too late. *)
CycleToLate(m) ==
  LET k == CHOOSE i \in DOMAIN frames : frames[i].node = m IN
  [i \in 1..(Len(frames) - k + 1) |->
     IF i + k \in DOMAIN frames THEN frames[i + k].node ELSE m]

(* From the first place of m on the stack to its top, and back to m.        *)
CycleTo(m) ==
  LET k == CHOOSE i \in DOMAIN frames : frames[i].node = m IN
  [i \in 1..(Len(frames) - k + 2) |->
     IF i + k - 1 \in DOMAIN frames THEN frames[i + k - 1].node ELSE m]

StartAt(n) ==
  /\ at \in Searches
  /\ frames = <<>>
  /\ color[n] = "white"
  /\ frames' = <<Frame(n)>>
  /\ color' = [color EXCEPT ![n] = "grey"]
  /\ UNCHANGED <<wf, at, verdict, cycle>>

(* Mutant: a node is finished when it is entered. *)
DescendBlack(m) ==
  /\ at \in Searches
  /\ frames # <<>>
  /\ m \in Top.todo \cap Nodes
  /\ color[m] = "white"
  /\ frames' = Append(LookedAt(m), Frame(m))
  /\ color' = [color EXCEPT ![m] = "black"]
  /\ UNCHANGED <<wf, at, verdict, cycle>>

Descend(m) ==
  /\ at \in Searches
  /\ frames # <<>>
  /\ m \in Top.todo \cap Nodes
  /\ color[m] = "white"
  /\ frames' = Append(LookedAt(m), Frame(m))
  /\ color' = [color EXCEPT ![m] = "grey"]
  /\ UNCHANGED <<wf, at, verdict, cycle>>

SkipFinished(m) ==
  /\ at \in Searches
  /\ frames # <<>>
  /\ m \in Top.todo
  /\ m \in Nodes => color[m] = "black"
  /\ frames' = LookedAt(m)
  /\ UNCHANGED <<wf, at, verdict, color, cycle>>

(* detectCycles notes the cycle and leaves the other neighbours alone.      *)
BackEdge(m) ==
  /\ at = "job_cycles"
  /\ frames # <<>>
  /\ m \in Top.todo \cap Nodes
  /\ color[m] = "grey"
  /\ cycle' = IF cycle = <<>> THEN CycleTo(m) ELSE cycle
  /\ frames' = [frames EXCEPT ![Len(frames)] = [node |-> Top.node, todo |-> {}]]
  /\ UNCHANGED <<wf, at, verdict, color>>

(* detectGroupDagCycles returns with the first one.                         *)
GroupBackEdge(m) ==
  /\ at = "group_cycles"
  /\ frames # <<>>
  /\ m \in Top.todo \cap Nodes
  /\ color[m] = "grey"
  /\ cycle' = CycleTo(m)
  /\ at' = "done"
  /\ verdict' = "group_cycle"
  /\ UNCHANGED <<wf, color, frames>>

Blacken ==
  /\ at \in Searches
  /\ frames # <<>>
  /\ Top.todo = {}
  /\ color' = [color EXCEPT ![Top.node] = "black"]
  /\ frames' = WithoutTop
  /\ UNCHANGED <<wf, at, verdict, cycle>>

Searched ==
  /\ frames = <<>>
  /\ \A n \in Nodes : color[n] = "black"

JobsSearched ==
  /\ at = "job_cycles"
  /\ Searched
  /\ at' = IF cycle = <<>> THEN "traverse" ELSE "done"
  /\ verdict' = IF cycle = <<>> THEN verdict ELSE "cycle"
  /\ color' = White
  /\ UNCHANGED <<wf, frames, cycle>>

GroupsSearched ==
  /\ at = "group_cycles"
  /\ Searched
  /\ at' = "group_jumps"
  /\ UNCHANGED <<wf, verdict, search>>

(* ----------------- traverses, groups, writers, triggers -----------------*)
(* A condition or template is a sequence of tokens [t: type, v: value].  A  *)
(* "hole" is one ${{ }}; its value is the sequence of tokens inside, where  *)
(* a "chain" is a dotted path of names.                                     *)
Holes(e) == {e[i].v : i \in {k \in DOMAIN e : e[k].t = "hole"}}

(* The number of dots from the first token of a hole on: the source splits  *)
(* the whole inside at the dots, so several short paths add up.             *)
DotsUpTo(h) ==
  LET dots(x) == IF x.t = "chain" THEN Len(x.v) - 1 ELSE 0
      f[i \in 0..Len(h)] == IF i = 0 THEN 0 ELSE f[i - 1] + dots(h[i])
  IN f[Len(h)]

StartsInPreviousIteration(h) ==
  /\ h # <<>> /\ h[1].t = "chain" /\ Len(h[1].v) >= 4
  /\ SubSeq(h[1].v, 1, 3) = <<"iteration", "previous", "jobs">>

(* checkForbiddenExpressions: no arithmetic, calls, literals of arrays or   *)
(* objects, ternaries or template literals, and a bounded depth.            *)
Permitted(e) ==
  \A h \in Holes(e) :
    /\ \A i \in DOMAIN h : h[i].t \notin {"arithmetic", "call", "literal", "ternary", "template"}
    /\ DotsUpTo(h) + 1 <= IF StartsInPreviousIteration(h) THEN 6 ELSE 4

(* Begins with a hole and ends with one, whatever is between them.          *)
IsTemplate(e) == e # <<>> /\ e[1].t = "hole" /\ e[Len(e)].t = "hole"

CheckTraverse ==
  Check("traverse", "group_refs",
        \A t \in wf.traverse :
          /\ IsTemplate(t.input) /\ Permitted(t.input)
          /\ t.target \in wf.jobs
          /\ t.item_key = "variable"
          /\ t.index_key \subseteq {"variable", "empty"}
          /\ \A e \in t.outputs : Permitted(e)
          /\ t.id \notin wf.jobs,
        "traverse")

CheckGroupReferences ==
  Check("group_refs", "group_needs",
        \A j \in wf.jobs : wf.group[j] \subseteq wf.groups, "group")

CheckGroupNeeds ==
  Check("group_needs", "group_cycles",
        \A g \in wf.groups : wf.group_needs[g] \subseteq wf.groups, "group_needs")

(* Wherever the route is, except in `cases` of a step that is no router.    *)
Jumps(s) == {r \in s.routes : /\ r.do \in {"goto_step", "goto_job"}
                              /\ r.at = "cases" => s.type = "router"}

CheckGroupJumps ==
  Check("group_jumps", "writers",
        \A j \in wf.jobs : wf.group[j] # {} =>
          \A i \in DOMAIN wf.steps[j] :
            /\ wf.steps[j][i].max_visits = {}
            /\ Jumps(wf.steps[j][i]) = {},
        "group_jump")

(* An entry <job>.<step> or <job>.*                                         *)
RealWriter(w, e) ==
  /\ e.job \in w.jobs
  /\ e.step = "*" \/ \E i \in DOMAIN w.steps[e.job] : w.steps[e.job][i].id = e.step

CheckWriters ==
  Check("writers", "expressions",
        \A v \in wf.variables : \A e \in v.allowed_writers : RealWriter(wf, e),
        "writer")

(* What is scanned: `if`, `condition`, `with`, `run` and `env` of the steps *)
(* and repeat.until of the groups; a prompt or an output never is.          *)
Scanned(w) ==
  UNION {s.conditions \cup s.templates : s \in StepsOf(w)}
  \cup UNION {w.until[g] : g \in w.groups}

validateExpressions ==
  Check("expressions", "triggers", \A e \in Scanned(wf) : Permitted(e), "expression")

getKnownTriggers(host) ==
  IF host = "zigma-server" THEN {"manual", "schedule", "webhook", "push"}
                           ELSE {"manual", "schedule"}

(* An unknown trigger only warns, unless the host is named.                 *)
CheckTriggers ==
  Check("triggers", "manual_inputs",
        /\ wf.host = "zigma-server" => wf.on \subseteq getKnownTriggers(wf.host)
        /\ "schedule" \in wf.on => wf.cron
        /\ ~ ({"manual", "schedule"} \subseteq wf.on),
        "trigger")

(* on.manual.inputs moves to the top level unless inputs are there.         *)
MigrateInputs ==
  /\ at = "manual_inputs"
  /\ wf' = IF wf.inputs = {} /\ "manual" \in wf.on
           THEN [wf EXCEPT !.inputs = wf.manual_inputs] ELSE wf
  /\ at' = "human"
  /\ UNCHANGED <<verdict, search>>

SubmitKeys(s) == IF s.inputs = {} THEN {"decision"} ELSE s.inputs

CheckHuman ==
  Check("human", "deprecations",
        \A s \in StepsOf(wf) : s.type = "human" =>
          /\ s.prompt = "text"
          /\ s.exposes = {} /\ ~ s.uses /\ ~ s.run
          /\ s.on_submit \subseteq SubmitKeys(s),
        "human")

(* validateDeprecations only warns.                                         *)
Accept ==
  /\ at = "deprecations"
  /\ at' = "done"
  /\ verdict' = "accepted"
  /\ UNCHANGED <<wf, search>>

LoaderNext ==
  \/ CheckYaml \/ CheckSchema \/ Normalize
  \/ CheckStepIds \/ CheckSkills \/ CheckOnReturn \/ CheckOnOutput
  \/ CheckGotoStep \/ CheckConstraints \/ CheckReferences
  \/ \E n \in Nodes : StartAt(n)
  \/ \E m \in Names : Descend(m) \/ SkipFinished(m) \/ BackEdge(m) \/ GroupBackEdge(m)
  \/ Blacken \/ JobsSearched \/ GroupsSearched
  \/ CheckTraverse \/ CheckGroupReferences \/ CheckGroupNeeds
  \/ CheckGroupJumps \/ CheckWriters \/ validateExpressions
  \/ CheckTriggers \/ MigrateInputs \/ CheckHuman \/ Accept

LoaderSpec == LoaderInit /\ [][LoaderNext]_loaderVars

-----------------------------------------------------------------------------
(* What an accepted file is relied upon for: no jobs and no groups wait in  *)
(* a circle, though the search marks nodes as it goes, skips the finished   *)
(* ones and leaves a node early after a cycle (the engine's readiness and   *)
(* its loop end only because of it); every need is a job; and the members   *)
(* of a group, which iterate together, never leave their order.             *)
AcceptedIsRunnable ==
  verdict = "accepted" =>
    /\ Acyclic(wf.jobs, wf.needs)
    /\ Acyclic(wf.groups, wf.group_needs)
    /\ \A j \in wf.jobs : wf.needs[j] \subseteq wf.jobs
    /\ \A j \in wf.jobs : wf.group[j] # {} =>
         \A i \in DOMAIN wf.steps[j] : Jumps(wf.steps[j][i]) = {}

(* A file refused for a cycle has one, and the path the error names is it.  *)
CycleIsReal ==
  /\ verdict = "cycle" => ClosedWalk(cycle, wf.needs) /\ cycle[1] \in wf.jobs
  /\ verdict = "group_cycle" => ClosedWalk(cycle, wf.group_needs) /\ cycle[1] \in wf.groups

(* The loader implements the gate: whatever way the two searches go, the    *)
(* file is decided once, with the graphs it came with, let in only without  *)
(* circles, and refused for a circle only if it has one.                    *)
Graph == [jobs |-> wf.jobs, needs |-> wf.needs,
          groups |-> wf.groups, group_needs |-> wf.group_needs]

Decision == CASE verdict = "none"     -> "open"
              [] verdict = "accepted" -> "in"
              [] verdict \in {"cycle", "group_cycle"} -> verdict
              [] OTHER                -> "away"

Promise == INSTANCE Gate WITH graph <- Graph, decision <- Decision

ImplementsGate == Promise!GateSpec

=============================================================================
