------------------------------ MODULE Reports -------------------------------
(***************************************************************************)
(* Driving a run by hand: `zigma-flow prompt` starts an agent step, the    *)
(* agent writes report.json, `zigma-flow next` accepts it                  *)
(* (src/engine/accept.ts) with its outputs and context patches             *)
(* (src/engine/applyContextPatch.ts) and routes or advances the job;       *)
(* `zigma-flow step` executes the steps that are not agents.               *)
(*                                                                         *)
(* One command runs at a time and may die at any point.  Routes, advances  *)
(* and the steps of `step` are those of Routing, whose main loop stands    *)
(* still.  A command that is refused before it writes changes nothing and  *)
(* has no action.                                                          *)
(***************************************************************************)
EXTENDS Routing, Sequences

CONSTANTS
  Vars, Values,   \* the workflow's variables and the values of data
  VarValues,      \* VarValues[v]: the values that pass v's type and enum
  Blocks,         \* the workflow's context blocks
  InitialVar,     \* InitialVar[v]: the declared initial value, or NoReport
  InitialText,    \* per block with an initial_artifact, the text found there
  Contract,       \* Contract[j][k]: what an agent step declares (see Declares)
  Signals,        \* Signals[name]: [from, priority, go] of a declared signal
  Written,        \* Written[j][k]: the reports the agent of a step may write
  NoReport,       \* no value, report or visit
  MaxAccepts      \* bound on the reports read by `next`

Action == [do : JobRoute, at : Jobs] \cup [do : PlainRoute, at : {0}]
            \cup [do : {"goto_step"}, at : Nat]

VariableKind == {"variable_set", "variable_delete"}
BlockKind == {"context_block_set", "context_block_append", "context_block_delete"}

(* What a report may ask of the context; a patch of an unknown kind, or of  *)
(* nothing that is declared, is among it.                                   *)
ContextPatch == [kind : VariableKind \cup BlockKind \cup {"unknown"},
                 name : Vars \cup Blocks \cup {NoReport}, value : Values]

(* The contract of an agent step: names are the outputs it declares, type   *)
(* and enum also hold the status that returns.status declares; edit is      *)
(* FALSE for `context_edit: none`, and vars and blocks have both the step's *)
(* write permission and its place among the allowed writers.                *)
Declares(c) ==
  /\ c.names \subseteq DOMAIN c.type
  /\ c.type \in [DOMAIN c.type -> {"string", "array"}]
  /\ \A key \in DOMAIN c.enum : c.enum[key] \subseteq Values
  /\ c.status \subseteq Values /\ c.required \in BOOLEAN
  /\ \A status \in DOMAIN c.onReturn : c.onReturn[status] \in Action
  /\ c.onOutput \in Seq([key : c.names, value : Values, go : Action])
  /\ c.edit \in BOOLEAN /\ c.vars \subseteq Vars /\ c.blocks \subseteq Blocks

ASSUME ReportsAssumption ==
  /\ \A j \in Jobs : \A k \in 1..Steps[j] :
       StepKind[j][k] = "agent" =>
         /\ Declares(Contract[j][k])
         /\ \A r \in Written[j][k] :
              r.shaped => r.patches \in Seq(ContextPatch) /\ r.signals \in Seq(STRING)
  /\ VarValues \in [Vars -> SUBSET Values]
  /\ InitialVar \in [Vars -> Values \cup {NoReport}]
  /\ DOMAIN InitialText \subseteq Blocks
  /\ \A b \in DOMAIN InitialText : InitialText[b] \in Seq(Values)
  /\ \A name \in DOMAIN Signals : /\ Signals[name].from \subseteq Jobs
                                  /\ Signals[name].priority \in Int
                                  /\ Signals[name].go \in Action
  /\ MaxAccepts \in Nat

VARIABLES
  context,    \* variables and context blocks in state.json: their versions,
              \* and the blocks whose artifact is still the initial one
  file,       \* per block and version, the content of the file
  output,     \* each job's outputs in state.json
  report,     \* the report.json of each <<job, attempt, step>>
  next,       \* the `next` command in progress
  accepts,
  told,       \* history: the context as whole reports have made it
  passed,     \* history: each job's outputs by the last report that passed
  credit      \* history: the visit of each job at which a report has passed

data     == <<context, file, output, report>>
history  == <<told, passed>>
handVars == <<vars, data, next, accepts, history, credit>>

NoNext == [at |-> "idle", job |-> NoReport, key |-> <<>>, report |-> NoReport,
           draft |-> NoReport, done |-> 0]

(* createRun puts the declared values in, at version 0 of their blocks.     *)
ReportsInit ==
  /\ Init
  /\ context = [var     |-> InitialVar,
                block   |-> [b \in Blocks |-> 0],
                initial |-> DOMAIN InitialText]
  /\ file = [b \in Blocks |-> <<>>]
  /\ output = [j \in Jobs |-> NoReport]
  /\ report = [key \in {} |-> NoReport]
  /\ next = NoNext
  /\ accepts = 0
  /\ told = [var  |-> InitialVar,
             text |-> [b \in Blocks |-> IF b \in DOMAIN InitialText
                                        THEN InitialText[b] ELSE <<>>]]
  /\ passed = [j \in Jobs |-> NoReport]
  /\ credit = [j \in Jobs |-> NoReport]

Idle == next.at = "idle" /\ \A j \in Jobs : At(j, "idle")

StepNow(j) == StepOf(state.job[j])

Key(j) == <<j, AttemptOf(state.job[j]), StepNow(j)>>

IsAgent(j) == StepKind[j][StepNow(j)] = "agent"

(* ------------------------------ prompt, step -----------------------------*)

(* The prompt's files and its event, then the whole state with the job      *)
(* running.  Only a ready job gets a prompt.                                *)
Prompt(j) ==
  /\ Idle
  /\ state.job[j].status = "ready"
  /\ IsAgent(j)
  /\ state' = Running(state, j)
  /\ UNCHANGED <<jobLog, local, main, seen, collided, data, next, accepts, history>>

(* The agent writes its report, or writes it anew.                          *)
AgentWrites(j) ==
  /\ Idle
  /\ state.job[j].status = "running"
  /\ IsAgent(j)
  /\ \E r \in Written[j][StepNow(j)] :
       report' = [key \in DOMAIN report \cup {Key(j)} |->
                    IF key = Key(j) THEN r ELSE report[key]]
  /\ UNCHANGED <<vars, context, file, output, next, accepts, history>>

(* `step` runs a script, check or router; it does not look at the job again *)
(* afterwards.                                                              *)
StepCommand(j) ==
  /\ Idle
  /\ state.job[j].status \in {"ready", "running"}
  /\ ~IsAgent(j)
  /\ GoTo(j, "start")
  /\ UNCHANGED <<disk, copy, main, seen, collided, data, next, accepts, history>>

StepCommandEnds(j) ==
  /\ At(j, "after")
  /\ Finish(j)
  /\ UNCHANGED <<disk, main, seen, collided, data, next, accepts, history>>

(* --------------------------- reading the report --------------------------*)

(* A string given for an array-typed output becomes an array.               *)
Normalized(c, outputs) ==
  [key \in DOMAIN outputs |->
     IF key \in DOMAIN c.type /\ c.type[key] = "array"
     THEN [outputs[key] EXCEPT !.type = "array"] ELSE outputs[key]]

(* The status a report returns: at its top level, else among its outputs.   *)
StatusOf(r) ==
  IF r.top # NoReport THEN r.top
  ELSE IF "status" \in DOMAIN r.outputs THEN r.outputs["status"].is
  ELSE NoReport

(* validateReportShape and validateReportAgainstStep: every declared output *)
(* and no other, of its type and among its values, and one status at most.  *)
Fulfils(c, r) ==
  LET outputs  == Normalized(c, r.outputs)
      optional == IF c.status = {} THEN {} ELSE {"status"}
  IN  /\ r.shaped
      /\ c.artifacts \subseteq r.artifacts
      /\ c.names \subseteq DOMAIN outputs
      /\ DOMAIN outputs \subseteq c.names \cup optional
      /\ c.status # {} /\ r.top # NoReport =>
           /\ r.top \in c.status
           /\ "status" \in DOMAIN outputs => outputs["status"].is = r.top
      /\ \A key \in DOMAIN outputs \cap DOMAIN c.type : outputs[key].type = c.type[key]
      /\ \A key \in DOMAIN outputs \cap DOMAIN c.enum : outputs[key].is \in c.enum[key]

Returns(c, r) == c.status # {} /\ StatusOf(r) # NoReport

(* The entries of on_output that match; the first that is declared counts.  *)
Matching(c, r) ==
  {i \in DOMAIN c.onOutput : /\ c.onOutput[i].key \in DOMAIN r.outputs
                             /\ r.outputs[c.onOutput[i].key].is = c.onOutput[i].value}

FirstOf(entries) == CHOOSE i \in entries : \A n \in entries : i =< n

(* The first of the signals with the highest priority.                      *)
Strongest(names) ==
  LET i == CHOOSE i \in DOMAIN names :
             \A n \in DOMAIN names :
               \/ Signals[names[n]].priority < Signals[names[i]].priority
               \/ /\ Signals[names[n]].priority = Signals[names[i]].priority
                  /\ i =< n
  IN  names[i]

Via(carrier, go) == [via |-> carrier, do |-> go.do, at |-> go.at]

(* What the report asks for: a status first, then on_output, then a signal. *)
Asked(c, r) ==
  IF Returns(c, r)
  THEN Via("status", IF StatusOf(r) \in DOMAIN c.onReturn THEN c.onReturn[StatusOf(r)]
                     ELSE [do |-> "continue", at |-> 0])
  ELSE IF Matching(c, r) # {} THEN Via("output", c.onOutput[FirstOf(Matching(c, r))].go)
  ELSE IF r.signals # <<>> THEN Via("signal", Signals[Strongest(r.signals)].go)
  ELSE NoReport

(* The errors of acceptAgentReport that precede every write.                *)
Acceptable(j, c, r) ==
  /\ Fulfils(c, r)
  /\ Returns(c, r) \/ ~c.required
  /\ \/ Returns(c, r)
     \/ Matching(c, r) # {}
     \/ \A i \in DOMAIN r.signals : /\ r.signals[i] \in DOMAIN Signals
                                    /\ j \in Signals[r.signals[i]].from

(* `next` reads state, report and workflow.  Whatever the job's status, the *)
(* report of its current step is taken, be it of an earlier visit.          *)
NextRead(j) ==
  /\ Idle
  /\ accepts < MaxAccepts
  /\ state.job[j].step # 0
  /\ Key(j) \in DOMAIN report
  /\ Acceptable(j, Contract[j][StepNow(j)], report[Key(j)])
  /\ next' = [NoNext EXCEPT !.at = "outputs", !.job = j, !.key = Key(j),
                            !.report = report[Key(j)]]
  /\ accepts' = accepts + 1
  /\ UNCHANGED <<vars, data, history>>

Doing(point) == next.at = point

Report == next.report

ContractNow == Contract[next.job][next.key[3]]

(* Mutant: only the plain path persists them.                               *)
PersistPlainOutputs ==
  /\ Doing("outputs")
  /\ output' = IF Asked(ContractNow, Report) = NoReport
               THEN [output EXCEPT ![next.job] = Normalized(ContractNow, Report.outputs)]
               ELSE output
  /\ next' = [next EXCEPT !.at = "patches"]
  /\ UNCHANGED <<vars, context, file, report, accepts, history>>

(* The outputs are persisted, on every path and before any patch is looked  *)
(* at.                                                                      *)
PersistOutputs ==
  /\ Doing("outputs")
  /\ output' = [output EXCEPT ![next.job] = Normalized(ContractNow, Report.outputs)]
  /\ next' = [next EXCEPT !.at = "patches"]
  /\ UNCHANGED <<vars, context, file, report, accepts, history>>

(* ---------------------------- applyContextPatch --------------------------*)

Permitted(c, p) ==
  \/ /\ p.kind \in VariableKind /\ p.name \in c.vars
     /\ p.kind = "variable_set" => p.value \in VarValues[p.name]
  \/ p.kind \in BlockKind /\ p.name \in c.blocks

(* One patch that is not permitted refuses them all; the outputs stay.      *)
PatchesRefused ==
  /\ Doing("patches")
  /\ Report.patches # <<>>
  /\ ContractNow.edit => \E i \in DOMAIN Report.patches :
                           ~Permitted(ContractNow, Report.patches[i])
  /\ next' = NoNext
  /\ UNCHANGED <<vars, data, accepts, history>>

PatchesRead ==
  /\ Doing("patches")
  /\ Report.patches # <<>> =>
       /\ ContractNow.edit
       /\ \A i \in DOMAIN Report.patches : Permitted(ContractNow, Report.patches[i])
  /\ next' = [next EXCEPT !.at = "patching", !.draft = context]
  /\ UNCHANGED <<vars, data, accepts, history>>

Patch == Report.patches[next.done + 1]

Patching(kinds) ==
  /\ Doing("patching")
  /\ next.done < Len(Report.patches)
  /\ Patch.kind \in kinds

PatchVariable ==
  /\ Patching(VariableKind)
  /\ next' = [next EXCEPT
       !.done = @ + 1,
       !.draft.var[Patch.name] = IF Patch.kind = "variable_set" THEN Patch.value
                                 ELSE NoReport]
  /\ UNCHANGED <<vars, data, accepts, history>>

(* The files of a block, their versions counted from 1, with one written.   *)
WithFile(files, version, text) ==
  [n \in 1..(IF version > Len(files) THEN version ELSE Len(files)) |->
     IF n = version THEN text ELSE files[n]]

Text(ctx, b) ==
  IF b \in ctx.initial THEN InitialText[b]
  ELSE IF ctx.block[b] = 0 THEN <<>> ELSE file[b][ctx.block[b]]

(* Mutant: the version is written over.                                     *)
PatchBlockInPlace ==
  LET name == Patch.name
      version == IF next.draft.block[name] = 0 THEN 1 ELSE next.draft.block[name]
      before  == IF Patch.kind = "context_block_append" THEN Text(next.draft, name) ELSE <<>>
  IN  /\ Patching({"context_block_set", "context_block_append"})
      /\ file' = [file EXCEPT ![name] = WithFile(@, version, Append(before, Patch.value))]
      /\ next' = [next EXCEPT !.done = @ + 1, !.draft.block[name] = version,
                                !.draft.initial = @ \ {name}]
      /\ UNCHANGED <<vars, context, output, report, accepts, history>>

(* A new version of the block goes to a file of its own before state.json   *)
(* names it.                                                                *)
PatchBlock ==
  LET name == Patch.name
      version == next.draft.block[name] + 1
      before  == IF Patch.kind = "context_block_append" THEN Text(next.draft, name) ELSE <<>>
  IN  /\ Patching({"context_block_set", "context_block_append"})
      /\ file' = [file EXCEPT ![name] = WithFile(@, version, Append(before, Patch.value))]
      /\ next' = [next EXCEPT !.done = @ + 1, !.draft.block[name] = version,
                                !.draft.initial = @ \ {name}]
      /\ UNCHANGED <<vars, context, output, report, accepts, history>>

PatchBlockDelete ==
  /\ Patching({"context_block_delete"})
  /\ next' = [next EXCEPT !.done = @ + 1, !.draft.block[Patch.name] = 0,
                            !.draft.initial = @ \ {Patch.name}]
  /\ UNCHANGED <<vars, data, accepts, history>>

(* History: what one patch makes of the context.                            *)
Tell(ctx, p) ==
  CASE p.kind = "variable_set"         -> [ctx EXCEPT !.var[p.name] = p.value]
    [] p.kind = "variable_delete"      -> [ctx EXCEPT !.var[p.name] = NoReport]
    [] p.kind = "context_block_set"    -> [ctx EXCEPT !.text[p.name] = <<p.value>>]
    [] p.kind = "context_block_append" -> [ctx EXCEPT !.text[p.name] = Append(@, p.value)]
    [] p.kind = "context_block_delete" -> [ctx EXCEPT !.text[p.name] = <<>>]

(* History: and what all of them make of it, one after the other.           *)
ToldBy(ctx, patches) ==
  LET tale[n \in 0..Len(patches)] ==
        IF n = 0 THEN ctx ELSE Tell(tale[n - 1], patches[n])
  IN  tale[Len(patches)]

(* An event per patch, then the whole state with all of them.               *)
PatchesCommit ==
  /\ Doing("patching")
  /\ next.done = Len(Report.patches)
  /\ context' = next.draft
  /\ told' = ToldBy(told, Report.patches)
  /\ next' = [next EXCEPT !.at = "dispatch"]
  /\ UNCHANGED <<vars, file, output, report, accepts, passed>>

(* -------------------------------- dispatch -------------------------------*)

Dispatched ==
  /\ Doing("dispatch")
  /\ next' = NoNext
  /\ passed' = [passed EXCEPT ![next.job] = Normalized(ContractNow, Report.outputs)]
  /\ UNCHANGED <<state, copy, main, seen, collided, context, file, report, accepts, told>>

(* The report asks for nothing: agent_report_accepted, the artifact index,  *)
(* the outputs once more, and advanceJob.                                   *)
AcceptPlain ==
  LET j == next.job
  IN  /\ Dispatched
      /\ Asked(ContractNow, Report) = NoReport
      /\ Log(j, "agent_report_accepted")
      /\ output' = [output EXCEPT ![j] = Normalized(ContractNow, Report.outputs)]
      /\ GoTo(j, "advRead")

(* applyStatusReturn (with step_returned before it) or applyRoutingAction.  *)
AcceptRoute ==
  LET j == next.job
  IN  /\ Dispatched
      /\ Asked(ContractNow, Report) # NoReport
      /\ route' = [route EXCEPT ![j] = Asked(ContractNow, Report)]
      /\ task' = [task EXCEPT ![j] = "route"]
      /\ UNCHANGED <<jobLog, output>>

(* The command dies; what it has written stays.                             *)
CrashCommand ==
  /\ ~Idle
  /\ crashes < MaxCrashes
  /\ crashes' = crashes + 1
  /\ task' = [j \in Jobs |-> "idle"]
  /\ copy' = [j \in Jobs |-> InitState]
  /\ route' = [j \in Jobs |-> NoRoute]
  /\ next' = NoNext
  /\ UNCHANGED <<disk, loop, seen, collided, data, accepts, history>>

(* ---------------------------- the specification --------------------------*)

Visiting(rec) == [attempt |-> AttemptOf(rec), step |-> StepOf(rec),
                  visit   |-> rec.visits[StepOf(rec)]]

(* A running job leaves the visit of an agent step, other than by a failure *)
(* or a new attempt.                                                        *)
Leaves(j) ==
  LET rec == state.job[j]
      new == state'.job[j]
  IN  /\ rec.status = "running"
      /\ IsAgent(j)
      /\ new.attempt = rec.attempt
      /\ \/ new.status = "completed"
         \/ new.status = "running" /\ Visiting(new) # Visiting(rec)

(* A report gives its job credit for the visit at which `next` accepts it,  *)
(* for as long as its command lives.                                        *)
Credits ==
  credit' = [j \in Jobs |->
               IF Doing("dispatch") /\ j = next.job /\ ~At(j, "idle")'
               THEN Visiting(state.job[j])
               ELSE IF Leaves(j) \/ crashes' # crashes THEN NoReport
               ELSE credit[j]]

NextCommand ==
  \/ PersistOutputs \/ PatchesRefused \/ PatchesRead
  \/ PatchVariable \/ PatchBlock \/ PatchBlockDelete \/ PatchesCommit
  \/ AcceptPlain \/ AcceptRoute

(* A step of Routing on behalf of a command.                                *)
Routed(j) ==
  /\ \/ Step(j) /\ ~At(j, "after")
     \/ ApplyRoute(j)
     \/ Advance(j)
  /\ UNCHANGED <<data, next, accepts, history>>

ReportsNext ==
  /\ \/ \E j \in Jobs : \/ Prompt(j) \/ AgentWrites(j) \/ NextRead(j)
                        \/ StepCommand(j) \/ StepCommandEnds(j) \/ Routed(j)
     \/ NextCommand
     \/ CrashCommand
  /\ Credits

(* ------------------------------- properties ------------------------------*)

(* One `next` moves its job by one step: while a job runs, it leaves a visit*)
(* of an agent step only within a command that accepted, at that visit, a   *)
(* report of the job, its attempt and its step, and an acceptance is good   *)
(* for one such move (acceptAgentReport advances after retry_job and        *)
(* activate_job only: the other actions have moved the job already).  Which *)
(* visit the report was written in is not claimed: after goto_step the      *)
(* report of an earlier visit is still there, and a further `next` accepts  *)
(* it again.                                                                *)
StepNeedsReport ==
  [][\A j \in Jobs : Leaves(j) => credit[j] = Visiting(state.job[j])]_handVars

(* Variables and the text of every context block are at all times what      *)
(* whole reports have made of them, although a report's block files are     *)
(* written one by one before state.json, and the command may die between    *)
(* any two of them.                                                         *)
ContextIsReported ==
  /\ context.var = told.var
  /\ \A b \in Blocks : Text(context, b) = told.text[b]

(* A completed job has the outputs of the last of its reports that passed:  *)
(* the outputs that a refused or interrupted report has left behind do not  *)
(* survive.                                                                 *)
OutputsAreReported ==
  \A j \in Jobs : state.job[j].status = "completed" => output[j] = passed[j]
=============================================================================
