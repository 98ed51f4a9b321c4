# A verification project for zigma-flow

zigma-flow runs a *workflow*: a DAG of jobs, each a list of steps (agent, script,
check, router, human), against a run directory that holds `state.json` (the current
state), `events.jsonl` (the audit log) and artifacts. One process drives a run
(`runAll`); it executes several jobs concurrently as async tasks, and other
processes (`abort`, `force-set`, `reset-run`, `retry`, `approve`, a crashed and
resumed invocation, the manual `prompt`/`next`/`step`) touch the same directory.

This directory holds TLA+ modules translated from the source under `src/`, the TLC
configurations that check them, and TLAPS proofs. Paths below are relative to the
repository's `src/` unless they start with `docs/`. Sections: 1 inventory, 2 modules,
3 runs, 4 theorems, 5 findings, 6 observations, 7 what is not modelled.

## 1. Inventory

| Component | State | Operations | What is hard | What makes it correct |
|---|---|---|---|---|
| Run loop (`engine/runAll.ts`) | loop position, batch, abort controllers, iteration | select a batch, execute it, settle it, post-loop passes | concurrent tasks over one snapshot file; abort, fail-fast, crash at any await | one writable job at a time; the run ends, with a verdict that matches its jobs |
| Job transitions (`engine/index.ts`, `recordAgentFailure.ts`, `retryJob.ts`) | job status, attempts, step pointer in `state.json` | createRun, advanceJob, appendJobCompleted, recordAgentFailure, retryJob | read-modify-write over several awaits; events appended before the state is written | completed work is not taken back, attempts only advance, events come before state |
| Readiness and scheduling (`dag/index.ts`, `engine/scheduler.ts`) | none (pure) | computeReadyJobs, selectExecutable | called with copies of the state of different ages | needs are met while a job executes |
| Run conclusion (`reconcileTerminalState`, `outcomeModel.ts`, `attemptModel.ts`) | run status | reconcile, block stuck jobs, conclude a job | several writers of one verdict | the verdict agrees with the jobs |
| Script, check, router executors | job status and step pointer | executeScriptStep, executeCheckStep, executeRouterStep | write whole snapshots read before the command ran | as above |
| Routing (`engine/routing.ts`, `applyStatusReturn.ts`) | activation, inactive jobs, step visits | activate_job, retry_job, goto_job, goto_step, continue, fail, block | a route rewrites jobs that other tasks write, its own included | a visit is executed once; a new attempt is executed; loops end |
| Job groups, traverse (`jobGroupModel.ts`, `traverse.ts`) | group iteration, item results | begin an iteration, end a group, create, start and collect items | the end of a group races its members; items change between two passes | members iterate together; every item is counted once |
| Event log (`events/`) | `events.jsonl`, cached id counter per process | allocate an id, append, read the tail | two separate queues, several processes, restart | ids are unique and increase |
| Callback delivery (`events/coreCallbackDelivery.ts`) | delivery cursor | deliver, retry, move the cursor | at-least-once, crash before the cursor | nothing is kept from the Core |
| State store (`run/index.ts`, `asyncQueue.ts`) | `state.json`, write queue, the runs directory | read, write, update, reserve a run directory, resolve a run | several shells mint the same id | a run has one writer |
| Invocation control (`run/invocationControl.ts`) | `.control/invoke-owner.json`, pending clients | acquire, cancel, acknowledge | a file as a lock, stale owners, timeouts | one live owner; acknowledged means quiescent |
| Operator commands (`engine/abort.ts`, `forceSet.ts`, `resetRun.ts`, `commands/retry.ts`) | the run files | abort, override, reset, retry | run beside a live loop, in another process | none of them carries a job past a gate |
| Human gate (`engine/humanGate.ts`) | `step_status`, `human-decision.json` | enter, decide, resume | two deciders; crash between record and state | passed only when approved; an open gate can be decided |
| Managed workspace (`workspace/`, `jobCompletionFinalize.ts`) | Run worktree, attempt worktrees, provider operations | prepare, create, commit, integrate, publish, release, tear down | calls that fail or lose their answer, crash between merge and state | completed means merged; an abandoned attempt never is; nothing is lost at teardown |
| Workflow loading (`workflow/index.ts`, `dag/index.ts`) | marks and recursion of the cycle searches | parse, normalise, some twenty checks, two cycle searches | what passes the loader is what the engine must be able to end | an accepted file has no job or group that waits on itself |
| Expressions (`expression/index.ts`) | none (pure) | resolve a template, tokenize, parse, evaluate | the value is put into the text and read again | a condition means what its author wrote |
| Manual commands (`commands/run,prompt,next,step`, `engine/accept.ts`, `applyContextPatch.ts`) | outputs, variables, context blocks and their files, `report.json` | create, prompt, accept a report, patch, route, advance | one report makes several writes, any of which may be the last | one report moves its job one step; context and outputs are those of whole reports |
| Agents, prompts, evidence, CLI, logs, metrics, git | text, child processes | render, spawn, print | – | – |

How they interact: `runAll` reads the state, calls the scheduler, and starts one async
task per job of the batch. A task calls its executor and then the job transitions, which
allocate event ids, append events and write the state. Tasks share nothing but the run
directory and two per-directory queues, which make each single read-modify-write of
`state.json` and each append atomic *within one process*. The next batch is selected only
when every task of the current one has settled. Commands in other processes read and
write the same files with nothing but the atomic rename of `state.json` between them; the
control record tells an `abort` whom to talk to. With a managed workspace every attempt
has a worktree that an external provider creates, merges and removes.

`PROJECT.json` lists every component with its status, and the hazards of the code with the
properties that cover them.

## 2. Modules

| Module | Models | Extends |
|---|---|---|
| `Workflow` | a workflow definition and the pure functions over a run state: readiness, scheduling, run conclusion, attempts | – |
| `RunAll` | one run driven by `runAll`: main loop, agent and script tasks, job transitions, fail-fast, abort, crash and resume, post-loop passes | `Workflow` |
| `Lifecycle` | the abstract run: what a user may rely upon in each of its jobs | – |
| `Routing` | routers, checks, `on_output` and return status through `applyRoutingAction`; step pointer, visits and `if` of `advanceJob` | `Workflow` |
| `Repeats` | iterations of job groups and the virtual jobs of a traverse | `Workflow` |
| `Operators` | commands of other processes and the human gate, beside an invocation | `Workflow` |
| `RunStore` | creation of runs by several shells | – |
| `Reports` | a run driven by hand: prompt, report, next (outputs, context patches, signals, routes), step | `Routing` |
| `Commands` | `RunStore` and `Reports` composed: creation, resolution, commands | both |
| `Workspace` | a run in a managed workspace against a provider that fails | – |
| `EventLog` | `events.jsonl` over several processes, and the delivery of its events to a Core | – |
| `InvocationControl` | which process owns a run, and how another cancels it | – |
| `Dag` | what a graph must be: acyclic, closed walk | – |
| `Gate` | the abstract loader: decides once, lets in exactly grounded graphs | `Dag` |
| `Loader` | `loadWorkflow`, check by check, and its searches, edge by edge | `Dag` |
| `Expressions` | templates, tokens, the parser of conditions, their values | – |
| `Conditions` | conditions from the file to their value: `Loader` and `Expressions` composed | both |
| `MC…` | the instances TLC checks | their module |
| `…Proofs` | theorems about `RunAll`, `Repeats`, `Operators`, `EventLog`, `InvocationControl`, `Workspace`, `Loader`; in `CommandsProofs` about `Commands`, `RunStore`, `Routing` and `Reports` | their module |

What is common to all: one action is what one task or process does between two awaits
that touch shared state: a read into its own copy, the write of a whole copy, or an
`updateState`, which applies its function to the state current then. The write queue of
`run/index.ts` makes each of these atomic within a process. It is local to the process
(`run/index.ts:377`), so `Operators`, where several processes write one run, takes an
`updateState` apart into its read and its write. Nothing makes a read and a later write
atomic, and that is where the interesting interleavings are. A crash takes every process
variable back to its start and keeps the files. An agent or a command is one
nondeterministic outcome; the log keeps the set of terminal event types per job. Variables
marked *history* in a module do not exist in the code and no guard reads them.

### Workflow

A job is a model value; its definition is spread over constants (`Needs`, `Activation`,
`FailurePolicy`, `ReadOnly`, `QueueGroup`, `MaxAttempts`, `OnExceeded`, `Steps`, `Kind`).
A job's record keeps what decides a transition: status, attempt (0 when absent), the
status of the last entry of `attempts`, and the step pointer (0 when absent). The order in
which `selectExecutable` meets the jobs is that of the keys of the jobs map; the model
allows every order. `AcyclicAssumption` is what `LoaderProofs` shows the loader to establish.

### RunAll

| Model | Code |
|---|---|
| `state` | `state.json` |
| `jobLog`, `runLog` | the terminal event types in `events.jsonl`, per job and for the run |
| `loop`, `batch`, `iteration` | where `runAllExecution` is, `jobsToRun`, the iteration counter |
| `task[j]`, `snap[j]` | where j's promise is, and the state it has read |
| `ctl`, `aborted` | the AbortControllers fail-fast has aborted; the invocation's signal |
| `LoopStop` … `BatchSettled` | the main loop (`runAll.ts:2302-2880`) |
| `PostCancel`, `BlockStuckJobs`, `PostReconcile` | the passes after the loop (2882-3060) |
| `StartFails` | the job's workspace or context cannot be built: a configuration error before the job is set running (541-681, 1664-1684; `SetupErrors`) |
| `AgentStart`, `AgentFail`, `AgentSucceed`, `AgentCancelled` | `executeAgentStep` |
| `Record…` | the branches of `recordAgentFailure` |
| `Retry…`, `Continue…` | `retryJob`, and the continue-on-error path |
| `Advance…`, `…JobCompleted` | `advanceJob`, `appendJobCompleted` (events first, then the state) |
| `Script…` | `executeScriptStep` and what `executeNonAgentStep` does after it |
| `Abort`, `Crash` | SIGINT or a cancellation; the process dies and the run is resumed |

`Lifecycle` has a status and an attempt per job, and nothing of loop, tasks, copies, crashes
and resumes. A job starts when ready, is released only when its needs are met, fails when it
is about to start or runs, is blocked only while it runs or when a need of it is lost, is
retried up to its limit, and stays completed, blocked or inactive. `RunAll` implements it
(`JobLife`: status and attempt of the record in `state.json`) for runs of one-step agents and for runs that execute one job at a
time; with parallel scripts it does not (finding 1).

The `attempt` a task is given equals the one in the state it starts from; the retry of an
agent job goes through `recordAgentFailure` and `retryJob` once per failure.

### Routing

`state` has the visits of every step. A route is a record: what carries it (`on_output`,
return status, a case, `on_pass`, `on_fail`, a signal), what it does, its target.
`RouteRead` is the read at the head of `applyRoutingAction`; each action of it
(`RouteContinue`, `RouteStop`, `RouteRetry`, `RouteExceeded`, `RouteActivate`,
`RouteGotoJob`, `RouteGotoStep`) writes the whole copy back; `RouteRefused` are its errors.
`RouteDone` is the advance of the source where the caller has one. `Step…`, `Router…` and
`Check…` are the executors, `Advance…` is `advanceJob` with `if` and `max_visits`. The main
loop is that of `RunAll` without iteration limit, abort and fail-fast, and agents do not
fail. `collided` says that a newer state was overwritten or a job was routed while it
executed; what becomes of such a run is not followed (section 6, routing).

### Repeats

`state` also has the groups (status, iteration), the traverse (its list, counters,
results) and its virtual jobs. `Completed` and `Iterate` are the group part of
`transitionCompletedJob`; `Traverse…`, `StartItem`, `Collect…`, `FinishTraverse` are
`checkAndExecuteTraverses`, one write each. Jobs have one agent step; main loop and
`recordAgentFailure` are those of `RunAll`, their writes joined where nothing of a group or
a traverse can come between. `ForceItem` is a `force-set` of a virtual job.

### Operators

`pt[p]`, `op[p]`, `copy[p]` say where a command or the invocation is, what it was asked and
what it has read. `Abort…`, `Force…`, `Reset…`, `Retry…`, `Decide…` are the commands, each
in the steps in which it reads and writes; `Gate…`, `Work…`, `LoopStop`, `BatchSettled` are
the invocation reduced to a loop that executes one job at a time. Every `updateState` is
two steps: `Fetch(p)` reads the state into `base[p]` (`fetched` says who has), and the write
(`Update`, or `UpdateJob` where a record of `copy[p]` goes in) replaces `state` by what it
makes of `base[p]`; another process may have written in between (`overtaken`). A gate is a
job's first step. `decided` counts the `human_decision` events.

### RunStore, Reports, Commands

A run id is the number after its date prefix, all runs are of one day; a run directory
keeps how far its files are written. `Count`, `Reserve`, `Contended`, `Denied` are
`reserveRunDirectory`; `Load` … `WriteState` are `createRun`; `DeleteRun` is a user's `rm`.

In `Reports` one command runs at a time. `Prompt` makes a ready agent step running;
`AgentWrites` is the agent; `NextRead` reads the report and decides everything
`acceptAgentReport` decides before its first write; then `PersistOutputs`, the patches one
by one (`PatchVariable`, `PatchBlock`, `PatchBlockDelete`; `PatchesRefused` when one is not
permitted, before any), `PatchesCommit`, and `AcceptPlain` or `AcceptRoute`, which hand over
to `Routing`. `StepCommand` runs the steps that are not agents. `CrashCommand` kills the
command anywhere. A command that is refused before it writes has no action. `context` starts with
the declared values (`InitialVar`, `InitialText`): a block with an `initial_artifact` is at
version 0 and keeps that artifact (`context.initial`) until a patch sets, appends to or
deletes it.

`Commands` lets the commands begin when all shells have ended: a run's directory is its
shell's alone (`OwnRunDirectory`), so the two do not interfere. `Open` is `resolveRunId`;
the model then forgets shells and other runs, which nothing reads any more. In TLC's
statistics `CreateRuns` and `GiveCommands` are one action each; all disjuncts
below them fire.

### Workspace

`run`, `job` are `state.json`; `loop`, `task`, `seen`, `handles`, `tidied` are the process;
`tree`, `worktrees`, `base`, `integrated`, `published` are the provider, modelled from how
the adapter uses it: operation ids are idempotent, create and integrate are
compare-and-swap on the HEAD resolved just before, and an answer may be lost after the
provider has acted (`Fault`). `Publishes` says whether the workflow has a `publish` block
whose strategy is not `none`; `PublishRun` does nothing otherwise. `ResolveHead`/`PrepareJob`
and `CommitJob`/`IntegrateJob` are separate, so that other jobs' merges come between. Here every job is required.

### EventLog

A *life* is a process that owns the run. Within a life concurrent writers append events in
two steps, `NextSequentialEventId` and `AppendEvent`; each is atomic (its own queue), the
pair is not. An event handed to `onEvent` enters the delivery queue; `PostCallback` and
`WriteCursor` are the two awaits of the queue's task. The log is replayed at `Open` and
`Close`. `Crash` and `Closed` clear what lives in memory and keep the three files: the
log, the cursor and what the Core has received. Writers in `Silent` do not call `onEvent`
(`engine/applyContextPatch.ts`). A failed delivery stands for all its attempts, and
the Core may have received the event nevertheless. Between crashes one process
at a time owns a run.

### InvocationControl

| Model | Code |
|---|---|
| `record` | the file at `.control/invoke-owner.json`: absent, created but not written yet, active, quiescent, and whose it is |
| `invoke[p]`, `tries`, `seen` | where process p is, its turns in `acquireControlRecord`, the record it is about to remove |
| `stolen` | history: an invoke has removed a record it had not read |
| `cancelled`, `clean` | `onCancellation` was called; the acknowledgement says quiescent |
| `abort[c]`, `target[c]` | where an abort is, and whose address it has read |
| `held[p]` | a connection of p's server that no handler reads |
| `CreateRecord` … `Start` | `InvocationControlOwner.start` |
| `Quiesce`, `Acknowledge`, `Close` | `acknowledgeQuiescence` |
| `Accept`, `ServerTimeout` | `accept` |
| `ReadControl`, `Connect`, `AbortTimeout` | `requestInvocationCancellation` |

The record is a path. `open(path, "wx")` and the write that follows are two steps, and
the write goes to the file that was opened; `unlink` and `rename` act on whatever file
has the path by then. An invoke that was refused or has ended never comes back; another
member of `Invokes` stands for a new process, and process ids are not reused. What an
invoke does between `Start` and `Quiesce` is `RunAll`. A connection that is made after
the record is written and before `start` has assigned the owner gets no handler: Node
buffers its request, never reaches the end of its stream, and `server.close` waits
for it.

### Loader, Gate, Expressions, Conditions

`Loader` runs the checks of `loadWorkflow` in the order of the source; the first that fails
refuses the file, so `at` is a program counter. A definition is a record; an optional field
is a set of at most one element; a step's routes are the RouterActions of its fields. The
two searches (`detectCycles`, `detectGroupDagCycles`) are modelled with their marks and
their recursion as a stack (`color`, `frames`), one edge per action, in every order of the
neighbours. `Gate` is what a caller relies on; `Loader` implements it with
`graph <- Graph, decision <- Decision` (`Promise`).

`Expressions` works on tokens. A template is a token whose value is the tokens inside; the
value of a path is put where the template was and its words are read again, as in the
code. `Context` is what each caller supplies. In `Conditions` a condition is written by an
author as a syntax tree (`Written`), unparsed into the file, loaded, and evaluated with the
facts of a run; `Holds` is the reference definition its value is compared with.

## 3. Runs

| Run | Instance | What it asks |
|---|---|---|
| `agents` | three agent jobs, c after a and b; a retries once and then blocks, b is tolerated; each may fail before it is set running; fail-fast, one abort, one crash; with fairness | are needs met while a job executes; does the verdict agree with the jobs; do events come before state; who is cancelled and why; does completed work ever go back; does the run implement the lifecycle of its jobs; is there an engine deadlock; does every invocation return |
| `mixed` | three scripts in one batch (one of two steps, one writable) that write back old states, then a writable agent; two jobs in a queue group; one crash | does one writable job execute at a time, and does a returning invocation leave a terminal run, in spite of finding 1 |
| `routing` | four jobs with a route of every kind; two of them, an optional and a required one, retry themselves by their output; attempt and visit limits, conditional steps; one crash | is a visit executed once; is a retried attempt executed at all; do loops end; is a completed run settled |
| `repeats` | two parallel members and a judge repeated until it approves, at most twice; a job after the group; a traverse of up to two items over an output of the group; retries, a tolerated failure, a forced item, one crash | do members iterate together; does what follows a group wait for its last iteration; is the group's verdict its condition; is each item counted once |
| `operators` | a gated job and one behind it; two commands from two shells beside invocations, the halves of an `updateState` apart; one process killed | is a gate passed only when approved; does a paused run have an open gate; can an open gate be decided |
| `commands` | three shells create runs with two mishaps (crash, removed run, denied mkdir); then manual commands on a run of three jobs, a variable and a block of initial values, up to four reports; one crash | has a run one writer; are context and outputs those of whole reports; does one report move its job one step |
| `workspace` | two merged jobs and one in the Run worktree, two attempts each, in a workflow that publishes; one failed call or lost answer, one crash | is completed work merged, abandoned work not; does the worktree exist while a job executes; is anything lost at teardown |
| `event_log` | two writers in one process, one in the process that resumes; four ids; crashes and failed deliveries anywhere | are ids unique and increasing; does the Core lack anything |
| `invocation_control` | three invokes of a run, two turns each, one crash, one abort; with fairness | does the record name the owner; what is an abort told; does every settled or cancelled invocation end |
| `conditions` | every graph over three jobs and over two groups, a file that passes and one that fails each check, routes of every kind in every field; conditions of up to three operators with paths, variables, literals, calls | is an accepted file without circles and a reported cycle real; does the loader implement its gate; does a condition mean what was written |
| `v_lost_update` | two parallel read-only scripts | a violation: finding 1 |
| `v_workspace` | a merged job and an unmerged one; one crash, no failed call | a violation: finding 2 |

Bounds. Two peers are enough for every race between tasks, because a task interferes with
another only through the one state file; the third job is the dependent whose readiness
the race decides. One crash may fall between any two steps, and the resumed process runs
to its end. `MaxIterations = 6` (RunAll) is more than the instances need: the loop ends by
itself. Two attempts distinguish the first failure, the retry, and the last failure; two
iterations the first, the repetition and the last; `MaxVisits = 2` a first visit, a
return and a refusal. Two items with `Concurrency = 1` make the second wait for the first.
`MaxEvents = 4` lets both writers of a life append more than once after a resume. In
`InvocationControl` three invokes are the fewest that reach the interesting case, a record
that one has left and two others find; `Attempts = 2` (3 in the code) is the fewest with a
second turn after a removal. Two commands (`MaxCommands`) are the fewest that interfere:
an invocation opens the gate, and one command rewinds its job, or decides it, while another
is at work; three are out of TLC's reach once an `updateState` is two steps (the theorems hold
for any number). Three shells let one
delete or die while two reserve; `MaxTries = 3` and `DenialLimit = 2` stand for 100 and 5,
of which only "the last" matters. `MaxAccepts = 4` is a report for each agent step and one
more, so that a jump back and a retry are reported on again. `NoCollision` (Routing) stops at
states whose further course section 6 describes; the invariants are checked in them too,
with the antecedent `~collided`.

Deadlock is checked where the system goes round: `agents`, `mixed`, `routing`, `repeats`,
`operators` (an invocation that has returned stutters). The other systems really stop, all
lives over, all processes ended, the file decided, the reports used up, and their cfgs
say so. Shells are interchangeable in `operators` and `commands`, whose properties do not
name one (no liveness property is checked there).

`CompletedStaysCompleted` is checked in `agents` only: with parallel scripts it is false
(finding 1).

Fairness. `FairSpec` of `RunAll` assumes weak fairness of the main loop and of each task.
The event loop runs every settled promise; an agent, a script and the run as a whole are
under timeouts that abort them, so no await of a task lasts for ever. Nothing is assumed of
`Abort` and `Crash`. In `InvocationControl` an invoke settles once it is cancelled (its
children are killed; without a cancellation it may run for ever), and its own event loop
and the five-second timer of its server take their steps. Nothing is assumed of the
aborts: that is what the comment at `run/invocationControl.ts:368-369` asks for. The other
modules state safety only.

## 4. Theorems

All hold for every value of the constants that satisfies the named assumptions of the
modules (`WorkflowAssumption`, …); TLC evaluates these on every run.

`RunAllProofs`:

- `TypeCorrect`: `Spec => []TypeOK`. Each helper that builds a state is typed by a lemma.
- `OneWritable`: `Parallelism # 0 /\ Spec => []OneWritableExecutes`. That the batch has at
  most one writable job is not inductive: the scheduler looks at which jobs run *in the
  state it reads*, tasks write back old copies of the state, and a crash leaves jobs
  running with no task. `WritableSerialized` adds that no copy of the state, on disk or
  in a task, shows a running writable job other than the batch's. Every state
  written is then derived from such a copy by starting at most the task's own job (lemmas
  `...Type` and `Derived`), which preserves it.
- `NoDeadlockError`: `Spec => []NoEngineDeadlock`, if nobody needs a job with an explicit
  `activation: required` (nothing ever activates such a job: section 6). The error needs a
  state with jobs waiting, no task, and neither a verdict nor a job to make ready. Among
  the waiting jobs one comes first in the order of `Needs`; its needs are completed,
  tolerated or inactive and optional, or there is a verdict (`NeedDecided`). The invariant
  is that the inactive jobs are those declared so, in the state and in every copy
  (`ActivationKept`).
- `ReturnHasVerdict`: `Spec => [](iteration < MaxIterations => ReturnsWithVerdict)`, if some required
  job's failure is not tolerated; scripts and their stale copies included. `Concluding` says why
  the loop was left: aborted, terminal, decided by the jobs (`Decided`: nothing waits, and the
  reconciliation has a verdict), or out of iterations. Each pass after the loop keeps one of
  these until the status is terminal. Both exceptions are real (section 6).

The other seven are about `Undisturbed` runs, in which no write undoes a peer's:
`OneStepAgents` (every job is one agent step, which merges its writes into the state of that
moment), or `OneAtATime` (one slot, `--parallelism 1`; or no job with a read-only workspace,
so that every batch is one writable job), then with any mix of scripts, agents and several
steps. Scripts beside a peer falsify them (finding 1): a script's task, and `advanceJob`
between two steps, write a whole copy back. The instance of the run `agents` satisfies all
their hypotheses; small instances with scripts of several steps beside agents, and one slot or
no read-only job, were put to TLC before the proofs, without a violation.

`OwnsRecord` says that the record of a job is what its own task has left, that the copy the
task will write from still shows it, and that a copy to be written as a whole (`WritesCopy`)
*is* the state. With one-step agents nothing is written as a whole. With one job at a time the
invariant is `Sole`: batch and running jobs are at most one together, and a writable job is
started only while no read-only one is ready (`BatchSole`: a batch is one job, the running one
if a crash has left one), so that no peer moves while the copy is held. From `OwnsRecord` each
step of a task is one of twelve *rows* (`Begins`, `Looks`, `Stops`, `Fails`, `Continues`,
`Retries`, `Announces`, `Completes`, `Moves`, `Breaks`, `Ends`, `Proceeds`; lemma `RowRuns`),
which say what it does to its job and that it leaves the others alone but for releasing
waiting ones. Then:

- `CompletedStays`, `AttemptsBounded` follow row by row.
- `VerdictMatches`: `VerdictEarned` adds that nobody works on the jobs a verdict rests on, and
  that no task completes its job on the copy of a completed run.
- `EventsFirst`: `Logged` covers the task between its event and its write, and says where a
  `run_completed` may come from; a copy never shows a completion the state lacks
  (`CopiesBehind`).
- `CancelledByAPeer`: the abort of a batch has a reason, a failed job of it or the user.
- `NeedsMetThroughout`: about the needs whose failure is not tolerated. A need under
  `failure_policy: continue` that has failed does not keep its dependents from running (section 6).
- `RunImplementsLifecycle`, with `ToleratedOnce` (a tolerated agent is not retried; a script
  never is): `Spec => ImplementsLifecycle`. `recordAgentFailure` writes `failed` before it asks
  `retryJob`, so the tolerated failure of the first of two attempts releases dependents for a
  moment; without the hypothesis the property is false. Each
  step of the loop releases jobs, gives jobs up or stutters (`LoopLives`); each row is one
  step of its job's life or a stutter (`TaskLives`). A completion releases its dependents in
  the same write, and `NeedsMet` is what lets `Lifecycle` demand that their needs are met in
  the state that write leaves, whatever copy it was decided on.

`RepeatsProofs`. `RepeatsInv` (types; where a task is tells its job's status, `Working`; what
an ended group looks like, `Rests`; how often each member was completed, `InStep`; the
counters, the items made and those still to make, `Items`) holds for every workflow, any
groups and any list. That the condition of a group reads its own members (`Until`) is part of
`RepeatsAssumption`: `snapshotIterationOutputs` and `evaluateUntilCondition` see no others
(`engine/index.ts:940-951`).

- `GroupsInStep`, `ItemsAreAccounted`: no hypothesis. The second needs that a result comes
  only from an item that was made, once, and that a refill never makes more than the
  concurrency leaves room for.
- `GroupsVerdict`: no hypothesis. The outputs that met the condition still stand
  (`MetWhenEnded`), because nothing starts a member of an ended group.
- `RunsAfterGroups`: from outside, only the last job of a group is needed (one that reaches
  every other member through `Needs`), no member of such a group is optional (`NeededLast`),
  and `ToleratedOnce`. A job that needs an inner member is released by that member while the
  group goes on (section 6). `Released`: the needs a released job has inside its group
  are met, and the foreign groups it needs are over, completed or given up by a tolerated
  failure. A new iteration starts only when every member is completed, and then takes all of
  them back at once.

`OperatorsProofs`, for any number of shells, commands and kills, with no hypothesis. Every step
of a process is again a *row*: it moves that process alone, and says job by job what it
writes, over `base[p]` where it ends an `updateState` (`Fetches` is its first half);
`History` says what the history variables keep of it.

- `OperatorsTypes`: `Spec => []TypeInv`.
- `PausedAwaits`: `Spec => []PausedIsAwaiting`.
- `GateHolds`: `Spec => []BehindGateApproved`, lost updates between shells included.
  `Approved` covers the state, every copy and every `base`, whose job may be past its gate, and
  every process that is taking a job past it. While nothing has overlapped one process is at
  work (`Serial`) and what it has read is the state (`Fresh`), so that the approval is that of
  the attempt.
- `OpenGatesCanBeDecided`: `Spec => []OpenGateIsUndecided`. `Undecided`: no decision is on file
  for an attempt to come, and one of this attempt is being applied, or the job is past its
  gate, or being taken past it.

`EventLogProofs`:

- `LifeIdsUnique`: `Spec => []LifeUnique`. The strengthening says that the counter covers
  every id of the live process, in the log or pending, that pending ids differ
  from each other and from the log's, and that a process that has not started has
  written nothing.
- `IdsIncrease`: `Spec => []LogIncreases`. Under its hypothesis, that every process
  appends in the order of its ids, all ids handed out by the live process exceed those
  of its predecessors.
- `CursorCoversLog`: `Spec => []CursorCovers`, if every writer hands its events to `onEvent`
  (`Silent = {}`; section 6 names one that does not). The invariant itself speaks of logs
  in which each process appended in the order of its ids (`InOrder`), so of concurrent writers
  it says something only until one is overtaken by a larger id. `Covers`: until delivery
  fails, an event past the cursor is in the queue, behind smaller ids only, so that no post
  can move the cursor over it. The queue a resumed life starts from is the log filtered by
  the cursor; what that filter lets through is shown by induction over the log, as a least
  counterexample. `After` is a recursive function for its sake: `SelectSeq` cannot be
  expanded in a proof.

`InvocationControlProofs`:

- `OwnerKeepsRecord`: `Spec => []OwnerIsRecorded`. The strengthening, `SeenIsDisowned`,
  says that a record which an invoke is about to remove is not one to respect: its
  process is dead, and stays dead, or has declared it quiescent. Under `~stolen` the
  record that is removed is that one, so it is no owner's. Two owners would both have
  their name in the one record.
- `AckIsLate`: `Spec => []AckedAfterQuiescence`. A clean answer exists only after the record
  was replaced (`CleanIsSettled`), only the process itself writes an active record
  of its own, and it is past that point for good; an abort is told of no other
  (`AckedIsClean`).
- `DirectIsUnowned`: `Spec => DirectOnlyWhenUnowned`, from `OwnerKeepsRecord`: while an
  invoke owns the run the record at the path is neither absent nor quiescent.

`WorkspaceProofs`: one inductive invariant, `TypeOK` with `Coherent`, carries all five
theorems. Its parts: only jobs of the batch have tasks (`TasksInBatch`); what is merged
was created, with a base from before its own merge (`CreatedBeforeMerged`); while a task
creates its worktree no other merges its attempt, so an attempt in the HEAD is in the HEAD
the task has resolved, and creation refuses it (`SeenIfMerged`); a task that executes has
the handle of its attempt and the worktree behind it (`LiveHandles`); a task about to seal
its completion is merged (`SealedIsMerged`); the teardown of a completed run comes after the
publication, where the workflow publishes (`PublishedAtTeardown`). The three checked
invariants `CompletedIsIntegrated`, `OnlyLastAttemptIntegrated` and `ResultsPublished` are the other conjuncts.

- `CompletedWorkIsIntegrated`, `AbandonedWorkStaysOut`, `WorktreeWhileExecuting`,
  `NothingLostAtTeardown`, `TypeCorrect`. That an abandoned attempt stays out rests on the
  order in the code: an attempt is given up only while it executes, before its commit, and a
  finalization that fails, the lost answer of a merge included, fails the job with no
  attempt after it.

`LoaderProofs`:

- `AcceptedRunnable`: an accepted file is `Acyclic` in its jobs and its groups, with
  `Acyclic` stated as "every non-empty set of nodes has one that needs none of the
  others". The invariant is the classic one of a depth-first search, for any order
  of the neighbours: the stack is a path of the grey nodes (`StackIsPath`); while nothing
  is found, black nodes have only black neighbours and every set of them is grounded, and a
  neighbour already looked at is black or next on the stack (`NothingMissed`); what is
  found is a closed walk (`FoundIsReal`). Between the searches nothing is marked; the
  group search starts with an empty stack (`at = "group_cycles" => cycle = <<>>`).
- `ReportedCycleReal` and `NoFalseCycle`: a closed walk contradicts `Acyclic`.
- `LoaderImplementsGate`: `LoaderSpec => ImplementsGate`. Every check, edge and mark is a
  stutter of `Gate` but the last step of a file; there the three theorems above are the
  guards of the gate's actions.

`CommandsProofs`, about `Commands` and the parts it composes. On `RunStore`:

- `RunsAreOwned`: `StoreSpec => []OwnRunDirectory`. The strengthening, `Mine`, says that a
  shell that writes has a directory that nobody else has written in; the exclusive `mkdir`
  establishes it whatever id was counted.
- `StoreTyped`: `StoreSpec => []StoreTypeOK`, with the finiteness of the directories counted.

On `Routing`, for every workflow, its routes, `if`s and limits. Each step of a task is again one
of a few *rows* (`Looks`, `Rejects`, `Begins`, `Closes`, `Passes`, `RouteOf`), which say what it does
to its own record and to the target of its route, and that the other records stay or are released.

- `RoutingTyped`: types; a task that is to apply a route has one of its step's that is not
  refused (`Chosen`); tasks exist during a batch only (`InBatch`).
- `VisitLimitKept`: `Spec => []VisitLimitHolds`, collisions included, with `NoBlindReturn`: no job
  that may be retried has an `if` on a step before its last. `InLimits` covers every copy of the
  state: a record is within its limits or blocked or failed by them, and the latter does not
  execute until a route sends it back. Hence the hypothesis; section 6 has the case without it.
- `CompletedRunSettled`: `Spec => []CompletedRunIsSettled`, with no hypothesis. `Owned`: while
  nothing collides the record of a job whose task is at work is the one that task left, so that
  the run is set to completed by a look at the records as they are.
- `RetriedAttemptRan`: `Spec => []RetriedAttemptRuns`, with no hypothesis. The property leaves
  out the jobs that an output or signal route of their own may send back (`AdvancedPastRetry`):
  those are advanced afterwards, past the new attempt (section 6). `Executed`: no other job
  that is about to be advanced has been sent back.
- `StepsOnce`: `Spec => []StepsNotRepeated`, with `NoReturnedGoto`: no job is a target of both a
  `goto_job` and a retry (`goto_job` starts the attempts again at 1). `Unrepeated`: the attempt
  of a job is never before the one last started, and where they are the same the next start
  is a visit of its step that was not executed.

On `Reports` and `Commands` as a whole (`CommandsSpec`: shells that create runs, resolve them and
give commands), for every contract, set of reports and order of commands, with a command dying
at any point:

- `ReportsMoveJobs`: `CommandsSpec => StepNeedsReport`, an action property: a running job leaves
  a visit of an agent step only within a `next` that accepted a report at that visit, and one
  acceptance is one move. The report is one of the job, attempt and step; after `goto_step` it
  may be that of an earlier visit (section 6). `HandInv`: commands
  on a run take turns (`Serial`), so what one has read is still the state when it writes
  (`Current`); `step` executes no agent (`ByHand`); the report being read is for the step its
  job is at, and was accepted (`Reading`); a running job that a command is to take on has its
  credit (`Credited`). The rows of `Routing` are reused: what a row does to another job
  (`Aside`) or to its own (`Itself`) never takes it off an agent's visit.
- `CommandsKeepRuns`: `CommandsSpec => []OwnRunDirectory`; no command touches the directories.
- `OutputsKept`: `CommandsSpec => []OutputsAreReported`. A refused or interrupted report leaves
  outputs behind; `LeftBehind` says that the job is then at an agent step, not completed and
  without a task, so that only another report takes it on. It rests on `AgentsFirst` and
  `NotAdvanced`: `step` never advances a job, so what comes before an agent step is an
  agent step.
- `ContextKept`: `CommandsSpec => []ContextIsReported`, with `NoRewrittenBlock`: no report deletes
  a block and sets or appends to it afterwards. `Recorded`: the context, and the draft of the
  report at hand, name files that hold what was told (`TaleOf`); `Drafted`: the versions
  that `state.json` names are behind those of the draft, so that writing the next one cannot touch
  them. The initial text of a block is told from the start and never rewritten. A delete takes
  a block back to version 0, hence the hypothesis; section 6 has the
  case without it.

TLC confirmed that the instance of the run `routing`, which has a route of every kind and retries
one job, satisfies the two hypotheses of `Routing`, that of the run `commands` `NoRewrittenBlock`; and found
the counterexamples to `VisitLimitHolds` without `NoBlindReturn` and to `ContextIsReported` with
a report that deletes a block and sets it.

Only model-checked:

- liveness (`InvocationReturns`, `CancelledInvocationEnds`), which is out of the prover's
  reach;
- what `Expressions` and `Conditions` compute (`ConditionAsWritten`): the parser is recursive
  (RECURSIVE operators; induction over data).

The hypotheses delimit the properties and not the proofs: sections 5 and 6 describe what
happens without them. `TypeOK` of `RunAll`,
`Workspace`, `InvocationControl`, `StoreTypeOK` of `RunStore` and the types of `Operators`,
`Repeats` and `Routing` are proved, so no run repeats them.

## 5. Findings

1. `v_lost_update`: `executeScriptStep` writes the whole state it read before its command
   ran (`script/executor.ts:626`) and takes back what a parallel peer completed meanwhile;
   `docs/architecture.md:597` forbids this.
2. `v_workspace`: after a crash between the merge and the completed state the resumed run
   creates the attempt again with a HEAD that its own merge has moved; the provider
   refuses, and job and run fail although the work is merged (`engine/runAll.ts:2154`).
   The comment at `engine/index.ts:817` says "crash-safe: no re-finalize on resume is ever
   needed", `docs/zigma-workspace-integration.md:300` that the merge counts as a success.

## 6. Observations

Behaviour met while modelling, where the code and a document differ or a
property needs a restriction. They shape the modules and instances above; none has a run of its
own.

Run loop, state and events
- A job whose need failed under `failure_policy: continue` runs (`NeedMet`, `dag/index.ts`),
  while `docs/workflow-language.md:900` says its dependents are blocked. The instance of
  `agents` has such a job; `NeedsMetWhileExecuting` says nothing of needs under `continue`.
- `recordAgentFailure` writes `failed` before `retryJob` writes `ready`; a peer that
  completes in between sees a failed job (`docs/workflow-language.md:644`). With a tolerated
  job this releases its dependents before the retry. A crash in between loses the retry.
- Two failing jobs of one batch both write the run status and the later one wins
  (`docs/architecture.md:472-479`, 523): a `failed` run can become `blocked`.
- Two ready read-only jobs of one `queue` group are selected in the same batch, as the
  scheduler compares candidates with running jobs only (`docs/architecture.md:609`).
- A peer cancelled by fail-fast takes the cancellation path of its executor, which sets
  the run to `cancelled` (`docs/architecture.md:530`, 640).
- The post-loop pass blocks direct dependents only; a job two needs away from the
  blocked one stays `waiting` (comment at `runAll.ts:2884-2886`).
- `Math.max(1, NaN)` is `NaN`: with a malformed `--parallelism` no comparison of the
  scheduler succeeds and the fallback runs every ready job at once
  (`docs/workflow-language.md:799`). `OneWritable` therefore assumes `Parallelism # 0`.
- A job with an explicit `activation: required` starts `inactive`
  (`engine/index.ts:193`; `docs/workflow-language.md:690`), and a workflow that needs
  it ends in the engine-deadlock error.
- When two agents finish together, `appendJobCompleted` decides on `run_completed` from the
  state it read (`engine/index.ts:1071`): the state can say completed with no such event.
  `CompletionLogged` claims it for jobs only, and that the event is never too early.
- A job released by readiness propagation has no `attempts` array; its failure takes the
  fallback (`recordAgentFailure.ts:437`) that fails the run whatever its `failure_policy`.
- A process that resumes a run continues from the last line of the log, which need
  not carry the largest id (`events/appendEvent.ts:101`); `last_event_id` of the state can
  differ from it (`docs/mvp-contracts.md:86`). Hence the hypothesis `InOrder`.
- An event appended without `onEvent` is skipped by the replay too, once a later one has
  been delivered (`runAll.ts:1969`); the `event_log` run has no `Silent` writer.
- A run whose required jobs have all failed under `failure_policy: continue` returns without a
  verdict, as `reconcileTerminalState` asks for one completed job (`runAll.ts:1889`); so does
  one that has used up `maxIterations` (`runAll.ts:326` says so of the latter only).
- A crash between `job_completed` in the log and the state makes the resumed run execute
  the job again.

Invocation control
- `acquireControlRecord` removes the path and not the record it has read
  (`run/invocationControl.ts:282`); of two invokes that resume an ended run, the slower
  one can remove the new record of the faster one and both own the run (`stolen`).
- The owner drops a connection after five silent seconds even when its request is
  pending (`run/invocationControl.ts:370`), so an abort of a run that takes longer to
  settle is an error, while `docs/platform-integration-contract.md:343` says that it
  blocks until the owner has settled.
- A connection made before the owner is assigned holds `server.close`, and with it the
  invoke, for ever (`run/invocationControl.ts:330`, 456); `CancelledInvocationEnds`
  excludes it with `~held[p]`.
- A process that dies between `open` and `writeFile` (`run/invocationControl.ts:262-264`)
  leaves an empty record; every later invoke of the run is refused, and every abort
  is an error, until someone removes the file.

Operators and the gate
- approve, reject or resume on a job that reset-run or force-set took back finds the old
  decision file of the same attempt: the gate is never decided (`rewound`). A crash between
  the file (`humanGate.ts:460`) and the state has the same effect.
- Two concurrent deciders both record their decision, as the file is not created
  exclusively (`humanGate.ts:379`); the later state wins. An approval read for attempt 1 can
  be applied to attempt 2.
- `retry` replaces the job's record by one built from the copy it read, so that a gate
  opened meanwhile is lost while the run stays paused (`overtaken`).
- The queue of an `updateState` is that of its process (`run/index.ts:377`): of two shells, or a
  shell and an invocation, that update at the same time the later write undoes the earlier
  (`overtaken` too). `BehindGateApproved` covers such runs, `PausedIsAwaiting` does not.
- Between the applied decision and `advanceJob` a second invocation re-opens the gate.
- An approval on a cancelled run sets it running. A gate at a job's first step has no
  `current_step`, so `approve` needs `--step`. The `job_ready` of force-set is never emitted.

Routing
- `on_output` with `retry_job` of its own job: the advance that follows
  (`runAll.ts:1523-1525`; `docs/phases/p9-agent-report-retry/…/wf-p9-retry/01-cases-and-tests.md:73`) completes the
  new attempt unexecuted when the job has one step, or skips its first step. The instance of
  `routing` has both (jobs c and d); `RetriedAttemptRuns` excludes such jobs
  (`AdvancedPastRetry`).
- A return status with `retry_job` or `activate_job` does not advance the source, which
  executes its step again in every iteration.
- `goto_job` to a job that is ready for attempt 2 resets it to attempt 1.
- An optional job that was activated and then failed leaves the run without a verdict.
- A router's `goto_step` is an error after the job was set running, so it is executed in every
  iteration; `{status: failed}` of a router does nothing and the job advances.
- Routes to a job that executes in parallel, and whole copies written meanwhile, lose one
  of the two (`collided`). Visits are kept over routing retries.
- After a false `if` the next step's own `if` and visit limit are not looked at: a step that its
  visit limit has blocked in one attempt executes in the next, when the `if` before it is false
  (a routing retry keeps the visits). A passing
  check completes its job even when it is not the last step. `continue` and `goto_job` of
  a router do not propagate readiness nor seal the attempt.
- `runAll` ignores `report.signals` and `context_patches`; only `next` applies them.

Groups and traverse
- Group-level `needs`, `filterReadyGroupJobs`, `isGroupReady`, `deriveGroupConclusion` are not
  consulted by the engine.
- The completion of the last job sets the run to completed (`engine/index.ts:1054`) before
  the traverse pass of the same iteration creates its items, although the comment at
  `runAll.ts:2820` says a new iteration picks them up; a run can be completed with its
  traverse pending, and a crash can leave it so.
- A tolerated failure of a member leaves the group pending in a completed run. Iterations use
  up retry attempts. A job outside that needs a member which is no sink may start after
  iteration 1; the restart requires outer needs strictly completed. A traverse takes its list
  after the first iteration of a group. Virtual jobs never execute their target's steps
  and fail only by force-set.

Managed workspace
- A conflict makes the job `failed`; `docs/zigma-workspace-integration.md:196` says blocked.
  A failed creation of the Run workspace throws and leaves the run `running` (:161).
- A paused run is torn down as class "failure"; after an error before `runAll.ts:2890` the
  teardown reads `finalState` (2271) before its declaration, a ReferenceError.
- `goto_job` that resets a completed job to attempt 1 reuses the cached handle of a
  removed worktree; a rejected `prepareJob` promise stays cached; a HEAD that moves during
  `prepareJob` fails job and run without a retry.
- Without a `publish` block, or with strategy `none`, nothing is published
  (`runAll.ts:3071`) and the teardown still removes the Run worktree of a completed run
  (2271-2290) unless its retention says `retain`; what becomes of the Run branch is the
  provider's. `ResultsPublished` claims the publication for workflows that publish only.
- Nothing reconciles on resume (section 9 of that document asks for it); a completed and
  cleaned run that is run again throws in `prepareRun`. `next` and force-set complete jobs
  without merging them.

Loader and expressions
- `goto_step` targets are checked for router cases only; targets of `goto_job`,
  `activate_job`, `retry_job` never. Job needs and group needs are not checked against each
  other. Empty steps are accepted. The depth limit counts the dots of a whole template.
- Conditions documented as one template (`docs/workflow-language.md:1393-1398`, 1423, 1437;
  `.zigma-flow/workflows/bugfix.yml:26`, `issue-fix.yml:33`, `code-change.yml:23`) are
  refused by the loader or fail on "Unexpected character '$'"; only
  `${{ variables.x == 'ready' }}` evaluates.
- The context of a step's `if` has no steps and no statuses (`engine/index.ts:683-703`):
  `steps.*`, `jobs.*.status`, `attempt.*` never resolve, success() and always() are always
  true, failure() and cancelled() always false; `inputs` knows `task` only. In checks
  `steps.<id>.outputs` is the last outputs of the job, whatever the step. The context of
  `until` has no run id and no workflow name.
- Empty values, values of several words and values equal to the name of a variable are read
  again as something else; a closing parenthesis is not distinguished from an opening one.

Run store and manual commands
- A workflow that does not load leaves an empty run directory, which `--latest` resolves
  to (`engine/index.ts:143`). After the removal of a run every try of a reservation counts
  the same existing id, and `run` gives up after 100 (`run/index.ts:339`).
- `prompt` refuses a running job, so a second agent step is reported on without a prompt. After
  `goto_step` the `report.json` of the earlier visit is accepted again
  (`engine/accept.ts:457`); `StepNeedsReport` therefore counts acceptances and not the visits
  reports were written in. `next` on a failed or blocked job applies its patches again.
- Outputs are persisted before patches are checked (`engine/accept.ts:738`): a refused
  report leaves them until the next one. A crash after the patches (746) makes the same
  report append twice. Deleting and setting a block in one report starts its versions at 1
  and overwrites the file of the old version (`applyContextPatch.ts:445`).
- An `initial_artifact` is looked up in the run directory (`applyContextPatch.ts:393`), where
  `createRun` puts none: an append to it starts from the empty text unless the author knew
  the path (`InitialText` is the text found there).
- Two concurrent `next` advance twice; two shells lose each other's whole-copy writes. `step`
  does not advance a check that `failure_policy: continue` has left running.

## 7. What is not modelled

- Text: YAML syntax, prompts, evidence, messages, logs, metrics, the CLI's output. They
  decide no transition of a run.
- Agents, model router, commands, git: child processes whose outcome the models choose
  nondeterministically.
- `--pause-before`, `--stop-after` (debugging stops), the `cancel_previous` and `reject`
  queue policies, agent configuration and model fallback.
- Two manual commands at once, and manual commands beside an invocation: the model of
  `Reports` is serial, because two `next` interfere in ways the observations above name and
  no property survives. `Operators` has the concurrency of the commands made for it.
- Operator commands that append events while an invocation does: `EventLog` has one process
  at a time; ids can then repeat.
- `RunAll`, `Routing`, `Repeats` and `Workspace` each have the main loop with the part
  they are about; their product is beyond TLC and would show the interference of, for
  example, a route with a merge, which is not covered.
- Group needs are loaded (`Loader`) but, as in the engine, do nothing afterwards.

Next on the list, should the project grow: lifecycles with iterations and routes, which
`Repeats` and `Routing` would implement; two processes in `EventLog`.
