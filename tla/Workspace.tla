------------------------------ MODULE Workspace -----------------------------
(***************************************************************************)
(* A run in a managed workspace: a Run worktree that collects the work of  *)
(* the jobs, and one worktree per job attempt, branched from the Run HEAD. *)
(* The engine (src/engine/runAll.ts) asks an external provider, the        *)
(* zigma-workspace CLI behind src/workspace/, to create, commit, integrate,*)
(* publish and clean them.  What the provider does is modelled from how the*)
(* adapter uses it: operation ids are idempotent, create and integrate are *)
(* compare-and-swap on the HEAD the adapter resolved just before, and an   *)
(* answer may be lost after the provider has acted.                        *)
(*                                                                         *)
(* Scheduling, failure policies and concurrent writes of state.json are the*)
(* subject of RunAll; here every job is required and fails the run.        *)
(***************************************************************************)
EXTENDS Integers, FiniteSets

CONSTANTS
  Jobs,
  Scope,        \* Scope[j]: "job" (integrated), "unmerged" (merge.strategy none), "run"
  Publishes,    \* the workflow has a publish block, its strategy not none
  MaxAttempts,  \* retry.max_attempts of every job
  MaxFaults,    \* bound on provider calls that fail or whose answer is lost
  MaxCrashes    \* bound on process crashes, each followed by a resume

ASSUME WorkspaceAssumption ==
  /\ IsFiniteSet(Jobs)
  /\ Scope \in [Jobs -> {"job", "unmerged", "run"}]
  /\ Publishes \in BOOLEAN
  /\ MaxAttempts \in Nat \ {0}
  /\ MaxFaults \in Nat
  /\ MaxCrashes \in Nat

VARIABLES
  run,         \* status of the run in state.json
  job,         \* jobs of state.json: status and attempt
  loop,        \* where the invocation is; "off" when no process runs
  task,        \* where each job's task is
  seen,        \* the Run HEAD the adapter resolved for the task
  handles,     \* managedJobWorkspaceHandles
  tidied,      \* cleanedAttemptWorkspaces
  tree,        \* provider: the Run worktree
  worktrees,   \* provider: the attempt worktrees that exist
  base,        \* provider: the HEAD each create operation was recorded with
  integrated,  \* provider: the attempts merged into the Run HEAD
  published,   \* provider: the attempts in the published branch
  faults,
  crashes

files    == <<run, job>>
provider == <<tree, worktrees, base, integrated, published>>
vars     == <<run, job, loop, task, seen, handles, tidied, tree, worktrees,
              base, integrated, published, faults, crashes>>

Attempts == Jobs \X (1..MaxAttempts)

(* The Run HEAD is the set of attempts merged into it.                      *)
Head == SUBSET Attempts

NotCreated == {<<>>}

RunStatus == {"running", "completed", "failed", "cancelled"}

JobRecord == [status  : {"ready", "running", "completed", "failed"},
              attempt : 1..MaxAttempts]

Init ==
  /\ run = "running"
  /\ job = [j \in Jobs |-> [status |-> "ready", attempt |-> 1]]
  /\ loop = "off"
  /\ task = [j \in Jobs |-> "idle"]
  /\ seen = [j \in Jobs |-> {}]
  /\ handles = {}
  /\ tidied = {}
  /\ tree = "none"
  /\ worktrees = {}
  /\ base = [k \in Attempts |-> NotCreated]
  /\ integrated = {}
  /\ published = {}
  /\ faults = 0
  /\ crashes = 0

Key(j) == <<j, job[j].attempt>>

WithStatus(s) == {j \in Jobs : job[j].status = s}

At(j, point) == loop = "batch" /\ task[j] = point

GoTo(j, point) == task' = [task EXCEPT ![j] = point]

SetStatus(j, s) == job' = [job EXCEPT ![j].status = s]

(* ------------------------------- main loop -------------------------------*)

(* provider.prepareRun, which finds the worktree of an earlier invocation.  *)
(* When that one has been removed validateHandle throws: nothing happens.   *)
PrepareRun ==
  /\ loop = "off"
  /\ tree # "gone"
  /\ tree' = "there"
  /\ loop' = "read"
  /\ UNCHANGED <<files, task, seen, handles, tidied, worktrees, base,
                 integrated, published, faults, crashes>>

(* A batch of ready jobs, or the jobs that are running; see RunAll.Batches. *)
Dispatch ==
  /\ loop = "read"
  /\ run = "running"
  /\ \E B \in SUBSET Jobs \ {{}} :
       /\ B \subseteq WithStatus("ready") \/ B = WithStatus("running")
       /\ task' = [j \in Jobs |-> IF j \in B THEN "resolve" ELSE "idle"]
  /\ loop' = "batch"
  /\ UNCHANGED <<files, seen, handles, tidied, provider, faults, crashes>>

(* The run is decided, or has no job left to start; or the invocation stops *)
(* early: an abort, the iteration limit, a human gate.                      *)
LoopStop ==
  /\ loop = "read"
  /\ loop' = "post"
  /\ UNCHANGED <<files, task, seen, handles, tidied, provider, faults, crashes>>

(* reconcileTerminalState for required jobs.                                *)
Verdict ==
  IF run # "running" \/ WithStatus("ready") \cup WithStatus("running") # {}
  THEN run
  ELSE IF WithStatus("failed") # {} THEN "failed" ELSE "completed"

(* The post-loop passes: an aborted run is cancelled, whatever it was.      *)
PostLoop ==
  /\ loop = "post"
  /\ run' \in {Verdict, "cancelled"}
  /\ loop' = "publish"
  /\ UNCHANGED <<job, task, seen, handles, tidied, provider, faults, crashes>>

(* ------------------- resolveManagedJobWorkspace --------------------------*)

(* A job of run scope executes in the Run worktree; a known attempt in the  *)
(* worktree the invocation has a handle for.                                *)
UseWorkspace(j) ==
  /\ At(j, "resolve")
  /\ Scope[j] = "run" \/ Key(j) \in handles
  /\ GoTo(j, "start")
  /\ UNCHANGED <<files, loop, seen, handles, tidied, provider, faults, crashes>>

(* The adapter's prepareJob resolves the Run HEAD ...                       *)
ResolveHead(j) ==
  /\ At(j, "resolve")
  /\ Scope[j] # "run"
  /\ Key(j) \notin handles
  /\ seen' = [seen EXCEPT ![j] = integrated]
  /\ GoTo(j, "create")
  /\ UNCHANGED <<files, loop, handles, tidied, provider, faults, crashes>>

(* The provider replays an operation it knows under the same HEAD, and      *)
(* creates a worktree only from the current one.                            *)
CreateAccepted(j) ==
  IF base[Key(j)] # NotCreated THEN base[Key(j)] = seen[j]
                               ELSE seen[j] = integrated

Created(j) ==
  /\ base' = [base EXCEPT ![Key(j)] = seen[j]]
  /\ worktrees' = IF base[Key(j)] = NotCreated
                  THEN worktrees \cup {Key(j)} ELSE worktrees

(* ... and passes it on as the HEAD the attempt must branch from.           *)
PrepareJob(j) ==
  /\ At(j, "create")
  /\ CreateAccepted(j)
  /\ Created(j)
  /\ Key(j) \in worktrees'
  /\ handles' = handles \cup {Key(j)}
  /\ GoTo(j, "start")
  /\ UNCHANGED <<files, loop, seen, tidied, tree, integrated, published,
                 faults, crashes>>

(* The call fails or its answer is lost.                                    *)
Fault == faults < MaxFaults /\ faults' = faults + 1

(* workspaceError is a configuration failure: job and run fail, no retry.   *)
PrepareJobFails(j) ==
  /\ At(j, "create")
  /\ \/ ~CreateAccepted(j) /\ UNCHANGED <<base, worktrees, faults>>
     \/ Fault /\ UNCHANGED <<base, worktrees>>
     \/ Fault /\ CreateAccepted(j) /\ Created(j)
  /\ SetStatus(j, "failed")
  /\ run' = "failed"
  /\ GoTo(j, "idle")
  /\ UNCHANGED <<loop, seen, handles, tidied, tree, integrated, published,
                 crashes>>

(* -------------------------------- execution ------------------------------*)

Start(j) ==
  /\ At(j, "start")
  /\ SetStatus(j, "running")
  /\ GoTo(j, "exec")
  /\ UNCHANGED <<run, loop, seen, handles, tidied, provider, faults, crashes>>

(* A step other than the last: the job stays running for the next batch.    *)
StepEnds(j) ==
  /\ At(j, "exec")
  /\ GoTo(j, "idle")
  /\ UNCHANGED <<files, loop, seen, handles, tidied, provider, faults, crashes>>

(* A failing attempt is followed by a new one while attempts are left; the  *)
(* last one fails the job and the run.                                      *)
AttemptFails(j) ==
  /\ At(j, "exec")
  /\ IF job[j].attempt < MaxAttempts
     THEN /\ job' = [job EXCEPT ![j] = [status  |-> "ready",
                                        attempt |-> @.attempt + 1]]
          /\ UNCHANGED run
     ELSE /\ SetStatus(j, "failed")
          /\ run' = "failed"
  /\ GoTo(j, "idle")
  /\ UNCHANGED <<loop, seen, handles, tidied, provider, faults, crashes>>

(* The last step succeeded: finalizeManagedJob, where the attempt has a     *)
(* handle to be merged.                                                     *)
LastStepEnds(j) ==
  /\ At(j, "exec")
  /\ GoTo(j, IF Scope[j] = "job" THEN "commit" ELSE "seal")
  /\ UNCHANGED <<files, loop, seen, handles, tidied, provider, faults, crashes>>

(* ---------------------------- finalizeManagedJob -------------------------*)

(* commitJob in the attempt's worktree; then integrateJob resolves the HEAD *)
(* it is about to pass on.                                                  *)
CommitJob(j) ==
  /\ At(j, "commit")
  /\ Key(j) \in worktrees
  /\ seen' = [seen EXCEPT ![j] = integrated]
  /\ GoTo(j, "merge")
  /\ UNCHANGED <<files, loop, handles, tidied, provider, faults, crashes>>

(* The attempt is merged into the HEAD that was resolved.                   *)
IntegrateJob(j) ==
  /\ At(j, "merge")
  /\ seen[j] = integrated
  /\ integrated' = integrated \cup {Key(j)}
  /\ GoTo(j, "seal")
  /\ UNCHANGED <<files, loop, seen, handles, tidied, tree, worktrees, base,
                 published, faults, crashes>>

(* Mutant: a conflicted merge goes on to the completion.                    *)
FinalizeIgnored(j) ==
  /\ At(j, "merge")
  /\ GoTo(j, "seal")
  /\ UNCHANGED <<files, loop, seen, handles, tidied, provider, faults, crashes>>

(* Mutant: a failed integration is retried as a failed attempt is.          *)
FinalizeRetried(j) ==
  /\ At(j, "merge")
  /\ Fault
  /\ integrated' = integrated \cup {Key(j)}
  /\ job[j].attempt < MaxAttempts
  /\ job' = [job EXCEPT ![j] = [status |-> "ready", attempt |-> @.attempt + 1]]
  /\ GoTo(j, "idle")
  /\ UNCHANGED <<run, loop, seen, handles, tidied, tree, worktrees, base,
                 published, crashes>>

(* finalizeJobCompletion on a commit or integration that failed, and on a   *)
(* merge conflict, which only a writer outside the engine can cause: the job*)
(* fails, the run is left alone, and no attempt follows.                    *)
FinalizeFails(j) ==
  /\ \/ At(j, "commit") /\ Fault /\ UNCHANGED integrated
     \/ At(j, "merge") /\ UNCHANGED <<faults, integrated>>
     \/ At(j, "merge") /\ Fault /\ seen[j] = integrated
          /\ integrated' = integrated \cup {Key(j)}
  /\ SetStatus(j, "failed")
  /\ GoTo(j, "idle")
  /\ UNCHANGED <<run, loop, seen, handles, tidied, tree, worktrees, base,
                 published, crashes>>

(* transitionCompletedJob; the last job completes the run.                  *)
SealCompleted(j) ==
  /\ At(j, "seal")
  /\ SetStatus(j, "completed")
  /\ run' = IF WithStatus("completed") \cup {j} = Jobs THEN "completed" ELSE run
  /\ GoTo(j, "idle")
  /\ UNCHANGED <<loop, seen, handles, tidied, provider, faults, crashes>>

(* ------------------------------- cleanup ---------------------------------*)

(* Every promise of the batch has settled.                                  *)
BatchSettled ==
  /\ loop = "batch"
  /\ \A j \in Jobs : task[j] = "idle"
  /\ loop' = "tidy"
  /\ UNCHANGED <<files, task, seen, handles, tidied, provider, faults, crashes>>

(* Mutant: the attempts that have failed are cleaned too.                   *)
ReleasableEarly == handles \ tidied

(* The attempts, the failed ones included, of jobs completed in state.json. *)
Releasable == {k \in handles \ tidied : job[k[1]].status = "completed"}

(* The worktrees are cleaned one after the other; a blocked cleanup, or a   *)
(* retention of `retain`, leaves one in place.                              *)
ReleaseWorktrees ==
  /\ loop = "tidy"
  /\ \E C \in SUBSET Releasable :
       /\ worktrees' = worktrees \ C
       /\ tidied' = tidied \cup C
  /\ loop' = "read"
  /\ UNCHANGED <<files, task, seen, handles, tree, base, integrated, published,
                 faults, crashes>>

(* --------------------------- publish and teardown ------------------------*)

(* Only a completed run publishes, and only when its workflow asks for it.  *)
PublishRun ==
  /\ loop = "publish"
  /\ IF Publishes /\ run = "completed" THEN published' = integrated
                                       ELSE UNCHANGED published
  /\ loop' = "teardown"
  /\ UNCHANGED <<files, task, seen, handles, tidied, tree, worktrees, base,
                 integrated, faults, crashes>>

(* Mutant: a failed publish leaves the run completed.                       *)
PublishRunFailsSilently ==
  /\ loop = "publish"
  /\ Publishes /\ run = "completed"
  /\ Fault
  /\ loop' = "teardown"
  /\ UNCHANGED <<files, task, seen, handles, tidied, provider, crashes>>

(* A failed publish fails the run, though the branch may have been pushed.  *)
PublishRunFails ==
  /\ loop = "publish"
  /\ Publishes /\ run = "completed"
  /\ Fault
  /\ published' \in {published, integrated}
  /\ run' = "failed"
  /\ loop' = "teardown"
  /\ UNCHANGED <<job, task, seen, handles, tidied, tree, worktrees, base,
                 integrated, crashes>>

Forget ==
  /\ loop' = "off"
  /\ task' = [j \in Jobs |-> "idle"]
  /\ seen' = [j \in Jobs |-> {}]
  /\ handles' = {}
  /\ tidied' = {}

(* managedWorkspaceTeardown under the default retention: the Run worktree of*)
(* a completed run is cleaned, unless the cleanup is blocked; any other run *)
(* keeps it.                                                                *)
Teardown ==
  /\ loop = "teardown"
  /\ IF run = "completed" THEN tree' \in {"there", "gone"} ELSE UNCHANGED tree
  /\ Forget
  /\ UNCHANGED <<files, worktrees, base, integrated, published, faults, crashes>>

(* The process dies; state.json and the provider's worktrees stay.          *)
Crash ==
  /\ crashes < MaxCrashes
  /\ loop # "off"
  /\ crashes' = crashes + 1
  /\ Forget
  /\ UNCHANGED <<files, provider, faults>>

(* ---------------------------- the specification --------------------------*)

Task(j) ==
  \/ UseWorkspace(j) \/ ResolveHead(j) \/ PrepareJob(j) \/ PrepareJobFails(j)
  \/ Start(j) \/ StepEnds(j) \/ AttemptFails(j) \/ LastStepEnds(j)
  \/ CommitJob(j) \/ IntegrateJob(j) \/ FinalizeFails(j) \/ SealCompleted(j)

Next ==
  \/ PrepareRun \/ Dispatch \/ LoopStop \/ PostLoop
  \/ \E j \in Jobs : Task(j)
  \/ BatchSettled \/ ReleaseWorktrees
  \/ PublishRun \/ PublishRunFails \/ Teardown
  \/ Crash

Spec == Init /\ [][Next]_vars

(* ------------------------------- properties ------------------------------*)

(* Every variable has its type.                                             *)
TypeOK ==
  /\ run \in RunStatus
  /\ job \in [Jobs -> JobRecord]
  /\ loop \in {"off", "read", "batch", "tidy", "post", "publish", "teardown"}
  /\ task \in [Jobs -> {"idle", "resolve", "create", "start", "exec", "commit",
                        "merge", "seal"}]
  /\ seen \in [Jobs -> Head]
  /\ handles \subseteq Attempts
  /\ tidied \subseteq Attempts
  /\ tree \in {"none", "there", "gone"}
  /\ worktrees \subseteq Attempts
  /\ base \in [Attempts -> Head \cup {NotCreated}]
  /\ integrated \subseteq Attempts
  /\ published \subseteq Attempts
  /\ faults \in Nat
  /\ crashes \in Nat

(* A job observed as completed in state.json has its attempt merged into the*)
(* Run worktree (finalizeManagedJob, appendJobCompleted), whatever calls    *)
(* failed, conflicted or lost their answer, and wherever a crash fell.      *)
CompletedIsIntegrated ==
  \A j \in Jobs : job[j].status = "completed" /\ Scope[j] = "job"
                    => Key(j) \in integrated

(* Only the attempt that decides a job enters the Run worktree: work of an  *)
(* attempt that was given up is never merged, not even when the answer of   *)
(* its integration was lost (finalizeJobCompletion starts no new attempt).  *)
OnlyLastAttemptIntegrated ==
  \A k \in integrated : k[2] = job[k[1]].attempt

(* The worktree of an attempt that is being executed or finalized exists:   *)
(* the cleanup after a batch runs only on what state.json holds completed.  *)
ExecutesInWorktree ==
  \A j \in Jobs : task[j] \in {"start", "exec", "commit", "merge"} /\ Scope[j] # "run"
                    => Key(j) \in worktrees

(* The Run worktree is removed only when the run is completed and, in a     *)
(* workflow that publishes, when all that was merged into it has been       *)
(* published (publishRun before the teardown).  Without a publish block, or *)
(* with strategy none, the teardown removes the worktree of a completed run *)
(* all the same, and nothing is claimed of what was merged into it.         *)
ResultsPublished ==
  tree = "gone" => /\ run = "completed"
                   /\ Publishes => integrated \subseteq published

(* A job whose work is in the Run worktree is not failed: after a crash the *)
(* merge is recognised, as engine/index.ts and the integration guide say.   *)
IntegratedNotFailed ==
  \A j \in Jobs : job[j].status = "failed" => Key(j) \notin integrated
=============================================================================
