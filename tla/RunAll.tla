------------------------------- MODULE RunAll -------------------------------
(***************************************************************************)
(* One zigma-flow run driven by runAll (src/engine/runAll.ts): a loop that *)
(* selects a batch of jobs, executes them concurrently, waits until every  *)
(* one has settled, and repeats; then the post-loop passes that conclude   *)
(* the run.  The jobs of a batch are concurrent async tasks of one process *)
(* which share state.json.                                                 *)
(*                                                                         *)
(* An action is what one task does between two awaits that touch the run   *)
(* state: a readSnapshot into the task's local copy (snap), a writeSnapshot*)
(* of a whole local copy, or an updateState, which applies its function to *)
(* the state current at that moment.  The write queue makes each of these  *)
(* atomic; nothing makes a read and the write that follows it atomic.      *)
(***************************************************************************)
EXTENDS Workflow

CONSTANTS
  FailFast,         \* --fail-fast
  ScriptOnFailure,  \* status a failing script step leaves its job in
  AgentErrors,      \* the ways an agent step of this workflow may fail
  SetupErrors,      \* whether a job's workspace or context may fail to build
  MaxIterations,    \* opts.maxIterations (the code's default is 100)
  MayAbort,         \* whether the environment may abort the invocation
  MaxCrashes        \* bound on process crashes, each followed by a resume

ASSUME RunAllAssumption ==
  /\ FailFast \in BOOLEAN
  /\ ScriptOnFailure \in {"failed", "blocked", "continue"}
  /\ AgentErrors \subseteq {"fail", "failReport", "failConfig"}
  /\ SetupErrors \in BOOLEAN
  /\ MaxIterations \in Nat
  /\ MayAbort \in BOOLEAN
  /\ MaxCrashes \in Nat

VARIABLES
  state,     \* state.json
  jobLog,    \* per job, the terminal event types in events.jsonl
  runLog,    \* the terminal run event types in events.jsonl
  loop,      \* where runAll is
  batch,     \* jobsToRun of the current iteration
  task,      \* where each job's task is
  snap,      \* each task's local copy of the state (InitState when unused)
  ctl,       \* jobs whose AbortController fail-fast has aborted
  aborted,   \* the invocation's own signal
  iteration,
  crashes

shared == <<state, jobLog, runLog>>
tasks  == <<task, snap, ctl>>
vars   == <<state, jobLog, runLog, loop, batch, task, snap, ctl,
            aborted, iteration, crashes>>

JobEvent == {"job_completed", "job_failed", "job_blocked", "agent_cancelled"}

RunEvent == {"run_completed", "run_failed", "run_blocked", "run_cancelled"}

EventOf(status) ==
  CASE status = "completed" -> "run_completed"
    [] status = "failed"    -> "run_failed"
    [] status = "blocked"   -> "run_blocked"
    [] status = "cancelled" -> "run_cancelled"

LoopPoint == {"read", "batch", "post", "settle", "reconcile", "done"}

TaskPoint == {"idle", "start", "exec", "begin", "advRead", "advance", "commit",
              "fail", "failReport", "failConfig", "retry", "retryWrite",
              "contRead", "contWrite", "after"}

(* ------------------------------- createRun -------------------------------*)

InitiallyReady == {j \in Jobs : Needs[j] \subseteq Optional}

InitState ==
  [run |-> "none",
   job |-> [j \in Jobs |->
     [status  |-> IF j \in Declared THEN "inactive"
                  ELSE IF j \in InitiallyReady THEN "ready" ELSE "waiting",
      attempt |-> IF j \in InitiallyReady THEN 1 ELSE 0,
      last    |-> IF j \in InitiallyReady THEN "open" ELSE "absent",
      step    |-> 0]]]

Init ==
  /\ state = InitState
  /\ jobLog = [j \in Jobs |-> {}]
  /\ runLog = {}
  /\ loop = "read"
  /\ batch = {}
  /\ task = [j \in Jobs |-> "idle"]
  /\ snap = [j \in Jobs |-> InitState]
  /\ ctl = {}
  /\ aborted = FALSE
  /\ iteration = 0
  /\ crashes = 0

SetJob(s, j, rec) == [s EXCEPT !.job[j] = rec]

SetStatus(s, j, status) == [s EXCEPT !.job[j].status = status]

(* ------------------------------- main loop -------------------------------*)

(* The conditions under which the loop is left before it selects a batch.   *)
LoopStop ==
  /\ loop = "read"
  /\ aborted \/ iteration >= MaxIterations \/ Terminal(state)
  /\ loop' = "post"
  /\ UNCHANGED <<shared, tasks, batch, aborted, iteration, crashes>>

LoopGoesOn ==
  /\ loop = "read"
  /\ ~aborted
  /\ iteration < MaxIterations
  /\ ~Terminal(state)

(* Every job of the batch starts from the state the loop has just read.     *)
Dispatch ==
  /\ LoopGoesOn
  /\ \E B \in Batches(state.job) :
       /\ B # {}
       /\ batch' = B
       /\ task' = [j \in Jobs |-> IF j \in B THEN "start" ELSE "idle"]
  /\ loop' = "batch"
  /\ ctl' = {}
  /\ UNCHANGED <<shared, snap, aborted, iteration, crashes>>

NothingToRun == LoopGoesOn /\ {} \in Batches(state.job)

(* No batch and nothing waiting: a clean exit.                              *)
LoopExitIdle ==
  /\ NothingToRun
  /\ WithStatus(state.job, "waiting") = {}
  /\ loop' = "post"
  /\ UNCHANGED <<shared, tasks, batch, aborted, iteration, crashes>>

(* No batch, jobs waiting, and the job states decide the run.               *)
LoopReconcile ==
  /\ NothingToRun
  /\ WithStatus(state.job, "waiting") # {}
  /\ Reconcile(state.job) # "none"
  /\ runLog' = runLog \cup {EventOf(Reconcile(state.job))}
  /\ state' = [state EXCEPT !.run = Reconcile(state.job)]
  /\ loop' = "post"
  /\ UNCHANGED <<jobLog, tasks, batch, aborted, iteration, crashes>>

(* Mutant: the revived jobs are computed but not written.                   *)
ReviveUnwritten ==
  /\ NothingToRun
  /\ WithStatus(state.job, "waiting") # {}
  /\ Reconcile(state.job) = "none"
  /\ ReadyJobs(state.job) # {}
  /\ UNCHANGED vars

(* No batch, but the needs of a waiting job are met after all.              *)
Revive ==
  /\ NothingToRun
  /\ WithStatus(state.job, "waiting") # {}
  /\ Reconcile(state.job) = "none"
  /\ ReadyJobs(state.job) # {}
  /\ state' = [state EXCEPT !.job = PropagateReadiness(@, ReadyJobs(@))]
  /\ UNCHANGED <<jobLog, runLog, loop, tasks, batch, aborted, iteration, crashes>>

(* Where the loop throws "Engine deadlock detected".                        *)
EngineDeadlock ==
  /\ NothingToRun
  /\ WithStatus(state.job, "waiting") # {}
  /\ Reconcile(state.job) = "none"
  /\ ReadyJobs(state.job) = {}

(* Promise.allSettled has returned.                                         *)
BatchSettled ==
  /\ loop = "batch"
  /\ \A j \in Jobs : task[j] = "idle"
  /\ IF aborted
     THEN /\ loop' = "post"
          /\ state' = [state EXCEPT !.run = "cancelled"]
          /\ runLog' = runLog \cup {"run_cancelled"}
          /\ UNCHANGED iteration
     ELSE /\ loop' = "read"
          /\ iteration' = iteration + 1
          /\ UNCHANGED <<state, runLog>>
  /\ batch' = {}
  /\ ctl' = {}
  /\ UNCHANGED <<jobLog, task, snap, aborted, crashes>>

(* ---------------------------- post-loop passes ---------------------------*)

PostCancel ==
  /\ loop = "post"
  /\ IF aborted /\ state.run # "cancelled"
     THEN /\ state' = [state EXCEPT !.run = "cancelled"]
          /\ runLog' = runLog \cup {"run_cancelled"}
     ELSE UNCHANGED <<state, runLog>>
  /\ loop' = "settle"
  /\ UNCHANGED <<jobLog, tasks, batch, aborted, iteration, crashes>>

(* Waiting jobs with a failed or blocked need become blocked, and the run   *)
(* fails whatever its status was.                                           *)
BlockStuckJobs ==
  /\ loop = "settle"
  /\ LET stuck == IF state.run = "cancelled" THEN {} ELSE StuckJobs(state.job)
     IN  IF stuck # {}
         THEN /\ state' = [run |-> "failed",
                           job |-> [j \in Jobs |->
                             IF j \in stuck
                             THEN [state.job[j] EXCEPT !.status = "blocked"]
                             ELSE state.job[j]]]
              /\ jobLog' = [j \in Jobs |->
                             IF j \in stuck THEN jobLog[j] \cup {"job_blocked"}
                             ELSE jobLog[j]]
              /\ runLog' = IF state.run = "failed" THEN runLog
                           ELSE runLog \cup {"run_failed"}
         ELSE UNCHANGED shared
  /\ loop' = "reconcile"
  /\ UNCHANGED <<tasks, batch, aborted, iteration, crashes>>

(* Mutant: the run is not reconciled after the loop.                        *)
SkipPostReconcile ==
  /\ loop = "reconcile"
  /\ loop' = "done"
  /\ UNCHANGED <<shared, tasks, batch, aborted, iteration, crashes>>

PostReconcile ==
  /\ loop = "reconcile"
  /\ IF ~Terminal(state) /\ Reconcile(state.job) # "none"
     THEN /\ state' = [state EXCEPT !.run = Reconcile(state.job)]
          /\ runLog' = runLog \cup {EventOf(Reconcile(state.job))}
     ELSE UNCHANGED <<state, runLog>>
  /\ loop' = "done"
  /\ UNCHANGED <<jobLog, tasks, batch, aborted, iteration, crashes>>

(* --------------------------- parts of the tasks --------------------------*)

untouched == <<loop, batch, aborted, iteration, crashes>>

At(j, point) == task[j] = point

GoTo(j, point) == task' = [task EXCEPT ![j] = point]

(* The readSnapshot of a task.                                              *)
Read(j) == snap' = [snap EXCEPT ![j] = state]

(* Mutant: any job that settles aborts its peers.                           *)
FinishAlwaysAborts(j, success) ==
  /\ GoTo(j, "idle")
  /\ snap' = [snap EXCEPT ![j] = InitState]
  /\ ctl' = IF FailFast /\ ctl = {} THEN batch \ {j} ELSE ctl

(* The task's promise settles; its first failure aborts the peers when      *)
(* fail-fast is on and the batch has more than one job.                     *)
Finish(j, success) ==
  /\ GoTo(j, "idle")
  /\ snap' = [snap EXCEPT ![j] = InitState]
  /\ ctl' = IF FailFast /\ ~success /\ ctl = {} THEN batch \ {j} ELSE ctl

Interrupted(j) == aborted \/ j \in ctl

(* The job's workspace cannot be provided or resolved, or the context of    *)
(* its agent step not be built: recorded as a configuration error of the    *)
(* job, of either kind, which is still ready unless a crash left it running.*)
StartFails(j) ==
  /\ At(j, "start")
  /\ SetupErrors
  /\ GoTo(j, "failConfig")
  /\ Read(j)
  /\ UNCHANGED <<shared, ctl, untouched>>

(* ------------------------------- agent task ------------------------------*)

(* prompt_generated, then updateState: the job is running.                  *)
AgentStart(j) ==
  /\ At(j, "start") /\ Kind[j] = "agent"
  /\ state' = SetJob(state, j,
       [state.job[j] EXCEPT !.status  = "running",
                            !.step    = IF @ = 0 THEN 1 ELSE @,
                            !.attempt = AttemptOf(state.job[j])])
  /\ GoTo(j, "exec")
  /\ UNCHANGED <<jobLog, runLog, snap, ctl, untouched>>

(* The backend failed, or its report is invalid ("failReport"), or the      *)
(* error is a configuration or permission error ("failConfig");             *)
(* recordAgentFailure begins by reading the state.                          *)
AgentFail(j) ==
  /\ At(j, "exec") /\ Kind[j] = "agent"
  /\ \E error \in AgentErrors :
       /\ error = "fail" => ~Interrupted(j)
       /\ GoTo(j, error)
  /\ Read(j)
  /\ UNCHANGED <<shared, ctl, untouched>>

(* The backend failed and the job's signal is aborted.                      *)
AgentCancelled(j) ==
  /\ At(j, "exec") /\ Kind[j] = "agent"
  /\ Interrupted(j)
  /\ jobLog' = [jobLog EXCEPT ![j] = @ \cup {"agent_cancelled"}]
  /\ runLog' = runLog \cup {"run_cancelled"}
  /\ state' = [state EXCEPT !.run = "cancelled"]
  /\ Finish(j, FALSE)
  /\ UNCHANGED untouched

(* Mutant: the job is completed without its events.                         *)
SucceedUnlogged(j) ==
  /\ At(j, "exec") /\ Kind[j] = "agent"
  /\ GoTo(j, "commit")
  /\ Read(j)
  /\ UNCHANGED <<shared, ctl, untouched>>

(* agent_completed and agent_report_accepted, then advanceJob's read.       *)
AgentSucceed(j) ==
  /\ At(j, "exec") /\ Kind[j] = "agent"
  /\ GoTo(j, "advance")
  /\ Read(j)
  /\ UNCHANGED <<shared, ctl, untouched>>

(* --------------------------- recordAgentFailure --------------------------*)

(* Mutant: only the run is failed.                                          *)
RecordConfigFailureOfRun(j) ==
  /\ At(j, "failConfig")
  /\ state' = [state EXCEPT !.run = "failed"]
  /\ runLog' = runLog \cup {"run_failed"}
  /\ Finish(j, FALSE)
  /\ UNCHANGED <<jobLog, untouched>>

(* Configuration errors fail job and run at once.                           *)
RecordConfigFailure(j) ==
  /\ At(j, "failConfig")
  /\ state' = [SetJob(state, j, [SealFailure(state.job[j]) EXCEPT !.status = "failed"])
                 EXCEPT !.run = "failed"]
  /\ runLog' = runLog \cup {"run_failed"}
  /\ Finish(j, FALSE)
  /\ UNCHANGED <<jobLog, untouched>>

(* Mutant: off by one.                                                      *)
OneAttemptTooMany(j) == AttemptOf(state.job[j]) <= MaxAttempts[j]

AttemptsLeft(j) == AttemptOf(state.job[j]) < MaxAttempts[j]

(* Attempts are left: the job is failed, then handed to retryJob.           *)
RecordRetryableFailure(j) ==
  /\ At(j, "fail") \/ At(j, "failReport")
  /\ AttemptsLeft(j)
  /\ state' = SetStatus(state, j, "failed")
  /\ GoTo(j, "retry")
  /\ UNCHANGED <<jobLog, runLog, snap, ctl, untouched>>

(* The last attempt failed and failure_policy is continue.  Only the backend*)
(* failure path goes on to release the dependents.                          *)
RecordToleratedFailure(j) ==
  LET rec == SealFailure(snap[j].job[j])
  IN  /\ At(j, "fail") \/ At(j, "failReport")
      /\ ~AttemptsLeft(j)
      /\ rec.last # "absent"
      /\ JobConclusion(rec, FailurePolicy[j]) = "success_with_warnings"
      /\ jobLog' = [jobLog EXCEPT ![j] = @ \cup {"job_failed"}]
      /\ state' = SetJob(state, j, [state.job[j] EXCEPT !.status = "failed",
                                                        !.last   = rec.last])
      /\ IF At(j, "fail")
         THEN GoTo(j, "contRead") /\ UNCHANGED <<snap, ctl>>
         ELSE Finish(j, FALSE)
      /\ UNCHANGED <<runLog, untouched>>

(* The last attempt failed: job and run take the same terminal status, and  *)
(* no run event is appended.                                                *)
RecordFinalFailure(j) ==
  LET rec == SealFailure(snap[j].job[j])
      end == TerminalStatus(j, rec)
  IN  /\ At(j, "fail") \/ At(j, "failReport")
      /\ ~AttemptsLeft(j)
      /\ rec.last # "absent"
      /\ JobConclusion(rec, FailurePolicy[j]) # "success_with_warnings"
      /\ jobLog' = [jobLog EXCEPT ![j] = @ \cup
                      {IF end = "failed" THEN "job_failed" ELSE "job_blocked"}]
      /\ state' = [SetJob(state, j, [state.job[j] EXCEPT !.status = end,
                                                         !.last   = rec.last])
                     EXCEPT !.run = end]
      /\ Finish(j, FALSE)
      /\ UNCHANGED <<runLog, untouched>>

(* The job has no attempts array: the fallback fails the run, whatever the  *)
(* failure policy and on_exceeded say.                                      *)
RecordFailureWithoutAttempts(j) ==
  /\ At(j, "fail") \/ At(j, "failReport")
  /\ ~AttemptsLeft(j)
  /\ snap[j].job[j].last = "absent"
  /\ jobLog' = [jobLog EXCEPT ![j] = @ \cup {"job_failed"}]
  /\ state' = [SetStatus(state, j, "failed") EXCEPT !.run = "failed"]
  /\ Finish(j, FALSE)
  /\ UNCHANGED <<runLog, untouched>>

(* executeAgentStep releases the dependents of a tolerated failure.         *)
ContinueRead(j) ==
  /\ At(j, "contRead")
  /\ Read(j)
  /\ GoTo(j, "contWrite")
  /\ UNCHANGED <<shared, ctl, untouched>>

ContinueWrite(j) ==
  /\ At(j, "contWrite")
  /\ state' = [state EXCEPT
                 !.job = PropagateReadiness(@, ReadyJobs(snap[j].job))]
  /\ Finish(j, FALSE)
  /\ UNCHANGED <<jobLog, runLog, untouched>>

(* -------------------------------- retryJob -------------------------------*)

Retryable == {"completed", "failed", "blocked"}

RetryRead(j) ==
  /\ At(j, "retry")
  /\ IF state.job[j].status \in Retryable
     THEN GoTo(j, "retryWrite") /\ Read(j) /\ UNCHANGED ctl
     ELSE Finish(j, FALSE)          \* UserInputError rejects the task
  /\ UNCHANGED <<shared, untouched>>

(* The new attempt, built on the job record as it was read.                 *)
RetryWrite(j) ==
  LET rec == snap[j].job[j]
  IN  /\ At(j, "retryWrite")
      /\ state' = SetJob(state, j, [status  |-> "ready",
                                    attempt |-> AttemptOf(rec) + 1,
                                    last    |-> "open",
                                    step    |-> 0])
      /\ Finish(j, FALSE)
      /\ UNCHANGED <<jobLog, runLog, untouched>>

(* -------------------------- advanceJob, completion -----------------------*)

AdvanceRead(j) ==
  /\ At(j, "advRead")
  /\ Read(j)
  /\ GoTo(j, "advance")
  /\ UNCHANGED <<shared, ctl, untouched>>

(* advanceJob on a job that is already terminal in the state it read.       *)
AdvanceNothing(j) ==
  /\ At(j, "advance")
  /\ snap[j].job[j].status \in {"completed", "failed", "blocked"}
  /\ Finish(j, TRUE)
  /\ UNCHANGED <<shared, untouched>>

StepIndex(rec) == IF rec.step = 0 THEN 1 ELSE rec.step

AdvanceLive(j) ==
  /\ At(j, "advance")
  /\ snap[j].job[j].status \notin {"completed", "failed", "blocked"}

(* The next step: the whole local copy is written with the pointer moved.   *)
AdvanceStep(j) ==
  LET rec == snap[j].job[j]
  IN  /\ AdvanceLive(j)
      /\ StepIndex(rec) < Steps[j]
      /\ state' = SetJob(snap[j], j, [rec EXCEPT !.step = StepIndex(rec) + 1])
      /\ Finish(j, TRUE)
      /\ UNCHANGED <<jobLog, runLog, untouched>>

(* transitionCompletedJob (jobs outside job groups).                        *)
CompleteJob(s, j) ==
  LET done == [s.job EXCEPT
                 ![j] = [SealSuccess(s.job[j]) EXCEPT !.status = "completed",
                                                      !.step   = 0]]
      js   == PropagateReadiness(done, ReadyJobs(done))
  IN  [run |-> IF \A k \in Jobs : js[k].status \in {"completed", "inactive"}
               THEN "completed" ELSE s.run,
       job |-> js]

(* appendJobCompleted appends its events from a preview on the copy it read *)
(* ...                                                                      *)
AppendJobCompleted(j) ==
  /\ AdvanceLive(j)
  /\ StepIndex(snap[j].job[j]) >= Steps[j]
  /\ jobLog' = [jobLog EXCEPT ![j] = @ \cup {"job_completed"}]
  /\ runLog' = IF CompleteJob(snap[j], j).run = "completed"
               THEN runLog \cup {"run_completed"} ELSE runLog
  /\ GoTo(j, "commit")
  /\ UNCHANGED <<state, snap, ctl, untouched>>

(* Mutant: the transition is applied to the copy that was read.             *)
CommitStaleCopy(j) ==
  /\ At(j, "commit")
  /\ state' = CompleteJob(snap[j], j)
  /\ Finish(j, TRUE)
  /\ UNCHANGED <<jobLog, runLog, untouched>>

(* ... and then applies the transition to the state of that moment.         *)
CommitJobCompleted(j) ==
  /\ At(j, "commit")
  /\ state' = CompleteJob(state, j)
  /\ Finish(j, TRUE)
  /\ UNCHANGED <<jobLog, runLog, untouched>>

(* ------------------------------- script task -----------------------------*)

ScriptRead(j) ==
  /\ At(j, "start") /\ Kind[j] = "script"
  /\ Read(j)
  /\ GoTo(j, "begin")
  /\ UNCHANGED <<shared, ctl, untouched>>

(* runningState: the copy with the job running.  It is written now, and is  *)
(* what every later write of the executor starts from.                      *)
RunningState(j) ==
  LET rec == snap[j].job[j]
  IN  SetJob(snap[j], j, [rec EXCEPT !.status  = "running",
                                     !.step    = StepIndex(rec),
                                     !.attempt = AttemptOf(rec)])

ScriptStart(j) ==
  /\ At(j, "begin")
  /\ snap' = [snap EXCEPT ![j] = RunningState(j)]
  /\ state' = RunningState(j)
  /\ GoTo(j, "exec")
  /\ UNCHANGED <<jobLog, runLog, ctl, untouched>>

(* The command succeeded and more steps follow, or it failed under a step   *)
(* failure_policy of continue: runningState is written again.               *)
ScriptStepEnd(j) ==
  /\ At(j, "exec") /\ Kind[j] = "script"
  /\ Steps[j] > StepIndex(snap[j].job[j]) \/ ScriptOnFailure = "continue"
  /\ state' = snap[j]
  /\ GoTo(j, "after")
  /\ UNCHANGED <<jobLog, runLog, snap, ctl, untouched>>

ScriptFinalState(j) ==
  LET done == [snap[j].job EXCEPT ![j].status = "completed"]
      js   == PropagateReadiness(done, ReadyJobs(done))
  IN  [run |-> IF \A k \in Jobs : js[k].status \in {"completed", "inactive"}
               THEN "completed" ELSE snap[j].run,
       job |-> js]

(* The command of the last step succeeded.                                  *)
ScriptComplete(j) ==
  /\ At(j, "exec") /\ Kind[j] = "script"
  /\ Steps[j] = StepIndex(snap[j].job[j])
  /\ jobLog' = [jobLog EXCEPT ![j] = @ \cup {"job_completed"}]
  /\ state' = ScriptFinalState(j)
  /\ runLog' = IF ScriptFinalState(j).run = "completed"
               THEN runLog \cup {"run_completed"} ELSE runLog
  /\ GoTo(j, "after")
  /\ UNCHANGED <<snap, ctl, untouched>>

(* The command failed; on_failure may turn the status into blocked.         *)
ScriptFail(j) ==
  /\ At(j, "exec") /\ Kind[j] = "script"
  /\ ScriptOnFailure # "continue"
  /\ state' = SetStatus(snap[j], j, ScriptOnFailure)
  /\ GoTo(j, "after")
  /\ UNCHANGED <<jobLog, runLog, snap, ctl, untouched>>

(* executeNonAgentStep reads again and advances a job still running; it     *)
(* reports success whatever the script did.                                 *)
ScriptAfter(j) ==
  /\ At(j, "after")
  /\ IF state.job[j].status = "running"
     THEN GoTo(j, "advRead") /\ UNCHANGED <<snap, ctl>>
     ELSE Finish(j, TRUE)
  /\ UNCHANGED <<shared, untouched>>

(* ------------------------------ environment ------------------------------*)

(* SIGINT, or the Core's cancellation.                                      *)
Abort ==
  /\ MayAbort
  /\ loop \in {"read", "batch"}
  /\ ~aborted
  /\ aborted' = TRUE
  /\ UNCHANGED <<shared, tasks, loop, batch, iteration, crashes>>

(* The process dies at any point and the run is resumed: the files stay.    *)
Crash ==
  /\ crashes < MaxCrashes
  /\ loop # "done"
  /\ crashes' = crashes + 1
  /\ loop' = "read"
  /\ batch' = {}
  /\ task' = [j \in Jobs |-> "idle"]
  /\ snap' = [j \in Jobs |-> InitState]
  /\ ctl' = {}
  /\ aborted' = FALSE
  /\ iteration' = 0
  /\ UNCHANGED shared

(* ---------------------------- the specification --------------------------*)

MainLoop ==
  \/ LoopStop \/ Dispatch \/ LoopExitIdle \/ LoopReconcile \/ Revive
  \/ BatchSettled \/ PostCancel \/ BlockStuckJobs \/ PostReconcile

(* An agent's step, and the configuration errors of either kind of job.     *)
AgentTask(j) ==
  \/ StartFails(j) \/ AgentStart(j) \/ AgentFail(j) \/ AgentCancelled(j) \/ AgentSucceed(j)
  \/ RecordConfigFailure(j) \/ RecordRetryableFailure(j)
  \/ RecordToleratedFailure(j) \/ RecordFinalFailure(j)
  \/ RecordFailureWithoutAttempts(j)
  \/ ContinueRead(j) \/ ContinueWrite(j) \/ RetryRead(j) \/ RetryWrite(j)

AdvanceTask(j) ==
  \/ AdvanceRead(j) \/ AdvanceNothing(j) \/ AdvanceStep(j)
  \/ AppendJobCompleted(j) \/ CommitJobCompleted(j)

ScriptTask(j) ==
  \/ ScriptRead(j) \/ ScriptStart(j) \/ ScriptStepEnd(j) \/ ScriptComplete(j)
  \/ ScriptFail(j) \/ ScriptAfter(j)

Task(j) == AgentTask(j) \/ AdvanceTask(j) \/ ScriptTask(j)

(* The invocation has returned.                                             *)
Returned == loop = "done" /\ UNCHANGED vars

Next ==
  \/ MainLoop
  \/ \E j \in Jobs : Task(j)
  \/ Abort
  \/ Crash
  \/ Returned

Spec == Init /\ [][Next]_vars

(* The event loop runs every settled promise, and an agent, a script or the *)
(* run as a whole is under a timeout: no task waits for ever.               *)
FairSpec ==
  /\ Spec
  /\ WF_vars(MainLoop)
  /\ \A j \in Jobs : WF_vars(Task(j))

(* ------------------------------- properties ------------------------------*)

(* Every variable has its type; state.json is a well-formed run state.      *)
TypeOK ==
  /\ state \in RunState
  /\ jobLog \in [Jobs -> SUBSET JobEvent]
  /\ runLog \subseteq RunEvent
  /\ loop \in LoopPoint
  /\ batch \subseteq Jobs
  /\ task \in [Jobs -> TaskPoint]
  /\ snap \in [Jobs -> RunState]
  /\ ctl \subseteq Jobs
  /\ aborted \in BOOLEAN
  /\ iteration \in Nat
  /\ crashes \in Nat

Executing == {j \in Jobs : task[j] # "idle"}

(* At most one writable job executes at any time, in every interleaving of  *)
(* the tasks, across batches, crashes and resumes (scheduler, AD-P14-002).  *)
OneWritableExecutes ==
  \A j, k \in Executing \cap Writable : j = k

RunningWritable(s) == WithStatus(s.job, "running") \cap Writable

(* In s at most one writable job runs, and if the batch has a writable job  *)
(* it is that one.                                                          *)
SingleWriter(s) ==
  \A w \in RunningWritable(s) :
    \A k \in RunningWritable(s) \cup (batch \cap Writable) : k = w

(* Why one writable job executes at a time (the inductive invariant): only  *)
(* jobs of the batch execute, the batch holds at most one writable job, and *)
(* no copy of the state, on disk or in a task, shows any other writable job *)
(* running; so no stale copy a task writes back can mislead the scheduler.  *)
WritableSerialized ==
  /\ Executing \subseteq batch
  /\ loop # "batch" => batch = {}
  /\ \A j \in Jobs : task[j] = "idle" => snap[j] = InitState
  /\ \A j, k \in batch \cap Writable : j = k
  /\ SingleWriter(state)
  /\ \A j \in Jobs : SingleWriter(snap[j])

(* A job executes only while the needs its workflow does not tolerate the   *)
(* loss of are completed or optional, whatever its peers, retries, a crash  *)
(* and a resume do.  Needs under failure_policy continue are left out: the  *)
(* code runs the dependents of such a failed job (computeReadyJobs), which  *)
(* docs/workflow-language.md:900 says are blocked.                          *)
NeedsMetWhileExecuting ==
  \A j \in Executing : \A d \in Needs[j] :
    FailurePolicy[d] # "continue" =>
      d \in Optional \/ state.job[d].status = "completed"

(* What a job has completed stays completed: no peer's write of an older    *)
(* state takes it back (updateState merges into the current state).         *)
CompletedStaysCompleted ==
  [][\A j \in Jobs : state.job[j].status = "completed"
                        => state'.job[j].status = "completed"]_vars

(* Every job goes through its lifecycle, unless an old copy of the state is *)
(* written back over a peer's (CompletedStaysCompleted): whatever peers,    *)
(* retries, crashes and resumes do, no write takes a job anywhere else, nor *)
(* its attempt back or beyond retry.max_attempts, and what is released has  *)
(* its needs met.                                                           *)
JobLife == [j \in Jobs |-> [status  |-> state.job[j].status,
                            attempt |-> AttemptOf(state.job[j])]]

Life == INSTANCE Lifecycle WITH life <- JobLife

ImplementsLifecycle == Life!LifeSpec

(* The run's verdict agrees with the jobs: completed means that every job   *)
(* is settled; failed or blocked means that some job failed or is blocked.  *)
VerdictMatchesJobs ==
  /\ state.run = "completed" => \A j \in Jobs : Settled(state.job, j)
  /\ state.run \in {"failed", "blocked"} =>
       \E j \in Jobs : state.job[j].status \in {"failed", "blocked"}

(* Events come before state: a job completed in state.json has its          *)
(* job_completed event (appendJobCompleted, executeScriptStep).  And the    *)
(* run_completed of a preview, or of a reconciliation, is never too early:  *)
(* every job then has its job_completed, or has failed and is tolerated.    *)
CompletionLogged ==
  /\ \A j \in Jobs : state.job[j].status = "completed"
                        => "job_completed" \in jobLog[j]
  /\ "run_completed" \in runLog =>
       \A j \in Jobs : "job_completed" \in jobLog[j] \/ Settled(state.job, j)

(* The loop never reaches its "Engine deadlock detected" error: a waiting   *)
(* job is decided by the reconciliation or revived.                         *)
NoEngineDeadlock == ~EngineDeadlock

(* When the invocation returns, the run has a terminal status.              *)
ReturnsWithVerdict == loop = "done" => Terminal(state)

(* An agent is cancelled only by the invocation's abort or because a peer   *)
(* failed (--fail-fast); never by its own failure or by a peer's success.   *)
(* A crash forgets which of the two it was.                                 *)
CancelledForAReason ==
  \A j \in Jobs : "agent_cancelled" \in jobLog[j] /\ ~aborted /\ crashes = 0 =>
    \E k \in Jobs \ {j} :
       state.job[k].status \in {"failed", "blocked"} \/ state.job[k].attempt > 1

(* Every invocation returns, whatever its tasks do and however often it is  *)
(* killed and resumed (up to the bound).                                    *)
InvocationReturns == <>(loop = "done")
=============================================================================
