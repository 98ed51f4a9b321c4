------------------------------ MODULE Workflow ------------------------------
(***************************************************************************)
(* A zigma-flow workflow definition and the pure functions the engine      *)
(* computes over it: which jobs are ready (src/dag), which of them the     *)
(* scheduler puts into the next batch (src/engine/scheduler.ts), and which *)
(* terminal status the run has earned (reconcileTerminalState).            *)
(*                                                                         *)
(* A job is a model value.  Its definition is spread over the constants    *)
(* below; `js` always names the jobs map of a run state.                   *)
(***************************************************************************)
EXTENDS Integers, FiniteSets

CONSTANTS
  Jobs,            \* the keys of wf.jobs
  Needs,           \* Needs[j]: the job ids in j's `needs`
  Activation,      \* Activation[j]: "none", "required" or "optional" (also manual)
  FailurePolicy,   \* FailurePolicy[j]: "fail", "continue" or "block"
  ReadOnly,        \* jobs with `workspace.mode: read-only`
  QueueGroup,      \* QueueGroup[j]: concurrency group of policy `queue`, or NoGroup
  NoGroup,
  MaxAttempts,     \* MaxAttempts[j]: retry.max_attempts (1 when absent)
  OnExceeded,      \* OnExceeded[j]: retry.on_exceeded.status ("blocked" when absent)
  Steps,           \* Steps[j]: number of steps of j
  Kind,            \* Kind[j]: step type of j's steps, "agent" or "script"
  Parallelism      \* --parallelism clamped to >= 1; 0 stands for NaN (see Slots)

ASSUME WorkflowAssumption ==
  /\ IsFiniteSet(Jobs)
  /\ Needs \in [Jobs -> SUBSET Jobs]
  /\ Activation \in [Jobs -> {"none", "required", "optional"}]
  /\ FailurePolicy \in [Jobs -> {"fail", "continue", "block"}]
  /\ ReadOnly \subseteq Jobs
  /\ MaxAttempts \in [Jobs -> Nat \ {0}]
  /\ OnExceeded \in [Jobs -> {"blocked", "failed"}]
  /\ Steps \in [Jobs -> Nat \ {0}]
  /\ Kind \in [Jobs -> {"agent", "script"}]
  /\ Parallelism \in Nat

(* detectCycles rejects a workflow whose needs are cyclic; what it leaves   *)
(* can be ranked, so that every job comes after the jobs it needs.          *)
ASSUME AcyclicAssumption ==
  \E rank \in [Jobs -> 0..Cardinality(Jobs)] :
    \A j \in Jobs : \A d \in Needs[j] : rank[d] < rank[j]

JobStatus == {"ready", "waiting", "inactive", "running",
              "completed", "failed", "blocked"}

RunStatus == {"none", "running", "paused",
              "completed", "failed", "blocked", "cancelled"}

TerminalRun == {"completed", "failed", "blocked", "cancelled"}

(* One job of state.json.  attempt = 0 and step = 0 stand for absent        *)
(* fields; last is the status of the last entry of `attempts`: "open" while *)
(* it is not sealed, "absent" when the array is missing.                    *)
JobRecord == [status  : JobStatus,
              attempt : Nat,
              last    : {"absent", "open", "failure", "success"},
              step    : Nat]

JobsMap == [Jobs -> JobRecord]

RunState == [run : RunStatus, job : JobsMap]

(* Jobs with any `activation`, and those whose activation may stay away.    *)
Declared == {j \in Jobs : Activation[j] # "none"}

Optional == {j \in Jobs : Activation[j] = "optional"}

WithStatus(js, s) == {j \in Jobs : js[j].status = s}

Terminal(s) == s.run \in TerminalRun

AttemptOf(rec) == IF rec.attempt = 0 THEN 1 ELSE rec.attempt

(* ----------------------------- src/dag ----------------------------------*)
(* Mutant: a tolerated failure is not a met need.                           *)
NeedMetStrictly(js, d) == js[d].status = "completed" \/ d \in Optional

(* What computeReadyJobs accepts as a met need.                             *)
NeedMet(js, d) ==
  \/ js[d].status = "completed"
  \/ d \in Optional
  \/ js[d].status = "failed" /\ FailurePolicy[d] = "continue"

(* Mutant: one met need is enough.                                          *)
ReadyOnAnyNeed(js) ==
  {j \in WithStatus(js, "waiting") :
     Needs[j] = {} \/ \E d \in Needs[j] : NeedMet(js, d)}

(* computeReadyJobs as every caller uses it: the active jobs are the ones   *)
(* that are neither completed nor waiting, and the result is filtered to    *)
(* the jobs still waiting.                                                  *)
ReadyJobs(js) ==
  {j \in WithStatus(js, "waiting") : \A d \in Needs[j] : NeedMet(js, d)}

PropagateReadiness(js, ready) ==
  [j \in Jobs |->
     IF j \in ready /\ js[j].status = "waiting"
     THEN [js[j] EXCEPT !.status = "ready"]
     ELSE js[j]]

(* ------------------------ src/engine/scheduler.ts ------------------------*)

Writable == Jobs \ ReadOnly

(* The read-only slots that are free.  With Parallelism = 0 (NaN, what      *)
(* parseInt makes of a malformed --parallelism, which Math.max(1, NaN) does *)
(* not clamp) no comparison of selectExecutable succeeds: no slot is free.  *)
Slots(js) ==
  LET busy == Cardinality(WithStatus(js, "running") \cap ReadOnly)
  IN  IF Parallelism > busy THEN Parallelism - busy ELSE 0

HeldByQueue(js, j) ==
  /\ QueueGroup[j] # NoGroup
  /\ \E k \in WithStatus(js, "running") : QueueGroup[k] = QueueGroup[j]

(* The jobs selectExecutable considers.                                     *)
Candidates(js) == {j \in WithStatus(js, "ready") : ~HeldByQueue(js, j)}

(* Mutant: every ready writable job is taken.                               *)
SelectAllWritable(js) ==
  {B \in SUBSET Candidates(js) :
     /\ Cardinality(B \cap ReadOnly) =< Slots(js)
     /\ B \cap Writable = Candidates(js) \cap Writable}

(* The batches selectExecutable may return.  It takes candidates in the     *)
(* order of the jobs map; the model allows every order.                     *)
SelectExecutable(js) ==
  {B \in SUBSET Candidates(js) :
     LET ro == B \cap ReadOnly
         wr == B \cap Writable
         roReady == Candidates(js) \cap ReadOnly
         wrReady == Candidates(js) \cap Writable
     IN  /\ Cardinality(ro) = IF Cardinality(roReady) < Slots(js)
                              THEN Cardinality(roReady) ELSE Slots(js)
         /\ IF /\ Slots(js) > Cardinality(ro)
               /\ WithStatus(js, "running") \cap Writable = {}
               /\ wrReady # {}
            THEN \E w \in wrReady : wr = {w}
            ELSE wr = {}}

(* The batch of a loop iteration: the scheduler's, else every running job   *)
(* (multi-step continuation, and what a crash left running), else every     *)
(* ready job (the "missed ready" fallback).                                 *)
Batches(js) ==
  IF {} \notin SelectExecutable(js) THEN SelectExecutable(js)
  ELSE IF WithStatus(js, "running") # {} THEN {WithStatus(js, "running")}
  ELSE {WithStatus(js, "ready")}

(* ------------------ src/engine/runAll.ts, run conclusion -----------------*)

(* An explicit `activation: required` does not count as required.           *)
Required == Jobs \ Declared

CriticalFailure(js, j) == js[j].status = "failed" /\ FailurePolicy[j] # "continue"

Settled(js, j) ==
  \/ js[j].status \in {"inactive", "completed"}
  \/ js[j].status = "failed" /\ FailurePolicy[j] = "continue"

(* reconcileTerminalState; "none" is its null.                              *)
Reconcile(js) ==
  IF Required = {} THEN "none"
  ELSE IF \E j \in Required : CriticalFailure(js, j) THEN "failed"
  ELSE IF \E j \in Required : js[j].status = "blocked" THEN "blocked"
  ELSE IF /\ \A j \in Jobs : Settled(js, j)
          /\ WithStatus(js, "completed") # {}
       THEN "completed"
  ELSE "none"

(* The waiting jobs the post-loop pass declares blocked.                    *)
StuckJobs(js) ==
  {j \in WithStatus(js, "waiting") :
     \E d \in Needs[j] : js[d].status = "blocked" \/ CriticalFailure(js, d)}

(* ------------------ attempts (attemptModel, outcomeModel) ----------------*)

(* Mutant: the attempt takes the status of its job.                         *)
SealWithStatus(rec) ==
  IF rec.last = "open" THEN [rec EXCEPT !.last = "failed"] ELSE rec

SealFailure(rec) ==
  IF rec.last = "open" THEN [rec EXCEPT !.last = "failure"] ELSE rec

SealSuccess(rec) ==
  IF rec.last = "open" THEN [rec EXCEPT !.last = "success"] ELSE rec

(* computeJobConclusion over the sealed attempts of a job whose last one    *)
(* just failed.  An earlier success ends the job, so the attempts before    *)
(* the last are failures.                                                   *)
JobConclusion(rec, policy) ==
  IF rec.last = "success" THEN "success"
  ELSE CASE policy = "fail"     -> "failure"
         [] policy = "continue" -> "success_with_warnings"
         [] policy = "block"    -> "blocked"

(* The status a job ends in when its attempts are used up.                  *)
TerminalStatus(j, rec) ==
  IF JobConclusion(rec, FailurePolicy[j]) = "blocked" THEN "blocked"
  ELSE OnExceeded[j]
=============================================================================
