---------------------------- MODULE RunAllProofs ----------------------------
(***************************************************************************)
(* Proofs about RunAll, for every workflow and every number of jobs: the   *)
(* state stays well formed, at most one writable job ever executes, the    *)
(* loop does not reach its "Engine deadlock detected" error, and no        *)
(* invocation returns without a verdict.  Then, for runs of one-step       *)
(* agents and for runs that execute one job at a time: completed jobs stay *)
(* so, the attempts are bounded, the verdict is that of the jobs, the      *)
(* events come first, only a peer or the user cancels a job, needs stay    *)
(* met, and the run implements the lifecycle of its jobs.                  *)
(***************************************************************************)
EXTENDS RunAll, FiniteSetTheorems, WellFoundedInduction, TLAPS

(* t comes from s by writing: whatever runs in t runs in s, except j; no    *)
(* job has become inactive, and none but j has been activated.              *)
Derived(t, s, j) ==
  /\ t \in RunState
  /\ \A k \in Jobs :
       /\ t.job[k].status = "running" => s.job[k].status = "running" \/ k = j
       /\ t.job[k].status = "inactive" => s.job[k].status = "inactive"
       /\ s.job[k].status = "inactive" => t.job[k].status = "inactive" \/ k = j

(* ------------------------- typing of the operators -----------------------*)

(* Writing one well-formed job record keeps the state well formed and       *)
(* leaves every other job alone.                                            *)
LEMMA SetJobType ==
  ASSUME NEW s \in RunState, NEW j \in Jobs, NEW rec \in JobRecord
  PROVE  /\ SetJob(s, j, rec) \in RunState
         /\ SetJob(s, j, rec).run = s.run
         /\ SetJob(s, j, rec).job[j] = rec
         /\ \A k \in Jobs \ {j} : SetJob(s, j, rec).job[k] = s.job[k]
  BY DEF SetJob, RunState, JobsMap

(* SetStatus is SetJob of the same record with another status.              *)
LEMMA SetStatusType ==
  ASSUME NEW s \in RunState, NEW j \in Jobs, NEW st \in JobStatus
  PROVE  /\ SetStatus(s, j, st) \in RunState
         /\ SetStatus(s, j, st).run = s.run
         /\ SetStatus(s, j, st).job[j].status = st
         /\ \A k \in Jobs \ {j} : SetStatus(s, j, st).job[k] = s.job[k]
  BY DEF SetStatus, RunState, JobsMap, JobRecord

(* Changing the run status leaves the jobs alone.                           *)
LEMMA SetRunType ==
  ASSUME NEW s \in RunState, NEW r \in RunStatus
  PROVE  /\ [s EXCEPT !.run = r] \in RunState
         /\ [s EXCEPT !.run = r].job = s.job
  BY DEF RunState

(* Propagating readiness only turns waiting jobs into ready ones.           *)
LEMMA PropagateType ==
  ASSUME NEW js \in JobsMap, NEW R
  PROVE  /\ PropagateReadiness(js, R) \in JobsMap
         /\ \A k \in Jobs :
              /\ PropagateReadiness(js, R)[k].status = "running"
                   => js[k].status = "running"
              /\ PropagateReadiness(js, R)[k].status = "inactive"
                   <=> js[k].status = "inactive"
  BY DEF PropagateReadiness, JobsMap, JobRecord, JobStatus

(* The parts of a run state, and of a job record.                           *)
LEMMA Parts ==
  /\ \A s \in RunState : s.run \in RunStatus /\ s.job \in JobsMap
  /\ \A s \in RunState : \A j \in Jobs : s.job[j] \in JobRecord
  /\ \A js \in JobsMap : \A j \in Jobs : js[j] \in JobRecord
  BY DEF RunState, JobsMap

(* Sealing an attempt, and the numbers derived from a record.               *)
LEMMA RecordType ==
  ASSUME NEW rec \in JobRecord
  PROVE  /\ SealFailure(rec) \in JobRecord
         /\ SealSuccess(rec) \in JobRecord
         /\ SealFailure(rec).status = rec.status
         /\ SealSuccess(rec).status = rec.status
         /\ AttemptOf(rec) \in Nat \ {0}
         /\ StepIndex(rec) \in Nat \ {0}
  BY DEF SealFailure, SealSuccess, AttemptOf, StepIndex, JobRecord

(* The initial state is well formed and nothing runs in it.                 *)
LEMMA InitStateType ==
  /\ InitState \in RunState
  /\ \A j \in Jobs : InitState.job[j].status # "running"
  BY DEF InitState, RunState, RunStatus, JobsMap, JobRecord, JobStatus

(* Completing a job makes nothing run.                                      *)
LEMMA CompleteJobType ==
  ASSUME NEW s \in RunState, NEW j \in Jobs
  PROVE  Derived(CompleteJob(s, j), s, j)
  <1> DEFINE done == [s.job EXCEPT
                 ![j] = [SealSuccess(s.job[j]) EXCEPT !.status = "completed",
                                                      !.step   = 0]]
             js == PropagateReadiness(done, ReadyJobs(done))
  <1>1. SealSuccess(s.job[j]) \in JobRecord
    BY Parts, RecordType
  <1>2. [SealSuccess(s.job[j]) EXCEPT !.status = "completed", !.step = 0] \in JobRecord
    BY <1>1 DEF JobRecord, JobStatus
  <1>3. done \in JobsMap
    BY <1>2, Parts DEF JobsMap
  <1>4. \A k \in Jobs :
          /\ done[k].status = "running" => s.job[k].status = "running"
          /\ done[k].status = "inactive" => s.job[k].status = "inactive"
          /\ s.job[k].status = "inactive" => done[k].status = "inactive" \/ k = j
    BY <1>1, Parts DEF JobsMap, JobRecord
  <1> HIDE DEF done
  <1>5. /\ js \in JobsMap
        /\ \A k \in Jobs : /\ js[k].status = "running" => done[k].status = "running"
                           /\ js[k].status = "inactive" <=> done[k].status = "inactive"
    BY <1>3, PropagateType
  <1> HIDE DEF js
  <1>6. CompleteJob(s, j) =
          [run |-> IF \A k \in Jobs : js[k].status \in {"completed", "inactive"}
                   THEN "completed" ELSE s.run,
           job |-> js]
    BY DEF CompleteJob, done, js
  <1>7. /\ CompleteJob(s, j) \in RunState
        /\ CompleteJob(s, j).job = js
    BY <1>5, <1>6, Parts DEF RunState, RunStatus
  <1> QED BY <1>4, <1>5, <1>7 DEF Derived

(* A script's final state makes nothing run.                                *)
LEMMA ScriptFinalType ==
  ASSUME TypeOK, NEW j \in Jobs
  PROVE  Derived(ScriptFinalState(j), snap[j], j)
  <1> DEFINE done == [snap[j].job EXCEPT ![j].status = "completed"]
             js == PropagateReadiness(done, ReadyJobs(done))
  <1>1. snap[j] \in RunState
    BY DEF TypeOK
  <1>2. done \in JobsMap
    BY <1>1, Parts DEF JobsMap, JobRecord, JobStatus
  <1>3. \A k \in Jobs :
          /\ done[k].status = "running" => snap[j].job[k].status = "running"
          /\ done[k].status = "inactive" => snap[j].job[k].status = "inactive"
          /\ snap[j].job[k].status = "inactive" => done[k].status = "inactive" \/ k = j
    BY <1>1, Parts DEF JobsMap, JobRecord
  <1> HIDE DEF done
  <1>4. /\ js \in JobsMap
        /\ \A k \in Jobs : /\ js[k].status = "running" => done[k].status = "running"
                           /\ js[k].status = "inactive" <=> done[k].status = "inactive"
    BY <1>2, PropagateType
  <1> HIDE DEF js
  <1>5. ScriptFinalState(j) =
          [run |-> IF \A k \in Jobs : js[k].status \in {"completed", "inactive"}
                   THEN "completed" ELSE snap[j].run,
           job |-> js]
    BY DEF ScriptFinalState, done, js
  <1>6. /\ ScriptFinalState(j) \in RunState
        /\ ScriptFinalState(j).job = js
    BY <1>1, <1>4, <1>5, Parts DEF RunState, RunStatus
  <1> QED BY <1>3, <1>4, <1>6 DEF Derived

(* runningState makes only the script's own job run.                        *)
LEMMA RunningStateType ==
  ASSUME TypeOK, NEW j \in Jobs
  PROVE  Derived(RunningState(j), snap[j], j)
  <1> DEFINE rec == snap[j].job[j]
             new == [rec EXCEPT !.status  = "running",
                                !.step    = StepIndex(rec),
                                !.attempt = AttemptOf(rec)]
  <1>1. snap[j] \in RunState /\ rec \in JobRecord
    BY Parts DEF TypeOK
  <1>2. new \in JobRecord /\ new.status = "running"
    BY <1>1, RecordType DEF JobRecord, JobStatus
  <1>3. RunningState(j) = SetJob(snap[j], j, new)
    BY DEF RunningState
  <1> HIDE DEF new
  <1> QED BY <1>1, <1>2, <1>3, SetJobType DEF Derived

(* ------------------------- what a task step writes -----------------------*)

(* A state is derived from itself.                                          *)
LEMMA DerivedSelf ==
  ASSUME NEW s \in RunState, NEW j \in Jobs
  PROVE  Derived(s, s, j)
  BY DEF Derived

(* A state with one job record rewritten is derived from the state.         *)
LEMMA DerivedJob ==
  ASSUME NEW s \in RunState, NEW j \in Jobs, NEW rec \in JobRecord,
         rec.status = "inactive" => s.job[j].status = "inactive"
  PROVE  Derived(SetJob(s, j, rec), s, j)
  <1>1. /\ SetJob(s, j, rec) \in RunState
        /\ SetJob(s, j, rec).job[j] = rec
        /\ \A k \in Jobs \ {j} : SetJob(s, j, rec).job[k] = s.job[k]
    BY SetJobType
  <1> QED BY <1>1 DEF Derived

(* The same for an active job's record and the run status.                  *)
LEMMA DerivedSet ==
  ASSUME NEW s \in RunState, NEW j \in Jobs, NEW rec \in JobRecord,
         rec.status # "inactive", NEW r \in RunStatus
  PROVE  /\ Derived(SetJob(s, j, rec), s, j)
         /\ Derived([SetJob(s, j, rec) EXCEPT !.run = r], s, j)
  <1>1. /\ SetJob(s, j, rec) \in RunState
        /\ SetJob(s, j, rec).job[j] = rec
        /\ \A k \in Jobs \ {j} : SetJob(s, j, rec).job[k] = s.job[k]
    BY SetJobType
  <1>2. /\ [SetJob(s, j, rec) EXCEPT !.run = r] \in RunState
        /\ [SetJob(s, j, rec) EXCEPT !.run = r].job = SetJob(s, j, rec).job
    BY <1>1, SetRunType
  <1> QED BY <1>1, <1>2 DEF Derived

(* The same for the run status alone.                                       *)
LEMMA DerivedRun ==
  ASSUME NEW s \in RunState, NEW j \in Jobs, NEW r \in RunStatus
  PROVE  Derived([s EXCEPT !.run = r], s, j)
  BY SetRunType DEF Derived

(* The same for SetStatus.                                                  *)
LEMMA DerivedStatus ==
  ASSUME NEW s \in RunState, NEW j \in Jobs, NEW st \in JobStatus \ {"inactive"},
         NEW r \in RunStatus
  PROVE  /\ Derived(SetStatus(s, j, st), s, j)
         /\ Derived([SetStatus(s, j, st) EXCEPT !.run = r], s, j)
  <1>1. /\ SetStatus(s, j, st) \in RunState
        /\ SetStatus(s, j, st).job[j].status = st
        /\ \A k \in Jobs \ {j} : SetStatus(s, j, st).job[k] = s.job[k]
    BY SetStatusType
  <1>2. /\ [SetStatus(s, j, st) EXCEPT !.run = r] \in RunState
        /\ [SetStatus(s, j, st) EXCEPT !.run = r].job = SetStatus(s, j, st).job
    BY <1>1, SetRunType
  <1> QED BY <1>1, <1>2 DEF Derived

(* Releasing ready jobs of a state.                                         *)
LEMMA DerivedPropagate ==
  ASSUME NEW s \in RunState, NEW j \in Jobs, NEW R
  PROVE  Derived([s EXCEPT !.job = PropagateReadiness(@, R)], s, j)
  BY PropagateType, Parts DEF Derived, RunState

(* What an agent task writes is derived from the state, or it writes        *)
(* nothing.                                                                 *)
LEMMA AgentWrites ==
  ASSUME TypeOK, NEW j \in Jobs, AgentTask(j)
  PROVE  Derived(state', state, j)
  <1> DEFINE rec == state.job[j]
             old == snap[j].job[j]
  <1>0. /\ state \in RunState /\ snap[j] \in RunState
        /\ rec \in JobRecord /\ old \in JobRecord
        /\ rec.attempt \in Nat /\ rec.step \in Nat
    BY Parts DEF TypeOK, JobRecord
  <1>1. CASE AgentStart(j)
    <2> DEFINE new == [rec EXCEPT !.status  = "running",
                                  !.step    = IF @ = 0 THEN 1 ELSE @,
                                  !.attempt = AttemptOf(state.job[j])]
    <2>1. new \in JobRecord /\ new.status # "inactive"
      BY <1>0, RecordType DEF JobRecord, JobStatus
    <2>2. state' = SetJob(state, j, new)
      BY <1>1 DEF AgentStart
    <2> HIDE DEF new
    <2> QED BY <1>0, <2>1, <2>2, DerivedJob
  <1>2. CASE \/ StartFails(j) \/ AgentFail(j) \/ AgentSucceed(j) \/ ContinueRead(j)
             \/ RetryRead(j)
    <2>1. state' = state
      BY <1>2 DEF StartFails, AgentFail, AgentSucceed, ContinueRead, RetryRead, shared
    <2> QED BY <1>0, <2>1, DerivedSelf
  <1>3. CASE AgentCancelled(j)
    BY <1>0, <1>3, DerivedRun DEF AgentCancelled, RunStatus
  <1>4. CASE RecordConfigFailure(j)
    <2> DEFINE new == [SealFailure(rec) EXCEPT !.status = "failed"]
    <2>1. new \in JobRecord /\ new.status # "inactive"
      BY <1>0, RecordType DEF JobRecord, JobStatus
    <2>2. state' = [SetJob(state, j, new) EXCEPT !.run = "failed"]
      BY <1>4 DEF RecordConfigFailure
    <2> HIDE DEF new
    <2> QED BY <1>0, <2>1, <2>2, DerivedSet DEF RunStatus
  <1>5. CASE RecordRetryableFailure(j)
    BY <1>0, <1>5, DerivedStatus DEF RecordRetryableFailure, JobStatus, RunStatus
  <1>6. CASE RecordToleratedFailure(j)
    <2> DEFINE new == [rec EXCEPT !.status = "failed", !.last = SealFailure(old).last]
    <2>1. new \in JobRecord /\ new.status # "inactive"
      BY <1>0, RecordType DEF JobRecord, JobStatus
    <2>2. state' = SetJob(state, j, new)
      BY <1>6 DEF RecordToleratedFailure
    <2> HIDE DEF new
    <2> QED BY <1>0, <2>1, <2>2, DerivedJob
  <1>7. CASE RecordFinalFailure(j)
    <2> DEFINE end == TerminalStatus(j, SealFailure(old))
               new == [rec EXCEPT !.status = end, !.last = SealFailure(old).last]
    <2>1. end \in {"failed", "blocked"}
      BY WorkflowAssumption DEF TerminalStatus
    <2>2. new \in JobRecord /\ new.status # "inactive"
      BY <1>0, <2>1, RecordType DEF JobRecord, JobStatus
    <2>3. state' = [SetJob(state, j, new) EXCEPT !.run = end]
      BY <1>7 DEF RecordFinalFailure
    <2> HIDE DEF new, end
    <2> QED BY <1>0, <2>1, <2>2, <2>3, DerivedSet DEF RunStatus
  <1>8. CASE RecordFailureWithoutAttempts(j)
    BY <1>0, <1>8, DerivedStatus
    DEF RecordFailureWithoutAttempts, JobStatus, RunStatus
  <1>9. CASE ContinueWrite(j)
    BY <1>0, <1>9, DerivedPropagate DEF ContinueWrite
  <1>10. CASE RetryWrite(j)
    <2> DEFINE new == [status  |-> "ready", attempt |-> AttemptOf(old) + 1,
                       last    |-> "open",  step    |-> 0]
    <2>1. new \in JobRecord /\ new.status # "inactive"
      BY <1>0, RecordType DEF JobRecord, JobStatus
    <2>2. state' = SetJob(state, j, new)
      BY <1>10 DEF RetryWrite
    <2> HIDE DEF new
    <2> QED BY <1>0, <2>1, <2>2, DerivedJob
  <1> QED
    BY <1>1, <1>2, <1>3, <1>4, <1>5, <1>6, <1>7, <1>8, <1>9, <1>10
    DEF AgentTask

(* advanceJob and the script executor write a state derived from their copy,*)
(* or, for the final transition, from the current state.                    *)
LEMMA AdvanceWrites ==
  ASSUME TypeOK, NEW j \in Jobs, AdvanceTask(j)
  PROVE  Derived(state', state, j) \/ Derived(state', snap[j], j)
  <1> DEFINE old == snap[j].job[j]
  <1>0. /\ state \in RunState /\ snap[j] \in RunState
        /\ old \in JobRecord /\ old.status \in JobStatus
    BY Parts DEF TypeOK, JobRecord
  <1>1. CASE AdvanceRead(j) \/ AdvanceNothing(j) \/ AppendJobCompleted(j)
    <2>1. state' = state
      BY <1>1 DEF AdvanceRead, AdvanceNothing, AppendJobCompleted, shared
    <2> QED BY <1>0, <2>1, DerivedSelf
  <1>2. CASE AdvanceStep(j)
    <2> DEFINE new == [old EXCEPT !.step = StepIndex(old) + 1]
    <2>1. new \in JobRecord /\ new.status = old.status
      BY <1>0, RecordType DEF JobRecord
    <2>2. state' = SetJob(snap[j], j, new)
      BY <1>2 DEF AdvanceStep
    <2> HIDE DEF new
    <2> QED BY <1>0, <2>1, <2>2, DerivedJob
  <1>3. CASE CommitJobCompleted(j)
    BY <1>0, <1>3, CompleteJobType DEF CommitJobCompleted
  <1> QED BY <1>1, <1>2, <1>3 DEF AdvanceTask

(* The same for the script executor.                                        *)
LEMMA ScriptWrites ==
  ASSUME TypeOK, NEW j \in Jobs, ScriptTask(j)
  PROVE  Derived(state', state, j) \/ Derived(state', snap[j], j)
  <1>0. state \in RunState /\ snap[j] \in RunState
    BY DEF TypeOK
  <1>1. CASE ScriptRead(j) \/ ScriptAfter(j)
    <2>1. state' = state
      BY <1>1 DEF ScriptRead, ScriptAfter, shared
    <2> QED BY <1>0, <2>1, DerivedSelf
  <1>2. CASE ScriptStart(j)
    BY <1>2, RunningStateType DEF ScriptStart
  <1>3. CASE ScriptStepEnd(j)
    BY <1>0, <1>3, DerivedSelf DEF ScriptStepEnd
  <1>4. CASE ScriptComplete(j)
    BY <1>4, ScriptFinalType DEF ScriptComplete
  <1>5. CASE ScriptFail(j)
    <2>1. ScriptOnFailure \in JobStatus \ {"inactive"}
      BY <1>5, RunAllAssumption DEF ScriptFail, JobStatus
    <2> QED BY <1>0, <1>5, <2>1, DerivedStatus DEF ScriptFail, RunStatus
  <1> QED BY <1>1, <1>2, <1>3, <1>4, <1>5 DEF ScriptTask

(* What a task step of j does to the variables other than state.json.       *)
Frame(j) ==
  /\ \E p \in TaskPoint : task' = [task EXCEPT ![j] = p]
  /\ task[j] # "idle"
  /\ \E v \in {snap[j], state, InitState, RunningState(j)} :
       /\ snap' = [snap EXCEPT ![j] = v]
       /\ task'[j] = "idle" => v = InitState
  /\ ctl' \in {ctl, batch \ {j}}
  /\ jobLog' \in [Jobs -> SUBSET JobEvent]
  /\ runLog' \subseteq RunEvent
  /\ UNCHANGED <<loop, batch, aborted, iteration, crashes>>

(* Finishing a task is a frame.                                             *)
LEMMA FinishFrame ==
  ASSUME TypeOK, NEW j \in Jobs, task[j] # "idle", NEW ok, Finish(j, ok),
         jobLog' \in [Jobs -> SUBSET JobEvent],
         runLog' \subseteq RunEvent,
         UNCHANGED untouched
  PROVE  Frame(j)
  <1>1. /\ "idle" \in TaskPoint
        /\ task' = [task EXCEPT ![j] = "idle"]
        /\ snap' = [snap EXCEPT ![j] = InitState]
        /\ ctl' \in {ctl, batch \ {j}}
    BY DEF Finish, GoTo, TaskPoint
  <1>2. UNCHANGED <<loop, batch, aborted, iteration, crashes>>
    BY DEF untouched
  <1> QED BY <1>1, <1>2 DEF Frame

(* Moving a task on, with the local copy kept or replaced, is a frame.      *)
LEMMA MoveFrame ==
  ASSUME TypeOK, NEW j \in Jobs, task[j] # "idle",
         NEW p \in TaskPoint \ {"idle"},
         task' = [task EXCEPT ![j] = p],
         ctl' = ctl,
         \/ snap' = snap
         \/ snap' = [snap EXCEPT ![j] = state]
         \/ snap' = [snap EXCEPT ![j] = RunningState(j)],
         jobLog' \in [Jobs -> SUBSET JobEvent],
         runLog' \subseteq RunEvent,
         UNCHANGED untouched
  PROVE  Frame(j)
  <1>1. /\ task'[j] # "idle"
        /\ snap \in [Jobs -> RunState]
        /\ UNCHANGED <<loop, batch, aborted, iteration, crashes>>
    BY DEF TypeOK, untouched
  <1>2. \E v \in {snap[j], state, InitState, RunningState(j)} :
          snap' = [snap EXCEPT ![j] = v]
    <2>1. CASE snap' = snap
      <3>1. snap' = [snap EXCEPT ![j] = snap[j]]
        BY <1>1, <2>1
      <3> QED BY <3>1
    <2> QED BY <2>1
  <1> QED BY <1>1, <1>2 DEF Frame

(* The log variables keep their types.                                      *)
LEMMA LogType ==
  ASSUME TypeOK, NEW j \in Jobs
  PROVE  /\ \A e \in JobEvent :
              [jobLog EXCEPT ![j] = @ \cup {e}] \in [Jobs -> SUBSET JobEvent]
         /\ \A e \in RunEvent : runLog \cup {e} \subseteq RunEvent
  BY DEF TypeOK

(* Every task step is a frame.                                              *)
LEMMA AgentFrame ==
  ASSUME TypeOK, NEW j \in Jobs, AgentTask(j)
  PROVE  Frame(j)
  <1>0. /\ jobLog \in [Jobs -> SUBSET JobEvent] /\ runLog \subseteq RunEvent
        /\ snap \in [Jobs -> RunState] /\ task \in [Jobs -> TaskPoint]
    BY DEF TypeOK
  <1>1. CASE AgentStart(j)
    BY <1>0, <1>1, FinishFrame, MoveFrame DEF AgentStart, At, GoTo, TaskPoint
  <1>2. CASE AgentFail(j)
    <2>1. PICK error \in AgentErrors : GoTo(j, error)
      BY <1>2 DEF AgentFail
    <2>2. error \in TaskPoint \ {"idle"}
      BY RunAllAssumption DEF TaskPoint
    <2> QED BY <1>0, <1>2, <2>1, <2>2, FinishFrame, MoveFrame DEF AgentFail, At, GoTo, Read, shared
  <1>3. CASE AgentSucceed(j)
    BY <1>0, <1>3, FinishFrame, MoveFrame DEF AgentSucceed, At, GoTo, Read, shared, TaskPoint
  <1>4. CASE AgentCancelled(j)
    <2>1. /\ jobLog' \in [Jobs -> SUBSET JobEvent]
          /\ runLog' \subseteq RunEvent
      BY <1>4, LogType DEF AgentCancelled, JobEvent, RunEvent
    <2> QED BY <1>4, <2>1, FinishFrame, MoveFrame DEF AgentCancelled, At
  <1>5. CASE RecordConfigFailure(j)
    <2>1. runLog' \subseteq RunEvent
      BY <1>5, LogType DEF RecordConfigFailure, RunEvent
    <2> QED BY <1>0, <1>5, <2>1, FinishFrame, MoveFrame DEF RecordConfigFailure, At
  <1>6. CASE RecordRetryableFailure(j)
    BY <1>0, <1>6, FinishFrame, MoveFrame DEF RecordRetryableFailure, At, GoTo, TaskPoint
  <1>7. CASE RecordToleratedFailure(j)
    <2>1. /\ jobLog' \in [Jobs -> SUBSET JobEvent]
          /\ task[j] # "idle"
          /\ UNCHANGED <<runLog, untouched>>
      BY <1>7, LogType DEF RecordToleratedFailure, JobEvent, At
    <2>2. \/ GoTo(j, "contRead") /\ UNCHANGED <<snap, ctl>>
          \/ Finish(j, FALSE)
      BY <1>7 DEF RecordToleratedFailure
    <2> QED BY <1>0, <2>1, <2>2, FinishFrame, MoveFrame DEF GoTo, TaskPoint
  <1>8. CASE RecordFinalFailure(j)
    <2>1. jobLog' \in [Jobs -> SUBSET JobEvent]
      BY <1>8, LogType DEF RecordFinalFailure, JobEvent
    <2> QED BY <1>0, <1>8, <2>1, FinishFrame, MoveFrame DEF RecordFinalFailure, At
  <1>9. CASE RecordFailureWithoutAttempts(j)
    <2>1. jobLog' \in [Jobs -> SUBSET JobEvent]
      BY <1>9, LogType DEF RecordFailureWithoutAttempts, JobEvent
    <2> QED BY <1>0, <1>9, <2>1, FinishFrame, MoveFrame DEF RecordFailureWithoutAttempts, At
  <1>10. CASE ContinueRead(j)
    BY <1>0, <1>10, FinishFrame, MoveFrame DEF ContinueRead, At, GoTo, Read, shared, TaskPoint
  <1>11. CASE ContinueWrite(j) \/ RetryWrite(j)
    BY <1>0, <1>11, FinishFrame, MoveFrame DEF ContinueWrite, RetryWrite, At
  <1>12. CASE RetryRead(j)
    <2>1. /\ task[j] # "idle"
          /\ UNCHANGED <<shared, untouched>>
          /\ \/ GoTo(j, "retryWrite") /\ Read(j) /\ UNCHANGED ctl
             \/ Finish(j, FALSE)
      BY <1>12 DEF RetryRead, At
    <2> QED BY <1>0, <2>1, FinishFrame, MoveFrame DEF GoTo, Read, shared, TaskPoint
  <1>13. CASE StartFails(j)
    BY <1>0, <1>13, FinishFrame, MoveFrame DEF StartFails, At, GoTo, Read, shared, TaskPoint
  <1> QED
    BY <1>1, <1>2, <1>3, <1>4, <1>5, <1>6, <1>7, <1>8, <1>9, <1>10, <1>11, <1>12, <1>13
    DEF AgentTask

(* The same for advanceJob and for the script executor.                     *)
LEMMA AdvanceScriptFrame ==
  ASSUME TypeOK, NEW j \in Jobs, AdvanceTask(j) \/ ScriptTask(j)
  PROVE  Frame(j)
  <1>0. /\ jobLog \in [Jobs -> SUBSET JobEvent] /\ runLog \subseteq RunEvent
        /\ snap \in [Jobs -> RunState] /\ task \in [Jobs -> TaskPoint]
    BY DEF TypeOK
  <1>1. CASE AdvanceRead(j)
    BY <1>0, <1>1, FinishFrame, MoveFrame DEF AdvanceRead, At, GoTo, Read, shared, TaskPoint
  <1>2. CASE AdvanceNothing(j)
    BY <1>0, <1>2, FinishFrame, MoveFrame DEF AdvanceNothing, At, shared
  <1>3. CASE AdvanceStep(j)
    BY <1>0, <1>3, FinishFrame, MoveFrame DEF AdvanceStep, AdvanceLive, At
  <1>4. CASE AppendJobCompleted(j)
    <2>1. jobLog' \in [Jobs -> SUBSET JobEvent] /\ runLog' \subseteq RunEvent
      BY <1>0, <1>4, LogType DEF AppendJobCompleted, JobEvent, RunEvent
    <2> QED
      BY <1>0, <1>4, <2>1, FinishFrame, MoveFrame
      DEF AppendJobCompleted, AdvanceLive, At, GoTo, TaskPoint
  <1>5. CASE CommitJobCompleted(j)
    BY <1>0, <1>5, FinishFrame, MoveFrame DEF CommitJobCompleted, At
  <1>6. CASE ScriptRead(j)
    BY <1>0, <1>6, FinishFrame, MoveFrame DEF ScriptRead, At, GoTo, Read, shared, TaskPoint
  <1>7. CASE ScriptStart(j)
    BY <1>0, <1>7, FinishFrame, MoveFrame DEF ScriptStart, At, GoTo, TaskPoint
  <1>8. CASE ScriptStepEnd(j) \/ ScriptFail(j)
    BY <1>0, <1>8, FinishFrame, MoveFrame DEF ScriptStepEnd, ScriptFail, At, GoTo, TaskPoint
  <1>9. CASE ScriptComplete(j)
    <2>1. jobLog' \in [Jobs -> SUBSET JobEvent] /\ runLog' \subseteq RunEvent
      BY <1>0, <1>9, LogType DEF ScriptComplete, JobEvent, RunEvent
    <2> QED BY <1>0, <1>9, <2>1, FinishFrame, MoveFrame DEF ScriptComplete, At, GoTo, TaskPoint
  <1>10. CASE ScriptAfter(j)
    <2>1. /\ task[j] # "idle"
          /\ UNCHANGED <<shared, untouched>>
          /\ \/ GoTo(j, "advRead") /\ UNCHANGED <<snap, ctl>>
             \/ Finish(j, TRUE)
      BY <1>10 DEF ScriptAfter, At
    <2> QED BY <1>0, <2>1, FinishFrame, MoveFrame DEF GoTo, shared, TaskPoint
  <1> QED
    BY <1>1, <1>2, <1>3, <1>4, <1>5, <1>6, <1>7, <1>8, <1>9, <1>10
    DEF AdvanceTask, ScriptTask

(* A task step writes a well-formed state derived from the current one or   *)
(* from the task's copy, inside a frame.                                    *)
LEMMA TaskStep ==
  ASSUME TypeOK, NEW j \in Jobs, Task(j)
  PROVE  /\ Frame(j)
         /\ Derived(state', state, j) \/ Derived(state', snap[j], j)
  BY AgentWrites, AdvanceWrites, ScriptWrites, AgentFrame, AdvanceScriptFrame
  DEF Task

(* ---------------------------- type correctness ---------------------------*)

(* Reconcile decides on a terminal status or on none.                       *)
LEMMA ReconcileType ==
  ASSUME NEW js
  PROVE  /\ Reconcile(js) \in RunStatus
         /\ Reconcile(js) # "none" => EventOf(Reconcile(js)) \in RunEvent
  BY DEF Reconcile, RunStatus, EventOf, RunEvent

(* The loop and the post-loop passes write well-formed states, in which     *)
(* nothing runs that did not run before.                                    *)
LEMMA LoopWrites ==
  ASSUME TypeOK, MainLoop
  PROVE  /\ state' \in RunState
         /\ \A k \in Jobs :
              /\ state'.job[k].status = "running" => state.job[k].status = "running"
              /\ state'.job[k].status = "inactive" <=> state.job[k].status = "inactive"
  <1>0. state \in RunState /\ state.job \in JobsMap
    BY Parts DEF TypeOK
  <1>1. CASE LoopStop \/ Dispatch \/ LoopExitIdle
    BY <1>0, <1>1 DEF LoopStop, Dispatch, LoopExitIdle, shared
  <1>2. CASE LoopReconcile \/ PostReconcile
    BY <1>0, <1>2, ReconcileType, SetRunType DEF LoopReconcile, PostReconcile
  <1>3. CASE Revive
    <2>1. state' = [state EXCEPT
                      !.job = PropagateReadiness(state.job, ReadyJobs(state.job))]
      BY <1>3 DEF Revive
    <2> QED BY <1>0, <2>1, PropagateType DEF RunState
  <1>4. CASE BatchSettled \/ PostCancel
    BY <1>0, <1>4, SetRunType DEF BatchSettled, PostCancel, RunStatus
  <1>5. CASE BlockStuckJobs
    <2> DEFINE stuck == IF state.run = "cancelled" THEN {} ELSE StuckJobs(state.job)
               js == [j \in Jobs |->
                        IF j \in stuck
                        THEN [state.job[j] EXCEPT !.status = "blocked"]
                        ELSE state.job[j]]
    <2>1. state' = state \/ state' = [run |-> "failed", job |-> js]
      BY <1>5 DEF BlockStuckJobs, shared
    <2>2. /\ js \in JobsMap
          /\ \A k \in Jobs :
               /\ js[k].status = "running" => state.job[k].status = "running"
               /\ js[k].status = "inactive" <=> state.job[k].status = "inactive"
      <3>1. \A k \in stuck : state.job[k].status = "waiting"
        BY DEF StuckJobs, WithStatus
      <3> HIDE DEF stuck
      <3> QED BY <1>0, <3>1, Parts DEF JobsMap, JobRecord, JobStatus
    <2> HIDE DEF js
    <2> QED BY <1>0, <2>1, <2>2 DEF RunState, RunStatus
  <1> QED BY <1>1, <1>2, <1>3, <1>4, <1>5 DEF MainLoop

(* The same steps keep the types of the log.                                *)
LEMMA LoopLogs ==
  ASSUME TypeOK, MainLoop
  PROVE  /\ jobLog' \in [Jobs -> SUBSET JobEvent]
         /\ runLog' \subseteq RunEvent
  <1>0. jobLog \in [Jobs -> SUBSET JobEvent] /\ runLog \subseteq RunEvent
    BY DEF TypeOK
  <1>1. CASE LoopStop \/ Dispatch \/ LoopExitIdle \/ Revive
    BY <1>0, <1>1 DEF LoopStop, Dispatch, LoopExitIdle, Revive, shared
  <1>2. CASE LoopReconcile \/ PostReconcile
    BY <1>0, <1>2, ReconcileType DEF LoopReconcile, PostReconcile
  <1>3. CASE BatchSettled \/ PostCancel
    BY <1>0, <1>3 DEF BatchSettled, PostCancel, RunEvent
  <1>4. CASE BlockStuckJobs
    <2> DEFINE stuck == IF state.run = "cancelled" THEN {} ELSE StuckJobs(state.job)
    <2>1. \/ UNCHANGED shared
          \/ /\ jobLog' = [j \in Jobs |->
                             IF j \in stuck THEN jobLog[j] \cup {"job_blocked"}
                             ELSE jobLog[j]]
             /\ runLog' = IF state.run = "failed" THEN runLog
                          ELSE runLog \cup {"run_failed"}
      BY <1>4 DEF BlockStuckJobs
    <2> HIDE DEF stuck
    <2> QED BY <1>0, <2>1 DEF JobEvent, RunEvent, shared
  <1> QED BY <1>1, <1>2, <1>3, <1>4 DEF MainLoop

(* Every batch the loop may take consists of jobs.                          *)
LEMMA BatchType ==
  ASSUME NEW js, NEW B \in Batches(js)
  PROVE  B \subseteq Jobs
  BY DEF Batches, SelectExecutable, Candidates, WithStatus

(* How the loop moves the control variables.                                *)
LEMMA LoopControl ==
  ASSUME TypeOK, MainLoop
  PROVE  /\ loop' \in LoopPoint
         /\ batch' \subseteq Jobs
         /\ task' \in [Jobs -> TaskPoint]
         /\ snap' = snap
         /\ ctl' \subseteq Jobs
         /\ iteration' \in Nat
         /\ UNCHANGED <<aborted, crashes>>
  <1>0. /\ loop \in LoopPoint /\ batch \subseteq Jobs
        /\ task \in [Jobs -> TaskPoint] /\ ctl \subseteq Jobs
        /\ iteration \in Nat
    BY DEF TypeOK
  <1>1. CASE Dispatch
    <2>1. PICK B \in Batches(state.job) :
            /\ batch' = B
            /\ task' = [j \in Jobs |-> IF j \in B THEN "start" ELSE "idle"]
      BY <1>1 DEF Dispatch
    <2>2. B \subseteq Jobs
      BY BatchType
    <2>3. task' \in [Jobs -> TaskPoint]
      BY <2>1 DEF TaskPoint
    <2> QED BY <1>0, <1>1, <2>1, <2>2, <2>3 DEF Dispatch, LoopPoint
  <1>2. CASE LoopStop \/ LoopExitIdle \/ LoopReconcile \/ Revive
    BY <1>0, <1>2 DEF LoopStop, LoopExitIdle, LoopReconcile, Revive, tasks, LoopPoint
  <1>3. CASE BatchSettled
    BY <1>0, <1>3 DEF BatchSettled, LoopPoint
  <1>4. CASE PostCancel \/ BlockStuckJobs \/ PostReconcile
    BY <1>0, <1>4 DEF PostCancel, BlockStuckJobs, PostReconcile, tasks, LoopPoint
  <1> QED BY <1>1, <1>2, <1>3, <1>4 DEF MainLoop

(* Every step keeps the types.                                              *)
LEMMA TypeStep ==
  ASSUME TypeOK, [Next]_vars
  PROVE  TypeOK'
  <1>1. CASE MainLoop
    BY <1>1, LoopWrites, LoopLogs, LoopControl DEF TypeOK
  <1>2. ASSUME NEW j \in Jobs, Task(j) PROVE TypeOK'
    <2>1. Frame(j) /\ state' \in RunState
      BY <1>2, TaskStep DEF Derived
    <2>2. RunningState(j) \in RunState
      BY RunningStateType DEF Derived
    <2>3. snap' \in [Jobs -> RunState]
      BY <2>1, <2>2, InitStateType DEF Frame, TypeOK
    <2>4. task' \in [Jobs -> TaskPoint] /\ ctl' \subseteq Jobs
      BY <2>1 DEF Frame, TypeOK
    <2> QED BY <2>1, <2>3, <2>4 DEF Frame, TypeOK
  <1>3. CASE Abort
    BY <1>3 DEF Abort, TypeOK, shared, tasks
  <1>4. CASE Crash
    <2>1. /\ task' \in [Jobs -> TaskPoint]
          /\ snap' \in [Jobs -> RunState]
      BY <1>4, InitStateType DEF Crash, TaskPoint
    <2>2. /\ UNCHANGED shared
          /\ batch' = {} /\ ctl' = {}
          /\ loop' \in LoopPoint /\ aborted' \in BOOLEAN
          /\ iteration' \in Nat /\ crashes' \in Nat
      <3>1. crashes \in Nat
        BY DEF TypeOK
      <3>2. /\ crashes' = crashes + 1 /\ iteration' = 0 /\ loop' = "read"
            /\ aborted' = FALSE /\ batch' = {} /\ ctl' = {} /\ UNCHANGED shared
        BY <1>4, Zenon DEF Crash
      <3>3. crashes' \in Nat /\ iteration' \in Nat
        BY <3>1, <3>2
      <3> QED BY <3>2, <3>3 DEF LoopPoint
    <2>3. /\ state' \in RunState
          /\ jobLog' \in [Jobs -> SUBSET JobEvent]
          /\ runLog' \subseteq RunEvent
      BY <2>2 DEF TypeOK, shared
    <2> QED BY <2>1, <2>2, <2>3 DEF TypeOK
  <1>5. CASE UNCHANGED vars
    BY <1>5 DEF vars, TypeOK
  <1> QED BY <1>1, <1>2, <1>3, <1>4, <1>5 DEF Next, Returned

(* state.json stays a well-formed run state and every variable keeps its    *)
(* type, for every workflow.                                                *)
THEOREM TypeCorrect == Spec => []TypeOK
  <1>1. Init => TypeOK
    <2> SUFFICES ASSUME Init PROVE TypeOK
      OBVIOUS
    <2>1. /\ state \in RunState
          /\ snap \in [Jobs -> RunState]
      BY InitStateType DEF Init
    <2>2. /\ task \in [Jobs -> TaskPoint]
          /\ jobLog \in [Jobs -> SUBSET JobEvent]
      BY DEF Init, TaskPoint
    <2>3. /\ runLog \subseteq RunEvent /\ loop \in LoopPoint
          /\ batch \subseteq Jobs /\ ctl \subseteq Jobs
          /\ aborted \in BOOLEAN /\ iteration \in Nat /\ crashes \in Nat
      BY DEF Init, LoopPoint
    <2> QED BY <2>1, <2>2, <2>3 DEF TypeOK
  <1>2. TypeOK /\ [Next]_vars => TypeOK'
    BY TypeStep
  <1> QED BY <1>1, <1>2, PTL DEF Spec

(* ---------------------- one writable job at a time -----------------------*)

(* A task of the batch keeps SingleWriter: what it writes adds at most its  *)
(* own job, the batch's only writable one, to what ran in its source.       *)
LEMMA DerivedSingle ==
  ASSUME TypeOK, WritableSerialized, NEW j \in batch,
         NEW s, SingleWriter(s), NEW t, Derived(t, s, j)
  PROVE  SingleWriter(t)
  <1>1. ASSUME NEW w \in RunningWritable(t),
               NEW k \in RunningWritable(t) \cup (batch \cap Writable)
        PROVE  k = w
    <2>1. /\ w \in Writable /\ w \in RunningWritable(s) \cup {j}
          /\ k \in Writable /\ k \in RunningWritable(s) \cup batch
      BY <1>1 DEF RunningWritable, WithStatus, Derived, Writable
    <2>2. CASE w \in RunningWritable(s)
      BY <2>1, <2>2 DEF SingleWriter
    <2>3. CASE w = j /\ k \in RunningWritable(s)
      <3>1. j \in batch \cap Writable
        BY <2>1, <2>3
      <3> QED BY <2>3, <3>1 DEF SingleWriter
    <2>4. CASE w = j /\ k \in batch
      BY <2>1, <2>4 DEF WritableSerialized
    <2> QED BY <2>1, <2>2, <2>3, <2>4
  <1> QED BY <1>1 DEF SingleWriter

(* Nothing runs in the initial state, so every batch fits it.               *)
LEMMA InitSingle == SingleWriter(InitState) /\ SingleWriter(InitState)'
  BY InitStateType DEF SingleWriter, RunningWritable, WithStatus, InitState

(* With a slot to fill, selectExecutable leaves nothing ready when nothing   *)
(* runs: the fallback that takes every ready job finds none.  This is where *)
(* a parallelism of at least one is needed.                                 *)
LEMMA NothingMissed ==
  ASSUME Parallelism # 0, NEW js, {} \in SelectExecutable(js),
         WithStatus(js, "running") = {}
  PROVE  WithStatus(js, "ready") = {}
  <1> DEFINE running == WithStatus(js, "running")
             ready == WithStatus(js, "ready")
             roReady == Candidates(js) \cap ReadOnly
             wrReady == Candidates(js) \cap Writable
  <1>1. Cardinality({}) = 0
    BY FS_EmptySet
  <1>2. Slots(js) = Parallelism
    <2>1. running \cap ReadOnly = {}
      OBVIOUS
    <2>2. Slots(js) = IF Parallelism > Cardinality(running \cap ReadOnly)
                      THEN Parallelism - Cardinality(running \cap ReadOnly)
                      ELSE 0
      BY DEF Slots
    <2>3. Slots(js) = IF Parallelism > 0 THEN Parallelism - 0 ELSE 0
      BY <1>1, <2>1, <2>2
    <2> QED BY <2>3, WorkflowAssumption
  <1>3. Candidates(js) = ready
    BY DEF Candidates, HeldByQueue
  <1>4. /\ Cardinality({}) = IF Cardinality(roReady) < Slots(js)
                             THEN Cardinality(roReady) ELSE Slots(js)
        /\ IF /\ Slots(js) > Cardinality({})
              /\ running \cap Writable = {}
              /\ wrReady # {}
           THEN \E w \in wrReady : {} = {w}
           ELSE TRUE
    <2>1. {} \cap ReadOnly = {} /\ {} \cap Writable = {}
      OBVIOUS
    <2> QED BY <2>1 DEF SelectExecutable
  <1>5. roReady = {}
    <2>1. IsFiniteSet(roReady)
      BY FS_Subset, WorkflowAssumption DEF Candidates, WithStatus
    <2>2. Cardinality(roReady) = 0
      <3> HIDE DEF roReady
      <3> QED BY <1>1, <1>2, <1>4, WorkflowAssumption
    <2> QED BY <2>1, <2>2, FS_EmptySet
  <1>6. wrReady = {}
    <2>1. Slots(js) > Cardinality({})
      BY <1>1, <1>2, WorkflowAssumption
    <2>2. running \cap Writable = {}
      OBVIOUS
    <2> HIDE DEF wrReady, running
    <2> QED BY <1>4, <2>1, <2>2
  <1>7. ready \subseteq ReadOnly \cup Writable
    BY DEF Writable, WithStatus
  <1> QED BY <1>3, <1>5, <1>6, <1>7

(* A batch holds at most one writable job, and only the one that runs if    *)
(* one runs.                                                                *)
LEMMA BatchSingle ==
  ASSUME Parallelism # 0, NEW s \in RunState,
         \A w, k \in RunningWritable(s) : k = w,
         NEW B \in Batches(s.job), B # {}
  PROVE  \A w \in B \cap Writable :
           \A k \in RunningWritable(s) \cup (B \cap Writable) : k = w
  <1> DEFINE running == WithStatus(s.job, "running")
  <1>1. CASE B \in SelectExecutable(s.job)
    <2>1. \/ running \cap Writable = {} /\ \E w : B \cap Writable = {w}
          \/ B \cap Writable = {}
      <3> DEFINE wrReady == Candidates(s.job) \cap Writable
      <3>1. \/ B \cap Writable = {}
            \/ running \cap Writable = {} /\ \E w \in wrReady : B \cap Writable = {w}
        BY <1>1, Zenon DEF SelectExecutable
      <3> QED BY <3>1
    <2> QED BY <2>1 DEF RunningWritable
  <1>2. CASE B = running
    BY <1>2 DEF RunningWritable
  <1>3. CASE {} \in SelectExecutable(s.job) /\ running = {} /\ B = WithStatus(s.job, "ready")
    BY <1>3, NothingMissed
  <1> QED BY <1>1, <1>2, <1>3 DEF Batches

(* Every step keeps the inductive invariant.                                *)
LEMMA SerializedStep ==
  ASSUME Parallelism # 0, TypeOK, WritableSerialized, [Next]_vars
  PROVE  WritableSerialized'
  <1>0. /\ state \in RunState /\ snap \in [Jobs -> RunState]
        /\ task \in [Jobs -> TaskPoint] /\ batch \subseteq Jobs
    BY DEF TypeOK
  <1>1. CASE Dispatch
    <2>1. PICK B \in Batches(state.job) :
            /\ B # {}
            /\ batch' = B
            /\ task' = [j \in Jobs |-> IF j \in B THEN "start" ELSE "idle"]
      BY <1>1 DEF Dispatch
    <2>2. /\ loop = "read" /\ loop' = "batch" /\ batch = {}
          /\ UNCHANGED <<state, snap>>
      BY <1>1 DEF Dispatch, LoopGoesOn, shared, WritableSerialized
    <2>3. \A j \in Jobs : snap[j] = InitState
      BY <2>2 DEF WritableSerialized, Executing
    <2>4. \A w, k \in RunningWritable(state) : k = w
      BY DEF WritableSerialized, SingleWriter
    <2>5. \A w \in B \cap Writable :
            \A k \in RunningWritable(state) \cup (B \cap Writable) : k = w
      BY <1>0, <2>1, <2>4, BatchSingle
    <2>6. SingleWriter(state)'
      BY <2>1, <2>2, <2>4, <2>5 DEF SingleWriter, RunningWritable
    <2>7. \A j \in Jobs : SingleWriter(snap[j])'
      BY <2>2, <2>3, InitSingle
    <2>8. /\ Executing' \subseteq batch'
          /\ \A j \in Jobs : snap'[j] = InitState
      BY <2>1, <2>2, <2>3 DEF Executing
    <2> QED BY <2>1, <2>2, <2>5, <2>6, <2>7, <2>8 DEF WritableSerialized
  <1>2. CASE BatchSettled
    <2>1. /\ loop' \in {"post", "read"} /\ batch' = {}
          /\ UNCHANGED <<task, snap>>
          /\ \A j \in Jobs : task[j] = "idle"
      BY <1>2 DEF BatchSettled
    <2>2. \A j \in Jobs : snap'[j] = InitState
      BY <2>1 DEF WritableSerialized
    <2>3. state'.job = state.job
      BY <1>0, <1>2, SetRunType DEF BatchSettled, RunStatus
    <2>4. SingleWriter(state)' /\ \A j \in Jobs : SingleWriter(snap[j])'
      BY <2>1, <2>2, <2>3, InitSingle
      DEF WritableSerialized, SingleWriter, RunningWritable
    <2> QED BY <2>1, <2>2, <2>4 DEF WritableSerialized, Executing
  <1>3. CASE MainLoop /\ ~Dispatch /\ ~BatchSettled
    <2>1. /\ batch = {} /\ loop # "batch" /\ loop' # "batch"
          /\ UNCHANGED <<batch, task, snap>>
      BY <1>3 DEF MainLoop, LoopStop, LoopExitIdle, LoopReconcile, Revive, PostCancel,
         BlockStuckJobs, PostReconcile, NothingToRun, LoopGoesOn, tasks,
         WritableSerialized
    <2>2. \A k \in RunningWritable(state') : k \in RunningWritable(state)
      BY <1>3, LoopWrites DEF RunningWritable, WithStatus, Writable
    <2>3. SingleWriter(state)' /\ \A j \in Jobs : SingleWriter(snap[j])'
      BY <2>1, <2>2 DEF WritableSerialized, SingleWriter, RunningWritable
    <2> QED BY <2>1, <2>3 DEF WritableSerialized, Executing
  <1>4. ASSUME NEW j \in Jobs, Task(j) PROVE WritableSerialized'
    <2>1. /\ Frame(j)
          /\ Derived(state', state, j) \/ Derived(state', snap[j], j)
      BY <1>4, TaskStep
    <2>2. j \in batch
      BY <2>1 DEF Frame, WritableSerialized, Executing
    <2>3. SingleWriter(state')
      BY <2>1, <2>2, DerivedSingle DEF WritableSerialized
    <2>4. SingleWriter(RunningState(j))
      BY <2>2, RunningStateType, DerivedSingle DEF WritableSerialized
    <2>5. PICK v \in {snap[j], state, InitState, RunningState(j)} :
            /\ snap' = [snap EXCEPT ![j] = v]
            /\ task'[j] = "idle" => v = InitState
      BY <2>1 DEF Frame
    <2>6. /\ \E p \in TaskPoint : task' = [task EXCEPT ![j] = p]
          /\ UNCHANGED <<loop, batch>>
      BY <2>1 DEF Frame
    <2>7. SingleWriter(v)
      BY <2>4, InitSingle DEF WritableSerialized
    <2>8. \A k \in Jobs : SingleWriter(snap'[k])
      BY <1>0, <2>5, <2>7 DEF WritableSerialized
    <2>9. SingleWriter(state)' /\ \A k \in Jobs : SingleWriter(snap[k])'
      BY <2>3, <2>6, <2>8 DEF SingleWriter, RunningWritable
    <2>10. /\ Executing' \subseteq batch'
           /\ \A k \in Jobs : task'[k] = "idle" => snap'[k] = InitState
      BY <1>0, <2>2, <2>5, <2>6 DEF WritableSerialized, Executing
    <2> QED BY <2>6, <2>9, <2>10 DEF WritableSerialized
  <1>5. CASE Crash
    <2>1. /\ loop' = "read" /\ batch' = {} /\ state' = state
          /\ \A j \in Jobs : task'[j] = "idle" /\ snap'[j] = InitState
      BY <1>5 DEF Crash, shared
    <2>2. SingleWriter(state)' /\ \A j \in Jobs : SingleWriter(snap[j])'
      BY <2>1, InitSingle DEF WritableSerialized, SingleWriter, RunningWritable
    <2> QED BY <2>1, <2>2 DEF WritableSerialized, Executing
  <1>6. CASE Abort \/ UNCHANGED vars
    <2>1. UNCHANGED <<state, loop, batch, task, snap>>
      BY <1>6 DEF Abort, vars, shared, tasks
    <2> QED BY <2>1 DEF WritableSerialized, Executing, SingleWriter, RunningWritable
  <1> QED
    BY <1>1, <1>2, <1>3, <1>4, <1>5, <1>6 DEF Next, Returned

(* With a parallelism of at least one, at most one writable job executes at *)
(* any time: in every interleaving of the tasks of a batch, with their stale*)
(* copies, across batches, crashes and resumes, and for every workflow.     *)
THEOREM OneWritable ==
  ASSUME Parallelism # 0
  PROVE  Spec => []OneWritableExecutes
  <1>1. Init => WritableSerialized
    <2> SUFFICES ASSUME Init PROVE WritableSerialized
      OBVIOUS
    <2>1. /\ state = InitState /\ batch = {}
          /\ \A j \in Jobs : task[j] = "idle" /\ snap[j] = InitState
      BY DEF Init
    <2> QED BY <2>1, InitSingle DEF WritableSerialized, Executing
  <1>2. TypeOK /\ WritableSerialized /\ [Next]_vars => WritableSerialized'
    BY SerializedStep
  <1>3. WritableSerialized => OneWritableExecutes
    BY DEF WritableSerialized, OneWritableExecutes
  <1> QED BY <1>1, <1>2, <1>3, TypeCorrect, PTL DEF Spec

(* ------------------------ the batch and its tasks ------------------------*)

(* Only jobs of the batch execute, and a copy of the state                  *)
(* is kept only while its task executes.                                    *)
TasksInBatch ==
  /\ Executing \subseteq batch
  /\ loop # "batch" => batch = {}
  /\ \A j \in Jobs : task[j] = "idle" => snap[j] = InitState

(* Every step keeps it.                                                     *)
LEMMA TasksInBatchStep ==
  ASSUME TypeOK, TasksInBatch, [Next]_vars
  PROVE  TasksInBatch'
  <1>0. snap \in [Jobs -> RunState] /\ task \in [Jobs -> TaskPoint] /\ batch \subseteq Jobs
    BY DEF TypeOK
  <1>i. InitState' = InitState
    BY DEF InitState, InitiallyReady
  <1>1. CASE Dispatch
    <2>1. PICK B \in Batches(state.job) :
            /\ batch' = B
            /\ task' = [j \in Jobs |-> IF j \in B THEN "start" ELSE "idle"]
      BY <1>1 DEF Dispatch
    <2>2. /\ loop = "read" /\ loop' = "batch" /\ batch = {} /\ snap' = snap
      BY <1>1 DEF Dispatch, LoopGoesOn, TasksInBatch
    <2>3. \A j \in Jobs : snap[j] = InitState
      BY <2>2 DEF TasksInBatch, Executing
    <2> QED BY <1>i, <2>1, <2>2, <2>3 DEF TasksInBatch, Executing
  <1>2. CASE BatchSettled
    <2>1. /\ \A j \in Jobs : task[j] = "idle"
          /\ batch' = {} /\ UNCHANGED <<task, snap>>
      BY <1>2 DEF BatchSettled
    <2> QED BY <1>i, <2>1 DEF TasksInBatch, Executing
  <1>3. CASE MainLoop /\ ~Dispatch /\ ~BatchSettled
    <2>1. /\ batch = {} /\ UNCHANGED <<batch, task, snap>>
      BY <1>3 DEF MainLoop, LoopStop, LoopExitIdle, LoopReconcile, Revive, PostCancel,
         BlockStuckJobs, PostReconcile, NothingToRun, LoopGoesOn, tasks, TasksInBatch
    <2> QED BY <1>i, <2>1 DEF TasksInBatch, Executing
  <1>4. ASSUME NEW j \in Jobs, Task(j) PROVE TasksInBatch'
    <2>1. Frame(j)
      BY <1>4, TaskStep
    <2>2. PICK v : /\ snap' = [snap EXCEPT ![j] = v]
                   /\ task'[j] = "idle" => v = InitState
      BY <2>1 DEF Frame
    <2>3. /\ \E p \in TaskPoint : task' = [task EXCEPT ![j] = p]
          /\ task[j] # "idle" /\ UNCHANGED <<loop, batch>>
      BY <2>1 DEF Frame
    <2> QED BY <1>0, <1>i, <2>2, <2>3 DEF TasksInBatch, Executing
  <1>5. CASE Crash
    BY <1>5, <1>i DEF Crash, TasksInBatch, Executing
  <1>6. CASE Abort \/ UNCHANGED vars
    <2>1. UNCHANGED <<loop, batch, task, snap>>
      BY <1>6 DEF Abort, vars, tasks
    <2> QED BY <1>i, <2>1 DEF TasksInBatch, Executing
  <1> QED BY <1>1, <1>2, <1>3, <1>4, <1>5, <1>6 DEF Next, Returned

(* Only ready or running jobs are put into a batch.                         *)
LEMMA Selected ==
  ASSUME NEW js, NEW B \in Batches(js)
  PROVE  \A j \in B : j \in Jobs /\ js[j].status \in {"ready", "running"}
  BY DEF Batches, SelectExecutable, Candidates, WithStatus

(* ---------------------- the engine-deadlock error ------------------------*)

(* The jobs with a declared activation are the ones that are not active.    *)
DeclaredInactive(s) ==
  \A k \in Jobs : (s.job[k].status = "inactive") <=> (k \in Declared)

(* ... in state.json and in every copy of it, and they are in no batch.     *)
ActivationKept ==
  /\ DeclaredInactive(state)
  /\ \A j \in Jobs : DeclaredInactive(snap[j])
  /\ batch \cap Declared = {}

(* Writing for an active job keeps the inactive ones.                       *)
LEMMA DerivedInactive ==
  ASSUME NEW s, DeclaredInactive(s), NEW j \in Jobs \ Declared, NEW t, Derived(t, s, j)
  PROVE  DeclaredInactive(t)
  BY DEF DeclaredInactive, Derived

(* Every job with a declared activation is created inactive.                *)
LEMMA InitInactive == DeclaredInactive(InitState)
  BY DEF DeclaredInactive, InitState

(* Every step keeps the inactive jobs inactive, in every copy.              *)
LEMMA ActivationStep ==
  ASSUME TypeOK, TasksInBatch, ActivationKept, [Next]_vars
  PROVE  ActivationKept'
  <1>0. /\ snap \in [Jobs -> RunState] /\ task \in [Jobs -> TaskPoint]
    BY DEF TypeOK
  <1>1. CASE Dispatch
    <2>1. PICK B \in Batches(state.job) : batch' = B
      BY <1>1 DEF Dispatch
    <2>2. UNCHANGED <<state, snap>>
      BY <1>1 DEF Dispatch, shared
    <2>3. \A j \in B : j \in Jobs /\ state.job[j].status \in {"ready", "running"}
      BY Selected
    <2> QED BY <2>1, <2>2, <2>3 DEF ActivationKept, DeclaredInactive
  <1>2. CASE MainLoop /\ ~Dispatch
    <2>1. snap' = snap /\ batch' \in {batch, {}}
      BY <1>2 DEF MainLoop, LoopStop, LoopExitIdle, LoopReconcile, Revive, BatchSettled,
         PostCancel, BlockStuckJobs, PostReconcile, tasks
    <2>2. DeclaredInactive(state')
      BY <1>2, LoopWrites DEF ActivationKept, DeclaredInactive
    <2> QED BY <2>1, <2>2 DEF ActivationKept, DeclaredInactive
  <1>3. ASSUME NEW j \in Jobs, Task(j) PROVE ActivationKept'
    <2>1. /\ Frame(j)
          /\ Derived(state', state, j) \/ Derived(state', snap[j], j)
      BY <1>3, TaskStep
    <2>2. j \in Jobs \ Declared
      BY <2>1 DEF Frame, TasksInBatch, Executing, ActivationKept
    <2>3. DeclaredInactive(state')
      BY <2>1, <2>2, DerivedInactive DEF ActivationKept
    <2>4. DeclaredInactive(RunningState(j))
      BY <2>2, RunningStateType, DerivedInactive DEF ActivationKept
    <2>5. PICK v \in {snap[j], state, InitState, RunningState(j)} :
            snap' = [snap EXCEPT ![j] = v]
      BY <2>1 DEF Frame
    <2>6. DeclaredInactive(v)
      BY <2>4, InitInactive DEF ActivationKept
    <2>7. \A k \in Jobs : DeclaredInactive(snap'[k])
      BY <1>0, <2>5, <2>6 DEF ActivationKept
    <2>8. batch' = batch
      BY <2>1 DEF Frame
    <2> QED BY <2>3, <2>7, <2>8 DEF ActivationKept, DeclaredInactive
  <1>4. CASE Crash
    <2>1. state' = state /\ batch' = {} /\ \A j \in Jobs : snap'[j] = InitState
      BY <1>4 DEF Crash, shared
    <2> QED BY <2>1, InitInactive DEF ActivationKept, DeclaredInactive
  <1>5. CASE Abort \/ UNCHANGED vars
    <2>1. UNCHANGED <<state, snap, batch>>
      BY <1>5 DEF Abort, vars, shared, tasks
    <2> QED BY <2>1 DEF ActivationKept, DeclaredInactive
  <1> QED BY <1>1, <1>2, <1>3, <1>4, <1>5 DEF Next, Returned

(* The loop has nothing to run only when nothing is ready and nothing runs: *)
(* what the scheduler holds back, the two fallbacks take.                   *)
LEMMA NothingSelected ==
  ASSUME NEW js, {} \in Batches(js)
  PROVE  WithStatus(js, "ready") = {} /\ WithStatus(js, "running") = {}
  BY DEF Batches

(* Of the waiting jobs one comes first: it needs no other waiting job.      *)
LEMMA FirstWaiting ==
  ASSUME NEW W \in SUBSET Jobs, W # {}
  PROVE  \E j \in W : Needs[j] \cap W = {}
  <1>1. PICK rank \in [Jobs -> 0..Cardinality(Jobs)] :
          \A j \in Jobs : \A d \in Needs[j] : rank[d] < rank[j]
    BY AcyclicAssumption
  <1> DEFINE ranks == {rank[j] : j \in W}
  <1>2. Cardinality(Jobs) \in Nat
    BY FS_CardinalityType, WorkflowAssumption
  <1>3. ranks \subseteq Nat /\ ranks # {}
    BY <1>1, <1>2
  <1>4. PICK m \in ranks : \A n \in ranks : <<n, m>> \notin OpToRel(<, Nat)
    BY <1>3, NatLessThanWellFounded, WFMin
  <1>5. \A n \in ranks : ~(n < m)
    BY <1>3, <1>4 DEF OpToRel
  <1>6. PICK j \in W : rank[j] = m
    BY <1>4
  <1>7. \A d \in Needs[j] \cap W : rank[d] \in ranks /\ rank[d] < rank[j]
    BY <1>1, <1>6
  <1> QED BY <1>5, <1>6, <1>7

(* Where the reconciliation gives no verdict, the need of a waiting job is  *)
(* met, unless the needed job waits itself.                                 *)
LEMMA NeedDecided ==
  ASSUME TypeOK, DeclaredInactive(state),
         \A j \in Jobs : \A d \in Needs[j] : Activation[d] # "required",
         {} \in Batches(state.job), Reconcile(state.job) = "none",
         NEW j \in WithStatus(state.job, "waiting"), NEW d \in Needs[j],
         d \notin WithStatus(state.job, "waiting")
  PROVE  NeedMet(state.job, d)
  <1>1. /\ j \in Jobs /\ d \in Jobs
        /\ state.job[j].status = "waiting" /\ state.job[d].status # "waiting"
    BY WorkflowAssumption DEF WithStatus
  <1>2. j \in Required
    BY <1>1 DEF DeclaredInactive, Required
  <1>3. \A k \in Required : /\ ~CriticalFailure(state.job, k)
                            /\ state.job[k].status # "blocked"
    BY <1>2 DEF Reconcile
  <1>4. state.job[d].status \notin {"ready", "running"}
    BY <1>1, NothingSelected DEF WithStatus
  <1>5. state.job[d].status \in {"inactive", "completed", "failed", "blocked"}
    BY <1>1, <1>4, Parts DEF TypeOK, JobRecord, JobStatus
  <1>6. CASE state.job[d].status = "inactive"
    BY <1>1, <1>6, WorkflowAssumption DEF DeclaredInactive, Declared, Optional, NeedMet
  <1>7. CASE state.job[d].status # "inactive"
    <2>1. d \in Required
      BY <1>1, <1>7 DEF DeclaredInactive, Required
    <2> QED BY <1>3, <1>5, <1>7, <2>1 DEF CriticalFailure, NeedMet
  <1> QED BY <1>6, <1>7

(* In a workflow in which no job needs one with `activation: required`, the *)
(* loop never reaches its "Engine deadlock detected" error: whatever the    *)
(* scheduler, the tasks with their stale copies, crashes and resumes do,    *)
(* with nothing to run and jobs waiting there is a verdict or a job to      *)
(* revive.                                                                  *)
THEOREM NoDeadlockError ==
  ASSUME \A j \in Jobs : \A d \in Needs[j] : Activation[d] # "required"
  PROVE  Spec => []NoEngineDeadlock
  <1>1. Init => TasksInBatch /\ ActivationKept
    <2> SUFFICES ASSUME Init PROVE TasksInBatch /\ ActivationKept
      OBVIOUS
    <2>1. /\ state = InitState /\ batch = {}
          /\ \A j \in Jobs : task[j] = "idle" /\ snap[j] = InitState
      BY DEF Init
    <2> QED BY <2>1, InitInactive DEF TasksInBatch, Executing, ActivationKept
  <1>2. TypeOK /\ TasksInBatch /\ ActivationKept /\ [Next]_vars
          => TasksInBatch' /\ ActivationKept'
    BY TasksInBatchStep, ActivationStep
  <1>3. TypeOK /\ ActivationKept => NoEngineDeadlock
    <2> SUFFICES ASSUME TypeOK, ActivationKept, EngineDeadlock PROVE FALSE
      BY DEF NoEngineDeadlock
    <2> DEFINE W == WithStatus(state.job, "waiting")
    <2>1. /\ {} \in Batches(state.job) /\ W # {}
          /\ Reconcile(state.job) = "none" /\ ReadyJobs(state.job) = {}
      BY DEF EngineDeadlock, NothingToRun
    <2>2. W \subseteq Jobs
      BY DEF WithStatus
    <2>3. PICK j \in W : Needs[j] \cap W = {}
      BY <2>1, <2>2, FirstWaiting
    <2>4. \A d \in Needs[j] : NeedMet(state.job, d)
      BY <2>1, <2>3, NeedDecided DEF ActivationKept
    <2>5. j \in ReadyJobs(state.job)
      BY <2>3, <2>4 DEF ReadyJobs
    <2> QED BY <2>1, <2>5
  <1> QED BY <1>1, <1>2, <1>3, TypeCorrect, PTL DEF Spec

(* ------------------------ the verdict of a return ------------------------*)

(* The jobs decide the run, and the post-loop pass has none to block.       *)
Decided ==
  /\ WithStatus(state.job, "waiting") = {}
  /\ Reconcile(state.job) # "none"

(* Why the loop was left, as long as the passes have yet to conclude the    *)
(* run: only its limit of iterations leaves a run without a verdict.        *)
Concluding ==
  /\ loop = "post" => aborted \/ Terminal(state) \/ Decided \/ iteration >= MaxIterations
  /\ loop \in {"settle", "reconcile"} => Terminal(state) \/ Decided \/ iteration >= MaxIterations
  /\ loop = "done" => Terminal(state) \/ iteration >= MaxIterations

(* With nothing to run and nothing waiting, the jobs decide the run: the    *)
(* required job whose failure is not tolerated has completed, or its        *)
(* failure is the run's.                                                    *)
LEMMA ExitDecided ==
  ASSUME TypeOK, DeclaredInactive(state), LoopExitIdle,
         NEW r \in Required, FailurePolicy[r] # "continue"
  PROVE  Decided
  <1> DEFINE js == state.job
  <1>1. WithStatus(js, "waiting") = {} /\ {} \in Batches(js)
    BY DEF LoopExitIdle, NothingToRun
  <1>2. WithStatus(js, "ready") = {} /\ WithStatus(js, "running") = {}
    BY <1>1, NothingSelected
  <1>3. \A j \in Jobs : js[j].status \in {"inactive", "completed", "failed", "blocked"}
    BY <1>1, <1>2, Parts DEF TypeOK, JobRecord, JobStatus, WithStatus
  <1>4. \A j \in Jobs : js[j].status = "inactive" <=> j \notin Required
    BY DEF DeclaredInactive, Required
  <1>5. r \in Jobs /\ Required # {} /\ Required \subseteq Jobs
    BY DEF Required
  <1> HIDE DEF js
  <1>6. CASE \E j \in Required : CriticalFailure(js, j) \/ js[j].status = "blocked"
    BY <1>1, <1>5, <1>6 DEF Reconcile, Decided, js
  <1>7. CASE \A j \in Required : ~CriticalFailure(js, j) /\ js[j].status # "blocked"
    <2>1. \A j \in Jobs : Settled(js, j)
      BY <1>3, <1>4, <1>7 DEF Settled, CriticalFailure
    <2>2. js[r].status = "completed"
      BY <1>3, <1>4, <1>5, <1>7 DEF CriticalFailure
    <2>3. WithStatus(js, "completed") # {}
      BY <1>5, <2>2 DEF WithStatus
    <2>4. Reconcile(js) = "completed"
      BY <1>5, <1>7, <2>1, <2>3 DEF Reconcile
    <2> QED BY <1>1, <2>4 DEF Decided, js
  <1> QED BY <1>6, <1>7

(* Every step of the loop and of the passes after it keeps the reason.      *)
LEMMA ConcludingLoop ==
  ASSUME TypeOK, ActivationKept, Concluding, MainLoop,
         \E r \in Required : FailurePolicy[r] # "continue"
  PROVE  Concluding'
  <1>0. state \in RunState /\ iteration \in Nat /\ MaxIterations \in Nat
    BY RunAllAssumption DEF TypeOK
  <1>1. CASE LoopStop
    <2>1. /\ loop' = "post" /\ UNCHANGED <<state, aborted, iteration>>
          /\ aborted \/ iteration >= MaxIterations \/ Terminal(state)
      BY <1>1 DEF LoopStop, shared
    <2> QED BY <2>1 DEF Concluding, Terminal
  <1>2. CASE LoopExitIdle
    <2>1. Decided
      BY <1>2, ExitDecided DEF ActivationKept
    <2>2. loop' = "post" /\ state' = state
      BY <1>2 DEF LoopExitIdle, shared
    <2> QED BY <2>1, <2>2 DEF Concluding, Decided
  <1>3. CASE LoopReconcile
    <2>1. /\ loop' = "post" /\ Reconcile(state.job) # "none"
          /\ state'.run = Reconcile(state.job)
      BY <1>0, <1>3 DEF LoopReconcile, RunState
    <2>2. Terminal(state)'
      BY <2>1 DEF Reconcile, Terminal, TerminalRun
    <2> QED BY <2>1, <2>2 DEF Concluding
  <1>4. CASE Dispatch \/ Revive
    <2>1. loop' \in {"batch", "read"}
      BY <1>4 DEF Dispatch, Revive, NothingToRun, LoopGoesOn
    <2> QED BY <2>1 DEF Concluding
  <1>5. CASE BatchSettled
    BY <1>5 DEF BatchSettled, Concluding
  <1>6. CASE PostCancel
    <2>1. loop = "post" /\ loop' = "settle" /\ iteration' = iteration
      BY <1>6 DEF PostCancel
    <2>2. CASE aborted
      <3>1. state'.run = "cancelled"
        BY <1>0, <1>6, <2>2 DEF PostCancel, RunState
      <3> QED BY <2>1, <3>1 DEF Concluding, Terminal, TerminalRun
    <2>3. CASE ~aborted
      <3>1. state' = state
        BY <1>6, <2>3 DEF PostCancel
      <3> QED BY <2>1, <2>3, <3>1 DEF Concluding, Terminal, Decided
    <2> QED BY <2>2, <2>3
  <1>7. CASE BlockStuckJobs
    <2>1. loop = "settle" /\ loop' = "reconcile" /\ iteration' = iteration
      BY <1>7 DEF BlockStuckJobs
    <2>2. state' = state \/ state'.run = "failed"
      BY <1>7 DEF BlockStuckJobs, shared
    <2> QED BY <2>1, <2>2 DEF Concluding, Terminal, TerminalRun, Decided
  <1>8. CASE PostReconcile
    <2>1. /\ loop = "reconcile" /\ loop' = "done" /\ iteration' = iteration
          /\ IF ~Terminal(state) /\ Reconcile(state.job) # "none"
             THEN state' = [state EXCEPT !.run = Reconcile(state.job)]
             ELSE state' = state
      BY <1>8 DEF PostReconcile
    <2>2. CASE ~Terminal(state) /\ Reconcile(state.job) # "none"
      <3>1. state'.run = Reconcile(state.job)
        BY <1>0, <2>1, <2>2 DEF RunState
      <3>2. Terminal(state)'
        BY <2>2, <3>1 DEF Reconcile, Terminal, TerminalRun
      <3> QED BY <2>1, <3>2 DEF Concluding
    <2>3. CASE Terminal(state) \/ Reconcile(state.job) = "none"
      BY <2>1, <2>3 DEF Concluding, Terminal, Decided
    <2> QED BY <2>2, <2>3
  <1> QED BY <1>1, <1>2, <1>3, <1>4, <1>5, <1>6, <1>7, <1>8 DEF MainLoop

(* An invocation that returns leaves the run with a terminal status, unless *)
(* it has used up its iterations: in every workflow with a required job     *)
(* whose failure is not tolerated, with any mix of agents and scripts and   *)
(* their stale copies, retries, aborts, crashes and resumes.  (A run all of *)
(* whose required jobs have failed and are tolerated has no verdict.)       *)
THEOREM ReturnHasVerdict ==
  ASSUME \E r \in Required : FailurePolicy[r] # "continue"
  PROVE  Spec => [](iteration < MaxIterations => ReturnsWithVerdict)
  <1>1. Init => TasksInBatch /\ ActivationKept /\ Concluding
    <2> SUFFICES ASSUME Init PROVE TasksInBatch /\ ActivationKept /\ Concluding
      OBVIOUS
    <2>1. /\ state = InitState /\ batch = {} /\ loop = "read"
          /\ \A j \in Jobs : task[j] = "idle" /\ snap[j] = InitState
      BY DEF Init
    <2> QED BY <2>1, InitInactive DEF TasksInBatch, Executing, ActivationKept, Concluding
  <1>2. TypeOK /\ TasksInBatch /\ ActivationKept /\ Concluding /\ [Next]_vars
          => TasksInBatch' /\ ActivationKept' /\ Concluding'
    <2> SUFFICES ASSUME TypeOK, TasksInBatch, ActivationKept, Concluding, [Next]_vars
                 PROVE  Concluding'
      BY TasksInBatchStep, ActivationStep
    <2>1. CASE MainLoop
      BY <2>1, ConcludingLoop
    <2>2. ASSUME NEW j \in Jobs, Task(j) PROVE Concluding'
      <3>1. loop' = loop /\ task[j] # "idle"
        BY <2>2, TaskStep DEF Frame
      <3>2. loop = "batch"
        BY <3>1 DEF TasksInBatch, Executing
      <3> QED BY <3>1, <3>2 DEF Concluding
    <2>3. CASE Abort \/ Crash
      <3>1. loop' \in {"read", "batch"}
        BY <2>3 DEF Abort, Crash
      <3> QED BY <3>1 DEF Concluding
    <2>4. CASE UNCHANGED vars
      BY <2>4 DEF vars, Concluding, Terminal, Decided
    <2> QED BY <2>1, <2>2, <2>3, <2>4 DEF Next, Returned
  <1>3. TypeOK /\ Concluding => (iteration < MaxIterations => ReturnsWithVerdict)
    BY RunAllAssumption DEF TypeOK, Concluding, ReturnsWithVerdict
  <1> QED BY <1>1, <1>2, <1>3, TypeCorrect, PTL DEF Spec

(* ------------------ runs without old copies written back -----------------*)
(***************************************************************************)
(* The rest is about runs in which no task writes an old copy of the state *)
(* back: those of one-step agents, whose tasks merge every write into the  *)
(* state of that moment (updateState), and those that execute one job at a *)
(* time.  A script, and advanceJob between two steps, write back the whole *)
(* copy they have read, and beside a peer the properties proved here fail: *)
(* see the finding on CompletedStaysCompleted.                             *)
(*                                                                         *)
(* The proofs share one argument: while a task executes, it alone writes   *)
(* its job's record (OwnsRecord).  Every step of a task is then one of the *)
(* rows below, which say what it may do to the run and to its peers.       *)
(***************************************************************************)

(* Every job is one agent step: nothing writes a copy back.                 *)
OneStepAgents == \A j \in Jobs : Kind[j] = "agent" /\ Steps[j] = 1

(* One job executes at a time: there is one slot, or every job is writable, *)
(* which getJobMode takes it to be unless its workspace.mode is read-only.  *)
OneAtATime == Parallelism = 1 \/ (Parallelism # 0 /\ ReadOnly = {})

(* No write of a peer is undone, for either reason.                         *)
Undisturbed == OneStepAgents \/ OneAtATime

RunningAt == {"exec", "advRead", "advance", "commit", "fail", "failReport"}

FailedAt == {"retry", "retryWrite", "contRead", "contWrite"}

CopiedAt == {"begin", "advance", "commit", "fail", "failReport", "failConfig",
             "retryWrite", "contWrite"}

(* Where the next write of j's task is that of its whole copy.              *)
WritesCopy(j) ==
  \/ task[j] = "begin"
  \/ task[j] = "exec" /\ Kind[j] = "script"
  \/ task[j] = "advance" /\ StepIndex(snap[j].job[j]) < Steps[j]

(* A task owns the record of its job: the record is what the task has left  *)
(* there, and the copy it has read still shows it.  A copy that is to be    *)
(* written as a whole is the state itself.                                  *)
Owned(j) ==
  /\ task[j] \in {"idle", "start", "begin", "after", "failConfig"}
                  \cup RunningAt \cup FailedAt
  /\ task[j] \in {"begin", "after", "advRead"} => Kind[j] = "script"
  /\ task[j] \in {"fail", "failReport"} \cup FailedAt => Kind[j] = "agent"
  /\ task[j] \in {"start", "begin", "failConfig"}
       => state.job[j].status \in {"ready", "running"}
  /\ task[j] = "after" => state.job[j].status \in {"running", "completed", "failed", "blocked"}
  /\ task[j] \in RunningAt => state.job[j].status = "running"
  /\ task[j] \in FailedAt => state.job[j].status = "failed"
  /\ task[j] \in CopiedAt => snap[j].job[j] = state.job[j]
  /\ WritesCopy(j) => snap[j] = state
  /\ task[j] \in {"retry", "retryWrite"}
       => AttemptOf(state.job[j]) < MaxAttempts[j]
  /\ task[j] \in {"contRead", "contWrite"} => FailurePolicy[j] = "continue"
  /\ state.job[j].attempt =< MaxAttempts[j]

OwnsRecord == \A j \in Jobs : Owned(j)

(* When one job executes at a time, no other job runs beside the batch's,   *)
(* and a writable job begins and runs only while no read-only job is ready: *)
(* one that was would be given the slot.                                    *)
Sole ==
  /\ \A j, k \in batch \cup WithStatus(state.job, "running") : j = k
  /\ \A w \in Writable :
       state.job[w].status = "running" \/ task[w] \in {"start", "begin"}
         => WithStatus(state.job, "ready") \cap ReadOnly = {}

(* ----------------------- what a task step may do -------------------------*)

OthersKept(j) == \A k \in Jobs \ {j} : state'.job[k] = state.job[k]

(* Waiting jobs have become ready, for what js says about their needs.      *)
OthersReleased(j, js) ==
  \A k \in Jobs \ {j} :
    \/ state'.job[k] = state.job[k]
    \/ /\ state.job[k].status = "waiting"
       /\ state'.job[k] = [state.job[k] EXCEPT !.status = "ready"]
       /\ \A d \in Needs[k] : NeedMet(js, d)

Begins(j) ==
  /\ \/ task[j] = "start" /\ Kind[j] = "agent" /\ snap' = snap
     \/ task[j] = "begin" /\ snap' = [snap EXCEPT ![j] = state']
  /\ GoTo(j, "exec")
  /\ state'.job[j].status = "running"
  /\ state'.job[j].attempt = AttemptOf(state.job[j])
  /\ state'.run = state.run
  /\ OthersKept(j)
  /\ UNCHANGED <<jobLog, runLog, ctl>>

Looks(j) ==
  /\ \E p \in CopiedAt \ {"commit"} :
       /\ \/ task[j] = "start" /\ p = "begin" /\ Kind[j] = "script"
          \/ task[j] = "start" /\ p = "failConfig"
          \/ task[j] \in {"exec", "advRead"} /\ p = "advance"
          \/ task[j] = "exec" /\ p \in {"fail", "failReport", "failConfig"} /\ Kind[j] = "agent"
          \/ task[j] = "retry" /\ p = "retryWrite"
          \/ task[j] = "contRead" /\ p = "contWrite"
       /\ GoTo(j, p)
  /\ Read(j)
  /\ UNCHANGED <<state, jobLog, runLog, ctl>>

Stops(j) ==
  /\ task[j] = "exec"
  /\ Interrupted(j)
  /\ state' = [state EXCEPT !.run = "cancelled"]
  /\ jobLog' = [jobLog EXCEPT ![j] = @ \cup {"agent_cancelled"}]
  /\ runLog' = runLog \cup {"run_cancelled"}
  /\ Finish(j, FALSE)

(* The attempt has failed: for good, or to be retried or tolerated.         *)
Fails(j) ==
  /\ task[j] \in {"fail", "failReport", "failConfig"}
  /\ state'.job[j].status \in {"failed", "blocked"}
  /\ task[j] = "failConfig" => state'.job[j].status = "failed"
  /\ state'.job[j].attempt = state.job[j].attempt
  /\ OthersKept(j)
  /\ \/ state'.run \in {"failed", "blocked"} /\ Finish(j, FALSE)
     \/ /\ task[j] # "failConfig"
        /\ state'.run = state.run
        /\ state'.job[j].status = "failed"
        /\ FailurePolicy[j] = "continue"
        /\ \/ Finish(j, FALSE)
           \/ GoTo(j, "contRead") /\ UNCHANGED <<snap, ctl>>
     \/ /\ task[j] # "failConfig"
        /\ state'.run = state.run
        /\ state'.job[j].status = "failed"
        /\ AttemptsLeft(j)
        /\ GoTo(j, "retry") /\ UNCHANGED <<snap, ctl>>
  /\ \/ jobLog' = jobLog
     \/ \E e \in {"job_failed", "job_blocked"} :
          jobLog' = [jobLog EXCEPT ![j] = @ \cup {e}]
  /\ runLog' \in {runLog, runLog \cup {"run_failed"}}

Continues(j) ==
  /\ task[j] = "contWrite"
  /\ state'.job[j] = state.job[j]
  /\ state'.run = state.run
  /\ OthersReleased(j, snap[j].job)
  /\ Finish(j, FALSE)
  /\ UNCHANGED <<jobLog, runLog>>

Retries(j) ==
  /\ task[j] = "retryWrite"
  /\ state'.job[j].status = "ready"
  /\ state'.job[j].attempt = AttemptOf(state.job[j]) + 1
  /\ state'.run = state.run
  /\ OthersKept(j)
  /\ Finish(j, FALSE)
  /\ UNCHANGED <<jobLog, runLog>>

Announces(j) ==
  /\ task[j] = "advance"
  /\ GoTo(j, "commit")
  /\ jobLog' = [jobLog EXCEPT ![j] = @ \cup {"job_completed"}]
  /\ \/ runLog' = runLog
     \/ /\ runLog' = runLog \cup {"run_completed"}
        /\ \/ snap[j].run = "completed"
           \/ \A k \in Jobs \ {j} : snap[j].job[k].status \in {"completed", "inactive"}
  /\ UNCHANGED <<state, snap, ctl>>

Completes(j) ==
  /\ task[j] = "commit"
  /\ state'.job[j].status = "completed"
  /\ state'.job[j].attempt = state.job[j].attempt
  /\ \/ state'.run = state.run
     \/ /\ state'.run = "completed"
        /\ \A k \in Jobs : state'.job[k].status \in {"completed", "inactive"}
  /\ OthersReleased(j, state'.job)
  /\ Finish(j, TRUE)
  /\ UNCHANGED <<jobLog, runLog>>

(* A script moves on without a write of its own, ...                        *)
Moves(j) ==
  /\ Kind[j] = "script"
  /\ \/ task[j] = "exec" /\ GoTo(j, "after") /\ UNCHANGED <<snap, ctl>>
     \/ /\ task[j] = "after" /\ state.job[j].status = "running"
        /\ GoTo(j, "advRead") /\ UNCHANGED <<snap, ctl>>
     \/ task[j] = "after" /\ state.job[j].status # "running" /\ Finish(j, TRUE)
  /\ UNCHANGED <<state, jobLog, runLog>>

(* ... fails its job without the run, ...                                   *)
Breaks(j) ==
  /\ task[j] = "exec" /\ Kind[j] = "script"
  /\ GoTo(j, "after")
  /\ state'.job[j].status \in {"failed", "blocked"}
  /\ state'.job[j].attempt = state.job[j].attempt
  /\ state'.run = state.run
  /\ OthersKept(j)
  /\ UNCHANGED <<jobLog, runLog, snap, ctl>>

(* ... or completes it, with its events, in one step.                       *)
Ends(j) ==
  /\ task[j] = "exec" /\ Kind[j] = "script"
  /\ GoTo(j, "after")
  /\ state'.job[j].status = "completed"
  /\ state'.job[j].attempt = state.job[j].attempt
  /\ jobLog' = [jobLog EXCEPT ![j] = @ \cup {"job_completed"}]
  /\ \/ state'.run = state.run
     \/ /\ state'.run = "completed"
        /\ \A k \in Jobs : state'.job[k].status \in {"completed", "inactive"}
  /\ runLog' = IF state'.run = "completed" THEN runLog \cup {"run_completed"} ELSE runLog
  /\ OthersReleased(j, state'.job)
  /\ UNCHANGED <<snap, ctl>>

(* The next step of the job, in a later batch.                              *)
Proceeds(j) ==
  /\ task[j] = "advance"
  /\ state'.job[j].status = state.job[j].status
  /\ state'.job[j].attempt = state.job[j].attempt
  /\ state'.run = state.run
  /\ OthersKept(j)
  /\ Finish(j, TRUE)
  /\ UNCHANGED <<jobLog, runLog>>

Row(j) == \/ Begins(j) \/ Looks(j) \/ Stops(j) \/ Fails(j) \/ Continues(j)
          \/ Retries(j) \/ Announces(j) \/ Completes(j)
          \/ Moves(j) \/ Breaks(j) \/ Ends(j) \/ Proceeds(j)

(* A script that has left its executor writes nothing more of its own.      *)
LEMMA AfterMoves ==
  ASSUME NEW j \in Jobs, Row(j), task[j] = "after"
  PROVE  Moves(j)
  BY DEF Row, Begins, Looks, Stops, Fails, Continues, Retries, Announces, Completes,
         Breaks, Ends, Proceeds

(* What the copy of a task is after its step.                               *)
LEMMA RowCopies ==
  ASSUME NEW j \in Jobs, Row(j), snap \in [Jobs -> RunState]
  PROVE  snap'[j] \in {snap[j], state, state', InitState}
  BY DEF Row, Begins, Looks, Stops, Fails, Continues, Retries, Announces, Completes,
         Moves, Breaks, Ends, Proceeds, Finish, Read

(* Releasing jobs leaves alone what is not waiting.                         *)
LEMMA Propagated ==
  ASSUME NEW js \in JobsMap, NEW other
  PROVE  \A k \in Jobs :
           LET t == PropagateReadiness(js, ReadyJobs(other))
           IN  \/ t[k] = js[k]
               \/ /\ js[k].status = "waiting"
                  /\ t[k] = [js[k] EXCEPT !.status = "ready"]
                  /\ t[k].status = "ready"
                  /\ \A d \in Needs[k] : NeedMet(other, d)
  BY DEF PropagateReadiness, ReadyJobs, JobsMap, JobRecord

(* What the completion of j does to the run and to the other jobs, when rec *)
(* is its completed record.                                                 *)
LEMMA CompletionEffect ==
  ASSUME NEW s \in RunState, NEW j \in Jobs, NEW t,
         NEW rec \in JobRecord, rec.status = "completed", rec.attempt = s.job[j].attempt,
         t = LET done == [s.job EXCEPT ![j] = rec]
                 js   == PropagateReadiness(done, ReadyJobs(done))
             IN  [run |-> IF \A k \in Jobs : js[k].status \in {"completed", "inactive"}
                          THEN "completed" ELSE s.run,
                  job |-> js]
  PROVE  /\ t.job[j].status = "completed"
         /\ t.job[j].attempt = s.job[j].attempt
         /\ \/ t.run = s.run
            \/ /\ t.run = "completed"
               /\ \A k \in Jobs : t.job[k].status \in {"completed", "inactive"}
         /\ \A k \in Jobs \ {j} :
              \/ t.job[k] = s.job[k]
              \/ /\ s.job[k].status = "waiting"
                 /\ t.job[k] = [s.job[k] EXCEPT !.status = "ready"]
                 /\ t.job[k].status = "ready"
                 /\ \A d \in Needs[k] : NeedMet(t.job, d)
  <1> DEFINE done == [s.job EXCEPT ![j] = rec]
             js == PropagateReadiness(done, ReadyJobs(done))
  <1>2. /\ done \in JobsMap /\ done[j] = rec
        /\ \A k \in Jobs \ {j} : done[k] = s.job[k]
    BY Parts DEF JobsMap
  <1>3. \A k \in Jobs :
          \/ js[k] = done[k]
          \/ /\ done[k].status = "waiting"
             /\ js[k] = [done[k] EXCEPT !.status = "ready"]
             /\ js[k].status = "ready"
             /\ \A d \in Needs[k] : NeedMet(done, d)
    BY <1>2, Propagated
  <1>4. t = [run |-> IF \A k \in Jobs : js[k].status \in {"completed", "inactive"}
                     THEN "completed" ELSE s.run,
             job |-> js]
    OBVIOUS
  <1> HIDE DEF js
  <1>5. \A d \in Jobs : NeedMet(done, d) => NeedMet(js, d)
    BY <1>3 DEF NeedMet
  <1>6. \A k \in Jobs : Needs[k] \subseteq Jobs
    BY WorkflowAssumption
  <1>7. js[j] = rec
    BY <1>2, <1>3
  <1>8. \A k \in Jobs \ {j} :
                  \/ js[k] = s.job[k]
                  \/ /\ s.job[k].status = "waiting"
                     /\ js[k] = [s.job[k] EXCEPT !.status = "ready"]
                     /\ js[k].status = "ready"
                     /\ \A d \in Needs[k] : NeedMet(js, d)
    BY <1>2, <1>3, <1>5, <1>6
  <1> HIDE DEF done
  <1> QED BY <1>4, <1>7, <1>8

(* transitionCompletedJob completes j.                                      *)
LEMMA CompleteJobEffect ==
  ASSUME NEW s \in RunState, NEW j \in Jobs
  PROVE  LET t == CompleteJob(s, j)
         IN  /\ t.job[j].status = "completed"
             /\ t.job[j].attempt = s.job[j].attempt
             /\ \/ t.run = s.run
                \/ /\ t.run = "completed"
                   /\ \A k \in Jobs : t.job[k].status \in {"completed", "inactive"}
             /\ \A k \in Jobs \ {j} :
                  \/ t.job[k] = s.job[k]
                  \/ /\ s.job[k].status = "waiting"
                     /\ t.job[k] = [s.job[k] EXCEPT !.status = "ready"]
                     /\ t.job[k].status = "ready"
                     /\ \A d \in Needs[k] : NeedMet(t.job, d)
  <1> DEFINE rec == [SealSuccess(s.job[j]) EXCEPT !.status = "completed", !.step = 0]
             t == CompleteJob(s, j)
  <1>1. /\ rec \in JobRecord /\ rec.status = "completed"
        /\ rec.attempt = s.job[j].attempt
    <2>1. /\ s.job[j] \in JobRecord
          /\ SealSuccess(s.job[j]) \in JobRecord
          /\ SealSuccess(s.job[j]).attempt = s.job[j].attempt
      BY Parts, RecordType DEF SealSuccess, JobRecord
    <2> QED BY <2>1 DEF JobRecord, JobStatus
  <1>2. t = LET done == [s.job EXCEPT ![j] = rec]
                js   == PropagateReadiness(done, ReadyJobs(done))
            IN  [run |-> IF \A k \in Jobs : js[k].status \in {"completed", "inactive"}
                         THEN "completed" ELSE s.run,
                 job |-> js]
    BY DEF CompleteJob
  <1> HIDE DEF rec, t
  <1>3. /\ t.job[j].status = "completed"
        /\ t.job[j].attempt = s.job[j].attempt
        /\ \/ t.run = s.run
           \/ /\ t.run = "completed"
              /\ \A k \in Jobs : t.job[k].status \in {"completed", "inactive"}
        /\ \A k \in Jobs \ {j} :
             \/ t.job[k] = s.job[k]
             \/ /\ s.job[k].status = "waiting"
                /\ t.job[k] = [s.job[k] EXCEPT !.status = "ready"]
                /\ t.job[k].status = "ready"
                /\ \A d \in Needs[k] : NeedMet(t.job, d)
    BY <1>1, <1>2, CompletionEffect
  <1> QED BY <1>3 DEF t

(* The record of j has been replaced, and no other.                         *)
Wrote(j, rec) == state'.job[j] = rec /\ OthersKept(j)

(* A write of j's record into the state leaves the others and the run alone.*)
LEMMA SetJobWrote ==
  ASSUME state \in RunState, NEW j \in Jobs, NEW rec \in JobRecord,
         state' = SetJob(state, j, rec)
  PROVE  Wrote(j, rec) /\ state'.run = state.run
  <1> DEFINE t == SetJob(state, j, rec)
  <1>1. /\ t.run = state.run /\ t.job[j] = rec
        /\ \A k \in Jobs \ {j} : t.job[k] = state.job[k]
    BY SetJobType
  <1>2. state' = t
    OBVIOUS
  <1> HIDE DEF t
  <1> QED BY <1>1, <1>2 DEF Wrote, OthersKept

(* Every step of a task is one of the rows.                                 *)
LEMMA TaskRow ==
  ASSUME TypeOK, OwnsRecord, NEW j \in Jobs, Task(j)
  PROVE  Row(j) /\ UNCHANGED untouched
  <1> DEFINE rec == state.job[j]
             old == snap[j].job[j]
  <1>0. /\ state \in RunState /\ snap[j] \in RunState
        /\ rec \in JobRecord /\ old \in JobRecord
        /\ rec.attempt \in Nat /\ rec.step \in Nat
        /\ Kind[j] \in {"agent", "script"} /\ Steps[j] \in Nat \ {0}
        /\ task[j] \in TaskPoint
    BY Parts, WorkflowAssumption DEF TypeOK, JobRecord
  <1>u. UNCHANGED untouched
    BY DEF Task, AgentTask, AdvanceTask, ScriptTask, StartFails, AgentStart, AgentFail,
           AgentCancelled, AgentSucceed, RecordConfigFailure, RecordRetryableFailure,
           RecordToleratedFailure, RecordFinalFailure, RecordFailureWithoutAttempts,
           ContinueRead, ContinueWrite, RetryRead, RetryWrite, AdvanceRead,
           AdvanceNothing, AdvanceStep, AppendJobCompleted, CommitJobCompleted,
           ScriptRead, ScriptStart, ScriptStepEnd, ScriptComplete, ScriptFail, ScriptAfter
  <1>1. CASE AgentStart(j)
    <2> DEFINE new == [rec EXCEPT !.status  = "running",
                                  !.step    = IF @ = 0 THEN 1 ELSE @,
                                  !.attempt = AttemptOf(state.job[j])]
    <2>1. /\ new \in JobRecord /\ new.status = "running"
          /\ new.attempt = AttemptOf(rec)
      BY <1>0, RecordType DEF JobRecord, JobStatus
    <2>2. state' = SetJob(state, j, new)
      BY <1>1 DEF AgentStart
    <2> HIDE DEF new
    <2>3. Wrote(j, new) /\ state'.run = state.run
      BY <1>0, <2>1, <2>2, SetJobWrote
    <2>4. /\ task[j] = "start" /\ Kind[j] = "agent" /\ GoTo(j, "exec")
          /\ UNCHANGED <<jobLog, runLog, snap, ctl>>
      BY <1>1 DEF AgentStart, At
    <2>5. Begins(j)
      BY <2>1, <2>3, <2>4 DEF Begins, Wrote
    <2> QED BY <1>u, <2>5 DEF Row
  <1>2. CASE \/ StartFails(j) \/ AgentFail(j) \/ AgentSucceed(j) \/ ContinueRead(j)
             \/ RetryRead(j)
    <2>1. Looks(j)
      <3>1. CASE AgentFail(j)
        BY <3>1, RunAllAssumption DEF AgentFail, Looks, At, CopiedAt, RunningAt, shared
      <3>2. CASE AgentSucceed(j)
        BY <3>2 DEF AgentSucceed, Looks, At, CopiedAt, RunningAt, shared
      <3>3. CASE ContinueRead(j)
        BY <3>3 DEF ContinueRead, Looks, At, CopiedAt, shared
      <3>4. CASE RetryRead(j)
        <4>1. rec.status = "failed"
          BY <3>4 DEF RetryRead, At, OwnsRecord, Owned, FailedAt
        <4> QED BY <3>4, <4>1 DEF RetryRead, Retryable, Looks, At, CopiedAt, shared
      <3>5. CASE StartFails(j)
        BY <3>5 DEF StartFails, Looks, At, CopiedAt, shared
      <3> QED BY <1>2, <3>1, <3>2, <3>3, <3>4, <3>5
    <2> QED BY <1>u, <2>1 DEF Row
  <1>3. CASE AgentCancelled(j)
    <2>1. Stops(j)
      BY <1>3 DEF AgentCancelled, Stops, At
    <2> QED BY <1>u, <2>1 DEF Row
  <1>4. CASE RecordConfigFailure(j)
    <2> DEFINE new == [SealFailure(rec) EXCEPT !.status = "failed"]
    <2>1. new \in JobRecord /\ new.status = "failed" /\ new.attempt = rec.attempt
      BY <1>0, RecordType DEF JobRecord, JobStatus, SealFailure
    <2>2. state' = [SetJob(state, j, new) EXCEPT !.run = "failed"]
      BY <1>4 DEF RecordConfigFailure
    <2> HIDE DEF new
    <2>3. /\ SetJob(state, j, new) \in RunState
          /\ state'.job = SetJob(state, j, new).job
          /\ state'.run = "failed"
      BY <1>0, <2>1, <2>2, SetJobType DEF RunState
    <2>4. Wrote(j, new)
      <3>1. /\ SetJob(state, j, new).job[j] = new
            /\ \A k \in Jobs \ {j} : SetJob(state, j, new).job[k] = state.job[k]
        BY <1>0, <2>1, SetJobType
      <3> QED BY <2>3, <3>1 DEF Wrote, OthersKept
    <2>5. /\ task[j] = "failConfig" /\ Finish(j, FALSE)
          /\ runLog' = runLog \cup {"run_failed"} /\ jobLog' = jobLog
      BY <1>4 DEF RecordConfigFailure, At
    <2>6. Fails(j)
      BY <2>1, <2>3, <2>4, <2>5 DEF Fails, Wrote
    <2> QED BY <1>u, <2>6 DEF Row
  <1>5. CASE RecordRetryableFailure(j)
    <2>1. /\ state' = SetStatus(state, j, "failed")
          /\ state'.job[j].attempt = rec.attempt
      BY <1>0, <1>5 DEF RecordRetryableFailure, SetStatus, RunState, JobsMap, JobRecord
    <2>2. /\ state'.job[j].status = "failed" /\ state'.run = state.run
          /\ OthersKept(j)
      <3>1. /\ SetStatus(state, j, "failed").run = state.run
            /\ SetStatus(state, j, "failed").job[j].status = "failed"
            /\ \A k \in Jobs \ {j} : SetStatus(state, j, "failed").job[k] = state.job[k]
        BY <1>0, SetStatusType DEF JobStatus
      <3> QED BY <2>1, <3>1 DEF OthersKept
    <2>3. /\ task[j] \in {"fail", "failReport"} /\ AttemptsLeft(j)
          /\ GoTo(j, "retry") /\ UNCHANGED <<jobLog, runLog, snap, ctl>>
      BY <1>5 DEF RecordRetryableFailure, At
    <2>4. Fails(j)
      BY <2>1, <2>2, <2>3 DEF Fails
    <2> QED BY <1>u, <2>4 DEF Row
  <1>6. CASE RecordToleratedFailure(j)
    <2> DEFINE new == [rec EXCEPT !.status = "failed", !.last = SealFailure(old).last]
    <2>1. new \in JobRecord /\ new.status = "failed" /\ new.attempt = rec.attempt
      BY <1>0, RecordType DEF JobRecord, JobStatus
    <2>2. state' = SetJob(state, j, new)
      BY <1>6 DEF RecordToleratedFailure
    <2> HIDE DEF new
    <2>3. FailurePolicy[j] = "continue"
      BY <1>6, WorkflowAssumption DEF RecordToleratedFailure, JobConclusion
    <2>4. /\ task[j] \in {"fail", "failReport"}
          /\ jobLog' = [jobLog EXCEPT ![j] = @ \cup {"job_failed"}]
          /\ runLog' = runLog
          /\ \/ Finish(j, FALSE)
             \/ GoTo(j, "contRead") /\ UNCHANGED <<snap, ctl>>
      <3>1. /\ At(j, "fail") \/ At(j, "failReport")
            /\ jobLog' = [jobLog EXCEPT ![j] = @ \cup {"job_failed"}]
            /\ IF At(j, "fail")
               THEN GoTo(j, "contRead") /\ UNCHANGED <<snap, ctl>>
               ELSE Finish(j, FALSE)
            /\ runLog' = runLog
        BY <1>6, Zenon DEF RecordToleratedFailure
      <3> QED BY <3>1 DEF At
    <2>5. Wrote(j, new) /\ state'.run = state.run
      <3>1. /\ SetJob(state, j, new).run = state.run
            /\ SetJob(state, j, new).job[j] = new
            /\ \A k \in Jobs \ {j} : SetJob(state, j, new).job[k] = state.job[k]
        BY <1>0, <2>1, SetJobType
      <3> QED BY <2>2, <3>1 DEF Wrote, OthersKept
    <2>6. Fails(j)
      BY <2>1, <2>3, <2>4, <2>5 DEF Fails, Wrote
    <2> QED BY <1>u, <2>6 DEF Row
  <1>7. CASE RecordFinalFailure(j)
    <2> DEFINE end == TerminalStatus(j, SealFailure(old))
               new == [rec EXCEPT !.status = end, !.last = SealFailure(old).last]
    <2>1. end \in {"failed", "blocked"}
      BY WorkflowAssumption DEF TerminalStatus
    <2>2. new \in JobRecord /\ new.status = end /\ new.attempt = rec.attempt
      BY <1>0, <2>1, RecordType DEF JobRecord, JobStatus
    <2>3. state' = [SetJob(state, j, new) EXCEPT !.run = end]
      BY <1>7 DEF RecordFinalFailure
    <2> HIDE DEF new, end
    <2>4. /\ SetJob(state, j, new) \in RunState
          /\ state'.job = SetJob(state, j, new).job
          /\ state'.run = end
      BY <1>0, <2>1, <2>2, <2>3, SetJobType DEF RunState
    <2>5. /\ task[j] \in {"fail", "failReport"}
          /\ \E e \in {"job_failed", "job_blocked"} :
               jobLog' = [jobLog EXCEPT ![j] = @ \cup {e}]
          /\ runLog' = runLog
          /\ Finish(j, FALSE)
      BY <1>7 DEF RecordFinalFailure, At
    <2>6. Wrote(j, new)
      <3>1. /\ SetJob(state, j, new).job[j] = new
            /\ \A k \in Jobs \ {j} : SetJob(state, j, new).job[k] = state.job[k]
        BY <1>0, <2>2, SetJobType
      <3> QED BY <2>4, <3>1 DEF Wrote, OthersKept
    <2>7. Fails(j)
      BY <2>1, <2>2, <2>4, <2>5, <2>6 DEF Fails, Wrote
    <2> QED BY <1>u, <2>7 DEF Row
  <1>8. CASE RecordFailureWithoutAttempts(j)
    <2>1. state' = [SetStatus(state, j, "failed") EXCEPT !.run = "failed"]
      BY <1>8 DEF RecordFailureWithoutAttempts
    <2>2. /\ SetStatus(state, j, "failed") \in RunState
          /\ state'.job = SetStatus(state, j, "failed").job
          /\ state'.run = "failed"
          /\ state'.job[j].attempt = rec.attempt
      BY <1>0, <2>1 DEF SetStatus, RunState, JobsMap, JobRecord, JobStatus
    <2>3. state'.job[j].status = "failed" /\ OthersKept(j)
      BY <1>0, <2>2, SetStatusType DEF OthersKept, JobStatus
    <2>4. /\ task[j] \in {"fail", "failReport"} /\ Finish(j, FALSE)
          /\ jobLog' = [jobLog EXCEPT ![j] = @ \cup {"job_failed"}]
          /\ runLog' = runLog
      BY <1>8 DEF RecordFailureWithoutAttempts, At
    <2>5. Fails(j)
      BY <2>2, <2>3, <2>4 DEF Fails
    <2> QED BY <1>u, <2>5 DEF Row
  <1>9. CASE ContinueWrite(j)
    <2>1. /\ state'.job = PropagateReadiness(state.job, ReadyJobs(snap[j].job))
          /\ state'.run = state.run
          /\ state.job \in JobsMap
      BY <1>0, <1>9 DEF ContinueWrite, RunState
    <2>2. rec.status = "failed" /\ task[j] = "contWrite"
      BY <1>9 DEF ContinueWrite, At, OwnsRecord, Owned, FailedAt
    <2>a. \A k \in Jobs :
            \/ state'.job[k] = state.job[k]
            \/ /\ state.job[k].status = "waiting"
               /\ state'.job[k] = [state.job[k] EXCEPT !.status = "ready"]
               /\ \A d \in Needs[k] : NeedMet(snap[j].job, d)
      <3> DEFINE js == state.job
                 other == snap[j].job
      <3>1. js \in JobsMap
        BY <2>1
      <3> HIDE DEF js, other
      <3>2. \A k \in Jobs :
           LET t == PropagateReadiness(js, ReadyJobs(other))
           IN  \/ t[k] = js[k]
               \/ /\ js[k].status = "waiting"
                  /\ t[k] = [js[k] EXCEPT !.status = "ready"]
                  /\ \A d \in Needs[k] : NeedMet(other, d)
        BY <3>1, Propagated
      <3> QED BY <2>1, <3>2 DEF js, other
    <2>3. state'.job[j] = state.job[j] /\ OthersReleased(j, snap[j].job)
      BY <2>2, <2>a DEF OthersReleased
    <2>4. Continues(j)
      BY <1>9, <2>1, <2>2, <2>3 DEF ContinueWrite, Continues
    <2> QED BY <1>u, <2>4 DEF Row
  <1>10. CASE RetryWrite(j)
    <2> DEFINE new == [status  |-> "ready", attempt |-> AttemptOf(old) + 1,
                       last    |-> "open",  step    |-> 0]
    <2>1. /\ new \in JobRecord /\ new.status = "ready"
          /\ new.attempt = AttemptOf(old) + 1
      BY <1>0, RecordType DEF JobRecord, JobStatus
    <2>2. state' = SetJob(state, j, new)
      BY <1>10 DEF RetryWrite
    <2>3. old = rec /\ task[j] = "retryWrite"
      BY <1>10 DEF RetryWrite, At, OwnsRecord, Owned, CopiedAt
    <2> HIDE DEF new
    <2>4. Wrote(j, new) /\ state'.run = state.run
      BY <1>0, <2>1, <2>2, SetJobWrote
    <2>5. Finish(j, FALSE) /\ UNCHANGED <<jobLog, runLog>>
      BY <1>10 DEF RetryWrite
    <2>6. Retries(j)
      BY <2>1, <2>3, <2>4, <2>5 DEF Retries, Wrote
    <2> QED BY <1>u, <2>6 DEF Row
  <1>11. CASE AdvanceTask(j)
    <2>1. task[j] = "advance" => old.status = "running"
      BY <1>0 DEF OwnsRecord, Owned, RunningAt, CopiedAt
    <2>2. CASE AdvanceRead(j)
      <3>1. Looks(j)
        BY <2>2 DEF AdvanceRead, Looks, At, CopiedAt, RunningAt, shared
      <3> QED BY <1>u, <3>1 DEF Row
    <2>3. CASE AppendJobCompleted(j)
      <3>1. /\ task[j] = "advance"
            /\ GoTo(j, "commit")
            /\ jobLog' = [jobLog EXCEPT ![j] = @ \cup {"job_completed"}]
            /\ runLog' = IF CompleteJob(snap[j], j).run = "completed"
                         THEN runLog \cup {"run_completed"} ELSE runLog
            /\ UNCHANGED <<state, snap, ctl>>
        BY <2>3 DEF AppendJobCompleted, AdvanceLive, At
      <3>2. CompleteJob(snap[j], j).run = "completed" =>
              \/ snap[j].run = "completed"
              \/ \A k \in Jobs \ {j} : snap[j].job[k].status \in {"completed", "inactive"}
        BY <1>0, CompleteJobEffect
      <3>3. Announces(j)
        BY <3>1, <3>2 DEF Announces
      <3> QED BY <1>u, <3>3 DEF Row
    <2>4. CASE CommitJobCompleted(j)
      <3>1. /\ state' = CompleteJob(state, j) /\ task[j] = "commit"
            /\ Finish(j, TRUE) /\ UNCHANGED <<jobLog, runLog>>
        BY <2>4 DEF CommitJobCompleted, At
      <3>2. /\ state'.job[j].status = "completed"
            /\ state'.job[j].attempt = state.job[j].attempt
            /\ \/ state'.run = state.run
               \/ /\ state'.run = "completed"
                  /\ \A k \in Jobs : state'.job[k].status \in {"completed", "inactive"}
            /\ \A k \in Jobs \ {j} :
                 \/ state'.job[k] = state.job[k]
                 \/ /\ state.job[k].status = "waiting"
                    /\ state'.job[k] = [state.job[k] EXCEPT !.status = "ready"]
                    /\ \A d \in Needs[k] : NeedMet(state'.job, d)
        <4> DEFINE t == CompleteJob(state, j)
        <4>1. /\ t.job[j].status = "completed"
              /\ t.job[j].attempt = state.job[j].attempt
              /\ \/ t.run = state.run
                 \/ /\ t.run = "completed"
                    /\ \A k \in Jobs : t.job[k].status \in {"completed", "inactive"}
              /\ \A k \in Jobs \ {j} :
                   \/ t.job[k] = state.job[k]
                   \/ /\ state.job[k].status = "waiting"
                      /\ t.job[k] = [state.job[k] EXCEPT !.status = "ready"]
                      /\ \A d \in Needs[k] : NeedMet(t.job, d)
          BY <1>0, CompleteJobEffect
        <4>2. state' = t
          BY <3>1
        <4> HIDE DEF t
        <4> QED BY <4>1, <4>2
      <3>3. Completes(j)
        BY <3>1, <3>2, Zenon DEF Completes, OthersReleased
      <3> QED BY <1>u, <3>3 DEF Row
    <2>5. ~AdvanceNothing(j)
      BY <2>1 DEF AdvanceNothing, At
    <2>6. CASE AdvanceStep(j)
      <3> DEFINE new == [rec EXCEPT !.step = StepIndex(rec) + 1]
      <3>1. /\ task[j] = "advance" /\ StepIndex(old) < Steps[j]
            /\ state' = SetJob(snap[j], j, [old EXCEPT !.step = StepIndex(old) + 1])
            /\ Finish(j, TRUE) /\ UNCHANGED <<jobLog, runLog>>
        BY <2>6 DEF AdvanceStep, AdvanceLive, At
      <3>2. snap[j] = state /\ state' = SetJob(state, j, new)
        BY <3>1 DEF OwnsRecord, Owned, WritesCopy
      <3>3. new \in JobRecord /\ new.status = rec.status /\ new.attempt = rec.attempt
        BY <1>0, RecordType DEF JobRecord
      <3> HIDE DEF new
      <3>4. Wrote(j, new) /\ state'.run = state.run
        BY <1>0, <3>2, <3>3, SetJobWrote
      <3>5. Proceeds(j)
        BY <3>1, <3>3, <3>4 DEF Proceeds, Wrote
      <3> QED BY <1>u, <3>5 DEF Row
    <2> QED
      BY <1>11, <2>2, <2>3, <2>4, <2>5, <2>6 DEF AdvanceTask
  <1>12. CASE ScriptRead(j)
    <2>1. Looks(j)
      BY <1>12 DEF ScriptRead, Looks, At, CopiedAt, shared
    <2> QED BY <1>u, <2>1 DEF Row
  <1>13. CASE ScriptStart(j)
    <2> DEFINE new == [rec EXCEPT !.status  = "running",
                                  !.step    = StepIndex(rec),
                                  !.attempt = AttemptOf(rec)]
    <2>1. new \in JobRecord /\ new.status = "running" /\ new.attempt = AttemptOf(rec)
      BY <1>0, RecordType DEF JobRecord, JobStatus
    <2>2. /\ task[j] = "begin" /\ GoTo(j, "exec")
          /\ snap' = [snap EXCEPT ![j] = RunningState(j)] /\ state' = RunningState(j)
          /\ UNCHANGED <<jobLog, runLog, ctl>>
      BY <1>13 DEF ScriptStart, At
    <2>3. state' = SetJob(state, j, new)
      <3>1. snap[j] = state
        BY <2>2 DEF OwnsRecord, Owned, WritesCopy
      <3> QED BY <2>2, <3>1 DEF RunningState
    <2> HIDE DEF new
    <2>4. Wrote(j, new) /\ state'.run = state.run
      <3>1. /\ SetJob(state, j, new).run = state.run
            /\ SetJob(state, j, new).job[j] = new
            /\ \A k \in Jobs \ {j} : SetJob(state, j, new).job[k] = state.job[k]
        BY <1>0, <2>1, SetJobType
      <3> QED BY <2>3, <3>1 DEF Wrote, OthersKept
    <2>5. Begins(j)
      BY <2>1, <2>2, <2>4 DEF Begins, Wrote
    <2> QED BY <1>u, <2>5 DEF Row
  <1>14. CASE ScriptStepEnd(j) \/ ScriptAfter(j)
    <2>1. CASE ScriptStepEnd(j)
      <3>1. snap[j] = state
        BY <2>1 DEF ScriptStepEnd, At, OwnsRecord, Owned, WritesCopy
      <3>2. Moves(j)
        BY <2>1, <3>1 DEF ScriptStepEnd, Moves, At
      <3> QED BY <1>u, <3>2 DEF Row
    <2>2. CASE ScriptAfter(j)
      <3>1. Moves(j)
        BY <2>2 DEF ScriptAfter, Moves, At, shared, OwnsRecord, Owned
      <3> QED BY <1>u, <3>1 DEF Row
    <2> QED BY <1>14, <2>1, <2>2
  <1>15. CASE ScriptComplete(j)
    <2> DEFINE new == [rec EXCEPT !.status = "completed"]
               t == ScriptFinalState(j)
    <2>1. snap[j] = state
      BY <1>15 DEF ScriptComplete, At, OwnsRecord, Owned, WritesCopy
    <2>2. new \in JobRecord /\ new.status = "completed" /\ new.attempt = rec.attempt
      BY <1>0 DEF JobRecord, JobStatus
    <2>3. t = LET done == [state.job EXCEPT ![j] = new]
                  js   == PropagateReadiness(done, ReadyJobs(done))
              IN  [run |-> IF \A k \in Jobs : js[k].status \in {"completed", "inactive"}
                           THEN "completed" ELSE state.run,
                   job |-> js]
      BY <2>1 DEF ScriptFinalState
    <2>4. /\ task[j] = "exec" /\ Kind[j] = "script" /\ GoTo(j, "after")
          /\ jobLog' = [jobLog EXCEPT ![j] = @ \cup {"job_completed"}]
          /\ state' = t
          /\ runLog' = IF t.run = "completed" THEN runLog \cup {"run_completed"} ELSE runLog
          /\ UNCHANGED <<snap, ctl>>
      BY <1>15 DEF ScriptComplete, At
    <2> HIDE DEF new, t
    <2>a. state \in RunState /\ new.attempt = state.job[j].attempt
      BY <1>0, <2>2
    <2>5. /\ t.job[j].status = "completed"
          /\ t.job[j].attempt = state.job[j].attempt
          /\ \/ t.run = state.run
             \/ /\ t.run = "completed"
                /\ \A k \in Jobs : t.job[k].status \in {"completed", "inactive"}
          /\ \A k \in Jobs \ {j} :
               \/ t.job[k] = state.job[k]
               \/ /\ state.job[k].status = "waiting"
                  /\ t.job[k] = [state.job[k] EXCEPT !.status = "ready"]
                  /\ t.job[k].status = "ready"
                  /\ \A d \in Needs[k] : NeedMet(t.job, d)
      BY <2>2, <2>3, <2>a, CompletionEffect
    <2>6. Ends(j)
      BY <2>4, <2>5, Zenon DEF Ends, OthersReleased
    <2> QED BY <1>u, <2>6 DEF Row
  <1>16. CASE ScriptFail(j)
    <2>1. /\ task[j] = "exec" /\ Kind[j] = "script" /\ GoTo(j, "after")
          /\ ScriptOnFailure \in {"failed", "blocked"}
          /\ state' = SetStatus(snap[j], j, ScriptOnFailure)
          /\ UNCHANGED <<jobLog, runLog, snap, ctl>>
      BY <1>16, RunAllAssumption DEF ScriptFail, At
    <2>2. snap[j] = state
      BY <2>1 DEF OwnsRecord, Owned, WritesCopy
    <2>3. state'.job[j].attempt = rec.attempt
      BY <1>0, <2>1, <2>2 DEF SetStatus, RunState, JobsMap, JobRecord
    <2>4. state'.job[j].status = ScriptOnFailure /\ state'.run = state.run /\ OthersKept(j)
      <3>1. /\ SetStatus(state, j, ScriptOnFailure).run = state.run
            /\ SetStatus(state, j, ScriptOnFailure).job[j].status = ScriptOnFailure
            /\ \A k \in Jobs \ {j} :
                 SetStatus(state, j, ScriptOnFailure).job[k] = state.job[k]
        <4>1. state \in RunState /\ ScriptOnFailure \in JobStatus
          BY <1>0, <2>1 DEF JobStatus
        <4> QED BY <4>1, SetStatusType
      <3> QED BY <2>1, <2>2, <3>1 DEF OthersKept
    <2>5. Breaks(j)
      BY <2>1, <2>3, <2>4 DEF Breaks
    <2> QED BY <1>u, <2>5 DEF Row
  <1> QED
    BY <1>1, <1>2, <1>3, <1>4, <1>5, <1>6, <1>7, <1>8, <1>9, <1>10, <1>11, <1>12, <1>13,
       <1>14, <1>15, <1>16
    DEF Task, AgentTask, ScriptTask

(* ----------------------- who writes a job's record -----------------------*)

(* The loop touches only waiting jobs: it releases them, or blocks them when*)
(* it fails the run.                                                        *)
LEMMA JobsTouched ==
  ASSUME TypeOK, TasksInBatch, MainLoop
  PROVE  \A j \in Jobs :
           \/ state'.job[j] = state.job[j]
           \/ /\ state.job[j].status = "waiting"
              /\ loop # "batch"
              /\ \/ /\ state'.job[j] = [state.job[j] EXCEPT !.status = "ready"]
                    /\ \A d \in Needs[j] : NeedMet(state.job, d)
                 \/ /\ state'.job[j] = [state.job[j] EXCEPT !.status = "blocked"]
                    /\ state'.run = "failed"
  <1>0. state \in RunState /\ state.job \in JobsMap
    BY Parts DEF TypeOK
  <1>1. CASE LoopStop \/ Dispatch \/ LoopExitIdle
    BY <1>1 DEF LoopStop, Dispatch, LoopExitIdle, shared
  <1>2. CASE LoopReconcile \/ PostReconcile \/ BatchSettled \/ PostCancel
    BY <1>0, <1>2 DEF LoopReconcile, PostReconcile, BatchSettled, PostCancel, RunState
  <1>3. CASE Revive
    <2>1. /\ state'.job = PropagateReadiness(state.job, ReadyJobs(state.job))
          /\ loop = "read"
      BY <1>0, <1>3 DEF Revive, RunState, NothingToRun, LoopGoesOn
    <2>2. \A k \in Jobs :
           LET t == PropagateReadiness(state.job, ReadyJobs(state.job))
           IN  \/ t[k] = state.job[k]
               \/ /\ state.job[k].status = "waiting"
                  /\ t[k] = [state.job[k] EXCEPT !.status = "ready"]
                  /\ \A d \in Needs[k] : NeedMet(state.job, d)
      <3> DEFINE js == state.job
      <3>1. js \in JobsMap
        BY <1>0
      <3> HIDE DEF js
      <3>2. \A k \in Jobs :
           LET t == PropagateReadiness(js, ReadyJobs(js))
           IN  \/ t[k] = js[k]
               \/ /\ js[k].status = "waiting"
                  /\ t[k] = [js[k] EXCEPT !.status = "ready"]
                  /\ \A d \in Needs[k] : NeedMet(js, d)
        BY <3>1, Propagated
      <3> QED BY <3>2 DEF js
    <2> QED BY <2>1, <2>2
  <1>4. CASE BlockStuckJobs
    <2> DEFINE stuck == IF state.run = "cancelled" THEN {} ELSE StuckJobs(state.job)
    <2>1. /\ loop = "settle"
          /\ \/ state' = state
             \/ state' = [run |-> "failed",
                          job |-> [j \in Jobs |->
                             IF j \in stuck
                             THEN [state.job[j] EXCEPT !.status = "blocked"]
                             ELSE state.job[j]]]
      BY <1>4 DEF BlockStuckJobs, shared
    <2>2. \A j \in stuck : state.job[j].status = "waiting"
      BY DEF StuckJobs, WithStatus
    <2> HIDE DEF stuck
    <2> QED BY <2>1, <2>2
  <1> QED BY <1>1, <1>2, <1>3, <1>4 DEF MainLoop

(* What a task step of j leaves alone of the other jobs and their tasks.    *)
LEMMA RowOthers ==
  ASSUME TypeOK, NEW j \in Jobs, Row(j)
  PROVE  /\ task[j] # "idle"
         /\ \A k \in Jobs \ {j} :
              /\ task'[k] = task[k]
              /\ snap'[k] = snap[k]
              /\ \/ state'.job[k] = state.job[k]
                 \/ /\ state.job[k].status = "waiting"
                    /\ state'.job[k].status = "ready"
                    /\ state'.job[k].attempt = state.job[k].attempt
  <1>0. /\ state \in RunState
        /\ \A k \in Jobs : state.job[k] \in JobRecord
        /\ task \in [Jobs -> TaskPoint] /\ snap \in [Jobs -> RunState]
    BY Parts DEF TypeOK
  <1>1. task[j] # "idle"
    BY DEF Row, Begins, Looks, Stops, Fails, Continues, Retries, Announces, Completes,
           Moves, Breaks, Ends, Proceeds
  <1>2. PICK p : task' = [task EXCEPT ![j] = p]
    BY DEF Row, Begins, Looks, Stops, Fails, Continues, Retries, Announces,
           Completes, Moves, Breaks, Ends, Proceeds, GoTo, Finish
  <1>3. \A k \in Jobs \ {j} : task'[k] = task[k] /\ snap'[k] = snap[k]
    BY <1>0, <1>2 DEF Row, Begins, Looks, Stops, Fails, Continues, Retries,
       Announces, Completes, Moves, Breaks, Ends, Proceeds, Finish, Read
  <1>4. \A k \in Jobs \ {j} :
          \/ state'.job[k] = state.job[k]
          \/ /\ state.job[k].status = "waiting"
             /\ state'.job[k].status = "ready"
             /\ state'.job[k].attempt = state.job[k].attempt
    <2>1. \A k \in Jobs : /\ [state.job[k] EXCEPT !.status = "ready"].status = "ready"
                          /\ [state.job[k] EXCEPT !.status = "ready"].attempt
                               = state.job[k].attempt
      BY <1>0 DEF JobRecord
    <2> QED
      BY <1>0, <2>1 DEF Row, Begins, Looks, Stops, Fails, Continues, Retries, Announces,
         Completes, Moves, Breaks, Ends, Proceeds, OthersKept, OthersReleased, RunState
  <1> QED BY <1>1, <1>3, <1>4

(* No copy is written back beside another task.                             *)
LEMMA NoCopyBeside ==
  ASSUME Undisturbed, TypeOK, TasksInBatch, OwnsRecord, OneAtATime => Sole,
         NEW j \in Executing, NEW k \in Jobs \ {j}
  PROVE  ~WritesCopy(k)
  <1>1. CASE OneAtATime
    <2>1. task[k] = "idle"
      BY <1>1 DEF TasksInBatch, Sole, Executing
    <2> QED BY <2>1 DEF WritesCopy
  <1>2. CASE OneStepAgents
    <2>1. Kind[k] = "agent" /\ Steps[k] = 1
      BY <1>2 DEF OneStepAgents
    <2>2. ~(StepIndex(snap[k].job[k]) < 1)
      <3>1. snap[k].job[k] \in JobRecord
        BY Parts DEF TypeOK
      <3> QED BY <3>1 DEF StepIndex, JobRecord
    <2> QED BY <2>1, <2>2 DEF WritesCopy, OwnsRecord, Owned
  <1> QED BY <1>1, <1>2 DEF Undisturbed

(* Every step keeps the ownership.                                          *)
LEMMA OwnsStep ==
  ASSUME Undisturbed, TypeOK, TasksInBatch, TasksInBatch', OwnsRecord,
         OneAtATime => Sole, [Next]_vars
  PROVE  OwnsRecord'
  <1>0. /\ state \in RunState
        /\ \A j \in Jobs : state.job[j] \in JobRecord /\ state.job[j].attempt \in Nat
        /\ task \in [Jobs -> TaskPoint] /\ snap \in [Jobs -> RunState]
        /\ \A j \in Jobs : MaxAttempts[j] \in Nat \ {0}
    BY Parts, WorkflowAssumption DEF TypeOK, JobRecord
  <1>1. ASSUME \A j \in Jobs : task'[j] = "idle",
               \A j \in Jobs : state'.job[j].attempt = state.job[j].attempt
        PROVE  OwnsRecord'
    BY <1>1 DEF OwnsRecord, Owned, RunningAt, FailedAt, CopiedAt, WritesCopy
  <1>2. CASE Dispatch
    <2>1. PICK B \in Batches(state.job) :
            /\ task' = [j \in Jobs |-> IF j \in B THEN "start" ELSE "idle"]
      BY <1>2 DEF Dispatch
    <2>2. state' = state
      BY <1>2 DEF Dispatch, shared
    <2>3. \A j \in Jobs : /\ task'[j] \in {"start", "idle"}
                          /\ task'[j] = "start" => state.job[j].status \in {"ready", "running"}
      BY <2>1, Selected
    <2> QED BY <2>2, <2>3 DEF OwnsRecord, Owned, RunningAt, FailedAt, CopiedAt, WritesCopy
  <1>3. CASE MainLoop /\ ~Dispatch
    <2>1. \A j \in Jobs : task'[j] = "idle"
      <3>1. task' = task
        BY <1>3 DEF MainLoop, LoopStop, LoopExitIdle, LoopReconcile, Revive, PostCancel,
           BlockStuckJobs, PostReconcile, BatchSettled, tasks
      <3>2. loop # "batch" \/ \A j \in Jobs : task[j] = "idle"
        BY <1>3 DEF MainLoop, LoopStop, LoopExitIdle, LoopReconcile, Revive, PostCancel,
           BlockStuckJobs, PostReconcile, BatchSettled, NothingToRun, LoopGoesOn
      <3> QED BY <3>1, <3>2 DEF TasksInBatch, Executing
    <2>2. \A j \in Jobs : state'.job[j].attempt = state.job[j].attempt
      <3>1. \A j \in Jobs : \A st \in JobStatus :
              [state.job[j] EXCEPT !.status = st].attempt = state.job[j].attempt
        BY <1>0 DEF JobRecord
      <3> QED BY <1>3, <3>1, JobsTouched DEF JobStatus
    <2> QED BY <1>1, <2>1, <2>2
  <1>4. CASE Crash
    <2>1. (\A j \in Jobs : task'[j] = "idle") /\ state' = state
      BY <1>4 DEF Crash, shared
    <2> QED BY <1>1, <2>1
  <1>5. CASE Abort \/ UNCHANGED vars
    <2>1. UNCHANGED <<state, task, snap>>
      BY <1>5 DEF Abort, vars, shared, tasks
    <2> QED BY <2>1 DEF OwnsRecord, Owned, WritesCopy, StepIndex, AttemptOf
  <1>6. ASSUME NEW j \in Jobs, Task(j) PROVE OwnsRecord'
    <2>1. Row(j)
      BY <1>6, TaskRow
    <2>2. /\ task[j] # "idle"
          /\ \A k \in Jobs \ {j} :
               /\ task'[k] = task[k]
               /\ snap'[k] = snap[k]
               /\ \/ state'.job[k] = state.job[k]
                  \/ /\ state.job[k].status = "waiting"
                     /\ state'.job[k].status = "ready"
                     /\ state'.job[k].attempt = state.job[k].attempt
      BY <2>1, RowOthers
    <2>3. ASSUME NEW k \in Jobs \ {j} PROVE ~WritesCopy(k)'
      <3>1. ~WritesCopy(k)
        BY <2>2, NoCopyBeside DEF Executing
      <3> QED BY <2>2, <3>1 DEF WritesCopy, StepIndex
    <2>4. ASSUME NEW k \in Jobs \ {j} PROVE Owned(k)'
      BY <2>2, <2>3 DEF OwnsRecord, Owned, CopiedAt, RunningAt, FailedAt, AttemptOf
    <2>5. Owned(j)'
      <3>0. Owned(j)
        BY DEF OwnsRecord
      <3>1. CASE Begins(j)
        BY <1>0, <3>0, <3>1
           DEF Begins, GoTo, Owned, WritesCopy, CopiedAt, RunningAt, FailedAt, AttemptOf
      <3>2. CASE Looks(j)
        BY <1>0, <3>0, <3>2
           DEF Looks, GoTo, Read, Owned, WritesCopy, CopiedAt, RunningAt, FailedAt
      <3>3. CASE Stops(j)
        BY <1>0, <3>0, <3>3 DEF Stops, Finish, GoTo, Owned, WritesCopy, CopiedAt, RunningAt,
                                FailedAt, RunState
      <3>4. CASE Fails(j)
        <4>1. /\ task' = [task EXCEPT ![j] = task'[j]]
              /\ task'[j] \in {"idle", "contRead", "retry"}
              /\ task'[j] # "idle" => state'.job[j].status = "failed"
              /\ task'[j] = "retry" => AttemptsLeft(j)
              /\ task'[j] = "contRead" => FailurePolicy[j] = "continue"
          BY <1>0, <3>4 DEF Fails, Finish, GoTo
        <4>2. state'.job[j].attempt = state.job[j].attempt
          BY <3>4 DEF Fails
        <4>3. task'[j] # "idle" => task[j] \in {"fail", "failReport"}
          BY <1>0, <3>4 DEF Fails, Finish, GoTo
        <4> QED BY <1>0, <3>0, <4>1, <4>2, <4>3 DEF Owned, WritesCopy, CopiedAt, RunningAt,
                                FailedAt, AttemptsLeft, AttemptOf
      <3>5. CASE Continues(j)
        BY <1>0, <3>0, <3>5
           DEF Continues, Finish, GoTo, Owned, WritesCopy, CopiedAt, RunningAt, FailedAt
      <3>6. CASE Retries(j)
        BY <1>0, <3>0, <3>6 DEF Retries, Finish, GoTo, Owned, WritesCopy, CopiedAt,
                                RunningAt, FailedAt, AttemptOf
      <3>7. CASE Announces(j)
        BY <1>0, <3>0, <3>7 DEF Announces, GoTo, Owned, WritesCopy, CopiedAt, RunningAt, FailedAt
      <3>8. CASE Completes(j) \/ Proceeds(j)
        BY <1>0, <3>0, <3>8 DEF Completes, Proceeds, Finish, GoTo, Owned, WritesCopy,
                                CopiedAt, RunningAt, FailedAt
      <3>9. CASE Moves(j)
        BY <1>0, <3>0, <3>9
           DEF Moves, Finish, GoTo, Owned, WritesCopy, CopiedAt, RunningAt, FailedAt
      <3>10. CASE Breaks(j) \/ Ends(j)
        BY <1>0, <3>0, <3>10
           DEF Breaks, Ends, GoTo, Owned, WritesCopy, CopiedAt, RunningAt, FailedAt
      <3> QED BY <2>1, <3>1, <3>2, <3>3, <3>4, <3>5, <3>6, <3>7, <3>8, <3>9, <3>10 DEF Row
    <2> QED BY <2>4, <2>5 DEF OwnsRecord
  <1> QED BY <1>2, <1>3, <1>4, <1>5, <1>6 DEF Next, Returned

(* With one slot, or no read-only job, a batch is one job, and only the one *)
(* that runs if one runs; a writable job is taken only when no read-only job*)
(* is ready.                                                                *)
LEMMA BatchSole ==
  ASSUME OneAtATime, NEW s \in RunState,
         \A j, k \in WithStatus(s.job, "running") : j = k,
         WithStatus(s.job, "running") \cap Writable # {}
           => WithStatus(s.job, "ready") \cap ReadOnly = {},
         NEW B \in Batches(s.job), B # {}
  PROVE  /\ \A j, k \in B \cup WithStatus(s.job, "running") : j = k
         /\ B \cap Writable # {} => WithStatus(s.job, "ready") \cap ReadOnly = {}
  <1> DEFINE running == WithStatus(s.job, "running")
             ready == WithStatus(s.job, "ready")
             roReady == Candidates(s.job) \cap ReadOnly
             ro == B \cap ReadOnly
  <1>0. Parallelism # 0 /\ B \subseteq Jobs /\ running \subseteq Jobs /\ ready \subseteq Jobs
    BY BatchType DEF OneAtATime, WithStatus
  <1>1. CASE B = running
    BY <1>1
  <1>2. CASE {} \in SelectExecutable(s.job) /\ running = {} /\ B = ready
    BY <1>0, <1>2, NothingMissed
  <1>3. CASE B \in SelectExecutable(s.job)
    <2>1. CASE ReadOnly = {}
      <3>1. \A w \in B \cap Writable :
              \A k \in RunningWritable(s) \cup (B \cap Writable) : k = w
        BY <1>0, BatchSingle DEF RunningWritable
      <3>2. B \cap Writable = B /\ RunningWritable(s) = running
        BY <1>0, <2>1 DEF Writable, RunningWritable
      <3> QED BY <2>1, <3>1, <3>2
    <2>2. CASE Parallelism = 1
      <3>1. /\ IsFiniteSet(ro) /\ Cardinality(ro) \in Nat
            /\ IsFiniteSet(roReady) /\ Cardinality(roReady) \in Nat
            /\ IsFiniteSet(running \cap ReadOnly) /\ Cardinality(running \cap ReadOnly) \in Nat
        <4>1. ro \subseteq Jobs /\ roReady \subseteq Jobs /\ running \cap ReadOnly \subseteq Jobs
          BY WorkflowAssumption
        <4>2. \A S : S \subseteq Jobs => IsFiniteSet(S)
          BY FS_Subset, WorkflowAssumption
        <4> HIDE DEF ro, roReady, running
        <4> QED BY <4>1, <4>2, FS_CardinalityType
      <3>2. Slots(s.job) = IF Cardinality(running \cap ReadOnly) = 0 THEN 1 ELSE 0
        <4>1. Slots(s.job) = IF 1 > Cardinality(running \cap ReadOnly)
                             THEN 1 - Cardinality(running \cap ReadOnly) ELSE 0
          BY <2>2 DEF Slots
        <4> HIDE DEF running
        <4> QED BY <3>1, <4>1
      <3>3. /\ B \subseteq ready
            /\ Cardinality(ro) = IF Cardinality(roReady) < Slots(s.job)
                                 THEN Cardinality(roReady) ELSE Slots(s.job)
            /\ \/ B \cap Writable = {}
               \/ /\ Slots(s.job) > Cardinality(ro) /\ running \cap Writable = {}
                  /\ \E w : B \cap Writable = {w}
        <4>1. B \subseteq ready
          BY <1>3 DEF SelectExecutable, Candidates
        <4>2. /\ Cardinality(ro) = IF Cardinality(roReady) < Slots(s.job)
                                   THEN Cardinality(roReady) ELSE Slots(s.job)
              /\ IF /\ Slots(s.job) > Cardinality(ro)
                    /\ running \cap Writable = {}
                    /\ Candidates(s.job) \cap Writable # {}
                 THEN \E w \in Candidates(s.job) \cap Writable : B \cap Writable = {w}
                 ELSE B \cap Writable = {}
          BY <1>3, Zenon DEF SelectExecutable
        <4> HIDE DEF ro, roReady, running, ready
        <4> QED BY <4>1, <4>2
      <3>4. ro \cup (B \cap Writable) = B
        BY <1>0 DEF Writable
      <3>5. CASE ro # {}
        <4>1. Cardinality(ro) # 0
          <5> HIDE DEF ro
          <5> QED BY <3>1, <3>5, FS_EmptySet
        <4>2. /\ Cardinality(ro) = 1 /\ ~(Slots(s.job) > Cardinality(ro))
              /\ Cardinality(running \cap ReadOnly) = 0
          <5> HIDE DEF ro, roReady, running
          <5> QED BY <3>1, <3>2, <3>3, <4>1
        <4>3. \E x : ro = {x}
          <5> HIDE DEF ro
          <5> QED BY <3>1, <4>2, FS_Singleton
        <4>4. running \cap ReadOnly = {}
          <5> HIDE DEF running
          <5> QED BY <3>1, <4>2, FS_EmptySet
        <4>5. B \cap Writable = {}
          BY <3>3, <4>2
        <4>6. ready \cap ReadOnly # {}
          BY <3>3, <3>5
        <4>7. running \cap Writable = {}
          BY <4>6
        <4>8. running = {}
          BY <1>0, <4>4, <4>7 DEF Writable
        <4> QED BY <3>4, <4>3, <4>5, <4>8
      <3>6. CASE ro = {}
        <4>1. Slots(s.job) > Cardinality(ro) /\ running \cap Writable = {}
              /\ \E w : B \cap Writable = {w}
          BY <3>3, <3>4, <3>6
        <4>2. Cardinality(ro) = 0
          BY <3>6, FS_EmptySet
        <4>3. Cardinality(running \cap ReadOnly) = 0 /\ Cardinality(roReady) = 0
          <5> HIDE DEF ro, roReady, running
          <5> QED BY <3>1, <3>2, <3>3, <4>1, <4>2
        <4>4. running \cap ReadOnly = {} /\ roReady = {}
          <5> HIDE DEF roReady, running
          <5> QED BY <3>1, <4>3, FS_EmptySet
        <4>5. running = {}
          BY <1>0, <4>1, <4>4 DEF Writable
        <4>6. ready \cap ReadOnly = {}
          BY <4>4, <4>5 DEF Candidates, HeldByQueue
        <4> QED BY <3>4, <3>6, <4>1, <4>5, <4>6
      <3> QED BY <3>5, <3>6
    <2> QED BY <2>1, <2>2 DEF OneAtATime
  <1> QED BY <1>1, <1>2, <1>3 DEF Batches

(* A task step begins or keeps running only what had begun or ran, and then *)
(* releases nothing; no other job starts to run.                            *)
LEMMA RowRuns ==
  ASSUME TypeOK, OwnsRecord, NEW j \in Jobs, Row(j)
  PROVE  /\ task[j] # "idle"
         /\ \A k \in Jobs \ {j} :
              /\ task'[k] = task[k]
              /\ state'.job[k].status = "running" => state.job[k].status = "running"
         /\ state'.job[j].status = "running" \/ task'[j] \in {"start", "begin"} =>
              /\ state.job[j].status = "running" \/ task[j] \in {"start", "begin"}
              /\ OthersKept(j)
  <1>0. /\ state \in RunState /\ Owned(j)
        /\ task \in [Jobs -> TaskPoint] /\ snap \in [Jobs -> RunState]
    BY DEF TypeOK, OwnsRecord
  <1>1. /\ task[j] # "idle"
        /\ \A k \in Jobs \ {j} :
             /\ task'[k] = task[k]
             /\ state'.job[k].status = "running" => state.job[k].status = "running"
    BY RowOthers
  <1>2. ASSUME state'.job[j].status = "running" \/ task'[j] \in {"start", "begin"}
        PROVE  /\ state.job[j].status = "running" \/ task[j] \in {"start", "begin"}
               /\ OthersKept(j)
    <2>1. CASE Begins(j)
      BY <2>1 DEF Begins
    <2>2. CASE Looks(j) \/ Announces(j) \/ Moves(j)
      <3>1. state' = state
        BY <2>2 DEF Looks, Announces, Moves
      <3>2. task'[j] \in {"start", "begin"} => task[j] = "start"
        BY <1>0, <2>2 DEF Looks, Announces, Moves, GoTo, Finish, RunningAt
      <3> QED BY <1>2, <3>1, <3>2 DEF OthersKept
    <2>3. CASE Stops(j) \/ Proceeds(j)
      <3>1. OthersKept(j) /\ state'.job[j].status = state.job[j].status
        BY <1>0, <2>3 DEF Stops, Proceeds, OthersKept, RunState
      <3>2. task'[j] = "idle"
        BY <1>0, <2>3 DEF Stops, Proceeds, Finish, GoTo
      <3> QED BY <1>2, <3>1, <3>2
    <2>4. CASE Fails(j) \/ Continues(j) \/ Retries(j) \/ Completes(j) \/ Breaks(j) \/ Ends(j)
      <3>1. state'.job[j].status \in {"failed", "blocked", "ready", "completed"}
        BY <1>0, <2>4 DEF Fails, Continues, Retries, Completes, Breaks, Ends, Owned, FailedAt
      <3>2. task'[j] \in {"idle", "contRead", "retry", "after"}
        BY <1>0, <2>4 DEF Fails, Continues, Retries, Completes, Breaks, Ends, Finish, GoTo
      <3> QED BY <1>2, <3>1, <3>2
    <2> QED BY <2>1, <2>2, <2>3, <2>4 DEF Row
  <1> QED BY <1>1, <1>2

(* Every step keeps one job at a time.                                      *)
LEMMA SoleStep ==
  ASSUME OneAtATime, TypeOK, TasksInBatch, OwnsRecord, Sole, [Next]_vars
  PROVE  Sole'
  <1>0. /\ state \in RunState /\ batch \subseteq Jobs /\ task \in [Jobs -> TaskPoint]
        /\ Writable \subseteq Jobs
    BY DEF TypeOK, Writable
  <1>1. CASE Dispatch
    <2>1. PICK B \in Batches(state.job) :
            /\ B # {}
            /\ batch' = B
            /\ task' = [j \in Jobs |-> IF j \in B THEN "start" ELSE "idle"]
      BY <1>1 DEF Dispatch
    <2>2. state' = state
      BY <1>1 DEF Dispatch, shared
    <2>3. /\ \A j, k \in WithStatus(state.job, "running") : j = k
          /\ WithStatus(state.job, "running") \cap Writable # {}
               => WithStatus(state.job, "ready") \cap ReadOnly = {}
      BY DEF Sole, WithStatus
    <2>4. /\ \A j, k \in B \cup WithStatus(state.job, "running") : j = k
          /\ B \cap Writable # {} => WithStatus(state.job, "ready") \cap ReadOnly = {}
      BY <1>0, <2>1, <2>3, BatchSole
    <2>5. \A w \in Writable : task'[w] \in {"start", "begin"} => w \in B
      BY <1>0, <2>1
    <2> QED BY <2>1, <2>2, <2>3, <2>4, <2>5 DEF Sole
  <1>2. CASE MainLoop /\ ~Dispatch
    <2>1. batch' \subseteq batch /\ task' = task
      BY <1>2 DEF MainLoop, LoopStop, LoopExitIdle, LoopReconcile, Revive, PostCancel,
         BlockStuckJobs, PostReconcile, BatchSettled, tasks
    <2>2. WithStatus(state'.job, "running") \subseteq WithStatus(state.job, "running")
      BY <1>2, LoopWrites DEF WithStatus
    <2>3. CASE Revive
      <3>1. WithStatus(state.job, "running") = {} /\ loop = "read"
        BY <2>3, NothingSelected DEF Revive, NothingToRun, LoopGoesOn
      <3>2. \A j \in Jobs : task[j] = "idle"
        BY <3>1 DEF TasksInBatch, Executing
      <3>3. \A w \in Writable : state'.job[w].status # "running"
        BY <1>0, <2>2, <3>1 DEF WithStatus
      <3> QED BY <1>0, <2>1, <2>2, <3>2, <3>3 DEF Sole
    <2>4. CASE ~Revive
      <3>1. WithStatus(state'.job, "ready") \subseteq WithStatus(state.job, "ready")
        <4>1. CASE BlockStuckJobs
          <5> DEFINE stuck == IF state.run = "cancelled" THEN {} ELSE StuckJobs(state.job)
          <5>1. \/ state' = state
                \/ state'.job = [j \in Jobs |->
                                   IF j \in stuck
                                   THEN [state.job[j] EXCEPT !.status = "blocked"]
                                   ELSE state.job[j]]
            BY <4>1 DEF BlockStuckJobs, shared
          <5>2. \A j \in Jobs : [state.job[j] EXCEPT !.status = "blocked"].status = "blocked"
            BY Parts, <1>0 DEF JobRecord
          <5> HIDE DEF stuck
          <5> QED BY <5>1, <5>2 DEF WithStatus
        <4>2. CASE ~BlockStuckJobs
          <5>1. state'.job = state.job
            BY <1>0, <1>2, <2>4, <4>2 DEF MainLoop, LoopStop, LoopExitIdle, LoopReconcile,
               PostCancel, PostReconcile, BatchSettled, RunState, shared
          <5> QED BY <5>1
        <4> QED BY <4>1, <4>2
      <3>2. \A w \in Writable : state'.job[w].status = "running" => state.job[w].status = "running"
        BY <1>0, <2>2 DEF WithStatus
      <3> QED BY <2>1, <2>2, <3>1, <3>2 DEF Sole
    <2> QED BY <2>3, <2>4
  <1>3. ASSUME NEW j \in Jobs, Task(j) PROVE Sole'
    <2>1. Row(j) /\ batch' = batch
      BY <1>3, TaskRow, TaskStep DEF Frame
    <2>2. /\ task[j] # "idle"
          /\ \A k \in Jobs \ {j} :
               /\ task'[k] = task[k]
               /\ state'.job[k].status = "running" => state.job[k].status = "running"
          /\ state'.job[j].status = "running" \/ task'[j] \in {"start", "begin"} =>
               /\ state.job[j].status = "running" \/ task[j] \in {"start", "begin"}
               /\ OthersKept(j)
      BY <2>1, RowRuns
    <2>3. j \in batch
      BY <2>2 DEF TasksInBatch, Executing
    <2>4. \A k \in Jobs \ {j} : state.job[k].status # "running" /\ task[k] = "idle"
      BY <2>3 DEF Sole, TasksInBatch, Executing, WithStatus
    <2>5. \A k \in Jobs \ {j} : state'.job[k].status # "running" /\ task'[k] = "idle"
      BY <2>2, <2>4
    <2>6. \A k, l \in batch' \cup WithStatus(state'.job, "running") : k = l
      <3>1. batch' \subseteq {j}
        BY <2>1, <2>3 DEF Sole
      <3>2. WithStatus(state'.job, "running") \subseteq {j}
        BY <2>5 DEF WithStatus
      <3> QED BY <3>1, <3>2
    <2>7. ASSUME NEW w \in Writable,
                 state'.job[w].status = "running" \/ task'[w] \in {"start", "begin"}
          PROVE  WithStatus(state'.job, "ready") \cap ReadOnly = {}
      <3>1. w = j
        BY <1>0, <2>5, <2>7
      <3>2. OthersKept(j) /\ WithStatus(state.job, "ready") \cap ReadOnly = {}
        BY <2>2, <2>7, <3>1 DEF Sole
      <3>3. j \notin ReadOnly
        BY <3>1 DEF Writable
      <3> QED BY <3>2, <3>3 DEF OthersKept, WithStatus
    <2> QED BY <2>6, <2>7 DEF Sole
  <1>4. CASE Crash
    <2>1. batch' = {} /\ state' = state /\ \A j \in Jobs : task'[j] = "idle"
      BY <1>4 DEF Crash, shared
    <2> QED BY <1>0, <2>1 DEF Sole
  <1>5. CASE Abort \/ UNCHANGED vars
    <2>1. UNCHANGED <<state, batch, task>>
      BY <1>5 DEF Abort, vars, shared, tasks
    <2> QED BY <2>1 DEF Sole
  <1> QED BY <1>1, <1>2, <1>3, <1>4, <1>5 DEF Next, Returned

(* The invariant that every later one is proved from.                       *)
LEMMA OwnedRuns ==
  ASSUME Undisturbed
  PROVE  Spec => [](TypeOK /\ TasksInBatch /\ OwnsRecord)
  <1> DEFINE Serial == OneAtATime => Sole
  <1>1. Init => TasksInBatch /\ OwnsRecord /\ Serial
    <2> SUFFICES ASSUME Init PROVE TasksInBatch /\ OwnsRecord /\ Sole
      OBVIOUS
    <2>1. /\ state = InitState /\ batch = {}
          /\ \A j \in Jobs : task[j] = "idle" /\ snap[j] = InitState
      BY DEF Init
    <2>2. \A j \in Jobs : /\ InitState.job[j].attempt =< MaxAttempts[j]
                          /\ InitState.job[j].status # "running"
      BY WorkflowAssumption DEF InitState
    <2>3. TasksInBatch /\ OwnsRecord
      BY <2>1, <2>2 DEF TasksInBatch, Executing, OwnsRecord, Owned, WritesCopy, RunningAt,
                        FailedAt, CopiedAt
    <2>4. Sole
      BY <2>1, <2>2 DEF Sole, WithStatus, Writable
    <2> QED BY <2>3, <2>4
  <1>2. TypeOK /\ TasksInBatch /\ OwnsRecord /\ Serial /\ [Next]_vars
          => TasksInBatch' /\ OwnsRecord' /\ Serial'
    <2> SUFFICES ASSUME TypeOK, TasksInBatch, OwnsRecord, Serial, [Next]_vars
                 PROVE  TasksInBatch' /\ OwnsRecord' /\ (OneAtATime' => Sole')
      OBVIOUS
    <2>1. TasksInBatch'
      BY TasksInBatchStep
    <2>2. OwnsRecord'
      BY <2>1, OwnsStep
    <2>3. OneAtATime => Sole'
      BY SoleStep
    <2>4. OneAtATime' = OneAtATime
      BY DEF OneAtATime
    <2> QED BY <2>1, <2>2, <2>3, <2>4
  <1> HIDE DEF Serial
  <1> QED BY <1>1, <1>2, TypeCorrect, PTL DEF Spec

(* A step leaves an idle job's record alone, unless the job was waiting; it *)
(* takes back neither a completion nor an attempt, and a job is inactive    *)
(* after the step when it was before it.                                    *)
LEMMA RecordsKept ==
  ASSUME TypeOK, TasksInBatch, OwnsRecord, [Next]_vars,
         NEW k \in Jobs
  PROVE  /\ state.job[k].status = "completed" => state'.job[k].status = "completed"
         /\ state'.job[k].attempt >= state.job[k].attempt
         /\ state.job[k].status = "inactive" <=> state'.job[k].status = "inactive"
         /\ task[k] = "idle" /\ state.job[k].status # "waiting"
              => state'.job[k] = state.job[k]
  <1>0. /\ state \in RunState
        /\ \A j \in Jobs : state.job[j] \in JobRecord /\ state.job[j].attempt \in Nat
    BY Parts DEF TypeOK, JobRecord
  <1>1. CASE MainLoop
    <2> DEFINE rec == state.job[k]
               new == state'.job[k]
    <2>1. rec \in JobRecord /\ rec.attempt \in Nat
      BY <1>0
    <2>2. \/ new = rec
          \/ /\ rec.status = "waiting"
             /\ new = [rec EXCEPT !.status = "ready"] \/ new = [rec EXCEPT !.status = "blocked"]
      BY <1>1, JobsTouched
    <2> HIDE DEF rec, new
    <2>3. \/ new = rec
          \/ /\ rec.status = "waiting"
             /\ new.status \in {"ready", "blocked"}
             /\ new.attempt = rec.attempt
      BY <2>1, <2>2 DEF JobRecord
    <2>4. /\ rec.status = "completed" => new.status = "completed"
          /\ new.attempt >= rec.attempt
          /\ rec.status = "inactive" <=> new.status = "inactive"
          /\ task[k] = "idle" /\ rec.status # "waiting" => new = rec
      BY <2>1, <2>3
    <2> QED BY <2>4 DEF rec, new
  <1>2. CASE Abort \/ Crash \/ UNCHANGED vars
    <2>1. state' = state
      BY <1>2 DEF Abort, Crash, vars, shared
    <2> QED BY <1>0, <2>1
  <1>3. ASSUME NEW j \in Jobs, Task(j)
        PROVE  /\ state.job[k].status = "completed" => state'.job[k].status = "completed"
               /\ state'.job[k].attempt >= state.job[k].attempt
               /\ state.job[k].status = "inactive" <=> state'.job[k].status = "inactive"
               /\ task[k] = "idle" /\ state.job[k].status # "waiting"
                    => state'.job[k] = state.job[k]
    <2>1. Row(j)
      BY <1>3, TaskRow
    <2>2. CASE k # j
      BY <1>0, <2>1, <2>2, RowOthers
    <2>3. CASE k = j /\ task[j] = "after"
      <3>1. state' = state
        BY <2>1, <2>3, AfterMoves DEF Moves
      <3> QED BY <1>0, <2>3, <3>1
    <2>4. CASE k = j /\ task[j] # "after"
      <3>1. /\ task[j] # "idle"
            /\ state.job[j].status \in {"ready", "running", "failed"}
        BY <2>1, <2>4, RowOthers DEF OwnsRecord, Owned
      <3>2. /\ state'.job[j].attempt >= state.job[j].attempt
            /\ state'.job[j].status # "inactive"
        <4>0. state.job[j].attempt \in Nat /\ state.job[j].status # "inactive"
          BY <1>0, <3>1
        <4>1. CASE Begins(j) \/ Looks(j) \/ Announces(j) \/ Moves(j)
          <5>1. \/ state' = state
                \/ /\ state'.job[j].attempt = AttemptOf(state.job[j])
                   /\ state'.job[j].status = "running"
            BY <4>1 DEF Begins, Looks, Announces, Moves
          <5> QED BY <4>0, <5>1 DEF AttemptOf
        <4>2. CASE Fails(j) \/ Breaks(j)
          <5>1. /\ state'.job[j].attempt = state.job[j].attempt
                /\ state'.job[j].status \in {"failed", "blocked"}
            BY <4>2 DEF Fails, Breaks
          <5> QED BY <4>0, <5>1
        <4>3. CASE Continues(j) \/ Stops(j)
          <5>1. state'.job[j] = state.job[j]
            BY <1>0, <4>3 DEF Continues, Stops, RunState
          <5> QED BY <1>0, <3>1, <5>1
        <4>4. CASE Retries(j)
          <5>1. AttemptOf(state.job[j]) >= state.job[j].attempt
            BY <1>0 DEF AttemptOf
          <5>2. AttemptOf(state.job[j]) \in Nat
            BY <1>0 DEF AttemptOf
          <5> QED BY <1>0, <4>4, <5>1, <5>2 DEF Retries
        <4>5. CASE Completes(j) \/ Ends(j) \/ Proceeds(j)
          <5>1. /\ state'.job[j].attempt = state.job[j].attempt
                /\ state'.job[j].status \in {"completed", state.job[j].status}
            BY <4>5 DEF Completes, Ends, Proceeds
          <5> QED BY <4>0, <5>1
        <4> QED BY <2>1, <4>1, <4>2, <4>3, <4>4, <4>5 DEF Row
      <3> QED BY <2>4, <3>1, <3>2
    <2> QED BY <2>2, <2>3, <2>4
  <1> QED BY <1>1, <1>2, <1>3 DEF Next, Returned

(* In a run of one-step agents, and in one that executes one job at a time, *)
(* no write takes a completed job back.                                     *)
THEOREM CompletedStays ==
  ASSUME Undisturbed
  PROVE  Spec => CompletedStaysCompleted
  <1>1. TypeOK /\ TasksInBatch /\ OwnsRecord /\ [Next]_vars =>
          [\A j \in Jobs : state.job[j].status = "completed"
                             => state'.job[j].status = "completed"]_vars
    BY RecordsKept
  <1> QED BY <1>1, OwnedRuns, PTL DEF Spec, CompletedStaysCompleted

(* No write takes an attempt back, and retries stop at retry.max_attempts.  *)
AttemptsAdvance ==
  [][\A j \in Jobs : /\ state'.job[j].attempt >= state.job[j].attempt
                       /\ state'.job[j].attempt <= MaxAttempts[j]]_vars

(* ... nor an attempt, and no job is attempted more often than it may be.   *)
THEOREM AttemptsBounded ==
  ASSUME Undisturbed
  PROVE  Spec => AttemptsAdvance
  <1>1. TypeOK /\ TasksInBatch /\ OwnsRecord /\ OwnsRecord' /\ [Next]_vars =>
          [\A j \in Jobs : /\ state'.job[j].attempt >= state.job[j].attempt
                            /\ state'.job[j].attempt <= MaxAttempts[j]]_vars
    BY RecordsKept DEF OwnsRecord, Owned
  <1> QED BY <1>1, OwnedRuns, PTL DEF Spec, AttemptsAdvance

(* ------------------------------ the verdict ------------------------------*)

(* A verdict is given when the jobs deserve it and none of the jobs it rests*)
(* on has anything left to write; no task completes its job on the copy of a*)
(* completed run.                                                           *)
VerdictEarned ==
  /\ state.run = "completed" =>
       \A j \in Jobs : Settled(state.job, j) /\ task[j] \in {"idle", "after"}
  /\ state.run \in {"failed", "blocked"} =>
       \E j \in Jobs : state.job[j].status \in {"failed", "blocked"} /\ task[j] = "idle"
  /\ \A j \in Jobs : task[j] \in {"advance", "commit"} => snap[j].run # "completed"

(* While the loop is at work its tasks are not.                             *)
LEMMA LoopIdle ==
  ASSUME TasksInBatch, MainLoop, ~Dispatch
  PROVE  /\ \A j \in Jobs : task[j] = "idle"
         /\ UNCHANGED <<task, snap, aborted, crashes>>
         /\ ctl' \in {ctl, {}}
  <1>1. /\ UNCHANGED <<task, snap, aborted, crashes>> /\ ctl' \in {ctl, {}}
        /\ loop # "batch" \/ \A j \in Jobs : task[j] = "idle"
    BY DEF MainLoop, LoopStop, LoopExitIdle, LoopReconcile, Revive, PostCancel,
       BlockStuckJobs, PostReconcile, BatchSettled, NothingToRun, LoopGoesOn, tasks
  <1> QED BY <1>1 DEF TasksInBatch, Executing

(* The verdicts the loop itself gives.                                      *)
LEMMA LoopVerdict ==
  ASSUME TypeOK, MainLoop
  PROVE  \/ state'.run = state.run
         \/ state'.run = "cancelled"
         \/ /\ state'.run = "completed"
            /\ ~Terminal(state) /\ state'.job = state.job
            /\ \A j \in Jobs : Settled(state.job, j)
            /\ loop' # "batch"
         \/ /\ state'.run \in {"failed", "blocked"}
            /\ \E j \in Jobs : state'.job[j].status \in {"failed", "blocked"}
  <1>0. state \in RunState
    BY DEF TypeOK
  <1>1. CASE LoopStop \/ Dispatch \/ LoopExitIdle \/ Revive
    BY <1>0, <1>1 DEF LoopStop, Dispatch, LoopExitIdle, Revive, shared, RunState
  <1>2. CASE BatchSettled \/ PostCancel
    BY <1>0, <1>2 DEF BatchSettled, PostCancel, RunState
  <1>3. CASE LoopReconcile \/ PostReconcile
    <2>1. \/ state' = state
          \/ /\ ~Terminal(state) /\ loop' # "batch"
             /\ Reconcile(state.job) # "none"
             /\ state' = [state EXCEPT !.run = Reconcile(state.job)]
      BY <1>3 DEF LoopReconcile, PostReconcile, NothingToRun, LoopGoesOn
    <2>2. \/ Reconcile(state.job) = "none"
          \/ /\ Reconcile(state.job) = "completed"
             /\ \A j \in Jobs : Settled(state.job, j)
          \/ /\ Reconcile(state.job) \in {"failed", "blocked"}
             /\ \E j \in Jobs : state.job[j].status \in {"failed", "blocked"}
      BY DEF Reconcile, CriticalFailure, Required
    <2> QED BY <1>0, <2>1, <2>2 DEF RunState
  <1>4. CASE BlockStuckJobs
    <2> DEFINE stuck == IF state.run = "cancelled" THEN {} ELSE StuckJobs(state.job)
    <2>1. \/ state' = state
          \/ /\ stuck # {}
             /\ state' = [run |-> "failed",
                          job |-> [j \in Jobs |->
                             IF j \in stuck
                             THEN [state.job[j] EXCEPT !.status = "blocked"]
                             ELSE state.job[j]]]
      BY <1>4 DEF BlockStuckJobs, shared
    <2>2. stuck \subseteq Jobs
      BY DEF StuckJobs, WithStatus
    <2>3. \A j \in Jobs : [state.job[j] EXCEPT !.status = "blocked"].status = "blocked"
      BY <1>0, Parts DEF JobRecord
    <2> HIDE DEF stuck
    <2>4. ASSUME state' # state
          PROVE  /\ state'.run = "failed"
                 /\ \E j \in Jobs : state'.job[j].status = "blocked"
      <3>1. PICK j \in stuck : j \in Jobs
        BY <2>1, <2>2, <2>4
      <3>2. state'.run = "failed" /\ state'.job[j] = [state.job[j] EXCEPT !.status = "blocked"]
        BY <2>1, <2>4, <3>1
      <3>3. state'.job[j].status = "blocked"
        BY <2>3, <3>1, <3>2
      <3> QED BY <3>1, <3>2, <3>3
    <2> QED BY <2>4
  <1> QED BY <1>1, <1>2, <1>3, <1>4 DEF MainLoop

(* Every step keeps the verdict earned.                                     *)
LEMMA VerdictStep ==
  ASSUME TypeOK, TasksInBatch, OwnsRecord, VerdictEarned, [Next]_vars
  PROVE  VerdictEarned'
  <1>0. /\ state \in RunState /\ task \in [Jobs -> TaskPoint]
        /\ snap \in [Jobs -> RunState]
    BY DEF TypeOK
  <1>k. \A k \in Jobs :
          task[k] = "idle" /\ state.job[k].status # "waiting"
            => state'.job[k] = state.job[k]
    BY RecordsKept
  <1>1. CASE Dispatch
    <2>1. /\ state' = state /\ ~Terminal(state)
          /\ \A j \in Jobs : task'[j] \in {"start", "idle"}
      BY <1>1 DEF Dispatch, LoopGoesOn, shared
    <2> QED BY <2>1 DEF VerdictEarned, Terminal, TerminalRun
  <1>2. CASE MainLoop /\ ~Dispatch
    <2>1. /\ \A j \in Jobs : task[j] = "idle" /\ task'[j] = "idle"
      BY <1>2, LoopIdle
    <2>2. state'.run = "completed" => \A j \in Jobs : Settled(state'.job, j)
      <3>1. CASE state.run = "completed"
        <4>1. \A j \in Jobs : Settled(state.job, j)
          BY <3>1 DEF VerdictEarned
        <4>2. \A j \in Jobs : state'.job[j] = state.job[j]
          BY <1>k, <2>1, <4>1 DEF Settled
        <4> QED BY <4>1, <4>2 DEF Settled
      <3>2. CASE state.run # "completed"
        BY <1>2, <3>2, LoopVerdict
      <3> QED BY <3>1, <3>2
    <2>3. state'.run \in {"failed", "blocked"} =>
            \E j \in Jobs : state'.job[j].status \in {"failed", "blocked"}
      <3>1. CASE state.run \in {"failed", "blocked"}
        <4>1. PICK j \in Jobs : state.job[j].status \in {"failed", "blocked"}
          BY <3>1 DEF VerdictEarned
        <4> QED BY <1>k, <2>1, <4>1
      <3>2. CASE state.run \notin {"failed", "blocked"}
        BY <1>2, <3>2, LoopVerdict
      <3> QED BY <3>1, <3>2
    <2> QED BY <2>1, <2>2, <2>3 DEF VerdictEarned
  <1>3. CASE Crash
    <2>1. state' = state /\ \A j \in Jobs : task'[j] = "idle"
      BY <1>3 DEF Crash, shared
    <2> QED BY <2>1 DEF VerdictEarned
  <1>4. CASE Abort \/ UNCHANGED vars
    <2>1. UNCHANGED <<state, task, snap>>
      BY <1>4 DEF Abort, vars, shared, tasks
    <2> QED BY <2>1 DEF VerdictEarned
  <1>5. ASSUME NEW j \in Jobs, Task(j) PROVE VerdictEarned'
    <2>1. Row(j)
      BY <1>5, TaskRow
    <2>2. task[j] # "idle" /\ (state.run = "completed" => task[j] = "after")
      BY <2>1, RowOthers DEF VerdictEarned
    <2>3. \A k \in Jobs \ {j} :
            /\ task'[k] = task[k] /\ snap'[k] = snap[k]
            /\ state'.job[k].status \in {state.job[k].status, "ready"}
      BY <2>1, RowOthers
    <2>4. \A k \in Jobs : task'[k] \in {"advance", "commit"} => snap'[k].run # "completed"
      <3>1. task'[j] \in {"advance", "commit"} => snap'[j].run # "completed"
        <4>1. CASE Looks(j)
          <5>1. task[j] # "after"
            BY <4>1 DEF Looks
          <5> QED BY <1>0, <2>2, <4>1, <5>1 DEF Looks, Read
        <4>2. CASE Announces(j)
          BY <4>2 DEF Announces, VerdictEarned
        <4>3. CASE ~Looks(j) /\ ~Announces(j)
          <5>1. \E p \in {"exec", "idle", "contRead", "retry", "after", "advRead"} : GoTo(j, p)
            BY <2>1, <4>3 DEF Row, Begins, Stops, Fails, Continues, Retries, Completes, Moves,
               Breaks, Ends, Proceeds, Finish
          <5> QED BY <1>0, <5>1 DEF GoTo
        <4> QED BY <2>1, <4>1, <4>2, <4>3 DEF Row
      <3> QED BY <2>3, <3>1 DEF VerdictEarned
    <2>5. ASSUME state'.run = "completed"
          PROVE  \A k \in Jobs : Settled(state'.job, k) /\ task'[k] \in {"idle", "after"}
      <3>1. CASE state.run = "completed"
        <4>1. Moves(j) /\ state' = state
          BY <2>1, <2>2, <3>1, AfterMoves DEF Moves
        <4>2. \A k \in Jobs : Settled(state'.job, k)
          BY <3>1, <4>1 DEF VerdictEarned
        <4>3. state.job[j].status # "running"
          BY <3>1 DEF VerdictEarned, Settled
        <4>4. task'[j] = "idle"
          BY <1>0, <2>2, <3>1, <4>1, <4>3 DEF Moves, Finish, GoTo
        <4> QED BY <2>3, <3>1, <4>2, <4>4 DEF VerdictEarned
      <3>2. CASE state.run # "completed"
        <4>1. Completes(j) \/ Ends(j)
          BY <1>0, <2>1, <2>5, <3>2 DEF Row, Begins, Looks, Stops, Fails, Continues, Retries,
             Announces, Moves, Breaks, Proceeds, RunState
        <4>2. /\ \A k \in Jobs : state'.job[k].status \in {"completed", "inactive"}
              /\ task'[j] \in {"idle", "after"}
          BY <1>0, <2>5, <3>2, <4>1 DEF Completes, Ends, Finish, GoTo
        <4>3. \A k \in Jobs \ {j} : task[k] \in {"idle", "after"}
          <5>1. \A k \in Jobs : task[k] \notin {"idle", "after"}
                  => state.job[k].status \in {"ready", "running", "failed"}
            BY DEF OwnsRecord, Owned
          <5> QED BY <2>3, <4>2, <5>1
        <4> QED BY <2>3, <4>2, <4>3 DEF Settled
      <3> QED BY <3>1, <3>2
    <2>6. ASSUME state'.run \in {"failed", "blocked"}
          PROVE  \E k \in Jobs : /\ state'.job[k].status \in {"failed", "blocked"}
                                 /\ task'[k] = "idle"
      <3>1. CASE state'.run = state.run
        <4>1. PICK k \in Jobs : /\ state.job[k].status \in {"failed", "blocked"}
                                /\ task[k] = "idle"
          BY <2>6, <3>1 DEF VerdictEarned
        <4> QED BY <1>k, <2>2, <2>3, <4>1
      <3>2. CASE state'.run # state.run
        <4>1. Fails(j) /\ Finish(j, FALSE)
          BY <1>0, <2>1, <2>6, <3>2 DEF Row, Begins, Looks, Stops, Fails, Continues, Retries,
             Announces, Completes, Moves, Breaks, Ends, Proceeds, RunState
        <4> QED BY <1>0, <4>1 DEF Fails, Finish, GoTo
      <3> QED BY <3>1, <3>2
    <2> QED BY <2>4, <2>5, <2>6 DEF VerdictEarned
  <1> QED BY <1>1, <1>2, <1>3, <1>4, <1>5 DEF Next, Returned

(* The verdict is earned throughout.                                        *)
LEMMA VerdictsEarned ==
  ASSUME Undisturbed
  PROVE  Spec => []VerdictEarned
  <1>1. Init => VerdictEarned
    BY DEF Init, InitState, VerdictEarned
  <1>2. TypeOK /\ TasksInBatch /\ OwnsRecord /\ VerdictEarned /\ [Next]_vars => VerdictEarned'
    BY VerdictStep
  <1> QED BY <1>1, <1>2, OwnedRuns, PTL DEF Spec

(* In such a run the verdict agrees with the jobs, in every interleaving of *)
(* failures, retries and completions.                                       *)
THEOREM VerdictMatches ==
  ASSUME Undisturbed
  PROVE  Spec => []VerdictMatchesJobs
  <1>1. VerdictEarned => VerdictMatchesJobs
    BY DEF VerdictEarned, VerdictMatchesJobs
  <1> QED BY <1>1, VerdictsEarned, PTL

(* ------------------------------- the events ------------------------------*)

(* What a copy shows as completed is completed in state.json.               *)
CopiesBehind ==
  \A j, k \in Jobs : snap[j].job[k].status = "completed"
                       => state.job[k].status = "completed"

(* The events come first: of a job, and of the run, whose run_completed is  *)
(* either the one of the last job's completion or a verdict of the loop.    *)
Logged ==
  /\ \A j \in Jobs : state.job[j].status = "completed" \/ task[j] = "commit"
                       => "job_completed" \in jobLog[j]
  /\ "run_completed" \in runLog =>
       \/ \A j \in Jobs : \/ "job_completed" \in jobLog[j]
                          \/ state.job[j].status = "inactive"
       \/ /\ Terminal(state) /\ loop # "batch"
          /\ \A j \in Jobs : Settled(state.job, j)

(* Every step keeps the copies behind.                                      *)
LEMMA CopiesStep ==
  ASSUME TypeOK, TasksInBatch, OwnsRecord, CopiesBehind, [Next]_vars
  PROVE  CopiesBehind'
  <1>0. snap \in [Jobs -> RunState]
    BY DEF TypeOK
  <1>1. \A k \in Jobs : state.job[k].status = "completed"
                          => state'.job[k].status = "completed"
    BY RecordsKept
  <1>2. \A k \in Jobs : InitState.job[k].status # "completed"
    BY DEF InitState
  <1>3. CASE MainLoop \/ Abort \/ UNCHANGED vars
    <2>1. snap' = snap
      BY <1>3 DEF MainLoop, LoopStop, Dispatch, LoopExitIdle, LoopReconcile, Revive,
         BatchSettled, PostCancel, BlockStuckJobs, PostReconcile, tasks, Abort, vars
    <2> QED BY <1>1, <2>1 DEF CopiesBehind
  <1>4. CASE Crash
    BY <1>2, <1>4 DEF Crash, CopiesBehind
  <1>5. ASSUME NEW j \in Jobs, Task(j) PROVE CopiesBehind'
    <2>1. Row(j)
      BY <1>5, TaskRow
    <2>2. \A k \in Jobs \ {j} : snap'[k] = snap[k]
      BY <2>1, RowOthers
    <2>3. snap'[j] \in {snap[j], state, state', InitState}
      BY <1>0, <2>1, RowCopies
    <2> QED BY <1>1, <1>2, <2>2, <2>3 DEF CopiesBehind
  <1> QED BY <1>3, <1>4, <1>5 DEF Next, Returned

(* No step takes an event back, and the loop adds none of a completed job.  *)
LEMMA LoopEvents ==
  ASSUME TypeOK, MainLoop
  PROVE  /\ \A j \in Jobs : jobLog[j] \subseteq jobLog'[j]
         /\ "run_completed" \in runLog' =>
              \/ "run_completed" \in runLog
              \/ /\ state'.run = "completed" /\ loop' # "batch"
                 /\ \A j \in Jobs : Settled(state.job, j) /\ state'.job = state.job
  <1>0. jobLog \in [Jobs -> SUBSET JobEvent] /\ state \in RunState
    BY DEF TypeOK
  <1>1. CASE LoopStop \/ Dispatch \/ LoopExitIdle \/ Revive
    BY <1>1 DEF LoopStop, Dispatch, LoopExitIdle, Revive, shared
  <1>2. CASE LoopReconcile \/ PostReconcile
    <2>1. /\ jobLog' = jobLog
          /\ \/ runLog' = runLog
             \/ /\ runLog' = runLog \cup {EventOf(Reconcile(state.job))}
                /\ Reconcile(state.job) # "none"
                /\ state' = [state EXCEPT !.run = Reconcile(state.job)]
                /\ loop' # "batch"
      BY <1>2 DEF LoopReconcile, PostReconcile
    <2>2. \/ Reconcile(state.job) \in {"none", "failed", "blocked"}
          \/ /\ Reconcile(state.job) = "completed"
             /\ \A j \in Jobs : Settled(state.job, j)
      BY DEF Reconcile
    <2>3. EventOf("failed") # "run_completed" /\ EventOf("blocked") # "run_completed"
      BY DEF EventOf
    <2> QED BY <1>0, <2>1, <2>2, <2>3 DEF RunState
  <1>3. CASE BatchSettled \/ PostCancel
    BY <1>3 DEF BatchSettled, PostCancel
  <1>4. CASE BlockStuckJobs
    <2> DEFINE stuck == IF state.run = "cancelled" THEN {} ELSE StuckJobs(state.job)
    <2>1. \/ UNCHANGED shared
          \/ /\ jobLog' = [j \in Jobs |->
                             IF j \in stuck THEN jobLog[j] \cup {"job_blocked"}
                             ELSE jobLog[j]]
             /\ runLog' = IF state.run = "failed" THEN runLog
                          ELSE runLog \cup {"run_failed"}
      BY <1>4 DEF BlockStuckJobs
    <2> HIDE DEF stuck
    <2> QED BY <1>0, <2>1 DEF shared
  <1> QED BY <1>1, <1>2, <1>3, <1>4 DEF MainLoop

(* Every step keeps the events ahead of the state.                          *)
LEMMA LoggedStep ==
  ASSUME TypeOK, TasksInBatch, OwnsRecord, VerdictEarned,
         ActivationKept, CopiesBehind, Logged, [Next]_vars
  PROVE  Logged'
  <1>0. /\ state \in RunState /\ task \in [Jobs -> TaskPoint]
        /\ jobLog \in [Jobs -> SUBSET JobEvent]
    BY DEF TypeOK
  <1>k. \A k \in Jobs :
          /\ state.job[k].status = "inactive" => state'.job[k].status = "inactive"
          /\ task[k] = "idle" /\ state.job[k].status # "waiting"
               => state'.job[k] = state.job[k]
    BY RecordsKept
  <1>1. CASE MainLoop
    <2>1. /\ \A j \in Jobs : jobLog[j] \subseteq jobLog'[j]
          /\ "run_completed" \in runLog' =>
              \/ "run_completed" \in runLog
              \/ /\ state'.run = "completed" /\ loop' # "batch"
                 /\ \A j \in Jobs : Settled(state.job, j) /\ state'.job = state.job
      BY <1>1, LoopEvents
    <2>2. \A j \in Jobs : /\ task'[j] # "commit"
                          /\ state'.job[j].status = "completed"
                               => state.job[j].status = "completed"
      <3>1. CASE Dispatch
        BY <3>1 DEF Dispatch, shared
      <3>2. CASE ~Dispatch
        <4>1. \A j \in Jobs : task'[j] # "commit"
          BY <1>1, <3>2, LoopIdle
        <4>2. \A j \in Jobs :
                 \/ state'.job[j] = state.job[j]
                 \/ state'.job[j].status \in {"ready", "blocked"}
          <5>1. \A j \in Jobs : \A st \in {"ready", "blocked"} :
                  [state.job[j] EXCEPT !.status = st].status = st
            BY <1>0, Parts DEF JobRecord
          <5>2. \A j \in Jobs :
                 \/ state'.job[j] = state.job[j]
                 \/ state'.job[j] = [state.job[j] EXCEPT !.status = "ready"]
                 \/ state'.job[j] = [state.job[j] EXCEPT !.status = "blocked"]
            BY <1>1, JobsTouched
          <5> QED BY <5>1, <5>2
        <4> QED BY <4>1, <4>2
      <3> QED BY <3>1, <3>2
    <2>3. \A j \in Jobs : state'.job[j].status = "completed" \/ task'[j] = "commit"
                            => "job_completed" \in jobLog'[j]
      BY <2>1, <2>2 DEF Logged
    <2>4. ASSUME "run_completed" \in runLog'
          PROVE  \/ \A j \in Jobs : \/ "job_completed" \in jobLog'[j]
                                    \/ state'.job[j].status = "inactive"
                 \/ /\ Terminal(state') /\ loop' # "batch"
                    /\ \A j \in Jobs : Settled(state'.job, j)
      <3>1. CASE "run_completed" \notin runLog
        BY <2>1, <2>4, <3>1 DEF Terminal, TerminalRun
      <3>2. CASE \A j \in Jobs : \/ "job_completed" \in jobLog[j]
                                 \/ state.job[j].status = "inactive"
        BY <1>k, <2>1, <3>2
      <3>3. CASE /\ Terminal(state) /\ loop # "batch"
                 /\ \A j \in Jobs : Settled(state.job, j)
        <4>1. \A j \in Jobs : task[j] = "idle" /\ state.job[j].status # "waiting"
          BY <3>3 DEF TasksInBatch, Executing, Settled
        <4>2. ~Dispatch
          BY <3>3 DEF Dispatch, LoopGoesOn
        <4>3. loop' # "batch"
          BY <1>1, <4>2, <3>3 DEF MainLoop, LoopStop, LoopExitIdle, LoopReconcile, Revive,
             BatchSettled, PostCancel, BlockStuckJobs, PostReconcile, NothingToRun
        <4>4. Terminal(state')
          BY <1>1, <3>3, LoopVerdict DEF Terminal, TerminalRun
        <4> QED BY <1>k, <3>3, <4>1, <4>3, <4>4 DEF Settled
      <3> QED BY <3>1, <3>2, <3>3 DEF Logged
    <2> QED BY <2>3, <2>4 DEF Logged
  <1>2. CASE Crash
    <2>1. UNCHANGED shared /\ loop' = "read" /\ \A j \in Jobs : task'[j] = "idle"
      BY <1>2 DEF Crash
    <2> QED BY <2>1 DEF Logged, shared
  <1>3. CASE Abort \/ UNCHANGED vars
    <2>1. UNCHANGED <<state, jobLog, runLog, task, loop>>
      BY <1>3 DEF Abort, vars, shared, tasks
    <2> QED BY <2>1 DEF Logged
  <1>4. ASSUME NEW j \in Jobs, Task(j) PROVE Logged'
    <2>1. Row(j)
      BY <1>4, TaskRow
    <2>2. /\ task[j] # "idle" /\ loop = "batch"
          /\ \A k \in Jobs \ {j} :
               /\ task'[k] = task[k]
               /\ \/ state'.job[k] = state.job[k]
                  \/ state'.job[k].status = "ready"
      BY <2>1, RowOthers DEF TasksInBatch, Executing
    <2>3. \A k \in Jobs : jobLog[k] \subseteq jobLog'[k]
      BY <1>0, <2>1 DEF Row, Begins, Looks, Stops, Fails, Continues, Retries, Announces,
         Completes, Moves, Breaks, Ends, Proceeds
    <2>4. \A k \in Jobs : state'.job[k].status = "completed" \/ task'[k] = "commit"
                            => "job_completed" \in jobLog'[k]
      <3>1. state'.job[j].status = "completed" \/ task'[j] = "commit"
              => "job_completed" \in jobLog'[j]
        <4>1. state.job[j].status = "completed" => "job_completed" \in jobLog'[j]
          BY <2>3 DEF Logged
        <4>2. CASE Announces(j) \/ Ends(j)
          BY <1>0, <4>2 DEF Announces, Ends
        <4>3. CASE Completes(j)
          BY <1>0, <4>3 DEF Completes, Logged
        <4>4. CASE ~Announces(j) /\ ~Ends(j) /\ ~Completes(j)
          <5>1. \E p \in TaskPoint \ {"commit"} : GoTo(j, p)
            BY <2>1, <4>4 DEF Row, Begins, Stops, Fails, Continues, Retries, Looks, Moves,
               Breaks, Proceeds, Finish, CopiedAt, TaskPoint
          <5>2. task'[j] # "commit"
            BY <1>0, <5>1 DEF GoTo
          <5>3. \/ state'.job[j].status = state.job[j].status
                \/ state'.job[j].status \in {"running", "failed", "blocked", "ready"}
            BY <1>0, <2>1, <4>4 DEF Row, Begins, Stops, Fails, Continues, Retries, Looks,
               Moves, Breaks, Proceeds, RunState
          <5> QED BY <4>1, <5>2, <5>3
        <4> QED BY <4>2, <4>3, <4>4
      <3> QED BY <2>2, <2>3, <3>1 DEF Logged
    <2>5. ASSUME "run_completed" \in runLog'
          PROVE  \A k \in Jobs : \/ "job_completed" \in jobLog'[k]
                                 \/ state'.job[k].status = "inactive"
      <3>1. CASE "run_completed" \in runLog
        BY <1>k, <2>2, <2>3, <3>1 DEF Logged
      <3>2. CASE "run_completed" \notin runLog
        <4>1. Announces(j) \/ Ends(j)
          <5>1. CASE \/ Begins(j) \/ Looks(j) \/ Continues(j) \/ Retries(j) \/ Completes(j)
                     \/ Moves(j) \/ Breaks(j) \/ Proceeds(j)
            BY <2>5, <3>2, <5>1 DEF Begins, Looks, Continues, Retries, Completes, Moves,
               Breaks, Proceeds
          <5>2. CASE Stops(j)
            BY <2>5, <3>2, <5>2 DEF Stops
          <5>3. CASE Fails(j)
            BY <2>5, <3>2, <5>3 DEF Fails
          <5> QED BY <2>1, <5>1, <5>2, <5>3 DEF Row
        <4>2. CASE Announces(j)
          <5>1. \A k \in Jobs \ {j} : snap[j].job[k].status \in {"completed", "inactive"}
            BY <2>5, <3>2, <4>2 DEF Announces, VerdictEarned
          <5>2. \A k \in Jobs \ {j} : \/ "job_completed" \in jobLog[k]
                                      \/ state.job[k].status = "inactive"
            BY <5>1 DEF Logged, CopiesBehind, ActivationKept, DeclaredInactive
          <5>3. "job_completed" \in jobLog'[j]
            BY <1>0, <4>2 DEF Announces
          <5> QED BY <1>k, <2>3, <5>2, <5>3
        <4>3. CASE Ends(j)
          <5>1. state'.run = "completed" /\ state.run # "completed"
            <6>1. state'.run = "completed"
              BY <2>5, <3>2, <4>3 DEF Ends
            <6>2. task[j] \notin {"idle", "after"}
              BY <4>3 DEF Ends
            <6> QED BY <6>1, <6>2 DEF VerdictEarned
          <5>2. \A k \in Jobs : state'.job[k].status \in {"completed", "inactive"}
            BY <4>3, <5>1 DEF Ends
          <5> QED BY <2>4, <5>2
        <4> QED BY <4>1, <4>2, <4>3
      <3> QED BY <3>1, <3>2
    <2> QED BY <2>4, <2>5 DEF Logged
  <1> QED BY <1>1, <1>2, <1>3, <1>4 DEF Next, Returned

(* In such a run the log is ahead of the state: no job is completed without *)
(* its event, and the run_completed of a preview is never too early.        *)
THEOREM EventsFirst ==
  ASSUME Undisturbed
  PROVE  Spec => []CompletionLogged
  <1>1. Init => ActivationKept /\ CopiesBehind /\ Logged
    <2> SUFFICES ASSUME Init PROVE ActivationKept /\ CopiesBehind /\ Logged
      OBVIOUS
    <2>1. /\ state = InitState /\ batch = {} /\ runLog = {}
          /\ \A j \in Jobs : task[j] = "idle" /\ snap[j] = InitState
      BY DEF Init
    <2>2. \A j \in Jobs : InitState.job[j].status # "completed"
      BY DEF InitState
    <2> QED BY <2>1, <2>2, InitInactive DEF ActivationKept, CopiesBehind, Logged
  <1>2. TypeOK /\ TasksInBatch /\ OwnsRecord /\ VerdictEarned
          /\ ActivationKept /\ CopiesBehind /\ Logged /\ [Next]_vars
          => ActivationKept' /\ CopiesBehind' /\ Logged'
    <2> SUFFICES ASSUME TypeOK, TasksInBatch, OwnsRecord, VerdictEarned,
                        ActivationKept, CopiesBehind, Logged, [Next]_vars
                 PROVE  ActivationKept' /\ CopiesBehind' /\ Logged'
      OBVIOUS
    <2>1. ActivationKept'
      BY ActivationStep
    <2>2. CopiesBehind'
      BY CopiesStep
    <2>3. Logged'
      BY LoggedStep
    <2> QED BY <2>1, <2>2, <2>3
  <1>3. Logged => CompletionLogged
    BY DEF Logged, CompletionLogged, Settled
  <1> QED BY <1>1, <1>2, <1>3, OwnedRuns, VerdictsEarned, PTL DEF Spec

(* ---------------------------- cancelled agents ---------------------------*)

(* A peer of j has failed for good, or has failed and been given a retry.   *)
SomeoneFailed(j) ==
  \E k \in Jobs \ {j} :
    \/ task[k] = "idle" /\ state.job[k].status \in {"failed", "blocked"}
    \/ state.job[k].attempt > 1

(* Fail-fast aborts a job's signal only after a peer's failure.             *)
AbortedForAReason ==
  ~aborted /\ crashes = 0 =>
    \A j \in Jobs : j \in ctl \/ "agent_cancelled" \in jobLog[j] => SomeoneFailed(j)

(* A failure of a peer is not forgotten before the next step.               *)
LEMMA SomeoneFailedKept ==
  ASSUME TypeOK, TasksInBatch, OwnsRecord, [Next]_vars,
         NEW j \in Jobs, SomeoneFailed(j)
  PROVE  SomeoneFailed(j)'
  <1>0. /\ task \in [Jobs -> TaskPoint]
        /\ \A i \in Jobs : state.job[i].attempt \in Nat /\ state'.job[i].attempt \in Nat
    BY Parts, TypeStep DEF TypeOK, JobRecord
  <1>1. PICK k \in Jobs \ {j} :
          \/ task[k] = "idle" /\ state.job[k].status \in {"failed", "blocked"}
          \/ state.job[k].attempt > 1
    BY DEF SomeoneFailed
  <1>2. CASE state.job[k].attempt > 1
    <2>1. state'.job[k].attempt >= state.job[k].attempt
      BY RecordsKept
    <2>2. state'.job[k].attempt > 1
      BY <1>0, <1>2, <2>1
    <2> QED BY <2>2 DEF SomeoneFailed
  <1>3. CASE task[k] = "idle" /\ state.job[k].status \in {"failed", "blocked"}
    <2>1. state'.job[k] = state.job[k]
      BY <1>3, RecordsKept
    <2>2. task'[k] = "idle"
      <3>1. CASE Dispatch
        <4>1. PICK B \in Batches(state.job) :
                task' = [i \in Jobs |-> IF i \in B THEN "start" ELSE "idle"]
          BY <3>1 DEF Dispatch
        <4>2. k \notin B
          BY <1>3, Selected
        <4> QED BY <4>1, <4>2
      <3>2. CASE MainLoop /\ ~Dispatch
        BY <1>3, <3>2, LoopIdle
      <3>3. CASE Abort \/ Crash \/ UNCHANGED vars
        BY <1>3, <3>3 DEF Abort, Crash, vars, tasks
      <3>4. ASSUME NEW i \in Jobs, Task(i) PROVE task'[k] = "idle"
        BY <1>3, <3>4, TaskRow, RowOthers
      <3> QED BY <3>1, <3>2, <3>3, <3>4 DEF Next, Returned
    <2> QED BY <1>3, <2>1, <2>2 DEF SomeoneFailed
  <1> QED BY <1>1, <1>2, <1>3

(* Every step keeps the reasons.                                            *)
LEMMA AbortedStep ==
  ASSUME TypeOK, TasksInBatch, OwnsRecord, AbortedForAReason, [Next]_vars
  PROVE  AbortedForAReason'
  <1>0. /\ task \in [Jobs -> TaskPoint] /\ jobLog \in [Jobs -> SUBSET JobEvent]
        /\ state \in RunState /\ crashes \in Nat /\ batch \subseteq Jobs
        /\ \A k \in Jobs : state.job[k].attempt \in Nat
    BY Parts DEF TypeOK, JobRecord
  <1> SUFFICES ASSUME ~aborted', crashes' = 0, NEW j \in Jobs,
                      j \in ctl' \/ "agent_cancelled" \in jobLog'[j]
               PROVE  SomeoneFailed(j)'
    BY DEF AbortedForAReason
  <1>1. ~Crash
    BY <1>0 DEF Crash
  <1>2. ASSUME UNCHANGED <<aborted, crashes>>,
               j \in ctl \/ "agent_cancelled" \in jobLog[j]
        PROVE  SomeoneFailed(j)'
    BY <1>2, SomeoneFailedKept DEF AbortedForAReason
  <1>3. CASE Abort
    BY <1>3 DEF Abort
  <1>4. CASE UNCHANGED vars
    BY <1>2, <1>4 DEF vars
  <1>5. CASE MainLoop
    <2>1. UNCHANGED <<aborted, crashes>> /\ ctl' \in {ctl, {}}
      BY <1>5, LoopIdle DEF Dispatch
    <2>2. "agent_cancelled" \in jobLog'[j] => "agent_cancelled" \in jobLog[j]
      <3>1. CASE BlockStuckJobs
        <4> DEFINE stuck == IF state.run = "cancelled" THEN {} ELSE StuckJobs(state.job)
        <4>1. \/ jobLog' = jobLog
              \/ jobLog' = [i \in Jobs |->
                             IF i \in stuck THEN jobLog[i] \cup {"job_blocked"}
                             ELSE jobLog[i]]
          BY <3>1 DEF BlockStuckJobs, shared
        <4> HIDE DEF stuck
        <4> QED BY <4>1
      <3>2. CASE ~BlockStuckJobs
        BY <1>5, <3>2 DEF MainLoop, LoopStop, Dispatch, LoopExitIdle, LoopReconcile, Revive,
           BatchSettled, PostCancel, PostReconcile, shared
      <3> QED BY <3>1, <3>2
    <2> QED BY <1>2, <2>1, <2>2
  <1>6. ASSUME NEW i \in Jobs, Task(i) PROVE SomeoneFailed(j)'
    <2>1. Row(i) /\ UNCHANGED <<aborted, crashes>>
      BY <1>6, TaskRow DEF untouched
    <2>2. ASSUME "agent_cancelled" \in jobLog'[j], "agent_cancelled" \notin jobLog[j]
          PROVE  j \in ctl
      <3>1. Stops(i)
        <4>1. CASE \/ Begins(i) \/ Looks(i) \/ Continues(i) \/ Retries(i) \/ Completes(i)
                   \/ Moves(i) \/ Breaks(i) \/ Proceeds(i)
          BY <2>2, <4>1 DEF Begins, Looks, Continues, Retries, Completes, Moves, Breaks,
             Proceeds
        <4>2. CASE Announces(i) \/ Ends(i)
          BY <1>0, <2>2, <4>2 DEF Announces, Ends
        <4>3. CASE Fails(i)
          BY <1>0, <2>2, <4>3 DEF Fails
        <4> QED BY <2>1, <4>1, <4>2, <4>3 DEF Row
      <3>2. i = j
        BY <1>0, <2>2, <3>1 DEF Stops
      <3> QED BY <2>1, <3>1, <3>2 DEF Stops, Interrupted
    <2>3. ASSUME j \in ctl', j \notin ctl
          PROVE  SomeoneFailed(j)'
      <3>1. Finish(i, FALSE) /\ ctl = {} /\ i # j
        <4>1. CASE \/ Begins(i) \/ Looks(i) \/ Announces(i) \/ Completes(i) \/ Moves(i)
                   \/ Breaks(i) \/ Ends(i) \/ Proceeds(i)
          BY <2>3, <4>1 DEF Begins, Looks, Announces, Completes, Moves, Breaks, Ends,
             Proceeds, Finish
        <4>2. CASE Fails(i)
          BY <2>3, <4>2 DEF Fails, Finish
        <4>3. CASE Stops(i) \/ Continues(i) \/ Retries(i)
          BY <2>3, <4>3 DEF Stops, Continues, Retries, Finish
        <4> QED BY <2>1, <4>1, <4>2, <4>3 DEF Row
      <3>2. task'[i] = "idle"
        BY <1>0, <3>1 DEF Finish, GoTo
      <3>3. \/ state'.job[i].status \in {"failed", "blocked"}
            \/ state'.job[i].attempt > 1
        <4>1. CASE Fails(i)
          BY <4>1 DEF Fails
        <4>2. CASE Continues(i)
          BY <4>2 DEF Continues, OwnsRecord, Owned, FailedAt
        <4>3. CASE Retries(i)
          <5>1. AttemptOf(state.job[i]) \in Nat \ {0}
            BY <1>0 DEF AttemptOf
          <5> QED BY <4>3, <5>1 DEF Retries
        <4>4. ~Begins(i) /\ ~Looks(i) /\ ~Announces(i) /\ ~Breaks(i) /\ ~Ends(i)
          BY <1>0, <3>2 DEF Begins, Looks, Announces, Breaks, Ends, GoTo, CopiedAt
        <4>5. ~Completes(i) /\ ~Moves(i) /\ ~Proceeds(i)
          BY <2>3, <3>1 DEF Completes, Moves, Proceeds, Finish
        <4>6. ~Stops(i)
          BY <2>1, <3>1 DEF Stops, Interrupted
        <4> QED BY <2>1, <4>1, <4>2, <4>3, <4>4, <4>5, <4>6 DEF Row
      <3> QED BY <3>1, <3>2, <3>3 DEF SomeoneFailed
    <2> QED BY <1>2, <2>1, <2>2, <2>3
  <1> QED BY <1>1, <1>3, <1>4, <1>5, <1>6 DEF Next, Returned

(* In such a run fail-fast cancels an agent only for a peer's failure: never*)
(* for its own, and never for a peer's success.                             *)
THEOREM CancelledByAPeer ==
  ASSUME Undisturbed
  PROVE  Spec => []CancelledForAReason
  <1>1. Init => AbortedForAReason
    BY DEF Init, AbortedForAReason
  <1>2. TypeOK /\ TasksInBatch /\ OwnsRecord /\ AbortedForAReason /\ [Next]_vars
          => AbortedForAReason'
    BY AbortedStep
  <1>3. AbortedForAReason => CancelledForAReason
    BY DEF AbortedForAReason, SomeoneFailed, CancelledForAReason
  <1> QED BY <1>1, <1>2, <1>3, OwnedRuns, PTL DEF Spec

(* ----------------------------- met needs ---------------------------------*)

(* The jobs of which no failure is both tolerated and retried (a script's   *)
(* never is), so that once they are met as a need they stay so.             *)
Lasting ==
  {d \in Jobs : Kind[d] = "agent" /\ FailurePolicy[d] = "continue" => MaxAttempts[d] = 1}

ToleratedOnce == Lasting = Jobs

(* The lasting needs of a job that is ready, running or executing are met,  *)
(* and what a copy shows as met is met.                                     *)
NeedsMet ==
  /\ \A j \in Jobs : \A d \in Lasting :
       NeedMet(snap[j].job, d) => NeedMet(state.job, d)
  /\ \A j \in Jobs :
       task[j] # "idle" \/ state.job[j].status \in {"ready", "running"} =>
         \A d \in Needs[j] \cap Lasting : NeedMet(state.job, d)

(* A met need stays met: its tolerated failure is not retried.              *)
LEMMA NeedKept ==
  ASSUME TypeOK, TasksInBatch, OwnsRecord, [Next]_vars,
         NEW d \in Lasting, NeedMet(state.job, d)
  PROVE  NeedMet(state'.job, d)
  <1> d \in Jobs
    BY DEF Lasting
  <1>1. CASE d \in Optional
    BY <1>1 DEF NeedMet
  <1>2. CASE state.job[d].status = "completed"
    BY <1>2, RecordsKept DEF NeedMet
  <1>3. CASE state.job[d].status = "failed" /\ FailurePolicy[d] = "continue"
    <2>1. CASE task[d] = "idle"
      BY <1>3, <2>1, RecordsKept DEF NeedMet
    <2>2. CASE MainLoop \/ Abort \/ Crash \/ UNCHANGED vars
      <3>1. state'.job[d] = state.job[d]
        BY <1>3, <2>2, JobsTouched DEF Abort, Crash, vars, shared
      <3> QED BY <1>3, <3>1 DEF NeedMet
    <2>3. ASSUME task[d] # "idle", NEW j \in Jobs, Task(j) PROVE NeedMet(state'.job, d)
      <3>1. Row(j)
        BY <2>3, TaskRow
      <3>2. CASE j # d
        <4>1. state'.job[d] = state.job[d]
          BY <1>3, <3>1, <3>2, RowOthers
        <4> QED BY <1>3, <4>1 DEF NeedMet
      <3>3. CASE j = d
        <4>1. task[d] \in {"contRead", "contWrite", "after"}
          <5>1. task[d] \in FailedAt \cup {"after"}
            BY <1>3, <2>3 DEF OwnsRecord, Owned, RunningAt
          <5>2. ASSUME task[d] \in {"retry", "retryWrite"} PROVE FALSE
            <6>1. AttemptOf(state.job[d]) \in Nat \ {0}
              BY Parts, RecordType DEF TypeOK
            <6>2. Kind[d] = "agent" /\ AttemptOf(state.job[d]) < MaxAttempts[d]
              BY <5>2 DEF OwnsRecord, Owned, FailedAt
            <6>3. MaxAttempts[d] = 1
              BY <1>3, <6>2 DEF Lasting
            <6> QED BY <6>1, <6>2, <6>3
          <5> QED BY <5>1, <5>2 DEF FailedAt
        <4>2. state'.job[d] = state.job[d]
          BY <3>1, <3>3, <4>1 DEF Row, Begins, Looks, Stops, Fails, Continues, Retries,
             Announces, Completes, Moves, Breaks, Ends, Proceeds
        <4> QED BY <1>3, <4>2 DEF NeedMet
      <3> QED BY <3>2, <3>3
    <2> QED BY <2>1, <2>2, <2>3 DEF Next, Returned
  <1> QED BY <1>1, <1>2, <1>3 DEF NeedMet

(* Every step keeps the needs met.                                          *)
LEMMA NeedsMetStep ==
  ASSUME TypeOK, TasksInBatch, OwnsRecord, NeedsMet, [Next]_vars
  PROVE  NeedsMet'
  <1>0. /\ task \in [Jobs -> TaskPoint] /\ snap \in [Jobs -> RunState]
        /\ \A j \in Jobs : Needs[j] \subseteq Jobs /\ state.job[j] \in JobRecord
    BY Parts, WorkflowAssumption DEF TypeOK
  <1>1. \A d \in Lasting : NeedMet(state.job, d) => NeedMet(state'.job, d)
    BY NeedKept
  <1>l. Lasting \subseteq Jobs
    BY DEF Lasting
  <1>2. \A d \in Jobs : NeedMet(InitState.job, d) => d \in Optional
    BY DEF NeedMet, InitState
  <1>3. \A j \in Jobs : task[j] # "idle" \/ state.job[j].status \in {"ready", "running"} =>
          \A d \in Needs[j] \cap Lasting : NeedMet(state'.job, d)
    BY <1>0, <1>1 DEF NeedsMet
  <1>4. \A j \in Jobs : \A d \in Lasting :
          snap'[j] \in {snap[j], state, state', InitState} =>
          (NeedMet(snap'[j].job, d) => NeedMet(state'.job, d))
    BY <1>1, <1>l, <1>2 DEF NeedsMet, NeedMet
  <1>5. CASE MainLoop
    <2>1. \A j \in Jobs : snap'[j] = snap[j]
      BY <1>5, LoopIdle DEF Dispatch
    <2>2. ASSUME NEW j \in Jobs,
                 task'[j] # "idle" \/ state'.job[j].status \in {"ready", "running"},
                 NEW d \in Needs[j] \cap Lasting
          PROVE  NeedMet(state'.job, d)
      <3>1. CASE Dispatch
        <4>1. PICK B \in Batches(state.job) :
                task' = [i \in Jobs |-> IF i \in B THEN "start" ELSE "idle"]
          BY <3>1 DEF Dispatch
        <4>2. state' = state
          BY <3>1 DEF Dispatch, shared
        <4> QED BY <1>3, <2>2, <4>1, <4>2, Selected
      <3>2. CASE ~Dispatch
        <4>1. task'[j] = "idle"
          BY <1>5, <3>2, LoopIdle
        <4>2. CASE state'.job[j] = state.job[j]
          BY <1>3, <2>2, <4>1, <4>2
        <4>3. CASE state'.job[j] # state.job[j]
          <5>1. [state.job[j] EXCEPT !.status = "blocked"].status = "blocked"
            BY <1>0 DEF JobRecord
          <5>2. \A e \in Needs[j] : NeedMet(state.job, e)
            BY <1>5, <2>2, <4>1, <4>3, <5>1, JobsTouched
          <5> QED BY <1>0, <1>1, <2>2, <5>2
        <4> QED BY <4>2, <4>3
      <3> QED BY <3>1, <3>2
    <2> QED BY <1>4, <2>1, <2>2 DEF NeedsMet
  <1>6. CASE Crash
    <2>1. /\ state' = state
          /\ \A j \in Jobs : task'[j] = "idle" /\ snap'[j] = InitState
      BY <1>6 DEF Crash, shared
    <2> QED BY <1>3, <1>4, <2>1 DEF NeedsMet
  <1>7. CASE Abort \/ UNCHANGED vars
    <2>1. UNCHANGED <<state, task, snap>>
      BY <1>7 DEF Abort, vars, shared, tasks
    <2> QED BY <2>1 DEF NeedsMet
  <1>8. ASSUME NEW j \in Jobs, Task(j) PROVE NeedsMet'
    <2>1. Row(j)
      BY <1>8, TaskRow
    <2>2. /\ task[j] # "idle"
          /\ \A k \in Jobs \ {j} :
               /\ task'[k] = task[k] /\ snap'[k] = snap[k]
               /\ \/ state'.job[k] = state.job[k]
                  \/ state.job[k].status = "waiting" /\ state'.job[k].status = "ready"
      BY <2>1, RowOthers
    <2>3. snap'[j] \in {snap[j], state, state', InitState}
      BY <1>0, <2>1, RowCopies
    <2>4. \A i \in Jobs : \A d \in Lasting : NeedMet(snap'[i].job, d) => NeedMet(state'.job, d)
      BY <1>4, <2>2, <2>3
    <2>5. ASSUME NEW k \in Jobs,
                 task'[k] # "idle" \/ state'.job[k].status \in {"ready", "running"},
                 NEW d \in Needs[k] \cap Lasting
          PROVE  NeedMet(state'.job, d)
      <3>1. CASE k = j
        BY <1>3, <2>2, <3>1
      <3>2. CASE k # j /\ (task'[k] # "idle" \/ state'.job[k] = state.job[k])
        BY <1>3, <2>2, <2>5, <3>2
      <3>3. CASE k # j /\ state'.job[k] # state.job[k]
        <4>1. Continues(j) \/ Completes(j) \/ Ends(j)
          <5>1. ~Stops(j)
            BY <3>3 DEF Stops, TypeOK, RunState
          <5>2. ~Begins(j) /\ ~Fails(j) /\ ~Retries(j) /\ ~Breaks(j) /\ ~Proceeds(j)
            BY <3>3 DEF Begins, Fails, Retries, Breaks, Proceeds, OthersKept
          <5>3. ~Looks(j) /\ ~Announces(j) /\ ~Moves(j)
            BY <3>3 DEF Looks, Announces, Moves
          <5> QED BY <2>1, <5>1, <5>2, <5>3 DEF Row
        <4>2. NeedMet(snap[j].job, d) \/ NeedMet(state'.job, d)
          BY <3>3, <4>1 DEF Continues, Completes, Ends, OthersReleased
        <4>3. d \in Jobs
          BY <1>0
        <4> QED BY <1>1, <4>2, <4>3 DEF NeedsMet
      <3> QED BY <3>1, <3>2, <3>3
    <2> QED BY <2>4, <2>5 DEF NeedsMet
  <1> QED BY <1>5, <1>6, <1>7, <1>8 DEF Next, Returned

(* The lasting needs of whatever is ready, runs or executes are always met. *)
LEMMA AlwaysNeedsMet ==
  ASSUME Undisturbed
  PROVE  Spec => [](TypeOK /\ TasksInBatch /\ OwnsRecord /\ NeedsMet)
  <1>1. Init => NeedsMet
    <2> SUFFICES ASSUME Init PROVE NeedsMet
      OBVIOUS
    <2>1. /\ state = InitState
          /\ \A j \in Jobs : task[j] = "idle" /\ snap[j] = InitState
      BY DEF Init
    <2>2. \A j \in Jobs : InitState.job[j].status \in {"ready", "running"} =>
            \A d \in Needs[j] : NeedMet(InitState.job, d)
      BY DEF InitState, InitiallyReady, NeedMet
    <2> QED BY <2>1, <2>2 DEF NeedsMet
  <1>2. TypeOK /\ TasksInBatch /\ OwnsRecord /\ NeedsMet /\ [Next]_vars => NeedsMet'
    BY NeedsMetStep
  <1> QED BY <1>1, <1>2, OwnedRuns, PTL DEF Spec

(* In a run of one-step agents, and in one that executes one job at a time, *)
(* a job executes only while the needs whose loss is not tolerated are      *)
(* completed or optional.                                                   *)
THEOREM NeedsMetThroughout ==
  ASSUME Undisturbed
  PROVE  Spec => []NeedsMetWhileExecuting
  <1>1. NeedsMet => NeedsMetWhileExecuting
    <2> SUFFICES ASSUME NeedsMet, NEW j \in Executing, NEW d \in Needs[j],
                        FailurePolicy[d] # "continue"
                 PROVE  d \in Optional \/ state.job[d].status = "completed"
      BY DEF NeedsMetWhileExecuting
    <2>1. d \in Lasting /\ j \in Jobs /\ task[j] # "idle"
      BY WorkflowAssumption DEF Lasting, Executing
    <2> QED BY <2>1 DEF NeedsMet, NeedMet
  <1> QED BY <1>1, AlwaysNeedsMet, PTL

(* ------------------------------ the lifecycle ----------------------------*)

(* A met need is one in the lifecycle, and so is a lost one.                *)
LEMMA MetIs ==
  ASSUME NEW d \in Jobs
  PROVE  /\ NeedMet(state.job, d) <=> Life!Met(d)
         /\ NeedMet(state'.job, d) <=> Life!Met(d)'
         /\ state.job[d].status = "blocked" \/ CriticalFailure(state.job, d) <=> Life!Lost(d)
  BY DEF NeedMet, CriticalFailure, Life!Met, Life!Lost, JobLife

(* What two job records, before and after a step, come to in the lifecycle. *)
LEMMA LifeIs ==
  ASSUME TypeOK, state' \in RunState
  PROVE  /\ JobLife = [k \in Jobs |-> JobLife[k]] /\ JobLife' = [k \in Jobs |-> JobLife'[k]]
         /\ \A k \in Jobs :
              /\ JobLife[k] = [status |-> state.job[k].status, attempt |-> AttemptOf(state.job[k])]
              /\ JobLife'[k] = [status |-> state'.job[k].status, attempt |-> AttemptOf(state'.job[k])]
              /\ \A st : Life!As(k, st) = [status |-> st, attempt |-> AttemptOf(state.job[k])]
              /\ state'.job[k] = state.job[k] => JobLife'[k] = JobLife[k]
              /\ \A st \in {"ready", "blocked"} :
                   state'.job[k] = [state.job[k] EXCEPT !.status = st]
                     => JobLife'[k] = Life!As(k, st)
  <1>1. \A k \in Jobs : state.job[k] \in JobRecord
    BY Parts DEF TypeOK
  <1>2. JobLife = [k \in Jobs |-> JobLife[k]] /\ JobLife' = [k \in Jobs |-> JobLife'[k]]
    BY DEF JobLife
  <1>3. ASSUME NEW k \in Jobs
        PROVE  /\ JobLife[k] = [status |-> state.job[k].status, attempt |-> AttemptOf(state.job[k])]
               /\ JobLife'[k] = [status |-> state'.job[k].status, attempt |-> AttemptOf(state'.job[k])]
    BY DEF JobLife, AttemptOf
  <1>4. ASSUME NEW k \in Jobs, NEW st
        PROVE  Life!As(k, st) = [status |-> st, attempt |-> AttemptOf(state.job[k])]
    <2>1. Life!As(k, st) = [JobLife[k] EXCEPT !.status = st]
      BY DEF Life!As
    <2>2. \A r, s, a : r = [status |-> s, attempt |-> a]
                       => [r EXCEPT !.status = st] = [status |-> st, attempt |-> a]
      OBVIOUS
    <2>3. JobLife[k] = [status |-> state.job[k].status, attempt |-> AttemptOf(state.job[k])]
      BY <1>3
    <2>4. [JobLife[k] EXCEPT !.status = st] = [status |-> st, attempt |-> AttemptOf(state.job[k])]
      BY <2>2, <2>3
    <2> QED BY <2>1, <2>4
  <1>5. ASSUME NEW k \in Jobs, NEW st \in {"ready", "blocked"},
               state'.job[k] = [state.job[k] EXCEPT !.status = st]
        PROVE  JobLife'[k] = Life!As(k, st)
    <2>1. state'.job[k].status = st /\ state'.job[k].attempt = state.job[k].attempt
      BY <1>1, <1>5 DEF JobRecord
    <2> QED BY <1>3, <1>4, <2>1 DEF AttemptOf
  <1>6. ASSUME NEW k \in Jobs, state'.job[k] = state.job[k]
        PROVE  JobLife'[k] = JobLife[k]
    BY <1>3, <1>6 DEF AttemptOf
  <1> QED BY <1>2, <1>3, <1>4, <1>5, <1>6

(* Every step of the loop releases jobs, gives some up, or does nothing.    *)
LEMMA LoopLives ==
  ASSUME TypeOK, TypeOK', MainLoop
  PROVE  Life!Release \/ Life!GiveUp \/ JobLife' = JobLife
  <1>0. state \in RunState /\ state' \in RunState /\ state.job \in JobsMap
        /\ \A k \in Jobs : Needs[k] \subseteq Jobs
    BY Parts, WorkflowAssumption DEF TypeOK
  <1>1. CASE LoopStop \/ Dispatch \/ LoopExitIdle
    BY <1>1 DEF LoopStop, Dispatch, LoopExitIdle, shared, JobLife
  <1>2. CASE LoopReconcile \/ PostReconcile \/ BatchSettled \/ PostCancel
    <2>1. state'.job = state.job
      BY <1>0, <1>2 DEF LoopReconcile, PostReconcile, BatchSettled, PostCancel, RunState
    <2> QED BY <2>1 DEF JobLife
  <1>3. CASE Revive
    <2> DEFINE R == ReadyJobs(state.job)
    <2>1. state'.job = PropagateReadiness(state.job, R)
      BY <1>0, <1>3 DEF Revive, RunState
    <2>2. R \in SUBSET Life!Waiting
      BY DEF ReadyJobs, WithStatus, Life!Waiting, JobLife
    <2>3. \A k \in R : \A d \in Needs[k] : Life!Met(d)
      <3>1. \A k \in R : k \in Jobs /\ \A d \in Needs[k] : NeedMet(state.job, d)
        BY DEF ReadyJobs, WithStatus
      <3> QED BY <1>0, <3>1, MetIs
    <2>4. \A k \in R : state.job[k].status = "waiting"
      BY DEF ReadyJobs, WithStatus
    <2> HIDE DEF R
    <2>5. \A k \in Jobs : state'.job[k] = IF k \in R THEN [state.job[k] EXCEPT !.status = "ready"]
                                          ELSE state.job[k]
      BY <2>1, <2>4 DEF PropagateReadiness
    <2>6. \A k \in Jobs : JobLife'[k] = IF k \in R THEN Life!As(k, "ready") ELSE JobLife[k]
      BY <1>0, <2>5, LifeIs
    <2>7. JobLife' = [k \in Jobs |-> IF k \in R THEN Life!As(k, "ready") ELSE JobLife[k]]
      BY <1>0, <2>6, LifeIs
    <2> QED BY <2>2, <2>3, <2>7 DEF Life!Release
  <1>4. CASE BlockStuckJobs
    <2> DEFINE S == StuckJobs(state.job)
    <2>1. \/ state' = state
          \/ state'.job = [k \in Jobs |-> IF k \in S
                                          THEN [state.job[k] EXCEPT !.status = "blocked"]
                                          ELSE state.job[k]]
      BY <1>4 DEF BlockStuckJobs, shared
    <2>2. S \in SUBSET Life!Waiting
      BY DEF StuckJobs, WithStatus, Life!Waiting, JobLife
    <2>3. \A k \in S : \E d \in Needs[k] : Life!Lost(d)
      <3>1. \A k \in S : k \in Jobs /\ \E d \in Needs[k] :
              state.job[d].status = "blocked" \/ CriticalFailure(state.job, d)
        BY DEF StuckJobs, WithStatus
      <3> QED BY <1>0, <3>1, MetIs
    <2> HIDE DEF S
    <2>4. CASE state' = state
      BY <2>4 DEF JobLife
    <2>5. CASE state'.job = [k \in Jobs |-> IF k \in S
                                            THEN [state.job[k] EXCEPT !.status = "blocked"]
                                            ELSE state.job[k]]
      <3>1. \A k \in Jobs : JobLife'[k] = IF k \in S THEN Life!As(k, "blocked") ELSE JobLife[k]
        BY <1>0, <2>5, LifeIs
      <3>2. JobLife' = [k \in Jobs |-> IF k \in S THEN Life!As(k, "blocked") ELSE JobLife[k]]
        BY <1>0, <3>1, LifeIs
      <3> QED BY <2>2, <2>3, <3>2 DEF Life!GiveUp
    <2> QED BY <2>1, <2>4, <2>5
  <1> QED BY <1>1, <1>2, <1>3, <1>4 DEF MainLoop

(* The jobs that a task step of j has released, ...                         *)
ReleasedBy(j) == {k \in Jobs \ {j} : state'.job[k] # state.job[k]}

(* ... for needs that js says are met.                                      *)
LEMMA ReleasedAre ==
  ASSUME TypeOK, TypeOK', NEW j \in Jobs, NEW js, OthersReleased(j, js)
  PROVE  /\ ReleasedBy(j) \in SUBSET Life!Waiting
         /\ \A k \in ReleasedBy(j) : \A d \in Needs[k] : d \in Jobs /\ NeedMet(js, d)
         /\ \A k \in Jobs \ {j} :
              JobLife'[k] = IF k \in ReleasedBy(j) THEN Life!As(k, "ready") ELSE JobLife[k]
  <1>0. state' \in RunState /\ \A k \in Jobs : Needs[k] \subseteq Jobs
    BY WorkflowAssumption DEF TypeOK
  <1>1. \A k \in ReleasedBy(j) :
          /\ k \in Jobs \ {j} /\ state.job[k].status = "waiting"
          /\ state'.job[k] = [state.job[k] EXCEPT !.status = "ready"]
          /\ \A d \in Needs[k] : NeedMet(js, d)
    BY DEF ReleasedBy, OthersReleased
  <1>2. ReleasedBy(j) \in SUBSET Life!Waiting
    BY <1>1 DEF Life!Waiting, JobLife
  <1>3. \A k \in Jobs \ {j} :
          JobLife'[k] = IF k \in ReleasedBy(j) THEN Life!As(k, "ready") ELSE JobLife[k]
    <2>1. \A k \in Jobs \ {j} : k \notin ReleasedBy(j) => state'.job[k] = state.job[k]
      BY DEF ReleasedBy
    <2> QED BY <1>0, <1>1, <2>1, LifeIs
  <1> QED BY <1>0, <1>1, <1>2, <1>3

(* Every step of a task is one of its job's lifecycle.                      *)
LEMMA TaskLives ==
  ASSUME ToleratedOnce, TypeOK, TypeOK', TasksInBatch, OwnsRecord, NeedsMet,
         [Next]_vars, NEW j \in Jobs, Row(j)
  PROVE  Life!LifeNext \/ JobLife' = JobLife
  <1> DEFINE rec == state.job[j]
             new == state'.job[j]
  <1>0. /\ state \in RunState /\ state' \in RunState /\ task \in [Jobs -> TaskPoint]
        /\ rec \in JobRecord /\ new \in JobRecord
    BY Parts DEF TypeOK
  <1>1. ASSUME OthersKept(j), JobLife'[j] = JobLife[j]
        PROVE  JobLife' = JobLife
    <2>1. \A k \in Jobs : JobLife'[k] = JobLife[k]
      BY <1>0, <1>1, LifeIs DEF OthersKept
    <2> QED BY <1>0, <2>1, LifeIs
  <1>2. ASSUME OthersKept(j)
        PROVE  JobLife' = [JobLife EXCEPT ![j] = JobLife'[j]]
    <2>1. \A k \in Jobs : k # j => JobLife'[k] = JobLife[k]
      BY <1>0, <1>2, LifeIs DEF OthersKept
    <2> QED BY <1>0, <2>1, LifeIs
  <1>3. /\ JobLife[j] = [status |-> rec.status, attempt |-> AttemptOf(rec)]
        /\ JobLife'[j] = [status |-> new.status, attempt |-> AttemptOf(new)]
        /\ \A st : Life!As(j, st) = [status |-> st, attempt |-> AttemptOf(rec)]
    BY <1>0, LifeIs
  <1> HIDE DEF rec, new
  <1>4. CASE Looks(j) \/ Announces(j) \/ Stops(j) \/ Moves(j)
    <2>1. state'.job = state.job
      BY <1>0, <1>4 DEF Looks, Announces, Stops, Moves, RunState
    <2> QED BY <2>1 DEF JobLife
  <1>p. CASE Proceeds(j)
    <2>1. new.status = rec.status /\ new.attempt = rec.attempt /\ OthersKept(j)
      BY <1>p DEF Proceeds, rec, new
    <2> QED BY <1>1, <1>3, <2>1 DEF AttemptOf
  <1>5. CASE Begins(j)
    <2>1. /\ rec.status \in {"ready", "running"} /\ new.status = "running"
          /\ new.attempt = AttemptOf(rec) /\ OthersKept(j)
      BY <1>5 DEF Begins, OwnsRecord, Owned, rec, new
    <2>2. AttemptOf(new) = AttemptOf(rec)
      BY <2>1 DEF AttemptOf
    <2>3. CASE rec.status = "ready"
      BY <1>2, <1>3, <2>1, <2>2, <2>3 DEF Life!LifeNext, Life!Start, Life!Turns
    <2>4. CASE rec.status = "running"
      BY <1>1, <1>3, <2>1, <2>2, <2>4
    <2> QED BY <2>1, <2>3, <2>4
  <1>6. CASE Fails(j) \/ Breaks(j)
    <2>1. /\ \/ rec.status = "running" /\ new.status \in {"failed", "blocked"}
             \/ rec.status = "ready" /\ new.status = "failed"
          /\ new.attempt = rec.attempt /\ OthersKept(j)
      BY <1>6 DEF Fails, Breaks, OwnsRecord, Owned, RunningAt, rec, new
    <2>2. AttemptOf(new) = AttemptOf(rec)
      BY <2>1 DEF AttemptOf
    <2> QED BY <1>2, <1>3, <2>1, <2>2 DEF Life!LifeNext, Life!Fail, Life!Block, Life!Turns
  <1>7. CASE Retries(j)
    <2>1. /\ rec.status = "failed" /\ AttemptOf(rec) < MaxAttempts[j]
          /\ new.status = "ready" /\ new.attempt = AttemptOf(rec) + 1 /\ OthersKept(j)
      BY <1>7 DEF Retries, OwnsRecord, Owned, FailedAt, rec, new
    <2>2. AttemptOf(rec) \in Nat
      BY <1>0 DEF JobRecord, AttemptOf
    <2>3. AttemptOf(new) = AttemptOf(rec) + 1
      BY <2>1, <2>2 DEF AttemptOf
    <2> QED BY <1>2, <1>3, <2>1, <2>3 DEF Life!LifeNext, Life!Retry
  <1>8. CASE Continues(j)
    <2>1. /\ OthersReleased(j, snap[j].job) /\ new = rec
      BY <1>8 DEF Continues, rec, new
    <2>2. JobLife'[j] = JobLife[j]
      BY <1>3, <2>1
    <2>3. /\ ReleasedBy(j) \in SUBSET Life!Waiting
          /\ \A k \in ReleasedBy(j) : \A d \in Needs[k] : d \in Jobs /\ NeedMet(snap[j].job, d)
          /\ \A k \in Jobs \ {j} :
               JobLife'[k] = IF k \in ReleasedBy(j) THEN Life!As(k, "ready") ELSE JobLife[k]
      BY <2>1, ReleasedAre
    <2>4. \A k \in ReleasedBy(j) : \A d \in Needs[k] : Life!Met(d)
      BY <2>3, MetIs DEF NeedsMet, ToleratedOnce
    <2>5. j \notin ReleasedBy(j)
      BY DEF ReleasedBy
    <2>6. JobLife' = [k \in Jobs |-> IF k \in ReleasedBy(j) THEN Life!As(k, "ready") ELSE JobLife[k]]
      <3>1. \A k \in Jobs :
              JobLife'[k] = IF k \in ReleasedBy(j) THEN Life!As(k, "ready") ELSE JobLife[k]
        BY <2>2, <2>3, <2>5
      <3> QED BY <1>0, <3>1, LifeIs
    <2> QED BY <2>3, <2>4, <2>6 DEF Life!LifeNext, Life!Release
  <1>9. CASE Completes(j) \/ Ends(j)
    <2>1. /\ rec.status = "running" /\ new.status = "completed" /\ new.attempt = rec.attempt
          /\ OthersReleased(j, state'.job)
      BY <1>9 DEF Completes, Ends, OwnsRecord, Owned, RunningAt, rec, new
    <2>2. JobLife'[j] = Life!As(j, "completed") /\ JobLife[j].status = "running"
      BY <1>3, <2>1 DEF AttemptOf
    <2>3. /\ ReleasedBy(j) \in SUBSET Life!Waiting
          /\ \A k \in ReleasedBy(j) : \A d \in Needs[k] : d \in Jobs /\ NeedMet(state'.job, d)
          /\ \A k \in Jobs \ {j} :
               JobLife'[k] = IF k \in ReleasedBy(j) THEN Life!As(k, "ready") ELSE JobLife[k]
      BY <2>1, ReleasedAre
    <2>4. \A k \in ReleasedBy(j) : \A d \in Needs[k] : Life!Met(d)'
      BY <2>3, MetIs
    <2>5. JobLife' = [k \in Jobs |-> IF k = j THEN Life!As(k, "completed")
                                     ELSE IF k \in ReleasedBy(j) THEN Life!As(k, "ready")
                                     ELSE JobLife[k]]
      <3>1. \A k \in Jobs :
              JobLife'[k] = IF k = j THEN Life!As(k, "completed")
                            ELSE IF k \in ReleasedBy(j) THEN Life!As(k, "ready")
                            ELSE JobLife[k]
        BY <2>2, <2>3
      <3> QED BY <1>0, <3>1, LifeIs
    <2>6. Life!Complete(j)
      BY <2>2, <2>3, <2>4, <2>5 DEF Life!Complete
    <2> QED BY <2>6 DEF Life!LifeNext
  <1> QED BY <1>4, <1>p, <1>5, <1>6, <1>7, <1>8, <1>9 DEF Row

(* In such a run, if no tolerated failure is retried, the run implements the*)
(* lifecycle of its jobs: a refinement, for every such workflow.            *)
THEOREM RunImplementsLifecycle ==
  ASSUME Undisturbed, ToleratedOnce
  PROVE  Spec => ImplementsLifecycle
  <1>1. Init => Life!LifeInit
    <2> SUFFICES ASSUME Init PROVE Life!LifeInit
      OBVIOUS
    <2>1. \A j \in Jobs :
            /\ state.job[j].status = IF j \in Declared THEN "inactive"
                                     ELSE IF Needs[j] \subseteq Optional THEN "ready" ELSE "waiting"
            /\ AttemptOf(state.job[j]) = 1
      BY DEF Init, InitState, InitiallyReady, AttemptOf
    <2> QED BY <2>1 DEF Life!LifeInit, JobLife
  <1>2. TypeOK /\ TypeOK' /\ TasksInBatch /\ OwnsRecord /\ NeedsMet /\ [Next]_vars
          => [Life!LifeNext]_JobLife
    <2> SUFFICES ASSUME TypeOK, TypeOK', TasksInBatch, OwnsRecord, NeedsMet, [Next]_vars
                 PROVE  Life!LifeNext \/ JobLife' = JobLife
      OBVIOUS
    <2>1. CASE MainLoop
      BY <2>1, LoopLives DEF Life!LifeNext
    <2>2. ASSUME NEW j \in Jobs, Task(j) PROVE Life!LifeNext \/ JobLife' = JobLife
      <3>1. Row(j)
        BY <2>2, TaskRow
      <3> QED BY <3>1, TaskLives
    <2>3. CASE Abort \/ Crash \/ UNCHANGED vars
      BY <2>3 DEF Abort, Crash, vars, shared, JobLife
    <2> QED BY <2>1, <2>2, <2>3 DEF Next, Returned
  <1> QED BY <1>1, <1>2, AlwaysNeedsMet, PTL DEF Spec, ImplementsLifecycle, Life!LifeSpec
=============================================================================
