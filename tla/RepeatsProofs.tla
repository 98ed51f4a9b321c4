---------------------------- MODULE RepeatsProofs ---------------------------
(***************************************************************************)
(* Proofs about Repeats, for any workflow, any groups and any list: the    *)
(* jobs of a group go through its iterations together, a group ends with   *)
(* the verdict its condition gives, nobody runs ahead of a group it needs, *)
(* and the counters of a traverse are those of its items.                  *)
(***************************************************************************)
EXTENDS Repeats, FiniteSetTheorems, WellFoundedInduction, TLAPS

(* --------------------------------- types ---------------------------------*)

JobState == [status  : JobStatus, attempt : Nat,
             last    : {"absent", "open", "failure", "success"},
             out     : {"none", "good", "bad"}]

JobStates == [Jobs -> JobState]

GroupState == [status : {"pending", "iterating", "completed", "failed"},
               iteration : Nat]

Result == [item : Nat, ok : BOOLEAN]

TraverseStatus == {"absent", "pending", "running", "completed", "failed"}

TraverseState ==
  [status : TraverseStatus,
   policy : {"continue", "fail_all"}, items : Nat,
   done   : Nat, failed : Nat, active : Nat, results : Seq(Result)]

ItemStatus == {"absent", "ready", "completed", "failed"}

ItemStates == [Item -> ItemStatus]

RepeatsState ==
  [run : RunStatus, job : JobStates, group : [Groups -> GroupState],
   item : ItemStates, traverse : TraverseState]

Types ==
  /\ state \in RepeatsState
  /\ task \in [Jobs -> {"idle", "start", "exec", "commit", "retry"}]
  /\ rounds \in [Jobs -> Nat]

(* The parts of a state.                                                    *)
LEMMA Parts ==
  ASSUME NEW s \in RepeatsState
  PROVE  /\ s.run \in RunStatus
         /\ s.job \in JobStates
         /\ \A j \in Jobs : s.job[j] \in JobState
         /\ s.group \in [Groups -> GroupState]
         /\ \A g \in Groups : /\ s.group[g] \in GroupState
                              /\ s.group[g].iteration \in Nat
         /\ s.item \in ItemStates
         /\ s.traverse \in TraverseState
  BY DEF RepeatsState, JobStates, GroupState

(* Another jobs map.                                                        *)
LEMMA WithJobs ==
  ASSUME NEW s \in RepeatsState, NEW js \in JobStates
  PROVE  /\ [s EXCEPT !.job = js] \in RepeatsState
         /\ [s EXCEPT !.job = js].run = s.run
         /\ [s EXCEPT !.job = js].job = js
         /\ [s EXCEPT !.job = js].group = s.group
         /\ [s EXCEPT !.job = js].item = s.item
         /\ [s EXCEPT !.job = js].traverse = s.traverse
  BY DEF RepeatsState

(* Another run status.                                                      *)
LEMMA WithRun ==
  ASSUME NEW s \in RepeatsState, NEW r \in RunStatus
  PROVE  /\ [s EXCEPT !.run = r] \in RepeatsState
         /\ [s EXCEPT !.run = r].run = r
         /\ [s EXCEPT !.run = r].job = s.job
         /\ [s EXCEPT !.run = r].group = s.group
         /\ [s EXCEPT !.run = r].item = s.item
         /\ [s EXCEPT !.run = r].traverse = s.traverse
  BY DEF RepeatsState

(* Another record of one job.                                               *)
LEMMA WithJob ==
  ASSUME NEW s \in RepeatsState, NEW j \in Jobs, NEW rec \in JobState
  PROVE  /\ [s EXCEPT !.job[j] = rec] \in RepeatsState
         /\ [s EXCEPT !.job[j] = rec].run = s.run
         /\ [s EXCEPT !.job[j] = rec].job[j] = rec
         /\ \A k \in Jobs \ {j} : [s EXCEPT !.job[j] = rec].job[k] = s.job[k]
         /\ [s EXCEPT !.job[j] = rec].group = s.group
         /\ [s EXCEPT !.job[j] = rec].item = s.item
         /\ [s EXCEPT !.job[j] = rec].traverse = s.traverse
  BY DEF RepeatsState, JobStates

(* Another record of one group.                                             *)
LEMMA WithGroup ==
  ASSUME NEW s \in RepeatsState, NEW g \in Groups, NEW rec \in GroupState
  PROVE  /\ [s EXCEPT !.group[g] = rec] \in RepeatsState
         /\ [s EXCEPT !.group[g] = rec].run = s.run
         /\ [s EXCEPT !.group[g] = rec].job = s.job
         /\ [s EXCEPT !.group[g] = rec].group[g] = rec
         /\ \A h \in Groups \ {g} : [s EXCEPT !.group[g] = rec].group[h] = s.group[h]
         /\ [s EXCEPT !.group[g] = rec].item = s.item
         /\ [s EXCEPT !.group[g] = rec].traverse = s.traverse
  BY DEF RepeatsState

(* Another traverse.                                                        *)
LEMMA WithTraverse ==
  ASSUME NEW s \in RepeatsState, NEW t \in TraverseState
  PROVE  /\ [s EXCEPT !.traverse = t] \in RepeatsState
         /\ [s EXCEPT !.traverse = t].run = s.run
         /\ [s EXCEPT !.traverse = t].job = s.job
         /\ [s EXCEPT !.traverse = t].group = s.group
         /\ [s EXCEPT !.traverse = t].item = s.item
         /\ [s EXCEPT !.traverse = t].traverse = t
  BY DEF RepeatsState

(* Another status of one item.                                              *)
LEMMA WithItem ==
  ASSUME NEW s \in RepeatsState, NEW i \in Item, NEW v \in ItemStatus
  PROVE  /\ [s EXCEPT !.item[i] = v] \in RepeatsState
         /\ [s EXCEPT !.item[i] = v].run = s.run
         /\ [s EXCEPT !.item[i] = v].job = s.job
         /\ [s EXCEPT !.item[i] = v].group = s.group
         /\ [s EXCEPT !.item[i] = v].item[i] = v
         /\ \A k \in Item \ {i} : [s EXCEPT !.item[i] = v].item[k] = s.item[k]
         /\ [s EXCEPT !.item[i] = v].traverse = s.traverse
  BY DEF RepeatsState, ItemStates

(* The initial state.                                                       *)
LEMMA InitStateType == InitState \in RepeatsState
  <1>1. [j \in Jobs |->
     [status  |-> IF j \in Declared THEN "inactive"
                  ELSE IF Needs[j] \subseteq Optional THEN "ready" ELSE "waiting",
      attempt |-> IF Needs[j] \subseteq Optional THEN 1 ELSE 0,
      last    |-> IF Needs[j] \subseteq Optional THEN "open" ELSE "absent",
      out     |-> "none"]] \in JobStates
    BY DEF JobStates, JobState, JobStatus
  <1>2. [status |-> "absent", policy |-> "continue", items |-> 0,
         done |-> 0, failed |-> 0, active |-> 0, results |-> <<>>] \in TraverseState
    BY DEF TraverseState, TraverseStatus
  <1> QED BY <1>1, <1>2 DEF InitState, RepeatsState, RunStatus, GroupState, ItemStates,
                           ItemStatus, TraverseStatus

(* Sealing an attempt changes neither status nor outputs.                   *)
LEMMA Sealed ==
  ASSUME NEW rec \in JobState
  PROVE  /\ SealFailure(rec) \in JobState /\ SealSuccess(rec) \in JobState
         /\ SealFailure(rec).status = rec.status /\ SealSuccess(rec).status = rec.status
         /\ SealFailure(rec).out = rec.out /\ SealSuccess(rec).out = rec.out
         /\ AttemptOf(rec) \in Nat \ {0}
  BY DEF SealFailure, SealSuccess, AttemptOf, JobState

(* A record with another status.                                            *)
LEMMA WithStatusType ==
  ASSUME NEW rec \in JobState, NEW st \in JobStatus
  PROVE  /\ [rec EXCEPT !.status = st] \in JobState
         /\ [rec EXCEPT !.status = st].status = st
         /\ [rec EXCEPT !.status = st].out = rec.out
  BY DEF JobState

(* ks is js after computeReadyJobs: jobs whose needs are met become ready.  *)
Propagated(js, ks) ==
  \A k \in Jobs :
    \/ ks[k] = js[k]
    \/ /\ js[k].status = "waiting" /\ ks[k].status = "ready"
       /\ ks[k].out = js[k].out
       /\ \A d \in Needs[k] : NeedMet(js, d)

(* PropagateReadiness over the ready jobs is such a step.                   *)
LEMMA Propagation ==
  ASSUME NEW js \in JobStates
  PROVE  /\ PropagateReadiness(js, ReadyJobs(js)) \in JobStates
         /\ Propagated(js, PropagateReadiness(js, ReadyJobs(js)))
  BY DEF PropagateReadiness, ReadyJobs, WithStatus, Propagated, JobStates, JobState, JobStatus

(* A batch takes ready and running jobs only.                               *)
LEMMA BatchJobs ==
  ASSUME NEW js, NEW B \in Batches(js)
  PROVE  /\ B \subseteq Jobs
         /\ \A j \in B : js[j].status \in {"ready", "running"}
  BY DEF Batches, SelectExecutable, Candidates, WithStatus

(* ------------------------- what each action does -------------------------*)

(* Job j goes from one point to another, and only its record is written.    *)
Sets(j, here, there) ==
  /\ task[j] = here /\ task' = [task EXCEPT ![j] = there]
  /\ UNCHANGED <<loop, fan, todo, rounds>>
  /\ state' \in RepeatsState
  /\ state'.run = state.run
  /\ \A k \in Jobs \ {j} : state'.job[k] = state.job[k]
  /\ state'.group = state.group
  /\ state'.item = state.item
  /\ state'.traverse = state.traverse

(* A step that writes the record of its job, and no more.                   *)
LEMMA SetsJob ==
  ASSUME Types, NEW j \in Jobs, NEW here, NEW there, NEW rec \in JobState,
         At(j, here), GoTo(j, there), UNCHANGED <<loop, trav, env, rounds>>,
         state' = [state EXCEPT !.job[j] = rec]
  PROVE  Sets(j, here, there) /\ state'.job[j] = rec
  <1> DEFINE s == state
             t == [s EXCEPT !.job[j] = rec]
  <1>1. /\ t \in RepeatsState /\ t.run = s.run /\ t.job[j] = rec
        /\ \A k \in Jobs \ {j} : t.job[k] = s.job[k]
        /\ t.group = s.group /\ t.item = s.item /\ t.traverse = s.traverse
    BY WithJob DEF Types
  <1>2. state' = t
    OBVIOUS
  <1> HIDE DEF t
  <1>3. /\ task[j] = here /\ task' = [task EXCEPT ![j] = there]
        /\ UNCHANGED <<loop, fan, todo, rounds>>
    BY DEF At, GoTo, trav
  <1> QED BY <1>1, <1>2, <1>3 DEF Sets

(* The attempt is started.                                                  *)
LEMMA StartSets ==
  ASSUME Types, NEW j \in Jobs, AgentStart(j)
  PROVE  Sets(j, "start", "exec") /\ state'.job[j].status = "running"
  <1> DEFINE rec == [state.job[j] EXCEPT !.status = "running",
                                         !.attempt = AttemptOf(state.job[j])]
  <1>1. state.job[j] \in JobState /\ AttemptOf(state.job[j]) \in Nat
    BY Parts, Sealed DEF Types
  <1>2. rec \in JobState /\ rec.status = "running"
    BY <1>1 DEF JobState, JobStatus
  <1>3. state' = [state EXCEPT !.job[j] = rec]
    BY DEF AgentStart
  <1> HIDE DEF rec
  <1> QED BY <1>2, <1>3, SetsJob DEF AgentStart

(* The report is accepted: outputs only.                                    *)
LEMMA ReportSets ==
  ASSUME Types, NEW j \in Jobs, AgentReport(j)
  PROVE  Sets(j, "exec", "commit") /\ state'.job[j].status = state.job[j].status
  <1>1. PICK out \in {"good", "bad"} : state' = [state EXCEPT !.job[j].out = out]
    BY DEF AgentReport
  <1> DEFINE rec == [state.job[j] EXCEPT !.out = out]
  <1>2. state.job[j] \in JobState
    BY Parts DEF Types
  <1>3. rec \in JobState /\ rec.status = state.job[j].status
    BY <1>2 DEF JobState
  <1>4. state' = [state EXCEPT !.job[j] = rec]
    BY <1>1
  <1> HIDE DEF rec
  <1> QED BY <1>3, <1>4, SetsJob DEF AgentReport

(* An attempt fails and another is left, so there is more than one.         *)
LEMMA FailRetryableSets ==
  ASSUME Types, NEW j \in Jobs, FailRetryable(j)
  PROVE  /\ Sets(j, "exec", "retry") /\ state'.job[j].status = "failed"
         /\ MaxAttempts[j] # 1
  <1> DEFINE rec == [state.job[j] EXCEPT !.status = "failed"]
  <1>1. state.job[j] \in JobState /\ AttemptOf(state.job[j]) \in Nat \ {0}
    BY Parts, Sealed DEF Types
  <1>2. rec \in JobState /\ rec.status = "failed"
    BY <1>1, WithStatusType DEF JobStatus
  <1>3. state' = [state EXCEPT !.job[j] = rec]
    BY DEF FailRetryable
  <1>4. MaxAttempts[j] # 1
    BY <1>1 DEF FailRetryable, AttemptsLeft
  <1> HIDE DEF rec
  <1> QED BY <1>2, <1>3, <1>4, SetsJob DEF FailRetryable

(* The next attempt is opened.                                              *)
LEMMA RetrySets ==
  ASSUME Types, NEW j \in Jobs, Retry(j)
  PROVE  Sets(j, "retry", "idle") /\ state'.job[j].status = "ready"
  <1> DEFINE rec == [state.job[j] EXCEPT
                 !.status = "ready", !.attempt = AttemptOf(state.job[j]) + 1,
                 !.last = "open"]
             next == AttemptOf(state.job[j]) + 1
  <1>1. state.job[j] \in JobState /\ next \in Nat
    BY Parts, Sealed DEF Types
  <1>2. rec \in JobState /\ rec.status = "ready"
    <2> HIDE DEF next
    <2>1. rec = [state.job[j] EXCEPT !.status = "ready", !.attempt = next, !.last = "open"]
      BY DEF next
    <2> HIDE DEF rec
    <2> QED BY <1>1, <2>1 DEF JobState, JobStatus
  <1>3. state' = [state EXCEPT !.job[j] = rec]
    BY DEF Retry
  <1> HIDE DEF rec
  <1> QED BY <1>2, <1>3, SetsJob DEF Retry

(* Job j ends as `status`, and others may become ready.                     *)
Fails(j, js) ==
  /\ task[j] = "exec" /\ task' = [task EXCEPT ![j] = "idle"]
  /\ UNCHANGED <<loop, fan, todo, rounds>>
  /\ state' \in RepeatsState
  /\ js \in JobStates
  /\ js[j].status \in {"failed", "blocked"}
  /\ \A k \in Jobs \ {j} : js[k] = state.job[k]
  /\ Propagated(js, state'.job)
  /\ state'.run \in {state.run, "failed", "blocked"}
  /\ state'.group = state.group
  /\ state'.item = state.item
  /\ state'.traverse = state.traverse

(* The last attempt fails, in each of the three ways of recordAgentFailure. *)
LEMMA FailFinalFails ==
  ASSUME Types, NEW j \in Jobs, FailFinal(j)
  PROVE  \E js : Fails(j, js)
  <1> DEFINE rec == SealFailure(state.job[j])
             fails(status) == [state.job EXCEPT ![j] = [rec EXCEPT !.status = status]]
             end == TerminalStatus(j, rec)
  <1>1. state \in RepeatsState /\ state.job \in JobStates /\ state.job[j] \in JobState
        /\ state.run \in RunStatus
    BY Parts DEF Types
  <1>2. rec \in JobState
    BY <1>1, Sealed
  <1>3. end \in {"failed", "blocked"}
    BY WorkflowAssumption DEF TerminalStatus
  <1>4. ASSUME NEW st \in {"failed", "blocked"}
        PROVE  /\ fails(st) \in JobStates /\ fails(st)[j].status = st
               /\ \A k \in Jobs \ {j} : fails(st)[k] = state.job[k]
    <2> HIDE DEF rec
    <2>0. st \in JobStatus
      BY DEF JobStatus
    <2>1. [rec EXCEPT !.status = st] \in JobState /\ [rec EXCEPT !.status = st].status = st
      BY <1>2, <2>0, WithStatusType
    <2> DEFINE r == [rec EXCEPT !.status = st]
    <2> HIDE DEF r
    <2>2. fails(st) = [state.job EXCEPT ![j] = r]
      BY DEF r
    <2> QED BY <1>1, <2>1, <2>2 DEF JobStates, r
  <1>5. /\ task[j] = "exec" /\ task' = [task EXCEPT ![j] = "idle"]
        /\ UNCHANGED <<loop, fan, todo, rounds>>
    BY DEF FailFinal, At, GoTo, trav
  <1>6. \/ state' = [state EXCEPT !.job = fails("failed"), !.run = "failed"]
        \/ state' = [state EXCEPT !.job =
                       PropagateReadiness(fails("failed"), ReadyJobs(fails("failed")))]
        \/ state' = [state EXCEPT !.job = fails(end), !.run = end]
    BY DEF FailFinal
  <1> HIDE DEF rec, fails, end
  <1>7. ASSUME NEW st \in {"failed", "blocked"},
               state' = [state EXCEPT !.job = fails(st), !.run = st]
        PROVE  Fails(j, fails(st))
    <2>1. /\ state' \in RepeatsState
          /\ state'.run = st /\ state'.job = fails(st)
          /\ state'.group = state.group /\ state'.item = state.item
          /\ state'.traverse = state.traverse
      BY <1>1, <1>4, <1>7 DEF RepeatsState, RunStatus
    <2>2. Propagated(fails(st), state'.job)
      BY <2>1 DEF Propagated
    <2> QED BY <1>4, <1>5, <2>1, <2>2 DEF Fails
  <1>8. CASE state' = [state EXCEPT !.job =
                       PropagateReadiness(fails("failed"), ReadyJobs(fails("failed")))]
    <2> DEFINE js == fails("failed")
               ks == PropagateReadiness(js, ReadyJobs(js))
    <2>1. /\ js \in JobStates /\ js[j].status = "failed"
          /\ \A k \in Jobs \ {j} : js[k] = state.job[k]
      BY <1>4
    <2>2. state' = [state EXCEPT !.job = ks]
      BY <1>8
    <2> HIDE DEF js
    <2>3. ks \in JobStates /\ Propagated(js, ks)
      BY <2>1, Propagation
    <2> HIDE DEF ks
    <2>4. /\ state' \in RepeatsState
          /\ state'.run = state.run /\ state'.job = ks
          /\ state'.group = state.group /\ state'.item = state.item
          /\ state'.traverse = state.traverse
      BY <1>1, <2>2, <2>3, WithJobs
    <2>5. Fails(j, js)
      BY <1>5, <2>1, <2>3, <2>4 DEF Fails
    <2> QED BY <2>5
  <1> QED BY <1>3, <1>6, <1>7, <1>8

(* ---------------------- the commit of a completed job --------------------*)

(* What Iterate makes of state s for group g, where every part it leaves    *)
(* alone is named.                                                          *)
Iterated(s, t, g) ==
  /\ t \in RepeatsState
  /\ t.item = s.item /\ t.traverse = s.traverse
  /\ \A h \in Groups \ {g} : t.group[h] = s.group[h]
  /\ \A k \in Jobs : k \notin Members(g) => t.job[k] = s.job[k]

(* The group ends: by its condition, or for want of one by its last         *)
(* iteration.                                                               *)
EndsWell(s, t, g) ==
  /\ AllCompleted(s.job, g)
  /\ t.job = s.job /\ t.run = s.run
  /\ t.group[g].status = "completed" /\ t.group[g].iteration = Iteration(s, g)
  /\ UntilMet(s.job, g) \/ (Until[g] = NoJob /\ Iteration(s, g) >= MaxIterations[g])

(* Its jobs start again.                                                    *)
StartsAgain(s, t, g) ==
  /\ AllCompleted(s.job, g)
  /\ t.run = s.run
  /\ t.group[g].status = "iterating" /\ t.group[g].iteration = Iteration(s, g) + 1
  /\ Iteration(s, g) < MaxIterations[g]
  /\ \A k \in Members(g) :
       \/ t.job[k].status = "waiting"
       \/ /\ t.job[k].status = "ready"
          /\ \A d \in Needs[k] : d \notin Members(g) /\ s.job[d].status = "completed"

(* Its condition has not held.                                              *)
EndsBadly(s, t, g) ==
  /\ AllCompleted(s.job, g)
  /\ t.run = "failed"
  /\ t.group[g].status = "failed" /\ t.group[g].iteration = Iteration(s, g)
  /\ Iteration(s, g) >= MaxIterations[g]
  /\ \A k \in Members(g) : t.job[k].status = "failed"

(* The four outcomes for the group of a completed job.                      *)
LEMMA Iterates ==
  ASSUME NEW s \in RepeatsState, NEW g \in Groups
  PROVE  /\ Iterated(s, Iterate(s, g), g)
         /\ \/ ~AllCompleted(s.job, g) /\ Iterate(s, g) = s
            \/ EndsWell(s, Iterate(s, g), g)
            \/ StartsAgain(s, Iterate(s, g), g)
            \/ EndsBadly(s, Iterate(s, g), g)
  <1> DEFINE t == Iterate(s, g)
             it == Iteration(s, g)
  <1>1. /\ s.job \in JobStates /\ \A k \in Jobs : s.job[k] \in JobState
        /\ s.group[g] \in GroupState /\ s.group[g].iteration \in Nat
    BY Parts
  <1>2. it \in Nat \ {0} /\ MaxIterations[g] \in Nat \ {0}
    BY <1>1, RepeatsAssumption DEF Iteration
  <1>3. CASE ~AllCompleted(s.job, g)
    BY <1>3 DEF Iterate, Iterated
  <1>4. ASSUME NEW st \in {"completed", "failed"}
        PROVE  /\ EndGroup(s, g, st) \in RepeatsState
               /\ EndGroup(s, g, st).run = s.run /\ EndGroup(s, g, st).job = s.job
               /\ EndGroup(s, g, st).group[g].status = st
               /\ EndGroup(s, g, st).group[g].iteration = it
               /\ \A h \in Groups \ {g} : EndGroup(s, g, st).group[h] = s.group[h]
               /\ EndGroup(s, g, st).item = s.item
               /\ EndGroup(s, g, st).traverse = s.traverse
    <2> DEFINE rec == [status |-> st, iteration |-> it]
    <2>1. EndGroup(s, g, st) = [s EXCEPT !.group[g] = rec]
      BY DEF EndGroup
    <2>2. rec \in GroupState /\ rec.status = st /\ rec.iteration = it
      BY <1>2 DEF GroupState
    <2> HIDE DEF rec, it
    <2> QED BY <2>1, <2>2, WithGroup
  <1>5. CASE /\ AllCompleted(s.job, g)
             /\ \/ UntilMet(s.job, g)
                \/ ~(it < MaxIterations[g]) /\ Until[g] = NoJob
    <2>1. t = EndGroup(s, g, "completed")
      BY <1>5 DEF Iterate
    <2>2. it >= MaxIterations[g] \/ UntilMet(s.job, g)
      BY <1>2, <1>5
    <2> HIDE DEF t
    <2>3. Iterated(s, t, g)
      BY <1>4, <2>1 DEF Iterated
    <2>4. EndsWell(s, t, g)
      BY <1>4, <1>5, <2>1, <2>2 DEF EndsWell
    <2> QED BY <2>3, <2>4 DEF t
  <1>6. CASE /\ AllCompleted(s.job, g) /\ ~UntilMet(s.job, g)
             /\ it < MaxIterations[g]
    <2> DEFINE js == Restarted(s.job, g)
               rec == [status |-> "iterating", iteration |-> it + 1]
               u == [s EXCEPT !.job = js]
    <2>1. t = [s EXCEPT !.job = js, !.group[g] = rec]
      BY <1>6 DEF Iterate
    <2>2. /\ js \in JobStates
          /\ \A k \in Jobs : k \notin Members(g) => js[k] = s.job[k]
          /\ \A k \in Members(g) :
               \/ js[k].status = "waiting"
               \/ /\ js[k].status = "ready"
                  /\ \A d \in Needs[k] : d \notin Members(g) /\ s.job[d].status = "completed"
      <3>1. \A k \in Jobs : AttemptOf(s.job[k]) + 1 \in Nat
        BY <1>1 DEF AttemptOf, JobState
      <3>2. js \in JobStates
        BY <1>1, <3>1 DEF Restarted, JobStates, JobState, JobStatus
      <3>3. \A k \in Jobs : k \notin Members(g) => js[k] = s.job[k]
        BY DEF Restarted
      <3>4. \A k \in Members(g) :
               \/ js[k].status = "waiting"
               \/ /\ js[k].status = "ready"
                  /\ \A d \in Needs[k] : d \notin Members(g) /\ s.job[d].status = "completed"
        <4> SUFFICES ASSUME NEW k \in Members(g)
                     PROVE  \/ js[k].status = "waiting"
                            \/ /\ js[k].status = "ready"
                               /\ \A d \in Needs[k] : d \notin Members(g) /\ s.job[d].status = "completed"
          OBVIOUS
        <4>1. k \in Jobs
          BY DEF Members
        <4>2. js[k].status = IF /\ \A d \in Needs[k] \ Members(g) : s.job[d].status = "completed"
                                /\ Needs[k] \cap Members(g) = {}
                             THEN "ready" ELSE "waiting"
          BY <4>1 DEF Restarted
        <4> QED BY <4>2
      <3> QED BY <3>2, <3>3, <3>4
    <2>3. rec \in GroupState /\ rec.status = "iterating" /\ rec.iteration = it + 1
      BY <1>2 DEF GroupState
    <2> HIDE DEF js, rec, it, t
    <2>4. /\ u \in RepeatsState /\ u.run = s.run /\ u.job = js /\ u.group = s.group
          /\ u.item = s.item /\ u.traverse = s.traverse
      BY <2>2, WithJobs
    <2>5. t = [u EXCEPT !.group[g] = rec]
      BY <2>1
    <2> HIDE DEF u
    <2>6. /\ t \in RepeatsState /\ t.run = s.run /\ t.job = js
          /\ t.group[g] = rec /\ \A h \in Groups \ {g} : t.group[h] = s.group[h]
          /\ t.item = s.item /\ t.traverse = s.traverse
      BY <2>3, <2>4, <2>5, WithGroup
    <2>7. Iterated(s, t, g)
      BY <2>2, <2>6 DEF Iterated
    <2>8. StartsAgain(s, t, g)
      BY <1>6, <2>2, <2>3, <2>6 DEF StartsAgain, it
    <2> QED BY <2>7, <2>8 DEF t
  <1>7. CASE /\ AllCompleted(s.job, g) /\ ~UntilMet(s.job, g)
             /\ ~(it < MaxIterations[g]) /\ Until[g] # NoJob
    <2> DEFINE js == [k \in Jobs |-> IF k \in Members(g)
                                     THEN [s.job[k] EXCEPT !.status = "failed"]
                                     ELSE s.job[k]]
               u == EndGroup(s, g, "failed")
    <2>1. t = [u EXCEPT !.run = "failed", !.job = js]
      BY <1>7 DEF Iterate
    <2>2. /\ js \in JobStates
          /\ \A k \in Jobs : k \notin Members(g) => js[k] = s.job[k]
          /\ \A k \in Members(g) : js[k].status = "failed"
      <3>1. \A k \in Jobs : /\ [s.job[k] EXCEPT !.status = "failed"] \in JobState
                             /\ [s.job[k] EXCEPT !.status = "failed"].status = "failed"
        BY <1>1, WithStatusType DEF JobStatus
      <3> QED BY <1>1, <3>1 DEF JobStates, Members
    <2> HIDE DEF js, it, t, u
    <2>3. /\ t \in RepeatsState /\ t.run = "failed" /\ t.job = js /\ t.group = u.group
          /\ t.item = u.item /\ t.traverse = u.traverse
      BY <1>4, <2>1, <2>2 DEF u, RepeatsState, RunStatus
    <2>4. /\ t.group[g].status = "failed" /\ t.group[g].iteration = it
          /\ \A h \in Groups \ {g} : t.group[h] = s.group[h]
          /\ t.item = s.item /\ t.traverse = s.traverse
      BY <1>4, <2>3 DEF u
    <2>5. Iterated(s, t, g)
      BY <2>2, <2>3, <2>4 DEF Iterated
    <2>6. it >= MaxIterations[g]
      BY <1>2, <1>7
    <2>7. EndsBadly(s, t, g)
      BY <1>7, <2>2, <2>3, <2>4, <2>6 DEF EndsBadly, it
    <2> QED BY <2>5, <2>7 DEF t
  <1> QED BY <1>3, <1>5, <1>6, <1>7

(* ------------------------- the counts of a traverse ----------------------*)

(* The items that have been started.                                        *)
Begun(t) == t.done + t.failed + t.active

Failures(t) == {n \in DOMAIN t.results : ~t.results[n].ok}

(* The counters of t agree with its results; results only come from items   *)
(* that have been started, each once.                                       *)
Counted(t) ==
  /\ Recorded(t) \subseteq 1..Begun(t)
  /\ Cardinality(Recorded(t)) = Len(t.results)
  /\ t.done + t.failed = Len(t.results)
  /\ t.failed = Cardinality(Failures(t))
  /\ Begun(t) =< t.items
  /\ t.items =< MaxItems
  /\ t.active =< Concurrency
  /\ t.status = "absent" => t.items = 0
  /\ t.status = "completed" => t.done + t.failed >= t.items

(* The items made are the first ones, and those still to be made come next  *)
(* and fit into the concurrency.                                            *)
Made ==
  /\ \A i \in Item : state.item[i] # "absent" <=> i =< Begun(state.traverse)
  /\ fan \subseteq 1..Begun(state.traverse)

Filling ==
  LET t == state.traverse
  IN  /\ loop = "finish" => t.done + t.failed >= t.items
      /\ todo # {} =>
           /\ loop = "fill"
           /\ \E e \in Nat : /\ todo = (Begun(t) + 1)..e
                             /\ e =< t.items
                             /\ e =< t.done + t.failed + Concurrency

Items == Counted(state.traverse) /\ Made /\ Filling

(* A set of naturals has a least element.                                   *)
LEMMA LeastNumber ==
  ASSUME NEW S, S \subseteq Nat, S # {}
  PROVE  \E m \in S : \A n \in S : m =< n
  <1>1. PICK m \in S : \A n \in S : <<n, m>> \notin OpToRel(<, Nat)
    BY NatLessThanWellFounded, WFMin
  <1>2. \A n \in S : ~(n < m)
    BY <1>1 DEF OpToRel
  <1> QED
    BY <1>2

(* The numbers of a traverse.                                               *)
LEMMA TraverseParts ==
  ASSUME NEW t \in TraverseState
  PROVE  /\ t.done \in Nat /\ t.failed \in Nat /\ t.active \in Nat /\ t.items \in Nat
         /\ Begun(t) \in Nat
         /\ t.results \in Seq(Result) /\ Len(t.results) \in Nat
         /\ DOMAIN t.results = 1..Len(t.results)
  BY DEF TraverseState, Begun

(* Of the items started and not recorded there are `active`.                *)
LEMMA ActiveItems ==
  ASSUME NEW t \in TraverseState, Counted(t)
  PROVE  /\ IsFiniteSet(Recorded(t))
         /\ Cardinality(1..Begun(t) \ Recorded(t)) = t.active
         /\ 1..Begun(t) \ Recorded(t) # {} => t.active > 0
  <1>1. Begun(t) \in Nat /\ t.done \in Nat /\ t.failed \in Nat /\ t.active \in Nat
    BY TraverseParts
  <1>2. IsFiniteSet(1..Begun(t)) /\ Cardinality(1..Begun(t)) = Begun(t)
    BY <1>1, FS_Interval
  <1>3. IsFiniteSet(Recorded(t))
    BY <1>2, FS_Subset DEF Counted
  <1>4. (1..Begun(t)) \cap Recorded(t) = Recorded(t)
    BY DEF Counted
  <1>5. Cardinality(1..Begun(t) \ Recorded(t)) = Begun(t) - Cardinality(Recorded(t))
    <2> DEFINE S == 1..Begun(t)
               R == Recorded(t)
    <2>1. IsFiniteSet(S) /\ Cardinality(S) = Begun(t) /\ S \cap R = R
      BY <1>2, <1>4
    <2> HIDE DEF S, R
    <2>2. Cardinality(S \ R) = Cardinality(S) - Cardinality(S \cap R)
      BY <2>1, FS_Difference
    <2>3. Cardinality(S \ R) = Begun(t) - Cardinality(R)
      BY <2>1, <2>2
    <2> QED BY <2>3 DEF S, R
  <1>6. Cardinality(1..Begun(t) \ Recorded(t)) = t.active
    BY <1>1, <1>5 DEF Counted, Begun
  <1>7. IsFiniteSet(1..Begun(t) \ Recorded(t))
    BY <1>2, FS_Subset
  <1>8. 1..Begun(t) \ Recorded(t) # {} => Cardinality(1..Begun(t) \ Recorded(t)) # 0
    BY <1>7, FS_EmptySet
  <1> QED BY <1>1, <1>3, <1>6, <1>8

(* Recording a started item keeps the counts.                               *)
LEMMA RecordCounts ==
  ASSUME NEW t \in TraverseState, Counted(t), NEW ok \in BOOLEAN,
         NEW i \in 1..Begun(t), i \notin Recorded(t)
  PROVE  /\ RecordItem(t, i, ok) \in TraverseState
         /\ Counted(RecordItem(t, i, ok))
         /\ Begun(RecordItem(t, i, ok)) = Begun(t)
         /\ RecordItem(t, i, ok).status = t.status
         /\ RecordItem(t, i, ok).items = t.items
  <1> DEFINE u == RecordItem(t, i, ok)
             r == [item |-> i, ok |-> ok]
             q == t.results
             L == Len(t.results)
  <1>1. /\ t.done \in Nat /\ t.failed \in Nat /\ t.active \in Nat /\ t.items \in Nat
        /\ Begun(t) \in Nat /\ q \in Seq(Result) /\ L \in Nat /\ DOMAIN q = 1..L
    BY TraverseParts
  <1>2. t.active > 0
    BY ActiveItems
  <1>3. r \in Result /\ r.item = i /\ r.ok = ok
    BY <1>1 DEF Result
  <1>4. /\ u.done = IF ok THEN t.done + 1 ELSE t.done
        /\ u.failed = IF ok THEN t.failed ELSE t.failed + 1
        /\ u.active = t.active - 1
        /\ u.results = Append(q, r)
        /\ u.status = t.status /\ u.items = t.items /\ u.policy = t.policy
        /\ u = [t EXCEPT !.done = u.done, !.failed = u.failed, !.active = u.active,
                         !.results = u.results]
    BY <1>1, <1>2 DEF RecordItem, TraverseState
  <1> HIDE DEF u, r
  <1>5. /\ Append(q, r) \in Seq(Result) /\ Len(Append(q, r)) = L + 1
        /\ DOMAIN Append(q, r) = 1..(L + 1)
        /\ Append(q, r)[L + 1] = r
        /\ \A n \in 1..L : Append(q, r)[n] = q[n]
    BY <1>1, <1>3
  <1>6. /\ u.done \in Nat /\ u.failed \in Nat /\ u.active \in Nat
        /\ u.results \in Seq(Result)
        /\ u.done + u.failed = t.done + t.failed + 1
        /\ u.active =< t.active
    <2>1. u.active \in Nat /\ u.active =< t.active
      BY <1>1, <1>2, <1>4
    <2>2. u.results \in Seq(Result)
      BY <1>4, <1>5
    <2>3. \/ u.done = t.done + 1 /\ u.failed = t.failed
          \/ u.done = t.done /\ u.failed = t.failed + 1
      BY <1>4
    <2>4. t.done \in Nat /\ t.failed \in Nat
      BY <1>1
    <2>5. /\ u.done \in Nat /\ u.failed \in Nat
          /\ u.done + u.failed = t.done + t.failed + 1
      BY <2>3, <2>4
    <2> QED BY <2>1, <2>2, <2>5
  <1>7. u \in TraverseState
    BY <1>4, <1>6 DEF TraverseState
  <1>8. Begun(u) = Begun(t)
    <2>1. Begun(u) = u.done + u.failed + (t.active - 1)
      BY <1>4 DEF Begun
    <2>2. Begun(t) = t.done + t.failed + t.active
      BY DEF Begun
    <2> QED BY <1>1, <1>6, <2>1, <2>2
  <1>9. Recorded(u) = Recorded(t) \cup {i}
    BY <1>1, <1>3, <1>4, <1>5 DEF Recorded
  <1>10. Cardinality(Recorded(u)) = L + 1
    BY <1>1, <1>9, ActiveItems, FS_AddElement DEF Counted
  <1>11. IsFiniteSet(Failures(t)) /\ L + 1 \notin Failures(t)
    <2>2. Failures(t) \subseteq 1..L /\ L \in Nat
      BY <1>1 DEF Failures
    <2> HIDE DEF L
    <2>1. IsFiniteSet(1..L) /\ L + 1 \notin 1..L
      BY <2>2, FS_Interval
    <2> QED BY <2>1, <2>2, FS_Subset
  <1>12. Failures(u) = IF ok THEN Failures(t) ELSE Failures(t) \cup {L + 1}
    <2>1. ASSUME NEW n
          PROVE  n \in Failures(u) <=> n \in Failures(t) \/ (n = L + 1 /\ ~ok)
      <3>1. n \in 1..(L + 1) <=> n \in 1..L \/ n = L + 1
        BY <1>1
      <3>2. L + 1 \notin 1..L
        BY <1>1
      <3> QED BY <1>1, <1>3, <1>4, <1>5, <3>1, <3>2 DEF Failures
    <2> QED BY <2>1
  <1>13. u.failed = Cardinality(Failures(u))
    <2>1. CASE ok
      BY <1>4, <1>12, <2>1 DEF Counted
    <2>2. CASE ~ok
      <3>1. Cardinality(Failures(u)) = Cardinality(Failures(t)) + 1
        BY <1>11, <1>12, <2>2, FS_AddElement
      <3> QED BY <1>4, <2>2, <3>1 DEF Counted
    <2> QED BY <2>1, <2>2
  <1>14. Counted(u)
    <2>1. Recorded(u) \subseteq 1..Begun(u)
      BY <1>8, <1>9 DEF Counted
    <2>2. u.done + u.failed = Len(u.results)
      BY <1>1, <1>4, <1>5, <1>6 DEF Counted
    <2>3. /\ Begun(u) =< u.items /\ u.items =< MaxItems
          /\ u.status = "absent" => u.items = 0
      BY <1>4, <1>8 DEF Counted
    <2>4. u.active =< Concurrency
      BY <1>1, <1>6, RepeatsAssumption DEF Counted
    <2>5. u.status = "completed" => u.done + u.failed >= u.items
      BY <1>1, <1>4, <1>6 DEF Counted
    <2> QED BY <1>4, <1>5, <1>10, <1>13, <2>1, <2>2, <2>3, <2>4, <2>5 DEF Counted
  <1> QED BY <1>4, <1>7, <1>8, <1>14 DEF u

(* Counts that do not change.                                               *)
LEMMA SameCounts ==
  ASSUME NEW t \in TraverseState, Counted(t), NEW u,
         u.done = t.done, u.failed = t.failed, u.active = t.active,
         u.results = t.results, u.items = t.items, u.status # "absent",
         u.status = "completed" => t.done + t.failed >= t.items
  PROVE  Counted(u) /\ Begun(u) = Begun(t)
  BY DEF Counted, Begun, Recorded, Failures

(* ------------------------- the steps of a traverse -----------------------*)

(* Jobs, groups and the run are left alone.                                 *)
Aside ==
  /\ state' \in RepeatsState
  /\ state'.run = state.run /\ state'.job = state.job /\ state'.group = state.group
  /\ UNCHANGED <<task, rounds>>

(* What is left alone by the steps of jobs and of the main loop.            *)
LEMMA ItemsKept ==
  ASSUME Items, state'.item = state.item, state'.traverse = state.traverse,
         fan' \subseteq 1..Begun(state.traverse),
         todo' = {} \/ (todo' = todo /\ loop' = loop),
         loop' = "finish" => loop = "finish"
  PROVE  Items'
  BY DEF Items, Made, Filling

(* Steps that move the loop only.                                           *)
LEMMA LoopSteps ==
  ASSUME Types, Items,
         LoopStop \/ BatchSettled \/ TraverseSkip \/ TraverseResume \/ Returned
           \/ UNCHANGED vars
  PROVE  Aside /\ Items'
  <1>1. Aside
    BY DEF Types, Aside, LoopStop, BatchSettled, TraverseSkip, TraverseResume,
           Returned, vars, tasks
  <1>2. state' = state /\ fan' = fan /\ todo' = todo
    BY DEF LoopStop, BatchSettled, TraverseSkip, TraverseResume, Returned, vars, tasks, trav
  <1>3. loop' = loop \/ (loop # "fill" /\ loop' # "finish")
    BY DEF LoopStop, BatchSettled, TraverseSkip, TraverseResume, Returned, vars
  <1>4. todo # {} => loop = "fill"
    BY DEF Items, Filling
  <1>5. fan' \subseteq 1..Begun(state.traverse)
    BY <1>2 DEF Items, Made
  <1> QED BY <1>1, <1>2, <1>3, <1>4, <1>5, ItemsKept

(* A batch takes virtual jobs that have been made.                          *)
LEMMA DispatchItems ==
  ASSUME Types, Items, Dispatch
  PROVE  Items'
  <1>1. PICK B : fan' = VirtualBatch(B)
    BY DEF Dispatch
  <1>2. /\ state' = state /\ todo' = todo /\ loop = "read" /\ loop' = "batch"
    BY DEF Dispatch, LoopGoesOn, trav
  <1>3. todo' = {}
    BY <1>2 DEF Items, Filling
  <1>4. fan' \subseteq 1..Begun(state.traverse)
    <2>1. \A i \in fan' : i \in Item /\ state.item[i] = "ready"
      BY <1>1 DEF VirtualBatch, ItemsWith
    <2>2. Begun(state.traverse) \in Nat
      BY Parts, TraverseParts DEF Types
    <2>3. \A i \in fan' : i \in Nat \ {0} /\ i =< Begun(state.traverse)
      BY <2>1, RepeatsAssumption DEF Items, Made, Item
    <2> QED BY <2>2, <2>3
  <1> QED BY <1>2, <1>3, <1>4, ItemsKept

(* A virtual job that has been made gets another status.                    *)
LEMMA ItemSteps ==
  ASSUME Types, Items, NEW i \in Item, NEW v \in {"completed", "failed"},
         i =< Begun(state.traverse), fan' \subseteq fan,
         state' = [state EXCEPT !.item[i] = v], UNCHANGED <<loop, todo, task, rounds>>
  PROVE  Aside /\ Items'
  <1>1. state \in RepeatsState /\ state.item \in ItemStates
    BY Parts DEF Types
  <1> DEFINE s == state
             u == [s EXCEPT !.item[i] = v]
  <1>2. /\ u \in RepeatsState /\ u.run = s.run /\ u.job = s.job /\ u.group = s.group
        /\ u.item[i] = v /\ \A k \in Item \ {i} : u.item[k] = s.item[k]
        /\ u.traverse = s.traverse
    <2>1. v \in ItemStatus
      BY DEF ItemStatus
    <2> QED BY <1>1, <2>1, WithItem
  <1>3. state' = u
    OBVIOUS
  <1> HIDE DEF u
  <1>4. Aside
    BY <1>2, <1>3 DEF Aside
  <1>5. \A k \in Item : state'.item[k] # "absent" <=> k =< Begun(state'.traverse)
    BY <1>2, <1>3 DEF Items, Made
  <1>6. Items'
    BY <1>2, <1>3, <1>5 DEF Items, Made, Filling
  <1> QED BY <1>4, <1>6

(* A virtual job is completed.                                              *)
LEMMA ItemCompletesStep ==
  ASSUME Types, Items, NEW i \in Item, ItemCompletes(i)
  PROVE  Aside /\ Items'
  <1>1. i =< Begun(state.traverse)
    BY RepeatsAssumption DEF Items, Made, ItemCompletes, Item
  <1>2. /\ fan' \subseteq fan /\ state' = [state EXCEPT !.item[i] = "completed"]
        /\ UNCHANGED <<loop, todo, task, rounds>>
    BY DEF ItemCompletes, trav
  <1> QED BY <1>1, <1>2, ItemSteps

(* A virtual job is force-set.                                              *)
LEMMA ForceItemStep ==
  ASSUME Types, Items, ForceItem
  PROVE  Aside /\ Items'
  <1>1. PICK i \in ItemsWith("ready") : state' = [state EXCEPT !.item[i] = "failed"]
    BY DEF ForceItem
  <1>2. i \in Item /\ i =< Begun(state.traverse)
    BY DEF ItemsWith, Items, Made
  <1>3. fan' \subseteq fan /\ UNCHANGED <<loop, todo, task, rounds>>
    BY DEF ForceItem, tasks, trav
  <1> QED BY <1>1, <1>2, <1>3, ItemSteps

(* The items that may be started are the next ones.                         *)
LEMMA Starting ==
  ASSUME NEW t \in TraverseState, Counted(t)
  PROVE  \E e \in Nat : /\ ToStart(t) = (Begun(t) + 1)..e
                        /\ e =< t.items /\ e =< t.done + t.failed + Concurrency
  <1>1. /\ t.done \in Nat /\ t.failed \in Nat /\ t.active \in Nat /\ t.items \in Nat
        /\ Begun(t) \in Nat /\ Concurrency \in Nat
    BY TraverseParts, RepeatsAssumption
  <1>2. Begun(t) = t.done + t.failed + t.active /\ t.active =< Concurrency
    BY DEF Begun, Counted
  <1> DEFINE m == t.done + t.failed + Concurrency
             e == IF t.items < m THEN t.items ELSE m
  <1>3. m \in Nat /\ e \in Nat /\ e =< t.items /\ e =< m
    BY <1>1
  <1>4. ToStart(t) = {i \in 1..t.items : Begun(t) < i /\ i =< m}
    BY <1>1, <1>2 DEF ToStart
  <1>5. ToStart(t) = (Begun(t) + 1)..e
    BY <1>1, <1>3, <1>4
  <1> QED BY <1>3, <1>5

(* The list is resolved, with nothing started yet.                          *)
LEMMA TraverseCreateStep ==
  ASSUME Types, Items, TraverseCreate
  PROVE  Aside /\ Items'
  <1> DEFINE s == state
             t == state.traverse
  <1>1. PICK n \in 0..MaxItems, policy \in ItemFailure :
          LET u == [t EXCEPT !.status = "pending", !.items = n, !.policy = policy]
          IN  /\ state' = [s EXCEPT !.traverse = u]
              /\ loop' = IF n = 0 THEN "finish" ELSE "fill"
              /\ todo' = ToStart(u)
    BY DEF TraverseCreate
  <1> DEFINE u == [t EXCEPT !.status = "pending", !.items = n, !.policy = policy]
  <1>2. s \in RepeatsState /\ t \in TraverseState
    BY Parts DEF Types
  <1>3. /\ t.done \in Nat /\ t.failed \in Nat /\ t.active \in Nat /\ t.items \in Nat
        /\ Begun(t) \in Nat
    BY <1>2, TraverseParts
  <1>4. /\ u \in TraverseState /\ u.status = "pending" /\ u.items = n
        /\ u.done = t.done /\ u.failed = t.failed /\ u.active = t.active
        /\ u.results = t.results
    <2>1. n \in Nat /\ policy \in {"continue", "fail_all"} /\ "pending" \in TraverseStatus
      BY RepeatsAssumption DEF TraverseStatus
    <2> HIDE DEF t
    <2> QED BY <1>2, <2>1 DEF TraverseState
  <1>5. Counted(t) /\ t.items = 0 /\ n \in Nat /\ n =< MaxItems
    BY RepeatsAssumption DEF Items, Counted, TraverseCreate
  <1>6. Begun(t) = 0 /\ t.done = 0 /\ t.failed = 0
    BY <1>3, <1>5 DEF Counted, Begun
  <1> HIDE DEF u
  <1>7. Counted(u) /\ Begun(u) = Begun(t)
    <2>1. Begun(u) = Begun(t) /\ Recorded(u) = Recorded(t) /\ Failures(u) = Failures(t)
      BY <1>4 DEF Begun, Recorded, Failures
    <2>2. Begun(u) =< u.items /\ u.items =< MaxItems
      BY <1>4, <1>5, <1>6, <2>1
    <2> QED BY <1>4, <1>5, <2>1, <2>2 DEF Counted
  <1>8. /\ state' \in RepeatsState /\ state'.run = s.run /\ state'.job = s.job
        /\ state'.group = s.group /\ state'.item = s.item /\ state'.traverse = u
    BY <1>1, <1>2, <1>4, WithTraverse DEF u
  <1>9. Aside
    BY <1>8 DEF Aside, TraverseCreate, tasks
  <1>10. Made'
    BY <1>7, <1>8 DEF Items, Made, TraverseCreate, tasks
  <1>11. Filling'
    <2>1. todo' = ToStart(u) /\ loop' = IF n = 0 THEN "finish" ELSE "fill"
      BY <1>1 DEF u
    <2>2. PICK e \in Nat : /\ ToStart(u) = (Begun(u) + 1)..e
                           /\ e =< u.items /\ e =< u.done + u.failed + Concurrency
      BY <1>4, <1>7, Starting
    <2>3. todo' # {} => n # 0
      BY <1>4, <1>6, <1>7, <2>1, <2>2
    <2>4. loop' = "finish" => u.done + u.failed >= u.items
      BY <1>4, <1>6, <2>1
    <2> QED BY <1>8, <2>1, <2>2, <2>3, <2>4 DEF Filling
  <1> QED BY <1>7, <1>8, <1>9, <1>10, <1>11 DEF Items

(* The next item is started: it is the first that is absent.                *)
LEMMA StartItemStep ==
  ASSUME Types, Items, StartItem
  PROVE  Aside /\ Items'
  <1> DEFINE s == state
             t == state.traverse
             i == Least(todo)
             b == Begun(t)
             u == [t EXCEPT !.status = "running", !.active = t.active + 1]
             v == [s EXCEPT !.item[i] = "ready"]
  <1>1. s \in RepeatsState /\ t \in TraverseState
    BY Parts DEF Types
  <1>2. /\ t.done \in Nat /\ t.failed \in Nat /\ t.active \in Nat /\ t.items \in Nat
        /\ b \in Nat /\ b = t.done + t.failed + t.active
    BY <1>1, TraverseParts DEF Begun
  <1>3. todo # {} /\ Counted(t) /\ Concurrency \in Nat
    BY RepeatsAssumption DEF StartItem, Items
  <1>4. PICK e \in Nat : /\ todo = (b + 1)..e
                         /\ e =< t.items /\ e =< t.done + t.failed + Concurrency
    BY <1>3 DEF Items, Filling
  <1>5. b + 1 \in todo /\ \A k \in todo : b + 1 =< k
    BY <1>2, <1>3, <1>4
  <1>6. i = b + 1
    <2>1. i \in todo /\ \A k \in todo : i =< k
      BY <1>5 DEF Least
    <2> HIDE DEF i
    <2>2. i \in Nat /\ i =< b + 1 /\ b + 1 =< i
      BY <1>2, <1>4, <1>5, <2>1
    <2> QED BY <1>2, <2>2
  <1>7. i \in Item /\ b + 1 =< e
    BY <1>2, <1>3, <1>4, <1>5, <1>6, RepeatsAssumption DEF Counted, Item
  <1>8. state' = [v EXCEPT !.traverse = u]
    BY <1>1 DEF StartItem, RepeatsState, TraverseState
  <1>9. /\ u \in TraverseState /\ u.status = "running" /\ u.items = t.items
        /\ u.done = t.done /\ u.failed = t.failed /\ u.active = t.active + 1
        /\ u.results = t.results
    <2>1. t.active + 1 \in Nat /\ "running" \in TraverseStatus
      BY <1>2 DEF TraverseStatus
    <2> DEFINE a == t.active + 1
    <2> HIDE DEF t, a
    <2>2. u = [t EXCEPT !.status = "running", !.active = a] /\ a \in Nat
      BY <2>1 DEF a
    <2> HIDE DEF u
    <2>3. u \in TraverseState /\ u.status = "running" /\ u.active = a
          /\ u.items = t.items /\ u.done = t.done /\ u.failed = t.failed
          /\ u.results = t.results
      BY <1>1, <2>1, <2>2 DEF TraverseState
    <2> QED BY <2>3 DEF a
  <1>10. todo' = todo \ {i} /\ loop' = IF todo = {i} THEN "read" ELSE "fill"
    BY DEF StartItem
  <1>11. UNCHANGED <<task, fan, rounds>>
    BY DEF StartItem, tasks
  <1> HIDE DEF i, u, v, b
  <1>12. /\ v \in RepeatsState /\ v.run = s.run /\ v.job = s.job /\ v.group = s.group
         /\ v.item[i] = "ready" /\ \A k \in Item \ {i} : v.item[k] = s.item[k]
         /\ v.traverse = s.traverse
    <2>1. "ready" \in ItemStatus
      BY DEF ItemStatus
    <2> QED BY <1>1, <1>7, <2>1, WithItem DEF v
  <1>13. /\ state' \in RepeatsState /\ state'.run = s.run /\ state'.job = s.job
         /\ state'.group = s.group /\ state'.item = v.item /\ state'.traverse = u
    BY <1>8, <1>9, <1>12, WithTraverse
  <1>14. Aside
    BY <1>11, <1>13 DEF Aside
  <1>15. Begun(u) = b + 1
    BY <1>2, <1>9 DEF Begun
  <1>16. Counted(u)
    <2>1. Recorded(u) = Recorded(t) /\ Failures(u) = Failures(t)
      BY <1>9 DEF Recorded, Failures
    <2>2. Recorded(u) \subseteq 1..Begun(u)
      BY <1>2, <1>3, <1>15, <2>1 DEF Counted, b
    <2>3. Begun(u) =< u.items
      BY <1>2, <1>4, <1>7, <1>9, <1>15
    <2>4. t.active + 1 =< Concurrency
      BY <1>2, <1>3, <1>4, <1>7
    <2> QED BY <1>3, <1>9, <2>1, <2>2, <2>3, <2>4 DEF Counted
  <1>17. Made'
    <2>1. \A k \in Item : k \in Int /\ (s.item[k] # "absent" <=> k =< b)
      BY RepeatsAssumption DEF Items, Made, Item, b
    <2>2. ASSUME NEW k \in Item
          PROVE  state'.item[k] # "absent" <=> k =< b + 1
      <3>1. CASE k = i
        BY <1>2, <1>6, <1>12, <1>13, <3>1
      <3>2. CASE k # i
        BY <1>2, <1>6, <1>12, <1>13, <2>1, <3>2
      <3> QED BY <3>1, <3>2
    <2>3. fan' \subseteq 1..(b + 1)
      BY <1>2, <1>11 DEF Items, Made, b
    <2> QED BY <1>13, <1>15, <2>2, <2>3 DEF Made
  <1>18. Filling'
    <2>1. todo' = (b + 2)..e
      BY <1>2, <1>4, <1>6, <1>10
    <2>2. todo' # {} => loop' = "fill"
      BY <1>10
    <2>3. (b + 1) + 1 = b + 2 /\ loop' # "finish"
      BY <1>2, <1>10
    <2> QED BY <1>4, <1>9, <1>13, <1>15, <2>1, <2>2, <2>3 DEF Filling
  <1> QED BY <1>13, <1>14, <1>16, <1>17, <1>18 DEF Items

(* A finished item is recorded: it was active and is not recorded yet.      *)
LEMMA CollectItemStep ==
  ASSUME Types, Items, CollectItem
  PROVE  Aside /\ Items'
  <1> DEFINE s == state
             i == Least(Uncollected)
             ok == (s.item[i] = "completed")
             t == s.traverse
             u == RecordItem(t, i, ok)
  <1>1. s \in RepeatsState /\ t \in TraverseState /\ Counted(t)
    BY Parts DEF Types, Items
  <1>2. /\ t.done \in Nat /\ t.failed \in Nat /\ t.active \in Nat /\ t.items \in Nat
        /\ Begun(t) \in Nat
    BY <1>1, TraverseParts
  <1>3. i \in Uncollected
    <2>1. Uncollected \subseteq Nat /\ Uncollected # {}
      BY <1>2 DEF Uncollected, CollectItem
    <2>2. \E m \in Uncollected : \A n \in Uncollected : m =< n
      BY <2>1, LeastNumber
    <2> QED BY <2>2 DEF Least
  <1>4. i \in Item /\ i \in 1..Begun(t) /\ i \notin Recorded(t)
    <2>1. i \in 1..t.items /\ s.item[i] # "absent" /\ i \notin Recorded(t)
      BY <1>3 DEF Uncollected
    <2> HIDE DEF i
    <2>2. i \in Item
      BY <1>1, <1>2, <2>1, RepeatsAssumption DEF Counted, Item
    <2> QED BY <1>2, <2>1, <2>2 DEF Items, Made
  <1>5. ok \in BOOLEAN
    OBVIOUS
  <1> HIDE DEF ok
  <1>6. /\ u \in TraverseState /\ Counted(u) /\ Begun(u) = Begun(t)
        /\ u.status = t.status /\ u.items = t.items
    BY <1>1, <1>4, <1>5, RecordCounts
  <1>7. loop = "collect" /\ UNCHANGED <<task, fan, todo, rounds>>
    BY DEF CollectItem, tasks
  <1>8. todo' = {}
    BY <1>7 DEF Items, Filling
  <1>9. \/ /\ state' = [s EXCEPT !.traverse = [u EXCEPT !.status = "failed"]]
           /\ loop' = "read"
        \/ /\ state' = [s EXCEPT !.traverse = u]
           /\ loop' = IF u.done + u.failed >= u.items THEN "finish" ELSE "collect"
    BY DEF CollectItem, ok
  <1> HIDE DEF u, i
  <1>10. ASSUME NEW w \in TraverseState, Counted(w), Begun(w) = Begun(t),
                state' = [s EXCEPT !.traverse = w],
                loop' = "finish" => w.done + w.failed >= w.items
         PROVE  Aside /\ Items'
    <2>1. /\ state' \in RepeatsState /\ state'.run = s.run /\ state'.job = s.job
          /\ state'.group = s.group /\ state'.item = s.item /\ state'.traverse = w
      BY <1>1, <1>10, WithTraverse
    <2>2. Aside
      BY <1>7, <2>1 DEF Aside
    <2>3. Made'
      BY <1>7, <1>10, <2>1 DEF Items, Made
    <2>4. Filling'
      BY <1>8, <1>10, <2>1 DEF Filling
    <2> QED BY <1>10, <2>1, <2>2, <2>3, <2>4 DEF Items
  <1>11. CASE /\ state' = [s EXCEPT !.traverse = [u EXCEPT !.status = "failed"]]
              /\ loop' = "read"
    <2> DEFINE w == [u EXCEPT !.status = "failed"]
    <2>1. /\ w \in TraverseState /\ w.done = u.done /\ w.failed = u.failed
          /\ w.active = u.active /\ w.results = u.results /\ w.items = u.items
          /\ w.status = "failed"
      BY <1>6 DEF TraverseState, TraverseStatus
    <2>2. state' = [s EXCEPT !.traverse = w] /\ loop' # "finish"
      BY <1>11
    <2> HIDE DEF w
    <2>3. Counted(w) /\ Begun(w) = Begun(t)
      BY <1>6, <2>1, SameCounts
    <2> QED BY <1>10, <2>1, <2>2, <2>3
  <1>12. CASE /\ state' = [s EXCEPT !.traverse = u]
              /\ loop' = IF u.done + u.failed >= u.items THEN "finish" ELSE "collect"
    BY <1>6, <1>10, <1>12
  <1> QED BY <1>9, <1>11, <1>12

(* Nothing is left to record; the next items may follow.                    *)
LEMMA CollectDoneStep ==
  ASSUME Types, Items, CollectDone
  PROVE  Aside /\ Items'
  <1> DEFINE t == state.traverse
  <1>1. state \in RepeatsState /\ t \in TraverseState /\ Counted(t)
    BY Parts DEF Types, Items
  <1>2. /\ state' = state /\ UNCHANGED <<task, fan, rounds>>
        /\ todo' = ToStart(t) \/ todo' = {}
        /\ loop' = IF todo' = {} THEN "read" ELSE "fill"
    BY DEF CollectDone, tasks
  <1>3. PICK e \in Nat : /\ ToStart(t) = (Begun(t) + 1)..e
                         /\ e =< t.items /\ e =< t.done + t.failed + Concurrency
    BY <1>1, Starting
  <1>4. Filling'
    BY <1>2, <1>3 DEF Filling
  <1> QED BY <1>1, <1>2, <1>4 DEF Aside, Items, Made

(* The traverse is completed, which the counters allow.                     *)
LEMMA FinishTraverseStep ==
  ASSUME Types, Items, FinishTraverse
  PROVE  Aside /\ Items'
  <1> DEFINE s == state
             t == state.traverse
             u == [t EXCEPT !.status = "completed"]
  <1>1. s \in RepeatsState /\ t \in TraverseState /\ Counted(t)
    BY Parts DEF Types, Items
  <1>2. /\ u \in TraverseState /\ u.done = t.done /\ u.failed = t.failed
        /\ u.active = t.active /\ u.results = t.results /\ u.items = t.items
        /\ u.status = "completed"
    BY <1>1 DEF TraverseState, TraverseStatus
  <1>3. state' = [s EXCEPT !.traverse = u]
    BY <1>1 DEF FinishTraverse, RepeatsState
  <1>4. t.done + t.failed >= t.items /\ todo = {}
    BY DEF FinishTraverse, Items, Filling
  <1>5. UNCHANGED <<task, fan, todo, rounds>> /\ loop' = "read"
    BY DEF FinishTraverse, tasks, trav
  <1> HIDE DEF u
  <1>6. Counted(u) /\ Begun(u) = Begun(t)
    BY <1>1, <1>2, <1>4, SameCounts
  <1>7. /\ state' \in RepeatsState /\ state'.run = s.run /\ state'.job = s.job
        /\ state'.group = s.group /\ state'.item = s.item /\ state'.traverse = u
    BY <1>1, <1>2, <1>3, WithTraverse
  <1>8. Aside
    BY <1>5, <1>7 DEF Aside
  <1>9. Made' /\ Filling'
    BY <1>4, <1>5, <1>6, <1>7 DEF Items, Made, Filling
  <1> QED BY <1>6, <1>7, <1>8, <1>9 DEF Items

(* ------------------------------- the groups ------------------------------*)

Ended(g) == state.group[g].status \in {"completed", "failed"}

(* Where a task is tells the status of its job.                             *)
Working ==
  \A j \in Jobs :
    /\ task[j] = "start" => state.job[j].status \in {"ready", "running"}
    /\ task[j] \in {"exec", "commit"} => state.job[j].status = "running"
    /\ task[j] = "retry" => state.job[j].status = "failed"

(* The jobs of a group that has ended rest, with its status; it ended       *)
(* within its iterations, and its failure is the run's.                     *)
Rests(g) ==
  /\ state.group[g].status # "pending" => Members(g) # {}
  /\ Ended(g) => \A j \in Members(g) :
       task[j] = "idle" /\ state.job[j].status = state.group[g].status
  /\ state.group[g].iteration =< MaxIterations[g]
  /\ state.group[g].status = "completed" /\ Until[g] = NoJob
       => state.group[g].iteration = MaxIterations[g]
  /\ state.group[g].status = "failed"
       => /\ state.group[g].iteration = MaxIterations[g]
          /\ state.run \in {"failed", "blocked"}

(* Its jobs have been completed once per iteration.                         *)
InStep(g) ==
  \A j \in Members(g) :
    rounds[j] = Iteration(state, g)
                  - IF \/ state.job[j].status = "completed"
                       \/ state.group[g].status = "failed" THEN 0 ELSE 1

GroupInv == Working /\ \A g \in Groups : Rests(g) /\ InStep(g)

(* A waiting job has become ready, or is blocked; other jobs stay as they   *)
(* are.                                                                     *)
Woken(k) ==
  \/ state'.job[k] = state.job[k]
  \/ /\ state.job[k].status = "waiting"
     /\ state'.job[k].status \in {"ready", "blocked"}
     /\ state'.job[k].out = state.job[k].out

RunKept == state.run \in {"failed", "blocked"} => state'.run \in {"failed", "blocked"}

(* Where a job is whose task is not idle, and that it is a member only of   *)
(* groups that have not ended.                                              *)
LEMMA Executes ==
  ASSUME Types, GroupInv, NEW j \in Jobs, task[j] # "idle"
  PROVE  /\ state.job[j].status \in {"ready", "running", "failed"}
         /\ task[j] = "commit" => state.job[j].status = "running"
         /\ \A g \in Groups : j \in Members(g) => ~Ended(g)
  <1>1. task[j] \in {"start", "exec", "commit", "retry"}
    BY DEF Types
  <1> QED BY <1>1 DEF GroupInv, Working, Rests

(* The jobs of S, which execute, go on without being completed; nobody else *)
(* than waiting jobs is touched.                                            *)
LEMMA QuietStep ==
  ASSUME Types, GroupInv, NEW S \in SUBSET Jobs,
         state' \in RepeatsState, state'.group = state.group, rounds' = rounds,
         \A k \in Jobs \ S : task'[k] = task[k] /\ Woken(k),
         \A k \in S :
           /\ task[k] # "idle" /\ state'.job[k].status # "completed"
           /\ task'[k] = "start" => state'.job[k].status \in {"ready", "running"}
           /\ task'[k] \in {"exec", "commit"} => state'.job[k].status = "running"
           /\ task'[k] = "retry" => state'.job[k].status = "failed",
         RunKept
  PROVE  GroupInv'
  <1>1. Working'
    <2> SUFFICES ASSUME NEW k \in Jobs
                 PROVE  /\ task'[k] = "start" => state'.job[k].status \in {"ready", "running"}
                        /\ task'[k] \in {"exec", "commit"} => state'.job[k].status = "running"
                        /\ task'[k] = "retry" => state'.job[k].status = "failed"
      BY DEF Working
    <2>1. CASE k \in S
      BY <2>1
    <2>2. CASE k \notin S
      BY <2>2 DEF Woken, GroupInv, Working
    <2> QED BY <2>1, <2>2
  <1>2. ASSUME NEW g \in Groups
        PROVE  Rests(g)' /\ InStep(g)'
    <2>1. Rests(g) /\ InStep(g)
      BY DEF GroupInv
    <2>2. Members(g) \subseteq Jobs
      BY DEF Members
    <2>3. \A k \in Members(g) \cap S : state.job[k].status # "completed" /\ ~Ended(g)
      BY Executes
    <2>4. Ended(g) => \A j \in Members(g) :
            task'[j] = "idle" /\ state'.job[j].status = state.group[g].status
      BY <2>1, <2>2, <2>3 DEF Rests, Ended, Woken
    <2>5. Rests(g)'
      BY <2>1, <2>4 DEF Rests, Ended, RunKept
    <2>6. \A j \in Members(g) :
            state'.job[j].status = "completed" <=> state.job[j].status = "completed"
      BY <2>2, <2>3 DEF Woken
    <2>7. Iteration(state', g) = Iteration(state, g)
      BY DEF Iteration
    <2>8. InStep(g)'
      BY <2>1, <2>6, <2>7 DEF InStep
    <2> QED BY <2>5, <2>8
  <1> QED BY <1>1, <1>2 DEF GroupInv

(* The four steps that write the record of one job.                         *)
LEMMA SetsStep ==
  ASSUME Types, GroupInv, NEW j \in Jobs, NEW here, NEW there,
         Sets(j, here, there), here # "idle",
         state'.job[j].status # "completed",
         there = "start" => state'.job[j].status \in {"ready", "running"},
         there \in {"exec", "commit"} => state'.job[j].status = "running",
         there = "retry" => state'.job[j].status = "failed"
  PROVE  GroupInv'
  <1>1. /\ task[j] = here /\ task'[j] = there
        /\ \A k \in Jobs \ {j} : task'[k] = task[k]
    BY DEF Sets, Types
  <1>2. \A k \in Jobs \ {j} : Woken(k)
    BY DEF Sets, Woken
  <1>3. RunKept /\ state' \in RepeatsState /\ state'.group = state.group /\ rounds' = rounds
    BY DEF Sets, RunKept
  <1>4. {j} \in SUBSET Jobs
    OBVIOUS
  <1> QED BY <1>1, <1>2, <1>3, <1>4, QuietStep

(* A last attempt fails.                                                    *)
LEMMA FailsStep ==
  ASSUME Types, GroupInv, NEW j \in Jobs, NEW js, Fails(j, js)
  PROVE  GroupInv'
  <1>1. /\ task[j] = "exec" /\ task'[j] = "idle"
        /\ \A k \in Jobs \ {j} : task'[k] = task[k]
    BY DEF Fails, Types
  <1>2. \A k \in Jobs \ {j} : Woken(k)
    BY DEF Fails, Propagated, Woken
  <1>3. state'.job[j].status # "completed"
    BY DEF Fails, Propagated
  <1>4. RunKept /\ state' \in RepeatsState /\ state'.group = state.group /\ rounds' = rounds
    BY DEF Fails, RunKept
  <1>5. {j} \in SUBSET Jobs
    OBVIOUS
  <1> QED BY <1>1, <1>2, <1>3, <1>4, <1>5, QuietStep

(* ------------------------ the steps of the main loop ---------------------*)

(* The main loop lets waiting jobs go or blocks them.                       *)
Settles ==
  /\ state' \in RepeatsState
  /\ UNCHANGED <<task, fan, todo, rounds>>
  /\ \A k \in Jobs : Woken(k)
  /\ \A k \in Jobs : state.job[k].status = "waiting" /\ state'.job[k].status = "ready"
                        => \A d \in Needs[k] : NeedMet(state.job, d)
  /\ RunKept
  /\ loop \in {"read", "settle"} /\ loop' # "finish"
  /\ state'.group = state.group /\ state'.item = state.item
  /\ state'.traverse = state.traverse

(* What reconcileTerminalState may return.                                  *)
LEMMA VerdictType == Verdict \in {"none", "failed", "blocked", "completed"}
  BY DEF Verdict, Reconcile

(* An idle pass lets waiting jobs go, or gives the run its verdict.         *)
LEMMA LoopIdleSettles == ASSUME Types, LoopIdle PROVE Settles
  <1> DEFINE s == state
  <1>1. s \in RepeatsState /\ s.job \in JobStates /\ s.run \in RunStatus
    BY Parts DEF Types
  <1>2. /\ loop = "read" /\ loop' \in {"read", "deadlock", "settle"}
        /\ UNCHANGED <<task, fan, todo, rounds>> /\ RunKept
    BY DEF LoopIdle, LoopGoesOn, Terminal, TerminalRun, tasks, trav, RunKept
  <1>3. CASE state' = [s EXCEPT !.job = PropagateReadiness(@, ReadyJobs(@))]
    <2> DEFINE ks == PropagateReadiness(s.job, ReadyJobs(s.job))
    <2>1. ks \in JobStates /\ Propagated(s.job, ks)
      BY <1>1, Propagation
    <2>2. state' = [s EXCEPT !.job = ks]
      BY <1>1, <1>3 DEF RepeatsState
    <2> HIDE DEF ks
    <2>3. /\ state' \in RepeatsState /\ state'.job = ks /\ state'.group = s.group
          /\ state'.item = s.item /\ state'.traverse = s.traverse
      BY <1>1, <2>1, <2>2, WithJobs
    <2>4. \A k \in Jobs : Woken(k)
      BY <2>1, <2>3 DEF Woken, Propagated
    <2>5. \A k \in Jobs : s.job[k].status = "waiting" /\ state'.job[k].status = "ready"
                            => \A d \in Needs[k] : NeedMet(s.job, d)
      BY <2>1, <2>3 DEF Propagated
    <2> QED BY <1>2, <2>3, <2>4, <2>5 DEF Settles
  <1>4. CASE \E r \in RunStatus : state' = [s EXCEPT !.run = r]
    <2>1. PICK r \in RunStatus : state' = [s EXCEPT !.run = r]
      BY <1>4
    <2>2. /\ state' \in RepeatsState /\ state'.job = s.job /\ state'.group = s.group
          /\ state'.item = s.item /\ state'.traverse = s.traverse
      BY <1>1, <2>1, WithRun
    <2> QED BY <1>2, <2>2 DEF Settles, Woken
  <1>5. \/ state' = [s EXCEPT !.job = PropagateReadiness(@, ReadyJobs(@))]
        \/ \E r \in RunStatus : state' = [s EXCEPT !.run = r]
    <2>1. Verdict \in RunStatus
      BY VerdictType DEF RunStatus
    <2>2. \/ state' = [s EXCEPT !.job = PropagateReadiness(@, ReadyJobs(@))]
          \/ state' = [s EXCEPT !.run = Verdict]
          \/ state' = [s EXCEPT !.run = s.run]
      BY <1>1 DEF LoopIdle, RepeatsState
    <2> QED BY <1>1, <2>1, <2>2
  <1> QED BY <1>3, <1>4, <1>5

(* The pass after the loop blocks what waits for a failure.                 *)
LEMMA PostLoopSettles == ASSUME Types, PostLoop PROVE Settles
  <1> DEFINE s == state
             stuck == StuckJobs(s.job)
             js == [j \in Jobs |-> IF j \in stuck
                                   THEN [s.job[j] EXCEPT !.status = "blocked"]
                                   ELSE s.job[j]]
             run == IF stuck # {} THEN "failed" ELSE s.run
             r == IF run \notin TerminalRun /\ Verdict # "none" THEN Verdict ELSE run
  <1>1. s \in RepeatsState /\ s.job \in JobStates /\ s.run \in RunStatus
        /\ \A k \in Jobs : s.job[k] \in JobState
    BY Parts DEF Types
  <1>2. /\ loop = "settle" /\ loop' = "done" /\ UNCHANGED <<task, fan, todo, rounds>>
        /\ state' = [s EXCEPT !.run = r, !.job = js]
    BY DEF PostLoop, tasks, trav
  <1>3. r \in RunStatus /\ (s.run \in {"failed", "blocked"} => r \in {"failed", "blocked"})
    BY <1>1, VerdictType DEF RunStatus, TerminalRun
  <1>4. \A k \in stuck : k \in Jobs /\ s.job[k].status = "waiting"
    BY DEF StuckJobs, WithStatus
  <1>5. \A k \in Jobs : /\ [s.job[k] EXCEPT !.status = "blocked"] \in JobState
                         /\ [s.job[k] EXCEPT !.status = "blocked"].status = "blocked"
                         /\ [s.job[k] EXCEPT !.status = "blocked"].out = s.job[k].out
    BY <1>1, WithStatusType DEF JobStatus
  <1> HIDE DEF r, run, stuck
  <1>6. js \in JobStates
    BY <1>1, <1>5 DEF JobStates
  <1>7. \A k \in Jobs :
          \/ js[k] = s.job[k]
          \/ /\ s.job[k].status = "waiting"
             /\ js[k].status = "blocked" /\ js[k].out = s.job[k].out
    BY <1>4, <1>5
  <1> HIDE DEF js
  <1>8. /\ state' \in RepeatsState /\ state'.job = js /\ state'.run = r
        /\ state'.group = s.group /\ state'.item = s.item /\ state'.traverse = s.traverse
    BY <1>1, <1>2, <1>3, <1>6 DEF RepeatsState
  <1>9. /\ \A k \in Jobs : Woken(k)
        /\ \A k \in Jobs : ~(s.job[k].status = "waiting" /\ state'.job[k].status = "ready")
    BY <1>7, <1>8 DEF Woken
  <1> QED BY <1>2, <1>3, <1>8, <1>9 DEF Settles, RunKept

(* The groups do not notice.                                                *)
LEMMA SettlesStep ==
  ASSUME Types, GroupInv, Settles
  PROVE  GroupInv'
  <1>1. {} \in SUBSET Jobs
    OBVIOUS
  <1> QED BY <1>1, QuietStep DEF Settles

(* A batch is dispatched: no job of a group that has ended is in it.        *)
LEMMA DispatchStep ==
  ASSUME Types, GroupInv, Dispatch
  PROVE  Types' /\ GroupInv'
  <1>1. PICK B \in Batches(state.job) :
          task' = [j \in Jobs |-> IF j \in B THEN "start" ELSE "idle"]
    BY DEF Dispatch
  <1>2. state' = state /\ rounds' = rounds
    BY DEF Dispatch
  <1>3. \A j \in B : state.job[j].status \in {"ready", "running"}
    BY BatchJobs
  <1>4. Types'
    BY <1>1, <1>2 DEF Types
  <1>5. Working'
    BY <1>1, <1>2, <1>3 DEF Working
  <1>6. ASSUME NEW g \in Groups
        PROVE  Rests(g)' /\ InStep(g)'
    <2>1. Rests(g) /\ InStep(g)
      BY DEF GroupInv
    <2>2. Members(g) \subseteq Jobs
      BY DEF Members
    <2>3. Ended(g) => \A j \in Members(g) : task'[j] = "idle"
      BY <1>1, <1>3, <2>1, <2>2 DEF Rests, Ended
    <2> QED BY <1>2, <2>1, <2>3 DEF Rests, Ended, InStep, Iteration
  <1> QED BY <1>4, <1>5, <1>6 DEF GroupInv

(* A crash leaves no task.                                                  *)
LEMMA CrashStep ==
  ASSUME Types, GroupInv, Items, Crash
  PROVE  Types' /\ GroupInv' /\ Items'
  <1>1. /\ state' = state /\ rounds' = rounds /\ task' = [j \in Jobs |-> "idle"]
        /\ fan' = {} /\ todo' = {} /\ loop' = "read"
    BY DEF Crash
  <1>2. Types'
    BY <1>1 DEF Types
  <1>3. Working'
    BY <1>1 DEF Working
  <1>4. ASSUME NEW g \in Groups
        PROVE  Rests(g)' /\ InStep(g)'
    <2>1. Rests(g) /\ InStep(g) /\ Members(g) \subseteq Jobs
      BY DEF GroupInv, Members
    <2> QED BY <1>1, <2>1 DEF Rests, Ended, InStep, Iteration
  <1>5. Items'
    BY <1>1, ItemsKept
  <1> QED BY <1>2, <1>3, <1>4, <1>5 DEF GroupInv

(* Steps that leave jobs and groups alone.                                  *)
LEMMA AsideStep ==
  ASSUME Types, GroupInv, Aside
  PROVE  Types' /\ GroupInv'
  BY DEF Types, GroupInv, Aside, Working, Rests, Ended, InStep, Iteration

(* ------------------------- the completion of a job -----------------------*)

(* Job j is completed: `done` has its record, `after` what its group makes  *)
(* of it; the dependents and the run follow.                                *)
Commits(j, done, after) ==
  /\ task[j] = "commit" /\ task' = [task EXCEPT ![j] = "idle"]
  /\ rounds' = [rounds EXCEPT ![j] = rounds[j] + 1]
  /\ UNCHANGED <<loop, fan, todo>>
  /\ done \in RepeatsState /\ after \in RepeatsState /\ state' \in RepeatsState
  /\ done.run = state.run /\ done.group = state.group
  /\ done.item = state.item /\ done.traverse = state.traverse
  /\ done.job[j].status = "completed" /\ done.job[j].out = state.job[j].out
  /\ \A k \in Jobs \ {j} : done.job[k] = state.job[k]
  /\ \/ GroupOf[j] = NoJob /\ after = done
     \/ /\ GroupOf[j] \in Groups
        /\ Iterated(done, after, GroupOf[j])
        /\ \/ ~AllCompleted(done.job, GroupOf[j]) /\ after = done
           \/ EndsWell(done, after, GroupOf[j])
           \/ StartsAgain(done, after, GroupOf[j])
           \/ EndsBadly(done, after, GroupOf[j])
  /\ Propagated(after.job, state'.job)
  /\ state'.group = after.group
  /\ state'.item = after.item /\ state'.traverse = after.traverse
  /\ \/ state'.run = after.run
     \/ /\ state'.run = "completed"
        /\ \A k \in Jobs : state'.job[k].status \in {"completed", "inactive"}

(* What transitionCompletedJob does.                                        *)
LEMMA CommitCommits ==
  ASSUME Types, NEW j \in Jobs, CommitJobCompleted(j)
  PROVE  \E done, after : Commits(j, done, after)
  <1> DEFINE s == state
             seal == SealSuccess(s.job[j])
             rec == [seal EXCEPT !.status = "completed"]
             done == [s EXCEPT !.job[j] = rec]
             after == IF GroupOf[j] # NoJob THEN Iterate(done, GroupOf[j]) ELSE done
             ks == PropagateReadiness(after.job, ReadyJobs(after.job))
             next == [after EXCEPT !.job = ks]
             r == IF RunCompleted(next) THEN "completed" ELSE next.run
  <1>1. s \in RepeatsState /\ s.job[j] \in JobState
    BY Parts DEF Types
  <1>2. seal \in JobState /\ seal.out = s.job[j].out
    BY <1>1, Sealed
  <1>3. rec \in JobState /\ rec.status = "completed" /\ rec.out = s.job[j].out
    <2> HIDE DEF seal
    <2>1. "completed" \in JobStatus
      BY DEF JobStatus
    <2> QED BY <1>2, <2>1, WithStatusType
  <1>4. state' = [next EXCEPT !.run = r]
    BY DEF CommitJobCompleted, CompleteJob, Completed
  <1> HIDE DEF seal, rec
  <1>5. /\ done \in RepeatsState
        /\ done.run = s.run /\ done.job[j] = rec
        /\ \A k \in Jobs \ {j} : done.job[k] = s.job[k]
        /\ done.group = s.group /\ done.item = s.item /\ done.traverse = s.traverse
    BY <1>1, <1>3, WithJob
  <1> HIDE DEF done
  <1>6. /\ after \in RepeatsState
        /\ \/ GroupOf[j] = NoJob /\ after = done
           \/ /\ GroupOf[j] \in Groups
              /\ Iterated(done, after, GroupOf[j])
              /\ \/ ~AllCompleted(done.job, GroupOf[j]) /\ after = done
                 \/ EndsWell(done, after, GroupOf[j])
                 \/ StartsAgain(done, after, GroupOf[j])
                 \/ EndsBadly(done, after, GroupOf[j])
    <2>1. CASE GroupOf[j] = NoJob
      BY <1>5, <2>1
    <2>2. CASE GroupOf[j] # NoJob
      <3>1. GroupOf[j] \in Groups /\ after = Iterate(done, GroupOf[j])
        BY <2>2, RepeatsAssumption
      <3>2. Iterated(done, after, GroupOf[j])
        BY <1>5, <3>1, Iterates
      <3>3. \/ ~AllCompleted(done.job, GroupOf[j]) /\ after = done
            \/ EndsWell(done, after, GroupOf[j])
            \/ StartsAgain(done, after, GroupOf[j])
            \/ EndsBadly(done, after, GroupOf[j])
        BY <1>5, <3>1, Iterates
      <3> HIDE DEF after
      <3>4. after \in RepeatsState
        BY <3>2 DEF Iterated
      <3> QED BY <3>1, <3>2, <3>3, <3>4
    <2> QED BY <2>1, <2>2
  <1> HIDE DEF after
  <1>7. after.job \in JobStates
    BY <1>6, Parts
  <1>8. ks \in JobStates /\ Propagated(after.job, ks)
    BY <1>7, Propagation
  <1> HIDE DEF ks
  <1>9. /\ next \in RepeatsState /\ next.run = after.run /\ next.job = ks
        /\ next.group = after.group /\ next.item = after.item
        /\ next.traverse = after.traverse
    BY <1>6, <1>8, WithJobs
  <1> HIDE DEF next
  <1>10. r \in RunStatus
    BY <1>9, Parts DEF RunStatus
  <1>11. \/ r = after.run
         \/ r = "completed" /\ \A k \in Jobs : ks[k].status \in {"completed", "inactive"}
    BY <1>9 DEF RunCompleted
  <1> HIDE DEF r
  <1>12. /\ state' \in RepeatsState /\ state'.run = r /\ state'.job = ks
         /\ state'.group = after.group /\ state'.item = after.item
         /\ state'.traverse = after.traverse
    BY <1>4, <1>9, <1>10, WithRun
  <1>13. /\ task[j] = "commit" /\ task' = [task EXCEPT ![j] = "idle"]
         /\ rounds' = [rounds EXCEPT ![j] = rounds[j] + 1]
         /\ UNCHANGED <<loop, fan, todo>>
    BY DEF CommitJobCompleted, At, GoTo, trav
  <1>14. Commits(j, done, after)
    BY <1>3, <1>5, <1>6, <1>8, <1>11, <1>12, <1>13 DEF Commits
  <1> QED BY <1>14

(* What a completion leaves of the jobs outside the group of j: their       *)
(* records, but waiting jobs may become ready.                              *)
LEMMA CommitsElsewhere ==
  ASSUME Types, NEW j \in Jobs, NEW done, NEW after, Commits(j, done, after),
         NEW k \in Jobs, k # j, GroupOf[k] # GroupOf[j] \/ GroupOf[j] = NoJob
                                  \/ ~AllCompleted(done.job, GroupOf[j])
  PROVE  /\ after.job[k] = state.job[k]
         /\ Woken(k)
         /\ task'[k] = task[k] /\ rounds'[k] = rounds[k]
  <1>1. done.job[k] = state.job[k] /\ task'[k] = task[k] /\ rounds'[k] = rounds[k]
    BY DEF Commits, Types
  <1>2. after.job[k] = done.job[k]
    <2>1. CASE after = done
      BY <2>1
    <2>2. CASE after # done
      <3>1. Iterated(done, after, GroupOf[j]) /\ GroupOf[k] # GroupOf[j]
        BY <2>2, RepeatsAssumption DEF Commits, EndsWell, StartsAgain, EndsBadly
      <3> QED BY <3>1 DEF Iterated, Members
    <2> QED BY <2>1, <2>2
  <1> QED BY <1>1, <1>2 DEF Commits, Propagated, Woken

(* The members of a group that is over its iteration: all but j were        *)
(* completed before, and none of them executes.                             *)
LEMMA CommitsMembers ==
  ASSUME Types, GroupInv, NEW j \in Jobs, NEW done, NEW after, Commits(j, done, after),
         NEW g \in Groups, GroupOf[j] = g, AllCompleted(done.job, g)
  PROVE  /\ j \in Members(g) /\ Members(g) \subseteq Jobs
         /\ \A k \in Members(g) :
              /\ task'[k] = "idle"
              /\ rounds'[k] = Iteration(state, g)
  <1>1. j \in Members(g) /\ Members(g) \subseteq Jobs /\ InStep(g) /\ Iteration(state, g) \in Nat
    BY Parts DEF Members, GroupInv, Types, Iteration
  <1>2. state.job[j].status = "running" /\ ~Ended(g)
    BY <1>1, Executes DEF Commits
  <1>3. rounds[j] = Iteration(state, g) - 1
    BY <1>1, <1>2 DEF InStep, Ended
  <1>4. task'[j] = "idle" /\ rounds'[j] = Iteration(state, g)
    BY <1>1, <1>3 DEF Commits, Types
  <1>5. ASSUME NEW k \in Members(g), k # j
        PROVE  task'[k] = "idle" /\ rounds'[k] = Iteration(state, g)
    <2>1. k \in Jobs /\ done.job[k].status = "completed" /\ done.job[k] = state.job[k]
      BY <1>1, <1>5 DEF AllCompleted, Commits
    <2>2. task[k] = "idle" /\ rounds[k] = Iteration(state, g) - 0
      BY <1>1, <1>5, <2>1, Executes DEF InStep
    <2>3. task'[k] = task[k] /\ rounds'[k] = rounds[k]
      BY <1>5, <2>1 DEF Commits, Types
    <2> QED BY <1>1, <2>2, <2>3
  <1> QED BY <1>1, <1>4, <1>5

(* The completion of a job, seen by its own group.                          *)
LEMMA CommitsOwn ==
  ASSUME Types, GroupInv, NEW j \in Jobs, NEW done, NEW after, Commits(j, done, after),
         NEW g \in Groups, GroupOf[j] = g
  PROVE  Rests(g)' /\ InStep(g)'
  <1> DEFINE it == Iteration(state, g)
             max == MaxIterations[g]
             grp == state'.group[g]
  <1>1. /\ j \in Members(g) /\ Members(g) \subseteq Jobs /\ Members(g) # {}
        /\ Rests(g) /\ InStep(g)
    BY DEF Members, GroupInv
  <1>2. state.job[j].status = "running" /\ ~Ended(g)
    BY <1>1, Executes DEF Commits
  <1>3. max \in Nat \ {0} /\ it \in Nat \ {0} /\ it =< max
    <2>1. state.group[g].iteration \in Nat /\ state.group[g].iteration =< max
      BY <1>1, Parts DEF Types, Rests
    <2> QED BY <2>1, RepeatsAssumption DEF Iteration
  <1>4. Iteration(done, g) = it
    BY DEF Commits, Iteration
  <1>5. /\ grp = after.group[g]
        /\ Propagated(after.job, state'.job)
        /\ state'.run = after.run \/ \A k \in Jobs : state'.job[k].status \in {"completed", "inactive"}
    BY DEF Commits
  <1>6. CASE ~AllCompleted(done.job, g)
    <2>1. after = done
      BY <1>6 DEF Commits, EndsWell, StartsAgain, EndsBadly
    <2>2. grp = state.group[g] /\ Iteration(state', g) = it
      BY <2>1 DEF Commits, Iteration
    <2>3. rounds[j] = it - 1
      BY <1>1, <1>2 DEF InStep, Ended
    <2>4. rounds'[j] = it /\ state'.job[j].status = "completed"
      <3>1. state'.job[j].status = "completed"
        BY <2>1, <1>5 DEF Commits, Propagated
      <3>2. rounds'[j] = rounds[j] + 1
        BY DEF Commits, Types
      <3> QED BY <1>3, <2>3, <3>1, <3>2
    <2>5. \A k \in Members(g) \ {j} :
            /\ rounds'[k] = rounds[k]
            /\ state'.job[k].status = "completed" <=> state.job[k].status = "completed"
      BY <1>1, <1>6, CommitsElsewhere DEF Woken
    <2>6. InStep(g)'
      BY <1>1, <1>2, <1>3, <2>2, <2>4, <2>5 DEF InStep, Ended
    <2>7. Rests(g)'
      BY <1>1, <1>2, <2>2 DEF Rests, Ended
    <2> QED BY <2>6, <2>7
  <1>7. CASE AllCompleted(done.job, g)
    <2>1. \A k \in Members(g) : task'[k] = "idle" /\ rounds'[k] = it
      BY <1>7, CommitsMembers
    <2> HIDE DEF it
    <2>2. CASE EndsWell(done, after, g)
      <3>1. /\ grp.status = "completed" /\ grp.iteration = it
            /\ \A k \in Members(g) : state'.job[k].status = "completed"
        BY <1>1, <1>4, <1>5, <1>7, <2>2 DEF EndsWell, AllCompleted, Propagated
      <3>2. Until[g] = NoJob => it = max
        BY <1>3, <1>4, <2>2 DEF EndsWell, UntilMet
      <3>3. Iteration(state', g) = it
        BY <1>3, <3>1 DEF Iteration
      <3>4. Rests(g)'
        BY <1>1, <1>3, <2>1, <3>1, <3>2 DEF Rests, Ended
      <3>5. InStep(g)'
        BY <1>3, <2>1, <3>1, <3>3 DEF InStep
      <3> QED BY <3>4, <3>5
    <2>3. CASE StartsAgain(done, after, g)
      <3>1. /\ grp.status = "iterating" /\ grp.iteration = it + 1 /\ it < max
            /\ \A k \in Members(g) : after.job[k].status \in {"waiting", "ready"}
        BY <1>4, <1>5, <2>3 DEF StartsAgain
      <3>2. \A k \in Members(g) : state'.job[k].status \in {"waiting", "ready"}
        BY <1>1, <1>5, <3>1 DEF Propagated
      <3>3. Iteration(state', g) = it + 1
        BY <1>3, <3>1 DEF Iteration
      <3>4. Rests(g)'
        BY <1>1, <1>3, <3>1 DEF Rests, Ended
      <3>5. InStep(g)'
        BY <1>3, <2>1, <3>1, <3>2, <3>3 DEF InStep
      <3> QED BY <3>4, <3>5
    <2>4. CASE EndsBadly(done, after, g)
      <3>1. /\ grp.status = "failed" /\ grp.iteration = it /\ it >= max
            /\ after.run = "failed"
            /\ \A k \in Members(g) : state'.job[k].status = "failed"
        BY <1>1, <1>4, <1>5, <2>4 DEF EndsBadly, Propagated
      <3>2. state'.run = "failed"
        BY <1>1, <1>5, <3>1
      <3>3. Iteration(state', g) = it /\ it = max
        BY <1>3, <3>1 DEF Iteration
      <3>4. Rests(g)'
        BY <1>1, <1>3, <2>1, <3>1, <3>2, <3>3 DEF Rests, Ended
      <3>5. InStep(g)'
        BY <1>3, <2>1, <3>1, <3>3 DEF InStep
      <3> QED BY <3>4, <3>5
    <2>5. g # NoJob
      BY RepeatsAssumption
    <2> QED BY <1>7, <2>2, <2>3, <2>4, <2>5 DEF Commits
  <1> QED BY <1>6, <1>7

(* The completion of a job, seen by another group.                          *)
LEMMA CommitsOther ==
  ASSUME Types, GroupInv, NEW j \in Jobs, NEW done, NEW after, Commits(j, done, after),
         NEW h \in Groups, GroupOf[j] # h
  PROVE  Rests(h)' /\ InStep(h)'
  <1>1. Rests(h) /\ InStep(h)
    BY DEF GroupInv
  <1>2. \A k \in Members(h) :
          /\ k \in Jobs /\ Woken(k)
          /\ task'[k] = task[k] /\ rounds'[k] = rounds[k]
    BY CommitsElsewhere DEF Members
  <1>3. state'.group[h] = state.group[h]
    BY DEF Commits, Iterated
  <1>4. Iteration(state', h) = Iteration(state, h)
    BY <1>3 DEF Iteration
  <1>5. state.group[h].status = "failed" =>
          state'.run \in {"failed", "blocked"}
    <2>1. SUFFICES ASSUME state.group[h].status = "failed"
                   PROVE  state'.run \in {"failed", "blocked"}
      OBVIOUS
    <2>2. PICK k \in Members(h) : state.job[k].status = "failed"
      BY <1>1, <2>1 DEF Rests, Ended
    <2>3. state'.job[k].status = "failed"
      BY <1>2, <2>2 DEF Woken
    <2>4. state'.run = after.run
      BY <1>2, <2>3 DEF Commits
    <2>5. after.run \in {done.run, "failed"}
      BY DEF Commits, EndsWell, StartsAgain, EndsBadly
    <2> QED BY <1>1, <2>1, <2>4, <2>5 DEF Rests, Commits
  <1>6. Rests(h)'
    BY <1>1, <1>2, <1>3, <1>5 DEF Rests, Ended, Woken
  <1>7. InStep(h)'
    BY <1>1, <1>2, <1>3, <1>4 DEF InStep, Woken
  <1> QED BY <1>6, <1>7

(* The completion of a job keeps every group in step.                       *)
LEMMA CommitsStep ==
  ASSUME Types, GroupInv, NEW j \in Jobs, NEW done, NEW after, Commits(j, done, after)
  PROVE  GroupInv'
  <1>1. Working'
    <2> SUFFICES ASSUME NEW k \in Jobs, task'[k] # "idle"
                 PROVE  /\ task'[k] = "start" => state'.job[k].status \in {"ready", "running"}
                        /\ task'[k] \in {"exec", "commit"} => state'.job[k].status = "running"
                        /\ task'[k] = "retry" => state'.job[k].status = "failed"
      BY DEF Working
    <2>1. k # j
      BY DEF Commits, Types
    <2>2. GroupOf[k] # GroupOf[j] \/ GroupOf[j] = NoJob \/ ~AllCompleted(done.job, GroupOf[j])
      <3>1. SUFFICES ASSUME GroupOf[k] = GroupOf[j], GroupOf[j] # NoJob,
                            AllCompleted(done.job, GroupOf[j])
                     PROVE  FALSE
        OBVIOUS
      <3>2. GroupOf[j] \in Groups /\ k \in Members(GroupOf[j])
        BY <3>1, RepeatsAssumption DEF Members
      <3> QED BY <3>1, <3>2, CommitsMembers
    <2>3. Woken(k) /\ task'[k] = task[k]
      BY <2>1, <2>2, CommitsElsewhere
    <2> QED BY <2>3 DEF Woken, GroupInv, Working
  <1>2. \A g \in Groups : Rests(g)' /\ InStep(g)'
    BY CommitsOwn, CommitsOther
  <1> QED BY <1>1, <1>2 DEF GroupInv

(* ---------------------------- the two invariants -------------------------*)

(* The steps of a job's task.                                               *)
LEMMA TaskSteps ==
  ASSUME Types, GroupInv, Items, NEW j \in Jobs, Task(j)
  PROVE  Types' /\ GroupInv' /\ Items'
  <1>1. state \in RepeatsState /\ task \in [Jobs -> {"idle", "start", "exec", "commit", "retry"}]
        /\ rounds \in [Jobs -> Nat] /\ fan \subseteq 1..Begun(state.traverse)
    BY DEF Types, Items, Made
  <1>2. ASSUME NEW here, NEW there \in {"idle", "start", "exec", "commit", "retry"},
               Sets(j, here, there)
        PROVE  Types' /\ Items'
    <2>1. Types'
      BY <1>1, <1>2 DEF Sets, Types
    <2>2. Items'
      BY <1>1, <1>2, ItemsKept DEF Sets
    <2> QED BY <2>1, <2>2
  <1>3. CASE AgentStart(j)
    <2>1. Sets(j, "start", "exec") /\ state'.job[j].status = "running"
      BY <1>3, StartSets
    <2> QED BY <1>2, <2>1, SetsStep
  <1>4. CASE AgentReport(j)
    <2>1. Sets(j, "exec", "commit") /\ state'.job[j].status = state.job[j].status
      BY <1>4, ReportSets
    <2>2. state.job[j].status = "running"
      BY <2>1 DEF Sets, GroupInv, Working
    <2> QED BY <1>2, <2>1, <2>2, SetsStep
  <1>5. CASE CommitJobCompleted(j)
    <2>1. PICK done, after : Commits(j, done, after)
      BY <1>5, CommitCommits
    <2>2. Types'
      <3>1. rounds[j] + 1 \in Nat
        BY <1>1
      <3> QED BY <1>1, <2>1, <3>1 DEF Commits, Types
    <2>3. Items'
      <3>1. after.item = state.item /\ after.traverse = state.traverse
        BY <2>1 DEF Commits, Iterated
      <3> QED BY <1>1, <2>1, <3>1, ItemsKept DEF Commits
    <2> QED BY <2>1, <2>2, <2>3, CommitsStep
  <1>6. CASE FailRetryable(j)
    <2>1. Sets(j, "exec", "retry") /\ state'.job[j].status = "failed"
      BY <1>6, FailRetryableSets
    <2> QED BY <1>2, <2>1, SetsStep
  <1>7. CASE Retry(j)
    <2>1. Sets(j, "retry", "idle") /\ state'.job[j].status = "ready"
      BY <1>7, RetrySets
    <2> QED BY <1>2, <2>1, SetsStep
  <1>8. CASE FailFinal(j)
    <2>1. PICK js : Fails(j, js)
      BY <1>8, FailFinalFails
    <2>2. Types'
      BY <1>1, <2>1 DEF Fails, Types
    <2>3. Items'
      BY <1>1, <2>1, ItemsKept DEF Fails
    <2> QED BY <2>1, <2>2, <2>3, FailsStep
  <1> QED BY <1>3, <1>4, <1>5, <1>6, <1>7, <1>8 DEF Task

(* The steps of the main loop that may write jobs.                          *)
LEMMA SettlesSteps ==
  ASSUME Types, GroupInv, Items, Settles
  PROVE  Types' /\ GroupInv' /\ Items'
  <1>1. Types'
    BY DEF Types, Settles
  <1>2. fan' \subseteq 1..Begun(state.traverse)
    BY DEF Items, Made, Settles
  <1>3. todo' = {}
    BY DEF Items, Filling, Settles
  <1>4. Items'
    BY <1>2, <1>3, ItemsKept DEF Settles
  <1> QED BY <1>1, <1>4, SettlesStep

RepeatsInv == Types /\ GroupInv /\ Items

(* The invariant holds at the start.                                        *)
LEMMA InvInit == Init => RepeatsInv
  <1> SUFFICES ASSUME Init PROVE RepeatsInv
    OBVIOUS
  <1>1. /\ state = InitState /\ loop = "read" /\ task = [j \in Jobs |-> "idle"]
        /\ fan = {} /\ todo = {} /\ rounds = [j \in Jobs |-> 0]
    BY DEF Init
  <1>2. Types
    BY <1>1, InitStateType DEF Types
  <1>3. /\ \A g \in Groups : state.group[g].status = "pending" /\ state.group[g].iteration = 0
        /\ \A j \in Jobs : state.job[j].status \in {"inactive", "ready", "waiting"}
    BY <1>1 DEF InitState
  <1>4. GroupInv
    <2>1. Working
      BY <1>1 DEF Working
    <2>2. ASSUME NEW g \in Groups PROVE Rests(g) /\ InStep(g)
      <3>1. MaxIterations[g] \in Nat /\ Members(g) \subseteq Jobs
        BY RepeatsAssumption DEF Members
      <3>2. Rests(g)
        BY <1>3, <3>1 DEF Rests, Ended
      <3>3. Iteration(state, g) = 1
        BY <1>3 DEF Iteration
      <3>4. InStep(g)
        BY <1>1, <1>3, <3>1, <3>3 DEF InStep
      <3> QED BY <3>2, <3>4
    <2> QED BY <2>1, <2>2 DEF GroupInv
  <1>5. Items
    <2> DEFINE t == state.traverse
    <2>1. /\ t.status = "absent" /\ t.items = 0 /\ t.done = 0 /\ t.failed = 0
          /\ t.active = 0 /\ t.results = <<>>
      BY <1>1 DEF InitState
    <2>2. Begun(t) = 0 /\ Recorded(t) = {} /\ Failures(t) = {} /\ Len(t.results) = 0
      BY <2>1 DEF Begun, Recorded, Failures
    <2>3. Cardinality(Recorded(t)) = 0 /\ Cardinality(Failures(t)) = 0
      BY <2>2, FS_EmptySet
    <2>4. Counted(t)
      BY <2>1, <2>2, <2>3, RepeatsAssumption DEF Counted
    <2>5. \A i \in Item : i > 0 /\ i \in Nat /\ state.item[i] = "absent"
      BY <1>1, RepeatsAssumption DEF Item, InitState
    <2> HIDE DEF t
    <2>6. Made
      BY <1>1, <2>2, <2>5 DEF Made, t
    <2> QED BY <1>1, <2>4, <2>6 DEF Items, Filling, t
  <1> QED BY <1>2, <1>4, <1>5 DEF RepeatsInv

(* Every step keeps it.                                                     *)
LEMMA InvStep == RepeatsInv /\ [Next]_vars => RepeatsInv'
  <1> SUFFICES ASSUME Types, GroupInv, Items, [Next]_vars
               PROVE  Types' /\ GroupInv' /\ Items'
    BY DEF RepeatsInv
  <1>1. CASE LoopStop \/ BatchSettled \/ TraverseSkip \/ TraverseResume \/ Returned
               \/ UNCHANGED vars
    BY <1>1, LoopSteps, AsideStep
  <1>2. CASE Dispatch
    BY <1>2, DispatchStep, DispatchItems
  <1>3. CASE LoopIdle
    BY <1>3, LoopIdleSettles, SettlesSteps
  <1>4. CASE PostLoop
    BY <1>4, PostLoopSettles, SettlesSteps
  <1>5. ASSUME NEW j \in Jobs, Task(j) PROVE Types' /\ GroupInv' /\ Items'
    BY <1>5, TaskSteps
  <1>6. ASSUME NEW i \in Item, ItemCompletes(i) PROVE Types' /\ GroupInv' /\ Items'
    BY <1>6, ItemCompletesStep, AsideStep
  <1>7. CASE TraverseCreate
    BY <1>7, TraverseCreateStep, AsideStep
  <1>8. CASE StartItem
    BY <1>8, StartItemStep, AsideStep
  <1>9. CASE CollectItem
    BY <1>9, CollectItemStep, AsideStep
  <1>10. CASE CollectDone
    BY <1>10, CollectDoneStep, AsideStep
  <1>11. CASE FinishTraverse
    BY <1>11, FinishTraverseStep, AsideStep
  <1>12. CASE ForceItem
    BY <1>12, ForceItemStep, AsideStep
  <1>13. CASE Crash
    BY <1>13, CrashStep
  <1> QED
    BY <1>1, <1>2, <1>3, <1>4, <1>5, <1>6, <1>7, <1>8, <1>9, <1>10, <1>11, <1>12, <1>13
    DEF Next, MainLoop, Traverse

(* So it holds throughout.                                                  *)
LEMMA RepeatsInvHolds == Spec => []RepeatsInv
  BY InvInit, InvStep, PTL DEF Spec

(* The jobs of a group go through its iterations together: in every         *)
(* iteration each of them has been completed once, whatever is retried,     *)
(* killed and resumed (transitionCompletedJob, startNextIteration).         *)
THEOREM GroupsInStep == Spec => []GroupInStep
  <1>1. RepeatsInv => GroupInStep
    BY DEF RepeatsInv, GroupInv, InStep, GroupInStep
  <1> QED BY <1>1, RepeatsInvHolds, PTL

(* The counters of a traverse are those of its items, no item is recorded   *)
(* twice, at most `concurrency` are active, and it is completed when every  *)
(* item has a result (startTraverseItems, finalizeCompletedTraverseItems).  *)
THEOREM ItemsAreAccounted == Spec => []ItemsAccounted
  <1>1. ASSUME RepeatsInv PROVE ItemsAccounted
    <2> DEFINE t == state.traverse
               Begin == {i \in Item : state.item[i] # "absent"}
    <2>1. t \in TraverseState /\ Counted(t)
      BY <1>1, Parts DEF RepeatsInv, Types, Items
    <2>2. /\ t.done \in Nat /\ t.failed \in Nat /\ t.active \in Nat /\ t.items \in Nat
          /\ Begun(t) \in Nat /\ Begun(t) =< t.items /\ t.items =< MaxItems
      BY <2>1, TraverseParts DEF Counted
    <2>3. Begin = 1..Begun(t)
      <3>1. \A i \in Item : i \in 1..MaxItems /\ (state.item[i] # "absent" <=> i =< Begun(t))
        BY <1>1 DEF RepeatsInv, Items, Made, Item
      <3> HIDE DEF t
      <3> QED BY <2>2, <3>1, RepeatsAssumption DEF Item
    <2>4. t.active = Cardinality(Begin \ Recorded(t))
      BY <2>1, <2>3, ActiveItems
    <2>5. t.status = "completed" => Recorded(t) = 1..t.items
      <3>1. SUFFICES ASSUME t.status = "completed" PROVE Recorded(t) = 1..t.items
        OBVIOUS
      <3>2. Recorded(t) \subseteq 1..t.items
        BY <2>1, <2>2 DEF Counted
      <3>3. IsFiniteSet(1..t.items) /\ Cardinality(1..t.items) = t.items
        <4> DEFINE m == t.items
        <4>1. m \in Nat
          BY <2>2
        <4> HIDE DEF m
        <4>2. IsFiniteSet(1..m) /\ Cardinality(1..m) = m
          BY <4>1, FS_Interval
        <4> QED BY <4>2 DEF m
      <3>4. Cardinality(Recorded(t)) >= t.items
        BY <2>1, <3>1 DEF Counted
      <3>5. Cardinality(Recorded(t)) \in Nat /\ Cardinality(Recorded(t)) =< t.items
        BY <3>2, <3>3, FS_Subset, FS_CardinalityType
      <3> HIDE DEF t
      <3>6. Cardinality(Recorded(t)) = Cardinality(1..t.items)
        BY <2>2, <3>3, <3>4, <3>5
      <3> QED BY <3>2, <3>3, <3>6, FS_Subset
    <2>6. {n \in DOMAIN t.results : ~t.results[n].ok} = Failures(t)
      BY DEF Failures
    <2> QED BY <2>1, <2>4, <2>5, <2>6 DEF ItemsAccounted, Counted
  <1> QED BY <1>1, RepeatsInvHolds, PTL

(* ------------------------- the verdict of a group ------------------------*)

(* The outputs that completed a group still stand.                          *)
MetWhenEnded ==
  \A g \in Groups :
    state.group[g].status = "completed" /\ Until[g] # NoJob => UntilMet(state.job, g)

(* Outputs of jobs that do not execute are kept.                            *)
LEMMA MetKept ==
  ASSUME Types, GroupInv, MetWhenEnded, state'.group = state.group,
         \A k \in Jobs : task[k] # "idle" \/ state'.job[k].out = state.job[k].out
  PROVE  MetWhenEnded'
  <1> SUFFICES ASSUME NEW g \in Groups, state.group[g].status = "completed", Until[g] # NoJob
               PROVE  UntilMet(state'.job, g)
    BY DEF MetWhenEnded
  <1>1. Until[g] \in Members(g) /\ Until[g] \in Jobs /\ state.job[Until[g]].out = "good"
    BY RepeatsAssumption DEF MetWhenEnded, UntilMet, Members
  <1>2. task[Until[g]] = "idle"
    BY <1>1, Executes DEF Ended
  <1> QED BY <1>1, <1>2 DEF UntilMet

(* No group has been completed at the start.                                *)
LEMMA MetInit == Init => MetWhenEnded
  BY DEF Init, InitState, MetWhenEnded

(* Nobody takes the outputs of a completed group away.                      *)
LEMMA MetStep ==
  ASSUME RepeatsInv, MetWhenEnded, [Next]_vars
  PROVE  MetWhenEnded'
  <1> USE DEF RepeatsInv
  <1>1. ASSUME Aside PROVE MetWhenEnded'
    BY <1>1, MetKept DEF Aside
  <1>2. CASE LoopStop \/ BatchSettled \/ TraverseSkip \/ TraverseResume \/ Returned
               \/ UNCHANGED vars
    BY <1>1, <1>2, LoopSteps
  <1>3. CASE Dispatch \/ Crash
    <2>1. state' = state
      BY <1>3 DEF Dispatch, Crash
    <2> QED BY <2>1, MetKept
  <1>4. CASE LoopIdle \/ PostLoop
    <2>1. Settles
      BY <1>4, LoopIdleSettles, PostLoopSettles
    <2> QED BY <2>1, MetKept DEF Settles, Woken
  <1>5. ASSUME NEW j \in Jobs, Task(j) PROVE MetWhenEnded'
    <2>1. ASSUME NEW here, NEW there, Sets(j, here, there), here # "idle"
          PROVE  MetWhenEnded'
      BY <2>1, MetKept DEF Sets
    <2>2. CASE AgentStart(j)
      BY <2>1, <2>2, StartSets
    <2>3. CASE AgentReport(j)
      BY <2>1, <2>3, ReportSets
    <2>4. CASE FailRetryable(j)
      BY <2>1, <2>4, FailRetryableSets
    <2>5. CASE Retry(j)
      BY <2>1, <2>5, RetrySets
    <2>6. CASE FailFinal(j)
      <3>1. PICK js : Fails(j, js)
        BY <2>6, FailFinalFails
      <3>2. \A k \in Jobs : task[k] # "idle" \/ state'.job[k].out = state.job[k].out
        BY <3>1 DEF Fails, Propagated
      <3> QED BY <3>1, <3>2, MetKept DEF Fails
    <2>7. CASE CommitJobCompleted(j)
      <3>1. PICK done, after : Commits(j, done, after)
        BY <2>7, CommitCommits
      <3>2. SUFFICES ASSUME NEW g \in Groups, state'.group[g].status = "completed",
                            Until[g] # NoJob
                     PROVE  UntilMet(state'.job, g)
        BY DEF MetWhenEnded
      <3>3. Until[g] \in Members(g) /\ Until[g] \in Jobs /\ GroupOf[Until[g]] = g
        BY <3>2, RepeatsAssumption DEF Members
      <3>4. CASE GroupOf[j] = g /\ AllCompleted(done.job, g)
        <4>1. EndsWell(done, after, g)
          BY <3>1, <3>2, <3>4, RepeatsAssumption DEF Commits, StartsAgain, EndsBadly
        <4>2. done.job[Until[g]].out = "good" /\ after.job = done.job
          BY <3>2, <4>1 DEF EndsWell, UntilMet
        <4> QED BY <3>1, <3>2, <3>3, <4>2 DEF Commits, Propagated, UntilMet
      <3>5. CASE GroupOf[j] # g
        <4>1. state'.group[g] = state.group[g]
          BY <3>1, <3>5 DEF Commits, Iterated
        <4>2. state'.job[Until[g]].out = state.job[Until[g]].out
          BY <3>1, <3>3, <3>5, CommitsElsewhere DEF Woken
        <4> QED BY <3>2, <4>1, <4>2 DEF MetWhenEnded, UntilMet
      <3>6. CASE GroupOf[j] = g /\ ~AllCompleted(done.job, g)
        <4>1. state'.group[g] = state.group[g]
          BY <3>1, <3>6, RepeatsAssumption DEF Commits, EndsWell, StartsAgain, EndsBadly
        <4>2. j \in Members(g) /\ task[j] # "idle" /\ Ended(g)
          BY <3>1, <3>2, <3>6, <4>1 DEF Members, Commits, Ended
        <4> QED BY <4>2, Executes
      <3> QED BY <3>4, <3>5, <3>6
    <2> QED BY <1>5, <2>2, <2>3, <2>4, <2>5, <2>6, <2>7 DEF Task
  <1>6. ASSUME NEW i \in Item, ItemCompletes(i) PROVE MetWhenEnded'
    BY <1>1, <1>6, ItemCompletesStep
  <1>7. CASE TraverseCreate
    BY <1>1, <1>7, TraverseCreateStep
  <1>8. CASE StartItem
    BY <1>1, <1>8, StartItemStep
  <1>9. CASE CollectItem
    BY <1>1, <1>9, CollectItemStep
  <1>10. CASE CollectDone
    BY <1>1, <1>10, CollectDoneStep
  <1>11. CASE FinishTraverse
    BY <1>1, <1>11, FinishTraverseStep
  <1>12. CASE ForceItem
    BY <1>1, <1>12, ForceItemStep
  <1> QED
    BY <1>2, <1>3, <1>4, <1>5, <1>6, <1>7, <1>8, <1>9, <1>10, <1>11, <1>12
    DEF Next, MainLoop, Traverse

(* A group is completed by its condition, or for want of one by its last    *)
(* iteration; it fails, and the run with it, when its condition has not     *)
(* held in any iteration; it has no more iterations than it may             *)
(* (evaluateJobGroupUntil and the group part of transitionCompletedJob).    *)
THEOREM GroupsVerdict == Spec => []GroupVerdict
  <1>1. RepeatsInv /\ MetWhenEnded /\ [Next]_vars => MetWhenEnded'
    BY MetStep
  <1>2. RepeatsInv /\ MetWhenEnded => GroupVerdict
    BY DEF RepeatsInv, MetWhenEnded, GroupInv, Rests, GroupVerdict
  <1> QED BY <1>1, <1>2, MetInit, RepeatsInvHolds, PTL DEF Spec

(* ---------------------------- after its groups ---------------------------*)

ForeignNeed(j, d) == d \in Needs[j] /\ GroupOf[d] \notin {NoJob, GroupOf[j]}

(* Job d comes last in its group: it needs every other job of it, at one    *)
(* remove or at several.                                                    *)
LastOfGroup(d) ==
  \A S \in SUBSET Members(GroupOf[d]) :
    d \in S /\ (\A k \in S : Needs[k] \cap Members(GroupOf[d]) \subseteq S)
      => S = Members(GroupOf[d])

(* From outside, only the last job of a group is needed, and no job of such *)
(* a group may stay away.                                                   *)
NeededLast ==
  \A j, d \in Jobs :
    ForeignNeed(j, d) => LastOfGroup(d) /\ Members(GroupOf[d]) \cap Optional = {}

(* A job whose failure is tolerated has one attempt.                        *)
ToleratedOnce == \A j \in Jobs : FailurePolicy[j] = "continue" => MaxAttempts[j] = 1

Tolerated(k) == state.job[k].status = "failed" /\ FailurePolicy[k] = "continue"

(* No job of g is to be run again.                                          *)
Over(g) == state.group[g].status = "completed" \/ \E k \in Members(g) : Tolerated(k)

(* Jobs that have been released, and not started over since.                *)
Live(j) == state.job[j].status \in {"ready", "running", "completed"} \/ task[j] # "idle"

Released ==
  /\ \A j \in Jobs : FailurePolicy[j] = "continue" => task[j] # "retry"
  /\ \A j \in Jobs : Live(j) =>
       /\ \A k \in Needs[j] : GroupOf[k] = GroupOf[j] /\ GroupOf[j] # NoJob /\ k \notin Optional
                                => NeedMet(state.job, k)
       /\ \A d \in Needs[j] : ForeignNeed(j, d) => Over(GroupOf[d])
  /\ \A j, d \in Jobs : ForeignNeed(j, d) /\ state.job[d].status = "completed"
                          => Over(GroupOf[d])

(* Needs are jobs, and those outside are of some group.                     *)
LEMMA NeedsAreJobs ==
  ASSUME NEW j \in Jobs
  PROVE  \A d \in Needs[j] :
           d \in Jobs /\ (ForeignNeed(j, d) => GroupOf[d] \in Groups /\ d \in Members(GroupOf[d]))
  BY WorkflowAssumption, RepeatsAssumption DEF ForeignNeed, Members

(* Met needs stay met when waiting jobs become ready.                       *)
LEMMA StillMet ==
  ASSUME NEW js, NEW ks, Propagated(js, ks), NEW d \in Jobs, NeedMet(js, d)
  PROVE  NeedMet(ks, d)
  BY DEF Propagated, NeedMet

(* A tolerated failure is final.                                            *)
LEMMA ToleratedRests ==
  ASSUME Types, GroupInv, Released, NEW k \in Jobs, Tolerated(k)
  PROVE  task[k] = "idle"
  <1>1. task[k] \in {"idle", "start", "exec", "commit", "retry"}
    BY DEF Types
  <1> QED BY <1>1 DEF GroupInv, Working, Released, Tolerated

(* A step that completes no job and starts no group again.                  *)
LEMMA ReleasedKept ==
  ASSUME NeededLast, Types, Released, state'.group = state.group,
         \A k \in Jobs : FailurePolicy[k] = "continue" => task'[k] # "retry",
         \A k \in Jobs : state'.job[k].status = "completed" <=> state.job[k].status = "completed",
         \A k \in Jobs : Tolerated(k) => state'.job[k].status = "failed",
         \A j \in Jobs : Live(j)' => Live(j) \/ \A d \in Needs[j] : NeedMet(state'.job, d)
  PROVE  Released'
  <1>1. \A g \in Groups : Over(g) => Over(g)'
    BY DEF Over, Members, Tolerated
  <1>2. \A k \in Jobs : NeedMet(state.job, k) => NeedMet(state'.job, k)
    BY DEF NeedMet, Tolerated
  <1>3. \A j, d \in Jobs : ForeignNeed(j, d) /\ state'.job[d].status = "completed"
                             => Over(GroupOf[d])'
    BY <1>1, NeedsAreJobs DEF Released, ForeignNeed
  <1>4. ASSUME NEW j \in Jobs, Live(j)'
        PROVE  /\ \A k \in Needs[j] :
                    GroupOf[k] = GroupOf[j] /\ GroupOf[j] # NoJob /\ k \notin Optional
                      => NeedMet(state'.job, k)
               /\ \A d \in Needs[j] : ForeignNeed(j, d) => Over(GroupOf[d])'
    <2>1. CASE Live(j)
      BY <1>1, <1>2, <2>1, NeedsAreJobs DEF Released
    <2>2. CASE \A d \in Needs[j] : NeedMet(state'.job, d)
      <3>1. ASSUME NEW d \in Needs[j], ForeignNeed(j, d)
            PROVE  Over(GroupOf[d])'
        <4>1. d \in Jobs /\ d \in Members(GroupOf[d]) /\ d \notin Optional
          BY <3>1, NeedsAreJobs DEF NeededLast
        <4>2. CASE state'.job[d].status = "completed"
          BY <1>3, <3>1, <4>1, <4>2
        <4>3. CASE state'.job[d].status # "completed"
          <5>1. state'.job[d].status = "failed" /\ FailurePolicy[d] = "continue"
            BY <2>2, <4>1, <4>3 DEF NeedMet
          <5> QED BY <4>1, <5>1 DEF Over, Tolerated
        <4> QED BY <4>2, <4>3
      <3> QED BY <2>2, <3>1
    <2> QED BY <1>4, <2>1, <2>2
  <1> QED BY <1>3, <1>4 DEF Released

(* At the start only jobs without needs, or with optional ones, are         *)
(* released.                                                                *)
LEMMA ReleasedInit == NeededLast /\ Init => Released
  <1> SUFFICES ASSUME NeededLast, Init PROVE Released
    OBVIOUS
  <1>1. /\ task = [j \in Jobs |-> "idle"]
        /\ \A j \in Jobs : state.job[j].status =
             IF j \in Declared THEN "inactive"
             ELSE IF Needs[j] \subseteq Optional THEN "ready" ELSE "waiting"
    BY DEF Init, InitState
  <1>2. \A j \in Jobs : Live(j) => Needs[j] \subseteq Optional
    BY <1>1 DEF Live
  <1>3. \A j \in Jobs : \A d \in Needs[j] : ForeignNeed(j, d) => d \notin Optional
    BY NeedsAreJobs DEF NeededLast
  <1>4. \A j \in Jobs : state.job[j].status # "completed"
    BY <1>1
  <1> QED BY <1>1, <1>2, <1>3, <1>4 DEF Released

(* The steps of a task that complete no job.                                *)
LEMMA ReleasedSets ==
  ASSUME NeededLast, Types, GroupInv, Released, NEW j \in Jobs, NEW here, NEW there,
         Sets(j, here, there), here # "idle",
         FailurePolicy[j] = "continue" => there # "retry",
         state'.job[j].status # "completed"
  PROVE  Released'
  <1>1. /\ task[j] = here /\ task'[j] = there
        /\ \A k \in Jobs \ {j} : task'[k] = task[k] /\ state'.job[k] = state.job[k]
    BY DEF Sets, Types
  <1>2. state.job[j].status # "completed"
    BY <1>1, Executes
  <1>3. \A k \in Jobs : Tolerated(k) => k # j
    BY <1>1, ToleratedRests
  <1>4. \A k \in Jobs : Live(k)' => Live(k)
    BY <1>1 DEF Live
  <1>5. \A k \in Jobs : FailurePolicy[k] = "continue" => task'[k] # "retry"
    BY <1>1 DEF Released
  <1>6. \A k \in Jobs : state'.job[k].status = "completed" <=> state.job[k].status = "completed"
    BY <1>1, <1>2
  <1>7. \A k \in Jobs : Tolerated(k) => state'.job[k].status = "failed"
    BY <1>1, <1>3 DEF Tolerated
  <1>8. state'.group = state.group
    BY DEF Sets
  <1> QED BY <1>4, <1>5, <1>6, <1>7, <1>8, ReleasedKept

(* A last attempt fails; if that is tolerated, dependents are released.     *)
LEMMA ReleasedFails ==
  ASSUME NeededLast, Types, GroupInv, Released, NEW j \in Jobs, NEW js, Fails(j, js)
  PROVE  Released'
  <1>1. /\ task[j] = "exec" /\ task'[j] = "idle" /\ js[j].status \in {"failed", "blocked"}
        /\ \A k \in Jobs \ {j} : task'[k] = task[k] /\ js[k] = state.job[k]
        /\ Propagated(js, state'.job)
    BY DEF Fails, Types
  <1>2. state.job[j].status = "running"
    BY <1>1 DEF GroupInv, Working
  <1>3. state'.job[j] = js[j]
    BY <1>1 DEF Propagated
  <1>4. \A k \in Jobs : Tolerated(k) => k # j
    BY <1>2 DEF Tolerated
  <1>5. \A k \in Jobs : Live(k)' => Live(k) \/ \A d \in Needs[k] : NeedMet(state'.job, d)
    <2> SUFFICES ASSUME NEW k \in Jobs, Live(k)', ~Live(k)
                 PROVE  \A d \in Needs[k] : NeedMet(state'.job, d)
      OBVIOUS
    <2>1. k # j
      BY <1>1, <1>3 DEF Live
    <2>2. \A d \in Needs[k] : NeedMet(js, d)
      BY <1>1, <2>1 DEF Propagated, Live
    <2> QED BY <1>1, <2>2, StillMet, NeedsAreJobs
  <1>6. \A k \in Jobs : FailurePolicy[k] = "continue" => task'[k] # "retry"
    BY <1>1 DEF Released
  <1>7. \A k \in Jobs : state'.job[k].status = "completed" <=> state.job[k].status = "completed"
    BY <1>1, <1>2, <1>3 DEF Propagated
  <1>8. \A k \in Jobs : Tolerated(k) => state'.job[k].status = "failed"
    BY <1>1, <1>4 DEF Tolerated, Propagated
  <1>9. state'.group = state.group
    BY DEF Fails
  <1> QED BY <1>5, <1>6, <1>7, <1>8, <1>9, ReleasedKept

(* The main loop releases waiting jobs whose needs are met.                 *)
LEMMA ReleasedSettles ==
  ASSUME NeededLast, Types, GroupInv, Released, Settles
  PROVE  Released'
  <1>1. task' = task /\ state'.group = state.group /\ \A k \in Jobs : Woken(k)
    BY DEF Settles
  <1>2. \A k \in Jobs : state'.job[k].status = "completed" <=> state.job[k].status = "completed"
    BY <1>1 DEF Woken
  <1>3. \A k \in Jobs : Tolerated(k) => state'.job[k].status = "failed"
    BY <1>1 DEF Woken, Tolerated
  <1>4. \A d \in Jobs : NeedMet(state.job, d) => NeedMet(state'.job, d)
    BY <1>2, <1>3 DEF NeedMet, Tolerated
  <1>5. \A k \in Jobs : Live(k)' => Live(k) \/ \A d \in Needs[k] : NeedMet(state'.job, d)
    <2> SUFFICES ASSUME NEW k \in Jobs, Live(k)', ~Live(k)
                 PROVE  \A d \in Needs[k] : NeedMet(state'.job, d)
      OBVIOUS
    <2>1. \A d \in Needs[k] : NeedMet(state.job, d)
      BY <1>1 DEF Live, Woken, Settles
    <2> QED BY <1>4, <2>1, NeedsAreJobs
  <1>6. \A k \in Jobs : FailurePolicy[k] = "continue" => task'[k] # "retry"
    BY <1>1 DEF Released
  <1> QED BY <1>1, <1>2, <1>3, <1>5, <1>6, ReleasedKept

(* Jobs and groups stay; tasks end, or start for ready and running jobs.    *)
LEMMA ReleasedTasks ==
  ASSUME NeededLast, Types, Released, state'.job = state.job, state'.group = state.group,
         \A k \in Jobs :
           \/ task'[k] = task[k]
           \/ task'[k] = "idle"
           \/ task'[k] = "start" /\ state.job[k].status \in {"ready", "running"}
  PROVE  Released'
  <1>1. \A k \in Jobs : Live(k)' => Live(k)
    BY DEF Live
  <1>2. \A k \in Jobs : FailurePolicy[k] = "continue" => task'[k] # "retry"
    BY DEF Released
  <1>3. \A k \in Jobs : Tolerated(k) => state'.job[k].status = "failed"
    BY DEF Tolerated
  <1> QED BY <1>1, <1>2, <1>3, ReleasedKept

(* A job is completed.  If others need it from outside its group, it is the *)
(* last of the group: the others have been completed, unless one of them    *)
(* has failed for good.                                                     *)
LEMMA LastCompletes ==
  ASSUME NeededLast, Types, GroupInv, Released, NEW j \in Jobs, NEW done, NEW after,
         Commits(j, done, after), NEW i \in Jobs, ForeignNeed(i, j)
  PROVE  AllCompleted(done.job, GroupOf[j]) \/ \E k \in Members(GroupOf[j]) : Tolerated(k)
  <1> DEFINE M == Members(GroupOf[j])
             S == {k \in M : done.job[k].status = "completed"}
  <1>1. SUFFICES ASSUME \A k \in M : ~Tolerated(k) PROVE AllCompleted(done.job, GroupOf[j])
    OBVIOUS
  <1>2. j \in M /\ M \subseteq Jobs /\ LastOfGroup(j) /\ M \cap Optional = {}
    BY DEF ForeignNeed, Members, NeededLast
  <1>3. S \in SUBSET M /\ j \in S
    BY <1>2 DEF Commits
  <1>4. ASSUME NEW k \in S PROVE Needs[k] \cap M \subseteq S
    <2>1. k \in Jobs /\ Live(k)
      BY <1>2 DEF Commits, Live
    <2> SUFFICES ASSUME NEW d \in Needs[k] \cap M PROVE d \in S
      OBVIOUS
    <2>2. GroupOf[d] = GroupOf[k] /\ GroupOf[k] # NoJob /\ d \notin Optional /\ d \in Jobs
      BY <1>2 DEF Members, ForeignNeed
    <2>3. NeedMet(state.job, d)
      BY <2>1, <2>2 DEF Released
    <2>4. state.job[d].status = "completed"
      BY <1>1, <2>2, <2>3 DEF NeedMet, Tolerated
    <2> QED BY <2>2, <2>4 DEF Commits
  <1> HIDE DEF S
  <1>5. S = M
    BY <1>2, <1>3, <1>4 DEF LastOfGroup
  <1> QED BY <1>5 DEF S, AllCompleted

(* The completion of a job releases its dependents only after its group has *)
(* been looked at.                                                          *)
LEMMA ReleasedCommits ==
  ASSUME NeededLast, Types, GroupInv, Released, NEW j \in Jobs, NEW done, NEW after,
         Commits(j, done, after)
  PROVE  Released'
  <1> DEFINE g == GroupOf[j]
             Again(k) == GroupOf[k] = g /\ g # NoJob /\ AllCompleted(done.job, g)
  <1>1. /\ task[j] = "commit" /\ task'[j] = "idle" /\ Live(j)
        /\ state.job[j].status = "running" /\ done.job[j].status = "completed"
        /\ \A k \in Jobs \ {j} : done.job[k] = state.job[k]
        /\ Propagated(after.job, state'.job)
        /\ state'.group = after.group
    BY Executes DEF Commits, Types, Live
  <1>2. ASSUME NEW k \in Jobs, k # j, ~Again(k)
        PROVE  after.job[k] = state.job[k] /\ Woken(k) /\ task'[k] = task[k]
    BY <1>2, CommitsElsewhere
  <1>3. ASSUME NEW k \in Jobs, Again(k)
        PROVE  /\ k = j \/ state.job[k].status = "completed"
               /\ done.job[k].status = "completed"
               /\ task'[k] = "idle"
    <2>1. g \in Groups /\ k \in Members(g)
      BY <1>3, RepeatsAssumption DEF Members
    <2>2. task'[k] = "idle"
      BY <1>3, <2>1, CommitsMembers
    <2> QED BY <1>1, <1>3, <2>1, <2>2 DEF AllCompleted
  <1>4. \A k \in Jobs : k = j /\ ~Again(k) => after = done
    BY RepeatsAssumption DEF Commits, EndsWell, StartsAgain, EndsBadly
  <1>5. \A k \in Jobs : Tolerated(k) => state'.job[k].status = "failed"
    <2> SUFFICES ASSUME NEW k \in Jobs, Tolerated(k) PROVE state'.job[k].status = "failed"
      OBVIOUS
    <2>1. k # j /\ ~Again(k)
      BY <1>1, <1>3 DEF Tolerated
    <2> HIDE DEF Again
    <2> QED BY <1>2, <2>1 DEF Tolerated, Woken
  <1>6. ASSUME NEW h \in Groups, Over(h) PROVE Over(h)'
    <2>1. CASE state.group[h].status = "completed"
      <3>1. g # h
        <4>1. SUFFICES ASSUME g = h PROVE FALSE
          OBVIOUS
        <4>2. j \in Members(h) /\ Ended(h)
          BY <2>1, <4>1 DEF Members, Ended
        <4> QED BY <1>1, <4>2, Executes
      <3>2. state'.group[h] = state.group[h]
        BY <3>1 DEF Commits, Iterated
      <3> QED BY <2>1, <3>2 DEF Over
    <2>2. CASE \E k \in Members(h) : Tolerated(k)
      BY <1>5, <2>2 DEF Over, Tolerated, Members
    <2> QED BY <1>6, <2>1, <2>2 DEF Over
  <1>7. ASSUME NEW i \in Jobs, NEW d \in Jobs, ForeignNeed(i, d),
               state.job[d].status = "completed"
        PROVE  Over(GroupOf[d])'
    BY <1>6, <1>7, NeedsAreJobs DEF Released, ForeignNeed
  <1>8. ASSUME NEW i \in Jobs, NEW d \in Jobs, ForeignNeed(i, d),
               state'.job[d].status = "completed"
        PROVE  Over(GroupOf[d])'
    <2>1. CASE d # j
      <3>1. state.job[d].status = "completed"
        <4>1. CASE Again(d)
          BY <1>3, <2>1, <4>1
        <4>2. CASE ~Again(d)
          <5> HIDE DEF Again
          <5> QED BY <1>2, <1>8, <2>1, <4>2 DEF Woken
        <4> QED BY <4>1, <4>2
      <3> QED BY <1>7, <1>8, <3>1
    <2>2. CASE d = j
      <3>1. g \in Groups
        BY <1>8, <2>2, NeedsAreJobs DEF ForeignNeed
      <3>2. CASE \E k \in Members(g) : Tolerated(k)
        BY <1>6, <2>2, <3>1, <3>2 DEF Over
      <3>3. CASE AllCompleted(done.job, g)
        <4>1. j \in Members(g) /\ after.job[j].status = "completed"
          BY <1>1, <1>8, <2>2 DEF Propagated, Members
        <4>2. EndsWell(done, after, g)
          BY <3>1, <3>3, <4>1, RepeatsAssumption DEF Commits, StartsAgain, EndsBadly
        <4> QED BY <1>1, <2>2, <4>2 DEF EndsWell, Over
      <3> QED BY <1>8, <2>2, <3>2, <3>3, LastCompletes
    <2> QED BY <2>1, <2>2
  <1>9. ASSUME NEW i \in Jobs, \A d \in Needs[i] : NeedMet(state'.job, d)
        PROVE  \A d \in Needs[i] : ForeignNeed(i, d) => Over(GroupOf[d])'
    <2> SUFFICES ASSUME NEW d \in Needs[i], ForeignNeed(i, d)
                 PROVE  Over(GroupOf[d])'
      OBVIOUS
    <2>1. d \in Jobs /\ d \in Members(GroupOf[d]) /\ d \notin Optional
      BY NeedsAreJobs DEF NeededLast
    <2>2. CASE state'.job[d].status = "completed"
      BY <1>8, <2>1, <2>2
    <2>3. CASE state'.job[d].status # "completed"
      <3>1. state'.job[d].status = "failed" /\ FailurePolicy[d] = "continue"
        BY <1>9, <2>1, <2>3 DEF NeedMet
      <3> QED BY <2>1, <3>1 DEF Over, Tolerated
    <2> QED BY <2>2, <2>3
  <1>10. ASSUME NEW i \in Jobs, after.job[i].status = "waiting", state'.job[i].status = "ready"
         PROVE  \A d \in Needs[i] : NeedMet(state'.job, d)
    <2>1. \A d \in Needs[i] : NeedMet(after.job, d)
      BY <1>1, <1>10 DEF Propagated
    <2> QED BY <1>1, <2>1, StillMet, NeedsAreJobs
  <1>11. ASSUME NEW i \in Jobs, Live(i)'
         PROVE  /\ \A k \in Needs[i] :
                     GroupOf[k] = GroupOf[i] /\ GroupOf[i] # NoJob /\ k \notin Optional
                       => NeedMet(state'.job, k)
                /\ \A d \in Needs[i] : ForeignNeed(i, d) => Over(GroupOf[d])'
    <2>1. CASE \A d \in Needs[i] : NeedMet(state'.job, d)
      BY <1>9, <2>1
    <2>2. CASE Live(i) /\ ~Again(i)
      <3>1. \A d \in Needs[i] : ForeignNeed(i, d) => Over(GroupOf[d])'
        BY <1>6, <2>2, NeedsAreJobs DEF Released
      <3>2. ASSUME NEW k \in Needs[i], GroupOf[k] = GroupOf[i], GroupOf[i] # NoJob,
                   k \notin Optional
            PROVE  NeedMet(state'.job, k)
        <4>1. k \in Jobs /\ NeedMet(state.job, k) /\ ~Again(k)
          BY <2>2, <3>2, NeedsAreJobs DEF Released
        <4>2. k # j
          BY <1>1, <3>2, <4>1 DEF NeedMet
        <4> HIDE DEF Again
        <4>3. Woken(k)
          BY <1>2, <4>1, <4>2
        <4> QED BY <4>1, <4>3 DEF Woken, NeedMet
      <3> QED BY <3>1, <3>2
    <2>3. CASE ~Live(i) /\ ~Again(i)
      <3>1. i # j
        BY <1>1, <2>3
      <3> HIDE DEF Again
      <3>2. after.job[i] = state.job[i] /\ Woken(i) /\ task'[i] = task[i]
        BY <1>2, <2>3, <3>1
      <3>3. after.job[i].status = "waiting" /\ state'.job[i].status = "ready"
        BY <1>11, <2>3, <3>2 DEF Live, Woken
      <3> QED BY <1>10, <2>1, <3>3
    <2>4. CASE Again(i)
      <3>1. g \in Groups /\ i \in Members(g) /\ j \in Members(g)
        BY <2>4, RepeatsAssumption DEF Members
      <3>2. task'[i] = "idle" /\ state'.job[i].status \in {"ready", "running", "completed"}
        BY <1>3, <1>11, <2>4 DEF Live
      <3>3. CASE EndsWell(done, after, g)
        <4>1. ASSUME NEW k \in Members(g) PROVE NeedMet(state'.job, k)
          <5>1. after.job[k].status = "completed" /\ k \in Jobs
            BY <3>3 DEF EndsWell, AllCompleted, Members
          <5> QED BY <1>1, <5>1 DEF Propagated, NeedMet
        <4>2. Live(i)
          BY <1>1, <1>3, <2>4 DEF Live
        <4>3. \A d \in Needs[i] : ForeignNeed(i, d) => Over(GroupOf[d])'
          BY <1>6, <4>2, NeedsAreJobs DEF Released
        <4>4. \A k \in Needs[i] : GroupOf[k] = GroupOf[i] => k \in Members(g)
          BY <2>4, NeedsAreJobs DEF Members
        <4> QED BY <4>1, <4>3, <4>4
      <3>4. CASE StartsAgain(done, after, g)
        <4>1. CASE after.job[i].status = "waiting"
          <5>1. state'.job[i].status = "ready"
            BY <1>1, <3>2, <4>1 DEF Propagated
          <5> QED BY <1>10, <2>1, <4>1, <5>1
        <4>2. CASE after.job[i].status # "waiting"
          <5>1. \A d \in Needs[i] : d \notin Members(g) /\ done.job[d].status = "completed"
            BY <3>1, <3>4, <4>2 DEF StartsAgain
          <5>2. \A d \in Needs[i] : GroupOf[d] # GroupOf[i]
            BY <2>4, <5>1, NeedsAreJobs DEF Members
          <5>3. \A d \in Needs[i] : d \in Jobs /\ state.job[d].status = "completed"
            BY <1>1, <3>1, <5>1, NeedsAreJobs
          <5> QED BY <1>7, <5>2, <5>3
        <4> QED BY <4>1, <4>2
      <3>5. CASE EndsBadly(done, after, g)
        <4>1. state'.job[i].status = "failed"
          BY <1>1, <3>1, <3>5 DEF EndsBadly, Propagated
        <4> QED BY <3>2, <4>1
      <3> QED BY <2>4, <3>1, <3>3, <3>4, <3>5, RepeatsAssumption DEF Commits
    <2> QED BY <2>2, <2>3, <2>4
  <1>12. \A k \in Jobs : FailurePolicy[k] = "continue" => task'[k] # "retry"
    <2>1. \A k \in Jobs \ {j} : task'[k] = task[k]
      BY DEF Commits, Types
    <2> QED BY <1>1, <2>1 DEF Released
  <1> QED BY <1>8, <1>11, <1>12 DEF Released

(* Every step keeps it.                                                     *)
LEMMA ReleasedStep ==
  ASSUME NeededLast, ToleratedOnce, RepeatsInv, Released, [Next]_vars
  PROVE  Released'
  <1> USE DEF RepeatsInv
  <1>1. ASSUME Aside PROVE Released'
    BY <1>1, ReleasedTasks DEF Aside
  <1>2. CASE LoopStop \/ BatchSettled \/ TraverseSkip \/ TraverseResume \/ Returned
               \/ UNCHANGED vars
    BY <1>1, <1>2, LoopSteps
  <1>3. CASE Dispatch
    <2>1. PICK B \in Batches(state.job) :
            task' = [j \in Jobs |-> IF j \in B THEN "start" ELSE "idle"]
      BY <1>3 DEF Dispatch
    <2>2. state' = state /\ \A k \in B : state.job[k].status \in {"ready", "running"}
      BY <1>3, BatchJobs DEF Dispatch
    <2> QED BY <2>1, <2>2, ReleasedTasks
  <1>4. CASE Crash
    <2>1. state' = state /\ task' = [j \in Jobs |-> "idle"]
      BY <1>4 DEF Crash
    <2> QED BY <2>1, ReleasedTasks
  <1>5. CASE LoopIdle \/ PostLoop
    BY <1>5, LoopIdleSettles, PostLoopSettles, ReleasedSettles
  <1>6. ASSUME NEW j \in Jobs, Task(j) PROVE Released'
    <2>1. CASE AgentStart(j)
      BY <2>1, StartSets, ReleasedSets
    <2>2. CASE AgentReport(j)
      <3>1. Sets(j, "exec", "commit") /\ state'.job[j].status = state.job[j].status
        BY <2>2, ReportSets
      <3>2. state.job[j].status = "running"
        BY <3>1 DEF Sets, GroupInv, Working
      <3> QED BY <3>1, <3>2, ReleasedSets
    <2>3. CASE FailRetryable(j)
      <3>1. FailurePolicy[j] # "continue"
        BY <2>3, FailRetryableSets DEF ToleratedOnce
      <3> QED BY <2>3, <3>1, FailRetryableSets, ReleasedSets
    <2>4. CASE Retry(j)
      BY <2>4, RetrySets, ReleasedSets
    <2>5. CASE FailFinal(j)
      BY <2>5, FailFinalFails, ReleasedFails
    <2>6. CASE CommitJobCompleted(j)
      BY <2>6, CommitCommits, ReleasedCommits
    <2> QED BY <1>6, <2>1, <2>2, <2>3, <2>4, <2>5, <2>6 DEF Task
  <1>7. ASSUME NEW i \in Item, ItemCompletes(i) PROVE Released'
    BY <1>1, <1>7, ItemCompletesStep
  <1>8. CASE TraverseCreate
    BY <1>1, <1>8, TraverseCreateStep
  <1>9. CASE StartItem
    BY <1>1, <1>9, StartItemStep
  <1>10. CASE CollectItem
    BY <1>1, <1>10, CollectItemStep
  <1>11. CASE CollectDone
    BY <1>1, <1>11, CollectDoneStep
  <1>12. CASE FinishTraverse
    BY <1>1, <1>12, FinishTraverseStep
  <1>13. CASE ForceItem
    BY <1>1, <1>13, ForceItemStep
  <1> QED
    BY <1>2, <1>3, <1>4, <1>5, <1>6, <1>7, <1>8, <1>9, <1>10, <1>11, <1>12, <1>13
    DEF Next, MainLoop, Traverse

(* A job that needs a job of another group executes when that group is      *)
(* done, and no job of it is to be run again, in every workflow in which    *)
(* only the last jobs of groups are needed from outside, and in which a     *)
(* failure is tolerated at the first attempt (the order of the group, the   *)
(* dependents and the run in transitionCompletedJob).                       *)
THEOREM RunsAfterGroups ==
  ASSUME NeededLast, ToleratedOnce
  PROVE  Spec => []AfterGroup
  <1>1. Init => Released
    BY ReleasedInit
  <1>2. RepeatsInv /\ Released /\ [Next]_vars => Released'
    BY ReleasedStep
  <1>3. Released => AfterGroup
    <2> SUFFICES ASSUME Released, NEW j \in Jobs, task[j] # "idle", NEW d \in Needs[j],
                        GroupOf[d] \notin {NoJob, GroupOf[j]}
                 PROVE  \/ state.group[GroupOf[d]].status = "completed"
                        \/ \E k \in Members(GroupOf[d]) :
                             state.job[k].status \in {"failed", "blocked"}
      BY DEF AfterGroup, Executing, At
    <2>1. Over(GroupOf[d])
      BY DEF Released, Live, ForeignNeed
    <2> QED BY <2>1 DEF Over, Tolerated
  <1> QED BY <1>1, <1>2, <1>3, RepeatsInvHolds, PTL DEF Spec
=============================================================================
