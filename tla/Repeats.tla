------------------------------ MODULE Repeats -------------------------------
(***************************************************************************)
(* What makes the engine run the same work more than once by design: job   *)
(* groups, whose jobs are all run again until a condition holds or the     *)
(* iterations are used up (engine/jobGroupModel.ts and the group part of   *)
(* transitionCompletedJob), and a traverse, which makes a virtual job of   *)
(* every item of a list (engine/traverse.ts).  Both share the run's jobs   *)
(* map, its main loop and the test that the run is completed.              *)
(*                                                                         *)
(* Jobs have one agent step here.  The main loop and recordAgentFailure    *)
(* are those of RunAll, with their writes joined where nothing of a group  *)
(* or a traverse can come between them.                                    *)
(***************************************************************************)
EXTENDS Workflow, Sequences

CONSTANTS
  Groups,         \* the keys of wf.job_groups
  NoJob,
  GroupOf,        \* GroupOf[j]: j's group, or NoJob
  MaxIterations,  \* MaxIterations[g]: repeat.max_iterations (1 when absent)
  Until,          \* Until[g]: the job of g whose outputs repeat.until reads, or NoJob:
                  \* evaluateUntilCondition sees the outputs of g's jobs only
  InputJob,       \* the job whose outputs hold the list of the traverse, or NoJob
  MaxItems,       \* bound on the length of that list
  Concurrency,    \* the traverse's concurrency (1..10)
  ItemFailure,    \* the on_item_failure considered: fail_all, or continue
  MaxForced,      \* bound on items force-set to failed
  MaxCrashes      \* bound on crashes, each followed by a resume

ASSUME RepeatsAssumption ==
  /\ NoJob \notin Jobs \cup Groups
  /\ GroupOf \in [Jobs -> Groups \cup {NoJob}]
  /\ MaxIterations \in [Groups -> Nat \ {0}]
  /\ Until \in [Groups -> Jobs \cup {NoJob}]
  /\ \A g \in Groups : Until[g] # NoJob => GroupOf[Until[g]] = g
  /\ InputJob \in Jobs \cup {NoJob}
  /\ MaxItems \in Nat
  /\ Concurrency \in 1..10
  /\ ItemFailure \subseteq {"continue", "fail_all"}
  /\ MaxForced \in Nat
  /\ MaxCrashes \in Nat

VARIABLES
  state,      \* state.json: run, job, group, item (the virtual jobs), traverse
  loop,       \* where runAll is
  task,       \* where each job's task is
  fan,        \* the virtual jobs of the batch that are not yet settled
  todo,       \* the items startTraverseItems has still to start
  progressed, \* finalizeCompletedTraverseItems has recorded something
  forced,
  crashes,
  rounds      \* history: how often each job has been completed

tasks == <<task, fan>>
trav  == <<todo, progressed>>
env   == <<forced, crashes>>
vars  == <<state, loop, tasks, trav, env, rounds>>

Members(g) == {j \in Jobs : GroupOf[j] = g}

Item == 1..MaxItems

InitState ==
  [run |-> "none",
   job |-> [j \in Jobs |->
     [status  |-> IF j \in Declared THEN "inactive"
                  ELSE IF Needs[j] \subseteq Optional THEN "ready" ELSE "waiting",
      attempt |-> IF Needs[j] \subseteq Optional THEN 1 ELSE 0,
      last    |-> IF Needs[j] \subseteq Optional THEN "open" ELSE "absent",
      out     |-> "none"]],
   group    |-> [g \in Groups |-> [status |-> "pending", iteration |-> 0]],
   item     |-> [i \in Item |-> "absent"],
   traverse |-> [status |-> "absent", policy |-> "continue", items |-> 0,
                 done |-> 0, failed |-> 0, active |-> 0, results |-> <<>>]]

Init ==
  /\ state = InitState
  /\ loop = "read"
  /\ task = [j \in Jobs |-> "idle"]
  /\ fan = {}
  /\ todo = {}
  /\ progressed = FALSE
  /\ forced = 0
  /\ crashes = 0
  /\ rounds = [j \in Jobs |-> 0]

At(j, point) == task[j] = point

GoTo(j, point) == task' = [task EXCEPT ![j] = point] /\ UNCHANGED fan

ItemsWith(status) == {i \in Item : state.item[i] = status}

Least(S) == CHOOSE i \in S : \A k \in S : i =< k

(* ------------------------- transitionCompletedJob ------------------------*)

(* Mutant: one completed job is enough.                                     *)
SomeCompleted(js, g) == \E j \in Members(g) : js[j].status = "completed"

AllCompleted(js, g) == \A j \in Members(g) : js[j].status = "completed"

UntilMet(js, g) == Until[g] # NoJob /\ js[Until[g]].out = "good"

(* The iteration that has just been completed: the first one is only begun  *)
(* (startNextIteration) when it is over.                                    *)
Iteration(s, g) == IF s.group[g].iteration = 0 THEN 1 ELSE s.group[g].iteration

(* Every job of the group for the next iteration: another attempt, without  *)
(* outputs.  Needs outside the group must be completed here, not just met.  *)
Restarted(js, g) ==
  [j \in Jobs |->
     IF j \notin Members(g) THEN js[j]
     ELSE [status  |-> IF /\ \A d \in Needs[j] \ Members(g) : js[d].status = "completed"
                          /\ Needs[j] \cap Members(g) = {}
                       THEN "ready" ELSE "waiting",
           attempt |-> AttemptOf(js[j]) + 1,
           last    |-> "open",
           out     |-> "none"]]

EndGroup(s, g, status) ==
  [s EXCEPT !.group[g] = [status |-> status, iteration |-> Iteration(s, g)]]

(* Mutant: one iteration too many, and then no verdict.                     *)
IterateOnceMore(s, g) ==
  IF ~AllCompleted(s.job, g) THEN s
  ELSE IF UntilMet(s.job, g) THEN EndGroup(s, g, "completed")
  ELSE IF Iteration(s, g) =< MaxIterations[g]
       THEN [s EXCEPT !.job = Restarted(@, g),
                      !.group[g] = [status |-> "iterating",
                                    iteration |-> Iteration(s, g) + 1]]
  ELSE EndGroup(s, g, "completed")

(* The group of the job that was completed, once all its jobs are.          *)
Iterate(s, g) ==
  IF ~AllCompleted(s.job, g) THEN s
  ELSE IF UntilMet(s.job, g) THEN EndGroup(s, g, "completed")
  ELSE IF Iteration(s, g) < MaxIterations[g]
       THEN [s EXCEPT !.job = Restarted(@, g),
                      !.group[g] = [status |-> "iterating",
                                    iteration |-> Iteration(s, g) + 1]]
  ELSE IF Until[g] = NoJob THEN EndGroup(s, g, "completed")
  ELSE [EndGroup(s, g, "failed") EXCEPT
          !.run = "failed",
          !.job = [j \in Jobs |-> IF j \in Members(g)
                                  THEN [s.job[j] EXCEPT !.status = "failed"]
                                  ELSE s.job[j]]]

ItemsCompleted(s) == \A i \in Item : s.item[i] \in {"completed", "absent"}

(* The virtual jobs count like the others.                                  *)
RunCompleted(s) ==
  /\ \A j \in Jobs : s.job[j].status \in {"completed", "inactive"}
  /\ ItemsCompleted(s)

Completed(s, j) ==
  [s EXCEPT !.job[j] = [SealSuccess(s.job[j]) EXCEPT !.status = "completed"]]

(* Mutant: the dependents are released before the group is looked at.       *)
CompleteJobFirst(s, j) ==
  LET done  == Completed(s, j)
      next  == [done EXCEPT !.job = PropagateReadiness(@, ReadyJobs(@))]
      after == IF GroupOf[j] # NoJob THEN Iterate(next, GroupOf[j]) ELSE next
  IN  [after EXCEPT !.run = IF RunCompleted(after) THEN "completed" ELSE @]

(* The job, its group, the dependents and the run, in this order.           *)
CompleteJob(s, j) ==
  LET done  == Completed(s, j)
      after == IF GroupOf[j] # NoJob THEN Iterate(done, GroupOf[j]) ELSE done
      next  == [after EXCEPT !.job = PropagateReadiness(@, ReadyJobs(@))]
  IN  [next EXCEPT !.run = IF RunCompleted(next) THEN "completed" ELSE @]

(* ------------------------------- main loop -------------------------------*)

LoopStop ==
  /\ loop = "read"
  /\ Terminal(state)
  /\ loop' = "settle"
  /\ UNCHANGED <<state, tasks, trav, env, rounds>>

LoopGoesOn == loop = "read" /\ ~Terminal(state)

(* Ready virtual jobs fill the batch up to the parallelism, in the order in *)
(* which they were made.                                                    *)
VirtualBatch(B) ==
  LET ready == ItemsWith("ready")
      room  == Parallelism - Cardinality(B)
  IN  {i \in ready : Cardinality({k \in ready : k < i}) < room}

Dispatch ==
  /\ LoopGoesOn
  /\ \E B \in Batches(state.job) :
       /\ B # {} \/ VirtualBatch(B) # {}
       /\ task' = [j \in Jobs |-> IF j \in B THEN "start" ELSE "idle"]
       /\ fan' = VirtualBatch(B)
  /\ loop' = "batch"
  /\ UNCHANGED <<state, trav, env, rounds>>

(* reconcileTerminalState over all the jobs of the state.                   *)
Verdict ==
  IF Reconcile(state.job) = "completed" /\ ~ItemsCompleted(state)
  THEN "none" ELSE Reconcile(state.job)

LoopIdle ==
  LET waiting == WithStatus(state.job, "waiting") # {}
  IN  /\ LoopGoesOn
      /\ {} \in Batches(state.job)
      /\ VirtualBatch({}) = {}
      /\ IF waiting /\ Verdict = "none" /\ ReadyJobs(state.job) # {}
         THEN /\ state' = [state EXCEPT !.job = PropagateReadiness(@, ReadyJobs(@))]
              /\ UNCHANGED loop
         ELSE /\ state' = [state EXCEPT !.run = IF waiting /\ Verdict # "none"
                                                THEN Verdict ELSE @]
              /\ loop' = IF waiting /\ Verdict = "none" THEN "deadlock" ELSE "settle"
      /\ UNCHANGED <<tasks, trav, env, rounds>>

BatchSettled ==
  /\ loop = "batch"
  /\ \A j \in Jobs : At(j, "idle")
  /\ fan = {}
  /\ loop' = IF InputJob = NoJob THEN "read" ELSE "traverse"
  /\ UNCHANGED <<state, tasks, trav, env, rounds>>

PostLoop ==
  LET stuck == StuckJobs(state.job)
      run   == IF stuck # {} THEN "failed" ELSE state.run
  IN  /\ loop = "settle"
      /\ state' = [state EXCEPT
           !.run = IF run \notin TerminalRun /\ Verdict # "none" THEN Verdict ELSE run,
           !.job = [j \in Jobs |-> IF j \in stuck
                                   THEN [state.job[j] EXCEPT !.status = "blocked"]
                                   ELSE state.job[j]]]
      /\ loop' = "done"
      /\ UNCHANGED <<tasks, trav, env, rounds>>

(* ---------------------------- the job's agent ----------------------------*)

AgentStart(j) ==
  /\ At(j, "start")
  /\ state' = [state EXCEPT !.job[j] = [state.job[j] EXCEPT
                 !.status = "running", !.attempt = AttemptOf(state.job[j])]]
  /\ GoTo(j, "exec")
  /\ UNCHANGED <<loop, trav, env, rounds>>

(* The report is accepted: its outputs are in the state before the job is   *)
(* advanced.                                                                *)
AgentReport(j) ==
  /\ At(j, "exec")
  /\ \E out \in {"good", "bad"} : state' = [state EXCEPT !.job[j].out = out]
  /\ GoTo(j, "commit")
  /\ UNCHANGED <<loop, trav, env, rounds>>

CommitJobCompleted(j) ==
  /\ At(j, "commit")
  /\ state' = CompleteJob(state, j)
  /\ rounds' = [rounds EXCEPT ![j] = @ + 1]
  /\ GoTo(j, "idle")
  /\ UNCHANGED <<loop, trav, env>>

(* Attempts are left, but every iteration of a group takes one as well.     *)
AttemptsLeft(j) == AttemptOf(state.job[j]) < MaxAttempts[j]

FailRetryable(j) ==
  /\ At(j, "exec")
  /\ AttemptsLeft(j)
  /\ state' = [state EXCEPT !.job[j].status = "failed"]
  /\ GoTo(j, "retry")
  /\ UNCHANGED <<loop, trav, env, rounds>>

(* retryJob; the outputs stay.                                              *)
Retry(j) ==
  /\ At(j, "retry")
  /\ state' = [state EXCEPT !.job[j] = [state.job[j] EXCEPT
                 !.status = "ready", !.attempt = AttemptOf(state.job[j]) + 1,
                 !.last = "open"]]
  /\ GoTo(j, "idle")
  /\ UNCHANGED <<loop, trav, env, rounds>>

(* The last attempt fails.  A tolerated failure releases the dependents;    *)
(* a job without an attempts array fails the run whatever its policy.       *)
FailFinal(j) ==
  LET rec   == SealFailure(state.job[j])
      fails(status) == [state.job EXCEPT ![j] = [rec EXCEPT !.status = status]]
      end   == TerminalStatus(j, rec)
  IN  /\ At(j, "exec")
      /\ ~AttemptsLeft(j)
      /\ state' =
           IF rec.last = "absent"
           THEN [state EXCEPT !.job = fails("failed"), !.run = "failed"]
           ELSE IF JobConclusion(rec, FailurePolicy[j]) = "success_with_warnings"
           THEN [state EXCEPT !.job =
                   PropagateReadiness(fails("failed"), ReadyJobs(fails("failed")))]
           ELSE [state EXCEPT !.job = fails(end), !.run = end]
      /\ GoTo(j, "idle")
      /\ UNCHANGED <<loop, trav, env, rounds>>

(* A virtual job executes none of the target's steps: it is completed with  *)
(* its item as output, whatever its status has become meanwhile.            *)
ItemCompletes(i) ==
  /\ i \in fan
  /\ fan' = fan \ {i}
  /\ state' = [state EXCEPT !.item[i] = "completed"]
  /\ UNCHANGED <<loop, task, trav, env, rounds>>

(* -------------------------------- traverse -------------------------------*)

(* The items startTraverseItems starts.                                     *)
ToStart(t) ==
  LET begun == t.done + t.failed + t.active
      room  == Concurrency - t.active
  IN  {i \in 1..t.items : begun < i /\ i =< begun + room}

InputReady == state.job[InputJob].out # "none"

TraverseSkip ==
  /\ loop = "traverse"
  /\ \/ state.traverse.status \in {"completed", "failed"}
     \/ state.traverse.status = "absent" /\ ~InputReady
  /\ loop' = "read"
  /\ UNCHANGED <<state, tasks, trav, env, rounds>>

(* The list is resolved, once: it may be empty.  on_item_failure is the     *)
(* workflow's; it is chosen here because it is first read afterwards.       *)
TraverseCreate ==
  /\ loop = "traverse"
  /\ state.traverse.status = "absent" /\ InputReady
  /\ \E n \in 0..MaxItems, policy \in ItemFailure :
       LET t == [state.traverse EXCEPT
                   !.status = "pending", !.items = n, !.policy = policy]
       IN  /\ state' = [state EXCEPT !.traverse = t]
           /\ loop' = IF n = 0 THEN "finish" ELSE "fill"
           /\ todo' = ToStart(t)
  /\ UNCHANGED <<tasks, progressed, env, rounds>>

TraverseResume ==
  /\ loop = "traverse"
  /\ state.traverse.status \in {"pending", "running"}
  /\ loop' = "collect"
  /\ progressed' = FALSE
  /\ UNCHANGED <<state, tasks, todo, env, rounds>>

(* One virtual job is made; the process may die before the next.            *)
StartItem ==
  LET i == Least(todo)
  IN  /\ loop = "fill" /\ todo # {}
      /\ state' = [state EXCEPT !.item[i] = "ready",
                                !.traverse.status = "running",
                                !.traverse.active = @ + 1]
      /\ todo' = todo \ {i}
      /\ loop' = IF todo = {i} THEN "read" ELSE "fill"
      /\ UNCHANGED <<tasks, progressed, env, rounds>>

Recorded(t) == {t.results[n].item : n \in DOMAIN t.results}

Uncollected ==
  {i \in 1..state.traverse.items :
     state.item[i] \in {"completed", "failed"}} \ Recorded(state.traverse)

(* Mutant: a failed item stays active.                                      *)
RecordItemActive(t, i, ok) ==
  [t EXCEPT !.done    = IF ok THEN @ + 1 ELSE @,
            !.failed  = IF ok THEN @ ELSE @ + 1,
            !.active  = IF ok /\ @ > 0 THEN @ - 1 ELSE @,
            !.results = Append(@, [item |-> i, ok |-> ok])]

RecordItem(t, i, ok) ==
  [t EXCEPT !.done    = IF ok THEN @ + 1 ELSE @,
            !.failed  = IF ok THEN @ ELSE @ + 1,
            !.active  = IF @ > 0 THEN @ - 1 ELSE 0,
            !.results = Append(@, [item |-> i, ok |-> ok])]

(* The next finished item is recorded.  fail_all ends the traverse at the   *)
(* first failure, with other items still active.                            *)
CollectItem ==
  LET i  == Least(Uncollected)
      ok == state.item[i] = "completed"
      t  == RecordItem(state.traverse, i, ok)
  IN  /\ loop = "collect" /\ Uncollected # {}
      /\ progressed' = TRUE
      /\ IF ~ok /\ t.policy = "fail_all"
         THEN /\ state' = [state EXCEPT !.traverse = [t EXCEPT !.status = "failed"]]
              /\ loop' = "read"
         ELSE /\ state' = [state EXCEPT !.traverse = t]
              /\ loop' = IF t.done + t.failed >= t.items THEN "finish" ELSE "collect"
      /\ UNCHANGED <<tasks, todo, env, rounds>>

(* Nothing is left to record; more items are started only if something was. *)
CollectDone ==
  LET t == state.traverse
  IN  /\ loop = "collect" /\ Uncollected = {}
      /\ todo' = IF progressed /\ t.status = "running" THEN ToStart(t) ELSE {}
      /\ loop' = IF todo' = {} THEN "read" ELSE "fill"
      /\ UNCHANGED <<state, tasks, progressed, env, rounds>>

FinishTraverse ==
  /\ loop = "finish"
  /\ state' = [state EXCEPT !.traverse.status = "completed"]
  /\ loop' = "read"
  /\ UNCHANGED <<tasks, trav, env, rounds>>

(* ------------------------------ environment ------------------------------*)

(* Another process force-sets a virtual job, outside the traverse pass.     *)
ForceItem ==
  /\ forced < MaxForced
  /\ loop \in {"read", "batch"}
  /\ \E i \in ItemsWith("ready") : state' = [state EXCEPT !.item[i] = "failed"]
  /\ forced' = forced + 1
  /\ UNCHANGED <<loop, tasks, trav, crashes, rounds>>

Crash ==
  /\ crashes < MaxCrashes
  /\ loop \notin {"done", "deadlock"}
  /\ crashes' = crashes + 1
  /\ loop' = "read"
  /\ task' = [j \in Jobs |-> "idle"]
  /\ fan' = {}
  /\ todo' = {}
  /\ progressed' = FALSE
  /\ UNCHANGED <<state, forced, rounds>>

(* ---------------------------- the specification --------------------------*)

MainLoop == LoopStop \/ Dispatch \/ LoopIdle \/ BatchSettled \/ PostLoop

Task(j) ==
  \/ AgentStart(j) \/ AgentReport(j) \/ CommitJobCompleted(j)
  \/ FailRetryable(j) \/ Retry(j) \/ FailFinal(j)

Traverse ==
  \/ TraverseSkip \/ TraverseCreate \/ TraverseResume \/ StartItem
  \/ CollectItem \/ CollectDone \/ FinishTraverse

Returned == loop \in {"done", "deadlock"} /\ UNCHANGED vars

Next ==
  \/ MainLoop
  \/ \E j \in Jobs : Task(j)
  \/ \E i \in Item : ItemCompletes(i)
  \/ Traverse
  \/ ForceItem
  \/ Crash
  \/ Returned

Spec == Init /\ [][Next]_vars

(* ------------------------------- properties ------------------------------*)

Executing(j) == ~At(j, "idle")

(* The jobs of a group go through its iterations together: in every         *)
(* iteration each of them is completed once before any is started again,    *)
(* whatever is retried, killed and resumed.                                 *)
GroupInStep ==
  \A g \in Groups : \A j \in Members(g) :
    rounds[j] = Iteration(state, g)
                  - IF \/ state.job[j].status = "completed"
                       \/ state.group[g].status = "failed" THEN 0 ELSE 1

(* A job that needs a job of another group, or of one while it has none,    *)
(* executes when that group is done: no job of it is to be run again.       *)
AfterGroup ==
  \A j \in Jobs : Executing(j) =>
    \A d \in Needs[j] :
      GroupOf[d] \notin {NoJob, GroupOf[j]} =>
        \/ state.group[GroupOf[d]].status = "completed"
        \/ \E k \in Members(GroupOf[d]) : state.job[k].status \in {"failed", "blocked"}

(* A group is completed by its condition, or for want of one by its last    *)
(* iteration; it fails, and the run with it, when its condition has not     *)
(* held in any iteration; it has no more iterations than it may.            *)
GroupVerdict ==
  \A g \in Groups :
    LET grp == state.group[g]
    IN  /\ grp.iteration =< MaxIterations[g]
        /\ grp.status = "completed" =>
             IF Until[g] = NoJob THEN grp.iteration = MaxIterations[g]
             ELSE UntilMet(state.job, g)
        /\ grp.status = "failed" =>
             /\ grp.iteration = MaxIterations[g]
             /\ state.run \in {"failed", "blocked"}

(* The counters of a traverse are those of its items, no item is recorded   *)
(* twice, at most `concurrency` are active, and it is completed when every  *)
(* item has a result.                                                       *)
ItemsAccounted ==
  LET t == state.traverse
      failures == {n \in DOMAIN t.results : ~t.results[n].ok}
  IN  /\ Cardinality(Recorded(t)) = Len(t.results)
      /\ t.done + t.failed = Len(t.results)
      /\ t.failed = Cardinality(failures)
      /\ t.active = Cardinality({i \in Item : state.item[i] # "absent"} \ Recorded(t))
      /\ t.active =< Concurrency
      /\ t.status = "completed" => Recorded(t) = 1..t.items
=============================================================================
