------------------------------ MODULE Routing -------------------------------
(***************************************************************************)
(* How a step sends a run somewhere else than to the next step: routers,   *)
(* checks, on_output and return status, all through applyRoutingAction     *)
(* (src/engine/routing.ts), and the step pointer of advanceJob with its    *)
(* visit limits and `if` conditions.                                       *)
(*                                                                         *)
(* applyRoutingAction reads the state and later writes back its whole      *)
(* copy; routers and checks write the state they read when they started.   *)
(* The main loop is the one of RunAll without its iteration limit, aborts  *)
(* and fail-fast, and agents do not fail: RunAll has all of these.         *)
(***************************************************************************)
EXTENDS Workflow

CONSTANTS
  StepKind,       \* StepKind[j][k]: "agent", "router" or "check"
  Routes,         \* Routes[j][k]: what the step's outcome may ask for
  Conditional,    \* the steps <<j, k>> with an `if`
  MaxVisits,      \* max_visits (3 when absent)
  MaxCrashes      \* bound on crashes, each followed by a resume

(* A route: `via` is what carries it (the entry of on_output, of on_return, *)
(* of a router's cases, on_pass and on_fail, or a signal); `at` is its      *)
(* target.                                                                  *)
Carrier == {"output", "status", "case", "pass", "fail", "signal"}
JobRoute == {"retry_job", "activate_job", "goto_job"}
PlainRoute == {"continue", "fail", "block"}

Route == [via : Carrier, do : JobRoute, at : Jobs]
           \cup [via : Carrier, do : PlainRoute, at : {0}]
           \cup [via : Carrier, do : {"goto_step"}, at : Nat]

ASSUME RoutingAssumption ==
  /\ \A j \in Jobs : /\ DOMAIN StepKind[j] = 1..Steps[j]
                     /\ DOMAIN Routes[j] = 1..Steps[j]
                     /\ \A k \in 1..Steps[j] :
                          /\ Routes[j][k] \subseteq Route
                          /\ \A r \in Routes[j][k] :
                               r.via \in {"pass", "fail"} => r.do \in JobRoute
  /\ MaxVisits \in Nat \ {0}
  /\ MaxCrashes \in Nat

VARIABLES
  state,      \* state.json, with step_visits
  jobLog,     \* per job, the job events in events.jsonl
  loop,       \* where runAll is
  task,       \* where each job's task is
  copy,       \* each task's copy of the state
  route,      \* the route a task applies
  crashes,
  started,    \* history: the attempt, step and visit each job last started
  again,      \* history: jobs that have started the same visit twice
  collided    \* history: a newer state was overwritten, or a job routed while it executed

disk  == <<state, jobLog>>
local == <<task, copy, route>>
main  == <<loop, crashes>>
seen  == <<started, again>>
vars  == <<disk, local, main, seen, collided>>

NoRoute == [via |-> "case", do |-> "continue", at |-> 0]
NoStart == [attempt |-> 0, step |-> 0, visit |-> 0]

Finished == {"completed", "failed", "blocked"}

StepOf(rec) == IF rec.step = 0 THEN 1 ELSE rec.step

InitState ==
  [run |-> "none",
   job |-> [j \in Jobs |->
     [status  |-> IF j \in Declared THEN "inactive"
                  ELSE IF Needs[j] \subseteq Optional THEN "ready" ELSE "waiting",
      attempt |-> IF Needs[j] \subseteq Optional THEN 1 ELSE 0,
      last    |-> IF Needs[j] \subseteq Optional THEN "open" ELSE "absent",
      step    |-> 0,
      visits  |-> [k \in 1..Steps[j] |-> 0]]]]

Init ==
  /\ state = InitState
  /\ jobLog = [j \in Jobs |-> {}]
  /\ loop = "read"
  /\ task = [j \in Jobs |-> "idle"]
  /\ copy = [j \in Jobs |-> InitState]
  /\ route = [j \in Jobs |-> NoRoute]
  /\ crashes = 0
  /\ started = [j \in Jobs |-> NoStart]
  /\ again = {}
  /\ collided = FALSE

At(j, point) == task[j] = point

GoTo(j, point) == task' = [task EXCEPT ![j] = point] /\ UNCHANGED route

Read(j) == copy' = [copy EXCEPT ![j] = state]

(* The task settles.                                                        *)
Finish(j) ==
  /\ task' = [task EXCEPT ![j] = "idle"]
  /\ copy' = [copy EXCEPT ![j] = InitState]
  /\ route' = [route EXCEPT ![j] = NoRoute]

(* j applies a route to another job that is executing.                      *)
RoutesLive(j) ==
  /\ At(j, "apply") /\ route[j].do \in JobRoute
  /\ route[j].at # j /\ ~At(route[j].at, "idle")

(* The whole state s, built on j's copy, is written.                        *)
WriteBack(j, s) ==
  /\ state' = s
  /\ collided' = (collided \/ state # copy[j] \/ RoutesLive(j))

Log(j, event) == jobLog' = [jobLog EXCEPT ![j] = @ \cup {event}]

(* A failure, or a route to another job by return status, leaves the source *)
(* running at the same step: the next iteration executes the step again.    *)
Excuse(j) == started' = [started EXCEPT ![j].step = 0] /\ UNCHANGED again

(* The task is rejected with an error; the loop only takes note of it.      *)
Reject(j) ==
  /\ Excuse(j)
  /\ Finish(j)
  /\ UNCHANGED <<disk, main, collided>>

(* ------------------------------- main loop -------------------------------*)

LoopStop ==
  /\ loop = "read"
  /\ Terminal(state)
  /\ loop' = "settle"
  /\ UNCHANGED <<disk, local, crashes, seen, collided>>

LoopGoesOn == loop = "read" /\ ~Terminal(state)

Dispatch ==
  /\ LoopGoesOn
  /\ \E B \in Batches(state.job) :
       /\ B # {}
       /\ task' = [j \in Jobs |-> IF j \in B THEN "start" ELSE "idle"]
  /\ loop' = "batch"
  /\ UNCHANGED <<disk, copy, route, crashes, seen, collided>>

(* Nothing to execute: leave the loop, conclude the run, revive the jobs    *)
(* whose needs are met after all, or throw "Engine deadlock detected".      *)
LoopIdle ==
  LET js == state.job
      verdict == Reconcile(js)
      waiting == WithStatus(js, "waiting") # {}
  IN  /\ LoopGoesOn
      /\ {} \in Batches(js)
      /\ IF waiting /\ verdict = "none" /\ ReadyJobs(js) # {}
         THEN /\ state' = [state EXCEPT !.job = PropagateReadiness(js, ReadyJobs(js))]
              /\ UNCHANGED loop
         ELSE /\ state' = [state EXCEPT !.run = IF waiting /\ verdict # "none"
                                                THEN verdict ELSE @]
              /\ loop' = IF waiting /\ verdict = "none" THEN "deadlock" ELSE "settle"
      /\ UNCHANGED <<jobLog, local, crashes, seen, collided>>

BatchSettled ==
  /\ loop = "batch"
  /\ \A j \in Jobs : At(j, "idle")
  /\ loop' = "read"
  /\ UNCHANGED <<disk, local, crashes, seen, collided>>

(* The passes after the loop: jobs that can no longer start are blocked,    *)
(* and a run without a verdict is given the one its jobs have earned.       *)
PostLoop ==
  LET stuck   == StuckJobs(state.job)
      blocked == [j \in Jobs |-> IF j \in stuck
                                 THEN [state.job[j] EXCEPT !.status = "blocked"]
                                 ELSE state.job[j]]
      run     == IF stuck # {} THEN "failed" ELSE state.run
      verdict == Reconcile(blocked)
  IN  /\ loop = "settle"
      /\ state' = [run |-> IF run \notin TerminalRun /\ verdict # "none"
                           THEN verdict ELSE run,
                   job |-> blocked]
      /\ jobLog' = [j \in Jobs |-> IF j \in stuck THEN jobLog[j] \cup {"job_blocked"}
                                   ELSE jobLog[j]]
      /\ loop' = "done"
      /\ UNCHANGED <<local, crashes, seen, collided>>

(* --------------------------- the steps of a job --------------------------*)

(* History: j starts the step of rec.                                       *)
Starts(j, rec) ==
  LET visit == [attempt |-> AttemptOf(rec), step |-> StepOf(rec),
                visit   |-> rec.visits[StepOf(rec)]]
  IN  /\ started' = [started EXCEPT ![j] = visit]
      /\ again' = IF started[j] = visit THEN again \cup {j} ELSE again

Running(s, j) ==
  LET rec == s.job[j]
  IN  [s EXCEPT !.job[j] = [rec EXCEPT !.status  = "running",
                                       !.step    = StepOf(rec),
                                       !.attempt = AttemptOf(rec)]]

KindAt(j, s) == StepKind[j][StepOf(s.job[j])]

RoutesOf(j, via) == {r \in Routes[j][StepOf(copy[j].job[j])] : r.via = via}

(* prompt_generated, then updateState.                                      *)
AgentStart(j) ==
  /\ At(j, "start") /\ KindAt(j, state) = "agent"
  /\ state' = Running(state, j)
  /\ Starts(j, state.job[j])
  /\ copy' = [copy EXCEPT ![j] = state]
  /\ GoTo(j, "exec")
  /\ UNCHANGED <<jobLog, main, collided>>

(* The report asks for nothing: advanceJob.                                 *)
AgentPlain(j) ==
  /\ At(j, "exec") /\ KindAt(j, copy[j]) = "agent"
  /\ GoTo(j, "advRead")
  /\ UNCHANGED <<disk, copy, main, seen, collided>>

(* on_output matched, or a return status was given (applyStatusReturn).     *)
AgentRoutes(j) ==
  /\ At(j, "exec") /\ KindAt(j, copy[j]) = "agent"
  /\ \E r \in RoutesOf(j, "output") \cup RoutesOf(j, "status") :
       route' = [route EXCEPT ![j] = r]
  /\ task' = [task EXCEPT ![j] = "route"]
  /\ UNCHANGED <<disk, copy, main, seen, collided>>

(* Routers and checks read the state ...                                    *)
StepRead(j) ==
  /\ At(j, "start") /\ KindAt(j, state) # "agent"
  /\ Read(j)
  /\ GoTo(j, "begin")
  /\ UNCHANGED <<disk, main, seen, collided>>

(* ... and write it back with the job running; their later writes start     *)
(* from this runningState again.                                            *)
StepBegin(j) ==
  /\ At(j, "begin")
  /\ WriteBack(j, Running(copy[j], j))
  /\ copy' = [copy EXCEPT ![j] = Running(copy[j], j)]
  /\ Starts(j, copy[j].job[j])
  /\ GoTo(j, "exec")
  /\ UNCHANGED <<jobLog, main>>

LastStep(j) == StepOf(copy[j].job[j]) = Steps[j]

EndStep(j, s) == WriteBack(j, s) /\ GoTo(j, "after") /\ UNCHANGED <<copy, main, seen>>

WithJobStatus(s, j, status) == [s EXCEPT !.job[j].status = status]

(* The router's switch has no such case: RouterError.                       *)
RouterNoCase(j) ==
  /\ At(j, "begin") /\ KindAt(j, copy[j]) = "router"
  /\ Reject(j)

RouterContinue(j) ==
  /\ At(j, "exec") /\ KindAt(j, copy[j]) = "router"
  /\ \E r \in RoutesOf(j, "case") : r.do = "continue"
  /\ LastStep(j)
  /\ Log(j, "job_completed")
  /\ EndStep(j, WithJobStatus(copy[j], j, "completed"))

(* `continue` before the last step, and goto_step, which resolveActionFields*)
(* does not know, are errors found after the job is running.                *)
RouterError(j) ==
  /\ At(j, "exec") /\ KindAt(j, copy[j]) = "router"
  /\ \E r \in RoutesOf(j, "case") :
       r.do = "goto_step" \/ (r.do = "continue" /\ ~LastStep(j))
  /\ Reject(j)

RouterStops(j) ==
  /\ At(j, "exec") /\ KindAt(j, copy[j]) = "router"
  /\ \E r \in RoutesOf(j, "case") :
       /\ r.do \in {"fail", "block"}
       /\ EndStep(j, WithJobStatus(copy[j], j,
                                   IF r.do = "fail" THEN "failed" ELSE "blocked"))
  /\ UNCHANGED jobLog

RouterRoutes(j) ==
  /\ At(j, "exec") /\ KindAt(j, copy[j]) = "router"
  /\ \E r \in RoutesOf(j, "case") :
       r.do \in JobRoute /\ route' = [route EXCEPT ![j] = r]
  /\ task' = [task EXCEPT ![j] = "route"]
  /\ UNCHANGED <<disk, copy, main, seen, collided>>

(* Mutant: the run is complete when no job is left to start.                *)
CheckedStateEagerly(j) ==
  LET done == [copy[j].job EXCEPT ![j].status = "completed"]
      js   == PropagateReadiness(done, ReadyJobs(done))
  IN  [run |-> IF \A k \in Jobs : js[k].status \notin {"waiting", "ready"}
               THEN "completed" ELSE copy[j].run,
       job |-> js]

(* A check passes without a route: the job is completed, at whatever step   *)
(* it is, and its dependents and the run are settled on the copy.           *)
CheckedState(j) ==
  LET done == [copy[j].job EXCEPT ![j].status = "completed"]
      js   == PropagateReadiness(done, ReadyJobs(done))
  IN  [run |-> IF \A k \in Jobs : js[k].status \in {"completed", "inactive"}
               THEN "completed" ELSE copy[j].run,
       job |-> js]

CheckPass(j) ==
  /\ At(j, "exec") /\ KindAt(j, copy[j]) = "check"
  /\ RoutesOf(j, "pass") = {}
  /\ Log(j, "job_completed")
  /\ EndStep(j, CheckedState(j))

(* A check fails (or its poll times out) without a route.  Under a step     *)
(* failure_policy of continue the job stays running and is advanced.        *)
CheckFail(j) ==
  /\ At(j, "exec") /\ KindAt(j, copy[j]) = "check"
  /\ RoutesOf(j, "fail") = {}
  /\ \E status \in {"failed", "blocked", "running"} :
       /\ EndStep(j, WithJobStatus(copy[j], j, status))
       /\ \/ UNCHANGED jobLog
          \/ status = "blocked" /\ Log(j, "job_blocked")

CheckRoutes(j) ==
  /\ At(j, "exec") /\ KindAt(j, copy[j]) = "check"
  /\ \E r \in RoutesOf(j, "pass") \cup RoutesOf(j, "fail") :
       route' = [route EXCEPT ![j] = r]
  /\ task' = [task EXCEPT ![j] = "route"]
  /\ UNCHANGED <<disk, copy, main, seen, collided>>

(* executeNonAgentStep reads again and advances a job that is still running.*)
StepAfter(j) ==
  /\ At(j, "after")
  /\ IF state.job[j].status = "running"
     THEN GoTo(j, "advRead") /\ UNCHANGED copy
     ELSE Finish(j)
  /\ UNCHANGED <<disk, main, seen, collided>>

(* --------------------------- applyRoutingAction --------------------------*)

(* The errors applyRoutingAction throws on the state it has read.           *)
Refused(j, s) ==
  LET r == route[j]
  IN  \/ s.job[j].status \in Finished /\ r.do # "retry_job"
      \/ r.do = "activate_job" /\ r.at \notin Declared
      \/ r.do = "goto_job" /\ s.job[r.at].status \notin {"inactive", "waiting", "ready"}
      \/ r.do = "goto_step" /\ r.at \notin 1..Steps[j]

RouteRefused(j) ==
  /\ At(j, "route")
  /\ Refused(j, state)
  /\ Reject(j)

RouteRead(j) ==
  /\ At(j, "route")
  /\ ~Refused(j, state)
  /\ Read(j)
  /\ GoTo(j, "apply")
  /\ UNCHANGED <<disk, main, seen, collided>>

Applies(j, actions) == At(j, "apply") /\ route[j].do \in actions

(* Mutants: the source is not advanced after on_output; it is advanced after*)
(* a return status too; every object action advances it.                    *)
RouteDoneUnadvanced(j) ==
  /\ CASE route[j].via \in {"case", "pass", "fail"} -> GoTo(j, "after") /\ UNCHANGED copy
       [] route[j].do = "continue" -> GoTo(j, "advRead") /\ UNCHANGED copy
       [] OTHER -> Finish(j)
  /\ UNCHANGED <<seen, main>>

RouteDoneAdvanced(j) ==
  /\ CASE route[j].via \in {"case", "pass", "fail"} -> GoTo(j, "after") /\ UNCHANGED copy
       [] route[j].do \in {"continue", "retry_job", "activate_job"}
            -> GoTo(j, "advRead") /\ UNCHANGED copy
       [] OTHER -> Finish(j)
  /\ UNCHANGED <<seen, main>>

RouteDoneTwice(j) ==
  /\ CASE route[j].via \in {"case", "pass", "fail"} -> GoTo(j, "after") /\ UNCHANGED copy
       [] \/ route[j].do = "continue"
          \/ route[j].via \in {"output", "signal"} /\ route[j].do \notin {"fail", "block"}
            -> GoTo(j, "advRead") /\ UNCHANGED copy
       [] OTHER -> Finish(j)
  /\ UNCHANGED <<seen, main>>

(* Routers and checks return to executeNonAgentStep.  on_output and signals *)
(* advance the source after retry_job and activate_job; a return status     *)
(* does not.                                                                *)
RouteDone(j) ==
  /\ CASE route[j].via \in {"case", "pass", "fail"} -> GoTo(j, "after") /\ UNCHANGED copy
       [] \/ route[j].do = "continue"
          \/ /\ route[j].via \in {"output", "signal"}
             /\ route[j].do \in {"retry_job", "activate_job"}
            -> GoTo(j, "advRead") /\ UNCHANGED copy
       [] OTHER -> Finish(j)
  /\ IF route[j].via = "status" /\ route[j].do \in {"retry_job", "activate_job"}
     THEN Excuse(j) ELSE UNCHANGED seen
  /\ UNCHANGED main

(* `continue`: the copy is written and the job advanced.                    *)
RouteContinue(j) ==
  /\ Applies(j, {"continue"})
  /\ WriteBack(j, copy[j])
  /\ RouteDone(j)
  /\ UNCHANGED jobLog

RouteStop(j) ==
  /\ Applies(j, {"fail", "block"})
  /\ WriteBack(j, WithJobStatus(copy[j], j, IF route[j].do = "fail"
                                            THEN "failed" ELSE "blocked"))
  /\ RouteDone(j)
  /\ UNCHANGED jobLog

RetryLeft(j) ==
  AttemptOf(copy[j].job[route[j].at]) < MaxAttempts[route[j].at]

(* retry_job: the target, which may be the source itself and in any status, *)
(* is ready for another attempt.  Its step visits stay as they are.         *)
RouteRetry(j) ==
  LET t   == route[j].at
      rec == copy[j].job[t]
  IN  /\ Applies(j, {"retry_job"})
      /\ RetryLeft(j)
      /\ WriteBack(j, [copy[j] EXCEPT
           !.job[t] = [rec EXCEPT !.status  = "ready",
                                  !.attempt = AttemptOf(rec) + 1,
                                  !.last    = "open",
                                  !.step    = 0]])
      /\ RouteDone(j)
      /\ UNCHANGED jobLog

(* No attempt is left: the target is closed instead, completed or not.      *)
RouteExceeded(j) ==
  LET t == route[j].at
  IN  /\ Applies(j, {"retry_job"})
      /\ ~RetryLeft(j)
      /\ Log(t, IF OnExceeded[t] = "failed" THEN "job_failed" ELSE "job_blocked")
      /\ WriteBack(j, [copy[j] EXCEPT
           !.job[t] = [SealFailure(copy[j].job[t]) EXCEPT !.status = OnExceeded[t],
                                                          !.step   = 0]])
      /\ RouteDone(j)

NeedsMet(js, t) == \A d \in Needs[t] : NeedMet(js, d)

(* The target enters the run: with its first attempt if its needs are met.  *)
Entering(js, t) ==
  IF NeedsMet(js, t)
  THEN [js[t] EXCEPT !.status = "ready", !.attempt = 1, !.last = "open"]
  ELSE [js[t] EXCEPT !.status = "waiting"]

RouteActivate(j) ==
  LET t == route[j].at
      s == copy[j]
  IN  /\ Applies(j, {"activate_job"})
      /\ IF s.job[t].status = "inactive"
         THEN /\ Log(t, "job_activated")
              /\ WriteBack(j, [s EXCEPT !.job[t] = Entering(s.job, t)])
         ELSE WriteBack(j, s) /\ UNCHANGED jobLog
      /\ RouteDone(j)

RouteGotoJob(j) ==
  LET t    == route[j].at
      done == [copy[j].job EXCEPT ![j].status = "completed", ![j].step = 0]
  IN  /\ Applies(j, {"goto_job"})
      /\ Log(j, "job_skipped")
      /\ WriteBack(j, [copy[j] EXCEPT !.job = [done EXCEPT ![t] = Entering(done, t)]])
      /\ RouteDone(j)

(* Mutant: off by one.                                                      *)
VisitOnceMore(rec, k) ==
  LET n == rec.visits[k] + 1
  IN  [rec EXCEPT !.status = IF n > MaxVisits + 1 THEN "blocked" ELSE @,
                  !.step   = k,
                  !.visits = [@ EXCEPT ![k] = n]]

(* Job j goes to step k, or is blocked when it has been there too often.    *)
Visit(rec, k) ==
  LET n == rec.visits[k] + 1
  IN  [rec EXCEPT !.status = IF n > MaxVisits THEN "blocked" ELSE @,
                  !.step   = k,
                  !.visits = [@ EXCEPT ![k] = n]]

RouteGotoStep(j) ==
  /\ Applies(j, {"goto_step"})
  /\ WriteBack(j, [copy[j] EXCEPT !.job[j] = Visit(copy[j].job[j], route[j].at)])
  /\ RouteDone(j)
  /\ UNCHANGED jobLog

(* -------------------------------- advanceJob -----------------------------*)

AdvanceRead(j) ==
  /\ At(j, "advRead")
  /\ Read(j)
  /\ GoTo(j, "advance")
  /\ UNCHANGED <<disk, main, seen, collided>>

AdvanceNothing(j) ==
  /\ At(j, "advance")
  /\ copy[j].job[j].status \in Finished
  /\ Finish(j)
  /\ UNCHANGED <<disk, main, seen, collided>>

(* The record advanceJob goes on from: without a pointer the first step has *)
(* just been executed and is counted now, unless it has an `if`.            *)
Advancing(j) ==
  LET rec == copy[j].job[j]
  IN  IF rec.step = 0 /\ <<j, 1>> \notin Conditional THEN Visit(rec, 1)
      ELSE [rec EXCEPT !.step = StepOf(rec)]

AdvanceLive(j) ==
  /\ At(j, "advance")
  /\ copy[j].job[j].status \notin Finished

(* The pointer moves, or the job is blocked by a visit limit.               *)
AdvanceStep(j) ==
  LET rec == Advancing(j)
  IN  /\ AdvanceLive(j)
      /\ rec.status = "blocked" \/ rec.step < Steps[j]
      /\ WriteBack(j, [copy[j] EXCEPT
           !.job[j] = IF rec.status = "blocked" THEN rec ELSE Visit(rec, rec.step + 1)])
      /\ Finish(j)
      /\ UNCHANGED <<jobLog, main, seen>>

(* The `if` of the next step is false: the step after it is entered, with   *)
(* neither its own `if` nor its visit limit looked at.                      *)
AdvanceSkips(j) ==
  LET rec == Advancing(j)
  IN  /\ AdvanceLive(j)
      /\ rec.status # "blocked" /\ rec.step < Steps[j]
      /\ <<j, rec.step + 1>> \in Conditional
      /\ rec.visits[rec.step + 1] < MaxVisits

AdvanceSkip(j) ==
  LET rec == Advancing(j)
  IN  /\ AdvanceSkips(j)
      /\ rec.step + 1 < Steps[j]
      /\ WriteBack(j, [copy[j] EXCEPT !.job[j] = [rec EXCEPT !.step = @ + 2]])
      /\ Finish(j)
      /\ UNCHANGED <<jobLog, main, seen>>

AdvanceComplete(j) ==
  /\ \/ /\ AdvanceLive(j)
        /\ Advancing(j).status # "blocked"
        /\ Advancing(j).step = Steps[j]
     \/ AdvanceSkips(j) /\ Advancing(j).step + 1 = Steps[j]
  /\ Log(j, "job_completed")
  /\ GoTo(j, "commit")
  /\ UNCHANGED <<state, copy, main, seen, collided>>

(* transitionCompletedJob on the state of that moment.                      *)
CompleteJob(s, j) ==
  LET done == [s.job EXCEPT
                 ![j] = [SealSuccess(s.job[j]) EXCEPT !.status = "completed",
                                                      !.step   = 0]]
      js   == PropagateReadiness(done, ReadyJobs(done))
  IN  [run |-> IF \A k \in Jobs : js[k].status \in {"completed", "inactive"}
               THEN "completed" ELSE s.run,
       job |-> js]

CommitJobCompleted(j) ==
  /\ At(j, "commit")
  /\ state' = CompleteJob(state, j)
  /\ Finish(j)
  /\ UNCHANGED <<jobLog, main, seen, collided>>

(* ---------------------------- the specification --------------------------*)

(* The process dies at any point; the run is resumed from the files.        *)
Crash ==
  /\ crashes < MaxCrashes
  /\ loop \notin {"done", "deadlock"}
  /\ crashes' = crashes + 1
  /\ loop' = "read"
  /\ task' = [j \in Jobs |-> "idle"]
  /\ copy' = [j \in Jobs |-> InitState]
  /\ route' = [j \in Jobs |-> NoRoute]
  /\ started' = [j \in Jobs |-> [started[j] EXCEPT !.step = 0]]
  /\ UNCHANGED <<disk, again, collided>>

MainLoop == LoopStop \/ Dispatch \/ LoopIdle \/ BatchSettled \/ PostLoop

Step(j) ==
  \/ AgentStart(j) \/ AgentPlain(j) \/ AgentRoutes(j)
  \/ StepRead(j) \/ StepBegin(j) \/ StepAfter(j)
  \/ RouterNoCase(j) \/ RouterContinue(j) \/ RouterError(j) \/ RouterStops(j)
  \/ RouterRoutes(j) \/ CheckPass(j) \/ CheckFail(j) \/ CheckRoutes(j)

ApplyRoute(j) ==
  \/ RouteRefused(j) \/ RouteRead(j) \/ RouteContinue(j) \/ RouteStop(j)
  \/ RouteRetry(j) \/ RouteExceeded(j) \/ RouteActivate(j) \/ RouteGotoJob(j)
  \/ RouteGotoStep(j)

Advance(j) ==
  \/ AdvanceRead(j) \/ AdvanceNothing(j) \/ AdvanceStep(j) \/ AdvanceSkip(j)
  \/ AdvanceComplete(j) \/ CommitJobCompleted(j)

Task(j) == Step(j) \/ ApplyRoute(j) \/ Advance(j)

Returned == loop \in {"done", "deadlock"} /\ UNCHANGED vars

Next ==
  \/ MainLoop
  \/ \E j \in Jobs : Task(j)
  \/ Crash
  \/ Returned

Spec == Init /\ [][Next]_vars

(* ------------------------------- properties ------------------------------*)

(* One visit of a step is executed once: whatever a step asks for, the next *)
(* execution of the job is a new visit or a new attempt (the reason why the *)
(* source is advanced after on_output).                                     *)
StepsNotRepeated == ~collided => again = {}

(* The jobs that an on_output entry or a signal of their own may send back  *)
(* for another attempt.  runAll and acceptAgentReport advance them all the  *)
(* same, and so skip steps of the new attempt or the whole of it.           *)
AdvancedPastRetry ==
  {j \in Jobs : MaxAttempts[j] > 1 /\
     \E k \in 1..Steps[j] : \E r \in Routes[j][k] :
       r.via \in {"output", "signal"} /\ r.do = "retry_job" /\ r.at = j}

(* The attempt of a completed job has been executed: a job that a check, a  *)
(* return status or another job sends back is not completed by what its     *)
(* previous attempt still had to do.  A job that its own on_output or signal*)
(* may send back is left out: the code does complete it unexecuted.         *)
RetriedAttemptRuns ==
  ~collided => \A j \in Jobs \ AdvancedPastRetry :
                 state.job[j].status = "completed"
                   => started[j].attempt = state.job[j].attempt

(* Loops end: no later step executes beyond its max_visits, in whatever way *)
(* goto_step, retries, skips and resumes are mixed.  (The visits of a first *)
(* step outlive a retry, which enters it without counting.)                 *)
VisitLimitHolds ==
  \A j \in Jobs : At(j, "exec") /\ state.job[j].step > 1 =>
    state.job[j].visits[state.job[j].step] =< MaxVisits

(* A completed run has no job that was activated or routed back and is not  *)
(* settled.                                                                 *)
CompletedRunIsSettled ==
  ~collided /\ state.run = "completed" => \A j \in Jobs : Settled(state.job, j)
=============================================================================
