----------------------------- MODULE Operators ------------------------------
(***************************************************************************)
(* What people do to a run from a shell while it is paused or while an     *)
(* invocation drives it: decide a human gate (approve, reject, resume),    *)
(* abort, force-set, reset-run and retry (src/commands, src/engine).       *)
(*                                                                         *)
(* Every command is a process of its own, so nothing but the atomic        *)
(* rename of state.json orders its steps against another's: a command      *)
(* reads the state into a local copy, and later writes either the whole    *)
(* copy (writeSnapshot) or a function of the state that it reads again     *)
(* just before (updateState).  The queue that keeps the two halves of an   *)
(* updateState together is that of one process, so here they are two       *)
(* steps: Fetch, and the write.  The invocation is one more process,       *)
(* reduced to a loop that executes one job at a time; RunAll has the rest. *)
(***************************************************************************)
EXTENDS Workflow

CONSTANTS
  Gated,        \* jobs whose first step is a human gate
  Shells,       \* command processes that may be alive at one time
  Invocation,   \* the process of `invoke`
  AttemptCap,   \* bound on the attempts that `retry --force` may open
  MaxCommands,  \* bound on the commands that take effect
  MaxCrashes    \* bound on processes that are killed

ASSUME OperatorsAssumption ==
  /\ Gated \subseteq Jobs
  /\ Invocation \notin Shells
  /\ AttemptCap \in Nat \ {0}
  /\ MaxCommands \in Nat
  /\ MaxCrashes \in Nat

VARIABLES
  state,     \* state.json, with the step_status of each job
  file,      \* human-decision.json of the gate, per job and attempt
  decided,   \* per job and attempt, the human_decision events
  jobLog,    \* jobs with a job_completed event
  pt,        \* where each process is
  op,        \* the job it works on and the verdict or status it was given
  copy,      \* its local copy of the state
  base,      \* the state its updateState has read, InitState when there is none
  fetched,   \* the processes between the two halves of an updateState
  commands,  \* how many commands have been started
  overlapped,\* history: a process has started while another was at work
  overtaken, \* history: something was written over a state newer than it was read from
  rewound,   \* history: jobs set back to waiting by force-set or reset-run
  crashes

vars == <<state, file, decided, jobLog, pt, op, copy, base, fetched, commands,
          overlapped, overtaken, rewound, crashes>>

Proc == Shells \cup {Invocation}

Verdict == {"approved", "rejected"}

Attempt == 1..AttemptCap

NoOp == [job |-> CHOOSE j \in Jobs : TRUE, to |-> "none"]

(* gate: the step_status is awaiting_input.                                 *)
InitState ==
  [run |-> "none",
   job |-> [j \in Jobs |->
     [status  |-> IF j \in Declared THEN "inactive"
                  ELSE IF Needs[j] \subseteq Optional THEN "ready" ELSE "waiting",
      attempt |-> IF Needs[j] \subseteq Optional THEN 1 ELSE 0,
      last    |-> IF Needs[j] \subseteq Optional THEN "open" ELSE "absent",
      step    |-> 0,
      gate    |-> FALSE]]]

Init ==
  /\ state = InitState
  /\ file = [j \in Jobs |-> [n \in Attempt |-> "none"]]
  /\ decided = [j \in Jobs |-> [n \in Attempt |-> [v \in Verdict |-> 0]]]
  /\ jobLog = {}
  /\ pt = [p \in Proc |-> "idle"]
  /\ op = [p \in Proc |-> NoOp]
  /\ copy = [p \in Proc |-> InitState]
  /\ base = [p \in Proc |-> InitState]
  /\ fetched = {}
  /\ commands = 0
  /\ overlapped = FALSE
  /\ overtaken = FALSE
  /\ rewound = {}
  /\ crashes = 0

files == <<file, decided, jobLog>>

At(p, point) == pt[p] = point

(* p has no updateState under way.                                          *)
Drop(p) ==
  /\ base' = [base EXCEPT ![p] = InitState]
  /\ fetched' = fetched \ {p}

(* p goes on to `point` with its local copy and its arguments unchanged.    *)
GoTo(p, point) ==
  /\ pt' = [pt EXCEPT ![p] = point]
  /\ Drop(p)
  /\ UNCHANGED <<op, copy>>

(* p reads the state and goes on with job j and argument `to`.              *)
ReadFor(p, point, j, to) ==
  /\ pt' = [pt EXCEPT ![p] = point]
  /\ op' = [op EXCEPT ![p] = [job |-> j, to |-> to]]
  /\ copy' = [copy EXCEPT ![p] = state]
  /\ Drop(p)

(* The command returns, or the invocation's process ends.                   *)
Return(p) ==
  /\ pt' = [pt EXCEPT ![p] = "idle"]
  /\ op' = [op EXCEPT ![p] = NoOp]
  /\ copy' = [copy EXCEPT ![p] = InitState]
  /\ Drop(p)

quiet == <<commands, overlapped, overtaken, rewound, crashes>>

rest == <<commands, overlapped, rewound, crashes>>

(* Where the next write of a process is that of an updateState.             *)
UpdateAt == {"mark", "force", "propagate", "reset", "retry", "apply", "commit",
             "enter", "start", "work"}

(* The first half of an updateState ...                                     *)
Fetch(p) ==
  /\ pt[p] \in UpdateAt
  /\ p \notin fetched
  /\ base' = [base EXCEPT ![p] = state]
  /\ fetched' = fetched \cup {p}
  /\ UNCHANGED <<state, files, pt, op, copy, quiet>>

(* ... and the second: what is written is made from the state read.         *)
Update(p, point) ==
  /\ At(p, point)
  /\ p \in fetched
  /\ overtaken' = (overtaken \/ state # base[p])

(* The same, when the record of job j in p's copy is written into it.       *)
UpdateJob(p, point, j) ==
  /\ At(p, point)
  /\ p \in fetched
  /\ overtaken' = (overtaken \/ state # base[p] \/ state.job[j] # copy[p].job[j])

(* p writes back all of its copy.                                           *)
WriteBack(p) == overtaken' = (overtaken \/ state # copy[p])

NoteOverlap(p) ==
  overlapped' = (overlapped \/ \E q \in Proc \ {p} : ~At(q, "idle"))

(* A command starts in shell p.                                             *)
Enter(p) ==
  /\ At(p, "idle")
  /\ commands < MaxCommands
  /\ commands' = commands + 1
  /\ NoteOverlap(p)

started == <<overtaken, rewound, crashes>>

StepIndex(rec) == IF rec.step = 0 THEN 1 ELSE rec.step

AtGate(j, rec) == j \in Gated /\ StepIndex(rec) = 1

Awaiting(s) == {j \in Jobs : s.job[j].gate}

(* --------------------------------- abort ---------------------------------*)

(* With an owner alive the request goes to it (InvocationControl).          *)
AbortRead(p) ==
  /\ Enter(p) /\ At(Invocation, "idle")
  /\ state.run \notin {"completed", "cancelled", "failed"}
  /\ ReadFor(p, "abort", NoOp.job, "none")
  /\ UNCHANGED <<state, files, started>>

(* run_cancelled, then the whole copy with another run status.              *)
AbortWrite(p) ==
  /\ At(p, "abort")
  /\ state' = [copy[p] EXCEPT !.run = "cancelled"]
  /\ WriteBack(p)
  /\ Return(p)
  /\ UNCHANGED <<files, rest>>

(* ------------------------------- force-set -------------------------------*)

(* To waiting, failed or blocked.                                           *)
ForceMark(p, j) ==
  /\ Enter(p)
  /\ \E status \in {"waiting", "failed", "blocked"} : ReadFor(p, "mark", j, status)
  /\ UNCHANGED <<state, files, started>>

(* The run, the gate and the attempt stay.                                  *)
ForceStatus(p) ==
  LET j == op[p].job
      status == op[p].to
  IN  /\ Update(p, "mark")
      /\ state' = [base[p] EXCEPT
                     !.job[j].status = status,
                     !.job[j].step = IF status = "waiting" THEN 0 ELSE @]
      /\ rewound' = IF status = "waiting" THEN rewound \cup {j} ELSE rewound
      /\ Return(p)
      /\ UNCHANGED <<files, commands, overlapped, crashes>>

(* To completed: the events, ...                                            *)
ForceLog(p, j) ==
  /\ Enter(p)
  /\ jobLog' = jobLog \cup {j}
  /\ ReadFor(p, "force", j, "completed")
  /\ UNCHANGED <<state, file, decided, started>>

(* ... the job, ...                                                         *)
ForceComplete(p) ==
  LET j == op[p].job
  IN  /\ Update(p, "force")
      /\ state' = [base[p] EXCEPT !.job[j].status = "completed",
                                  !.job[j].step = 0]
      /\ GoTo(p, "propagate")
      /\ UNCHANGED <<files, rest>>

(* ... and in a second update the jobs that have become ready.              *)
ForcePropagate(p) ==
  /\ Update(p, "propagate")
  /\ state' = [base[p] EXCEPT !.job = PropagateReadiness(@, ReadyJobs(@))]
  /\ Return(p)
  /\ UNCHANGED <<files, rest>>

(* ------------------------------- reset-run -------------------------------*)

Resettable == {"running", "failed", "blocked"}

ResetJobs(s) == {j \in Jobs : s.job[j].status \in Resettable}

ResetRead(p) ==
  /\ Enter(p)
  /\ ResetJobs(state) # {}
  /\ ReadFor(p, "reset", NoOp.job, "none")
  /\ UNCHANGED <<state, files, started>>

(* What is reset and what becomes ready is decided on the copy and applied  *)
(* to the state read again.  The gate and the attempts array stay.          *)
ResetWrite(p) ==
  LET reset == ResetJobs(copy[p])
      planned == [j \in Jobs |-> IF j \in reset
                    THEN [copy[p].job[j] EXCEPT !.status = "waiting"]
                    ELSE copy[p].job[j]]
      applied == [j \in Jobs |-> IF j \in reset
                    THEN [base[p].job[j] EXCEPT !.status = "waiting",
                                                !.step = 0, !.attempt = 0]
                    ELSE base[p].job[j]]
  IN  /\ Update(p, "reset")
      /\ state' = [run |-> IF copy[p].run \in TerminalRun \cup {"paused"}
                           THEN "running" ELSE base[p].run,
                   job |-> PropagateReadiness(applied, ReadyJobs(planned))]
      /\ rewound' = rewound \cup reset
      /\ Return(p)
      /\ UNCHANGED <<files, commands, overlapped, crashes>>

(* --------------------------------- retry ---------------------------------*)

RetryRead(p, j) ==
  /\ Enter(p)
  /\ state.job[j].status \in {"completed", "failed", "blocked"}
  /\ \E force \in {"retry", "force"} : ReadFor(p, "retry", j, force)
  /\ UNCHANGED <<state, files, started>>

MayRetry(p) ==
  \/ op[p].to = "force"
  \/ AttemptOf(copy[p].job[op[p].job]) < MaxAttempts[op[p].job]

(* The record that was read, with the status of on_exceeded.                *)
RetryExceeded(p) ==
  LET j == op[p].job
  IN  /\ UpdateJob(p, "retry", j)
      /\ ~MayRetry(p)
      /\ state' = [base[p] EXCEPT !.job[j] = [copy[p].job[j] EXCEPT
                                                !.status = OnExceeded[j],
                                                !.step = 0]]
      /\ Return(p)
      /\ UNCHANGED <<files, rest>>

(* Mutant: the step pointer of the last attempt is kept.                    *)
RetryFromStep(p) ==
  LET j == op[p].job
  IN  /\ UpdateJob(p, "retry", j)
      /\ MayRetry(p)
      /\ AttemptOf(copy[p].job[j]) < AttemptCap
      /\ state' = [base[p] EXCEPT !.job[j] = [copy[p].job[j] EXCEPT
                      !.status = "ready", !.attempt = AttemptOf(copy[p].job[j]) + 1,
                      !.last = "open"]]
      /\ Return(p)
      /\ UNCHANGED <<files, rest>>

(* Mutant: the attempt is not counted.                                      *)
RetrySameAttempt(p) ==
  LET j == op[p].job
  IN  /\ UpdateJob(p, "retry", j)
      /\ MayRetry(p)
      /\ state' = [base[p] EXCEPT !.job[j] = [copy[p].job[j] EXCEPT
                      !.status = "ready", !.last = "open", !.step = 0]]
      /\ Return(p)
      /\ UNCHANGED <<files, rest>>

(* The record that was read, with a new attempt.  The gate stays.           *)
RetryWrite(p) ==
  LET j == op[p].job
      rec == copy[p].job[j]
  IN  /\ UpdateJob(p, "retry", j)
      /\ MayRetry(p)
      /\ AttemptOf(rec) < AttemptCap
      /\ state' = [base[p] EXCEPT !.job[j] = [status  |-> "ready",
                                              attempt |-> AttemptOf(rec) + 1,
                                              last    |-> "open",
                                              step    |-> 0,
                                              gate    |-> rec.gate]]
      /\ Return(p)
      /\ UNCHANGED <<files, rest>>

(* --------------------- approve, reject, resume ---------------------------*)

(* The commands refuse a job that is not awaiting a decision.               *)
DecideRead(p, j) ==
  /\ Enter(p)
  /\ state.job[j].gate
  /\ \E v \in Verdict : ReadFor(p, "check", j, v)
  /\ UNCHANGED <<state, files, started>>

AttemptRead(p) == AttemptOf(copy[p].job[op[p].job])

(* A decision on file: a duplicate, or an error; neither changes anything.  *)
DecideAgain(p) ==
  /\ At(p, "check")
  /\ file[op[p].job][AttemptRead(p)] # "none"
  /\ Return(p)
  /\ UNCHANGED <<state, files, quiet>>

DecideFirst(p) ==
  /\ At(p, "check")
  /\ file[op[p].job][AttemptRead(p)] = "none"
  /\ GoTo(p, "record")
  /\ UNCHANGED <<state, files, quiet>>

(* writeFile replaces whatever decision is there by now.                    *)
DecideRecord(p) ==
  /\ At(p, "record")
  /\ file' = [file EXCEPT ![op[p].job][AttemptRead(p)] = op[p].to]
  /\ GoTo(p, "log")
  /\ UNCHANGED <<state, decided, jobLog, quiet>>

DecideLog(p) ==
  /\ At(p, "log")
  /\ decided' = [decided EXCEPT ![op[p].job][AttemptRead(p)][op[p].to] = @ + 1]
  /\ GoTo(p, "apply")
  /\ UNCHANGED <<state, file, jobLog, quiet>>

(* The gate is closed and the run goes on, whatever its status was; a       *)
(* rejected job fails without regard to its retry and failure policy.       *)
DecideApply(p) ==
  LET j == op[p].job
      approved == op[p].to = "approved"
  IN  /\ Update(p, "apply")
      /\ state' = [run |-> "running",
                   job |-> [base[p].job EXCEPT
                     ![j].gate = FALSE,
                     ![j].status = IF approved THEN "running" ELSE "failed"]]
      /\ IF approved THEN GoTo(p, "advRead") ELSE Return(p)
      /\ UNCHANGED <<files, rest>>

(* ------------------------------- advanceJob ------------------------------*)

AfterAdvance(p) ==
  IF p = Invocation THEN GoTo(p, "settled") ELSE Return(p)

AdvanceRead(p) ==
  /\ At(p, "advRead")
  /\ ReadFor(p, "advance", op[p].job, op[p].to)
  /\ UNCHANGED <<state, files, quiet>>

AdvanceNothing(p) ==
  /\ At(p, "advance")
  /\ copy[p].job[op[p].job].status \in {"completed", "failed", "blocked"}
  /\ AfterAdvance(p)
  /\ UNCHANGED <<state, files, quiet>>

AdvanceLive(p) ==
  /\ At(p, "advance")
  /\ copy[p].job[op[p].job].status \notin {"completed", "failed", "blocked"}

(* The whole copy is written with the pointer moved.                        *)
AdvanceStep(p) ==
  LET j == op[p].job
      rec == copy[p].job[j]
  IN  /\ AdvanceLive(p)
      /\ StepIndex(rec) < Steps[j]
      /\ state' = [copy[p] EXCEPT !.job[j].step = StepIndex(rec) + 1]
      /\ WriteBack(p)
      /\ AfterAdvance(p)
      /\ UNCHANGED <<files, rest>>

CompleteJob(s, j) ==
  LET done == [s.job EXCEPT
                 ![j] = [SealSuccess(s.job[j]) EXCEPT !.status = "completed",
                                                      !.step   = 0]]
      js   == PropagateReadiness(done, ReadyJobs(done))
  IN  [run |-> IF \A k \in Jobs : js[k].status \in {"completed", "inactive"}
               THEN "completed" ELSE s.run,
       job |-> js]

AppendJobCompleted(p) ==
  LET j == op[p].job
  IN  /\ AdvanceLive(p)
      /\ StepIndex(copy[p].job[j]) >= Steps[j]
      /\ jobLog' = jobLog \cup {j}
      /\ GoTo(p, "commit")
      /\ UNCHANGED <<state, file, decided, quiet>>

CommitJobCompleted(p) ==
  /\ Update(p, "commit")
  /\ state' = CompleteJob(base[p], op[p].job)
  /\ AfterAdvance(p)
  /\ UNCHANGED <<files, rest>>

(* ------------------------------- invocation ------------------------------*)

(* `invoke --resume`: whatever the status, the loop decides.                *)
Invoke ==
  /\ At(Invocation, "idle")
  /\ GoTo(Invocation, "loop")
  /\ NoteOverlap(Invocation)
  /\ UNCHANGED <<state, files, commands, started>>

LoopStop ==
  /\ At(Invocation, "loop")
  /\ Terminal(state) \/ WithStatus(state.job, "ready")
                            \cup WithStatus(state.job, "running") = {}
  /\ Return(Invocation)
  /\ UNCHANGED <<state, files, quiet>>

(* The job of this iteration: a ready one, else one still running.          *)
Chosen(j) ==
  /\ At(Invocation, "loop")
  /\ ~Terminal(state)
  /\ \/ state.job[j].status = "ready"
     \/ /\ state.job[j].status = "running"
        /\ WithStatus(state.job, "ready") = {}

(* executeHumanStep on a gate that is already open does nothing.            *)
GateAlreadyOpen(j) ==
  /\ Chosen(j) /\ AtGate(j, state.job[j])
  /\ state.job[j].gate
  /\ GoTo(Invocation, "settled")
  /\ UNCHANGED <<state, files, quiet>>

GateRead(j) ==
  /\ Chosen(j) /\ AtGate(j, state.job[j])
  /\ ~state.job[j].gate
  /\ ReadFor(Invocation, "enter", j, "none")
  /\ UNCHANGED <<state, files, quiet>>

(* Mutant: the run is paused before the gate is open.                       *)
GateEnterHalf ==
  LET j == op[Invocation].job
  IN  /\ Update(Invocation, "enter")
      /\ state' = [base[Invocation] EXCEPT !.run = "paused"]
      /\ GoTo(Invocation, "settled")
      /\ UNCHANGED <<files, rest>>

(* human_gate_waiting and its artifact, then one update opens the gate.     *)
GateEnter ==
  LET j == op[Invocation].job
  IN  /\ Update(Invocation, "enter")
      /\ state' = [run |-> "paused",
                   job |-> [base[Invocation].job EXCEPT ![j].status = "running",
                                                        ![j].gate = TRUE]]
      /\ GoTo(Invocation, "settled")
      /\ UNCHANGED <<files, rest>>

(* An agent step starts; it ends with advanceJob or a recorded failure.     *)
WorkRead(j) ==
  /\ Chosen(j) /\ ~AtGate(j, state.job[j])
  /\ ReadFor(Invocation, "start", j, "none")
  /\ UNCHANGED <<state, files, quiet>>

WorkStart ==
  LET j == op[Invocation].job
      rec == base[Invocation].job[j]
  IN  /\ Update(Invocation, "start")
      /\ state' = [base[Invocation] EXCEPT !.job[j].status = "running",
                                           !.job[j].step = StepIndex(rec),
                                           !.job[j].attempt = AttemptOf(rec)]
      /\ GoTo(Invocation, "work")
      /\ UNCHANGED <<files, rest>>

WorkSucceed ==
  /\ At(Invocation, "work")
  /\ Invocation \notin fetched
  /\ GoTo(Invocation, "advRead")
  /\ UNCHANGED <<state, files, quiet>>

WorkFail ==
  LET j == op[Invocation].job
      cur == base[Invocation].job
  IN  /\ Update(Invocation, "work")
      /\ state' = [run |-> "failed",
                   job |-> [cur EXCEPT
                     ![j] = [SealFailure(cur[j]) EXCEPT !.status = "failed"]]]
      /\ GoTo(Invocation, "settled")
      /\ UNCHANGED <<files, rest>>

(* After the batch: an open gate ends the invocation.                       *)
BatchSettled ==
  /\ At(Invocation, "settled")
  /\ IF Awaiting(state) # {}
     THEN Return(Invocation)
     ELSE /\ pt' = [pt EXCEPT ![Invocation] = "loop"]
          /\ op' = [op EXCEPT ![Invocation] = NoOp]
          /\ copy' = [copy EXCEPT ![Invocation] = InitState]
          /\ Drop(Invocation)
  /\ UNCHANGED <<state, files, quiet>>

Crash(p) ==
  /\ crashes < MaxCrashes
  /\ ~At(p, "idle")
  /\ crashes' = crashes + 1
  /\ Return(p)
  /\ UNCHANGED <<state, files, commands, overlapped, overtaken, rewound>>

(* ---------------------------- the specification --------------------------*)

Command(p) ==
  \/ AbortRead(p) \/ AbortWrite(p)
  \/ \E j \in Jobs : ForceMark(p, j) \/ ForceLog(p, j)
  \/ ForceStatus(p) \/ ForceComplete(p) \/ ForcePropagate(p)
  \/ ResetRead(p) \/ ResetWrite(p)
  \/ \E j \in Jobs : RetryRead(p, j)
  \/ RetryExceeded(p) \/ RetryWrite(p)
  \/ \E j \in Jobs : DecideRead(p, j)
  \/ DecideAgain(p) \/ DecideFirst(p) \/ DecideRecord(p) \/ DecideLog(p)
  \/ DecideApply(p)

Advance(p) ==
  \/ AdvanceRead(p) \/ AdvanceNothing(p) \/ AdvanceStep(p)
  \/ AppendJobCompleted(p) \/ CommitJobCompleted(p)

InvocationStep ==
  \/ Invoke \/ LoopStop
  \/ \E j \in Jobs : GateAlreadyOpen(j) \/ GateRead(j) \/ WorkRead(j)
  \/ GateEnter \/ WorkStart \/ WorkSucceed \/ WorkFail \/ BatchSettled

Next ==
  \/ \E p \in Shells : Command(p)
  \/ \E p \in Proc : Advance(p) \/ Fetch(p) \/ Crash(p)
  \/ InvocationStep

Spec == Init /\ [][Next]_vars

(* ------------------------------- properties ------------------------------*)

(* A job stands behind its gate only when somebody approved it, and if no   *)
(* two processes overlapped, approved it in this very attempt: no retry,    *)
(* reset, override, stale copy or crash carries a job past a gate.          *)
BehindGateApproved ==
  \A j \in Gated : state.job[j].step > 1 =>
    \E n \in Attempt : /\ decided[j][n]["approved"] > 0
                       /\ overlapped \/ n = AttemptOf(state.job[j])

(* A paused run has an open gate, so that there is something to decide;     *)
(* unless a process wrote back a copy, or the outcome of an updateState,    *)
(* over a state that another process had put in its place meanwhile.        *)
PausedIsAwaiting ==
  state.run = "paused" /\ ~overtaken => Awaiting(state) # {}

Deciding(j) == \E p \in Proc : op[p].job = j /\ pt[p] \in {"log", "apply"}

(* An open gate can be decided: no decision is on file for its attempt, so  *)
(* that none is refused, after every sequence of commands and invocations;  *)
(* unless one of them was killed half way or overlapped with another, or    *)
(* reset-run or force-set took the job back into a decided attempt.         *)
OpenGateIsUndecided ==
  crashes = 0 /\ ~overlapped =>
    \A j \in Awaiting(state) \ rewound :
      Deciding(j) \/ file[j][AttemptOf(state.job[j])] = "none"
=============================================================================
