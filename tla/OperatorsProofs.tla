-------------------------- MODULE OperatorsProofs --------------------------
(***************************************************************************)
(* Proofs about Operators, for every workflow, any number of shells,       *)
(* commands and crashes: what the commands people give, interleaved with   *)
(* each other and with an invocation, cannot do to a gate.                 *)
(*                                                                         *)
(* Every step of a process is one of the rows below: it moves that process *)
(* alone (Frame), and what it writes is said job by job.                   *)
(***************************************************************************)
EXTENDS Operators, TLAPS

(* ---------------------------------- types --------------------------------*)

GateRecord == [status  : JobStatus,
               attempt : 0..AttemptCap,
               last    : {"absent", "open", "failure", "success"},
               step    : Nat,
               gate    : BOOLEAN]

GatedJobs == [Jobs -> GateRecord]

GatedState == [run : RunStatus, job : GatedJobs]

(* Where a process works on a job, and where it carries a verdict.          *)
DecidePoint == {"check", "record", "log", "apply"}

JobPoint == DecidePoint \cup {"mark", "force", "propagate", "retry", "advRead",
                              "advance", "commit", "enter", "start", "work"}

Point == JobPoint \cup {"idle", "abort", "reset", "loop", "settled"}

ArgumentTo == Verdict \cup {"none", "waiting", "failed", "blocked", "completed",
                            "retry", "force"}

Argument == [job : Jobs \cup {NoOp.job}, to : ArgumentTo]

Live == {"ready", "running"}

(* Every variable has its type, and a process at work has its arguments; an *)
(* invocation that is to start a step chose a job that could be run.  An    *)
(* updateState is under way only where there is one to make.                *)
TypeInv ==
  /\ state \in GatedState
  /\ file \in [Jobs -> [Attempt -> Verdict \cup {"none"}]]
  /\ decided \in [Jobs -> [Attempt -> [Verdict -> Nat]]]
  /\ jobLog \subseteq Jobs
  /\ pt \in [Proc -> Point]
  /\ op \in [Proc -> Argument]
  /\ copy \in [Proc -> GatedState]
  /\ base \in [Proc -> GatedState]
  /\ fetched \subseteq Proc
  /\ commands \in Nat
  /\ overlapped \in BOOLEAN /\ overtaken \in BOOLEAN
  /\ rewound \subseteq Jobs
  /\ crashes \in Nat
  /\ \A p \in Proc : pt[p] \in JobPoint => op[p].job \in Jobs
  /\ \A p \in Proc : pt[p] \in DecidePoint => op[p].to \in Verdict
  /\ \A p \in Proc : pt[p] = "mark" => op[p].to \in {"waiting", "failed", "blocked"}
  /\ \A p \in Proc : pt[p] = "start" => copy[p].job[op[p].job].status \in Live
  /\ \A p \in fetched : pt[p] \in UpdateAt

(* The parts of a state.                                                    *)
LEMMA GateParts ==
  /\ \A s \in GatedState : s.run \in RunStatus /\ s.job \in GatedJobs
  /\ \A s \in GatedState : \A j \in Jobs :
       /\ s.job[j] \in GateRecord
       /\ s.job[j].status \in JobStatus /\ s.job[j].attempt \in 0..AttemptCap
       /\ s.job[j].step \in Nat /\ s.job[j].gate \in BOOLEAN
  BY DEF GatedState, GatedJobs, GateRecord

(* The state a run is created in, with every gate closed.                   *)
LEMMA InitStateGated ==
  /\ InitState \in GatedState
  /\ \A j \in Jobs : /\ InitState.job[j].gate = FALSE
                     /\ InitState.job[j].step = 0
  BY OperatorsAssumption
  DEF InitState, GatedState, GatedJobs, GateRecord, JobStatus, RunStatus

(* The attempt a job is in.                                                 *)
LEMMA AttemptInRange ==
  ASSUME NEW rec \in GateRecord
  PROVE  /\ AttemptOf(rec) \in Attempt
         /\ StepIndex(rec) \in Nat \ {0}
         /\ StepIndex(rec) > 1 <=> rec.step > 1
         /\ rec.step > 1 => StepIndex(rec) = rec.step
  BY OperatorsAssumption DEF AttemptOf, StepIndex, GateRecord, Attempt

(* --------------------------- what a step writes --------------------------*)

(* Of job k at most its readiness is written, from what it is in b.         *)
Kept(b, k) ==
  /\ state'.job[k].gate = b.job[k].gate
  /\ state'.job[k].step = b.job[k].step
  /\ state'.job[k].attempt = b.job[k].attempt
  /\ \/ state'.job[k].status = b.job[k].status
     \/ b.job[k].status = "waiting" /\ state'.job[k].status = "ready"

KeptBut(b, j) == \A k \in Jobs \ {j} : Kept(b, k)

(* Job j is given a status, within its attempt and with its gate as it is.  *)
Marked(b, j, statuses) ==
  /\ state'.job[j].gate = b.job[j].gate
  /\ state'.job[j].attempt = b.job[j].attempt
  /\ state'.job[j].status \in statuses

(* Releasing jobs changes nothing but the status of waiting ones.           *)
LEMMA Released ==
  ASSUME NEW js \in GatedJobs, NEW R
  PROVE  /\ PropagateReadiness(js, R) \in GatedJobs
         /\ \A k \in Jobs :
              LET t == PropagateReadiness(js, R)
              IN  /\ t[k].gate = js[k].gate
                  /\ t[k].step = js[k].step
                  /\ t[k].attempt = js[k].attempt
                  /\ \/ t[k].status = js[k].status
                     \/ js[k].status = "waiting" /\ t[k].status = "ready"
  BY DEF PropagateReadiness, GatedJobs, GateRecord, JobStatus

(* abort: the whole copy, cancelled.                                        *)
LEMMA AbortEffect ==
  ASSUME TypeInv, NEW p \in Proc, AbortWrite(p)
  PROVE  /\ state' \in GatedState
         /\ state'.run = "cancelled"
         /\ state'.job = copy[p].job
  BY DEF AbortWrite, TypeInv, GatedState, RunStatus

(* Writing one well-formed record.                                          *)
LEMMA WriteOne ==
  ASSUME NEW s \in GatedState, NEW j \in Jobs, NEW rec \in GateRecord,
         NEW r \in RunStatus, NEW t,
         t = [run |-> r, job |-> [s.job EXCEPT ![j] = rec]]
  PROVE  /\ t \in GatedState
         /\ t.run = r
         /\ t.job[j] = rec
         /\ \A k \in Jobs \ {j} : t.job[k] = s.job[k]
  BY DEF GatedState, GatedJobs

(* force-set: a status, and for waiting a new start.                        *)
LEMMA ForceEffect ==
  ASSUME TypeInv, NEW p \in Proc, ForceStatus(p)
  PROVE  LET j == op[p].job
         IN  /\ state' \in GatedState
             /\ state'.run = base[p].run
             /\ KeptBut(base[p], j)
             /\ Marked(base[p], j, {"waiting", "failed", "blocked"})
             /\ state'.job[j].step \in {base[p].job[j].step, 0}
             /\ rewound \subseteq rewound' /\ rewound' \subseteq Jobs
             /\ j \in rewound' \/ state'.job[j].status \in {"failed", "blocked"}
  <1> DEFINE j == op[p].job
             b == base[p]
             status == op[p].to
             step == IF status = "waiting" THEN 0 ELSE b.job[j].step
             new == [b.job[j] EXCEPT !.status = status, !.step = step]
  <1>1. /\ state' = [b EXCEPT !.job[j].status = status,
                              !.job[j].step = IF status = "waiting" THEN 0 ELSE @]
        /\ rewound' = IF status = "waiting" THEN rewound \cup {j} ELSE rewound
        /\ j \in Jobs /\ rewound \subseteq Jobs
        /\ status \in {"waiting", "failed", "blocked"}
    BY DEF ForceStatus, Update, At, TypeInv, JobPoint
  <1>2. /\ b \in GatedState /\ b.job[j] \in GateRecord /\ b.run \in RunStatus
        /\ b.job \in GatedJobs
    BY <1>1, GateParts DEF TypeInv
  <1>j. j \in Jobs
    BY <1>1
  <1> HIDE DEF j, b, status
  <1>3. /\ new \in GateRecord /\ new.gate = b.job[j].gate
        /\ new.attempt = b.job[j].attempt /\ new.status = status
        /\ new.step \in {b.job[j].step, 0}
    BY <1>1, <1>2 DEF GateRecord, JobStatus
  <1>4. state' = [run |-> b.run, job |-> [b.job EXCEPT ![j] = new]]
    BY <1>1, <1>2 DEF GatedState, GatedJobs, GateRecord
  <1> HIDE DEF new
  <1>5. /\ state' \in GatedState /\ state'.run = b.run
        /\ state'.job[j] = new
        /\ \A k \in Jobs \ {j} : state'.job[k] = b.job[k]
    BY <1>j, <1>2, <1>3, <1>4, WriteOne
  <1>6. KeptBut(b, j) /\ Marked(b, j, {"waiting", "failed", "blocked"})
    BY <1>1, <1>3, <1>5 DEF KeptBut, Kept, Marked
  <1>7. /\ rewound \subseteq rewound' /\ rewound' \subseteq Jobs
        /\ j \in rewound' \/ status \in {"failed", "blocked"}
    BY <1>1
  <1> QED BY <1>3, <1>5, <1>6, <1>7 DEF j, b

(* force-set to completed, first update.                                    *)
LEMMA ForceCompleteEffect ==
  ASSUME TypeInv, NEW p \in Proc, ForceComplete(p)
  PROVE  LET j == op[p].job
         IN  /\ state' \in GatedState
             /\ state'.run = base[p].run
             /\ KeptBut(base[p], j)
             /\ Marked(base[p], j, {"completed"})
             /\ state'.job[j].step = 0
  <1> DEFINE j == op[p].job
             new == [base[p].job[j] EXCEPT !.status = "completed", !.step = 0]
  <1>1. /\ state' = [base[p] EXCEPT !.job[j].status = "completed", !.job[j].step = 0]
        /\ j \in Jobs
    BY DEF ForceComplete, Update, At, TypeInv, JobPoint
  <1>j. j \in Jobs
    BY <1>1
  <1> HIDE DEF j
  <1>2. /\ base[p] \in GatedState /\ base[p].job[j] \in GateRecord
        /\ base[p].job \in GatedJobs /\ base[p].run \in RunStatus
    BY <1>1, GateParts DEF TypeInv
  <1>3. /\ new \in GateRecord /\ new.gate = base[p].job[j].gate
        /\ new.attempt = base[p].job[j].attempt /\ new.status = "completed"
        /\ new.step = 0
    BY <1>2 DEF GateRecord, JobStatus
  <1>4. state' = [run |-> base[p].run, job |-> [base[p].job EXCEPT ![j] = new]]
    BY <1>1, <1>2 DEF GatedState, GatedJobs, GateRecord
  <1> HIDE DEF new
  <1>5. /\ state' \in GatedState /\ state'.run = base[p].run
        /\ state'.job[j] = new
        /\ \A k \in Jobs \ {j} : state'.job[k] = base[p].job[k]
    BY <1>j, <1>2, <1>3, <1>4, WriteOne
  <1>6. KeptBut(base[p], j) /\ Marked(base[p], j, {"completed"}) /\ state'.job[j].step = 0
    BY <1>3, <1>5 DEF KeptBut, Kept, Marked
  <1> QED BY <1>5, <1>6 DEF j

(* ... and second.                                                          *)
LEMMA ForcePropagateEffect ==
  ASSUME TypeInv, NEW p \in Proc, ForcePropagate(p)
  PROVE  /\ state' \in GatedState
         /\ state'.run = base[p].run
         /\ \A k \in Jobs : Kept(base[p], k)
  <1> DEFINE R == ReadyJobs(base[p].job)
  <1>1. state' = [base[p] EXCEPT !.job = PropagateReadiness(base[p].job, R)]
    BY DEF ForcePropagate
  <1>2. base[p] \in GatedState /\ base[p].job \in GatedJobs
    BY GateParts DEF TypeInv
  <1> HIDE DEF R
  <1>3. /\ state' \in GatedState /\ state'.run = base[p].run
        /\ state'.job = PropagateReadiness(base[p].job, R)
    BY <1>1, <1>2, Released DEF GatedState
  <1> QED BY <1>2, <1>3, Released DEF Kept

(* A record taken back to its start.                                        *)
LEMMA Restarted ==
  ASSUME NEW rec \in GateRecord
  PROVE  LET t == [rec EXCEPT !.status = "waiting", !.step = 0, !.attempt = 0]
         IN  t \in GateRecord /\ t.gate = rec.gate /\ t.step = 0
  <1>1. 0 \in 0..AttemptCap
    BY OperatorsAssumption
  <1> QED BY <1>1 DEF GateRecord, JobStatus

(* reset-run: the jobs that ran or failed in the copy start again.          *)
LEMMA ResetEffect ==
  ASSUME TypeInv, NEW p \in Proc, ResetWrite(p)
  PROVE  /\ state' \in GatedState
         /\ state'.run \in {"running", base[p].run}
         /\ \A k \in Jobs :
              \/ Kept(base[p], k)
              \/ /\ state'.job[k].gate = base[p].job[k].gate
                 /\ state'.job[k].step = 0
                 /\ k \in rewound'
         /\ rewound \subseteq rewound' /\ rewound' \subseteq Jobs
  <1> DEFINE reset == ResetJobs(copy[p])
             planned == [j \in Jobs |-> IF j \in reset
                    THEN [copy[p].job[j] EXCEPT !.status = "waiting"]
                    ELSE copy[p].job[j]]
             applied == [j \in Jobs |-> IF j \in reset
                    THEN [base[p].job[j] EXCEPT !.status = "waiting",
                                              !.step = 0, !.attempt = 0]
                    ELSE base[p].job[j]]
             R == ReadyJobs(planned)
  <1>1. /\ state' = [run |-> IF copy[p].run \in TerminalRun \cup {"paused"}
                             THEN "running" ELSE base[p].run,
                     job |-> PropagateReadiness(applied, R)]
        /\ rewound' = rewound \cup reset
    BY DEF ResetWrite
  <1>2. reset \subseteq Jobs /\ rewound \subseteq Jobs
    BY DEF ResetJobs, TypeInv
  <1>3. /\ base[p].run \in RunStatus /\ base[p].job \in GatedJobs
        /\ \A j \in Jobs : base[p].job[j] \in GateRecord
    BY GateParts DEF TypeInv
  <1> HIDE DEF reset, R, planned
  <1>4. /\ applied \in GatedJobs
        /\ \A k \in Jobs \ reset : applied[k] = base[p].job[k]
        /\ \A k \in reset : /\ applied[k].gate = base[p].job[k].gate
                            /\ applied[k].step = 0
    <2>1. ASSUME NEW k \in Jobs
          PROVE  /\ applied[k] \in GateRecord
                 /\ k \notin reset => applied[k] = base[p].job[k]
                 /\ k \in reset => applied[k].gate = base[p].job[k].gate
                 /\ k \in reset => applied[k].step = 0
      <3>1. base[p].job[k] \in GateRecord
        BY <1>3
      <3>2. applied[k] = IF k \in reset
                         THEN [base[p].job[k] EXCEPT !.status = "waiting",
                                                   !.step = 0, !.attempt = 0]
                         ELSE base[p].job[k]
        OBVIOUS
      <3> HIDE DEF applied
      <3>3. CASE k \in reset
        <4>1. applied[k] = [base[p].job[k] EXCEPT !.status = "waiting",
                                                !.step = 0, !.attempt = 0]
          BY <3>2, <3>3
        <4> QED BY <3>1, <3>3, <4>1, Restarted
      <3>4. CASE k \notin reset
        BY <3>1, <3>2, <3>4
      <3> QED BY <3>3, <3>4
    <2>2. applied = [k \in Jobs |-> applied[k]]
      OBVIOUS
    <2> HIDE DEF applied
    <2> QED BY <1>2, <2>1, <2>2 DEF GatedJobs
  <1> HIDE DEF applied
  <1>5. /\ state'.job = PropagateReadiness(applied, R)
        /\ state'.run \in {"running", base[p].run}
        /\ state' \in GatedState
    BY <1>1, <1>3, <1>4, Released DEF GatedState, RunStatus
  <1>6. \A k \in Jobs : /\ state'.job[k].gate = applied[k].gate
                        /\ state'.job[k].step = applied[k].step
                        /\ state'.job[k].attempt = applied[k].attempt
                        /\ \/ state'.job[k].status = applied[k].status
                           \/ /\ applied[k].status = "waiting"
                              /\ state'.job[k].status = "ready"
    BY <1>4, <1>5, Released
  <1>7. \A k \in Jobs \ reset : Kept(base[p], k)
    BY <1>4, <1>6 DEF Kept
  <1> QED BY <1>1, <1>2, <1>4, <1>5, <1>6, <1>7

(* retry, no attempts left: the record that was read, given up.             *)
LEMMA ExceededEffect ==
  ASSUME TypeInv, NEW p \in Proc, RetryExceeded(p)
  PROVE  LET j == op[p].job
             rec == copy[p].job[j]
         IN  /\ state' \in GatedState
             /\ state'.run = base[p].run
             /\ KeptBut(base[p], j)
             /\ state'.job[j].gate = rec.gate
             /\ state'.job[j].attempt = rec.attempt
             /\ state'.job[j].status \in {"blocked", "failed"}
             /\ state'.job[j].step = 0
  <1> DEFINE j == op[p].job
             rec == copy[p].job[j]
             new == [rec EXCEPT !.status = OnExceeded[j], !.step = 0]
  <1>1. /\ state' = [base[p] EXCEPT !.job[j] = new]
        /\ j \in Jobs
    BY DEF RetryExceeded, UpdateJob, At, TypeInv, JobPoint
  <1>2. rec \in GateRecord /\ OnExceeded[j] \in {"blocked", "failed"}
    BY <1>1, GateParts, WorkflowAssumption DEF TypeInv
  <1>j. j \in Jobs
    BY <1>1
  <1> HIDE DEF j, rec
  <1>3. /\ new \in GateRecord /\ new.gate = rec.gate
        /\ new.attempt = rec.attempt /\ new.status \in {"blocked", "failed"}
        /\ new.step = 0
    BY <1>2 DEF GateRecord, JobStatus
  <1>n. new \in GateRecord
    BY <1>3
  <1> HIDE DEF new
  <1>4. /\ base[p] \in GatedState /\ base[p].job \in GatedJobs /\ base[p].run \in RunStatus
    BY GateParts DEF TypeInv
  <1>5. state' = [run |-> base[p].run, job |-> [base[p].job EXCEPT ![j] = new]]
    BY <1>1, <1>4 DEF GatedState
  <1>r. base[p] \in GatedState /\ base[p].run \in RunStatus
    BY <1>4
  <1>6. /\ state' \in GatedState /\ state'.run = base[p].run
        /\ state'.job[j] = new
        /\ \A k \in Jobs \ {j} : state'.job[k] = base[p].job[k]
    BY <1>j, <1>n, <1>4, <1>5 DEF GatedState, GatedJobs
  <1> QED BY <1>3, <1>6 DEF KeptBut, Kept, j, rec

(* retry: a new attempt on the record that was read.                        *)
LEMMA RetryEffect ==
  ASSUME TypeInv, NEW p \in Proc, RetryWrite(p)
  PROVE  LET j == op[p].job
             rec == copy[p].job[j]
         IN  /\ state' \in GatedState
             /\ state'.run = base[p].run
             /\ KeptBut(base[p], j)
             /\ state'.job[j].gate = rec.gate
             /\ state'.job[j].attempt = AttemptOf(rec) + 1
             /\ state'.job[j].status = "ready"
             /\ state'.job[j].step = 0
  <1> DEFINE j == op[p].job
             rec == copy[p].job[j]
             new == [status |-> "ready", attempt |-> AttemptOf(rec) + 1,
                     last |-> "open", step |-> 0, gate |-> rec.gate]
  <1>1. /\ state' = [base[p] EXCEPT !.job[j] = new]
        /\ j \in Jobs /\ AttemptOf(rec) < AttemptCap
    BY DEF RetryWrite, UpdateJob, At, TypeInv, JobPoint
  <1>2. rec \in GateRecord
    BY <1>1, GateParts DEF TypeInv
  <1>j. j \in Jobs
    BY <1>1
  <1> HIDE DEF j, rec
  <1>3. /\ new \in GateRecord /\ new.gate = rec.gate
        /\ new.attempt = AttemptOf(rec) + 1 /\ new.status = "ready"
        /\ new.step = 0
    <2>1. AttemptOf(rec) \in Attempt
      BY <1>2, AttemptInRange
    <2>2. AttemptOf(rec) + 1 \in 0..AttemptCap
      BY <1>1, <2>1, OperatorsAssumption DEF Attempt
    <2> QED BY <1>2, <2>2 DEF GateRecord, JobStatus
  <1>n. new \in GateRecord
    BY <1>3
  <1> HIDE DEF new
  <1>4. /\ base[p] \in GatedState /\ base[p].job \in GatedJobs /\ base[p].run \in RunStatus
    BY GateParts DEF TypeInv
  <1>5. state' = [run |-> base[p].run, job |-> [base[p].job EXCEPT ![j] = new]]
    BY <1>1, <1>4 DEF GatedState
  <1>r. base[p] \in GatedState /\ base[p].run \in RunStatus
    BY <1>4
  <1>6. /\ state' \in GatedState /\ state'.run = base[p].run
        /\ state'.job[j] = new
        /\ \A k \in Jobs \ {j} : state'.job[k] = base[p].job[k]
    BY <1>j, <1>n, <1>4, <1>5 DEF GatedState, GatedJobs
  <1> QED BY <1>3, <1>6 DEF KeptBut, Kept, j, rec

(* approve or reject: the gate is closed.                                   *)
LEMMA DecideEffect ==
  ASSUME TypeInv, NEW p \in Proc, DecideApply(p)
  PROVE  LET j == op[p].job
         IN  /\ state' \in GatedState
             /\ state'.run = "running"
             /\ KeptBut(base[p], j)
             /\ state'.job[j].gate = FALSE
             /\ state'.job[j].attempt = base[p].job[j].attempt
             /\ state'.job[j].step = base[p].job[j].step
             /\ state'.job[j].status =
                  IF op[p].to = "approved" THEN "running" ELSE "failed"
  <1> DEFINE j == op[p].job
             new == [base[p].job[j] EXCEPT !.gate = FALSE,
                       !.status = IF op[p].to = "approved" THEN "running" ELSE "failed"]
  <1>1. /\ state' = [run |-> "running",
                     job |-> [base[p].job EXCEPT
                        ![j].gate = FALSE,
                        ![j].status = IF op[p].to = "approved" THEN "running" ELSE "failed"]]
        /\ j \in Jobs
    BY DEF DecideApply, Update, At, TypeInv, JobPoint, DecidePoint
  <1>j. j \in Jobs
    BY <1>1
  <1> HIDE DEF j
  <1>2. /\ base[p] \in GatedState /\ base[p].job[j] \in GateRecord
        /\ base[p].job \in GatedJobs
    BY <1>1, GateParts DEF TypeInv
  <1>3. /\ new \in GateRecord /\ new.gate = FALSE
        /\ new.attempt = base[p].job[j].attempt /\ new.step = base[p].job[j].step
        /\ new.status = IF op[p].to = "approved" THEN "running" ELSE "failed"
    BY <1>2 DEF GateRecord, JobStatus
  <1>4. state' = [run |-> "running", job |-> [base[p].job EXCEPT ![j] = new]]
    BY <1>1, <1>2 DEF GatedState, GatedJobs, GateRecord
  <1> HIDE DEF new
  <1>5. /\ state' \in GatedState /\ state'.run = "running"
        /\ state'.job[j] = new
        /\ \A k \in Jobs \ {j} : state'.job[k] = base[p].job[k]
    BY <1>j, <1>2, <1>3, <1>4, WriteOne DEF RunStatus
  <1> QED BY <1>3, <1>5 DEF KeptBut, Kept, j

(* advanceJob, next step: the copy with the pointer moved.                  *)
LEMMA AdvanceEffect ==
  ASSUME TypeInv, NEW p \in Proc, AdvanceStep(p)
  PROVE  LET j == op[p].job
         IN  /\ state' \in GatedState
             /\ state'.run = copy[p].run
             /\ \A k \in Jobs \ {j} : state'.job[k] = copy[p].job[k]
             /\ state'.job[j].gate = copy[p].job[j].gate
             /\ state'.job[j].attempt = copy[p].job[j].attempt
             /\ state'.job[j].status = copy[p].job[j].status
             /\ state'.job[j].step > 1
  <1> DEFINE j == op[p].job
             rec == copy[p].job[j]
             new == [rec EXCEPT !.step = StepIndex(rec) + 1]
  <1>1. /\ state' = [copy[p] EXCEPT !.job[j].step = StepIndex(rec) + 1]
        /\ j \in Jobs
    BY DEF AdvanceStep, AdvanceLive, At, TypeInv, JobPoint
  <1>2. /\ copy[p] \in GatedState /\ rec \in GateRecord
        /\ copy[p].job \in GatedJobs /\ copy[p].run \in RunStatus
    BY <1>1, GateParts DEF TypeInv
  <1> HIDE DEF j
  <1>3. /\ new \in GateRecord /\ new.gate = rec.gate /\ new.attempt = rec.attempt
        /\ new.status = rec.status /\ new.step > 1
    BY <1>2, AttemptInRange DEF GateRecord
  <1>4. state' = [run |-> copy[p].run, job |-> [copy[p].job EXCEPT ![j] = new]]
    BY <1>1, <1>2 DEF GatedState, GatedJobs, GateRecord
  <1> HIDE DEF new
  <1>5. /\ state' \in GatedState /\ state'.run = copy[p].run
        /\ state'.job[j] = new
        /\ \A k \in Jobs \ {j} : state'.job[k] = copy[p].job[k]
    BY <1>1, <1>2, <1>3, <1>4, WriteOne
  <1> QED BY <1>3, <1>5 DEF j

(* Sealing the last attempt leaves the rest of the record alone.            *)
LEMMA Sealed ==
  ASSUME NEW rec \in GateRecord
  PROVE  \A t \in {SealSuccess(rec), SealFailure(rec)} :
           /\ t \in GateRecord
           /\ t.gate = rec.gate /\ t.attempt = rec.attempt
           /\ t.step = rec.step /\ t.status = rec.status
  BY DEF SealSuccess, SealFailure, GateRecord

(* advanceJob, last step: the job is completed, and those that waited for   *)
(* it are released.                                                         *)
LEMMA CommitEffect ==
  ASSUME TypeInv, NEW p \in Proc, CommitJobCompleted(p)
  PROVE  LET j == op[p].job
         IN  /\ state' \in GatedState
             /\ state'.run \in {base[p].run, "completed"}
             /\ KeptBut(base[p], j)
             /\ Marked(base[p], j, {"completed"})
             /\ state'.job[j].step = 0
  <1> DEFINE j == op[p].job
             new == [SealSuccess(base[p].job[j]) EXCEPT !.status = "completed",
                                                      !.step   = 0]
             done == [base[p].job EXCEPT ![j] = new]
             R == ReadyJobs(done)
             js == PropagateReadiness(done, R)
  <1>j. j \in Jobs
    BY DEF CommitJobCompleted, Update, At, TypeInv, JobPoint
  <1>1. state' = [run |-> IF \A k \in Jobs : js[k].status \in {"completed", "inactive"}
                          THEN "completed" ELSE base[p].run,
                  job |-> js]
    BY DEF CommitJobCompleted, CompleteJob
  <1> HIDE DEF j
  <1>2. /\ base[p].job[j] \in GateRecord /\ base[p].job \in GatedJobs
        /\ base[p].run \in RunStatus
    BY <1>j, GateParts DEF TypeInv
  <1> DEFINE sealed == SealSuccess(base[p].job[j])
  <1>3. /\ sealed \in GateRecord /\ sealed.gate = base[p].job[j].gate
        /\ sealed.attempt = base[p].job[j].attempt
    BY <1>2, Sealed
  <1>4. /\ new \in GateRecord /\ new.gate = base[p].job[j].gate
        /\ new.attempt = base[p].job[j].attempt /\ new.status = "completed"
        /\ new.step = 0
    <2>1. new = [sealed EXCEPT !.status = "completed", !.step = 0]
      OBVIOUS
    <2> HIDE DEF sealed, new
    <2> QED BY <1>3, <2>1 DEF GateRecord, JobStatus
  <1> HIDE DEF new, sealed
  <1>5. /\ done \in GatedJobs /\ done[j] = new
        /\ \A k \in Jobs \ {j} : done[k] = base[p].job[k]
    BY <1>j, <1>2, <1>4 DEF GatedJobs
  <1> HIDE DEF done, R
  <1>6. /\ js \in GatedJobs
        /\ \A k \in Jobs : /\ js[k].gate = done[k].gate /\ js[k].step = done[k].step
                           /\ js[k].attempt = done[k].attempt
                           /\ \/ js[k].status = done[k].status
                              \/ done[k].status = "waiting" /\ js[k].status = "ready"
    BY <1>5, Released
  <1> HIDE DEF js
  <1>7. /\ state' \in GatedState /\ state'.job = js
        /\ state'.run \in {base[p].run, "completed"}
    BY <1>1, <1>2, <1>6 DEF GatedState, RunStatus
  <1>8. KeptBut(base[p], j) /\ Marked(base[p], j, {"completed"}) /\ state'.job[j].step = 0
    BY <1>j, <1>4, <1>5, <1>6, <1>7 DEF KeptBut, Kept, Marked
  <1> QED BY <1>7, <1>8 DEF j

(* The gate opens.                                                          *)
LEMMA OpenEffect ==
  ASSUME TypeInv, NEW p \in Proc, p = Invocation, GateEnter
  PROVE  LET j == op[p].job
         IN  /\ state' \in GatedState
             /\ KeptBut(base[p], j)
             /\ state'.job[j].gate = TRUE
             /\ state'.job[j].attempt = base[p].job[j].attempt
             /\ state'.job[j].step = base[p].job[j].step
  <1> DEFINE j == op[p].job
             new == [base[p].job[j] EXCEPT !.status = "running", !.gate = TRUE]
  <1>j. j \in Jobs
    BY DEF GateEnter, Update, At, TypeInv, JobPoint
  <1>1. state' = [run |-> "paused",
                  job |-> [base[p].job EXCEPT ![j].status = "running",
                                            ![j].gate = TRUE]]
    BY DEF GateEnter
  <1> HIDE DEF j
  <1>2. /\ base[p] \in GatedState /\ base[p].job[j] \in GateRecord
        /\ base[p].job \in GatedJobs
    BY <1>j, GateParts DEF TypeInv
  <1>3. /\ new \in GateRecord /\ new.gate = TRUE
        /\ new.attempt = base[p].job[j].attempt /\ new.step = base[p].job[j].step
    BY <1>2 DEF GateRecord, JobStatus
  <1>4. state' = [run |-> "paused", job |-> [base[p].job EXCEPT ![j] = new]]
    BY <1>j, <1>1, <1>2 DEF GatedJobs, GateRecord
  <1> HIDE DEF new
  <1>5. /\ state' \in GatedState
        /\ state'.job[j] = new
        /\ \A k \in Jobs \ {j} : state'.job[k] = base[p].job[k]
    BY <1>j, <1>2, <1>3, <1>4, WriteOne DEF RunStatus
  <1> QED BY <1>3, <1>5 DEF KeptBut, Kept, j

(* A step of work starts.                                                   *)
LEMMA WorkEffect ==
  ASSUME TypeInv, NEW p \in Proc, p = Invocation, WorkStart,
         NEW j, j = op[p].job
  PROVE  /\ j \in Jobs
         /\ state' \in GatedState
         /\ state'.run = base[p].run
         /\ KeptBut(base[p], j)
         /\ state'.job[j].gate = base[p].job[j].gate
         /\ state'.job[j].attempt = AttemptOf(base[p].job[j])
         /\ state'.job[j].step = StepIndex(base[p].job[j])
         /\ state'.job[j].status = "running"
  <1> DEFINE a == AttemptOf(base[p].job[j])
             i == StepIndex(base[p].job[j])
             new == [base[p].job[j] EXCEPT !.status = "running", !.step = i, !.attempt = a]
  <1>1. state' = [base[p] EXCEPT !.job[j].status = "running", !.job[j].step = i,
                               !.job[j].attempt = a]
    BY DEF WorkStart
  <1>j. j \in Jobs
    BY DEF WorkStart, Update, At, TypeInv, JobPoint
  <1>2. /\ base[p] \in GatedState /\ base[p].job[j] \in GateRecord
        /\ base[p].job \in GatedJobs /\ base[p].run \in RunStatus
    BY <1>j, GateParts DEF TypeInv
  <1>3. a \in 0..AttemptCap /\ i \in Nat
    BY <1>2, AttemptInRange, OperatorsAssumption DEF Attempt
  <1> HIDE DEF a, i
  <1>4. /\ new \in GateRecord /\ new.gate = base[p].job[j].gate
        /\ new.attempt = a /\ new.step = i /\ new.status = "running"
    BY <1>2, <1>3 DEF GateRecord, JobStatus
  <1>5. state' = [run |-> base[p].run, job |-> [base[p].job EXCEPT ![j] = new]]
    BY <1>j, <1>1, <1>2 DEF GatedState, GatedJobs, GateRecord
  <1> HIDE DEF new
  <1>6. /\ state' \in GatedState /\ state'.run = base[p].run
        /\ state'.job[j] = new
        /\ \A k \in Jobs \ {j} : state'.job[k] = base[p].job[k]
    BY <1>j, <1>2, <1>4, <1>5, WriteOne
  <1> QED BY <1>j, <1>4, <1>6 DEF KeptBut, Kept, a, i

(* It fails.                                                                *)
LEMMA FailEffect ==
  ASSUME TypeInv, NEW p \in Proc, p = Invocation, WorkFail
  PROVE  LET j == op[p].job
         IN  /\ state' \in GatedState
             /\ state'.run = "failed"
             /\ KeptBut(base[p], j)
             /\ Marked(base[p], j, {"failed"})
             /\ state'.job[j].step = base[p].job[j].step
  <1> DEFINE j == op[p].job
             sealed == SealFailure(base[p].job[j])
             new == [sealed EXCEPT !.status = "failed"]
  <1>j. j \in Jobs
    BY DEF WorkFail, Update, At, TypeInv, JobPoint
  <1>1. state' = [run |-> "failed", job |-> [base[p].job EXCEPT ![j] = new]]
    BY DEF WorkFail
  <1> HIDE DEF j
  <1>2. /\ base[p] \in GatedState /\ base[p].job[j] \in GateRecord
        /\ base[p].job \in GatedJobs
    BY <1>j, GateParts DEF TypeInv
  <1>3. /\ sealed \in GateRecord /\ sealed.gate = base[p].job[j].gate
        /\ sealed.attempt = base[p].job[j].attempt /\ sealed.step = base[p].job[j].step
    BY <1>2, Sealed
  <1> HIDE DEF sealed
  <1>4. /\ new \in GateRecord /\ new.gate = base[p].job[j].gate
        /\ new.attempt = base[p].job[j].attempt /\ new.step = base[p].job[j].step
        /\ new.status = "failed"
    BY <1>3 DEF GateRecord, JobStatus
  <1> HIDE DEF new
  <1>5. /\ state' \in GatedState /\ state'.run = "failed"
        /\ state'.job[j] = new
        /\ \A k \in Jobs \ {j} : state'.job[k] = base[p].job[k]
    BY <1>j, <1>1, <1>2, <1>4, WriteOne DEF RunStatus
  <1> QED BY <1>4, <1>5 DEF KeptBut, Kept, Marked, j

(* ---------------------------- how a process moves ------------------------*)

(* The other processes stay where they are; the copy of p is its own, the   *)
(* state that is current, or dropped; and p is between the halves of an     *)
(* updateState only when this step was the first of them.                   *)
Elsewhere(p) ==
  /\ \A q \in Proc \ {p} :
       /\ pt'[q] = pt[q] /\ op'[q] = op[q]
       /\ copy'[q] = copy[q] /\ base'[q] = base[q]
       /\ q \in fetched' <=> q \in fetched
  /\ copy'[p] \in {copy[p], state, InitState}
  /\ base'[p] \in {state, InitState}
  /\ p \in fetched' =>
       base'[p] = state /\ state' = state /\ pt'[p] \in UpdateAt

(* The variables keep their types, p goes to one of `points`.               *)
Moves(p, points) ==
  /\ pt' \in [Proc -> Point] /\ op' \in [Proc -> Argument]
  /\ copy' \in [Proc -> GatedState]
  /\ base' \in [Proc -> GatedState] /\ fetched' \subseteq Proc
  /\ pt'[p] \in points
  /\ Elsewhere(p)

Keeps(p) == op'[p] = op[p] /\ copy'[p] = copy[p]

(* GoTo moves its process and keeps what it holds.                          *)
LEMMA GoToMoves ==
  ASSUME TypeInv, NEW p \in Proc, NEW point \in Point, GoTo(p, point)
  PROVE  Moves(p, {point}) /\ Keeps(p)
  BY InitStateGated DEF GoTo, Drop, TypeInv, Moves, Elsewhere, Keeps

(* A process that returns holds nothing.                                    *)
LEMMA ReturnMoves ==
  ASSUME TypeInv, NEW p \in Proc, Return(p)
  PROVE  Moves(p, {"idle"})
  <1>1. NoOp \in Argument
    BY DEF NoOp, Argument, ArgumentTo
  <1>2. InitState \in GatedState
    BY InitStateGated
  <1> QED BY <1>1, <1>2 DEF Return, Drop, TypeInv, Moves, Elsewhere, Point

(* A process that reads holds the state of that moment.                     *)
LEMMA ReadForMoves ==
  ASSUME TypeInv, NEW p \in Proc, NEW point \in Point,
         NEW j \in Jobs \cup {NoOp.job},
         NEW to \in ArgumentTo,
         ReadFor(p, point, j, to)
  PROVE  /\ Moves(p, {point})
         /\ copy'[p] = state /\ op'[p].job = j /\ op'[p].to = to
  <1>1. [job |-> j, to |-> to] \in Argument
    BY DEF Argument
  <1> QED BY <1>1, InitStateGated DEF ReadFor, Drop, TypeInv, Moves, Elsewhere

(* ---------------------------------- rows ---------------------------------*)

FilesSame == file' = file /\ decided' = decided

Same == state' = state /\ FilesSame /\ rewound' = rewound /\ overtaken' = overtaken

Ended == {"idle", "settled", "loop"}

(* A command reads the state, or an invocation starts.                      *)
Starts(p) ==
  /\ pt[p] = "idle" /\ Same
  /\ Moves(p, {"abort", "mark", "force", "reset", "retry", "check", "loop"})
  /\ pt'[p] # "loop" => copy'[p] = state
  /\ pt'[p] \in {"mark", "force", "retry", "check"} => op'[p].job \in Jobs
  /\ pt'[p] = "check" => op'[p].to \in Verdict
  /\ pt'[p] = "mark" => op'[p].to \in {"waiting", "failed", "blocked"}

Ends(p) ==
  pt[p] \in {"check", "loop", "settled"} /\ Moves(p, Ended) /\ Same

Dies(p) == pt[p] # "idle" /\ Moves(p, {"idle"}) /\ Same /\ crashes' # 0

(* From one point to the next with nothing written.                         *)
Goes(p) ==
  /\ \/ pt[p] = "check" /\ Moves(p, {"record"})
     \/ pt[p] = "work" /\ Moves(p, {"advRead"})
     \/ pt[p] = "advance" /\ Moves(p, {"commit"})
  /\ Keeps(p) /\ Same

(* The first half of an updateState.                                        *)
Fetches(p) ==
  /\ pt[p] \in UpdateAt /\ Moves(p, {pt[p]})
  /\ Keeps(p) /\ Same

Reads(p) ==
  /\ pt[p] = "advRead" /\ Moves(p, {"advance"}) /\ Same
  /\ copy'[p] = state /\ op'[p].job = op[p].job /\ op'[p].to = op[p].to

(* advanceJob finds the job decided already.                                *)
Passes(p) ==
  /\ pt[p] = "advance" /\ Moves(p, {"idle", "settled"}) /\ Same
  /\ copy[p].job[op[p].job].status \in {"completed", "failed", "blocked"}

(* The invocation takes a gate, ...                                         *)
Takes(p, j) ==
  /\ pt[p] = "loop" /\ Moves(p, {"enter"}) /\ Same
  /\ op'[p].job = j
  /\ state.job[j].status \in Live /\ StepIndex(state.job[j]) = 1

(* ... or a step that is not one.                                           *)
Chooses(p, j) ==
  /\ pt[p] = "loop" /\ Moves(p, {"start"}) /\ Same
  /\ copy'[p] = state /\ op'[p].job = j
  /\ state.job[j].status \in Live
  /\ j \in Gated => state.job[j].step > 1

(* The decision of p, on the attempt that it read.                          *)
Records(p) ==
  /\ pt[p] = "record" /\ Moves(p, {"log"}) /\ Keeps(p)
  /\ file' = [file EXCEPT ![op[p].job][AttemptRead(p)] = op[p].to]
  /\ state' = state /\ decided' = decided /\ rewound' = rewound
  /\ overtaken' = overtaken

Logs(p) ==
  /\ pt[p] = "log" /\ Moves(p, {"apply"}) /\ Keeps(p)
  /\ decided' = [decided EXCEPT ![op[p].job][AttemptRead(p)][op[p].to] = @ + 1]
  /\ state' = state /\ file' = file /\ rewound' = rewound
  /\ overtaken' = overtaken

(* The state is written.                                                    *)
Writes(p, from, points) ==
  /\ pt[p] = from /\ Moves(p, points) /\ FilesSame
  /\ state' \in GatedState
  /\ rewound \subseteq rewound'

(* It is what p has made of the state that it read, and noted if another    *)
(* process has written since.                                               *)
Updates(p, from, points) ==
  /\ Writes(p, from, points)
  /\ p \in fetched
  /\ ~overtaken' => ~overtaken /\ state = base[p]

(* The run is not paused by it.                                             *)
NotPausing(b) == state'.run = b.run \/ state'.run # "paused"

(* Of job j the status and the step; the others are kept.                   *)
Rewrites(b, j) ==
  /\ KeptBut(b, j)
  /\ state'.job[j].gate = b.job[j].gate
  /\ AttemptOf(state'.job[j]) = AttemptOf(b.job[j])
  /\ state'.job[j].step > 1 => b.job[j].step > 1

Settles(j) ==
  state'.job[j].status \in {"completed", "failed", "blocked"}

Aborts(p) ==
  /\ Writes(p, "abort", {"idle"})
  /\ state'.run = "cancelled" /\ state'.job = copy[p].job

Forces(p, j) ==
  /\ Updates(p, "mark", {"idle"}) /\ NotPausing(base[p])
  /\ Rewrites(base[p], j)
  /\ j \in rewound' \/ Settles(j)

Completes(p, j) ==
  /\ Updates(p, "force", {"propagate"}) /\ Keeps(p) /\ NotPausing(base[p])
  /\ Rewrites(base[p], j) /\ Settles(j)

Propagates(p) ==
  /\ Updates(p, "propagate", {"idle"}) /\ NotPausing(base[p])
  /\ \A k \in Jobs : Kept(base[p], k)

Resets(p) ==
  /\ Updates(p, "reset", {"idle"}) /\ NotPausing(base[p])
  /\ \A k \in Jobs :
       \/ Kept(base[p], k)
       \/ /\ state'.job[k].gate = base[p].job[k].gate
          /\ state'.job[k].step = 0
          /\ k \in rewound'

(* retry writes the record it read.                                         *)
Renews(p, j) ==
  /\ Updates(p, "retry", {"idle"}) /\ NotPausing(base[p])
  /\ KeptBut(base[p], j)
  /\ state'.job[j].gate = copy[p].job[j].gate
  /\ state'.job[j].step = 0
  /\ \/ Settles(j) /\ state'.job[j].attempt = copy[p].job[j].attempt
     \/ state'.job[j].attempt = AttemptOf(copy[p].job[j]) + 1
  /\ ~overtaken' => state.job[j] = copy[p].job[j]

Decides(p, j) ==
  /\ Updates(p, "apply", {"advRead", "idle"})
  /\ state'.run = "running"
  /\ KeptBut(base[p], j)
  /\ state'.job[j].gate = FALSE
  /\ state'.job[j].attempt = base[p].job[j].attempt
  /\ state'.job[j].step = base[p].job[j].step
  /\ \/ op[p].to = "approved" /\ pt'[p] = "advRead" /\ Keeps(p)
     \/ Settles(j) /\ pt'[p] = "idle"

(* advanceJob writes the copy it read.                                      *)
Steps1(p, j) ==
  /\ Writes(p, "advance", {"idle", "settled"})
  /\ state'.run = copy[p].run
  /\ \A k \in Jobs \ {j} : state'.job[k] = copy[p].job[k]
  /\ state'.job[j].gate = copy[p].job[j].gate
  /\ state'.job[j].attempt = copy[p].job[j].attempt
  /\ state'.job[j].step > 1
  /\ ~overtaken' => ~overtaken /\ state = copy[p]

Commits(p, j) ==
  /\ Updates(p, "commit", {"idle", "settled"}) /\ NotPausing(base[p])
  /\ Rewrites(base[p], j) /\ Settles(j)

Opens(p, j) ==
  /\ Updates(p, "enter", {"settled"})
  /\ KeptBut(base[p], j)
  /\ state'.job[j].gate = TRUE
  /\ state'.job[j].attempt = base[p].job[j].attempt
  /\ state'.job[j].step = base[p].job[j].step

Works(p, j) ==
  /\ Updates(p, "start", {"work"}) /\ Keeps(p) /\ NotPausing(base[p])
  /\ Rewrites(base[p], j)
  /\ base[p].job[j].step > 1 => state'.job[j].step > 1

Fails(p, j) ==
  /\ Updates(p, "work", {"settled"}) /\ NotPausing(base[p])
  /\ Rewrites(base[p], j) /\ Settles(j)

(* What process p may do.                                                   *)
Row(p) ==
  \/ Starts(p) \/ Ends(p) \/ Dies(p) \/ Goes(p) \/ Fetches(p) \/ Reads(p)
  \/ Passes(p) \/ Records(p) \/ Logs(p) \/ Aborts(p) \/ Propagates(p) \/ Resets(p)
  \/ \E j \in Jobs : Takes(p, j) \/ Chooses(p, j)
  \/ LET j == op[p].job
     IN  /\ j \in Jobs
         /\ \/ Forces(p, j) \/ Completes(p, j) \/ Renews(p, j) \/ Decides(p, j)
            \/ Steps1(p, j) \/ Commits(p, j) \/ Opens(p, j) \/ Works(p, j)
            \/ Fails(p, j)

(* ... and the history that is kept of it.                                  *)
History(p) ==
  /\ \/ /\ pt[p] = "idle"
        /\ overlapped' = (overlapped \/ \E q \in Proc \ {p} : pt[q] # "idle")
     \/ pt[p] # "idle" /\ overlapped' = overlapped
  /\ overlapped' \in BOOLEAN /\ overtaken' \in BOOLEAN
  /\ commands' \in Nat /\ jobLog' \subseteq Jobs /\ rewound' \subseteq Jobs
  /\ crashes' \in Nat /\ (crashes' = 0 => crashes = 0)

(* The steps of one process.                                                *)
ProcStep(p) ==
  \/ p \in Shells /\ Command(p)
  \/ Advance(p) \/ Fetch(p) \/ Crash(p)
  \/ p = Invocation /\ InvocationStep

(* Every step is the step of one process.                                   *)
LEMMA SomeProcess ==
  ASSUME Next
  PROVE  \E p \in Proc : ProcStep(p)
  BY DEF Next, ProcStep, Proc

(* The commands are rows.                                                   *)
LEMMA CommandRow ==
  ASSUME TypeInv, NEW p \in Proc, Command(p)
  PROVE  Row(p)
  <1>1. CASE AbortRead(p)
    <2>1. Moves(p, {"abort"}) /\ copy'[p] = state
      BY <1>1, ReadForMoves DEF AbortRead, Point, ArgumentTo
    <2> QED BY <1>1, <2>1 DEF AbortRead, Enter, At, files, started, Row, Starts,
                              Moves, Same, FilesSame
  <1>2. CASE AbortWrite(p)
    <2>1. Moves(p, {"idle"})
      BY <1>2, ReturnMoves DEF AbortWrite
    <2> QED BY <1>2, <2>1, AbortEffect
            DEF AbortWrite, At, files, rest, Row, Aborts, Writes, FilesSame, TypeInv
  <1>3. CASE ForceStatus(p)
    <2> DEFINE j == op[p].job
    <2>1. Moves(p, {"idle"})
      BY <1>3, ReturnMoves DEF ForceStatus
    <2>2. /\ pt[p] = "mark" /\ FilesSame /\ j \in Jobs /\ p \in fetched
          /\ ~overtaken' => ~overtaken /\ state = base[p]
      BY <1>3 DEF ForceStatus, Update, At, files, FilesSame, TypeInv, JobPoint
    <2>3. /\ state' \in GatedState /\ NotPausing(base[p])
          /\ Rewrites(base[p], j)
          /\ rewound \subseteq rewound'
          /\ j \in rewound' \/ Settles(j)
      BY <1>3, <2>2, ForceEffect DEF NotPausing, Rewrites, Marked, Settles, AttemptOf
    <2>4. Forces(p, j)
      BY <2>1, <2>2, <2>3 DEF Forces, Updates, Writes
    <2> QED BY <2>2, <2>4 DEF Row
  <1>17. ASSUME NEW j \in Jobs, ForceMark(p, j)
         PROVE  Row(p)
    <2>1. PICK status \in {"waiting", "failed", "blocked"} : ReadFor(p, "mark", j, status)
      BY <1>17 DEF ForceMark
    <2>2. /\ Moves(p, {"mark"}) /\ copy'[p] = state /\ op'[p].job = j
          /\ op'[p].to = status
      BY <2>1, ReadForMoves DEF Point, JobPoint, ArgumentTo
    <2> QED BY <1>17, <2>2 DEF ForceMark, Enter, At, files, started, Row, Starts,
                               Moves, Same, FilesSame
  <1>4. ASSUME NEW j \in Jobs, ForceLog(p, j)
        PROVE  Row(p)
    <2>1. Moves(p, {"force"}) /\ copy'[p] = state /\ op'[p].job = j
      BY <1>4, ReadForMoves DEF ForceLog, Point, JobPoint, ArgumentTo
    <2> QED BY <1>4, <2>1 DEF ForceLog, Enter, At, started, Row, Starts,
                              Moves, Same, FilesSame
  <1>5. CASE ForceComplete(p)
    <2>1. Moves(p, {"propagate"}) /\ Keeps(p)
      BY <1>5, GoToMoves DEF ForceComplete, Point, JobPoint
    <2> DEFINE j == op[p].job
    <2>2. /\ pt[p] = "force" /\ FilesSame /\ j \in Jobs /\ p \in fetched
          /\ rewound' = rewound
          /\ ~overtaken' => ~overtaken /\ state = base[p]
      BY <1>5 DEF ForceComplete, Update, At, files, rest, FilesSame, TypeInv, JobPoint
    <2>3. /\ state' \in GatedState /\ NotPausing(base[p])
          /\ Rewrites(base[p], j) /\ Settles(j)
      BY <1>5, <2>2, ForceCompleteEffect DEF NotPausing, Rewrites, Marked, Settles, AttemptOf
    <2>4. Completes(p, j)
      BY <2>1, <2>2, <2>3 DEF Completes, Updates, Writes
    <2> QED BY <2>2, <2>4 DEF Row
  <1>6. CASE ForcePropagate(p)
    <2>1. Moves(p, {"idle"})
      BY <1>6, ReturnMoves DEF ForcePropagate
    <2>2. /\ pt[p] = "propagate" /\ FilesSame /\ p \in fetched /\ rewound' = rewound
          /\ ~overtaken' => ~overtaken /\ state = base[p]
      BY <1>6 DEF ForcePropagate, Update, At, files, rest, FilesSame, TypeInv
    <2>3. Propagates(p)
      BY <1>6, <2>1, <2>2, ForcePropagateEffect DEF Propagates, Updates, Writes, NotPausing
    <2> QED BY <2>3 DEF Row
  <1>7. CASE ResetRead(p)
    <2>1. Moves(p, {"reset"}) /\ copy'[p] = state
      BY <1>7, ReadForMoves DEF ResetRead, Point, ArgumentTo
    <2> QED BY <1>7, <2>1 DEF ResetRead, Enter, At, files, started, Row, Starts,
                              Moves, Same, FilesSame
  <1>8. CASE ResetWrite(p)
    <2>1. Moves(p, {"idle"})
      BY <1>8, ReturnMoves DEF ResetWrite
    <2>2. /\ pt[p] = "reset" /\ FilesSame /\ p \in fetched
          /\ ~overtaken' => ~overtaken /\ state = base[p]
      BY <1>8 DEF ResetWrite, Update, At, files, FilesSame, TypeInv
    <2>3. NotPausing(base[p])
      BY <1>8, ResetEffect DEF NotPausing
    <2>4. Resets(p)
      BY <1>8, <2>1, <2>2, <2>3, ResetEffect DEF Resets, Updates, Writes
    <2> QED BY <2>4 DEF Row
  <1>9. ASSUME NEW j \in Jobs, RetryRead(p, j)
        PROVE  Row(p)
    <2>1. Moves(p, {"retry"}) /\ copy'[p] = state /\ op'[p].job = j
      BY <1>9, ReadForMoves DEF RetryRead, Point, JobPoint, ArgumentTo
    <2> QED BY <1>9, <2>1 DEF RetryRead, Enter, At, files, started, Row, Starts,
                              Moves, Same, FilesSame
  <1>10. ASSUME RetryExceeded(p) \/ RetryWrite(p)
         PROVE  Row(p)
    <2> DEFINE j == op[p].job
    <2>1. Moves(p, {"idle"})
      BY <1>10, ReturnMoves DEF RetryExceeded, RetryWrite
    <2>2. /\ pt[p] = "retry" /\ FilesSame /\ rewound' = rewound /\ j \in Jobs
          /\ p \in fetched
          /\ ~overtaken' => /\ ~overtaken /\ state = base[p]
                            /\ state.job[j] = copy[p].job[j]
      BY <1>10 DEF RetryExceeded, RetryWrite, UpdateJob, At, files, rest, FilesSame,
                   TypeInv, JobPoint
    <2>3. /\ state' \in GatedState /\ NotPausing(base[p])
          /\ KeptBut(base[p], j)
          /\ state'.job[j].gate = copy[p].job[j].gate
          /\ state'.job[j].step = 0
          /\ \/ Settles(j) /\ state'.job[j].attempt = copy[p].job[j].attempt
             \/ state'.job[j].attempt = AttemptOf(copy[p].job[j]) + 1
      <3>1. CASE RetryExceeded(p)
        BY <3>1, ExceededEffect DEF NotPausing, Settles
      <3>2. CASE RetryWrite(p)
        BY <3>2, RetryEffect DEF NotPausing
      <3> QED BY <1>10, <3>1, <3>2
    <2>4. Renews(p, j)
      BY <2>1, <2>2, <2>3 DEF Renews, Updates, Writes
    <2> QED BY <2>2, <2>4 DEF Row
  <1>11. ASSUME NEW j \in Jobs, DecideRead(p, j)
         PROVE  Row(p)
    <2>1. PICK v \in Verdict : ReadFor(p, "check", j, v)
      BY <1>11 DEF DecideRead
    <2>2. Moves(p, {"check"}) /\ copy'[p] = state /\ op'[p].job = j /\ op'[p].to = v
      BY <2>1, ReadForMoves DEF Point, JobPoint, DecidePoint, ArgumentTo
    <2> QED BY <1>11, <2>2 DEF DecideRead, Enter, At, files, started, Row, Starts,
                               Moves, Same, FilesSame
  <1>12. CASE DecideAgain(p)
    <2>1. Moves(p, {"idle"})
      BY <1>12, ReturnMoves DEF DecideAgain
    <2> QED BY <1>12, <2>1 DEF DecideAgain, At, files, quiet, Row, Ends, Ended,
                               Moves, Same, FilesSame
  <1>13. CASE DecideFirst(p)
    <2>1. Moves(p, {"record"}) /\ Keeps(p)
      BY <1>13, GoToMoves DEF DecideFirst, Point, JobPoint, DecidePoint
    <2> QED BY <1>13, <2>1 DEF DecideFirst, At, files, quiet, Row, Goes,
                               Same, FilesSame
  <1>14. CASE DecideRecord(p)
    <2>1. Moves(p, {"log"}) /\ Keeps(p)
      BY <1>14, GoToMoves DEF DecideRecord, Point, JobPoint, DecidePoint
    <2> QED BY <1>14, <2>1 DEF DecideRecord, At, quiet, Row, Records
  <1>15. CASE DecideLog(p)
    <2>1. Moves(p, {"apply"}) /\ Keeps(p)
      BY <1>15, GoToMoves DEF DecideLog, Point, JobPoint, DecidePoint
    <2> QED BY <1>15, <2>1 DEF DecideLog, At, quiet, Row, Logs
  <1>16. CASE DecideApply(p)
    <2> DEFINE j == op[p].job
    <2>1. /\ Moves(p, {"advRead", "idle"})
          /\ \/ op[p].to = "approved" /\ pt'[p] = "advRead" /\ Keeps(p)
             \/ op[p].to # "approved" /\ pt'[p] = "idle"
      <3>1. CASE op[p].to = "approved"
        <4>1. Moves(p, {"advRead"}) /\ Keeps(p)
          BY <1>16, <3>1, GoToMoves DEF DecideApply, Point, JobPoint
        <4> QED BY <3>1, <4>1 DEF Moves
      <3>2. CASE op[p].to # "approved"
        <4>1. Moves(p, {"idle"})
          BY <1>16, <3>2, ReturnMoves DEF DecideApply
        <4> QED BY <3>2, <4>1 DEF Moves
      <3> QED BY <3>1, <3>2
    <2>2. /\ pt[p] = "apply" /\ FilesSame /\ j \in Jobs /\ p \in fetched
          /\ rewound' = rewound
          /\ ~overtaken' => ~overtaken /\ state = base[p]
      BY <1>16 DEF DecideApply, Update, At, files, rest, FilesSame, TypeInv,
                   JobPoint, DecidePoint
    <2>3. op[p].to # "approved" => Settles(j)
      BY <1>16, DecideEffect DEF Settles
    <2>4. Decides(p, j)
      BY <1>16, <2>1, <2>2, <2>3, DecideEffect DEF Decides, Updates, Writes
    <2> QED BY <2>2, <2>4 DEF Row
  <1> QED BY <1>1, <1>2, <1>3, <1>4, <1>5, <1>6, <1>7, <1>8, <1>9, <1>10, <1>11,
             <1>12, <1>13, <1>14, <1>15, <1>16, <1>17 DEF Command

(* After its advance a command returns, and the invocation settles.         *)
LEMMA AfterAdvanceMoves ==
  ASSUME TypeInv, NEW p \in Proc, AfterAdvance(p)
  PROVE  Moves(p, {"idle", "settled"})
  <1>1. CASE p = Invocation
    <2>1. Moves(p, {"settled"})
      BY <1>1, GoToMoves DEF AfterAdvance, Point
    <2> QED BY <2>1 DEF Moves
  <1>2. CASE p # Invocation
    <2>1. Moves(p, {"idle"})
      BY <1>2, ReturnMoves DEF AfterAdvance
    <2> QED BY <2>1 DEF Moves
  <1> QED BY <1>1, <1>2

(* So are the steps of advanceJob, ...                                      *)
LEMMA AdvanceRow ==
  ASSUME TypeInv, NEW p \in Proc, Advance(p)
  PROVE  Row(p)
  <1> DEFINE j == op[p].job
  <1>1. CASE AdvanceRead(p)
    <2>1. op[p].job \in Jobs \cup {NoOp.job}
          /\ op[p].to \in ArgumentTo
      BY DEF TypeInv, Argument
    <2>2. /\ Moves(p, {"advance"}) /\ copy'[p] = state
          /\ op'[p].job = op[p].job /\ op'[p].to = op[p].to
      <3> DEFINE k == op[p].job
                 to == op[p].to
      <3>1. ReadFor(p, "advance", k, to) /\ "advance" \in Point
        BY <1>1 DEF AdvanceRead, Point, JobPoint
      <3>2. /\ k \in Jobs \cup {NoOp.job}
            /\ to \in ArgumentTo
        BY <2>1
      <3> HIDE DEF k, to
      <3>3. Moves(p, {"advance"}) /\ copy'[p] = state /\ op'[p].job = k /\ op'[p].to = to
        BY <3>1, <3>2, ReadForMoves
      <3> QED BY <3>3 DEF k, to
    <2> QED BY <1>1, <2>2 DEF AdvanceRead, At, files, quiet, Row, Reads, Same, FilesSame
  <1>2. CASE AdvanceNothing(p)
    <2>1. Moves(p, {"idle", "settled"})
      BY <1>2, AfterAdvanceMoves DEF AdvanceNothing
    <2> QED BY <1>2, <2>1 DEF AdvanceNothing, At, files, quiet, Row, Passes, Same,
                              FilesSame
  <1>3. CASE AdvanceStep(p)
    <2>1. Moves(p, {"idle", "settled"})
      BY <1>3, AfterAdvanceMoves DEF AdvanceStep
    <2>2. /\ pt[p] = "advance" /\ FilesSame /\ rewound' = rewound /\ j \in Jobs
          /\ ~overtaken' => ~overtaken /\ state = copy[p]
      BY <1>3 DEF AdvanceStep, AdvanceLive, At, files, rest, FilesSame, WriteBack,
                  TypeInv, JobPoint
    <2>3. Steps1(p, j)
      BY <1>3, <2>1, <2>2, AdvanceEffect DEF Steps1, Writes
    <2> QED BY <2>2, <2>3 DEF Row
  <1>4. CASE AppendJobCompleted(p)
    <2>1. Moves(p, {"commit"}) /\ Keeps(p)
      BY <1>4, GoToMoves DEF AppendJobCompleted, Point, JobPoint
    <2> QED BY <1>4, <2>1 DEF AppendJobCompleted, AdvanceLive, At, quiet, Row, Goes,
                              Same, FilesSame
  <1>5. CASE CommitJobCompleted(p)
    <2>1. Moves(p, {"idle", "settled"})
      BY <1>5, AfterAdvanceMoves DEF CommitJobCompleted
    <2>2. /\ pt[p] = "commit" /\ FilesSame /\ j \in Jobs /\ p \in fetched
          /\ rewound' = rewound
          /\ ~overtaken' => ~overtaken /\ state = base[p]
      BY <1>5 DEF CommitJobCompleted, Update, At, files, rest, FilesSame, TypeInv,
                  JobPoint
    <2>3. /\ state' \in GatedState /\ NotPausing(base[p])
          /\ Rewrites(base[p], j) /\ Settles(j)
      BY <1>5, CommitEffect DEF NotPausing, Rewrites, Marked, Settles, AttemptOf
    <2>4. Commits(p, j)
      BY <2>1, <2>2, <2>3 DEF Commits, Updates, Writes
    <2> QED BY <2>2, <2>4 DEF Row
  <1> QED BY <1>1, <1>2, <1>3, <1>4, <1>5 DEF Advance

(* ... a process that is killed, ...                                        *)
LEMMA CrashRow ==
  ASSUME TypeInv, NEW p \in Proc, Crash(p)
  PROVE  Row(p)
  <1>1. Moves(p, {"idle"})
    BY ReturnMoves DEF Crash
  <1>2. crashes' # 0
    BY DEF Crash, TypeInv
  <1> QED BY <1>1, <1>2 DEF Crash, At, files, Row, Dies, Same, FilesSame

(* ... one that reads the state for an update, ...                          *)
LEMMA FetchRow ==
  ASSUME TypeInv, NEW p \in Proc, Fetch(p)
  PROVE  Row(p)
  <1>1. /\ pt[p] \in UpdateAt /\ pt' = pt /\ op' = op /\ copy' = copy
        /\ base' = [base EXCEPT ![p] = state] /\ fetched' = fetched \cup {p}
        /\ Same
    BY DEF Fetch, quiet, files, Same, FilesSame
  <1>2. Moves(p, {pt[p]}) /\ Keeps(p)
    BY <1>1 DEF TypeInv, Moves, Elsewhere, Keeps, Same
  <1> QED BY <1>1, <1>2 DEF Row, Fetches

(* ... and the invocation.                                                  *)
LEMMA InvocationRow ==
  ASSUME TypeInv, InvocationStep
  PROVE  Row(Invocation)
  <1> DEFINE p == Invocation
             j == op[p].job
  <1>p. p \in Proc
    BY DEF Proc
  <1>1. CASE Invoke
    <2>1. Moves(p, {"loop"})
      BY <1>1, <1>p, GoToMoves DEF Invoke, Point
    <2> QED BY <1>1, <2>1 DEF Invoke, At, files, started, Row, Starts, Moves, Same,
                              FilesSame
  <1>2. CASE LoopStop
    <2>1. Moves(p, {"idle"})
      BY <1>2, <1>p, ReturnMoves DEF LoopStop
    <2> QED BY <1>2, <2>1 DEF LoopStop, At, files, quiet, Row, Ends, Ended, Moves,
                              Same, FilesSame
  <1>3. ASSUME NEW k \in Jobs, GateAlreadyOpen(k)
        PROVE  Row(p)
    <2>1. Moves(p, {"settled"})
      BY <1>3, <1>p, GoToMoves DEF GateAlreadyOpen, Point
    <2> QED BY <1>3, <2>1 DEF GateAlreadyOpen, Chosen, At, files, quiet, Row, Ends,
                              Ended, Moves, Same, FilesSame
  <1>4. ASSUME NEW k \in Jobs, GateRead(k)
        PROVE  Row(p)
    <2>1. Moves(p, {"enter"}) /\ op'[p].job = k
      BY <1>p, <1>4, ReadForMoves DEF GateRead, Point, JobPoint, ArgumentTo
    <2>2. Takes(p, k)
      BY <1>4, <2>1 DEF GateRead, Chosen, AtGate, At, files, quiet, Takes, Live, Same,
                        FilesSame
    <2> QED BY <2>2 DEF Row
  <1>5. ASSUME NEW k \in Jobs, WorkRead(k)
        PROVE  Row(p)
    <2>1. Moves(p, {"start"}) /\ copy'[p] = state /\ op'[p].job = k
      BY <1>p, <1>5, ReadForMoves DEF WorkRead, Point, JobPoint, ArgumentTo
    <2>2. /\ pt[p] = "loop" /\ Same
          /\ state.job[k].status \in Live
          /\ ~AtGate(k, state.job[k])
      BY <1>5 DEF WorkRead, Chosen, At, files, quiet, Same, FilesSame, Live
    <2>3. state.job[k] \in GateRecord
      BY GateParts DEF TypeInv
    <2>4. k \in Gated => state.job[k].step > 1
      BY <2>2, <2>3, AttemptInRange DEF AtGate
    <2>5. Chooses(p, k)
      BY <2>1, <2>2, <2>4 DEF Chooses
    <2> QED BY <2>5 DEF Row
  <1>6. CASE GateEnter
    <2>1. Moves(p, {"settled"})
      BY <1>6, <1>p, GoToMoves DEF GateEnter, Point
    <2>2. /\ pt[p] = "enter" /\ FilesSame /\ j \in Jobs /\ p \in fetched
          /\ rewound' = rewound
          /\ ~overtaken' => ~overtaken /\ state = base[p]
      BY <1>6, <1>p DEF GateEnter, Update, At, files, rest, FilesSame, TypeInv, JobPoint
    <2>3. Opens(p, j)
      BY <1>6, <1>p, <2>1, <2>2, OpenEffect DEF Opens, Updates, Writes
    <2> QED BY <2>2, <2>3 DEF Row
  <1>10. CASE WorkStart
    <2>1. Moves(p, {"work"}) /\ Keeps(p)
      BY <1>p, <1>10, GoToMoves DEF WorkStart, Point, JobPoint
    <2>2. /\ pt[p] = "start" /\ FilesSame /\ j \in Jobs /\ p \in fetched
          /\ rewound' = rewound
          /\ ~overtaken' => ~overtaken /\ state = base[p]
      BY <1>10, <1>p DEF WorkStart, Update, At, files, rest, FilesSame, TypeInv, JobPoint
    <2> DEFINE rec == base[p].job[j]
    <2>3. /\ state' \in GatedState /\ state'.run = base[p].run
          /\ KeptBut(base[p], j)
          /\ state'.job[j].gate = rec.gate
          /\ state'.job[j].attempt = AttemptOf(rec)
          /\ state'.job[j].step = StepIndex(rec)
      BY <1>10, <1>p, WorkEffect
    <2>4. rec \in GateRecord
      BY <1>p, <2>2, GateParts DEF TypeInv
    <2> HIDE DEF rec
    <2>5. /\ StepIndex(rec) > 1 <=> rec.step > 1
          /\ AttemptOf(rec) \in Nat \ {0}
      BY <2>4, AttemptInRange DEF Attempt
    <2>6. AttemptOf(state'.job[j]) = AttemptOf(rec)
      <3>1. AttemptOf(state'.job[j]) = state'.job[j].attempt
        BY <2>3, <2>5 DEF AttemptOf
      <3> QED BY <2>3, <3>1
    <2>7. /\ Rewrites(base[p], j) /\ NotPausing(base[p])
          /\ rec.step > 1 => state'.job[j].step > 1
      <3> USE DEF rec
      <3> QED BY <2>3, <2>5, <2>6 DEF Rewrites, NotPausing
    <2>8. Works(p, j)
      BY <2>1, <2>2, <2>3, <2>7 DEF Works, Updates, Writes, rec
    <2> QED BY <2>2, <2>8 DEF Row
  <1>7. CASE WorkSucceed
    <2>1. Moves(p, {"advRead"}) /\ Keeps(p)
      BY <1>7, <1>p, GoToMoves DEF WorkSucceed, Point, JobPoint
    <2> QED BY <1>7, <2>1 DEF WorkSucceed, At, files, quiet, Row, Goes, Same, FilesSame
  <1>8. CASE WorkFail
    <2>1. Moves(p, {"settled"})
      BY <1>8, <1>p, GoToMoves DEF WorkFail, Point
    <2>2. /\ pt[p] = "work" /\ FilesSame /\ j \in Jobs /\ p \in fetched
          /\ rewound' = rewound
          /\ ~overtaken' => ~overtaken /\ state = base[p]
      BY <1>8, <1>p DEF WorkFail, Update, At, files, rest, FilesSame, TypeInv, JobPoint
    <2>3. /\ state' \in GatedState /\ NotPausing(base[p])
          /\ Rewrites(base[p], j) /\ Settles(j)
      BY <1>8, <1>p, FailEffect DEF NotPausing, Rewrites, Marked, Settles, AttemptOf
    <2>4. Fails(p, j)
      BY <2>1, <2>2, <2>3 DEF Fails, Updates, Writes
    <2> QED BY <2>2, <2>4 DEF Row
  <1>9. CASE BatchSettled
    <2>1. Moves(p, {"idle", "loop"})
      <3>1. CASE Awaiting(state) # {}
        <4>1. Moves(p, {"idle"})
          BY <1>9, <1>p, <3>1, ReturnMoves DEF BatchSettled
        <4> QED BY <4>1 DEF Moves
      <3>2. CASE Awaiting(state) = {}
        <4>1. /\ pt' = [pt EXCEPT ![p] = "loop"] /\ op' = [op EXCEPT ![p] = NoOp]
              /\ copy' = [copy EXCEPT ![p] = InitState] /\ Drop(p)
          BY <1>9, <3>2 DEF BatchSettled
        <4>2. NoOp \in Argument /\ InitState \in GatedState
          BY InitStateGated DEF NoOp, Argument, ArgumentTo
        <4> QED BY <1>p, <4>1, <4>2 DEF Drop, TypeInv, Moves, Elsewhere, Point
      <3> QED BY <3>1, <3>2
    <2> QED BY <1>9, <2>1 DEF BatchSettled, At, files, quiet, Row, Ends, Ended, Moves,
                              Same, FilesSame
  <1> QED BY <1>1, <1>2, <1>3, <1>4, <1>5, <1>6, <1>7, <1>8, <1>9,
             <1>10 DEF InvocationStep

(* Every step is a row.                                                     *)
LEMMA RowStep ==
  ASSUME TypeInv, NEW p \in Proc, ProcStep(p)
  PROVE  Row(p)
  BY CommandRow, AdvanceRow, FetchRow, CrashRow, InvocationRow DEF ProcStep

(* Every step writes the history variables as History says.                 *)
LEMMA HistoryStep ==
  ASSUME TypeInv, NEW p \in Proc, ProcStep(p)
  PROVE  History(p)
  <1> USE DEF History, TypeInv, JobPoint
  <1>1. ASSUME Command(p)
        PROVE  History(p)
    <2> USE DEF Enter, NoteOverlap, At, quiet, rest, started, files, WriteBack,
                Update, UpdateJob
    <2>1. CASE AbortRead(p) \/ ResetRead(p)
      <3>1. /\ pt[p] = "idle" /\ commands' = commands + 1
            /\ overlapped' = (overlapped \/ \E q \in Proc \ {p} : pt[q] # "idle")
            /\ jobLog' = jobLog /\ overtaken' = overtaken /\ rewound' = rewound
            /\ crashes' = crashes
        BY <2>1 DEF AbortRead, ResetRead
      <3> QED BY <3>1
    <2>8. ASSUME NEW j \in Jobs, ForceMark(p, j) \/ RetryRead(p, j) \/ DecideRead(p, j)
          PROVE  History(p)
      <3>1. /\ pt[p] = "idle" /\ commands' = commands + 1
            /\ overlapped' = (overlapped \/ \E q \in Proc \ {p} : pt[q] # "idle")
            /\ jobLog' = jobLog /\ overtaken' = overtaken /\ rewound' = rewound
            /\ crashes' = crashes
        BY <2>8 DEF ForceMark, RetryRead, DecideRead
      <3> QED BY <3>1
    <2>7. CASE ForceStatus(p)
      <3>1. op[p].job \in Jobs
        BY <2>7 DEF ForceStatus
      <3>2. rewound' \subseteq Jobs
        BY <2>7, <3>1 DEF ForceStatus
      <3> QED BY <2>7, <3>2 DEF ForceStatus
    <2>2. CASE \E j \in Jobs : ForceLog(p, j)
      BY <2>2 DEF ForceLog
    <2>3. CASE AbortWrite(p) \/ ForceComplete(p) \/ ForcePropagate(p)
      BY <2>3 DEF AbortWrite, ForceComplete, ForcePropagate
    <2>4. CASE ResetWrite(p)
      <3>1. ResetJobs(copy[p]) \subseteq Jobs
        BY DEF ResetJobs
      <3> QED BY <2>4, <3>1 DEF ResetWrite
    <2>5. CASE RetryExceeded(p) \/ RetryWrite(p)
      BY <2>5 DEF RetryExceeded, RetryWrite
    <2>6. CASE DecideAgain(p) \/ DecideFirst(p) \/ DecideRecord(p) \/ DecideLog(p)
               \/ DecideApply(p)
      BY <2>6 DEF DecideAgain, DecideFirst, DecideRecord, DecideLog, DecideApply
    <2> QED BY <1>1, <2>1, <2>2, <2>3, <2>4, <2>5, <2>6, <2>7, <2>8 DEF Command
  <1>2. ASSUME Advance(p)
        PROVE  History(p)
    BY <1>2 DEF Advance, At, quiet, rest, AdvanceLive, AdvanceRead, AdvanceNothing,
         AdvanceStep, AppendJobCompleted, CommitJobCompleted, WriteBack, Update, files
  <1>3. ASSUME Crash(p)
        PROVE  History(p)
    BY <1>3 DEF Crash, At, files
  <1>4. ASSUME p = Invocation, InvocationStep
        PROVE  History(p)
    BY <1>4 DEF InvocationStep, At, quiet, rest, started, NoteOverlap, Chosen, Update,
         Invoke, LoopStop, GateAlreadyOpen, GateRead, WorkRead, GateEnter, WorkStart,
         WorkSucceed, WorkFail, BatchSettled, files
  <1>5. ASSUME Fetch(p)
        PROVE  History(p)
    BY <1>5 DEF Fetch, quiet, files, UpdateAt
  <1> QED BY <1>1, <1>2, <1>3, <1>4, <1>5 DEF ProcStep

(* A process at a point where it works on a job has one.                    *)
LEMMA Arguments ==
  ASSUME TypeInv, NEW p \in Proc, Row(p)
  PROVE  /\ pt'[p] \in JobPoint => op'[p].job \in Jobs
         /\ pt'[p] \in DecidePoint => op'[p].to \in Verdict
         /\ pt'[p] = "mark" => op'[p].to \in {"waiting", "failed", "blocked"}
         /\ pt'[p] = "start" => copy'[p].job[op'[p].job].status \in Live
  <1> USE DEF JobPoint, DecidePoint, Moves, Keeps
  <1>1. CASE Starts(p)
    BY <1>1 DEF Starts
  <1>2. CASE Ends(p) \/ Dies(p) \/ Passes(p) \/ Aborts(p) \/ Propagates(p) \/ Resets(p)
    BY <1>2 DEF Ends, Ended, Dies, Passes, Aborts, Propagates, Resets, Updates, Writes
  <1>3. CASE Goes(p) \/ Fetches(p) \/ Reads(p) \/ Records(p) \/ Logs(p)
    BY <1>3 DEF Goes, Fetches, Reads, Records, Logs, TypeInv
  <1>4. CASE \E j \in Jobs : Takes(p, j) \/ Chooses(p, j)
    BY <1>4 DEF Takes, Chooses
  <1>5. CASE LET j == op[p].job
             IN  /\ j \in Jobs
                 /\ \/ Forces(p, j) \/ Completes(p, j) \/ Renews(p, j) \/ Decides(p, j)
                    \/ Steps1(p, j) \/ Commits(p, j) \/ Opens(p, j) \/ Works(p, j)
                    \/ Fails(p, j)
    BY <1>5 DEF Forces, Completes, Renews, Decides, Steps1, Commits, Opens, Works,
                Fails, Updates, Writes, TypeInv
  <1> QED BY <1>1, <1>2, <1>3, <1>4, <1>5 DEF Row

(* The decision of a process is about an attempt of a job.                  *)
LEMMA Decision ==
  ASSUME TypeInv, NEW p \in Proc, pt[p] \in DecidePoint
  PROVE  op[p].job \in Jobs /\ op[p].to \in Verdict /\ AttemptRead(p) \in Attempt
  <1>1. op[p].job \in Jobs /\ op[p].to \in Verdict
    BY DEF TypeInv, JobPoint
  <1>2. copy[p].job[op[p].job] \in GateRecord
    BY <1>1, GateParts DEF TypeInv
  <1> QED BY <1>1, <1>2, AttemptInRange DEF AttemptRead

(* What a row writes has its type.                                          *)
LEMMA RowTypes ==
  ASSUME TypeInv, NEW p \in Proc, Row(p)
  PROVE  /\ Moves(p, Point)
         /\ state' \in GatedState
         /\ file' \in [Jobs -> [Attempt -> Verdict \cup {"none"}]]
         /\ decided' \in [Jobs -> [Attempt -> [Verdict -> Nat]]]
         /\ \A j \in Jobs, n \in Attempt, v \in Verdict :
              decided[j][n][v] > 0 => decided'[j][n][v] > 0
         /\ rewound \subseteq rewound'
  <1> USE DEF Moves
  <1>1. CASE Records(p)
    <2>1. op[p].job \in Jobs /\ op[p].to \in Verdict /\ AttemptRead(p) \in Attempt
      BY <1>1, Decision DEF Records, DecidePoint
    <2> QED BY <1>1, <2>1 DEF Records, TypeInv
  <1>2. CASE Logs(p)
    <2> DEFINE j == op[p].job
               n == AttemptRead(p)
               v == op[p].to
    <2>1. j \in Jobs /\ v \in Verdict /\ n \in Attempt
      BY <1>2, Decision DEF Logs, DecidePoint
    <2>2. /\ decided' = [decided EXCEPT ![j][n][v] = @ + 1]
          /\ decided \in [Jobs -> [Attempt -> [Verdict -> Nat]]]
      BY <1>2 DEF Logs, TypeInv
    <2> HIDE DEF j, n, v
    <2>3. /\ decided' \in [Jobs -> [Attempt -> [Verdict -> Nat]]]
          /\ \A k \in Jobs, m \in Attempt, u \in Verdict :
               decided[k][m][u] > 0 => decided'[k][m][u] > 0
      BY <2>1, <2>2
    <2> QED BY <1>2, <2>3 DEF Logs, TypeInv
  <1>3. CASE \/ Starts(p) \/ Ends(p) \/ Dies(p) \/ Passes(p) \/ Goes(p)
             \/ Fetches(p) \/ Reads(p)
             \/ \E j \in Jobs : Takes(p, j) \/ Chooses(p, j)
    <2>1. Same /\ Moves(p, Point)
      BY <1>3 DEF Starts, Ends, Dies, Passes, Goes, Fetches, Reads, Takes, Chooses,
                  Point, TypeInv
    <2> QED BY <2>1 DEF Same, FilesSame, TypeInv
  <1>4. CASE Aborts(p) \/ Propagates(p) \/ Resets(p)
    <2>1. /\ FilesSame /\ Moves(p, Point) /\ state' \in GatedState
          /\ rewound \subseteq rewound'
      BY <1>4 DEF Aborts, Propagates, Resets, Updates, Writes, Point
    <2> QED BY <2>1 DEF FilesSame, TypeInv
  <1>5. CASE LET j == op[p].job
             IN  /\ j \in Jobs
                 /\ \/ Forces(p, j) \/ Completes(p, j) \/ Renews(p, j) \/ Decides(p, j)
                    \/ Steps1(p, j) \/ Commits(p, j) \/ Opens(p, j) \/ Works(p, j)
                    \/ Fails(p, j)
    <2>1. /\ FilesSame /\ Moves(p, Point) /\ state' \in GatedState
          /\ rewound \subseteq rewound'
      BY <1>5 DEF Forces, Completes, Renews, Decides, Steps1, Commits, Opens, Works,
                  Fails, Updates, Writes, Point
    <2> QED BY <2>1 DEF FilesSame, TypeInv
  <1> QED BY <1>1, <1>2, <1>3, <1>4, <1>5 DEF Row

(* The types hold at the start.                                             *)
LEMMA TypeInit == Init => TypeInv
  <1> SUFFICES ASSUME Init PROVE TypeInv
    OBVIOUS
  <1>1. NoOp \in Argument /\ InitState \in GatedState
    BY InitStateGated DEF NoOp, Argument, ArgumentTo
  <1> QED BY <1>1 DEF Init, TypeInv, Point, JobPoint, DecidePoint, Verdict

(* Every step keeps the types.                                              *)
LEMMA TypeStep ==
  ASSUME TypeInv, NEW p \in Proc, ProcStep(p)
  PROVE  TypeInv'
  <1>1. Row(p) /\ History(p)
    BY RowStep, HistoryStep
  <1>2. /\ Moves(p, Point)
        /\ state' \in GatedState
        /\ file' \in [Jobs -> [Attempt -> Verdict \cup {"none"}]]
        /\ decided' \in [Jobs -> [Attempt -> [Verdict -> Nat]]]
    BY <1>1, RowTypes
  <1>3. /\ pt'[p] \in JobPoint => op'[p].job \in Jobs
        /\ pt'[p] \in DecidePoint => op'[p].to \in Verdict
        /\ pt'[p] = "mark" => op'[p].to \in {"waiting", "failed", "blocked"}
        /\ pt'[p] = "start" => copy'[p].job[op'[p].job].status \in Live
    BY <1>1, Arguments
  <1>4. \A q \in Proc :
          /\ pt'[q] \in JobPoint => op'[q].job \in Jobs
          /\ pt'[q] \in DecidePoint => op'[q].to \in Verdict
          /\ pt'[q] = "mark" => op'[q].to \in {"waiting", "failed", "blocked"}
          /\ pt'[q] = "start" => copy'[q].job[op'[q].job].status \in Live
    <2>1. ASSUME NEW q \in Proc \ {p}
          PROVE  pt'[q] = pt[q] /\ op'[q] = op[q] /\ copy'[q] = copy[q]
      BY <1>2 DEF Moves, Elsewhere
    <2>2. ASSUME NEW q \in Proc \ {p}
          PROVE  /\ pt[q] \in JobPoint => op[q].job \in Jobs
                 /\ pt[q] \in DecidePoint => op[q].to \in Verdict
                 /\ pt[q] = "mark" => op[q].to \in {"waiting", "failed", "blocked"}
                 /\ pt[q] = "start" => copy[q].job[op[q].job].status \in Live
      BY DEF TypeInv
    <2> QED BY <1>3, <2>1, <2>2
  <1>5. \A q \in fetched' : pt'[q] \in UpdateAt
    BY <1>2 DEF Moves, Elsewhere, TypeInv
  <1> QED BY <1>1, <1>2, <1>4, <1>5 DEF TypeInv, History, Moves

(* Every variable keeps its type, whatever commands are given and whatever  *)
(* is killed.                                                               *)
THEOREM OperatorsTypes == Spec => []TypeInv
  <1>1. TypeInv /\ [Next]_vars => TypeInv'
    <2>1. CASE Next
      BY <2>1, SomeProcess, TypeStep
    <2>2. CASE UNCHANGED vars
      BY <2>2 DEF vars, TypeInv
    <2> QED BY <2>1, <2>2
  <1> QED BY <1>1, TypeInit, PTL DEF Spec

(* ----------------------------- paused is awaiting ------------------------*)

(* No row pauses the run without an open gate, or closes the gate of a      *)
(* paused run without letting it go on, unless it has been overtaken.       *)
LEMMA PausedStep ==
  ASSUME TypeInv, NEW p \in Proc, Row(p), PausedIsAwaiting
  PROVE  PausedIsAwaiting'
  <1> SUFFICES ASSUME ~overtaken'
               PROVE  PausedIsAwaiting'
    BY DEF PausedIsAwaiting
  <1> USE DEF PausedIsAwaiting, Awaiting
  <1>0. ASSUME ~overtaken,
               state'.run = "paused" => state.run = "paused",
               \A k \in Jobs : state'.job[k].gate = state.job[k].gate
        PROVE  PausedIsAwaiting'
    BY <1>0
  <1>u. ASSUME NEW from, NEW points, Updates(p, from, points)
        PROVE  ~overtaken /\ base[p] = state
    BY <1>u DEF Updates
  <1>1. CASE \/ Starts(p) \/ Ends(p) \/ Dies(p) \/ Passes(p) \/ Goes(p)
             \/ Fetches(p) \/ Reads(p)
             \/ \E j \in Jobs : Takes(p, j) \/ Chooses(p, j)
    <2>1. Same
      BY <1>1 DEF Starts, Ends, Dies, Passes, Goes, Fetches, Reads, Takes, Chooses
    <2> QED BY <1>0, <2>1 DEF Same
  <1>2. CASE Records(p) \/ Logs(p)
    BY <1>0, <1>2 DEF Records, Logs
  <1>3. CASE Aborts(p)
    BY <1>3 DEF Aborts
  <1>4. CASE Propagates(p) \/ Resets(p)
    <2>1. ~overtaken /\ base[p] = state
      BY <1>4, <1>u DEF Propagates, Resets
    <2>2. /\ NotPausing(state)
          /\ \A k \in Jobs : state'.job[k].gate = state.job[k].gate
      BY <1>4, <2>1 DEF Propagates, Resets, Kept
    <2> QED BY <1>0, <2>1, <2>2 DEF NotPausing
  <1>5. ASSUME NEW j \in Jobs,
               \/ Forces(p, j) \/ Works(p, j)
               \/ Completes(p, j) \/ Commits(p, j) \/ Fails(p, j)
        PROVE  PausedIsAwaiting'
    <2>1. ~overtaken /\ base[p] = state
      BY <1>5, <1>u DEF Forces, Works, Completes, Commits, Fails
    <2>2. NotPausing(state) /\ Rewrites(state, j)
      BY <1>5, <2>1 DEF Forces, Works, Completes, Commits, Fails
    <2>3. \A k \in Jobs : state'.job[k].gate = state.job[k].gate
      BY <2>2 DEF Rewrites, KeptBut, Kept
    <2> QED BY <1>0, <2>1, <2>2, <2>3 DEF NotPausing
  <1>6. ASSUME NEW j \in Jobs, Renews(p, j)
        PROVE  PausedIsAwaiting'
    <2>1. ~overtaken /\ base[p] = state
      BY <1>6, <1>u DEF Renews
    <2>2. NotPausing(state) /\ KeptBut(state, j) /\ state'.job[j].gate = state.job[j].gate
      BY <1>6, <2>1 DEF Renews
    <2>3. \A k \in Jobs : state'.job[k].gate = state.job[k].gate
      BY <2>2 DEF KeptBut, Kept
    <2> QED BY <1>0, <2>1, <2>2, <2>3 DEF NotPausing
  <1>7. ASSUME NEW j \in Jobs, Decides(p, j)
        PROVE  PausedIsAwaiting'
    BY <1>7 DEF Decides
  <1>8. ASSUME NEW j \in Jobs, Steps1(p, j)
        PROVE  PausedIsAwaiting'
    <2>1. ~overtaken /\ state = copy[p]
      BY <1>8 DEF Steps1
    <2>2. state'.run = state.run
      BY <1>8, <2>1 DEF Steps1
    <2>3. \A k \in Jobs : state'.job[k].gate = state.job[k].gate
      BY <1>8, <2>1 DEF Steps1
    <2> QED BY <1>0, <2>1, <2>2, <2>3
  <1>9. ASSUME NEW j \in Jobs, Opens(p, j)
        PROVE  PausedIsAwaiting'
    BY <1>9 DEF Opens
  <1> QED BY <1>1, <1>2, <1>3, <1>4, <1>5, <1>6, <1>7, <1>8, <1>9 DEF Row

(* A run that says it is paused has an open gate, unless a copy, or what an *)
(* updateState made of the state it read, was written over a newer state.   *)
THEOREM PausedAwaits == Spec => []PausedIsAwaiting
  <1>1. Init => PausedIsAwaiting
    BY DEF Init, InitState, PausedIsAwaiting
  <1>2. TypeInv /\ PausedIsAwaiting /\ [Next]_vars => PausedIsAwaiting'
    <2>1. ASSUME TypeInv, PausedIsAwaiting, Next
          PROVE  PausedIsAwaiting'
      BY <2>1, SomeProcess, RowStep, PausedStep
    <2>2. ASSUME PausedIsAwaiting, UNCHANGED vars
          PROVE  PausedIsAwaiting'
      BY <2>2 DEF vars, PausedIsAwaiting, Awaiting
    <2> QED BY <2>1, <2>2
  <1> QED BY <1>1, <1>2, OperatorsTypes, PTL DEF Spec

(* ------------------------------ one at a time ----------------------------*)

(* Until two processes overlap there is one at work, ...                    *)
Serial ==
  ~overlapped => \A p, q \in Proc : pt[p] # "idle" /\ pt[q] # "idle" => p = q

FreshAt == {"abort", "reset", "retry", "check", "record", "log", "apply",
            "advance", "commit", "start"}

(* ... and the copy it will act on is the state, and so is what it has read *)
(* for an update.                                                           *)
Fresh ==
  ~overlapped => \A p \in Proc :
    /\ pt[p] \in FreshAt => copy[p] = state
    /\ p \in fetched => base[p] = state

(* As long as no two operations have overlapped, one process at a time is   *)
(* away from idle.                                                          *)
LEMMA SerialStep ==
  ASSUME TypeInv, NEW p \in Proc, Row(p), History(p), Serial, Fresh
  PROVE  /\ Serial' /\ Fresh'
         /\ ~overlapped' => ~overlapped
         /\ ~overlapped' => \A q \in Proc \ {p} : pt'[q] = "idle" /\ pt[q] = "idle"
  <1>1. ~overlapped' => ~overlapped
    BY DEF History
  <1>m. Moves(p, Point)
    BY RowTypes
  <1>2. ~overlapped' => \A q \in Proc \ {p} : pt'[q] = "idle" /\ pt[q] = "idle"
    BY <1>1, <1>m DEF History, Moves, Elsewhere, Serial
  <1>3. Serial'
    BY <1>2 DEF Serial
  <1>4. ASSUME pt'[p] \in FreshAt, ~overlapped'
        PROVE  copy'[p] = state'
    <2> USE DEF FreshAt, Moves
    <2>0. pt[p] \in FreshAt => copy[p] = state
      BY <1>1, <1>4 DEF Fresh
    <2>1. CASE Starts(p) \/ Ends(p) \/ Dies(p) \/ Passes(p) \/ Reads(p)
      BY <1>4, <2>1 DEF Starts, Ends, Ended, Dies, Passes, Reads, Same
    <2>2. CASE Goes(p) \/ Fetches(p)
      BY <1>4, <2>0, <2>2 DEF Goes, Fetches, Keeps, Same
    <2>3. CASE Records(p) \/ Logs(p)
      BY <1>4, <2>0, <2>3 DEF Records, Logs, Keeps
    <2>4. CASE Aborts(p) \/ Propagates(p) \/ Resets(p)
      BY <1>4, <2>4 DEF Aborts, Propagates, Resets, Updates, Writes
    <2>5. ASSUME NEW j \in Jobs, Takes(p, j) \/ Chooses(p, j)
          PROVE  copy'[p] = state'
      BY <1>4, <2>5 DEF Takes, Chooses, Same
    <2>6. ASSUME NEW j \in Jobs,
                 \/ Forces(p, j) \/ Works(p, j)
                 \/ Completes(p, j) \/ Renews(p, j) \/ Decides(p, j)
                 \/ Steps1(p, j) \/ Commits(p, j) \/ Opens(p, j) \/ Fails(p, j)
          PROVE  FALSE
      BY <1>4, <2>6 DEF Forces, Works, Completes, Renews, Decides, Steps1,
                        Commits, Opens, Fails, Updates, Writes
    <2> QED BY <2>1, <2>2, <2>3, <2>4, <2>5, <2>6 DEF Row
  <1>5. p \in fetched' => base'[p] = state'
    BY <1>m DEF Moves, Elsewhere
  <1>6. \A q \in Proc \ {p} : pt[q] = "idle" => q \notin fetched
    BY DEF TypeInv, UpdateAt
  <1>7. Fresh'
    <2>1. ASSUME NEW q \in Proc \ {p}, ~overlapped'
          PROVE  pt'[q] = "idle" /\ q \notin fetched'
      BY <1>2, <1>6, <1>m, <2>1 DEF Moves, Elsewhere
    <2> QED BY <1>4, <1>5, <2>1 DEF Fresh, FreshAt
  <1> QED BY <1>1, <1>2, <1>3, <1>7

(* ---------------------- behind a gate that was approved ------------------*)

Ever(j) == \E n \in Attempt : decided[j][n]["approved"] > 0

ApprovedNow(j) ==
  /\ Ever(j)
  /\ overlapped \/ decided[j][AttemptOf(state.job[j])]["approved"] > 0

AfterGate == {"start", "work", "advRead", "advance", "commit"}

(* A job is past its gate, is being taken past it, or is about to be        *)
(* written back past it, only after an approval; of this attempt, while     *)
(* nothing has overlapped.                                                  *)
Approved ==
  /\ \A j \in Gated : state.job[j].step > 1 => ApprovedNow(j)
  /\ \A p \in Proc : \A j \in Gated :
       copy[p].job[j].step > 1 \/ base[p].job[j].step > 1 => Ever(j)
  /\ \A p \in Proc :
       pt[p] \in AfterGate /\ op[p].job \in Gated => ApprovedNow(op[p].job)
  /\ \A p \in Proc :
       pt[p] = "apply" /\ op[p].to = "approved" => ApprovedNow(op[p].job)

(* An approval is never taken back.                                         *)
LEMMA EverKept ==
  ASSUME TypeInv, NEW p \in Proc, Row(p), NEW j \in Jobs, Ever(j)
  PROVE  Ever(j)'
  BY RowTypes DEF Ever, Verdict

(* A job that has passed its gate stays approved while its attempt lasts.   *)
LEMMA ApprovedKept ==
  ASSUME TypeInv, NEW p \in Proc, Row(p), History(p), NEW j \in Jobs,
         ApprovedNow(j),
         ~overlapped' => AttemptOf(state'.job[j]) = AttemptOf(state.job[j])
  PROVE  ApprovedNow(j)'
  <1>1. Ever(j)'
    BY EverKept DEF ApprovedNow
  <1>2. ASSUME ~overlapped'
        PROVE  decided'[j][AttemptOf(state'.job[j])]["approved"] > 0
    <2>1. state.job[j] \in GateRecord
      BY GateParts DEF TypeInv
    <2>2. AttemptOf(state.job[j]) \in Attempt
      BY <2>1, AttemptInRange
    <2>3. decided[j][AttemptOf(state.job[j])]["approved"] > 0
      BY <1>2 DEF ApprovedNow, History
    <2> QED BY <1>2, <2>2, <2>3, RowTypes DEF Verdict
  <1> QED BY <1>1, <1>2 DEF ApprovedNow

(* What is written to job j, for this proof: what was read for an update,   *)
(* or p's copy.                                                             *)
LEMMA StepWritten ==
  ASSUME TypeInv, NEW p \in Proc, Row(p), NEW j \in Jobs, state'.job[j].step > 1
  PROVE  \/ state'.job[j] = state.job[j]
         \/ /\ p \in fetched
            /\ AttemptOf(state'.job[j]) = AttemptOf(base[p].job[j])
            /\ base[p].job[j].step > 1
         \/ /\ pt[p] \in {"abort", "advance"}
            /\ state'.job[j].attempt = copy[p].job[j].attempt
            /\ \/ copy[p].job[j].step > 1
               \/ pt[p] = "advance" /\ op[p].job = j
  <1> USE DEF AttemptOf
  <1>1. CASE \/ Starts(p) \/ Ends(p) \/ Dies(p) \/ Passes(p) \/ Goes(p)
             \/ Fetches(p) \/ Reads(p)
             \/ \E k \in Jobs : Takes(p, k) \/ Chooses(p, k)
    BY <1>1 DEF Starts, Ends, Dies, Passes, Goes, Fetches, Reads, Takes, Chooses, Same
  <1>2. CASE Records(p) \/ Logs(p)
    BY <1>2 DEF Records, Logs
  <1>3. CASE Aborts(p)
    BY <1>3 DEF Aborts, Writes
  <1>4. CASE Propagates(p) \/ Resets(p)
    BY <1>4 DEF Propagates, Resets, Updates, Kept
  <1>5. ASSUME NEW k \in Jobs,
               \/ Forces(p, k) \/ Works(p, k)
               \/ Completes(p, k) \/ Commits(p, k) \/ Fails(p, k)
        PROVE  /\ p \in fetched
               /\ AttemptOf(state'.job[j]) = AttemptOf(base[p].job[j])
               /\ base[p].job[j].step > 1
    <2>1. Rewrites(base[p], k) /\ p \in fetched
      BY <1>5 DEF Forces, Works, Completes, Commits, Fails, Updates
    <2> QED BY <2>1 DEF Rewrites, KeptBut, Kept
  <1>6. ASSUME NEW k \in Jobs, Renews(p, k)
        PROVE  /\ p \in fetched
               /\ AttemptOf(state'.job[j]) = AttemptOf(base[p].job[j])
               /\ base[p].job[j].step > 1
    BY <1>6 DEF Renews, Updates, KeptBut, Kept
  <1>7. ASSUME NEW k \in Jobs, Decides(p, k) \/ Opens(p, k)
        PROVE  /\ p \in fetched
               /\ AttemptOf(state'.job[j]) = AttemptOf(base[p].job[j])
               /\ base[p].job[j].step > 1
    BY <1>7 DEF Decides, Opens, Updates, KeptBut, Kept
  <1>8. ASSUME Steps1(p, op[p].job)
        PROVE  /\ pt[p] \in {"abort", "advance"}
               /\ state'.job[j].attempt = copy[p].job[j].attempt
               /\ \/ copy[p].job[j].step > 1
                  \/ pt[p] = "advance" /\ op[p].job = j
    BY <1>8 DEF Steps1, Writes
  <1> QED BY <1>1, <1>2, <1>3, <1>4, <1>5, <1>6, <1>7, <1>8 DEF Row

(* No row takes a job behind its gate without the approval of this attempt. *)
LEMMA ApprovedStep ==
  ASSUME TypeInv, NEW p \in Proc, Row(p), History(p), Serial, Fresh, Approved
  PROVE  Approved'
  <1>s. /\ ~overlapped' => ~overlapped
        /\ ~overlapped' => \A q \in Proc \ {p} : pt'[q] = "idle" /\ pt[q] = "idle"
    BY SerialStep
  <1>m. Moves(p, Point)
    BY RowTypes
  <1>g. Gated \subseteq Jobs
    BY OperatorsAssumption
  <1>1. ASSUME NEW j \in Gated, state'.job[j].step > 1
        PROVE  ApprovedNow(j)'
    <2>0. j \in Jobs
      BY <1>g
    <2>1. CASE state'.job[j] = state.job[j]
      BY <1>1, <2>0, <2>1, ApprovedKept DEF Approved
    <2>2. ASSUME NEW b,
                 AttemptOf(state'.job[j]) = AttemptOf(b.job[j]),
                 b.job[j].step > 1, Ever(j), ~overlapped' => b = state
          PROVE  ApprovedNow(j)'
      <3>1. CASE ~overlapped'
        <4>1. ApprovedNow(j)
          BY <2>2, <3>1 DEF Approved
        <4> QED BY <2>0, <2>2, <3>1, <4>1, ApprovedKept
      <3>2. CASE overlapped'
        BY <2>0, <2>2, <3>2, EverKept DEF ApprovedNow
      <3> QED BY <3>1, <3>2
    <2>3. CASE /\ p \in fetched
               /\ AttemptOf(state'.job[j]) = AttemptOf(base[p].job[j])
               /\ base[p].job[j].step > 1
      <3>1. ~overlapped' => base[p] = state
        BY <1>s, <2>3 DEF Fresh
      <3>2. Ever(j)
        BY <2>3 DEF Approved
      <3> QED BY <2>2, <2>3, <3>1, <3>2
    <2>4. CASE /\ pt[p] \in {"abort", "advance"}
               /\ state'.job[j].attempt = copy[p].job[j].attempt
               /\ \/ copy[p].job[j].step > 1
                  \/ pt[p] = "advance" /\ op[p].job = j
      <3>1. ~overlapped' => copy[p] = state
        BY <1>s, <2>4 DEF Fresh, FreshAt
      <3>2. AttemptOf(state'.job[j]) = AttemptOf(copy[p].job[j])
        BY <2>4 DEF AttemptOf
      <3>3. CASE copy[p].job[j].step > 1
        <4>1. Ever(j)
          BY <3>3 DEF Approved
        <4> QED BY <2>2, <3>1, <3>2, <3>3, <4>1
      <3>4. CASE pt[p] = "advance" /\ op[p].job = j
        <4>1. ApprovedNow(j)
          BY <3>4 DEF Approved, AfterGate
        <4>2. ~overlapped' => AttemptOf(state'.job[j]) = AttemptOf(state.job[j])
          BY <3>1, <3>2
        <4> QED BY <2>0, <4>1, <4>2, ApprovedKept
      <3> QED BY <2>4, <3>3, <3>4
    <2> QED BY <1>1, <2>0, <2>1, <2>3, <2>4, StepWritten
  <1>2. ASSUME NEW q \in Proc, NEW j \in Gated,
               copy'[q].job[j].step > 1 \/ base'[q].job[j].step > 1
        PROVE  Ever(j)'
    <2>0. j \in Jobs
      BY <1>g
    <2>1. InitState.job[j].step = 0
      BY <2>0, InitStateGated
    <2>2. /\ copy'[q] \in {copy[q], state, InitState}
          /\ base'[q] \in {base[q], state, InitState}
      BY <1>m DEF Moves, Elsewhere
    <2>3. copy[q].job[j].step > 1 \/ base[q].job[j].step > 1 \/ state.job[j].step > 1
      BY <1>2, <2>1, <2>2
    <2>4. Ever(j)
      BY <2>3 DEF Approved, ApprovedNow
    <2> QED BY <2>0, <2>4, EverKept
  <1>3. ASSUME NEW q \in Proc, NEW j \in Jobs, j = op'[q].job,
               \/ pt'[q] \in AfterGate /\ j \in Gated
               \/ pt'[q] = "apply" /\ op'[q].to = "approved"
        PROVE  ApprovedNow(j)'
    <2> USE DEF AfterGate
    <2>1. CASE q # p
      <3>1. pt'[q] = pt[q] /\ op'[q] = op[q]
        BY <1>m, <2>1 DEF Moves, Elsewhere
      <3>2. ApprovedNow(op[q].job) /\ overlapped'
        BY <1>3, <1>s, <2>1, <3>1 DEF Approved
      <3> QED BY <1>3, <3>1, <3>2, EverKept DEF ApprovedNow
    <2>2. CASE q = p
      <3> USE DEF Moves
      <3>1. ASSUME ApprovedNow(j),
                   ~overlapped' => AttemptOf(state'.job[j]) = AttemptOf(state.job[j])
            PROVE  ApprovedNow(j)'
        BY <3>1, ApprovedKept
      <3>b. p \in fetched /\ ~overlapped' => base[p] = state
        BY <1>s DEF Fresh
      <3>2. CASE Starts(p) \/ Ends(p) \/ Dies(p) \/ Passes(p)
                 \/ \E k \in Jobs : Takes(p, k)
        BY <1>3, <2>2, <3>2 DEF Starts, Ends, Ended, Dies, Passes, Takes
      <3>3. CASE Goes(p) \/ Reads(p)
        <4>1. /\ pt[p] \in {"check", "work", "advRead", "advance"}
              /\ pt'[p] \in {"record", "advRead", "advance", "commit"}
              /\ pt[p] = "check" => pt'[p] = "record"
              /\ op'[p].job = op[p].job /\ state' = state
          BY <3>3 DEF Goes, Reads, Keeps, Same
        <4>2. ApprovedNow(j)
          BY <1>3, <2>2, <4>1 DEF Approved
        <4> QED BY <3>1, <4>1, <4>2
      <3>10. CASE Fetches(p)
        <4>1. pt'[p] = pt[p] /\ op'[p] = op[p] /\ state' = state
          BY <3>10 DEF Fetches, Keeps, Same
        <4>2. ApprovedNow(j)
          BY <1>3, <2>2, <4>1 DEF Approved
        <4> QED BY <3>1, <4>1, <4>2
      <3>11. ASSUME NEW k \in Jobs, Chooses(p, k)
             PROVE  ApprovedNow(j)'
        <4>1. /\ j = k /\ pt'[p] = "start" /\ state' = state
              /\ k \in Gated => state.job[k].step > 1
          BY <1>3, <2>2, <3>11 DEF Chooses, Same
        <4>2. ApprovedNow(j)
          BY <1>3, <2>2, <4>1 DEF Approved
        <4> QED BY <3>1, <4>1, <4>2
      <3>4. CASE Records(p)
        BY <1>3, <2>2, <3>4 DEF Records
      <3>5. CASE Logs(p)
        <4> DEFINE n == AttemptRead(p)
        <4>1. /\ op'[p] = op[p] /\ state' = state /\ pt'[p] = "apply" /\ pt[p] = "log"
              /\ decided' = [decided EXCEPT ![op[p].job][n][op[p].to] = @ + 1]
          BY <3>5 DEF Logs, Keeps
        <4>2. n \in Attempt /\ op[p].to = "approved"
          BY <1>3, <2>2, <4>1, Decision DEF DecidePoint
        <4>3. ~overlapped' => n = AttemptOf(state.job[j])
          BY <1>3, <1>s, <2>2, <4>1 DEF Fresh, FreshAt, AttemptRead
        <4> HIDE DEF n
        <4>4. decided'[j][n]["approved"] > 0
          <5>1. op[p].job = j
            BY <1>3, <2>2, <4>1
          <5>2. decided \in [Jobs -> [Attempt -> [Verdict -> Nat]]]
            BY DEF TypeInv
          <5> QED BY <4>1, <4>2, <5>1, <5>2 DEF Verdict
        <4>5. ApprovedNow(j)'
          BY <4>1, <4>2, <4>3, <4>4 DEF ApprovedNow, Ever
        <4> QED BY <4>5
      <3>6. CASE Aborts(p) \/ Propagates(p) \/ Resets(p)
        BY <1>3, <2>2, <3>6 DEF Aborts, Propagates, Resets, Updates, Writes
      <3>7. ASSUME NEW k \in Jobs, Works(p, k), k = op[p].job
            PROVE  ApprovedNow(j)'
        <4>1. /\ k = j /\ pt[p] = "start" /\ pt'[p] = "work" /\ p \in fetched
              /\ AttemptOf(state'.job[k]) = AttemptOf(base[p].job[k])
          BY <1>3, <2>2, <3>7 DEF Works, Updates, Writes, Keeps, Rewrites
        <4>2. ApprovedNow(j)
          BY <1>3, <2>2, <3>7, <4>1 DEF Approved
        <4> QED BY <3>1, <3>b, <4>1, <4>2
      <3>8. ASSUME NEW k \in Jobs, Decides(p, k), k = op[p].job
            PROVE  ApprovedNow(j)'
        <4>1. /\ pt[p] = "apply" /\ op[p].to = "approved" /\ op'[p] = op[p]
              /\ p \in fetched
              /\ AttemptOf(state'.job[k]) = AttemptOf(base[p].job[k])
          BY <1>3, <2>2, <3>8 DEF Decides, Updates, Writes, Keeps, AttemptOf
        <4>2. ApprovedNow(j) /\ j = k
          BY <1>3, <2>2, <3>8, <4>1 DEF Approved
        <4> QED BY <3>1, <3>b, <4>1, <4>2
      <3>9. ASSUME NEW k \in Jobs,
                   \/ Forces(p, k) \/ Completes(p, k) \/ Renews(p, k)
                   \/ Steps1(p, k) \/ Commits(p, k) \/ Opens(p, k) \/ Fails(p, k)
            PROVE  FALSE
        BY <1>3, <2>2, <3>9 DEF Forces, Completes, Renews, Steps1, Commits, Opens,
                                Fails, Updates, Writes
      <3> QED BY <3>2, <3>3, <3>4, <3>5, <3>6, <3>7, <3>8, <3>9, <3>10, <3>11 DEF Row
    <2> QED BY <2>1, <2>2
  <1>4. \A q \in Proc : pt'[q] \in AfterGate \cup {"apply"} => op'[q].job \in Jobs
    <2>1. ASSUME NEW q \in Proc \ {p}
          PROVE  pt'[q] = pt[q] /\ op'[q] = op[q]
      BY <1>m DEF Moves, Elsewhere
    <2> QED BY <2>1, Arguments DEF TypeInv, JobPoint, DecidePoint, AfterGate
  <1>5. /\ \A q \in Proc :
             pt'[q] \in AfterGate /\ op'[q].job \in Gated => ApprovedNow(op[q].job)'
        /\ \A q \in Proc :
             pt'[q] = "apply" /\ op'[q].to = "approved" => ApprovedNow(op[q].job)'
    BY <1>3, <1>4 DEF ApprovedNow, Ever
  <1> QED BY <1>1, <1>2, <1>5 DEF Approved, AfterGate

(* Nobody has begun at the start.                                           *)
LEMMA OneAtATimeInit == Init => Serial /\ Fresh
  BY DEF Init, Serial, Fresh, FreshAt

(* Stuttering changes nothing of it.                                        *)
LEMMA HistoryFrame ==
  ASSUME Serial, Fresh, UNCHANGED vars
  PROVE  Serial' /\ Fresh'
  BY DEF vars, Serial, Fresh, FreshAt

(* So it holds throughout.                                                  *)
LEMMA OneAtATime == Spec => [](Serial /\ Fresh)
  <1>1. TypeInv /\ Serial /\ Fresh /\ [Next]_vars => (Serial /\ Fresh)'
    <2>1. ASSUME TypeInv, Serial, Fresh, Next
          PROVE  (Serial /\ Fresh)'
      <3>1. PICK p \in Proc : ProcStep(p)
        BY <2>1, SomeProcess
      <3>2. Row(p) /\ History(p)
        BY <2>1, <3>1, RowStep, HistoryStep
      <3> QED BY <2>1, <3>2, SerialStep
    <2> QED BY <2>1, HistoryFrame
  <1> QED BY <1>1, OneAtATimeInit, OperatorsTypes, PTL DEF Spec

(* So no job is ever behind its gate without an approval.                   *)
LEMMA ApprovedAlways == Spec => []Approved
  <1>1. Init => Approved
    <2> SUFFICES ASSUME Init PROVE Approved
      OBVIOUS
    <2>1. \A j \in Gated : j \in Jobs /\ InitState.job[j].step = 0
      BY InitStateGated, OperatorsAssumption
    <2> QED BY <2>1 DEF Init, Approved, AfterGate
  <1>2. TypeInv /\ Serial /\ Fresh /\ Approved /\ [Next]_vars => Approved'
    <2>1. ASSUME TypeInv, Serial, Fresh, Approved, Next
          PROVE  Approved'
      <3>1. PICK p \in Proc : ProcStep(p)
        BY <2>1, SomeProcess
      <3>2. Row(p) /\ History(p)
        BY <2>1, <3>1, RowStep, HistoryStep
      <3> QED BY <2>1, <3>2, ApprovedStep
    <2>2. ASSUME Approved, UNCHANGED vars
          PROVE  Approved'
      BY <2>2 DEF vars, Approved, ApprovedNow, Ever
    <2> QED BY <2>1, <2>2
  <1> QED BY <1>1, <1>2, OneAtATime, OperatorsTypes, PTL DEF Spec

(* No retry, reset, override, stale copy or crash carries a job past a gate *)
(* that nobody approved; with one process at a time, that nobody approved   *)
(* in this attempt.                                                         *)
THEOREM GateHolds == Spec => []BehindGateApproved
  <1>1. TypeInv /\ Approved => BehindGateApproved
    <2> SUFFICES ASSUME TypeInv, Approved, NEW j \in Gated, state.job[j].step > 1
                 PROVE  \E n \in Attempt :
                          /\ decided[j][n]["approved"] > 0
                          /\ overlapped \/ n = AttemptOf(state.job[j])
      BY DEF BehindGateApproved
    <2>1. state.job[j] \in GateRecord
      BY GateParts, OperatorsAssumption DEF TypeInv
    <2>2. AttemptOf(state.job[j]) \in Attempt
      BY <2>1, AttemptInRange
    <2>3. ApprovedNow(j)
      BY DEF Approved
    <2> QED BY <2>2, <2>3 DEF ApprovedNow, Ever
  <1> QED BY <1>1, ApprovedAlways, OperatorsTypes, PTL

(* --------------------------- an undecided open gate ----------------------*)

(* The process that has written the decision on j and not applied it, ...   *)
Writing(p, j) == op[p].job = j /\ pt[p] \in {"log", "apply"}

(* ... and the one that takes j on after its approval.                      *)
Taking(p, j) ==
  op[p].job = j /\ op[p].to = "approved" /\ pt[p] \in {"advRead", "advance", "commit"}

(* The job has left the gate of this attempt behind.                        *)
Past(rec) == rec.status \in {"completed", "failed", "blocked"} \/ rec.step > 1

NoneAhead(j) ==
  \A n \in Attempt : n > AttemptOf(state.job[j]) => file[j][n] = "none"

DecidedIsPast(j) ==
  file[j][AttemptOf(state.job[j])] # "none" =>
    \/ \E p \in Proc : Writing(p, j)
    \/ /\ ~state.job[j].gate
       /\ Past(state.job[j]) \/ \E p \in Proc : Taking(p, j)

(* While nothing overlaps and nothing is killed: no decision is on file for *)
(* an attempt to come; one that is on file for this attempt is being        *)
(* applied, or the job is past its gate, or is being taken past it; and a   *)
(* gate that is about to open is undecided.                                 *)
Undecided ==
  crashes = 0 /\ ~overlapped =>
    /\ \A j \in Jobs \ rewound : NoneAhead(j) /\ DecidedIsPast(j)
    /\ \A p \in Proc :
         pt[p] = "enter" /\ op[p].job \notin rewound
           => file[op[p].job][AttemptOf(state.job[op[p].job])] = "none"

(* Kept by a step of p that leaves the file, the attempt and the gate of j  *)
(* alone, and does not abandon j between its decision and what follows.     *)
LEMMA DecisionKept ==
  ASSUME TypeInv, NEW p \in Proc, Row(p), NEW j \in Jobs,
         NoneAhead(j), DecidedIsPast(j),
         file'[j] = file[j],
         AttemptOf(state'.job[j]) = AttemptOf(state.job[j]),
         state'.job[j].gate = state.job[j].gate,
         Past(state.job[j]) => Past(state'.job[j]),
         Writing(p, j) => Writing(p, j)',
         Taking(p, j) /\ ~state.job[j].gate => Past(state'.job[j]) \/ Taking(p, j)'
  PROVE  NoneAhead(j)' /\ DecidedIsPast(j)'
  <1>1. NoneAhead(j)'
    BY DEF NoneAhead
  <1>2. \A q \in Proc \ {p} : /\ Writing(q, j) => Writing(q, j)'
                              /\ Taking(q, j) => Taking(q, j)'
    BY RowTypes DEF Moves, Elsewhere, Writing, Taking
  <1>3. DecidedIsPast(j)'
    BY <1>2 DEF DecidedIsPast
  <1> QED BY <1>1, <1>3

(* A job whose record is kept stays where it is.                            *)
LEMMA KeptPast ==
  ASSUME NEW j \in Jobs, Kept(state, j)
  PROVE  /\ AttemptOf(state'.job[j]) = AttemptOf(state.job[j])
         /\ state'.job[j].gate = state.job[j].gate
         /\ Past(state.job[j]) => Past(state'.job[j])
  BY DEF Kept, Past, AttemptOf

(* The steps that touch no decision on file.                                *)
LEMMA UndecidedRow ==
  ASSUME TypeInv, NEW p \in Proc, Row(p), NEW j \in Jobs \ rewound',
         crashes' = 0,
         NoneAhead(j), DecidedIsPast(j),
         pt[p] \in FreshAt => copy[p] = state,
         p \in fetched => base[p] = state,
         pt[p] = "enter" /\ op[p].job = j
           => file[j][AttemptOf(state.job[j])] = "none"
  PROVE  NoneAhead(j)' /\ DecidedIsPast(j)'
  <1> USE DEF Writing, Taking, Moves, Writes
  <1>u. ASSUME NEW from, NEW points, Updates(p, from, points)
        PROVE  base[p] = state /\ pt[p] = from /\ file' = file
    BY <1>u DEF Updates, FilesSame
  <1>1. CASE \/ Starts(p) \/ Ends(p)
             \/ \E k \in Jobs : Takes(p, k) \/ Chooses(p, k)
    <2>1. Same /\ pt[p] \in {"idle", "check", "loop", "settled"}
      BY <1>1 DEF Starts, Ends, Takes, Chooses
    <2> QED BY <2>1, DecisionKept DEF Same, FilesSame
  <1>2. CASE Dies(p)
    BY <1>2 DEF Dies
  <1>3. CASE Goes(p) \/ Reads(p)
    <2>1. /\ Same
          /\ pt[p] \in {"check", "work", "advRead", "advance"}
          /\ pt[p] = "advRead" => pt'[p] = "advance"
          /\ pt[p] = "advance" => pt'[p] = "commit"
          /\ op'[p].job = op[p].job /\ op'[p].to = op[p].to
      BY <1>3 DEF Goes, Reads, Keeps
    <2>2. Taking(p, j) => Taking(p, j)'
      BY <2>1
    <2> QED BY <2>1, <2>2, DecisionKept DEF Same, FilesSame
  <1>14. CASE Fetches(p)
    <2>1. Same /\ pt'[p] = pt[p] /\ op'[p] = op[p]
      BY <1>14 DEF Fetches, Keeps
    <2> QED BY <2>1, DecisionKept DEF Same, FilesSame
  <1>4. CASE Passes(p)
    <2>1. Same /\ pt[p] = "advance" /\ copy[p] = state
      BY <1>4 DEF Passes, FreshAt
    <2>2. Taking(p, j) => Past(state'.job[j])
      BY <1>4, <2>1 DEF Passes, Same, Past
    <2> QED BY <2>1, <2>2, DecisionKept DEF Same, FilesSame
  <1>5. CASE Records(p)
    <2> DEFINE k == op[p].job
               n == AttemptRead(p)
    <2>1. /\ file' = [file EXCEPT ![k][n] = op[p].to] /\ state' = state
          /\ op'[p] = op[p] /\ pt[p] = "record" /\ pt'[p] = "log"
          /\ copy[p] = state
      BY <1>5 DEF Records, Keeps, FreshAt
    <2>2. k \in Jobs /\ n \in Attempt /\ n = AttemptOf(state.job[k])
      BY <2>1, Decision DEF DecidePoint, AttemptRead
    <2> HIDE DEF n
    <2>3. CASE j = k
      <3>1. Writing(p, j)'
        BY <2>1, <2>3
      <3>2. file \in [Jobs -> [Attempt -> Verdict \cup {"none"}]]
        BY DEF TypeInv
      <3>3. \A m \in Attempt : m # n => file'[j][m] = file[j][m]
        BY <2>1, <2>2, <3>2
      <3>4. NoneAhead(j)'
        <4>1. \A m \in Attempt : m > AttemptOf(state.job[j]) => m # n
          BY <2>2, <2>3, OperatorsAssumption DEF Attempt
        <4> QED BY <2>1, <3>3, <4>1 DEF NoneAhead
      <3> QED BY <3>1, <3>4 DEF DecidedIsPast
    <2>4. CASE j # k
      <3>1. file'[j] = file[j]
        BY <2>1, <2>4 DEF TypeInv
      <3> QED BY <2>1, <3>1, DecisionKept
    <2> QED BY <2>3, <2>4
  <1>6. CASE Logs(p)
    BY <1>6, DecisionKept DEF Logs, Keeps
  <1>7. CASE Aborts(p)
    <2>1. /\ pt[p] = "abort" /\ file' = file
          /\ state'.job = state.job
      BY <1>7 DEF Aborts, FreshAt, FilesSame
    <2> QED BY <2>1, DecisionKept
  <1>8. CASE Propagates(p) \/ Resets(p)
    <2>1. /\ pt[p] \in {"propagate", "reset"} /\ file' = file
          /\ base[p] = state
      BY <1>8, <1>u DEF Propagates, Resets
    <2>2. Kept(state, j)
      BY <1>8, <2>1 DEF Propagates, Resets
    <2> QED BY <2>1, <2>2, KeptPast, DecisionKept
  <1>9. ASSUME NEW k \in Jobs, k = op[p].job,
               \/ Forces(p, k) \/ Works(p, k)
               \/ Completes(p, k) \/ Commits(p, k) \/ Fails(p, k)
        PROVE  NoneAhead(j)' /\ DecidedIsPast(j)'
    <2>1. /\ pt[p] \in {"mark", "start", "force", "commit", "work"}
          /\ file' = file /\ base[p] = state
      BY <1>9, <1>u DEF Forces, Works, Completes, Commits, Fails
    <2>4. /\ Rewrites(state, k)
          /\ pt[p] = "commit" => Settles(k)
          /\ \/ Settles(k)
             \/ k \in rewound'
             \/ Works(p, k)
      BY <1>9, <2>1 DEF Forces, Works, Completes, Commits, Fails, Updates
    <2>2. CASE j = k
      <3>1. Past(state.job[j]) => Past(state'.job[j])
        <4>1. CASE Works(p, k)
          <5>1. /\ pt[p] = "start"
                /\ state.job[j].step > 1 => state'.job[j].step > 1
            BY <2>1, <2>2, <4>1 DEF Works, Updates
          <5>2. state.job[j].status \in Live
            BY <1>9, <2>2, <5>1 DEF FreshAt, TypeInv
          <5> QED BY <5>1, <5>2 DEF Past, Live
        <4> QED BY <2>2, <2>4, <4>1 DEF Settles, Past
      <3>2. pt[p] = "commit" => Past(state'.job[j])
        BY <2>2, <2>4 DEF Settles, Past
      <3> QED BY <2>1, <2>2, <2>4, <3>1, <3>2, DecisionKept DEF Rewrites
    <2>3. CASE j # k
      <3>1. Kept(state, j)
        BY <2>3, <2>4 DEF Rewrites, KeptBut
      <3> QED BY <1>9, <2>1, <2>3, <3>1, KeptPast, DecisionKept
    <2> QED BY <2>2, <2>3
  <1>10. ASSUME NEW k \in Jobs, k = op[p].job, Renews(p, k)
         PROVE  NoneAhead(j)' /\ DecidedIsPast(j)'
    <2>1. pt[p] = "retry" /\ file' = file /\ base[p] = state
      BY <1>10, <1>u DEF Renews
    <2>5. copy[p] = state
      BY <2>1 DEF FreshAt
    <2>2. CASE j # k
      <3>1. Kept(state, j)
        BY <1>10, <2>1, <2>2 DEF Renews, KeptBut
      <3> QED BY <2>1, <3>1, KeptPast, DecisionKept
    <2>3. CASE j = k /\ Settles(j) /\ state'.job[j].attempt = state.job[j].attempt
      <3>1. /\ AttemptOf(state'.job[j]) = AttemptOf(state.job[j])
            /\ state'.job[j].gate = state.job[j].gate
            /\ Past(state'.job[j])
        BY <1>10, <2>3, <2>5 DEF Renews, AttemptOf, Settles, Past
      <3> QED BY <2>1, <3>1, DecisionKept
    <2>4. CASE j = k /\ state'.job[j].attempt = AttemptOf(state.job[j]) + 1
      <3>1. state.job[j] \in GateRecord /\ state'.job[j] \in GateRecord
        BY GateParts, RowTypes DEF TypeInv
      <3>2. AttemptOf(state.job[j]) \in Nat \ {0} /\ AttemptOf(state'.job[j]) \in Attempt
        BY <3>1, AttemptInRange DEF Attempt
      <3>3. AttemptOf(state'.job[j]) = AttemptOf(state.job[j]) + 1
        BY <2>4, <3>2 DEF AttemptOf
      <3>4. \A n \in Attempt : n >= AttemptOf(state'.job[j]) => file[j][n] = "none"
        BY <3>2, <3>3 DEF NoneAhead, Attempt
      <3>5. file'[j][AttemptOf(state'.job[j])] = "none"
        BY <2>1, <3>2, <3>4 DEF Attempt
      <3>6. \A n \in Attempt : n > AttemptOf(state'.job[j]) => file'[j][n] = "none"
        BY <2>1, <3>2, <3>4 DEF Attempt
      <3> QED BY <3>5, <3>6 DEF NoneAhead, DecidedIsPast
    <2> QED BY <1>10, <2>2, <2>3, <2>4, <2>5 DEF Renews
  <1>11. ASSUME NEW k \in Jobs, k = op[p].job, Decides(p, k)
         PROVE  NoneAhead(j)' /\ DecidedIsPast(j)'
    <2>1. pt[p] = "apply" /\ file' = file /\ base[p] = state
      BY <1>11, <1>u DEF Decides
    <2>2. CASE j # k
      <3>1. Kept(state, j)
        BY <1>11, <2>1, <2>2 DEF Decides, KeptBut
      <3> QED BY <1>11, <2>1, <2>2, <3>1, KeptPast, DecisionKept
    <2>3. CASE j = k
      <3>1. /\ AttemptOf(state'.job[j]) = AttemptOf(state.job[j])
            /\ ~state'.job[j].gate
        BY <1>11, <2>1, <2>3 DEF Decides, AttemptOf
      <3>2. Taking(p, j)' \/ Past(state'.job[j])
        BY <1>11, <2>3 DEF Decides, Keeps, Settles, Past
      <3>3. NoneAhead(j)'
        BY <2>1, <3>1 DEF NoneAhead
      <3> QED BY <3>1, <3>2, <3>3 DEF DecidedIsPast
    <2> QED BY <2>2, <2>3
  <1>12. ASSUME NEW k \in Jobs, k = op[p].job, Steps1(p, k)
         PROVE  NoneAhead(j)' /\ DecidedIsPast(j)'
    <2>1. pt[p] = "advance" /\ file' = file /\ copy[p] = state
      BY <1>12 DEF Steps1, FreshAt, FilesSame
    <2>2. /\ AttemptOf(state'.job[j]) = AttemptOf(state.job[j])
          /\ state'.job[j].gate = state.job[j].gate
          /\ Past(state.job[j]) => Past(state'.job[j])
          /\ j = k => Past(state'.job[j])
      BY <1>12, <2>1 DEF Steps1, AttemptOf, Past
    <2> QED BY <1>12, <2>1, <2>2, DecisionKept
  <1>13. ASSUME NEW k \in Jobs, k = op[p].job, Opens(p, k)
         PROVE  NoneAhead(j)' /\ DecidedIsPast(j)'
    <2>1. pt[p] = "enter" /\ file' = file /\ base[p] = state
      BY <1>13, <1>u DEF Opens
    <2>2. CASE j # k
      <3>1. Kept(state, j)
        BY <1>13, <2>1, <2>2 DEF Opens, KeptBut
      <3> QED BY <2>1, <3>1, KeptPast, DecisionKept
    <2>3. CASE j = k
      <3>1. AttemptOf(state'.job[j]) = AttemptOf(state.job[j])
        BY <1>13, <2>1, <2>3 DEF Opens, AttemptOf
      <3>2. file'[j][AttemptOf(state'.job[j])] = "none"
        BY <1>13, <2>1, <2>3, <3>1
      <3> QED BY <2>1, <3>1, <3>2 DEF NoneAhead, DecidedIsPast
    <2> QED BY <2>2, <2>3
  <1> QED BY <1>1, <1>2, <1>3, <1>4, <1>5, <1>6, <1>7, <1>8, <1>9, <1>10, <1>11,
             <1>12, <1>13, <1>14 DEF Row

(* A gate is opened for an attempt nobody has decided on, and a decision    *)
(* closes it, as long as nothing crashes and nothing overlaps.              *)
LEMMA UndecidedStep ==
  ASSUME TypeInv, NEW p \in Proc, Row(p), History(p), Serial, Fresh, Undecided
  PROVE  Undecided'
  <1> SUFFICES ASSUME crashes' = 0, ~overlapped'
               PROVE  /\ \A j \in Jobs \ rewound' : NoneAhead(j)' /\ DecidedIsPast(j)'
                      /\ \A q \in Proc :
                           pt'[q] = "enter" /\ op'[q].job \notin rewound'
                             => file'[op'[q].job][AttemptOf(state'.job[op'[q].job])] = "none"
    BY DEF Undecided, NoneAhead, DecidedIsPast
  <1>1. /\ crashes = 0 /\ ~overlapped
        /\ \A q \in Proc \ {p} : pt'[q] = "idle" /\ pt[q] = "idle"
        /\ rewound \subseteq rewound'
    BY SerialStep, RowTypes DEF History
  <1>2. /\ \A j \in Jobs \ rewound : NoneAhead(j) /\ DecidedIsPast(j)
        /\ \A q \in Proc :
             pt[q] = "enter" /\ op[q].job \notin rewound
               => file[op[q].job][AttemptOf(state.job[op[q].job])] = "none"
    BY <1>1 DEF Undecided
  <1>3. ASSUME NEW j \in Jobs \ rewound'
        PROVE  NoneAhead(j)' /\ DecidedIsPast(j)'
    <2>1. /\ NoneAhead(j) /\ DecidedIsPast(j)
          /\ pt[p] \in FreshAt => copy[p] = state
          /\ p \in fetched => base[p] = state
          /\ pt[p] = "enter" /\ op[p].job = j
               => file[j][AttemptOf(state.job[j])] = "none"
      BY <1>1, <1>2 DEF Fresh
    <2> QED BY <2>1, UndecidedRow
  <1>4. ASSUME NEW j \in Jobs, Takes(p, j), j \notin rewound
        PROVE  file'[j][AttemptOf(state'.job[j])] = "none"
    <2>1. /\ pt[p] = "loop" /\ file' = file /\ state' = state
          /\ state.job[j].status \in {"ready", "running"}
          /\ StepIndex(state.job[j]) = 1
      BY <1>4 DEF Takes, Live, Same, FilesSame
    <2>2. state.job[j] \in GateRecord
      BY GateParts DEF TypeInv
    <2>3. ~Past(state.job[j])
      BY <2>1, <2>2, AttemptInRange DEF Past
    <2>4. \A q \in Proc : ~Writing(q, j) /\ ~Taking(q, j)
      BY <1>1, <2>1 DEF Writing, Taking
    <2> QED BY <1>2, <1>4, <2>1, <2>3, <2>4 DEF DecidedIsPast
  <1>5. ASSUME NEW q \in Proc, pt'[q] = "enter", op'[q].job \notin rewound'
        PROVE  file'[op'[q].job][AttemptOf(state'.job[op'[q].job])] = "none"
    <2>1. q = p
      BY <1>1, <1>5
    <2>2. CASE Fetches(p)
      <3>1. pt[p] = "enter" /\ op'[p] = op[p] /\ file' = file /\ state' = state
        BY <1>5, <2>1, <2>2 DEF Fetches, Moves, Keeps, Same, FilesSame
      <3> QED BY <1>1, <1>2, <1>5, <2>1, <3>1
    <2>3. CASE ~Fetches(p)
      <3>1. PICK j \in Jobs : Takes(p, j)
        BY <1>5, <2>1, <2>3
           DEF Row, Moves, Updates, Writes, Starts, Ends, Ended, Dies, Goes, Reads, Passes,
               Records, Logs, Aborts, Propagates, Resets, Chooses, Forces, Works, Completes,
               Renews, Decides, Steps1, Commits, Opens, Fails
      <3>2. op'[q].job = j
        BY <2>1, <3>1 DEF Takes
      <3> QED BY <1>1, <1>4, <1>5, <3>1, <3>2
    <2> QED BY <2>2, <2>3
  <1> QED BY <1>3, <1>5

(* While nothing overlaps and nothing is killed, no sequence of commands    *)
(* and invocations opens a gate whose decision would be refused.            *)
THEOREM OpenGatesCanBeDecided == Spec => []OpenGateIsUndecided
  <1>1. Init => Undecided
    <2> SUFFICES ASSUME Init PROVE Undecided
      OBVIOUS
    <2>1. ASSUME NEW j \in Jobs
          PROVE  /\ NoneAhead(j)
                 /\ file[j][AttemptOf(state.job[j])] = "none"
      <3>1. state.job[j] \in GateRecord
        BY GateParts, InitStateGated DEF Init
      <3>2. AttemptOf(state.job[j]) \in Attempt
        BY <3>1, AttemptInRange
      <3> QED BY <3>2 DEF Init, NoneAhead
    <2>2. \A p \in Proc : pt[p] # "enter"
      BY DEF Init
    <2> QED BY <2>1, <2>2 DEF Undecided, DecidedIsPast
  <1>2. TypeInv /\ Serial /\ Fresh /\ Undecided /\ [Next]_vars => Undecided'
    <2>1. ASSUME TypeInv, Serial, Fresh, Undecided, Next
          PROVE  Undecided'
      <3>1. PICK p \in Proc : ProcStep(p)
        BY <2>1, SomeProcess
      <3>2. Row(p) /\ History(p)
        BY <2>1, <3>1, RowStep, HistoryStep
      <3> QED BY <2>1, <3>2, UndecidedStep
    <2>2. ASSUME Undecided, UNCHANGED vars
          PROVE  Undecided'
      BY <2>2 DEF vars, Undecided, NoneAhead, DecidedIsPast, Writing, Taking
    <2> QED BY <2>1, <2>2
  <1>3. Undecided => OpenGateIsUndecided
    BY DEF Undecided, DecidedIsPast, OpenGateIsUndecided, Awaiting, Deciding, Writing
  <1> QED BY <1>1, <1>2, <1>3, OneAtATime, OperatorsTypes, PTL DEF Spec
=============================================================================
