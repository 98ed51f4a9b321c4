----------------------------- MODULE Lifecycle ------------------------------
(***************************************************************************)
(* What a user of zigma-flow may rely upon in every job of a run, without  *)
(* the loop, tasks, copies, crashes and resumes that bring it about: a job *)
(* starts once its needs are met, fails when it is about to start or runs, *)
(* is blocked only while it runs or when a need of it is lost, is retried  *)
(* up to its limit, and once it is completed, blocked or inactive stays so.*)
(***************************************************************************)
EXTENDS Integers

CONSTANTS Jobs, Needs, Declared, Optional, FailurePolicy, MaxAttempts

VARIABLE life   \* per job: its status, and the attempt it is in

Waiting == {j \in Jobs : life[j].status = "waiting"}

As(j, status) == [life[j] EXCEPT !.status = status]

(* A need that its dependents have not to wait for any more ...             *)
Met(d) ==
  \/ d \in Optional
  \/ life[d].status = "completed"
  \/ life[d].status = "failed" /\ FailurePolicy[d] = "continue"

(* ... and one for which they have nothing left to wait.                    *)
Lost(d) ==
  \/ life[d].status = "blocked"
  \/ life[d].status = "failed" /\ FailurePolicy[d] # "continue"

LifeInit ==
  life = [j \in Jobs |->
            [status  |-> IF j \in Declared THEN "inactive"
                         ELSE IF Needs[j] \subseteq Optional THEN "ready" ELSE "waiting",
             attempt |-> 1]]

Turns(j, from, to) ==
  /\ life[j].status = from
  /\ life' = [life EXCEPT ![j] = As(j, to)]

Start(j) == Turns(j, "ready", "running")
Fail(j)  == Turns(j, "ready", "failed") \/ Turns(j, "running", "failed")
Block(j) == Turns(j, "running", "blocked")

Retry(j) ==
  /\ life[j].status = "failed" /\ life[j].attempt < MaxAttempts[j]
  /\ life' = [life EXCEPT ![j] = [status |-> "ready", attempt |-> life[j].attempt + 1]]

(* Dependents may become ready in the step that completes the job.          *)
Complete(j) ==
  /\ life[j].status = "running"
  /\ \E released \in SUBSET Waiting :
       /\ life' = [k \in Jobs |-> IF k = j THEN As(k, "completed")
                                  ELSE IF k \in released THEN As(k, "ready") ELSE life[k]]
       /\ \A k \in released : \A d \in Needs[k] : Met(d)'

Release ==
  \E released \in SUBSET Waiting :
    /\ \A k \in released : \A d \in Needs[k] : Met(d)
    /\ life' = [k \in Jobs |-> IF k \in released THEN As(k, "ready") ELSE life[k]]

GiveUp ==
  \E stuck \in SUBSET Waiting :
    /\ \A k \in stuck : \E d \in Needs[k] : Lost(d)
    /\ life' = [k \in Jobs |-> IF k \in stuck THEN As(k, "blocked") ELSE life[k]]

LifeNext ==
  \/ \E j \in Jobs : Start(j) \/ Fail(j) \/ Block(j) \/ Retry(j) \/ Complete(j)
  \/ Release
  \/ GiveUp

LifeSpec == LifeInit /\ [][LifeNext]_life
=============================================================================
