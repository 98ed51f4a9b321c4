--------------------------- MODULE WorkspaceProofs --------------------------
(***************************************************************************)
(* Proofs about Workspace: what the invocation does keeps the state typed, *)
(* and the four safety properties follow from one inductive invariant.     *)
(***************************************************************************)
EXTENDS Workspace, TLAPS

Live(j) == job[j].status \in {"ready", "running"}

(* Tasks exist in a batch only, and only for jobs that are not decided.     *)
TasksInBatch ==
  /\ loop # "batch" => \A j \in Jobs : task[j] = "idle"
  /\ \A j \in Jobs : task[j] # "idle" => Live(j)
  /\ \A j \in Jobs : task[j] \in {"commit", "merge"} => Scope[j] = "job"

(* A worktree was created from a HEAD without the attempt; only attempts of *)
(* merged jobs, with a worktree, are in the HEAD.                           *)
CreatedBeforeMerged ==
  /\ \A k \in Attempts : base[k] # NotCreated => k \notin base[k]
  /\ \A k \in integrated : base[k] # NotCreated /\ Scope[k[1]] = "job"

(* While a task creates the worktree, its attempt is not merged by another. *)
SeenIfMerged ==
  \A j \in Jobs : task[j] = "create" /\ Key(j) \in integrated => Key(j) \in seen[j]

(* The current attempt of an undecided job that has a handle has a worktree *)
(* and is merged only when the job is about to be sealed.                   *)
LiveHandles ==
  /\ \A k \in handles : base[k] # NotCreated /\ k[2] =< job[k[1]].attempt
  /\ \A j \in Jobs : Key(j) \in handles /\ Live(j) =>
       /\ Key(j) \in worktrees
       /\ task[j] # "seal" => Key(j) \notin integrated
  /\ \A j \in Jobs : task[j] \in {"start", "exec", "commit", "merge"}
                       /\ Scope[j] # "run" => Key(j) \in handles

SealedIsMerged ==
  \A j \in Jobs : task[j] = "seal" /\ Scope[j] = "job" => Key(j) \in integrated

PublishedAtTeardown ==
  /\ loop = "teardown" /\ run = "completed" /\ Publishes
       => integrated \subseteq published
  /\ tree = "gone" => loop = "off"

Coherent ==
  /\ TasksInBatch
  /\ CreatedBeforeMerged
  /\ SeenIfMerged
  /\ LiveHandles
  /\ SealedIsMerged
  /\ PublishedAtTeardown
  /\ CompletedIsIntegrated
  /\ OnlyLastAttemptIntegrated
  /\ ResultsPublished

IInv == TypeOK /\ Coherent

(* ------------------------------ type correctness -------------------------*)

LEMMA AttemptKeys ==
  ASSUME TypeOK, NEW j \in Jobs
  PROVE  /\ Key(j) \in Attempts
         /\ Key(j)[1] = j
         /\ Key(j)[2] = job[j].attempt
  BY WorkspaceAssumption DEF TypeOK, Key, Attempts, JobRecord

(* What writing the status of a job does to the jobs.                       *)
LEMMA StatusWritten ==
  ASSUME TypeOK, NEW j \in Jobs,
         NEW s \in {"ready", "running", "completed", "failed"}, SetStatus(j, s)
  PROVE  /\ job' \in [Jobs -> JobRecord]
         /\ job'[j].status = s
         /\ \A i \in Jobs : i # j => job'[i] = job[i]
         /\ \A i \in Jobs : job'[i].attempt = job[i].attempt
         /\ \A i \in Jobs : Key(i)' = Key(i)
<1>1. job \in [Jobs -> JobRecord]
  BY DEF TypeOK
<1>2. job' = [job EXCEPT ![j] = [job[j] EXCEPT !.status = s]]
  BY <1>1 DEF SetStatus
<1>3. job[j] \in JobRecord
  BY <1>1
<1>4. /\ [job[j] EXCEPT !.status = s] \in JobRecord
      /\ [job[j] EXCEPT !.status = s].attempt = job[j].attempt
      /\ [job[j] EXCEPT !.status = s].status = s
  BY <1>3 DEF JobRecord
<1> QED
  BY <1>1, <1>2, <1>4 DEF Key

LEMMA CreatedTyped ==
  ASSUME TypeOK, NEW j \in Jobs, Created(j)
  PROVE  /\ base' \in [Attempts -> Head \cup {NotCreated}]
         /\ worktrees' \subseteq Attempts
         /\ base'[Key(j)] = seen[j]
         /\ \A k \in Attempts : k # Key(j) => base'[k] = base[k]
         /\ worktrees \subseteq worktrees'
<1>1. Key(j) \in Attempts
  BY AttemptKeys
<1> QED
  BY <1>1 DEF Created, TypeOK

LEMMA TypeStep ==
  ASSUME TypeOK, [Next]_vars
  PROVE  TypeOK'
<1> USE DEF TypeOK, files, provider
<1>1. CASE PrepareRun
  BY <1>1 DEF PrepareRun
<1>2. CASE Dispatch
  BY <1>2 DEF Dispatch
<1>3. CASE LoopStop
  BY <1>3 DEF LoopStop
<1>4. CASE PostLoop
  BY <1>4 DEF PostLoop, Verdict, RunStatus
<1>t. ASSUME NEW j \in Jobs, Task(j)
      PROVE  TypeOK'
  <2>1. CASE UseWorkspace(j)
    BY <2>1 DEF UseWorkspace, GoTo
  <2>2. CASE ResolveHead(j)
    BY <2>2 DEF ResolveHead, GoTo, Head
  <2>3. CASE PrepareJob(j)
    BY <2>3, AttemptKeys, CreatedTyped DEF PrepareJob, GoTo
  <2>4. CASE PrepareJobFails(j)
    <3>1. job' \in [Jobs -> JobRecord]
      BY <2>4, StatusWritten DEF PrepareJobFails
    <3>2. /\ base' \in [Attempts -> Head \cup {NotCreated}]
          /\ worktrees' \subseteq Attempts
      BY <2>4, CreatedTyped DEF PrepareJobFails
    <3>3. faults' \in Nat
      BY <2>4 DEF PrepareJobFails, Fault
    <3> QED
      BY <2>4, <3>1, <3>2, <3>3 DEF PrepareJobFails, GoTo, RunStatus
  <2>5. CASE Start(j)
    <3>1. job' \in [Jobs -> JobRecord]
      BY <2>5, StatusWritten DEF Start
    <3> QED
      BY <2>5, <3>1 DEF Start, GoTo
  <2>6. CASE StepEnds(j)
    BY <2>6 DEF StepEnds, GoTo
  <2>7. CASE AttemptFails(j)
    <3>1. CASE job[j].attempt < MaxAttempts
      <4>1. [status |-> "ready", attempt |-> job[j].attempt + 1] \in JobRecord
        BY <3>1, WorkspaceAssumption DEF JobRecord
      <4>2. job' \in [Jobs -> JobRecord]
        BY <2>7, <3>1, <4>1 DEF AttemptFails
      <4> QED
        BY <2>7, <3>1, <4>2 DEF AttemptFails, GoTo
    <3>2. CASE ~(job[j].attempt < MaxAttempts)
      <4>1. job' \in [Jobs -> JobRecord]
        BY <2>7, <3>2, StatusWritten DEF AttemptFails
      <4> QED
        BY <2>7, <3>2, <4>1 DEF AttemptFails, GoTo, RunStatus
    <3> QED BY <3>1, <3>2
  <2>8. CASE LastStepEnds(j)
    BY <2>8 DEF LastStepEnds, GoTo
  <2>9. CASE CommitJob(j)
    BY <2>9 DEF CommitJob, GoTo, Head
  <2>10. CASE IntegrateJob(j)
    BY <2>10, AttemptKeys DEF IntegrateJob, GoTo
  <2>11. CASE FinalizeFails(j)
    <3>1. job' \in [Jobs -> JobRecord]
      BY <2>11, StatusWritten DEF FinalizeFails
    <3>2. integrated' \subseteq Attempts
      BY <2>11, AttemptKeys DEF FinalizeFails
    <3>3. faults' \in Nat
      BY <2>11 DEF FinalizeFails, Fault
    <3> QED
      BY <2>11, <3>1, <3>2, <3>3 DEF FinalizeFails, GoTo
  <2>12. CASE SealCompleted(j)
    <3>1. job' \in [Jobs -> JobRecord]
      BY <2>12, StatusWritten DEF SealCompleted
    <3> QED
      BY <2>12, <3>1 DEF SealCompleted, GoTo, RunStatus
  <2> QED
    BY <1>t, <2>1, <2>2, <2>3, <2>4, <2>5, <2>6, <2>7, <2>8, <2>9, <2>10, <2>11, <2>12 DEF Task
<1>5. CASE BatchSettled
  BY <1>5 DEF BatchSettled
<1>6. CASE ReleaseWorktrees
  BY <1>6 DEF ReleaseWorktrees, Releasable
<1>7. CASE PublishRun
  BY <1>7 DEF PublishRun
<1>8. CASE PublishRunFails
  BY <1>8 DEF PublishRunFails, Fault, RunStatus
<1>9. CASE Teardown
  BY <1>9 DEF Teardown, Forget, Head
<1>10. CASE Crash
  BY <1>10 DEF Crash, Forget, Head
<1>11. CASE UNCHANGED vars
  BY <1>11 DEF vars
<1> QED
  BY <1>t, <1>1, <1>2, <1>3, <1>4, <1>5, <1>6, <1>7, <1>8, <1>9, <1>10, <1>11 DEF Next

(* Every variable keeps its type.                                           *)
THEOREM TypeCorrect == Spec => []TypeOK
<1>1. Init => TypeOK
  BY WorkspaceAssumption
  DEF Init, TypeOK, RunStatus, JobRecord, Head
<1>2. TypeOK /\ [Next]_vars => TypeOK'
  BY TypeStep
<1> QED
  BY <1>1, <1>2, PTL DEF Spec

(* --------------------------- the inductive invariant ---------------------*)

LEMMA CoherentInit == Init => Coherent
  BY WorkspaceAssumption
  DEF Init, Coherent, TasksInBatch, CreatedBeforeMerged, SeenIfMerged,
      LiveHandles, SealedIsMerged, PublishedAtTeardown, CompletedIsIntegrated,
      OnlyLastAttemptIntegrated, ResultsPublished

(* The provider refuses an attempt that is merged; what it accepts has not  *)
(* been merged into the HEAD it was created from.                           *)
LEMMA MergedIsRefused ==
  ASSUME IInv, NEW j \in Jobs, At(j, "create"), CreateAccepted(j), Created(j)
  PROVE  /\ Key(j) \notin integrated
         /\ base'[Key(j)] # NotCreated
         /\ \A k \in Attempts : base'[k] # NotCreated => k \notin base'[k]
         /\ \A k \in Attempts : base[k] # NotCreated => base'[k] # NotCreated
<1>1. Key(j) \in Attempts
  BY AttemptKeys DEF IInv
<1>2. seen[j] \subseteq Attempts
  BY DEF IInv, TypeOK, Head
<1>3. seen[j] # NotCreated
  BY <1>2 DEF NotCreated, Attempts
<1>4. Key(j) \notin integrated
  BY <1>1 DEF IInv, Coherent, CreatedBeforeMerged, SeenIfMerged, CreateAccepted, At
<1>5. Key(j) \notin seen[j]
  BY <1>1, <1>4 DEF IInv, Coherent, CreatedBeforeMerged, CreateAccepted
<1>6. /\ base'[Key(j)] = seen[j]
      /\ \A k \in Attempts : k # Key(j) => base'[k] = base[k]
  BY CreatedTyped DEF IInv
<1> QED
  BY <1>1, <1>3, <1>4, <1>5, <1>6 DEF IInv, Coherent, CreatedBeforeMerged

LEMMA CoherentStep ==
  ASSUME IInv, [Next]_vars, TypeOK'
  PROVE  Coherent'
<1> USE AttemptKeys
    DEF IInv, Coherent, TypeOK, files, provider, At, GoTo, Live, TasksInBatch,
        CreatedBeforeMerged, SeenIfMerged, LiveHandles, SealedIsMerged,
        PublishedAtTeardown, CompletedIsIntegrated, OnlyLastAttemptIntegrated,
        ResultsPublished
<1>a. \A k \in integrated \cup handles : k[1] \in Jobs
  BY DEF Attempts
<1>b. \A j \in Jobs : job[j].attempt \in Nat
  BY WorkspaceAssumption DEF JobRecord
<1>c. \A k \in handles : k[2] \in Nat
  BY WorkspaceAssumption DEF Attempts
<1>1. CASE PrepareRun
  BY <1>1 DEF PrepareRun, Key
<1>2. CASE Dispatch
  <2>1. \A i \in Jobs : task'[i] \in {"idle", "resolve"}
    BY <1>2 DEF Dispatch
  <2>2. \A i \in Jobs : task'[i] # "idle" => Live(i)
    <3>1. PICK B \in SUBSET Jobs :
            /\ B \subseteq WithStatus("ready") \/ B = WithStatus("running")
            /\ task' = [i \in Jobs |-> IF i \in B THEN "resolve" ELSE "idle"]
      BY <1>2 DEF Dispatch
    <3> QED
      BY <3>1 DEF WithStatus
  <2>3. \A i \in Jobs : task[i] = "idle"
    BY <1>2 DEF Dispatch
  <2> QED
    BY <1>2, <2>1, <2>2, <2>3 DEF Dispatch, Key
<1>3. CASE LoopStop
  BY <1>3 DEF LoopStop, Key
<1>4. CASE PostLoop
  BY <1>4 DEF PostLoop, Key, Verdict
<1>t. ASSUME NEW j \in Jobs, Task(j)
      PROVE  Coherent'
  <2>1. CASE UseWorkspace(j)
    BY <2>1 DEF UseWorkspace, Key
  <2>2. CASE ResolveHead(j)
    BY <2>2 DEF ResolveHead, Key
  <2>3. CASE PrepareJob(j)
    <3>1. /\ Key(j) \notin integrated
          /\ base'[Key(j)] # NotCreated
          /\ \A k \in Attempts : base'[k] # NotCreated => k \notin base'[k]
          /\ \A k \in Attempts : base[k] # NotCreated => base'[k] # NotCreated
      BY <2>3, MergedIsRefused DEF PrepareJob
    <3>2. worktrees \subseteq worktrees'
      BY <2>3, CreatedTyped DEF PrepareJob
    <3> QED
      BY <1>a, <1>b, <1>c, <2>3, <3>1, <3>2 DEF PrepareJob, Key
  <2>4. CASE PrepareJobFails(j)
    <3>1. /\ \A k \in Attempts : base'[k] # NotCreated => k \notin base'[k]
          /\ \A k \in Attempts : base[k] # NotCreated => base'[k] # NotCreated
      BY <2>4, MergedIsRefused DEF PrepareJobFails
    <3>2. worktrees \subseteq worktrees'
      BY <2>4, CreatedTyped DEF PrepareJobFails
    <3>3. /\ job'[j].status = "failed"
          /\ \A i \in Jobs : i # j => job'[i] = job[i]
          /\ \A i \in Jobs : job'[i].attempt = job[i].attempt
          /\ \A i \in Jobs : Key(i)' = Key(i)
      BY <2>4, StatusWritten DEF PrepareJobFails
    <3>4. /\ task' = [task EXCEPT ![j] = "idle"]
          /\ task[j] = "create" /\ loop = "batch" /\ loop' = loop
          /\ run' = "failed"
          /\ UNCHANGED <<seen, handles, integrated, published, tree>>
      BY <2>4 DEF PrepareJobFails
    <3>5. \A i \in Jobs : i # j => task'[i] = task[i]
      BY <3>4
    <3>6. task'[j] = "idle"
      BY <3>4
    <3>a. TasksInBatch'
      BY <3>3, <3>4, <3>5, <3>6
    <3>b. CreatedBeforeMerged'
      BY <3>1, <3>4
    <3>c. SeenIfMerged'
      BY <3>3, <3>4, <3>5, <3>6
    <3>d. LiveHandles'
      BY <1>a, <3>1, <3>2, <3>3, <3>4, <3>5, <3>6
    <3>e. SealedIsMerged' /\ PublishedAtTeardown'
      BY <3>3, <3>4, <3>5, <3>6
    <3>f. CompletedIsIntegrated'
      BY <3>3, <3>4
    <3>g. OnlyLastAttemptIntegrated'
      BY <1>a, <3>3, <3>4
    <3>h. ResultsPublished'
      BY <3>3, <3>4
    <3> QED
      BY <3>a, <3>b, <3>c, <3>d, <3>e, <3>f, <3>g, <3>h
  <2>5. CASE Start(j)
    <3>1. /\ job'[j].status = "running"
          /\ \A i \in Jobs : i # j => job'[i] = job[i]
          /\ \A i \in Jobs : job'[i].attempt = job[i].attempt
          /\ \A i \in Jobs : Key(i)' = Key(i)
      BY <2>5, StatusWritten DEF Start
    <3> QED
      BY <1>a, <2>5, <3>1 DEF Start
  <2>6. CASE StepEnds(j)
    BY <2>6 DEF StepEnds, Key
  <2>7. CASE AttemptFails(j)
    <3>1. CASE job[j].attempt < MaxAttempts
      <4>1. /\ job' = [job EXCEPT ![j] = [status  |-> "ready",
                                         attempt |-> job[j].attempt + 1]]
            /\ run' = run
        BY <2>7, <3>1 DEF AttemptFails
      <4>2. /\ job'[j].status = "ready"
            /\ job'[j].attempt = job[j].attempt + 1
            /\ \A i \in Jobs : i # j => job'[i] = job[i]
        BY <4>1
      <4>3. \A k \in integrated : k[1] # j
        BY <2>7 DEF AttemptFails, Attempts, Key
      <4>4. /\ \A i \in Jobs : i # j => Key(i)' = Key(i)
            /\ Key(j)'[1] = j
            /\ Key(j)'[2] = job[j].attempt + 1
        BY <4>2 DEF Key
      <4>5. /\ Key(j)' \notin handles
            /\ \A k \in handles : k[2] =< job'[k[1]].attempt
        BY <1>a, <1>b, <1>c, <4>2, <4>4
      <4>6. LiveHandles'
        BY <1>a, <2>7, <4>2, <4>4, <4>5 DEF AttemptFails
      <4>7. CompletedIsIntegrated' /\ SealedIsMerged' /\ SeenIfMerged'
        BY <2>7, <4>2, <4>4 DEF AttemptFails
      <4>8. OnlyLastAttemptIntegrated' /\ CreatedBeforeMerged'
        BY <1>a, <2>7, <4>2, <4>3 DEF AttemptFails
      <4> QED
        BY <2>7, <4>1, <4>2, <4>6, <4>7, <4>8 DEF AttemptFails
    <3>2. CASE ~(job[j].attempt < MaxAttempts)
      <4>1. /\ job'[j].status = "failed"
            /\ \A i \in Jobs : i # j => job'[i] = job[i]
            /\ \A i \in Jobs : job'[i].attempt = job[i].attempt
            /\ \A i \in Jobs : Key(i)' = Key(i)
        BY <2>7, <3>2, StatusWritten DEF AttemptFails
      <4> QED
        BY <1>a, <2>7, <3>2, <4>1 DEF AttemptFails
    <3> QED BY <3>1, <3>2
  <2>8. CASE LastStepEnds(j)
    BY <2>8 DEF LastStepEnds, Key
  <2>9. CASE CommitJob(j)
    BY <2>9 DEF CommitJob, Key
  <2>10. CASE IntegrateJob(j)
    BY <2>10 DEF IntegrateJob, Key
  <2>11. CASE FinalizeFails(j)
    <3>1. /\ job'[j].status = "failed"
          /\ \A i \in Jobs : i # j => job'[i] = job[i]
          /\ \A i \in Jobs : job'[i].attempt = job[i].attempt
          /\ \A i \in Jobs : Key(i)' = Key(i)
      BY <2>11, StatusWritten DEF FinalizeFails
    <3> QED
      BY <1>a, <2>11, <3>1 DEF FinalizeFails
  <2>12. CASE SealCompleted(j)
    <3>1. /\ job'[j].status = "completed"
          /\ \A i \in Jobs : i # j => job'[i] = job[i]
          /\ \A i \in Jobs : job'[i].attempt = job[i].attempt
          /\ \A i \in Jobs : Key(i)' = Key(i)
      BY <2>12, StatusWritten DEF SealCompleted
    <3> QED
      BY <1>a, <2>12, <3>1 DEF SealCompleted
  <2> QED
    BY <1>t, <2>1, <2>2, <2>3, <2>4, <2>5, <2>6, <2>7, <2>8, <2>9, <2>10, <2>11, <2>12 DEF Task
<1>5. CASE BatchSettled
  BY <1>5 DEF BatchSettled, Key
<1>6. CASE ReleaseWorktrees
  BY <1>6 DEF ReleaseWorktrees, Key, Releasable, Attempts
<1>7. CASE PublishRun
  BY <1>7 DEF PublishRun, Key
<1>8. CASE PublishRunFails
  BY <1>8 DEF PublishRunFails, Key
<1>9. CASE Teardown
  BY <1>9 DEF Teardown, Key, Forget
<1>10. CASE Crash
  BY <1>10 DEF Crash, Key, Forget
<1>11. CASE UNCHANGED vars
  BY <1>11 DEF vars, Key
<1> QED
  BY <1>t, <1>1, <1>2, <1>3, <1>4, <1>5, <1>6, <1>7, <1>8, <1>9, <1>10, <1>11 DEF Next

LEMMA Inductive == Spec => []IInv
<1>1. Init => IInv
  BY CoherentInit, WorkspaceAssumption
  DEF IInv, Init, TypeOK, RunStatus, JobRecord, Head
<1>2. IInv /\ [Next]_vars => IInv'
  BY TypeStep, CoherentStep DEF IInv
<1> QED
  BY <1>1, <1>2, PTL DEF Spec

(* A job completed in state.json is merged into the Run worktree, for any   *)
(* number of jobs, attempts, provider faults and crashes.                   *)
THEOREM CompletedWorkIsIntegrated == Spec => []CompletedIsIntegrated
  BY Inductive, PTL DEF IInv, Coherent

(* No attempt that was given up is ever merged.                             *)
THEOREM AbandonedWorkStaysOut == Spec => []OnlyLastAttemptIntegrated
  BY Inductive, PTL DEF IInv, Coherent

(* No worktree is cleaned under a job that executes or is finalized in it.  *)
THEOREM WorktreeWhileExecuting == Spec => []ExecutesInWorktree
<1>1. IInv => ExecutesInWorktree
  BY DEF IInv, Coherent, ExecutesInWorktree, LiveHandles, TasksInBatch, Live
<1> QED
  BY <1>1, Inductive, PTL

(* The Run worktree is removed from a completed run only and, in a workflow *)
(* that publishes, only after everything in it was published.               *)
THEOREM NothingLostAtTeardown == Spec => []ResultsPublished
  BY Inductive, PTL DEF IInv, Coherent
=============================================================================
