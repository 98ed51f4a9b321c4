--------------------------- MODULE CommandsProofs ---------------------------
(***************************************************************************)
(* Proofs about the modules that Commands is made of.                      *)
(*                                                                         *)
(* RunStore, for any number of shells, tries, denials and mishaps: the     *)
(* variables keep their types, and no two shells ever write into the same  *)
(* run directory.                                                          *)
(*                                                                         *)
(* Routing, for every workflow, routes and conditions: the variables keep  *)
(* their types; no step executes beyond its visits; a completed run is     *)
(* settled; a completed job has executed its attempt; no visit of a step   *)
(* is executed twice.  The hypotheses of two of these are named below      *)
(* (NoBlindReturn, NoReturnedGoto): without each of them there is a        *)
(* workflow whose jobs do what the theorem excludes.                       *)
(*                                                                         *)
(* Reports and the commands as a whole, for every contract and every set   *)
(* of reports: an agent's job moves on only by an accepted report; runs    *)
(* keep to their directories; outputs.json and the context are what the    *)
(* reports have said.  The last needs that no report deletes a block and   *)
(* writes it anew (NoRewrittenBlock).                                      *)
(***************************************************************************)
EXTENDS Commands, FiniteSetTheorems, WellFoundedInduction, TLAPS

(* ------------------------------ run directories --------------------------*)

(* nextRunId counts a finite number of directories.                         *)
FinitelyMany == IsFiniteSet(Existing)

(* A shell that is writing a run has its directory, and has it alone.       *)
Mine ==
  \A s \in Shells : shell[s].at \in Writing =>
    shell[s].id \in Existing /\ dir[shell[s].id].by = {s}

OwnInv == StoreTypeOK /\ FinitelyMany /\ Mine /\ OwnRunDirectory

(* What a step that leaves the directories alone may do: no shell begins to *)
(* write, and one that goes on writing stays with its directory.            *)
Quiet ==
  /\ dir' = dir
  /\ \A s \in Shells : shell'[s].at \in Writing =>
       shell[s].at \in Writing /\ shell'[s].id = shell[s].id

(* Such a step keeps every shell with its own directory.                    *)
LEMMA QuietKeeps ==
  ASSUME OwnInv, Quiet
  PROVE  FinitelyMany' /\ Mine' /\ OwnRunDirectory'
BY DEF OwnInv, Quiet, FinitelyMany, Mine, OwnRunDirectory, Existing

(* No shell writes at first.                                                *)
LEMMA InitOwn == StoreInit => OwnInv
<1> SUFFICES ASSUME StoreInit PROVE OwnInv
  OBVIOUS
<1>1. Existing = {}
  BY DEF StoreInit, Existing
<1>2. FinitelyMany
  BY <1>1, FS_EmptySet DEF FinitelyMany
<1>3. StoreTypeOK
  BY <1>1 DEF StoreInit, StoreTypeOK, Started, Point, Existing
<1>4. Mine /\ OwnRunDirectory
  BY <1>1 DEF StoreInit, Mine, OwnRunDirectory, Started, Writing
<1> QED
  BY <1>2, <1>3, <1>4 DEF OwnInv

(* A try that failed keeps the types and writes nothing.                    *)
LEMMA TryAgainQuiet ==
  ASSUME StoreTypeOK, NEW s \in Shells, NEW d \in Nat, TryAgain(s, d)
  PROVE  /\ shell' \in [Shells -> [at : Point, id : Nat, tries : Nat, denied : Nat, last : Nat]]
         /\ \A t \in Shells : shell'[t].at \in Writing =>
              shell[t].at \in Writing /\ shell'[t].id = shell[t].id
<1> DEFINE retried == [shell[s] EXCEPT !.at     = "count",
                                       !.tries  = shell[s].tries + 1,
                                       !.denied = d,
                                       !.last   = shell[s].id]
           ended == [Started EXCEPT !.at = "failed"]
           ShellType == [at : Point, id : Nat, tries : Nat, denied : Nat, last : Nat]
<1>1. shell[s] \in ShellType
  BY DEF StoreTypeOK
<1>2. retried \in ShellType /\ retried.at = "count"
  <2> DEFINE rec == shell[s]
  <2>1. retried = [rec EXCEPT !.at = "count", !.tries = rec.tries + 1,
                              !.denied = d, !.last = rec.id]
    OBVIOUS
  <2>2. rec \in ShellType
    BY <1>1
  <2> HIDE DEF rec
  <2>3. rec.tries + 1 \in Nat /\ rec.id \in Nat /\ "count" \in Point
    BY <2>2 DEF Point
  <2> HIDE DEF retried
  <2> QED
    BY <2>1, <2>2, <2>3
<1>3. ended \in ShellType /\ ended.at = "failed"
  BY DEF Started, Point
<1>4. shell' = [shell EXCEPT ![s] = retried] \/ shell' = [shell EXCEPT ![s] = ended]
  BY Zenon DEF TryAgain, End
<1> HIDE DEF retried, ended
<1>5. retried.at \notin Writing /\ ended.at \notin Writing
  BY <1>2, <1>3 DEF Writing
<1> QED
  BY <1>2, <1>3, <1>4, <1>5 DEF StoreTypeOK

(* Counting (nextRunId) writes nothing.                                    *)
LEMMA CountKeeps ==
  ASSUME OwnInv, NEW s \in Shells, Count(s)
  PROVE  OwnInv'
<1>1. Cardinality(Existing) + 1 \in Nat
  BY FS_CardinalityType DEF OwnInv, FinitelyMany
<1>2. StoreTypeOK'
  BY <1>1 DEF Count, OwnInv, StoreTypeOK, Point, Existing
<1>3. Quiet
  BY DEF Count, Quiet, OwnInv, StoreTypeOK, Writing
<1> QED
  BY <1>2, <1>3, QuietKeeps DEF OwnInv

(* The exclusive mkdir gives a shell a directory nobody has.                *)
LEMMA ReserveKeeps ==
  ASSUME OwnInv, NEW s \in Shells, Reserve(s)
  PROVE  OwnInv'
<1> DEFINE id == shell[s].id
<1>1. /\ id \in Nat
      /\ id \notin Existing
      /\ Existing' = Existing \cup {id}
      /\ dir'[id] = [stage |-> "empty", by |-> {s}]
      /\ \A i \in Existing : dir'[i] = dir[i]
  BY DEF Reserve, OwnInv, StoreTypeOK, Existing
<1>2. shell'[s].at = "load" /\ shell'[s].id = id
  BY DEF Reserve, MoveTo, OwnInv, StoreTypeOK
<1>3. \A t \in Shells \ {s} : shell'[t] = shell[t]
  BY DEF Reserve, MoveTo, OwnInv, StoreTypeOK
<1>4. StoreTypeOK'
  <2>1. \A i \in Existing' : dir'[i] \in [stage : Stage, by : SUBSET Shells]
    <3>1. \A i \in Existing : dir[i] \in [stage : Stage, by : SUBSET Shells]
      BY DEF OwnInv, StoreTypeOK
    <3>2. dir'[id] \in [stage : Stage, by : SUBSET Shells]
      BY <1>1 DEF Stage
    <3> HIDE DEF id
    <3> QED BY <1>1, <3>1, <3>2
  <2>2. dir' = [i \in Existing' |-> dir'[i]]
    BY DEF Reserve, Existing
  <2>3. shell' \in [Shells -> [at : Point, id : Nat, tries : Nat, denied : Nat, last : Nat]]
    BY DEF Reserve, MoveTo, OwnInv, StoreTypeOK, Point
  <2> QED
    BY <1>1, <2>1, <2>2, <2>3 DEF Reserve, OwnInv, StoreTypeOK
<1>5. FinitelyMany'
  BY <1>1, FS_AddElement DEF OwnInv, FinitelyMany
<1>6. Mine'
  BY <1>1, <1>2, <1>3 DEF OwnInv, Mine
<1>7. OwnRunDirectory'
  BY <1>1 DEF OwnInv, OwnRunDirectory
<1> QED
  BY <1>4, <1>5, <1>6, <1>7 DEF OwnInv

(* A shell writes the next file into the directory it has alone.            *)
LEMMA WriteKeeps ==
  ASSUME OwnInv, NEW s \in Shells, NEW stage \in Stage, Write(s, stage),
         shell[s].at \in Writing,
         StoreTypeOK',
         shell'[s].at \in Writing => shell'[s].id = shell[s].id,
         \A t \in Shells \ {s} : shell'[t] = shell[t]
  PROVE  OwnInv'
<1> DEFINE id == shell[s].id
<1>1. /\ id \in Existing
      /\ dir[id].by = {s}
      /\ Existing' = Existing
      /\ dir'[id].by = {s}
      /\ \A i \in Existing \ {id} : dir'[i] = dir[i]
  BY DEF Write, OwnInv, Mine, StoreTypeOK, Existing
<1>2. FinitelyMany'
  BY <1>1 DEF OwnInv, FinitelyMany
<1>3. Mine'
  BY <1>1 DEF OwnInv, Mine
<1>4. OwnRunDirectory'
  BY <1>1 DEF OwnInv, OwnRunDirectory
<1> QED
  BY <1>2, <1>3, <1>4 DEF OwnInv

(* Every step keeps every shell with its own directory.                     *)
LEMMA NextOwn == OwnInv /\ [StoreNext]_storeVars => OwnInv'
<1> SUFFICES ASSUME OwnInv, [StoreNext]_storeVars PROVE OwnInv'
  OBVIOUS
<1> USE DEF OwnInv
<1>1. ASSUME NEW s \in Shells, Count(s) PROVE OwnInv'
  BY <1>1, CountKeeps
<1>2. ASSUME NEW s \in Shells, Reserve(s) PROVE OwnInv'
  BY <1>2, ReserveKeeps
<1>3. ASSUME NEW s \in Shells, Contended(s) PROVE OwnInv'
  <2>1. StoreTypeOK' /\ Quiet
    BY <1>3, TryAgainQuiet DEF Contended, StoreTypeOK, Quiet, Existing
  <2> QED
    BY <2>1, QuietKeeps
<1>4. ASSUME NEW s \in Shells, Denied(s) PROVE OwnInv'
  <2> DEFINE d == IF shell[s].id = shell[s].last THEN shell[s].denied + 1 ELSE 1
  <2>1. d \in Nat
    BY DEF StoreTypeOK
  <2>2. TryAgain(s, d) /\ dir' = dir /\ mishaps' \in Nat
    BY <1>4 DEF Denied, Mishap, StoreTypeOK
  <2>3. StoreTypeOK' /\ Quiet
    BY <2>1, <2>2, TryAgainQuiet DEF StoreTypeOK, Quiet, Existing
  <2> QED
    BY <2>3, QuietKeeps
<1>5. ASSUME NEW s \in Shells, Load(s) PROVE OwnInv'
  <2>1. StoreTypeOK'
    BY <1>5 DEF Load, MoveTo, End, Started, StoreTypeOK, Point, Existing
  <2>2. Quiet
    BY <1>5 DEF Load, MoveTo, End, Started, StoreTypeOK, Writing, Quiet
  <2> QED
    BY <2>1, <2>2, QuietKeeps
<1>6. ASSUME NEW s \in Shells, WriteYaml(s) PROVE OwnInv'
  <2>1. StoreTypeOK'
    BY <1>6 DEF WriteYaml, Write, MoveTo, StoreTypeOK, Point, Stage, Existing, Mine, Writing
  <2> QED
    BY <1>6, <2>1, WriteKeeps DEF WriteYaml, MoveTo, StoreTypeOK, Stage, Writing
<1>7. ASSUME NEW s \in Shells, AppendEvents(s) PROVE OwnInv'
  <2>1. StoreTypeOK'
    BY <1>7 DEF AppendEvents, Write, MoveTo, StoreTypeOK, Point, Stage, Existing, Mine, Writing
  <2> QED
    BY <1>7, <2>1, WriteKeeps DEF AppendEvents, MoveTo, StoreTypeOK, Stage, Writing
<1>8. ASSUME NEW s \in Shells, WriteState(s) PROVE OwnInv'
  <2>1. StoreTypeOK'
    BY <1>8 DEF WriteState, Write, End, Started, StoreTypeOK, Point, Stage, Existing, Mine, Writing
  <2> QED
    BY <1>8, <2>1, WriteKeeps DEF WriteState, End, Started, StoreTypeOK, Stage, Writing
<1>9. ASSUME NEW s \in Shells, CrashShell(s) PROVE OwnInv'
  <2>1. StoreTypeOK' /\ Quiet
    BY <1>9 DEF CrashShell, Mishap, End, Started, StoreTypeOK, Point, Writing, Quiet, Existing
  <2> QED
    BY <2>1, QuietKeeps
<1>10. ASSUME NEW id \in Existing, DeleteRun(id) PROVE OwnInv'
  <2>1. /\ Existing' = Existing \ {id}
        /\ \A i \in Existing' : dir'[i] = dir[i]
        /\ shell' = shell
    BY <1>10 DEF DeleteRun, Existing
  <2>2. StoreTypeOK'
    BY <1>10, <2>1 DEF DeleteRun, Mishap, StoreTypeOK, Existing
  <2>3. FinitelyMany'
    BY <2>1, FS_RemoveElement DEF FinitelyMany
  <2>4. Mine'
    BY <1>10, <2>1 DEF DeleteRun, Mine
  <2>5. OwnRunDirectory'
    BY <2>1 DEF OwnRunDirectory
  <2> QED
    BY <2>2, <2>3, <2>4, <2>5
<1>11. CASE UNCHANGED storeVars
  BY <1>11 DEF storeVars, StoreTypeOK, FinitelyMany, Mine, OwnRunDirectory, Existing
<1> QED
  BY <1>1, <1>2, <1>3, <1>4, <1>5, <1>6, <1>7, <1>8, <1>9, <1>10, <1>11 DEF StoreNext

(* Hence every shell always has a directory of its own.                     *)
LEMMA AlwaysOwn == StoreSpec => []OwnInv
BY InitOwn, NextOwn, PTL DEF StoreSpec

(* Every variable has its type.                                             *)
THEOREM StoreTyped == StoreSpec => []StoreTypeOK
<1>1. OwnInv => StoreTypeOK
  BY DEF OwnInv
<1> QED
  BY <1>1, AlwaysOwn, PTL

(* However many shells create runs at once, and whatever crashes, removed   *)
(* runs and denied mkdirs come between, the files of a run are written by a *)
(* single shell (reserveRunDirectory).                                      *)
THEOREM RunsAreOwned == StoreSpec => []OwnRunDirectory
<1>1. OwnInv => OwnRunDirectory
  BY DEF OwnInv
<1> QED
  BY <1>1, AlwaysOwn, PTL

(* --------------------------------- types ---------------------------------*)

Pointer(j) == 0..Steps[j]

VisitsOf(j) == [1..Steps[j] -> Nat]

Outcome == {"absent", "open", "failure", "success"}

RecordOf(j) == [status : JobStatus, attempt : Nat, last : Outcome,
                step : Pointer(j), visits : VisitsOf(j)]

RoutedJobs == {js \in [Jobs -> UNION {RecordOf(j) : j \in Jobs}] :
                 \A j \in Jobs : js[j] \in RecordOf(j)}

RoutedState == [run : RunStatus, job : RoutedJobs]

Start == [attempt : Nat, step : Nat, visit : Nat]

Points == {"idle", "start", "begin", "exec", "after", "route", "apply",
           "advRead", "advance", "commit"}

Events == {"job_completed", "job_blocked", "job_failed", "job_activated", "job_skipped",
           "agent_report_accepted"}

(* What is read of every variable has its type.                             *)
RoutingTypes ==
  /\ state \in RoutedState
  /\ copy \in [Jobs -> RoutedState]
  /\ task \in [Jobs -> Points]
  /\ route \in [Jobs -> Route]
  /\ started \in [Jobs -> Start]
  /\ jobLog \in [Jobs -> SUBSET Events]
  /\ loop \in {"read", "batch", "settle", "done", "deadlock"}
  /\ crashes \in Nat
  /\ again \subseteq Jobs
  /\ collided \in BOOLEAN

(* The parts of a state.                                                    *)
LEMMA StateParts ==
  ASSUME NEW s \in RoutedState
  PROVE  /\ s.run \in RunStatus /\ s.job \in RoutedJobs
         /\ s = [run |-> s.run, job |-> s.job]
         /\ \A j \in Jobs : s.job[j] \in RecordOf(j)
  BY DEF RoutedState, RoutedJobs

(* The parts of a record.                                                   *)
LEMMA RecordParts ==
  ASSUME NEW j \in Jobs, NEW rec \in RecordOf(j)
  PROVE  /\ rec.status \in JobStatus /\ rec.attempt \in Nat
         /\ rec.last \in Outcome
         /\ rec.step \in Pointer(j) /\ rec.visits \in VisitsOf(j)
         /\ rec.step \in 0..Steps[j] /\ rec.step \in Nat
         /\ Steps[j] \in Nat /\ 1 =< Steps[j]
         /\ rec.visits \in [1..Steps[j] -> Nat]
         /\ StepOf(rec) \in 1..Steps[j] /\ StepOf(rec) \in Nat
         /\ rec.visits[StepOf(rec)] \in Nat
         /\ AttemptOf(rec) \in Nat \ {0}
  <1>1. Steps[j] \in Nat \ {0}
    BY WorkflowAssumption
  <1>2. rec.step \in 0..Steps[j] /\ rec.visits \in [1..Steps[j] -> Nat]
    BY DEF RecordOf, Pointer, VisitsOf
  <1>3. StepOf(rec) \in 1..Steps[j]
    BY <1>1, <1>2 DEF StepOf
  <1> QED BY <1>1, <1>2, <1>3 DEF RecordOf, AttemptOf, Pointer, VisitsOf

(* A jobs map in which one record has been replaced.                        *)
LEMMA JobsSet ==
  ASSUME NEW js \in RoutedJobs, NEW j \in Jobs, NEW rec \in RecordOf(j)
  PROVE  /\ [js EXCEPT ![j] = rec] \in RoutedJobs
         /\ [js EXCEPT ![j] = rec][j] = rec
         /\ \A k \in Jobs \ {j} : [js EXCEPT ![j] = rec][k] = js[k]
  BY DEF RoutedJobs

(* A state in which one record has been replaced.                           *)
LEMMA StateSet ==
  ASSUME NEW s \in RoutedState, NEW j \in Jobs, NEW rec \in RecordOf(j)
  PROVE  /\ [s EXCEPT !.job[j] = rec] \in RoutedState
         /\ [s EXCEPT !.job[j] = rec].run = s.run
         /\ [s EXCEPT !.job[j] = rec].job = [s.job EXCEPT ![j] = rec]
         /\ [s EXCEPT !.job[j] = rec].job[j] = rec
         /\ \A k \in Jobs \ {j} : [s EXCEPT !.job[j] = rec].job[k] = s.job[k]
  <1>1. s.job \in RoutedJobs
    BY StateParts
  <1>2. [s EXCEPT !.job[j] = rec] = [run |-> s.run, job |-> [s.job EXCEPT ![j] = rec]]
    BY DEF RoutedState
  <1> HIDE DEF RoutedJobs
  <1>3. [s.job EXCEPT ![j] = rec] \in RoutedJobs
    BY <1>1, JobsSet
  <1> QED BY <1>1, <1>2, <1>3, JobsSet DEF RoutedState

(* A jobs map given record by record.                                       *)
LEMMA JobsMade ==
  ASSUME NEW js, js = [j \in Jobs |-> js[j]], \A j \in Jobs : js[j] \in RecordOf(j)
  PROVE  js \in RoutedJobs
  BY DEF RoutedJobs

(* The initial state is one.                                                *)
LEMMA InitStateTyped ==
  /\ InitState \in RoutedState
  /\ InitState.run = "none"
  /\ \A j \in Jobs : /\ InitState.job[j].status \in {"ready", "waiting", "inactive"}
                     /\ InitState.job[j].attempt \in {0, 1}
                     /\ InitState.job[j].step = 0
                     /\ \A k \in 1..Steps[j] : InitState.job[j].visits[k] = 0
  <1> DEFINE js == InitState.job
             zero(j) == [k \in 1..Steps[j] |-> 0]
  <1>1. InitState = [run |-> "none", job |-> js] /\ js = [j \in Jobs |-> js[j]]
    BY DEF InitState
  <1>2. \A j \in Jobs :
          js[j] = [status |-> js[j].status, attempt |-> js[j].attempt,
                   last |-> js[j].last, step |-> js[j].step, visits |-> js[j].visits]
    BY DEF InitState
  <1>3. \A j \in Jobs :
          /\ js[j].status \in {"ready", "waiting", "inactive"}
          /\ js[j].attempt \in {0, 1} /\ js[j].step = 0
          /\ js[j].visits = zero(j)
          /\ js[j].last \in {"open", "absent"}
    BY DEF InitState
  <1>4. \A j \in Jobs : /\ zero(j) \in VisitsOf(j) /\ 0 \in Pointer(j)
                        /\ \A k \in 1..Steps[j] : zero(j)[k] = 0
    BY WorkflowAssumption DEF VisitsOf, Pointer
  <1> HIDE DEF js, zero
  <1>5. \A j \in Jobs : js[j] \in RecordOf(j)
    <2> SUFFICES ASSUME NEW j \in Jobs PROVE js[j] \in RecordOf(j)
      OBVIOUS
    <2>1. /\ js[j].status \in JobStatus /\ js[j].attempt \in Nat
          /\ js[j].last \in Outcome /\ js[j].step \in Pointer(j)
          /\ js[j].visits \in VisitsOf(j)
      BY <1>3, <1>4 DEF JobStatus, Outcome
    <2> DEFINE new == js[j]
    <2>2. new = [status |-> new.status, attempt |-> new.attempt,
                 last |-> new.last, step |-> new.step, visits |-> new.visits]
      BY <1>2
    <2> HIDE DEF new
    <2>3. new \in RecordOf(j)
      BY <2>1, <2>2 DEF RecordOf, new
    <2> QED BY <2>3 DEF new
  <1>6. InitState \in RoutedState
    BY <1>1, <1>5, JobsMade DEF RoutedState, RunStatus
  <1> QED BY <1>1, <1>3, <1>4, <1>6

(* A job is as it was, or has become ready.                                 *)
Woken(new, old) ==
  \/ new = old
  \/ /\ old.status = "waiting" /\ new.status = "ready"
     /\ new.attempt = old.attempt /\ new.step = old.step /\ new.visits = old.visits

(* Jobs become ready that were waiting.                                     *)
LEMMA Propagated ==
  ASSUME NEW js \in RoutedJobs, NEW ready
  PROVE  LET t == PropagateReadiness(js, ready)
         IN  t \in RoutedJobs /\ \A k \in Jobs : Woken(t[k], js[k])
  <1> DEFINE t == PropagateReadiness(js, ready)
  <1>1. /\ t = [k \in Jobs |-> t[k]]
        /\ \A k \in Jobs : \/ t[k] = js[k]
                           \/ /\ js[k].status = "waiting"
                              /\ t[k] = [js[k] EXCEPT !.status = "ready"]
    BY DEF PropagateReadiness
  <1>2. \A k \in Jobs : js[k] \in RecordOf(k)
    BY DEF RoutedJobs
  <1> HIDE DEF t
  <1>3. \A k \in Jobs : t[k] \in RecordOf(k)
    <2> SUFFICES ASSUME NEW k \in Jobs, js[k].status = "waiting",
                        t[k] = [js[k] EXCEPT !.status = "ready"]
                 PROVE  t[k] \in RecordOf(k)
      BY <1>1, <1>2
    <2>1. js[k] \in RecordOf(k)
      BY <1>2
    <2> QED BY <2>1 DEF RecordOf, JobStatus
  <1>4. t \in RoutedJobs
    BY <1>1, <1>3, JobsMade
  <1>5. \A k \in Jobs : Woken(t[k], js[k])
    <2> SUFFICES ASSUME NEW k \in Jobs, js[k].status = "waiting",
                        t[k] = [js[k] EXCEPT !.status = "ready"]
                 PROVE  Woken(t[k], js[k])
      BY <1>1 DEF Woken
    <2>1. js[k] \in RecordOf(k)
      BY <1>2
    <2> QED BY <2>1 DEF RecordOf, Woken
  <1> QED BY <1>4, <1>5 DEF t

(* The job runs.                                                            *)
LEMMA RunningTyped ==
  ASSUME NEW s \in RoutedState, NEW j \in Jobs
  PROVE  LET t == Running(s, j)
         IN  /\ t \in RoutedState /\ t.run = s.run
             /\ \A k \in Jobs \ {j} : t.job[k] = s.job[k]
             /\ t.job[j].status = "running"
             /\ t.job[j].attempt = AttemptOf(s.job[j])
             /\ t.job[j].step = StepOf(s.job[j])
             /\ t.job[j].visits = s.job[j].visits
  <1> DEFINE rec == s.job[j]
             new == [rec EXCEPT !.status = "running", !.step = StepOf(rec),
                                !.attempt = AttemptOf(rec)]
  <1>1. rec \in RecordOf(j)
    BY StateParts
  <1>2. Running(s, j) = [s EXCEPT !.job[j] = new]
    BY DEF Running
  <1> HIDE DEF rec
  <1>3. /\ StepOf(rec) \in Pointer(j) /\ AttemptOf(rec) \in Nat
    BY <1>1, RecordParts DEF Pointer
  <1>4. /\ new \in RecordOf(j) /\ new.status = "running" /\ new.attempt = AttemptOf(rec)
        /\ new.step = StepOf(rec) /\ new.visits = rec.visits
    BY <1>1, <1>3 DEF RecordOf, JobStatus
  <1> HIDE DEF new
  <1> QED BY <1>2, <1>4, StateSet DEF rec

(* The status of one job is set.                                            *)
LEMMA StatusTyped ==
  ASSUME NEW s \in RoutedState, NEW j \in Jobs, NEW st \in JobStatus
  PROVE  LET t == WithJobStatus(s, j, st)
         IN  /\ t \in RoutedState /\ t.run = s.run
             /\ \A k \in Jobs \ {j} : t.job[k] = s.job[k]
             /\ t.job[j] = [s.job[j] EXCEPT !.status = st]
             /\ t.job[j].status = st
  <1> DEFINE rec == s.job[j]
             new == [rec EXCEPT !.status = st]
  <1>1. rec \in RecordOf(j)
    BY StateParts
  <1>2. WithJobStatus(s, j, st) = [s EXCEPT !.job[j] = new]
    BY DEF WithJobStatus
  <1> HIDE DEF rec
  <1>4. new \in RecordOf(j) /\ new.status = st
    BY <1>1 DEF RecordOf
  <1>5. /\ [s EXCEPT !.job[j] = new] \in RoutedState
        /\ [s EXCEPT !.job[j] = new].run = s.run
        /\ [s EXCEPT !.job[j] = new].job[j] = new
        /\ \A k \in Jobs \ {j} : [s EXCEPT !.job[j] = new].job[k] = s.job[k]
    <2> HIDE DEF new
    <2> QED BY <1>4, StateSet
  <1> QED BY <1>2, <1>4, <1>5 DEF rec

(* A visit is counted at the step it goes to; one too many blocks the job.  *)
LEMMA VisitTyped ==
  ASSUME NEW j \in Jobs, NEW rec \in RecordOf(j), NEW k \in 1..Steps[j]
  PROVE  LET new == Visit(rec, k)
         IN  /\ new \in RecordOf(j)
             /\ new.attempt = rec.attempt /\ new.last = rec.last /\ new.step = k
             /\ new.visits[k] = rec.visits[k] + 1
             /\ \A i \in 1..Steps[j] \ {k} : new.visits[i] = rec.visits[i]
             /\ \/ new.status = "blocked"
                \/ new.status = rec.status /\ new.visits[k] =< MaxVisits
  <1> DEFINE n == rec.visits[k] + 1
             vs == [rec.visits EXCEPT ![k] = n]
             st == IF n > MaxVisits THEN "blocked" ELSE rec.status
             new == [rec EXCEPT !.status = st, !.step = k, !.visits = vs]
  <1>1. /\ rec.visits \in [1..Steps[j] -> Nat] /\ rec.visits[k] \in Nat
        /\ rec.status \in JobStatus /\ Steps[j] \in Nat
    BY RecordParts
  <1>2. Visit(rec, k) = new
    BY DEF Visit, RecordOf
  <1>3. /\ n \in Nat /\ vs \in VisitsOf(j) /\ vs[k] = n /\ k \in Pointer(j)
        /\ \A i \in 1..Steps[j] \ {k} : vs[i] = rec.visits[i]
    BY <1>1 DEF VisitsOf, Pointer
  <1>4. st \in JobStatus /\ (st = "blocked" \/ (st = rec.status /\ n =< MaxVisits))
    BY <1>1, RoutingAssumption DEF JobStatus
  <1> HIDE DEF st, vs
  <1>5. /\ new \in RecordOf(j) /\ new.attempt = rec.attempt /\ new.last = rec.last
        /\ new.step = k /\ new.status = st /\ new.visits = vs
    BY <1>1, <1>3, <1>4 DEF RecordOf
  <1> HIDE DEF new
  <1>6. vs[k] = rec.visits[k] + 1
    BY <1>3
  <1> HIDE DEF n
  <1> QED BY <1>2, <1>3, <1>4, <1>5, <1>6

(* The record of a job that is closed: only its status, the outcome of its  *)
(* last attempt and its step pointer have changed.                          *)
ClosedAs(new, old, st) ==
  /\ new.status = st /\ new.attempt = old.attempt /\ new.visits = old.visits
  /\ new.step \in {old.step, 0}

(* Sealing an attempt changes its outcome only.                             *)
LEMMA Sealed ==
  ASSUME NEW j \in Jobs, NEW rec \in RecordOf(j), NEW st \in JobStatus,
         NEW kept \in {SealSuccess(rec), SealFailure(rec), rec}
  PROVE  LET new == [kept EXCEPT !.status = st, !.step = 0]
         IN  new \in RecordOf(j) /\ ClosedAs(new, rec, st)
  <1> DEFINE new == [kept EXCEPT !.status = st, !.step = 0]
  <1>1. /\ kept \in RecordOf(j)
        /\ kept.attempt = rec.attempt /\ kept.visits = rec.visits
    BY DEF SealSuccess, SealFailure, RecordOf, Outcome
  <1>2. 0 \in Pointer(j)
    BY WorkflowAssumption DEF Pointer
  <1>3. /\ new \in RecordOf(j) /\ new.status = st /\ new.step = 0
        /\ new.attempt = kept.attempt /\ new.visits = kept.visits
    BY <1>1, <1>2 DEF RecordOf
  <1> HIDE DEF new
  <1>4. new \in RecordOf(j) /\ ClosedAs(new, rec, st)
    BY <1>1, <1>3 DEF ClosedAs
  <1> QED BY <1>4 DEF new

(* What closing j, and letting others become ready, makes of the state s.   *)
Settling(t, s, j) ==
  /\ t \in RoutedState
  /\ ClosedAs(t.job[j], s.job[j], "completed")
  /\ \A k \in Jobs \ {j} : Woken(t.job[k], s.job[k])
  /\ \/ t.run = s.run
     \/ t.run = "completed" /\ \A k \in Jobs : t.job[k].status \in {"completed", "inactive"}

(* Closing a job with rec.                                                  *)
LEMMA SettlingWith ==
  ASSUME NEW s \in RoutedState, NEW j \in Jobs, NEW rec \in RecordOf(j),
         ClosedAs(rec, s.job[j], "completed"), NEW ready
  PROVE  LET js == PropagateReadiness([s.job EXCEPT ![j] = rec], ready)
         IN  Settling([run |-> IF \A k \in Jobs : js[k].status \in {"completed", "inactive"}
                               THEN "completed" ELSE s.run,
                       job |-> js], s, j)
  <1> DEFINE done == [s.job EXCEPT ![j] = rec]
             js == PropagateReadiness(done, ready)
             r == IF \A k \in Jobs : js[k].status \in {"completed", "inactive"}
                  THEN "completed" ELSE s.run
             t == [run |-> r, job |-> js]
  <1>1. /\ s.job \in RoutedJobs /\ s.run \in RunStatus
    BY StateParts
  <1>2. /\ done \in RoutedJobs /\ done[j] = rec
        /\ \A k \in Jobs \ {j} : done[k] = s.job[k]
    BY <1>1, JobsSet
  <1> HIDE DEF done
  <1>3. js \in RoutedJobs /\ \A k \in Jobs : Woken(js[k], done[k])
    BY <1>2, Propagated
  <1> HIDE DEF js
  <1>4. js[j] = rec
    BY <1>2, <1>3 DEF Woken, ClosedAs
  <1>5. /\ r \in RunStatus
        /\ \/ r = s.run
           \/ r = "completed" /\ \A k \in Jobs : js[k].status \in {"completed", "inactive"}
    BY <1>1 DEF RunStatus
  <1> HIDE DEF r
  <1>6. t \in RoutedState /\ t.run = r /\ t.job = js
    BY <1>3, <1>5 DEF RoutedState
  <1> HIDE DEF t
  <1>7. Settling(t, s, j)
    BY <1>2, <1>3, <1>4, <1>5, <1>6 DEF Settling
  <1> QED BY <1>7 DEF t, r, js, done

(* A check that passes settles the run on its copy, ...                     *)
LEMMA CheckedTyped ==
  ASSUME NEW j \in Jobs, copy[j] \in RoutedState
  PROVE  Settling(CheckedState(j), copy[j], j)
  <1> DEFINE s == copy[j]
             rec == [s.job[j] EXCEPT !.status = "completed"]
             done == [s.job EXCEPT ![j] = rec]
  <1>1. s.job[j] \in RecordOf(j) /\ s.job \in RoutedJobs
    BY StateParts
  <1>2. rec \in RecordOf(j) /\ ClosedAs(rec, s.job[j], "completed")
    BY <1>1 DEF RecordOf, ClosedAs, JobStatus
  <1>3. [s.job EXCEPT ![j].status = "completed"] = done
    OBVIOUS
  <1>4. CheckedState(j) =
          [run |-> IF \A k \in Jobs : PropagateReadiness(done, ReadyJobs(done))[k].status
                                         \in {"completed", "inactive"}
                   THEN "completed" ELSE s.run,
           job |-> PropagateReadiness(done, ReadyJobs(done))]
    BY <1>3 DEF CheckedState
  <1> HIDE DEF rec, s
  <1>5. copy[j] = s /\ s \in RoutedState
    BY DEF s
  <1> QED BY <1>2, <1>4, <1>5, SettlingWith

(* ... and transitionCompletedJob on the state.                             *)
LEMMA CompleteTyped ==
  ASSUME NEW s \in RoutedState, NEW j \in Jobs
  PROVE  Settling(CompleteJob(s, j), s, j) /\ CompleteJob(s, j).job[j].step = 0
  <1> DEFINE rec == [SealSuccess(s.job[j]) EXCEPT !.status = "completed", !.step = 0]
             done == [s.job EXCEPT ![j] = rec]
  <1>1. s.job[j] \in RecordOf(j)
    BY StateParts
  <1>2. rec \in RecordOf(j) /\ ClosedAs(rec, s.job[j], "completed")
    BY <1>1, Sealed DEF JobStatus
  <1>4. CompleteJob(s, j) =
          [run |-> IF \A k \in Jobs : PropagateReadiness(done, ReadyJobs(done))[k].status
                                         \in {"completed", "inactive"}
                   THEN "completed" ELSE s.run,
           job |-> PropagateReadiness(done, ReadyJobs(done))]
    BY DEF CompleteJob
  <1>5. rec.step = 0
    BY <1>1 DEF SealSuccess, RecordOf
  <1> HIDE DEF rec
  <1>6. Settling(CompleteJob(s, j), s, j)
    BY <1>2, <1>4, SettlingWith
  <1>7. CompleteJob(s, j).job[j].step = 0
    <2>1. s.job \in RoutedJobs
      BY StateParts
    <2>2. done[j] = rec
      BY <2>1 DEF RoutedJobs
    <2>3. PropagateReadiness(done, ReadyJobs(done))[j] \in {rec, [rec EXCEPT !.status = "ready"]}
      BY <2>2 DEF PropagateReadiness
    <2>4. [rec EXCEPT !.status = "ready"].step = rec.step
      BY <1>2 DEF RecordOf
    <2> DEFINE js == PropagateReadiness(done, ReadyJobs(done))
    <2>5. CompleteJob(s, j).job = js
      BY <1>4
    <2> HIDE DEF js
    <2>6. js[j].step = 0
      BY <1>5, <2>3, <2>4 DEF js
    <2> QED BY <2>5, <2>6
  <1> QED BY <1>6, <1>7

(* A job enters the run ready for its first attempt, or waiting.            *)
LEMMA EnteringTyped ==
  ASSUME NEW js \in RoutedJobs, NEW t \in Jobs
  PROVE  LET new == Entering(js, t)
         IN  /\ new \in RecordOf(t) /\ new.status \in {"ready", "waiting"}
             /\ new.step = js[t].step /\ new.visits = js[t].visits
             /\ new.attempt \in {js[t].attempt, 1}
  <1> DEFINE rec == js[t]
             first == [rec EXCEPT !.status = "ready", !.attempt = 1, !.last = "open"]
             later == [rec EXCEPT !.status = "waiting"]
  <1>1. rec \in RecordOf(t)
    BY DEF RoutedJobs
  <1>2. Entering(js, t) \in {first, later}
    BY DEF Entering
  <1> HIDE DEF rec
  <1>3. /\ first \in RecordOf(t) /\ first.status = "ready" /\ first.attempt = 1
        /\ first.step = rec.step /\ first.visits = rec.visits
    BY <1>1 DEF RecordOf, JobStatus, Outcome
  <1>4. /\ later \in RecordOf(t) /\ later.status = "waiting" /\ later.attempt = rec.attempt
        /\ later.step = rec.step /\ later.visits = rec.visits
    BY <1>1 DEF RecordOf, JobStatus
  <1> HIDE DEF first, later
  <1> QED BY <1>2, <1>3, <1>4 DEF rec

(* What advanceJob starts from: the record, with a pointer.                 *)
LEMMA AdvancingTyped ==
  ASSUME NEW j \in Jobs, copy[j] \in RoutedState
  PROVE  LET rec == copy[j].job[j]
             new == Advancing(j)
         IN  /\ new \in RecordOf(j) /\ new.step \in 1..Steps[j]
             /\ new.attempt = rec.attempt
             /\ \A i \in 1..Steps[j] : new.visits[i] = rec.visits[i] \/ new.visits[i] =< MaxVisits
                                        \/ new.status = "blocked"
             /\ new.status \in {rec.status, "blocked"}
             /\ rec.step # 0 => new.step = rec.step /\ new.visits = rec.visits
                                /\ new.status = rec.status
  <1> DEFINE rec == copy[j].job[j]
             set == [rec EXCEPT !.step = StepOf(rec)]
             new == Advancing(j)
  <1>1. rec \in RecordOf(j)
    BY StateParts
  <1>2. \/ rec.step = 0 /\ new = Visit(rec, 1)
        \/ new = set
    BY DEF Advancing
  <1> HIDE DEF rec, new
  <1>3. /\ 1 \in 1..Steps[j] /\ StepOf(rec) \in 1..Steps[j] /\ StepOf(rec) \in Pointer(j)
        /\ rec.step # 0 => StepOf(rec) = rec.step
    BY <1>1, RecordParts DEF Pointer, StepOf
  <1>4. /\ set \in RecordOf(j) /\ set.step = StepOf(rec) /\ set.attempt = rec.attempt
        /\ set.visits = rec.visits /\ set.status = rec.status
    BY <1>1, <1>3 DEF RecordOf
  <1> HIDE DEF set
  <1>5. CASE new = set
    BY <1>3, <1>4, <1>5 DEF rec, new
  <1>6. CASE rec.step = 0 /\ new = Visit(rec, 1)
    <2>1. /\ new \in RecordOf(j) /\ new.attempt = rec.attempt /\ new.step = 1
          /\ \A i \in 1..Steps[j] \ {1} : new.visits[i] = rec.visits[i]
          /\ \/ new.status = "blocked"
             \/ new.status = rec.status /\ new.visits[1] =< MaxVisits
      BY <1>1, <1>3, <1>6, VisitTyped
    <2> QED BY <1>3, <1>6, <2>1 DEF rec, new
  <1> QED BY <1>2, <1>5, <1>6

(* ---------------------------------- rows ---------------------------------*)

untouched == <<loop, crashes>>

(* The task of j goes from one point to another, and no other task moves.   *)
Moves(j, from, to) ==
  /\ task[j] \in from /\ task'[j] \in to
  /\ \A k \in Jobs \ {j} : task'[k] = task[k] /\ copy'[k] = copy[k] /\ route'[k] = route[k]
  /\ UNCHANGED untouched

(* Its copy has replaced the state.                                         *)
Overwrites(j) == collided' = (collided \/ state # copy[j] \/ RoutesLive(j))

OthersAs(s, j) == \A k \in Jobs \ {j} : state'.job[k] = s.job[k]

(* A router or check sends a run to another job only; the route a task      *)
(* applies was not refused ...                                              *)
Carried(r) == r.via \in {"case", "pass", "fail"} => r.do \in JobRoute

Applicable ==
  \A j \in Jobs : /\ task[j] \in {"route", "apply"} => Carried(route[j])
                  /\ task[j] = "apply" => ~Refused(j, copy[j])

(* ... and is one of its job's.                                             *)
ChosenFor(j, r) == Carried(r) /\ \E k \in 1..Steps[j] : r \in Routes[j][k]

Chosen ==
  \A j \in Jobs : /\ task[j] \in {"route", "apply"} => ChosenFor(j, route[j])
                  /\ task[j] = "apply" => ~Refused(j, copy[j])

(* What one step of the task of j may be: it looks, ...                     *)
Looks(j) ==
  /\ UNCHANGED <<state, seen, collided>>
  /\ \/ Moves(j, {"exec"}, {"advRead"}) /\ copy'[j] = copy[j] /\ KindAt(j, copy[j]) = "agent"
     \/ /\ Moves(j, {"exec"}, {"route"})
        /\ copy'[j] = copy[j] /\ ChosenFor(j, route'[j])
        /\ KindAt(j, copy[j]) # "agent" => route'[j].via \in {"case", "pass", "fail"}
     \/ Moves(j, {"start"}, {"begin"}) /\ copy'[j] = state
     \/ /\ Moves(j, {"route"}, {"apply"})
        /\ copy'[j] = state /\ route'[j] = route[j] /\ ~Refused(j, state)
     \/ Moves(j, {"advRead"}, {"advance"}) /\ copy'[j] = state
     \/ /\ Moves(j, {"after"}, {"advRead"})
        /\ copy'[j] = copy[j] /\ state.job[j].status = "running"
     \/ /\ Moves(j, {"after"}, {"idle"})
        /\ copy'[j] = InitState /\ state.job[j].status # "running"
     \/ /\ Moves(j, {"advance"}, {"idle"})
        /\ copy'[j] = InitState /\ copy[j].job[j].status \in Finished
     \/ /\ Moves(j, {"advance"}, {"commit"})
        /\ copy'[j] = copy[j] /\ copy[j].job[j].status \notin Finished

(* ... is rejected, ...                                                     *)
Rejects(j) ==
  /\ Moves(j, {"begin", "exec", "route"}, {"idle"})
  /\ copy'[j] = InitState /\ Excuse(j)
  /\ UNCHANGED <<state, collided>>

(* ... starts its step, on the state or on its copy, ...                    *)
Begun(j, s) ==
  /\ state' = Running(s, j)
  /\ Starts(j, s.job[j])
  /\ copy'[j] \in {s, Running(s, j)}

Begins(j) ==
  \/ /\ Moves(j, {"start"}, {"exec"}) /\ KindAt(j, state) = "agent"
     /\ Begun(j, state) /\ UNCHANGED collided
  \/ /\ Moves(j, {"begin"}, {"exec"}) /\ copy'[j] = state'
     /\ Begun(j, copy[j]) /\ Overwrites(j)

(* ... ends it, ...                                                         *)
Closed(j, s) ==
  /\ \/ \E st \in Finished : ClosedAs(state'.job[j], s.job[j], st)
     \/ ClosedAs(state'.job[j], s.job[j], "running") /\ state'.job[j].step = s.job[j].step
  /\ \A k \in Jobs \ {j} : Woken(state'.job[k], s.job[k])
  /\ \/ state'.run = s.run
     \/ /\ state'.run = "completed"
        /\ \A k \in Jobs : state'.job[k].status \in {"completed", "inactive"}

Closes(j) ==
  /\ UNCHANGED seen
  /\ \/ /\ Moves(j, {"exec"}, {"after"}) /\ copy'[j] = copy[j]
        /\ Closed(j, copy[j]) /\ Overwrites(j)
     \/ /\ Moves(j, {"commit"}, {"idle"}) /\ copy'[j] = InitState
        /\ Closed(j, state) /\ state'.job[j].status = "completed"
        /\ state'.job[j].step = 0 /\ UNCHANGED collided

(* ... goes to another step, or is blocked by its visits, ...               *)
Elsewhere(j, new, old) ==
  /\ new.attempt = old.attempt /\ new.step \in 1..Steps[j]
  /\ \/ new.status = "blocked"
     \/ /\ new.status = old.status
        /\ old.step # 0 => \/ new.step # old.step
                          \/ new.visits[new.step] # old.visits[old.step]
        /\ \A i \in 1..Steps[j] : new.visits[i] = old.visits[i] \/ new.visits[i] =< MaxVisits
        /\ \/ new.visits[new.step] =< MaxVisits
           \/ \E k \in 2..(Steps[j] - 1) : <<j, k>> \in Conditional

Passes(j) ==
  /\ UNCHANGED seen
  /\ Moves(j, {"advance", "apply"}, {"idle"}) /\ copy'[j] = InitState
  /\ task[j] = "apply" => route[j].do = "goto_step"
  /\ copy[j].job[j].status \notin Finished
  /\ Elsewhere(j, state'.job[j], copy[j].job[j])
  /\ OthersAs(copy[j], j) /\ state'.run = copy[j].run
  /\ Overwrites(j)

(* ... or applies a route, with its own job closed, or with another record  *)
(* for the target.                                                          *)
RouteEnds(j) ==
  \/ /\ Moves(j, {"apply"}, {"after", "advRead"})
     /\ copy'[j] = copy[j] /\ UNCHANGED seen
     /\ task'[j] = "advRead" => route[j].do = "continue" \/ route[j].via \in {"output", "signal"}
  \/ /\ Moves(j, {"apply"}, {"idle"})
     /\ copy'[j] = InitState /\ UNCHANGED seen
     /\ route[j].do \notin {"continue", "retry_job", "activate_job"}
  \/ /\ Moves(j, {"apply"}, {"idle"})
     /\ copy'[j] = InitState /\ Excuse(j)
     /\ route[j].do \in {"retry_job", "activate_job"}

(* The jobs that a route may send back for another attempt.                 *)
Retried == {t \in Jobs : /\ MaxAttempts[t] > 1
                         /\ \E j \in Jobs : \E k \in 1..Steps[j] : \E r \in Routes[j][k] :
                              r.do = "retry_job" /\ r.at = t}

Stopped(j) ==
  /\ route[j].do \in {"fail", "block"}
  /\ \E st \in {"failed", "blocked"} : ClosedAs(state'.job[j], copy[j].job[j], st)
  /\ OthersAs(copy[j], j)

Again(j, t) ==
  /\ route[j].do = "retry_job" /\ route[j].at = t /\ MaxAttempts[t] > 1
  /\ state'.job[t].status = "ready" /\ state'.job[t].step = 0
  /\ state'.job[t].attempt = AttemptOf(copy[j].job[t]) + 1
  /\ OthersAs(copy[j], t)

Exceeds(j, t) ==
  /\ route[j].do = "retry_job" /\ route[j].at = t
  /\ \E st \in {"failed", "blocked"} : ClosedAs(state'.job[t], copy[j].job[t], st)
  /\ state'.job[t].step = 0
  /\ OthersAs(copy[j], t)

Enters(new, old) ==
  /\ new.status \in {"ready", "waiting"} /\ new.attempt \in {old.attempt, 1}
  /\ new.step = old.step /\ new.visits = old.visits

Activates(j, t) ==
  /\ route[j].do = "activate_job" /\ route[j].at = t
  /\ copy[j].job[t].status = "inactive"
  /\ Enters(state'.job[t], copy[j].job[t])
  /\ OthersAs(copy[j], t)

Jumps(j, t) ==
  /\ route[j].do = "goto_job" /\ route[j].at = t
  /\ copy[j].job[t].status \in {"inactive", "waiting", "ready"}
  /\ IF t = j THEN /\ state'.job[t].status \in {"ready", "waiting"}
                   /\ state'.job[t].step = 0
                   /\ state'.job[t].visits = copy[j].job[t].visits
     ELSE /\ Enters(state'.job[t], copy[j].job[t])
          /\ ClosedAs(state'.job[j], copy[j].job[j], "completed")
          /\ state'.job[j].step = 0
  /\ \A k \in Jobs \ {j, t} : state'.job[k] = copy[j].job[k]

RouteOf(j) ==
  /\ RouteEnds(j) /\ Overwrites(j)
  /\ state'.run = copy[j].run
  /\ \/ route[j].do \in {"continue", "activate_job"} /\ state' = copy[j]
     \/ Stopped(j)
     \/ \E t \in Jobs : Again(j, t) \/ Exceeds(j, t) \/ Activates(j, t) \/ Jumps(j, t)

Row(j) == Looks(j) \/ Rejects(j) \/ Begins(j) \/ Closes(j) \/ Passes(j) \/ RouteOf(j)

(* ------------------------ every step is one of them ----------------------*)

TasksTyped ==
  /\ task' \in [Jobs -> Points] /\ copy' \in [Jobs -> RoutedState]
  /\ route' \in [Jobs -> Route]

(* The task of j moves, and perhaps its copy and its route change.          *)
LEMMA Moved ==
  ASSUME RoutingTypes, NEW j \in Jobs, NEW p \in Points, NEW c \in RoutedState,
         NEW r \in Route,
         task' = [task EXCEPT ![j] = p],
         copy' \in {copy, [copy EXCEPT ![j] = c]},
         route' \in {route, [route EXCEPT ![j] = r]},
         UNCHANGED untouched, NEW from, task[j] \in from, NEW to, p \in to
  PROVE  TasksTyped /\ Moves(j, from, to)
  BY DEF RoutingTypes, TasksTyped, Moves

(* The task of j settles.                                                   *)
LEMMA Finished1 ==
  ASSUME RoutingTypes, NEW j \in Jobs, Finish(j), UNCHANGED untouched,
         NEW from, task[j] \in from
  PROVE  /\ TasksTyped /\ Moves(j, from, {"idle"})
         /\ copy'[j] = InitState
  <1>1. NoRoute \in Route
    BY DEF NoRoute, Route, PlainRoute, Carrier
  <1>2. "idle" \in Points
    BY DEF Points
  <1>3. TasksTyped /\ Moves(j, from, {"idle"})
    BY <1>1, <1>2, InitStateTyped, Moved DEF Finish
  <1>4. copy'[j] = InitState
    BY DEF Finish, RoutingTypes
  <1> QED BY <1>3, <1>4

(* The task of j goes on, with its copy or with the state.                  *)
LEMMA Went ==
  ASSUME RoutingTypes, NEW j \in Jobs, NEW p \in Points, GoTo(j, p),
         NEW c \in RoutedState, copy' \in {copy, [copy EXCEPT ![j] = c]},
         UNCHANGED untouched, NEW from, task[j] \in from, NEW to, p \in to
  PROVE  TasksTyped /\ Moves(j, from, to)
  <1>1. route[j] \in Route
    BY DEF RoutingTypes
  <1> QED BY <1>1, Moved DEF GoTo

(* History keeps its types.                                                 *)
LEMMA SeenTyped ==
  ASSUME RoutingTypes, NEW j \in Jobs
  PROVE  /\ UNCHANGED seen \/ Excuse(j)
              => started' \in [Jobs -> Start] /\ again' \subseteq Jobs
         /\ \A rec \in RecordOf(j) :
              Starts(j, rec) => started' \in [Jobs -> Start] /\ again' \subseteq Jobs
  <1>1. started \in [Jobs -> Start] /\ again \subseteq Jobs
    BY DEF RoutingTypes
  <1>2. UNCHANGED seen => started' \in [Jobs -> Start] /\ again' \subseteq Jobs
    BY <1>1 DEF seen
  <1>3. Excuse(j) => started' \in [Jobs -> Start] /\ again' \subseteq Jobs
    BY <1>1 DEF Excuse, Start
  <1>4. ASSUME NEW rec \in RecordOf(j), Starts(j, rec)
        PROVE  started' \in [Jobs -> Start] /\ again' \subseteq Jobs
    <2> DEFINE visit == [attempt |-> AttemptOf(rec), step |-> StepOf(rec),
                         visit   |-> rec.visits[StepOf(rec)]]
    <2>1. visit \in Start
      BY RecordParts DEF Start
    <2>2. /\ started' = [started EXCEPT ![j] = visit]
          /\ again' = IF started[j] = visit THEN again \cup {j} ELSE again
      BY <1>4 DEF Starts
    <2> HIDE DEF visit
    <2> QED BY <1>1, <2>1, <2>2
  <1> QED BY <1>2, <1>3, <1>4

(* So do the log and the flag.                                              *)
LEMMA LogTyped ==
  ASSUME RoutingTypes
  PROVE  /\ jobLog' = jobLog \/ (\E t \in Jobs : \E e \in Events : Log(t, e))
              => jobLog' \in [Jobs -> SUBSET Events]
         /\ \A j \in Jobs : Overwrites(j) \/ UNCHANGED collided => collided' \in BOOLEAN
         /\ UNCHANGED untouched => /\ loop' \in {"read", "batch", "settle", "done", "deadlock"}
                                  /\ crashes' \in Nat
  BY DEF RoutingTypes, Log, Overwrites, Events, untouched

(* All types together.                                                      *)
LEMMA TypesTogether ==
  ASSUME RoutingTypes, NEW j \in Jobs,
         TasksTyped, state' \in RoutedState,
         UNCHANGED seen \/ Excuse(j) \/ \E rec \in RecordOf(j) : Starts(j, rec),
         jobLog' = jobLog \/ (\E t \in Jobs : \E e \in Events : Log(t, e)),
         Overwrites(j) \/ UNCHANGED collided,
         UNCHANGED untouched
  PROVE  RoutingTypes'
  <1>1. started' \in [Jobs -> Start] /\ again' \subseteq Jobs
    BY SeenTyped
  <1>2. /\ jobLog' \in [Jobs -> SUBSET Events] /\ collided' \in BOOLEAN
        /\ loop' \in {"read", "batch", "settle", "done", "deadlock"} /\ crashes' \in Nat
    BY LogTyped
  <1> QED BY <1>1, <1>2 DEF TasksTyped, RoutingTypes, Events

(* The routes a step may ask for are its job's.                             *)
LEMMA RoutesTyped ==
  ASSUME RoutingTypes, NEW j \in Jobs, NEW via, NEW r \in RoutesOf(j, via)
  PROVE  /\ r \in Route /\ r.via = via
         /\ \E k \in 1..Steps[j] : r \in Routes[j][k]
         /\ via \in {"pass", "fail"} => r.do \in JobRoute
  <1>1. copy[j].job[j] \in RecordOf(j)
    BY StateParts DEF RoutingTypes
  <1>2. StepOf(copy[j].job[j]) \in 1..Steps[j]
    BY <1>1, RecordParts
  <1>3. r \in Routes[j][StepOf(copy[j].job[j])] /\ r.via = via
    BY DEF RoutesOf
  <1> QED BY <1>2, <1>3, RoutingAssumption

(* A task that is rejected.                                                 *)
LEMMA RejectRow ==
  ASSUME RoutingTypes, NEW j \in Jobs, Reject(j), task[j] \in {"begin", "exec", "route"}
  PROVE  RoutingTypes' /\ Row(j)
  <1>1. /\ Excuse(j) /\ Finish(j) /\ state' = state /\ jobLog' = jobLog
        /\ UNCHANGED untouched /\ UNCHANGED collided
    BY DEF Reject, disk, main, untouched
  <1>2. /\ TasksTyped /\ Moves(j, {"begin", "exec", "route"}, {"idle"})
        /\ copy'[j] = InitState
    BY <1>1, Finished1
  <1>3. state' \in RoutedState
    BY <1>1 DEF RoutingTypes
  <1>4. RoutingTypes'
    BY <1>1, <1>2, <1>3, TypesTogether
  <1>5. Rejects(j)
    BY <1>1, <1>2 DEF Rejects
  <1> QED BY <1>4, <1>5 DEF Row

(* A step of the step executor.                                             *)
LEMMA StepRow ==
  ASSUME RoutingTypes, NEW j \in Jobs, Step(j)
  PROVE  RoutingTypes' /\ Row(j)
  <1>0. /\ state \in RoutedState /\ copy[j] \in RoutedState /\ route[j] \in Route
        /\ copy \in [Jobs -> RoutedState] /\ route \in [Jobs -> Route] /\ task \in [Jobs -> Points]
        /\ state.job[j] \in RecordOf(j) /\ copy[j].job[j] \in RecordOf(j)
    BY StateParts DEF RoutingTypes
  <1>p. {"exec", "advRead", "route", "begin", "after"} \subseteq Points
    BY DEF Points
  <1>j. JobStatus = Finished \cup {"ready", "waiting", "inactive", "running"}
    BY DEF JobStatus, Finished
  <1>1. CASE AgentStart(j)
    <2>1. /\ task[j] = "start" /\ state' = Running(state, j) /\ Starts(j, state.job[j])
          /\ copy' = [copy EXCEPT ![j] = state] /\ GoTo(j, "exec")
          /\ jobLog' = jobLog /\ UNCHANGED untouched /\ UNCHANGED collided
      BY <1>1 DEF AgentStart, At, main, untouched
    <2>2. TasksTyped /\ Moves(j, {"start"}, {"exec"})
      BY <1>0, <1>p, <2>1, Went
    <2>3. state' \in RoutedState /\ copy'[j] = state
      BY <1>0, <2>1, RunningTyped
    <2>4. RoutingTypes'
      BY <1>0, <2>1, <2>2, <2>3, TypesTogether
    <2>5. Begins(j)
      BY <1>1, <2>1, <2>2, <2>3 DEF Begins, Begun, AgentStart
    <2> QED BY <2>4, <2>5 DEF Row
  <1>2. CASE AgentPlain(j)
    <2>1. /\ task[j] = "exec" /\ GoTo(j, "advRead") /\ UNCHANGED copy
          /\ state' = state /\ jobLog' = jobLog /\ UNCHANGED seen
          /\ UNCHANGED untouched /\ UNCHANGED collided
      BY <1>2 DEF AgentPlain, At, main, untouched, disk
    <2>2. TasksTyped /\ Moves(j, {"exec"}, {"advRead"})
      BY <1>0, <1>p, <2>1, Went
    <2>3. RoutingTypes'
      BY <1>0, <2>1, <2>2, TypesTogether
    <2>4. Looks(j)
      BY <1>2, <2>1, <2>2 DEF Looks, AgentPlain
    <2> QED BY <2>3, <2>4 DEF Row
  <1>3. CASE AgentRoutes(j) \/ RouterRoutes(j) \/ CheckRoutes(j)
    <2>1. PICK r \in Route :
            /\ task[j] = "exec" /\ ChosenFor(j, r)
            /\ KindAt(j, copy[j]) # "agent" => r.via \in {"case", "pass", "fail"}
            /\ route' = [route EXCEPT ![j] = r] /\ task' = [task EXCEPT ![j] = "route"]
            /\ UNCHANGED copy
            /\ state' = state /\ jobLog' = jobLog /\ UNCHANGED seen
            /\ UNCHANGED untouched /\ UNCHANGED collided
      <3>1. CASE AgentRoutes(j)
        <4>1. PICK r \in RoutesOf(j, "output") \cup RoutesOf(j, "status") :
                route' = [route EXCEPT ![j] = r]
          BY <3>1 DEF AgentRoutes
        <4>2. r \in Route /\ ChosenFor(j, r)
          BY <4>1, RoutesTyped DEF ChosenFor, Carried
        <4> QED BY <3>1, <4>1, <4>2 DEF AgentRoutes, At, main, untouched, disk
      <3>2. CASE RouterRoutes(j)
        <4>1. PICK r \in RoutesOf(j, "case") :
                r.do \in JobRoute /\ route' = [route EXCEPT ![j] = r]
          BY <3>2 DEF RouterRoutes
        <4>2. r \in Route /\ ChosenFor(j, r) /\ r.via \in {"case", "pass", "fail"}
          BY <4>1, RoutesTyped DEF ChosenFor, Carried
        <4> QED BY <3>2, <4>1, <4>2 DEF RouterRoutes, At, main, untouched, disk
      <3>3. CASE CheckRoutes(j)
        <4>1. PICK r \in RoutesOf(j, "pass") \cup RoutesOf(j, "fail") :
                route' = [route EXCEPT ![j] = r]
          BY <3>3 DEF CheckRoutes
        <4>2. r \in Route /\ ChosenFor(j, r) /\ r.via \in {"case", "pass", "fail"}
          BY <4>1, RoutesTyped DEF ChosenFor, Carried
        <4> QED BY <3>3, <4>1, <4>2 DEF CheckRoutes, At, main, untouched, disk
      <3> QED BY <1>3, <3>1, <3>2, <3>3
    <2>2. TasksTyped /\ Moves(j, {"exec"}, {"route"}) /\ route'[j] = r
      BY <1>0, <1>p, <2>1, Moved
    <2>3. RoutingTypes'
      BY <1>0, <2>1, <2>2, TypesTogether
    <2>4. Looks(j)
      BY <2>1, <2>2 DEF Looks
    <2> QED BY <2>3, <2>4 DEF Row
  <1>4. CASE StepRead(j)
    <2>1. /\ task[j] = "start" /\ GoTo(j, "begin") /\ copy' = [copy EXCEPT ![j] = state]
          /\ state' = state /\ jobLog' = jobLog /\ UNCHANGED seen
          /\ UNCHANGED untouched /\ UNCHANGED collided
      BY <1>4 DEF StepRead, At, Read, main, untouched, disk
    <2>2. TasksTyped /\ Moves(j, {"start"}, {"begin"}) /\ copy'[j] = state
      BY <1>0, <1>p, <2>1, Went
    <2>3. RoutingTypes'
      BY <1>0, <2>1, <2>2, TypesTogether
    <2>4. Looks(j)
      BY <2>1, <2>2 DEF Looks
    <2> QED BY <2>3, <2>4 DEF Row
  <1>5. CASE StepBegin(j)
    <2> DEFINE new == Running(copy[j], j)
    <2>1. /\ task[j] = "begin" /\ state' = new /\ Overwrites(j)
          /\ copy' = [copy EXCEPT ![j] = new] /\ Starts(j, copy[j].job[j])
          /\ GoTo(j, "exec") /\ jobLog' = jobLog /\ UNCHANGED untouched
      BY <1>5 DEF StepBegin, At, WriteBack, Overwrites, main, untouched
    <2>2. new \in RoutedState
      BY <1>0, RunningTyped
    <2> HIDE DEF new
    <2>3. TasksTyped /\ Moves(j, {"begin"}, {"exec"}) /\ copy'[j] = new
      BY <1>0, <1>p, <2>1, <2>2, Went
    <2>4. RoutingTypes'
      BY <1>0, <2>1, <2>2, <2>3, TypesTogether
    <2>5. Begins(j)
      BY <2>1, <2>3 DEF Begins, Begun, new
    <2> QED BY <2>4, <2>5 DEF Row
  <1>6. CASE StepAfter(j)
    <2>1. /\ task[j] = "after"
          /\ state' = state /\ jobLog' = jobLog /\ UNCHANGED seen
          /\ UNCHANGED untouched /\ UNCHANGED collided
      BY <1>6 DEF StepAfter, At, main, untouched, disk
    <2>2. CASE state.job[j].status = "running"
      <3>1. GoTo(j, "advRead") /\ UNCHANGED copy
        BY <1>6, <2>2 DEF StepAfter
      <3>2. TasksTyped /\ Moves(j, {"after"}, {"advRead"})
        BY <1>0, <1>p, <2>1, <3>1, Went
      <3>3. RoutingTypes'
        BY <1>0, <2>1, <3>2, TypesTogether
      <3>4. Looks(j)
        BY <2>1, <2>2, <3>1, <3>2 DEF Looks
      <3> QED BY <3>3, <3>4 DEF Row
    <2>3. CASE state.job[j].status # "running"
      <3>1. Finish(j)
        BY <1>6, <2>3 DEF StepAfter
      <3>2. TasksTyped /\ Moves(j, {"after"}, {"idle"}) /\ copy'[j] = InitState
        BY <2>1, <3>1, Finished1
      <3>3. RoutingTypes'
        BY <1>0, <2>1, <3>2, TypesTogether
      <3>4. Looks(j)
        BY <2>1, <2>3, <3>2 DEF Looks
      <3> QED BY <3>3, <3>4 DEF Row
    <2> QED BY <2>2, <2>3
  <1>7. CASE RouterNoCase(j) \/ RouterError(j)
    <2>1. task[j] \in {"begin", "exec", "route"} /\ Reject(j)
      BY <1>7 DEF RouterNoCase, RouterError, At
    <2> QED BY <2>1, RejectRow
  <1>8. CASE RouterContinue(j) \/ RouterStops(j) \/ CheckFail(j)
    <2>1. PICK st \in Finished \cup {"running"} :
            /\ task[j] = "exec" /\ EndStep(j, WithJobStatus(copy[j], j, st))
            /\ jobLog' = jobLog \/ \E e \in Events : Log(j, e)
      BY <1>8 DEF RouterContinue, RouterStops, CheckFail, At, Events, Finished
    <2> DEFINE new == WithJobStatus(copy[j], j, st)
    <2>2. /\ state' = new /\ Overwrites(j) /\ GoTo(j, "after")
          /\ UNCHANGED copy /\ UNCHANGED untouched /\ UNCHANGED seen
      BY <2>1 DEF EndStep, WriteBack, Overwrites, main, untouched
    <2>3. /\ new \in RoutedState /\ new.run = copy[j].run
          /\ \A k \in Jobs \ {j} : new.job[k] = copy[j].job[k]
          /\ ClosedAs(new.job[j], copy[j].job[j], st)
          /\ new.job[j].step = copy[j].job[j].step
      <3> DEFINE rec == copy[j].job[j]
      <3>1. st \in JobStatus /\ rec \in RecordOf(j)
        BY <1>0, <1>j
      <3>2. /\ new \in RoutedState /\ new.run = copy[j].run
            /\ \A k \in Jobs \ {j} : new.job[k] = copy[j].job[k]
            /\ new.job[j] = [rec EXCEPT !.status = st]
        BY <1>0, <3>1, StatusTyped
      <3> HIDE DEF new, rec
      <3>3. /\ ClosedAs([rec EXCEPT !.status = st], rec, st)
            /\ [rec EXCEPT !.status = st].step = rec.step
        BY <3>1 DEF ClosedAs, RecordOf
      <3> QED BY <3>2, <3>3 DEF rec
    <2> HIDE DEF new
    <2>4. TasksTyped /\ Moves(j, {"exec"}, {"after"})
      BY <1>0, <1>p, <2>1, <2>2, Went
    <2>5. RoutingTypes'
      BY <1>0, <2>1, <2>2, <2>3, <2>4, TypesTogether
    <2>6. Closed(j, copy[j])
      BY <2>1, <2>2, <2>3 DEF Closed, Woken
    <2>7. Closes(j)
      BY <2>2, <2>4, <2>6 DEF Closes
    <2> QED BY <2>5, <2>7 DEF Row
  <1>9. CASE CheckPass(j)
    <2> DEFINE new == CheckedState(j)
    <2>1. /\ task[j] = "exec" /\ Log(j, "job_completed") /\ state' = new
          /\ Overwrites(j) /\ GoTo(j, "after")
          /\ UNCHANGED copy /\ UNCHANGED untouched /\ UNCHANGED seen
      BY <1>9 DEF CheckPass, At, EndStep, WriteBack, Overwrites, main, untouched
    <2>2. Settling(new, copy[j], j)
      BY <1>0, CheckedTyped
    <2> HIDE DEF new
    <2>3. TasksTyped /\ Moves(j, {"exec"}, {"after"})
      BY <1>0, <1>p, <2>1, Went
    <2>4. state' \in RoutedState
      BY <2>1, <2>2 DEF Settling
    <2>5. RoutingTypes'
      BY <1>0, <2>1, <2>3, <2>4, TypesTogether DEF Events
    <2>6. Closed(j, copy[j])
      BY <2>1, <2>2 DEF Closed, Settling, Finished
    <2>7. Closes(j)
      BY <2>1, <2>3, <2>6 DEF Closes
    <2> QED BY <2>5, <2>7 DEF Row
  <1> QED
    BY <1>1, <1>2, <1>3, <1>4, <1>5, <1>6, <1>7, <1>8, <1>9 DEF Step

(* The end of a route.                                                      *)
LEMMA ReturnsRow ==
  ASSUME RoutingTypes, NEW j \in Jobs, task[j] = "apply", Carried(route[j]), RouteDone(j)
  PROVE  /\ TasksTyped /\ RouteEnds(j) /\ UNCHANGED untouched
         /\ UNCHANGED seen \/ Excuse(j)
         /\ route[j].do = "goto_step" => task'[j] = "idle" /\ UNCHANGED seen
  <1> DEFINE r == route[j]
  <1>0. UNCHANGED untouched /\ copy[j] \in RoutedState
    BY DEF RouteDone, main, untouched, RoutingTypes
  <1>1. CASE r.via \in {"case", "pass", "fail"}
    <2>1. GoTo(j, "after") /\ UNCHANGED copy /\ UNCHANGED seen
      BY <1>1 DEF RouteDone, Carried, JobRoute
    <2>2. TasksTyped /\ Moves(j, {"apply"}, {"after"})
      BY <1>0, <2>1, Went DEF Points
    <2>3. RouteEnds(j)
      BY <2>1, <2>2 DEF RouteEnds, Moves
    <2>4. r.do # "goto_step"
      BY <1>1 DEF Carried, JobRoute
    <2> QED BY <1>0, <2>1, <2>2, <2>3, <2>4
  <1>2. CASE /\ r.via \notin {"case", "pass", "fail"}
             /\ \/ r.do = "continue"
                \/ r.via \in {"output", "signal"} /\ r.do \in {"retry_job", "activate_job"}
    <2>1. GoTo(j, "advRead") /\ UNCHANGED copy /\ UNCHANGED seen
      BY <1>2 DEF RouteDone
    <2>2. TasksTyped /\ Moves(j, {"apply"}, {"advRead"})
      BY <1>0, <2>1, Went DEF Points
    <2>3. RouteEnds(j)
      BY <1>2, <2>1, <2>2 DEF RouteEnds, Moves
    <2> QED BY <1>0, <1>2, <2>1, <2>2, <2>3
  <1>3. CASE /\ r.via \notin {"case", "pass", "fail"}
             /\ r.do # "continue"
             /\ ~(r.via \in {"output", "signal"} /\ r.do \in {"retry_job", "activate_job"})
    <2>1. Finish(j)
      BY <1>3 DEF RouteDone
    <2>2. /\ TasksTyped /\ Moves(j, {"apply"}, {"idle"}) /\ copy'[j] = InitState
      BY <1>0, <2>1, Finished1
    <2>3. r \in Route
      BY DEF RoutingTypes
    <2>4. r.via \in Carrier
      BY <2>3 DEF Route
    <2>5. CASE r.do \in {"retry_job", "activate_job"}
      <3>1. r.via = "status"
        BY <1>3, <2>4, <2>5 DEF Carrier
      <3>2. Excuse(j)
        BY <2>5, <3>1 DEF RouteDone
      <3>3. RouteEnds(j)
        BY <2>2, <2>5, <3>2 DEF RouteEnds
      <3> QED BY <1>0, <2>2, <2>5, <3>2, <3>3
    <2>6. CASE r.do \notin {"retry_job", "activate_job"}
      <3>1. UNCHANGED seen
        BY <2>6 DEF RouteDone
      <3>2. RouteEnds(j)
        BY <1>3, <2>2, <2>6, <3>1 DEF RouteEnds
      <3>3. task'[j] = "idle"
        BY <2>2 DEF Moves
      <3> QED BY <1>0, <2>2, <3>1, <3>2, <3>3
    <2> QED BY <2>5, <2>6
  <1> QED BY <1>1, <1>2, <1>3

(* Where a route leads to another job, that is a job.                       *)
LEMMA TargetTyped ==
  ASSUME RoutingTypes, NEW j \in Jobs
  PROVE  /\ route[j].do \in JobRoute => route[j].at \in Jobs
         /\ route[j].do = "goto_step" => route[j].at \in Nat
  <1>1. route[j] \in Route
    BY DEF RoutingTypes
  <1> QED BY <1>1 DEF Route, JobRoute, PlainRoute

(* A route is refused, read or applied.                                     *)
LEMMA RouteRow ==
  ASSUME RoutingTypes, Applicable, NEW j \in Jobs, ApplyRoute(j)
  PROVE  RoutingTypes' /\ Row(j)
  <1> DEFINE c == copy[j]
             t == route[j].at
  <1>0. /\ state \in RoutedState /\ c \in RoutedState
        /\ c.job \in RoutedJobs /\ c.run \in RunStatus
        /\ \A k \in Jobs : c.job[k] \in RecordOf(k)
    BY StateParts DEF RoutingTypes
  <1>1. CASE RouteRefused(j)
    <2>1. task[j] \in {"begin", "exec", "route"} /\ Reject(j)
      BY <1>1 DEF RouteRefused, At
    <2> QED BY <2>1, RejectRow
  <1>2. CASE RouteRead(j)
    <2>1. /\ task[j] = "route" /\ GoTo(j, "apply") /\ copy' = [copy EXCEPT ![j] = state]
          /\ ~Refused(j, state)
          /\ state' = state /\ jobLog' = jobLog /\ UNCHANGED seen
          /\ UNCHANGED untouched /\ UNCHANGED collided
      BY <1>2 DEF RouteRead, At, Read, main, untouched, disk
    <2>2. TasksTyped /\ Moves(j, {"route"}, {"apply"}) /\ copy'[j] = state /\ route'[j] = route[j]
      <3>1. TasksTyped /\ Moves(j, {"route"}, {"apply"})
        BY <1>0, <2>1, Went DEF Points
      <3>2. copy'[j] = state /\ route'[j] = route[j]
        BY <2>1 DEF GoTo, RoutingTypes
      <3> QED BY <3>1, <3>2
    <2>3. RoutingTypes'
      BY <1>0, <2>1, <2>2, TypesTogether
    <2>4. Looks(j)
      BY <2>1, <2>2 DEF Looks
    <2> QED BY <2>3, <2>4 DEF Row
  <1>3. ASSUME task[j] = "apply", RouteDone(j), NEW new \in RoutedState, WriteBack(j, new),
               jobLog' = jobLog \/ (\E x \in Jobs : \E e \in Events : Log(x, e))
        PROVE  /\ RoutingTypes' /\ RouteEnds(j) /\ Overwrites(j) /\ state' = new
               /\ route[j].do = "goto_step" => task'[j] = "idle" /\ UNCHANGED seen
    <2>1. state' = new /\ Overwrites(j)
      BY <1>3 DEF WriteBack, Overwrites
    <2>2. Carried(route[j])
      BY <1>3 DEF Applicable
    <2>3. /\ TasksTyped /\ RouteEnds(j) /\ UNCHANGED untouched
          /\ UNCHANGED seen \/ Excuse(j)
          /\ route[j].do = "goto_step" => task'[j] = "idle" /\ UNCHANGED seen
      BY <1>3, <2>2, ReturnsRow
    <2>4. RoutingTypes'
      BY <1>3, <2>1, <2>3, TypesTogether
    <2> QED BY <2>1, <2>3, <2>4
  <1>e. {"job_failed", "job_blocked", "job_activated", "job_skipped"} \subseteq Events
    BY DEF Events
  <1>4. CASE RouteContinue(j)
    <2>1. /\ task[j] = "apply" /\ RouteDone(j) /\ WriteBack(j, c) /\ jobLog' = jobLog
          /\ route[j].do = "continue"
      BY <1>4 DEF RouteContinue, Applies, At
    <2>2. RoutingTypes' /\ RouteEnds(j) /\ Overwrites(j) /\ state' = c
      BY <1>0, <1>3, <2>1
    <2> QED BY <2>1, <2>2 DEF RouteOf, Row
  <1>5. CASE RouteStop(j)
    <2> DEFINE st == IF route[j].do = "fail" THEN "failed" ELSE "blocked"
               new == WithJobStatus(c, j, st)
    <2>1. /\ task[j] = "apply" /\ RouteDone(j) /\ WriteBack(j, new) /\ jobLog' = jobLog
          /\ route[j].do \in {"fail", "block"}
      BY <1>5 DEF RouteStop, Applies, At
    <2>2. st \in {"failed", "blocked"} /\ st \in JobStatus
      BY DEF JobStatus
    <2> HIDE DEF st
    <2>3. /\ new \in RoutedState /\ new.run = c.run
          /\ \A k \in Jobs \ {j} : new.job[k] = c.job[k]
          /\ ClosedAs(new.job[j], c.job[j], st)
      <3> DEFINE rec == c.job[j]
      <3>1. rec \in RecordOf(j)
        BY <1>0
      <3>2. /\ new \in RoutedState /\ new.run = c.run
            /\ \A k \in Jobs \ {j} : new.job[k] = c.job[k]
            /\ new.job[j] = [rec EXCEPT !.status = st]
        BY <1>0, <2>2, StatusTyped
      <3> HIDE DEF new, rec
      <3>3. ClosedAs([rec EXCEPT !.status = st], rec, st)
        BY <3>1 DEF ClosedAs, RecordOf
      <3> QED BY <3>2, <3>3 DEF rec
    <2> HIDE DEF new
    <2>4. RoutingTypes' /\ RouteEnds(j) /\ Overwrites(j) /\ state' = new
      BY <1>3, <2>1, <2>3
    <2>5. Stopped(j)
      BY <2>1, <2>2, <2>3, <2>4 DEF Stopped, OthersAs
    <2> QED BY <2>3, <2>4, <2>5 DEF RouteOf, Row
  <1>6. CASE RouteRetry(j)
    <2> DEFINE rec == c.job[t]
               result == [rec EXCEPT !.status = "ready", !.attempt = AttemptOf(rec) + 1,
                                   !.last = "open", !.step = 0]
               new == [c EXCEPT !.job[t] = result]
    <2>1. /\ task[j] = "apply" /\ RouteDone(j) /\ WriteBack(j, new) /\ jobLog' = jobLog
          /\ route[j].do = "retry_job" /\ RetryLeft(j)
      BY <1>6 DEF RouteRetry, Applies, At
    <2>2. t \in Jobs
      BY <2>1, TargetTyped DEF JobRoute
    <2>3. rec \in RecordOf(t)
      BY <1>0, <2>2
    <2>4. AttemptOf(rec) \in Nat \ {0} /\ 0 \in Pointer(t)
      BY <2>2, <2>3, RecordParts, WorkflowAssumption DEF Pointer
    <2>5. MaxAttempts[t] > 1
      <3>1. AttemptOf(rec) < MaxAttempts[t] /\ MaxAttempts[t] \in Nat
        BY <2>1, <2>2, WorkflowAssumption DEF RetryLeft
      <3> HIDE DEF rec
      <3> QED BY <2>4, <3>1
    <2> HIDE DEF rec
    <2>6. /\ result \in RecordOf(t) /\ result.status = "ready" /\ result.step = 0
          /\ result.attempt = AttemptOf(rec) + 1
      <3> DEFINE n == AttemptOf(rec) + 1
      <3>1. n \in Nat
        BY <2>4
      <3> HIDE DEF n
      <3>2. LET new1 == [rec EXCEPT !.status = "ready", !.attempt = n, !.last = "open", !.step = 0]
            IN  new1 \in RecordOf(t) /\ new1.status = "ready" /\ new1.step = 0 /\ new1.attempt = n
        BY <2>3, <2>4, <3>1 DEF RecordOf, JobStatus, Outcome
      <3> QED BY <3>2 DEF n
    <2> HIDE DEF result
    <2>7. /\ new \in RoutedState /\ new.run = c.run /\ new.job[t] = result
          /\ \A k \in Jobs \ {t} : new.job[k] = c.job[k]
      <3> HIDE DEF c, t
      <3> QED BY <1>0, <2>2, <2>6, StateSet
    <2> HIDE DEF new
    <2>8. RoutingTypes' /\ RouteEnds(j) /\ Overwrites(j) /\ state' = new
      BY <1>3, <2>1, <2>7
    <2>9. Again(j, t)
      BY <2>1, <2>5, <2>6, <2>7, <2>8 DEF Again, OthersAs, rec
    <2> QED BY <2>2, <2>7, <2>8, <2>9 DEF RouteOf, Row
  <1>7. CASE RouteExceeded(j)
    <2> DEFINE rec == c.job[t]
               st == OnExceeded[t]
               result == [SealFailure(rec) EXCEPT !.status = st, !.step = 0]
               new == [c EXCEPT !.job[t] = result]
    <2>1. /\ task[j] = "apply" /\ RouteDone(j) /\ WriteBack(j, new)
          /\ route[j].do = "retry_job"
          /\ Log(t, IF OnExceeded[t] = "failed" THEN "job_failed" ELSE "job_blocked")
      BY <1>7 DEF RouteExceeded, Applies, At
    <2>2. t \in Jobs
      BY <2>1, TargetTyped DEF JobRoute
    <2>3. rec \in RecordOf(t) /\ st \in {"failed", "blocked"} /\ st \in JobStatus
      BY <1>0, <2>2, WorkflowAssumption DEF JobStatus
    <2>4. \E x \in Jobs : \E e \in Events : Log(x, e)
      BY <1>e, <2>1, <2>2
    <2> HIDE DEF rec, st
    <2>5. result \in RecordOf(t) /\ ClosedAs(result, rec, st) /\ result.step = 0
      <3>1. result \in RecordOf(t) /\ ClosedAs(result, rec, st)
        BY <2>2, <2>3, Sealed
      <3>2. result.step = 0
        BY <2>3 DEF SealFailure, RecordOf
      <3> QED BY <3>1, <3>2
    <2> HIDE DEF result
    <2>7. /\ new \in RoutedState /\ new.run = c.run /\ new.job[t] = result
          /\ \A k \in Jobs \ {t} : new.job[k] = c.job[k]
      <3> HIDE DEF c, t
      <3> QED BY <1>0, <2>2, <2>5, StateSet
    <2> HIDE DEF new
    <2>8. RoutingTypes' /\ RouteEnds(j) /\ Overwrites(j) /\ state' = new
      BY <1>3, <2>1, <2>4, <2>7
    <2>9. Exceeds(j, t)
      BY <2>1, <2>3, <2>5, <2>7, <2>8 DEF Exceeds, OthersAs, rec
    <2> QED BY <2>2, <2>7, <2>8, <2>9 DEF RouteOf, Row
  <1>8. CASE RouteActivate(j)
    <2> DEFINE result == Entering(c.job, t)
               new == [c EXCEPT !.job[t] = result]
    <2>1. /\ task[j] = "apply" /\ RouteDone(j) /\ route[j].do = "activate_job"
      BY <1>8 DEF RouteActivate, Applies, At
    <2>2. t \in Jobs
      BY <2>1, TargetTyped DEF JobRoute
    <2>3. CASE c.job[t].status = "inactive"
      <3>1. Log(t, "job_activated") /\ WriteBack(j, new)
        BY <1>8, <2>3 DEF RouteActivate
      <3>2. \E x \in Jobs : \E e \in Events : Log(x, e)
        BY <1>e, <2>2, <3>1
      <3>3. result \in RecordOf(t) /\ Enters(result, c.job[t])
        BY <1>0, <2>2, EnteringTyped DEF Enters
      <3> HIDE DEF result
      <3>4. /\ new \in RoutedState /\ new.run = c.run /\ new.job[t] = result
            /\ \A k \in Jobs \ {t} : new.job[k] = c.job[k]
        <4> HIDE DEF c, t
        <4> QED BY <1>0, <2>2, <3>3, StateSet
      <3> HIDE DEF new
      <3>5. RoutingTypes' /\ RouteEnds(j) /\ Overwrites(j) /\ state' = new
        BY <1>3, <2>1, <3>1, <3>2, <3>4
      <3>6. Activates(j, t)
        BY <2>1, <2>3, <3>3, <3>4, <3>5 DEF Activates, OthersAs
      <3> QED BY <2>2, <3>4, <3>5, <3>6 DEF RouteOf, Row
    <2>4. CASE c.job[t].status # "inactive"
      <3>1. WriteBack(j, c) /\ jobLog' = jobLog
        BY <1>8, <2>4 DEF RouteActivate
      <3>2. RoutingTypes' /\ RouteEnds(j) /\ Overwrites(j) /\ state' = c
        BY <1>0, <1>3, <2>1, <3>1
      <3> QED BY <2>1, <3>2 DEF RouteOf, Row
    <2> QED BY <2>3, <2>4
  <1>9. CASE RouteGotoJob(j)
    <2> DEFINE rec == c.job[j]
               own == [rec EXCEPT !.status = "completed", !.step = 0]
               done == [c.job EXCEPT ![j] = own]
               result == Entering(done, t)
               js == [done EXCEPT ![t] = result]
               new == [c EXCEPT !.job = js]
    <2>1. /\ task[j] = "apply" /\ RouteDone(j) /\ route[j].do = "goto_job"
          /\ Log(j, "job_skipped")
          /\ WriteBack(j, [c EXCEPT !.job =
               [[c.job EXCEPT ![j].status = "completed", ![j].step = 0] EXCEPT
                  ![t] = Entering([c.job EXCEPT ![j].status = "completed",
                                                ![j].step = 0], t)]])
      BY <1>9 DEF RouteGotoJob, Applies, At
    <2>2. t \in Jobs
      BY <2>1, TargetTyped DEF JobRoute
    <2>a. [c.job EXCEPT ![j].status = "completed", ![j].step = 0] = done
      <3>1. c.job \in [Jobs -> UNION {RecordOf(k) : k \in Jobs}]
        BY <1>0 DEF RoutedJobs
      <3> HIDE DEF c
      <3> QED BY <3>1
    <2>b. WriteBack(j, new)
      BY <2>1, <2>a
    <2>3. \E x \in Jobs : \E e \in Events : Log(x, e)
      BY <1>e, <2>1
    <2>4. c.job[t].status \in {"inactive", "waiting", "ready"}
      <3>1. ~Refused(j, c)
        BY <2>1 DEF Applicable
      <3> QED BY <2>1, <3>1 DEF Refused
    <2>5. /\ own \in RecordOf(j) /\ ClosedAs(own, rec, "completed") /\ own.step = 0
      <3>1. rec \in RecordOf(j) /\ "completed" \in JobStatus
        BY <1>0 DEF JobStatus
      <3>2. own \in RecordOf(j) /\ ClosedAs(own, rec, "completed")
        BY <3>1, Sealed
      <3>3. own.step = 0
        BY <3>1 DEF RecordOf
      <3> QED BY <3>2, <3>3
    <2> HIDE DEF own, rec
    <2>6. /\ done \in RoutedJobs /\ done[j] = own
          /\ \A k \in Jobs \ {j} : done[k] = c.job[k]
      BY <1>0, <2>5, JobsSet
    <2> HIDE DEF done
    <2>7. /\ result \in RecordOf(t) /\ Enters(result, done[t])
      BY <2>2, <2>6, EnteringTyped DEF Enters
    <2> HIDE DEF result
    <2>8. /\ js \in RoutedJobs /\ js[t] = result /\ \A k \in Jobs \ {t} : js[k] = done[k]
      BY <2>2, <2>6, <2>7, JobsSet
    <2> HIDE DEF js
    <2>9. new \in RoutedState /\ new.run = c.run /\ new.job = js
      <3> HIDE DEF c
      <3> QED BY <1>0, <2>8 DEF RoutedState
    <2> HIDE DEF new
    <2>10. RoutingTypes' /\ RouteEnds(j) /\ Overwrites(j) /\ state' = new
      BY <1>3, <2>1, <2>3, <2>9, <2>b
    <2>11. Jumps(j, t)
      <3>1. \A k \in Jobs \ {j, t} : state'.job[k] = c.job[k]
        BY <2>6, <2>8, <2>9, <2>10
      <3>2. CASE t = j
        <4>1. state'.job[t] = result /\ Enters(result, own)
          BY <2>6, <2>7, <2>8, <2>9, <2>10, <3>2
        <4>2. own.visits = c.job[t].visits /\ own.step = 0
          BY <2>5, <3>2 DEF ClosedAs, rec
        <4> QED BY <2>1, <2>4, <3>1, <3>2, <4>1, <4>2 DEF Jumps, Enters
      <3>3. CASE t # j
        <4>1. state'.job[t] = result /\ Enters(result, c.job[t]) /\ state'.job[j] = own
          BY <2>2, <2>6, <2>7, <2>8, <2>9, <2>10, <3>3
        <4>2. ClosedAs(own, c.job[j], "completed") /\ own.step = 0
          BY <2>5 DEF rec
        <4> QED BY <2>1, <2>4, <3>1, <3>3, <4>1, <4>2 DEF Jumps
      <3> QED BY <3>2, <3>3
    <2> QED BY <2>2, <2>9, <2>10, <2>11 DEF RouteOf, Row
  <1>10. CASE RouteGotoStep(j)
    <2> DEFINE rec == c.job[j]
               result == Visit(rec, t)
               new == [c EXCEPT !.job[j] = result]
    <2>1. /\ task[j] = "apply" /\ RouteDone(j) /\ route[j].do = "goto_step"
          /\ WriteBack(j, new) /\ jobLog' = jobLog
      BY <1>10 DEF RouteGotoStep, Applies, At
    <2>2. t \in 1..Steps[j] /\ c.job[j].status \notin Finished
      <3>1. ~Refused(j, c)
        BY <2>1 DEF Applicable
      <3> QED BY <2>1, <3>1 DEF Refused
    <2>3. rec \in RecordOf(j)
      BY <1>0
    <2>4. rec.visits \in [1..Steps[j] -> Nat]
      BY <2>3, RecordParts
    <2> HIDE DEF rec, t
    <2>5. /\ result \in RecordOf(j) /\ result.attempt = rec.attempt /\ result.step = t
          /\ result.visits[t] = rec.visits[t] + 1
          /\ \A i \in 1..Steps[j] \ {t} : result.visits[i] = rec.visits[i]
          /\ \/ result.status = "blocked"
             \/ result.status = rec.status /\ result.visits[t] =< MaxVisits
      BY <2>2, <2>3, VisitTyped
    <2> HIDE DEF result
    <2>6. Elsewhere(j, result, rec)
      <3>1. rec.visits[t] \in Nat
        BY <2>2, <2>4
      <3>2. t = rec.step => result.visits[result.step] # rec.visits[rec.step]
        BY <2>5, <3>1
      <3> QED BY <2>2, <2>5, <3>2 DEF Elsewhere
    <2>7. /\ new \in RoutedState /\ new.run = c.run /\ new.job[j] = result
          /\ \A k \in Jobs \ {j} : new.job[k] = c.job[k]
      <3> HIDE DEF c
      <3> QED BY <1>0, <2>5, StateSet
    <2> HIDE DEF new
    <2>8. /\ RoutingTypes' /\ RouteEnds(j) /\ Overwrites(j) /\ state' = new
          /\ task'[j] = "idle" /\ UNCHANGED seen
      BY <1>3, <2>1, <2>7
    <2>9. Moves(j, {"advance", "apply"}, {"idle"}) /\ copy'[j] = InitState
      BY <2>1, <2>8 DEF RouteEnds, Moves
    <2>10. Passes(j)
      BY <2>1, <2>2, <2>6, <2>7, <2>8, <2>9 DEF Passes, OthersAs, rec
    <2> QED BY <2>8, <2>10 DEF Row
  <1> QED
    BY <1>1, <1>2, <1>4, <1>5, <1>6, <1>7, <1>8, <1>9, <1>10 DEF ApplyRoute

(* advanceJob reads, moves the pointer, or completes the job.               *)
LEMMA AdvanceRow ==
  ASSUME RoutingTypes, NEW j \in Jobs, Advance(j)
  PROVE  RoutingTypes' /\ Row(j)
  <1> DEFINE c == copy[j]
             old == c.job[j]
             rec == Advancing(j)
  <1>0. /\ state \in RoutedState /\ c \in RoutedState
        /\ old \in RecordOf(j) /\ state.job[j] \in RecordOf(j)
    BY StateParts DEF RoutingTypes
  <1>a. /\ rec \in RecordOf(j) /\ rec.step \in 1..Steps[j]
        /\ rec.attempt = old.attempt
        /\ \A i \in 1..Steps[j] : rec.visits[i] = old.visits[i] \/ rec.visits[i] =< MaxVisits
                                   \/ rec.status = "blocked"
        /\ rec.status \in {old.status, "blocked"}
        /\ old.step # 0 => rec.step = old.step /\ rec.visits = old.visits
                           /\ rec.status = old.status
    BY <1>0, AdvancingTyped
  <1>b. Steps[j] \in Nat /\ rec.step \in Nat /\ rec.visits \in [1..Steps[j] -> Nat]
    BY <1>a, RecordParts
  <1>1. CASE AdvanceRead(j)
    <2>1. /\ task[j] = "advRead" /\ GoTo(j, "advance") /\ copy' = [copy EXCEPT ![j] = state]
          /\ state' = state /\ jobLog' = jobLog /\ UNCHANGED seen
          /\ UNCHANGED untouched /\ UNCHANGED collided
      BY <1>1 DEF AdvanceRead, At, Read, main, untouched, disk
    <2>2. TasksTyped /\ Moves(j, {"advRead"}, {"advance"}) /\ copy'[j] = state
      <3>1. TasksTyped /\ Moves(j, {"advRead"}, {"advance"})
        BY <1>0, <2>1, Went DEF Points
      <3> QED BY <2>1, <3>1 DEF RoutingTypes
    <2>3. RoutingTypes'
      BY <1>0, <2>1, <2>2, TypesTogether
    <2>4. Looks(j)
      BY <2>1, <2>2 DEF Looks
    <2> QED BY <2>3, <2>4 DEF Row
  <1>2. CASE AdvanceNothing(j)
    <2>1. /\ task[j] = "advance" /\ Finish(j) /\ old.status \in Finished
          /\ state' = state /\ jobLog' = jobLog /\ UNCHANGED seen
          /\ UNCHANGED untouched /\ UNCHANGED collided
      BY <1>2 DEF AdvanceNothing, At, main, untouched, disk
    <2>2. TasksTyped /\ Moves(j, {"advance"}, {"idle"}) /\ copy'[j] = InitState
      BY <2>1, Finished1
    <2>3. RoutingTypes'
      BY <1>0, <2>1, <2>2, TypesTogether
    <2>4. Looks(j)
      BY <2>1, <2>2 DEF Looks
    <2> QED BY <2>3, <2>4 DEF Row
  <1>3. ASSUME task[j] = "advance", old.status \notin Finished, Finish(j), jobLog' = jobLog,
               NEW result \in RecordOf(j), WriteBack(j, [c EXCEPT !.job[j] = result]),
               Elsewhere(j, result, old), UNCHANGED seen, UNCHANGED untouched
        PROVE  RoutingTypes' /\ Row(j)
    <2> DEFINE new == [c EXCEPT !.job[j] = result]
    <2>1. /\ new \in RoutedState /\ new.run = c.run /\ new.job[j] = result
          /\ \A k \in Jobs \ {j} : new.job[k] = c.job[k]
      <3> HIDE DEF c
      <3> QED BY <1>0, <1>3, StateSet
    <2>2. state' = new /\ Overwrites(j)
      BY <1>3 DEF WriteBack, Overwrites
    <2> HIDE DEF new
    <2>3. /\ TasksTyped /\ Moves(j, {"advance", "apply"}, {"idle"})
          /\ copy'[j] = InitState
      BY <1>3, Finished1
    <2>4. RoutingTypes'
      BY <1>3, <2>1, <2>2, <2>3, TypesTogether
    <2>5. Passes(j)
      BY <1>3, <2>1, <2>2, <2>3 DEF Passes, OthersAs
    <2> QED BY <2>4, <2>5 DEF Row
  <1>4. CASE AdvanceStep(j)
    <2> DEFINE result == IF rec.status = "blocked" THEN rec ELSE Visit(rec, rec.step + 1)
    <2>1. /\ task[j] = "advance" /\ old.status \notin Finished /\ Finish(j)
          /\ jobLog' = jobLog /\ WriteBack(j, [c EXCEPT !.job[j] = result])
          /\ UNCHANGED seen /\ UNCHANGED untouched
          /\ rec.status = "blocked" \/ rec.step < Steps[j]
      BY <1>4 DEF AdvanceStep, AdvanceLive, At, main, untouched
    <2>2. CASE rec.status = "blocked"
      <3>1. result = rec
        BY <2>2
      <3>2. Elsewhere(j, rec, old)
        BY <1>a, <2>2 DEF Elsewhere
      <3> HIDE DEF result, rec, old
      <3> QED BY <1>a, <1>3, <2>1, <3>1, <3>2 DEF old
    <2>3. CASE rec.status # "blocked"
      <3> DEFINE n == rec.step + 1
      <3>1. /\ result = Visit(rec, n)
            /\ n \in 1..Steps[j] /\ n # rec.step
        <4> HIDE DEF rec
        <4> QED BY <1>a, <1>b, <2>1, <2>3
      <3> HIDE DEF n, result, rec, old
      <3>2. /\ result \in RecordOf(j)
            /\ result.attempt = rec.attempt /\ result.step = n
            /\ \A i \in 1..Steps[j] \ {n} : result.visits[i] = rec.visits[i]
            /\ \/ result.status = "blocked"
               \/ result.status = rec.status /\ result.visits[n] =< MaxVisits
        BY <1>a, <3>1, VisitTyped
      <3>3. Elsewhere(j, result, old)
        BY <1>a, <2>3, <3>1, <3>2 DEF Elsewhere
      <3> QED BY <1>3, <2>1, <3>2, <3>3 DEF old, result
    <2> QED BY <2>2, <2>3
  <1>5. CASE AdvanceSkip(j)
    <2> DEFINE n == rec.step + 2
               result == [rec EXCEPT !.step = n]
    <2>1. /\ task[j] = "advance" /\ old.status \notin Finished /\ Finish(j)
          /\ jobLog' = jobLog /\ WriteBack(j, [c EXCEPT !.job[j] = [rec EXCEPT !.step = @ + 2]])
          /\ UNCHANGED seen /\ UNCHANGED untouched
          /\ rec.status # "blocked" /\ rec.step + 1 < Steps[j]
          /\ <<j, rec.step + 1>> \in Conditional
      BY <1>5 DEF AdvanceSkip, AdvanceSkips, AdvanceLive, At, main, untouched
    <2>2. [rec EXCEPT !.step = @ + 2] = result
      OBVIOUS
    <2>3. /\ n \in 1..Steps[j] /\ n \in Pointer(j) /\ n # rec.step
          /\ rec.step + 1 \in 2..(Steps[j] - 1)
      <3> HIDE DEF rec
      <3> QED BY <1>a, <1>b, <2>1 DEF Pointer
    <2>4. WriteBack(j, [c EXCEPT !.job[j] = result])
      BY <2>1, <2>2
    <2> HIDE DEF n, rec, old
    <2>5. /\ result \in RecordOf(j) /\ result.step = n /\ result.status = rec.status
          /\ result.attempt = rec.attempt /\ result.visits = rec.visits
      BY <1>a, <2>3 DEF RecordOf
    <2> HIDE DEF result
    <2>6. Elsewhere(j, result, old)
      <3>1. \E k \in 2..(Steps[j] - 1) : <<j, k>> \in Conditional
        BY <2>1, <2>3
      <3> QED BY <1>a, <2>1, <2>3, <2>5, <3>1 DEF Elsewhere
    <2> QED BY <1>3, <2>1, <2>4, <2>5, <2>6 DEF old
  <1>6. CASE AdvanceComplete(j)
    <2>1. /\ task[j] = "advance" /\ old.status \notin Finished
          /\ Log(j, "job_completed") /\ GoTo(j, "commit") /\ UNCHANGED copy
          /\ state' = state /\ UNCHANGED seen /\ UNCHANGED untouched /\ UNCHANGED collided
      BY <1>6 DEF AdvanceComplete, AdvanceSkips, AdvanceLive, At, main, untouched
    <2>2. TasksTyped /\ Moves(j, {"advance"}, {"commit"})
      BY <1>0, <2>1, Went DEF Points
    <2>3. RoutingTypes'
      BY <1>0, <2>1, <2>2, TypesTogether DEF Events
    <2>4. Looks(j)
      BY <2>1, <2>2 DEF Looks
    <2> QED BY <2>3, <2>4 DEF Row
  <1>7. CASE CommitJobCompleted(j)
    <2> DEFINE new == CompleteJob(state, j)
    <2>1. /\ task[j] = "commit" /\ state' = new /\ Finish(j) /\ jobLog' = jobLog
          /\ UNCHANGED seen /\ UNCHANGED untouched /\ UNCHANGED collided
      BY <1>7 DEF CommitJobCompleted, At, main, untouched
    <2>2. Settling(new, state, j) /\ new.job[j].step = 0
      BY <1>0, CompleteTyped
    <2> HIDE DEF new
    <2>3. TasksTyped /\ Moves(j, {"commit"}, {"idle"}) /\ copy'[j] = InitState
      BY <2>1, Finished1
    <2>4. state' \in RoutedState
      BY <2>1, <2>2 DEF Settling
    <2>5. RoutingTypes'
      BY <1>0, <2>1, <2>3, <2>4, TypesTogether
    <2>6. Closed(j, state) /\ state'.job[j].status = "completed" /\ state'.job[j].step = 0
      BY <2>1, <2>2 DEF Closed, Settling, Finished, ClosedAs
    <2>7. Closes(j)
      BY <2>1, <2>3, <2>6 DEF Closes
    <2> QED BY <2>5, <2>7 DEF Row
  <1> QED
    BY <1>1, <1>2, <1>4, <1>5, <1>6, <1>7 DEF Advance

(* ------------------------------- main loop -------------------------------*)

(* A batch runs, or no task does; a task that does not run has no copy.     *)
InBatch == \A j \in Jobs : /\ loop # "batch" => task[j] = "idle"
                           /\ task[j] = "idle" => copy[j] = InitState

(* What a step of the main loop may be: it goes on, dispatches, ...         *)
Goes ==
  /\ UNCHANGED <<state, task, copy, route, seen>>
  /\ loop' # "batch" /\ \A j \in Jobs : task[j] = "idle"

Dispatches ==
  /\ loop # "batch" /\ loop' = "batch"
  /\ UNCHANGED <<state, copy, route, seen>>
  /\ \A j \in Jobs : \/ task'[j] = "idle"
                     \/ task'[j] = "start" /\ state.job[j].status \in {"ready", "running"}

(* ... settles jobs and the run, or dies.                                   *)
Given(new, old) ==
  \/ Woken(new, old)
  \/ /\ old.status = "waiting" /\ new.status = "blocked"
     /\ new.attempt = old.attempt /\ new.step = old.step /\ new.visits = old.visits

Settles ==
  /\ UNCHANGED <<task, copy, route, seen>>
  /\ loop # "batch" /\ loop' # "batch"
  /\ \A j \in Jobs : Given(state'.job[j], state.job[j])
  /\ \/ state'.run # "completed"
     \/ state'.run = state.run
     \/ \A j \in Jobs : Settled(state'.job, j)

Dies ==
  /\ loop' # "batch" /\ UNCHANGED <<state, again>>
  /\ \A j \in Jobs : /\ task'[j] = "idle" /\ copy'[j] = InitState
                     /\ started'[j] = [started[j] EXCEPT !.step = 0]

LoopRow == (Goes \/ Dispatches \/ Settles \/ Dies) /\ UNCHANGED collided

(* A batch is made of ready or running jobs.                                *)
LEMMA BatchTyped ==
  ASSUME NEW js, NEW B \in Batches(js)
  PROVE  \A j \in B : j \in Jobs /\ js[j].status \in {"ready", "running"}
  <1>1. \/ B \in SelectExecutable(js)
        \/ B = WithStatus(js, "running")
        \/ B = WithStatus(js, "ready")
    BY DEF Batches
  <1>2. B \in SelectExecutable(js) => B \subseteq WithStatus(js, "ready")
    BY DEF SelectExecutable, Candidates
  <1> QED BY <1>1, <1>2 DEF WithStatus

(* A verdict is a status of the run, and "completed" only of settled jobs.  *)
LEMMA VerdictTyped ==
  ASSUME NEW js
  PROVE  /\ Reconcile(js) \in RunStatus
         /\ Reconcile(js) = "completed" => \A j \in Jobs : Settled(js, j)
  BY DEF Reconcile, RunStatus

(* The main loop decides.                                                   *)
LEMMA LoopSteps ==
  ASSUME RoutingTypes, InBatch, MainLoop \/ Crash
  PROVE  RoutingTypes' /\ LoopRow
  <1>0. /\ state \in RoutedState /\ state.job \in RoutedJobs /\ state.run \in RunStatus
        /\ state = [run |-> state.run, job |-> state.job]
        /\ \A k \in Jobs : state.job[k] \in RecordOf(k)
    BY StateParts DEF RoutingTypes
  <1>1. CASE LoopStop \/ BatchSettled
    <2>1. /\ UNCHANGED <<disk, local, crashes, seen, collided>>
          /\ loop' \in {"read", "settle"}
          /\ loop # "batch" \/ \A j \in Jobs : task[j] = "idle"
      BY <1>1 DEF LoopStop, BatchSettled, At
    <2>2. /\ UNCHANGED <<state, task, copy, route, seen, jobLog, crashes, collided>>
          /\ UNCHANGED <<started, again>>
      BY <2>1 DEF disk, local, seen
    <2>3. Goes
      BY <2>1, <2>2 DEF Goes, InBatch
    <2>4. RoutingTypes'
      BY <2>1, <2>2 DEF RoutingTypes
    <2> QED BY <2>2, <2>3, <2>4 DEF LoopRow
  <1>2. CASE Dispatch
    <2>1. PICK B \in Batches(state.job) :
            task' = [j \in Jobs |-> IF j \in B THEN "start" ELSE "idle"]
      BY <1>2 DEF Dispatch
    <2>2. /\ loop = "read" /\ loop' = "batch"
          /\ UNCHANGED <<state, jobLog, copy, route, crashes, seen, collided>>
          /\ UNCHANGED <<started, again>>
      BY <1>2 DEF Dispatch, LoopGoesOn, disk, seen
    <2>3. \A j \in B : state.job[j].status \in {"ready", "running"}
      BY BatchTyped
    <2>4. Dispatches
      BY <2>1, <2>2, <2>3 DEF Dispatches
    <2>5. task' \in [Jobs -> Points]
      BY <2>1 DEF Points
    <2>6. RoutingTypes'
      BY <2>2, <2>5 DEF RoutingTypes
    <2> QED BY <2>2, <2>4, <2>6 DEF LoopRow
  <1>3. CASE LoopIdle
    <2> DEFINE js == state.job
               verdict == Reconcile(js)
               woken == PropagateReadiness(js, ReadyJobs(js))
               run == IF WithStatus(js, "waiting") # {} /\ verdict # "none"
                      THEN verdict ELSE state.run
    <2>1. /\ loop = "read" /\ loop' \in {"read", "deadlock", "settle"}
          /\ UNCHANGED <<jobLog, task, copy, route, crashes, seen, collided>>
          /\ UNCHANGED <<started, again>>
          /\ \/ state' = [state EXCEPT !.job = woken]
             \/ state' = [state EXCEPT !.run = run]
      BY <1>3 DEF LoopIdle, LoopGoesOn, local, seen
    <2>2. /\ woken \in RoutedJobs /\ \A k \in Jobs : Woken(woken[k], js[k])
          /\ run \in RunStatus
          /\ run = "completed" => run = state.run \/ \A k \in Jobs : Settled(js, k)
      BY <1>0, Propagated, VerdictTyped
    <2> HIDE DEF woken, run, verdict
    <2>3. /\ state' \in RoutedState
          /\ \A k \in Jobs : Given(state'.job[k], state.job[k])
          /\ \/ state'.run # "completed" \/ state'.run = state.run
             \/ \A k \in Jobs : Settled(state'.job, k)
      <3>1. CASE state' = [state EXCEPT !.job = woken]
        <4>1. state'.job = woken /\ state'.run = state.run /\ state' \in RoutedState
          BY <1>0, <2>2, <3>1 DEF RoutedState
        <4> QED BY <2>2, <4>1 DEF Given
      <3>2. CASE state' = [state EXCEPT !.run = run]
        <4>1. state'.job = js /\ state'.run = run /\ state' \in RoutedState
          BY <1>0, <2>2, <3>2 DEF RoutedState
        <4> QED BY <2>2, <4>1 DEF Given, Woken
      <3> QED BY <2>1, <3>1, <3>2
    <2>4. Settles
      BY <2>1, <2>3 DEF Settles
    <2>5. RoutingTypes'
      BY <2>1, <2>3 DEF RoutingTypes
    <2> QED BY <2>1, <2>4, <2>5 DEF LoopRow
  <1>4. CASE PostLoop
    <2> DEFINE stuck == StuckJobs(state.job)
               js == [j \in Jobs |-> IF j \in stuck
                                     THEN [state.job[j] EXCEPT !.status = "blocked"]
                                     ELSE state.job[j]]
               first == IF stuck # {} THEN "failed" ELSE state.run
               run == IF first \notin TerminalRun /\ Reconcile(js) # "none"
                      THEN Reconcile(js) ELSE first
    <2>1. /\ loop = "settle" /\ loop' = "done"
          /\ UNCHANGED <<task, copy, route, crashes, seen, collided>>
          /\ UNCHANGED <<started, again>>
          /\ state' = [run |-> run, job |-> js]
          /\ jobLog' = [j \in Jobs |-> IF j \in stuck THEN jobLog[j] \cup {"job_blocked"}
                                       ELSE jobLog[j]]
      BY <1>4 DEF PostLoop, local, seen
    <2>2. \A k \in Jobs : js[k] \in RecordOf(k) /\ Given(js[k], state.job[k])
      <3> SUFFICES ASSUME NEW k \in Jobs
                   PROVE  js[k] \in RecordOf(k) /\ Given(js[k], state.job[k])
        OBVIOUS
      <3> DEFINE rec == state.job[k]
      <3>1. rec \in RecordOf(k)
        BY <1>0
      <3>2. k \in stuck => rec.status = "waiting"
        BY DEF StuckJobs, WithStatus
      <3>3. js[k] = IF k \in stuck THEN [rec EXCEPT !.status = "blocked"] ELSE rec
        OBVIOUS
      <3> HIDE DEF js, rec, stuck
      <3>4. CASE k \in stuck
        <4>1. /\ js[k] \in RecordOf(k) /\ js[k].status = "blocked"
              /\ js[k].attempt = rec.attempt /\ js[k].step = rec.step
              /\ js[k].visits = rec.visits
          BY <3>1, <3>3, <3>4 DEF RecordOf, JobStatus
        <4> QED BY <3>2, <3>4, <4>1 DEF Given, rec
      <3>5. CASE k \notin stuck
        BY <3>1, <3>3, <3>5 DEF Given, Woken, rec
      <3> QED BY <3>4, <3>5
    <2>3. js = [k \in Jobs |-> js[k]]
      OBVIOUS
    <2> HIDE DEF js, stuck
    <2>4. js \in RoutedJobs
      BY <2>2, <2>3, JobsMade
    <2>5. /\ run \in RunStatus
          /\ \/ run # "completed" \/ run = state.run
             \/ \A k \in Jobs : Settled(js, k)
      BY <1>0, VerdictTyped DEF RunStatus
    <2> HIDE DEF run
    <2>6. state' \in RoutedState /\ state'.job = js /\ state'.run = run
      BY <2>1, <2>4, <2>5 DEF RoutedState
    <2>7. Settles
      BY <2>1, <2>2, <2>5, <2>6 DEF Settles
    <2>8. jobLog' \in [Jobs -> SUBSET Events]
      BY <2>1 DEF RoutingTypes, Events
    <2>9. RoutingTypes'
      BY <2>1, <2>6, <2>8 DEF RoutingTypes
    <2> QED BY <2>1, <2>7, <2>9 DEF LoopRow
  <1>5. CASE Crash
    <2>1. /\ crashes' = crashes + 1 /\ loop' = "read"
          /\ task' = [j \in Jobs |-> "idle"]
          /\ copy' = [j \in Jobs |-> InitState]
          /\ route' = [j \in Jobs |-> NoRoute]
          /\ started' = [j \in Jobs |-> [started[j] EXCEPT !.step = 0]]
          /\ UNCHANGED <<state, jobLog, again, collided>>
      BY <1>5 DEF Crash, disk
    <2>2. Dies
      BY <2>1 DEF Dies
    <2>3. started' \in [Jobs -> Start]
      BY <2>1 DEF RoutingTypes, Start
    <2>4. copy' \in [Jobs -> RoutedState]
      BY <2>1, InitStateTyped
    <2>5. route' \in [Jobs -> Route] /\ task' \in [Jobs -> Points]
      BY <2>1 DEF NoRoute, Route, PlainRoute, Carrier, Points
    <2>6. RoutingTypes'
      BY <2>1, <2>3, <2>4, <2>5 DEF RoutingTypes
    <2> QED BY <2>1, <2>2, <2>6 DEF LoopRow
  <1> QED BY <1>1, <1>2, <1>3, <1>4, <1>5 DEF MainLoop

(* A task that moves is not idle, and no other task moves.                  *)
LEMMA RowMoves ==
  ASSUME RoutingTypes, NEW j \in Jobs, Row(j)
  PROVE  /\ task[j] # "idle"
         /\ loop' = loop
         /\ task'[j] = "idle" => copy'[j] = InitState
         /\ task'[j] \notin {"route", "apply", "start"} \/ Looks(j)
         /\ \A k \in Jobs \ {j} : /\ task'[k] = task[k] /\ copy'[k] = copy[k]
                                 /\ route'[k] = route[k]
                                 /\ started'[k] = started[k]
  <1>1. CASE Looks(j)
    <2>1. started' = started
      BY <1>1 DEF Looks, seen
    <2> QED BY <1>1, <2>1 DEF Looks, Moves, untouched
  <1>2. CASE Rejects(j)
    <2>1. \A k \in Jobs \ {j} : started'[k] = started[k]
      BY <1>2 DEF Rejects, Excuse, RoutingTypes
    <2> QED BY <1>2, <2>1 DEF Rejects, Moves, untouched
  <1>3. CASE Begins(j)
    <2>1. \A k \in Jobs \ {j} : started'[k] = started[k]
      BY <1>3 DEF Begins, Begun, Starts, RoutingTypes
    <2> QED BY <1>3, <2>1 DEF Begins, Moves, untouched
  <1>4. CASE Closes(j)
    <2>1. started' = started
      BY <1>4 DEF Closes, seen
    <2> QED BY <1>4, <2>1 DEF Closes, Moves, untouched
  <1>5. CASE Passes(j)
    <2>1. started' = started
      BY <1>5 DEF Passes, seen
    <2> QED BY <1>5, <2>1 DEF Passes, Moves, untouched
  <1>6. CASE RouteOf(j)
    <2>1. \A k \in Jobs \ {j} : started'[k] = started[k]
      BY <1>6 DEF RouteOf, RouteEnds, Excuse, seen, RoutingTypes
    <2> QED BY <1>6, <2>1 DEF RouteOf, RouteEnds, Moves, untouched
  <1> QED BY <1>1, <1>2, <1>3, <1>4, <1>5, <1>6 DEF Row

RoutingBase == RoutingTypes /\ Chosen /\ InBatch

(* The initial state.                                                       *)
LEMMA RoutingInit == Init => RoutingBase
  <1> SUFFICES ASSUME Init PROVE RoutingBase
    OBVIOUS
  <1>1. NoRoute \in Route /\ NoStart \in Start
    BY DEF NoRoute, Route, PlainRoute, Carrier, NoStart, Start
  <1>2. RoutingTypes
    BY <1>1, InitStateTyped DEF Init, RoutingTypes, Points
  <1>3. Chosen /\ InBatch
    BY DEF Init, Chosen, InBatch
  <1> QED BY <1>2, <1>3 DEF RoutingBase

(* A route of the job's own can be applied, and ...                         *)
LEMMA ChosenApplicable == Chosen => Applicable
  BY DEF Chosen, Applicable, ChosenFor

(* ... sends back those only that may be sent back.                         *)
LEMMA SentBack ==
  ASSUME RoutingBase, NEW j \in Jobs, task[j] = "apply", NEW t \in Jobs, Again(j, t)
  PROVE  t \in Retried
  BY DEF RoutingBase, Chosen, ChosenFor, Again, Retried

(* Every step is a row.                                                     *)
LEMMA RoutingRows ==
  ASSUME RoutingBase, Next
  PROVE  /\ RoutingTypes'
         /\ LoopRow \/ (\E j \in Jobs : Row(j)) \/ UNCHANGED vars
  <1>1. CASE MainLoop \/ Crash
    BY <1>1, LoopSteps DEF RoutingBase
  <1>2. ASSUME NEW j \in Jobs, Task(j)
        PROVE  RoutingTypes' /\ Row(j)
    BY <1>2, ChosenApplicable, StepRow, RouteRow, AdvanceRow DEF Task, RoutingBase
  <1>3. CASE UNCHANGED vars
    <2>1. RoutingTypes'
      BY <1>3 DEF RoutingBase, RoutingTypes, vars, disk, local, main, seen
    <2> QED BY <1>3, <2>1
  <1> QED BY <1>1, <1>2, <1>3 DEF Next, Returned

(* A step keeps the base.                                                   *)
LEMMA RoutingSteps == RoutingBase /\ [Next]_vars => RoutingBase'
  <1> SUFFICES ASSUME RoutingBase, [Next]_vars PROVE RoutingBase'
    OBVIOUS
  <1>0. RoutingTypes /\ Chosen /\ InBatch
    BY DEF RoutingBase
  <1>1. CASE UNCHANGED vars
    BY <1>1 DEF RoutingBase, RoutingTypes, Chosen, InBatch, Refused,
                vars, disk, local, main, seen
  <1>2. ASSUME LoopRow PROVE Chosen' /\ InBatch'
    <2>1. CASE Goes \/ Settles
      BY <1>0, <2>1 DEF Goes, Settles, Chosen, InBatch, Refused
    <2>2. CASE Dispatches
      BY <1>0, <2>2 DEF Dispatches, Chosen, InBatch
    <2>3. CASE Dies
      BY <2>3 DEF Dies, Chosen, InBatch
    <2> QED BY <1>2, <2>1, <2>2, <2>3 DEF LoopRow
  <1>3. ASSUME NEW j \in Jobs, Row(j) PROVE Chosen' /\ InBatch'
    <2>1. /\ task[j] # "idle" /\ loop' = loop
          /\ task'[j] = "idle" => copy'[j] = InitState
          /\ task'[j] \notin {"route", "apply", "start"} \/ Looks(j)
          /\ \A k \in Jobs \ {j} : task'[k] = task[k] /\ copy'[k] = copy[k] /\ route'[k] = route[k]
      BY <1>0, <1>3, RowMoves
    <2>2. InBatch'
      BY <1>0, <2>1 DEF InBatch
    <2>3. /\ task'[j] \in {"route", "apply"} => ChosenFor(j, route'[j])
          /\ task'[j] = "apply" => ~Refused(j, copy[j])'
      <3>1. CASE Looks(j)
        BY <1>0, <3>1 DEF Looks, Moves, Chosen, Refused
      <3> QED BY <2>1, <3>1
    <2>4. Chosen'
      BY <1>0, <2>1, <2>3 DEF Chosen, Refused
    <2> QED BY <2>2, <2>4
  <1>4. CASE Next
    BY <1>2, <1>3, <1>1, <1>4, RoutingRows DEF RoutingBase
  <1> QED BY <1>1, <1>4

(* Every variable keeps its type: a route leads to a job or step that       *)
(* exists, a pointer stays within its job, whatever jobs do to each other;  *)
(* a task that is to apply a route has one, and every task is of the batch. *)
THEOREM RoutingTyped == Spec => [](RoutingTypes /\ Chosen /\ InBatch)
  BY RoutingInit, RoutingSteps, PTL DEF Spec, RoutingBase

(* ------------------------------ visit limits -----------------------------*)

(* No job that may be routed back has an `if` on a step before its last: the*)
(* step after a skipped one is entered without looking at its visit limit,  *)
(* and may be the very step whose limit blocked the attempt before.         *)
NoBlindReturn == \A j \in Retried : \A k \in 2..(Steps[j] - 1) : <<j, k>> \notin Conditional

(* A record that is within its limits ...                                   *)
Within(j, rec) ==
  /\ rec.step > 1 => rec.visits[rec.step] =< MaxVisits
  /\ j \notin Retried => \A k \in 1..Steps[j] : rec.visits[k] =< MaxVisits

(* ... is one that executes; one that does not may have been blocked by them.*)
Fits(j, rec, live) ==
  Within(j, rec) \/ (~live /\ rec.status \in {"blocked", "failed"})

Live(j) == task[j] # "idle"

Copied == {state} \cup {copy[k] : k \in Jobs}

(* Every record of every copy fits, also those that are out of date.        *)
InLimits == \A j \in Jobs : \A s \in Copied : Fits(j, s.job[j], Live(j))

(* A record made of another with the same visits.                           *)
Derived(j, t, new, old) ==
  /\ new.step \in {old.step, 0, 1} /\ new.visits = old.visits
  /\ t = j \/ new.status \in {"blocked", "failed"} \/ old.status \notin {"blocked", "failed"}

(* It is within the limits if that one is.                                  *)
LEMMA DerivedWithin ==
  ASSUME NEW j \in Jobs, NEW t \in Jobs, NEW old \in RecordOf(t), NEW new \in RecordOf(t),
         Derived(j, t, new, old), Live(j), Fits(t, old, Live(t))
  PROVE  Fits(t, new, Live(t))
  <1>1. /\ new.step \in Nat /\ old.step \in Nat
        /\ new.step > 1 => new.step = old.step
    BY RecordParts DEF Derived
  <1>2. Within(t, old) => Within(t, new)
    BY <1>1 DEF Within, Derived
  <1>3. ~Within(t, old) => t # j /\ ~Live(t) /\ old.status \in {"blocked", "failed"}
    BY DEF Fits
  <1> QED BY <1>2, <1>3 DEF Fits, Derived

(* What a step of the task of j makes of each record.                       *)
Made(j, t) ==
  \/ \E s \in {state, copy[j]} : Derived(j, t, state'.job[t], s.job[t])
  \/ t \in Retried /\ state'.job[t].step = 0
  \/ /\ t = j /\ task'[j] = "idle"
     /\ Elsewhere(j, state'.job[j], copy[j].job[j])

(* A job that becomes ready keeps its visits.                               *)
LEMMA WokenDerived ==
  ASSUME NEW j, NEW t, NEW new, NEW old, Woken(new, old)
  PROVE  Derived(j, t, new, old)
  BY DEF Woken, Derived

(* So does one that runs.                                                   *)
LEMMA RunningDerived ==
  ASSUME NEW s \in RoutedState, NEW j \in Jobs, NEW t \in Jobs
  PROVE  Derived(j, t, Running(s, j).job[t], s.job[t])
  <1> DEFINE new == Running(s, j)
  <1>1. /\ \A k \in Jobs \ {j} : new.job[k] = s.job[k]
        /\ new.job[j].step = StepOf(s.job[j])
        /\ new.job[j].visits = s.job[j].visits
    BY RunningTyped
  <1>2. StepOf(s.job[j]) \in {s.job[j].step, 1}
    BY DEF StepOf
  <1> HIDE DEF new
  <1>3. Derived(j, t, new.job[t], s.job[t])
    BY <1>1, <1>2 DEF Derived
  <1> QED BY <1>3 DEF new

(* Every record is made so.                                                 *)
LEMMA RowMakes ==
  ASSUME RoutingBase, NEW j \in Jobs, Row(j)
  PROVE  \A t \in Jobs : Made(j, t)
  <1> SUFFICES ASSUME NEW t \in Jobs PROVE Made(j, t)
    OBVIOUS
  <1>0. state \in RoutedState /\ copy[j] \in RoutedState
    BY DEF RoutingBase, RoutingTypes
  <1>s. ASSUME state'.job[t] \in {state.job[t], copy[j].job[t]} PROVE Made(j, t)
    BY <1>s DEF Made, Derived
  <1>1. CASE Looks(j) \/ Rejects(j)
    BY <1>1, <1>s DEF Looks, Rejects
  <1>2. CASE Begins(j)
    <2>1. PICK s \in {state, copy[j]} : state' = Running(s, j)
      BY <1>2 DEF Begins, Begun
    <2>2. Derived(j, t, state'.job[t], s.job[t])
      BY <1>0, <2>1, RunningDerived
    <2> QED BY <2>2 DEF Made
  <1>3. CASE Closes(j)
    <2>1. PICK s \in {state, copy[j]} : Closed(j, s)
      BY <1>3 DEF Closes
    <2>2. CASE t = j
      <3>1. \E st : ClosedAs(state'.job[j], s.job[j], st)
        BY <2>1 DEF Closed
      <3>2. Derived(j, j, state'.job[j], s.job[j])
        BY <3>1 DEF ClosedAs, Derived
      <3> QED BY <2>2, <3>2 DEF Made
    <2>3. CASE t # j
      <3>1. Derived(j, t, state'.job[t], s.job[t])
        BY <2>1, <2>3, WokenDerived DEF Closed
      <3> QED BY <3>1 DEF Made
    <2> QED BY <2>2, <2>3
  <1>4. CASE Passes(j)
    <2>1. CASE t = j
      BY <1>4, <2>1 DEF Passes, Moves, Made
    <2>2. CASE t # j
      BY <1>4, <2>2, <1>s DEF Passes, OthersAs
    <2> QED BY <2>1, <2>2
  <1>5. CASE RouteOf(j)
    <2>1. CASE state' = copy[j]
      BY <2>1, <1>s
    <2>2. CASE Stopped(j)
      <3>1. CASE t = j
        BY <2>2, <3>1 DEF Stopped, ClosedAs, Derived, Made
      <3>2. CASE t # j
        BY <2>2, <3>2, <1>s DEF Stopped, OthersAs
      <3> QED BY <3>1, <3>2
    <2>3. ASSUME NEW u \in Jobs, Again(j, u) PROVE Made(j, t)
      <3>1. CASE t = u
        <4>1. t \in Retried
          BY <1>5, <2>3, <3>1, SentBack DEF RouteOf, RouteEnds, Moves
        <4> QED BY <2>3, <3>1, <4>1 DEF Again, Made
      <3>2. CASE t # u
        BY <2>3, <3>2, <1>s DEF Again, OthersAs
      <3> QED BY <3>1, <3>2
    <2>4. ASSUME NEW u \in Jobs, Exceeds(j, u) PROVE Made(j, t)
      <3>1. CASE t = u
        BY <2>4, <3>1 DEF Exceeds, ClosedAs, Derived, Made
      <3>2. CASE t # u
        BY <2>4, <3>2, <1>s DEF Exceeds, OthersAs
      <3> QED BY <3>1, <3>2
    <2>5. ASSUME NEW u \in Jobs, Activates(j, u) PROVE Made(j, t)
      <3>1. CASE t = u
        BY <2>5, <3>1 DEF Activates, Enters, Derived, Made
      <3>2. CASE t # u
        BY <2>5, <3>2, <1>s DEF Activates, OthersAs
      <3> QED BY <3>1, <3>2
    <2>6. ASSUME NEW u \in Jobs, Jumps(j, u) PROVE Made(j, t)
      <3>1. CASE t \notin {j, u}
        BY <2>6, <3>1, <1>s DEF Jumps
      <3>2. CASE t = u /\ u = j
        BY <2>6, <3>2 DEF Jumps, Derived, Made
      <3>3. CASE t = u /\ u # j
        BY <2>6, <3>3 DEF Jumps, Enters, Derived, Made
      <3>4. CASE t = j /\ u # j
        BY <2>6, <3>4 DEF Jumps, ClosedAs, Derived, Made
      <3> QED BY <3>1, <3>2, <3>3, <3>4
    <2> QED BY <1>5, <2>1, <2>2, <2>3, <2>4, <2>5, <2>6 DEF RouteOf
  <1> QED BY <1>1, <1>2, <1>3, <1>4, <1>5 DEF Row

(* What a step of the task of j makes of each copy.                         *)
LEMMA RowCopies ==
  ASSUME RoutingBase, NEW j \in Jobs, Row(j)
  PROVE  \A k \in Jobs :
           \/ copy'[k] \in {copy[k], state, InitState}
           \/ k = j /\ \E s \in {state, copy[j]} : copy'[k] = Running(s, j)
  <1> SUFFICES ASSUME NEW k \in Jobs
               PROVE  \/ copy'[k] \in {copy[k], state, InitState}
                      \/ k = j /\ \E s \in {state, copy[j]} : copy'[k] = Running(s, j)
    OBVIOUS
  <1>1. CASE k # j
    BY <1>1, RowMoves DEF RoutingBase
  <1>2. CASE k = j
    <2>1. CASE Looks(j) \/ Rejects(j)
      BY <1>2, <2>1 DEF Looks, Rejects
    <2>2. CASE Begins(j)
      BY <1>2, <2>2 DEF Begins, Begun
    <2>3. CASE Closes(j) \/ Passes(j)
      BY <1>2, <2>3 DEF Closes, Passes
    <2>4. CASE RouteOf(j)
      BY <1>2, <2>4 DEF RouteOf, RouteEnds
    <2> QED BY <2>1, <2>2, <2>3, <2>4 DEF Row
  <1> QED BY <1>1, <1>2

(* A step of a task keeps the limits.                                       *)
LEMMA RowLimits ==
  ASSUME NoBlindReturn, RoutingBase, RoutingTypes', InLimits, NEW j \in Jobs, Row(j)
  PROVE  InLimits'
  <1>0. /\ state \in RoutedState /\ copy[j] \in RoutedState /\ state' \in RoutedState
        /\ \A k \in Jobs : copy[k] \in RoutedState /\ copy'[k] \in RoutedState
    BY DEF RoutingBase, RoutingTypes
  <1>1. /\ Live(j) /\ \A t \in Jobs : Live(t)' => Live(t)
    BY RowMoves DEF RoutingBase, Live
  <1>2. {state, copy[j]} \subseteq Copied /\ \A k \in Jobs : copy[k] \in Copied
    BY DEF Copied
  <1>3. ASSUME NEW t \in Jobs PROVE Fits(t, state'.job[t], Live(t)')
    <2> DEFINE new == state'.job[t]
    <2>0. new \in RecordOf(t)
      BY <1>0, StateParts
    <2>a. \/ \E s \in {state, copy[j]} : Derived(j, t, new, s.job[t])
          \/ t \in Retried /\ new.step = 0
          \/ t = j /\ task'[j] = "idle" /\ Elsewhere(j, new, copy[j].job[j])
      BY RowMakes DEF Made
    <2> HIDE DEF new
    <2>1. ASSUME NEW s \in {state, copy[j]}, Derived(j, t, new, s.job[t])
          PROVE  Fits(t, new, Live(t)')
      <3>1. Fits(t, s.job[t], Live(t)) /\ s.job[t] \in RecordOf(t)
        BY <1>0, <1>2, StateParts DEF InLimits
      <3>2. Fits(t, new, Live(t))
        BY <1>1, <2>0, <2>1, <3>1, DerivedWithin
      <3> QED BY <1>1, <3>2 DEF Fits
    <2>2. CASE t \in Retried /\ new.step = 0
      BY <2>2 DEF Fits, Within, new
    <2>3. CASE t = j /\ task'[j] = "idle" /\ Elsewhere(j, new, copy[j].job[j])
      <3> DEFINE old == copy[j].job[j]
      <3>1. CASE new.status = "blocked"
        BY <2>3, <3>1 DEF Fits, Live, new
      <3>2. CASE new.status # "blocked"
        <4>1. Within(j, old)
          BY <1>1, <1>2 DEF InLimits, Fits
        <4>2. /\ \A i \in 1..Steps[j] : new.visits[i] = old.visits[i] \/ new.visits[i] =< MaxVisits
              /\ new.step \in 1..Steps[j]
              /\ \/ new.visits[new.step] =< MaxVisits
                 \/ \E k \in 2..(Steps[j] - 1) : <<j, k>> \in Conditional
          BY <2>3, <3>2 DEF Elsewhere
        <4> HIDE DEF old
        <4>3. CASE j \in Retried
          BY <2>3, <4>2, <4>3 DEF NoBlindReturn, Within, Fits, new
        <4>4. CASE j \notin Retried
          <5>1. \A i \in 1..Steps[j] : new.visits[i] =< MaxVisits
            BY <4>1, <4>2, <4>4 DEF Within
          <5> QED BY <2>3, <4>2, <5>1 DEF Within, Fits, new
        <4> QED BY <4>3, <4>4
      <3> QED BY <3>1, <3>2
    <2> QED BY <2>a, <2>1, <2>2, <2>3 DEF new
  <1>4. ASSUME NEW k \in Jobs, NEW t \in Jobs PROVE Fits(t, copy'[k].job[t], Live(t)')
    <2>1. CASE copy'[k] \in {copy[k], state}
      BY <1>1, <1>2, <2>1 DEF InLimits, Fits
    <2>2. CASE copy'[k] = InitState
      <3>1. /\ InitState.job[t].step = 0
            /\ \A i \in 1..Steps[t] : InitState.job[t].visits[i] = 0
        BY InitStateTyped
      <3> QED BY <2>2, <3>1, RoutingAssumption DEF Fits, Within
    <2>3. ASSUME k = j, NEW s \in {state, copy[j]}, copy'[k] = Running(s, j)
          PROVE  Fits(t, copy'[k].job[t], Live(t)')
      <3>1. Fits(t, s.job[t], Live(t)) /\ s.job[t] \in RecordOf(t) /\ s \in RoutedState
        BY <1>0, <1>2, StateParts DEF InLimits
      <3>2. Derived(j, t, copy'[k].job[t], s.job[t])
        BY <2>3, <3>1, RunningDerived
      <3>3. copy'[k].job[t] \in RecordOf(t)
        BY <1>0, StateParts
      <3>4. Fits(t, copy'[k].job[t], Live(t))
        BY <1>1, <3>1, <3>2, <3>3, DerivedWithin
      <3> QED BY <1>1, <3>4 DEF Fits
    <2> QED BY <2>1, <2>2, <2>3, RowCopies
  <1> QED BY <1>3, <1>4 DEF InLimits, Copied

(* So does a step of the main loop, which copies nothing.                   *)
LEMMA LoopLimits ==
  ASSUME RoutingBase, InLimits, LoopRow
  PROVE  InLimits'
  <1>0. \A k \in Jobs : copy[k] \in Copied
    BY DEF Copied
  <1>i. ASSUME NEW t \in Jobs PROVE Within(t, InitState.job[t])
    <2>1. /\ InitState.job[t].step = 0
          /\ \A i \in 1..Steps[t] : InitState.job[t].visits[i] = 0
      BY InitStateTyped
    <2> QED BY <2>1, RoutingAssumption DEF Within
  <1>1. CASE Goes
    <2>1. state' = state /\ copy' = copy /\ task' = task
      BY <1>1 DEF Goes
    <2> QED BY <2>1 DEF InLimits, Copied, Live, Fits
  <1>2. CASE Dispatches
    <2>1. /\ state' = state /\ copy' = copy
          /\ \A t \in Jobs : copy[t] = InitState
          /\ \A t \in Jobs : task'[t] = "idle" \/ state.job[t].status \in {"ready", "running"}
      BY <1>2 DEF Dispatches, RoutingBase, InBatch
    <2>2. \A t \in Jobs : Fits(t, state.job[t], Live(t)')
      BY <2>1 DEF InLimits, Copied, Fits, Live
    <2> QED BY <1>i, <2>1, <2>2 DEF InLimits, Copied, Fits
  <1>3. CASE Settles
    <2>1. /\ copy' = copy /\ task' = task
          /\ \A t \in Jobs : Given(state'.job[t], state.job[t])
      BY <1>3 DEF Settles
    <2>2. ASSUME NEW t \in Jobs PROVE Fits(t, state'.job[t], Live(t))
      <3>1. Fits(t, state.job[t], Live(t))
        BY DEF InLimits, Copied
      <3>2. \/ state'.job[t] = state.job[t]
            \/ /\ state.job[t].status = "waiting"
               /\ state'.job[t].step = state.job[t].step
               /\ state'.job[t].visits = state.job[t].visits
        BY <2>1 DEF Given, Woken
      <3> QED BY <3>1, <3>2 DEF Fits, Within
    <2>3. \A t \in Jobs : Live(t)' = Live(t)
      BY <2>1 DEF Live
    <2>4. \A t \in Jobs : \A k \in Jobs : Fits(t, copy[k].job[t], Live(t))
      BY <1>0 DEF InLimits
    <2> QED BY <2>1, <2>2, <2>3, <2>4 DEF InLimits, Copied
  <1>4. CASE Dies
    <2>1. /\ state' = state
          /\ \A t \in Jobs : task'[t] = "idle" /\ copy'[t] = InitState
      BY <1>4 DEF Dies
    <2>2. \A t \in Jobs : Fits(t, state.job[t], Live(t)')
      BY <2>1 DEF InLimits, Copied, Fits, Live
    <2> QED BY <1>i, <2>1, <2>2 DEF InLimits, Copied, Fits
  <1> QED BY <1>1, <1>2, <1>3, <1>4 DEF LoopRow

(* Every record stays within its limits.                                    *)
LEMMA LimitSteps ==
  ASSUME NoBlindReturn
  PROVE  RoutingBase /\ InLimits /\ [Next]_vars => InLimits'
  <1> SUFFICES ASSUME RoutingBase, InLimits, [Next]_vars PROVE InLimits'
    OBVIOUS
  <1>1. CASE UNCHANGED vars
    <2>1. state' = state /\ copy' = copy /\ task' = task
      BY <1>1 DEF vars, disk, local
    <2> QED BY <2>1 DEF InLimits, Copied, Live, Fits
  <1>2. CASE Next
    <2>1. RoutingTypes' /\ (LoopRow \/ (\E j \in Jobs : Row(j)) \/ UNCHANGED vars)
      BY <1>2, RoutingRows
    <2> QED BY <1>1, <2>1, LoopLimits, RowLimits
  <1> QED BY <1>1, <1>2

(* Loops end: no later step executes beyond its max_visits, in whatever way *)
(* goto_step, retries and resumes are mixed and also when tasks overwrite   *)
(* each other's state, unless a job that is routed back skips a step.       *)
THEOREM VisitLimitKept ==
  ASSUME NoBlindReturn
  PROVE  Spec => []VisitLimitHolds
  <1>1. Init => InLimits
    <2> SUFFICES ASSUME Init PROVE InLimits
      OBVIOUS
    <2>1. Copied = {InitState} \/ Copied = {}
      BY DEF Init, Copied
    <2>2. ASSUME NEW t \in Jobs PROVE Within(t, InitState.job[t])
      <3>1. /\ InitState.job[t].step = 0
            /\ \A i \in 1..Steps[t] : InitState.job[t].visits[i] = 0
        BY InitStateTyped
      <3> QED BY <3>1, RoutingAssumption DEF Within
    <2> QED BY <2>1, <2>2 DEF InLimits, Fits
  <1>2. RoutingBase /\ InLimits => VisitLimitHolds
    <2> SUFFICES ASSUME InLimits, NEW j \in Jobs, task[j] = "exec", state.job[j].step > 1
                 PROVE  state.job[j].visits[state.job[j].step] =< MaxVisits
      BY DEF VisitLimitHolds, At
    <2> QED BY DEF InLimits, Copied, Live, Fits, Within
  <1> QED BY <1>1, <1>2, LimitSteps, RoutingInit, RoutingSteps, PTL DEF Spec

(* --------------------------- jobs without collisions ---------------------*)

(* What an execution of a step of rec is recorded as.                       *)
Visited(rec) == [attempt |-> AttemptOf(rec), step |-> StepOf(rec),
                 visit   |-> rec.visits[StepOf(rec)]]

(* The step of a job that runs is the one it last started; a job that has   *)
(* sent itself back has another attempt.                                    *)
Runs(j) ==
  LET rec == state.job[j]
  IN  /\ rec.status = "running" /\ rec.step # 0 /\ rec.attempt # 0
      /\ started[j] = Visited(rec)

Retaken(j) ==
  LET rec == state.job[j]
  IN  /\ rec.status = "ready" /\ rec.attempt # 0 /\ j \in Retried
      /\ started[j].attempt < rec.attempt

(* As long as no task overwrites the work of another, the record of a job   *)
(* that executes is its own task's.                                         *)
Own(j) ==
  LET rec == state.job[j]
  IN  /\ task[j] \in {"begin", "apply", "advance"} => copy[j].job[j] = rec
      /\ task[j] \in {"start", "begin"} => rec.status \in {"ready", "running"}
      /\ task[j] \in {"exec", "route", "apply"} => Runs(j)
      /\ task[j] \in {"after", "advRead", "advance", "commit"}
            => rec.status \in Finished \/ Runs(j) \/ Retaken(j)
      /\ task[j] = "commit" => rec.status \notin Finished

Owned == ~collided => \A j \in Jobs : Own(j)

(* The parts of what is recorded.                                           *)
LEMMA VisitedParts ==
  ASSUME NEW j \in Jobs, NEW rec \in RecordOf(j)
  PROVE  /\ Visited(rec).attempt = AttemptOf(rec) /\ AttemptOf(rec) \in Nat \ {0}
         /\ Visited(rec).step = StepOf(rec) /\ StepOf(rec) # 0
         /\ Visited(rec).visit = rec.visits[StepOf(rec)]
         /\ rec.attempt # 0 => AttemptOf(rec) = rec.attempt
         /\ rec.step # 0 => StepOf(rec) = rec.step
         /\ rec.attempt \in Nat
  <1>1. StepOf(rec) \in 1..Steps[j] /\ AttemptOf(rec) \in Nat \ {0} /\ rec.attempt \in Nat
    BY RecordParts
  <1> QED BY <1>1 DEF Visited, AttemptOf, StepOf

(* The same step of the same attempt, visited as often, is the same visit.  *)
LEMMA VisitedSame ==
  ASSUME NEW new, NEW old, new.attempt = AttemptOf(old), new.attempt # 0,
         new.step = StepOf(old), new.step # 0, new.visits = old.visits
  PROVE  Visited(new) = Visited(old)
  <1>1. AttemptOf(new) = AttemptOf(old) /\ StepOf(new) = StepOf(old)
    BY DEF AttemptOf, StepOf
  <1> QED BY <1>1 DEF Visited

(* Nothing has collided before, and the copy was the state.                 *)
LEMMA Alone ==
  ASSUME RoutingTypes, NEW j \in Jobs, ~collided'
  PROVE  /\ Overwrites(j) => ~collided /\ copy[j] = state /\ ~RoutesLive(j)
         /\ UNCHANGED collided => ~collided
  BY DEF RoutingTypes, Overwrites

(* What a step of the task of j is when nothing collides.                   *)
AloneRow(j) ==
  /\ ~collided
  /\ \/ Looks(j) \/ Rejects(j)
     \/ Moves(j, {"start", "begin"}, {"exec"}) /\ state' = Running(state, j)
          /\ Starts(j, state.job[j])
     \/ UNCHANGED seen /\ Moves(j, {"exec"}, {"after"}) /\ Closed(j, state)
     \/ UNCHANGED seen /\ Moves(j, {"commit"}, {"idle"}) /\ Closed(j, state)
          /\ state'.job[j].status = "completed"
     \/ Passes(j) /\ copy[j] = state
     \/ RouteOf(j) /\ copy[j] = state /\ ~RoutesLive(j)

(* Every step is one of these, then.                                        *)
LEMMA RowAlone ==
  ASSUME RoutingBase, NEW j \in Jobs, Row(j), ~collided'
  PROVE  AloneRow(j)
  <1>0. RoutingTypes
    BY DEF RoutingBase
  <1>1. CASE Looks(j) \/ Rejects(j)
    <2>1. ~collided
      BY <1>0, <1>1, Alone DEF Looks, Rejects
    <2> QED BY <1>1, <2>1 DEF AloneRow
  <1>2. CASE Begins(j)
    <2>1. CASE Moves(j, {"start"}, {"exec"}) /\ Begun(j, state) /\ UNCHANGED collided
      <3>1. ~collided
        BY <1>0, <2>1, Alone
      <3> QED BY <2>1, <3>1 DEF Begun, AloneRow, Moves
    <2>2. CASE Moves(j, {"begin"}, {"exec"}) /\ Begun(j, copy[j]) /\ Overwrites(j)
      <3>1. ~collided /\ copy[j] = state
        BY <1>0, <2>2, Alone
      <3> QED BY <2>2, <3>1 DEF Begun, AloneRow, Moves
    <2> QED BY <1>2, <2>1, <2>2 DEF Begins
  <1>3. CASE Closes(j)
    <2>1. CASE Moves(j, {"exec"}, {"after"}) /\ Closed(j, copy[j]) /\ Overwrites(j)
      <3>1. ~collided /\ copy[j] = state
        BY <1>0, <2>1, Alone
      <3> QED BY <1>3, <2>1, <3>1 DEF Closes, AloneRow
    <2>2. CASE /\ Moves(j, {"commit"}, {"idle"}) /\ Closed(j, state)
               /\ state'.job[j].status = "completed" /\ UNCHANGED collided
      <3>1. ~collided
        BY <1>0, <2>2, Alone
      <3> QED BY <1>3, <2>2, <3>1 DEF Closes, AloneRow
    <2> QED BY <1>3, <2>1, <2>2 DEF Closes
  <1>4. CASE Passes(j)
    <2>1. ~collided /\ copy[j] = state
      BY <1>0, <1>4, Alone DEF Passes
    <2> QED BY <1>4, <2>1 DEF AloneRow
  <1>5. CASE RouteOf(j)
    <2>1. ~collided /\ copy[j] = state /\ ~RoutesLive(j)
      BY <1>0, <1>5, Alone DEF RouteOf
    <2> QED BY <1>5, <2>1 DEF AloneRow
  <1> QED BY <1>1, <1>2, <1>3, <1>4, <1>5 DEF Row

(* The record of another job becomes ready, or is the target of a route.    *)
LEMMA OtherRecord ==
  ASSUME RoutingBase, NEW j \in Jobs, AloneRow(j), NEW t \in Jobs \ {j}
  PROVE  \/ Woken(state'.job[t], state.job[t])
         \/ /\ task[t] = "idle" /\ task[j] = "apply" /\ copy[j] = state
            /\ Again(j, t) \/ Exceeds(j, t) \/ Activates(j, t) \/ Jumps(j, t)
  <1>0. state \in RoutedState
    BY DEF RoutingBase, RoutingTypes
  <1>s. ASSUME state'.job[t] = state.job[t] PROVE Woken(state'.job[t], state.job[t])
    BY <1>s DEF Woken
  <1>1. CASE Looks(j) \/ Rejects(j)
    BY <1>1, <1>s DEF Looks, Rejects
  <1>2. CASE state' = Running(state, j)
    BY <1>0, <1>2, <1>s, RunningTyped
  <1>3. CASE Closed(j, state)
    BY <1>3 DEF Closed
  <1>4. CASE Passes(j) /\ copy[j] = state
    BY <1>4, <1>s DEF Passes, OthersAs
  <1>5. CASE RouteOf(j) /\ copy[j] = state /\ ~RoutesLive(j)
    <2>0. At(j, "apply")
      BY <1>5 DEF RouteOf, RouteEnds, Moves, At
    <2>1. CASE state' = copy[j]
      BY <1>5, <2>1, <1>s
    <2>2. CASE Stopped(j)
      BY <1>5, <2>2, <1>s DEF Stopped, OthersAs
    <2>3. ASSUME NEW u \in Jobs,
                 Again(j, u) \/ Exceeds(j, u) \/ Activates(j, u) \/ Jumps(j, u)
          PROVE  \/ state'.job[t] = state.job[t]
                 \/ t = u /\ task[t] = "idle"
      <3>1. t # u => state'.job[t] = state.job[t]
        BY <1>5, <2>3 DEF Again, Exceeds, Activates, Jumps, OthersAs
      <3>2. route[j].do \in JobRoute /\ route[j].at = u
        BY <2>3 DEF Again, Exceeds, Activates, Jumps, JobRoute
      <3>3. t = u => task[t] = "idle"
        BY <1>5, <2>0, <3>2 DEF RoutesLive, At
      <3> QED BY <3>1, <3>3
    <2> QED BY <1>5, <1>s, <2>0, <2>1, <2>2, <2>3 DEF RouteOf, At
  <1> QED BY <1>1, <1>2, <1>3, <1>4, <1>5 DEF AloneRow

(* A job whose task is under way is neither inactive nor waiting.           *)
LEMMA OwnStatus ==
  ASSUME RoutingTypes, NEW j \in Jobs, Own(j), task[j] # "idle"
  PROVE  /\ state.job[j].status \notin {"inactive", "waiting"}
         /\ state.job[j].status \in {"ready", "running"} \cup Finished
  <1>1. task[j] \in Points
    BY DEF RoutingTypes
  <1> QED BY <1>1 DEF Own, Points, Finished, Runs, Retaken

(* What its own task makes of the record of j.                              *)
LEMMA OwnSteps ==
  ASSUME RoutingBase, RoutingTypes', NEW j \in Jobs, AloneRow(j), Own(j)
  PROVE  Own(j)'
  <1>0. /\ RoutingTypes /\ state.job[j] \in RecordOf(j) /\ state \in RoutedState
        /\ state'.job[j] \in RecordOf(j)
    BY StateParts DEF RoutingBase, RoutingTypes
  <1>1. CASE Looks(j)
    <2>1. state' = state /\ started' = started
      BY <1>1 DEF Looks, seen
    <2>2. /\ Runs(j)' = Runs(j) /\ Retaken(j)' = Retaken(j)
      BY <2>1 DEF Runs, Retaken
    <2>3. CASE \/ Moves(j, {"exec"}, {"advRead"})
               \/ Moves(j, {"exec"}, {"route"})
               \/ Moves(j, {"start"}, {"begin"}) /\ copy'[j] = state
               \/ Moves(j, {"route"}, {"apply"}) /\ copy'[j] = state
               \/ Moves(j, {"advRead"}, {"advance"}) /\ copy'[j] = state
               \/ Moves(j, {"after"}, {"advRead"})
      BY <2>1, <2>2, <2>3 DEF Own, Moves
    <2>4. CASE task'[j] = "idle"
      BY <2>4 DEF Own
    <2>5. CASE Moves(j, {"advance"}, {"commit"}) /\ copy[j].job[j].status \notin Finished
      BY <2>1, <2>2, <2>5 DEF Own, Moves
    <2>6. \/ \/ Moves(j, {"exec"}, {"advRead"})
             \/ Moves(j, {"exec"}, {"route"})
             \/ Moves(j, {"start"}, {"begin"}) /\ copy'[j] = state
             \/ Moves(j, {"route"}, {"apply"}) /\ copy'[j] = state
             \/ Moves(j, {"advRead"}, {"advance"}) /\ copy'[j] = state
             \/ Moves(j, {"after"}, {"advRead"})
          \/ Moves(j, {"after"}, {"idle"}) \/ Moves(j, {"advance"}, {"idle"})
          \/ Moves(j, {"advance"}, {"commit"}) /\ copy[j].job[j].status \notin Finished
      BY <1>1 DEF Looks
    <2>7. Moves(j, {"after"}, {"idle"}) \/ Moves(j, {"advance"}, {"idle"}) => task'[j] = "idle"
      BY DEF Moves
    <2> QED BY <2>3, <2>4, <2>5, <2>6, <2>7
  <1>2. CASE task'[j] = "idle"
    BY <1>2 DEF Own
  <1>3. CASE /\ Moves(j, {"start", "begin"}, {"exec"}) /\ state' = Running(state, j)
             /\ Starts(j, state.job[j])
    <2> DEFINE old == state.job[j]
               new == state'.job[j]
    <2>1. /\ new.status = "running" /\ new.attempt = AttemptOf(old)
          /\ new.step = StepOf(old) /\ new.visits = old.visits
      BY <1>0, <1>3, RunningTyped
    <2>2. started'[j] = Visited(old)
      BY <1>0, <1>3 DEF Starts, Visited, RoutingTypes
    <2>3. StepOf(old) # 0 /\ AttemptOf(old) # 0
      BY <1>0, VisitedParts
    <2>4. Visited(new) = Visited(old)
      <3> HIDE DEF new, old
      <3> QED BY <2>1, <2>3, VisitedSame
    <2>5. Runs(j)'
      BY <2>1, <2>2, <2>3, <2>4 DEF Runs, Visited, AttemptOf, StepOf
    <2> QED BY <1>3, <2>5 DEF Own, Moves
  <1>4. CASE UNCHANGED seen /\ Moves(j, {"exec"}, {"after"}) /\ Closed(j, state)
    <2> DEFINE old == state.job[j]
               new == state'.job[j]
    <2>1. Runs(j) /\ started' = started /\ task'[j] = "after"
      BY <1>4 DEF Own, Moves, seen
    <2>2. CASE \E st \in Finished : ClosedAs(new, old, st)
      <3>1. new.status \in Finished
        BY <2>2 DEF ClosedAs
      <3> QED BY <2>1, <3>1 DEF Own
    <2>3. CASE ClosedAs(new, old, "running") /\ new.step = old.step
      <3>1. /\ new.status = "running" /\ new.attempt = old.attempt /\ new.step = old.step
            /\ new.visits = old.visits
        BY <2>3 DEF ClosedAs
      <3>2. Runs(j)'
        BY <2>1, <3>1 DEF Runs, Visited, AttemptOf, StepOf
      <3> QED BY <2>1, <3>2 DEF Own
    <2> QED BY <1>4, <2>2, <2>3 DEF Closed
  <1>5. CASE RouteOf(j) /\ copy[j] = state /\ task'[j] # "idle"
    <2> DEFINE old == state.job[j]
               new == state'.job[j]
    <2>1. /\ Runs(j) /\ started' = started /\ task'[j] \in {"after", "advRead"}
      BY <1>5 DEF RouteOf, RouteEnds, Moves, Own, seen
    <2>2. new = old => Runs(j)'
      BY <2>1 DEF Runs
    <2>3. new = old \/ new.status \in Finished => Own(j)'
      BY <2>1, <2>2 DEF Own
    <2>4. CASE state' = copy[j]
      BY <1>5, <2>3, <2>4
    <2>5. CASE Stopped(j)
      BY <2>3, <2>5 DEF Stopped, ClosedAs, Finished
    <2>6. ASSUME NEW u \in Jobs, Again(j, u) PROVE Own(j)'
      <3>1. CASE u # j
        BY <1>5, <2>3, <2>6, <3>1 DEF Again, OthersAs
      <3>2. CASE u = j
        <4>1. /\ new.status = "ready" /\ new.attempt = AttemptOf(old) + 1 /\ j \in Retried
          <5>1. j \in Retried
            BY <1>5, <2>6, <3>2, SentBack DEF RouteOf, RouteEnds, Moves
          <5> QED BY <1>5, <2>6, <3>2, <5>1 DEF Again
        <4>2. started'[j] = Visited(old)
          BY <2>1 DEF Runs
        <4>3. started'[j].attempt = AttemptOf(old) /\ AttemptOf(old) \in Nat
          <5> HIDE DEF old
          <5>1. old \in RecordOf(j)
            BY <1>0 DEF old
          <5> QED BY <4>2, <5>1, VisitedParts
        <4>4. Retaken(j)'
          <5>1. new.attempt # 0 /\ started'[j].attempt < new.attempt
            <6> HIDE DEF old, new
            <6> QED BY <4>1, <4>3
          <5> QED BY <4>1, <5>1 DEF Retaken
        <4> QED BY <2>1, <4>4 DEF Own
      <3> QED BY <3>1, <3>2
    <2>7. ASSUME NEW u \in Jobs, Exceeds(j, u) PROVE Own(j)'
      <3>1. CASE u # j
        BY <1>5, <2>3, <2>7, <3>1 DEF Exceeds, OthersAs
      <3>2. CASE u = j
        BY <2>3, <2>7, <3>2 DEF Exceeds, ClosedAs, Finished
      <3> QED BY <3>1, <3>2
    <2>8. ASSUME NEW u \in Jobs, Activates(j, u) PROVE Own(j)'
      <3>1. u # j
        BY <1>5, <2>1, <2>8 DEF Activates, Runs
      <3> QED BY <1>5, <2>3, <2>8, <3>1 DEF Activates, OthersAs
    <2>9. ASSUME NEW u \in Jobs, Jumps(j, u) PROVE Own(j)'
      <3>1. u # j
        BY <1>5, <2>1, <2>9 DEF Jumps, Runs
      <3> QED BY <2>3, <2>9, <3>1 DEF Jumps, ClosedAs, Finished
    <2> QED BY <1>5, <2>4, <2>5, <2>6, <2>7, <2>8, <2>9 DEF RouteOf
  <1>6. Rejects(j) \/ Passes(j) \/ Moves(j, {"commit"}, {"idle"}) => task'[j] = "idle"
    BY DEF Rejects, Passes, Moves
  <1> QED BY <1>1, <1>2, <1>3, <1>4, <1>5, <1>6 DEF AloneRow

(* The record of a job that executes stays its own task's.                  *)
LEMMA OwnedSteps == RoutingBase /\ Owned /\ [Next]_vars => Owned'
  <1> SUFFICES ASSUME RoutingBase, Owned, [Next]_vars, ~collided', NEW t \in Jobs
               PROVE  Own(t)'
    BY DEF Owned
  <1>0. RoutingTypes
    BY DEF RoutingBase
  <1>1. CASE UNCHANGED vars
    BY <1>1 DEF Owned, Own, Runs, Retaken, vars, disk, local, seen
  <1>2. CASE LoopRow
    <2>0. ~collided
      BY <1>2 DEF LoopRow
    <2>1. CASE Goes \/ Settles \/ Dies
      <3>1. task'[t] = "idle"
        BY <2>1 DEF Goes, Settles, Dies, RoutingBase, InBatch
      <3> QED BY <3>1 DEF Own
    <2>2. CASE Dispatches
      BY <2>2 DEF Dispatches, Own
    <2> QED BY <1>2, <2>1, <2>2 DEF LoopRow
  <1>3. ASSUME NEW j \in Jobs, Row(j), RoutingTypes' PROVE Own(t)'
    <2>1. AloneRow(j)
      BY <1>3, RowAlone
    <2>2. \A k \in Jobs : Own(k)
      BY <2>1 DEF AloneRow, Owned
    <2>3. CASE t = j
      BY <1>3, <2>1, <2>2, <2>3, OwnSteps
    <2>4. CASE t # j
      <3>1. /\ task'[t] = task[t] /\ copy'[t] = copy[t] /\ started'[t] = started[t]
        BY <1>0, <1>3, <2>4, RowMoves
      <3>2. CASE task[t] = "idle"
        BY <3>1, <3>2 DEF Own
      <3>3. CASE task[t] # "idle"
        <4>1. Woken(state'.job[t], state.job[t])
          BY <2>1, <2>4, <3>3, OtherRecord
        <4>2. state.job[t].status # "waiting"
          BY <1>0, <2>2, <3>3, OwnStatus
        <4>3. state'.job[t] = state.job[t]
          BY <4>1, <4>2 DEF Woken
        <4> QED BY <2>2, <3>1, <4>3 DEF Own, Runs, Retaken
      <3> QED BY <3>2, <3>3
    <2> QED BY <2>3, <2>4
  <1>4. CASE Next
    <2>1. RoutingTypes' /\ (LoopRow \/ (\E j \in Jobs : Row(j)) \/ UNCHANGED vars)
      BY <1>4, RoutingRows
    <2> QED BY <1>1, <1>2, <1>3, <2>1
  <1> QED BY <1>1, <1>4

(* At first no job executes.                                                *)
LEMMA OwnedInit == Init => Owned
  BY DEF Init, Owned, Own

(* A task that writes is one of a job that is not settled.                  *)
LEMMA WriterUnsettled ==
  ASSUME RoutingBase, NEW j \in Jobs, AloneRow(j), Own(j)
  PROVE  \/ Looks(j) \/ Rejects(j)
         \/ /\ state.job[j].status \in {"ready", "running"}
            /\ \/ state'.run = state.run
               \/ \A k \in Jobs : state'.job[k].status \in {"completed", "inactive"}
  <1>0. state \in RoutedState
    BY DEF RoutingBase, RoutingTypes
  <1>1. CASE Moves(j, {"start", "begin"}, {"exec"}) /\ state' = Running(state, j)
    <2>1. state'.run = state.run
      BY <1>0, <1>1, RunningTyped
    <2> QED BY <1>1, <2>1 DEF Own, Moves
  <1>2. CASE Moves(j, {"exec"}, {"after"}) /\ Closed(j, state)
    BY <1>2 DEF Own, Moves, Runs, Closed
  <1>3. CASE Moves(j, {"commit"}, {"idle"}) /\ Closed(j, state)
    BY <1>3 DEF Own, Moves, Runs, Retaken, Closed
  <1>4. CASE Passes(j) /\ copy[j] = state
    <2>1. state'.run = state.run /\ task[j] \in {"advance", "apply"}
      BY <1>4 DEF Passes, Moves
    <2>2. task[j] = "advance" => state.job[j].status \notin Finished
      BY <1>4 DEF Passes
    <2> QED BY <2>1, <2>2 DEF Own, Runs, Retaken
  <1>5. CASE RouteOf(j) /\ copy[j] = state
    <2>1. state'.run = state.run /\ task[j] = "apply"
      BY <1>5 DEF RouteOf, RouteEnds, Moves
    <2> QED BY <2>1 DEF Own, Runs
  <1> QED BY <1>1, <1>2, <1>3, <1>4, <1>5 DEF AloneRow

(* A completed run has no job that was activated or routed back and is not  *)
(* settled, whatever the workflow, as long as no task overwrites the state  *)
(* of another.                                                              *)
THEOREM CompletedRunSettled == Spec => []CompletedRunIsSettled
  <1>1. Init => CompletedRunIsSettled
    <2>1. Init => state.run # "completed"
      BY InitStateTyped DEF Init
    <2> QED BY <2>1 DEF CompletedRunIsSettled
  <1>2. RoutingBase /\ Owned /\ CompletedRunIsSettled /\ [Next]_vars => CompletedRunIsSettled'
    <2> SUFFICES ASSUME RoutingBase, Owned, CompletedRunIsSettled, [Next]_vars,
                        ~collided', state'.run = "completed"
                 PROVE  \A k \in Jobs : Settled(state'.job, k)
      BY DEF CompletedRunIsSettled
    <2>1. ASSUME state' = state, ~collided PROVE \A k \in Jobs : Settled(state'.job, k)
      BY <2>1 DEF CompletedRunIsSettled
    <2>2. CASE UNCHANGED vars
      BY <2>1, <2>2 DEF vars, disk
    <2>3. CASE LoopRow
      <3>0. ~collided
        BY <2>3 DEF LoopRow
      <3>1. CASE Goes \/ Dispatches \/ Dies
        BY <2>1, <3>0, <3>1 DEF Goes, Dispatches, Dies
      <3>2. CASE Settles
        <4>1. CASE state'.run = state.run
          <5>1. \A k \in Jobs : Settled(state.job, k)
            BY <3>0, <4>1 DEF CompletedRunIsSettled
          <5>2. \A k \in Jobs : Given(state'.job[k], state.job[k])
            BY <3>2 DEF Settles
          <5> QED BY <5>1, <5>2 DEF Settled, Given, Woken
        <4> QED BY <3>2, <4>1 DEF Settles
      <3> QED BY <2>3, <3>1, <3>2 DEF LoopRow
    <2>4. ASSUME NEW j \in Jobs, Row(j) PROVE \A k \in Jobs : Settled(state'.job, k)
      <3>1. AloneRow(j)
        BY <2>4, RowAlone
      <3>2. ~collided /\ Own(j)
        BY <3>1 DEF AloneRow, Owned
      <3>3. CASE Looks(j) \/ Rejects(j)
        BY <2>1, <3>2, <3>3 DEF Looks, Rejects
      <3>4. CASE /\ state.job[j].status \in {"ready", "running"}
                 /\ \/ state'.run = state.run
                    \/ \A k \in Jobs : state'.job[k].status \in {"completed", "inactive"}
        <4>1. state.run # "completed"
          BY <3>2, <3>4 DEF CompletedRunIsSettled, Settled
        <4> QED BY <3>4, <4>1 DEF Settled
      <3> QED BY <3>1, <3>2, <3>3, <3>4, WriterUnsettled
    <2>5. CASE Next
      <3>1. LoopRow \/ (\E j \in Jobs : Row(j)) \/ UNCHANGED vars
        BY <2>5, RoutingRows
      <3> QED BY <2>2, <2>3, <2>4, <3>1
    <2> QED BY <2>2, <2>5
  <1> QED BY <1>1, <1>2, OwnedInit, OwnedSteps, RoutingInit, RoutingSteps, PTL DEF Spec

(* -------------------------- attempts and their steps ---------------------*)

(* The attempt of a completed job is the one that was started, and no job   *)
(* is advanced that has been sent back, but by its own output or signal.    *)
Executed ==
  ~collided =>
    \A j \in Jobs \ AdvancedPastRetry :
      /\ state.job[j].status = "completed" => started[j].attempt = state.job[j].attempt
      /\ task[j] \in {"advRead", "advance", "commit"} => state.job[j].status # "ready"

(* The attempt recorded of a step that runs.                                *)
LEMMA RunsAttempt ==
  ASSUME RoutingTypes, NEW j \in Jobs, Runs(j)
  PROVE  started[j].attempt = state.job[j].attempt
  <1>1. state.job[j] \in RecordOf(j)
    BY StateParts DEF RoutingTypes
  <1> QED BY <1>1, VisitedParts DEF Runs

(* A step of the task of j leaves its own job so.                           *)
LEMMA ExecutedOwn ==
  ASSUME RoutingBase, RoutingTypes', NEW j \in Jobs \ AdvancedPastRetry, AloneRow(j), Own(j),
         Executed
  PROVE  /\ state'.job[j].status = "completed" => started'[j].attempt = state'.job[j].attempt
         /\ task'[j] \in {"advRead", "advance", "commit"} => state'.job[j].status # "ready"
  <1> DEFINE old == state.job[j]
             new == state'.job[j]
  <1>0. /\ RoutingTypes /\ state \in RoutedState /\ old \in RecordOf(j)
        /\ started \in [Jobs -> Start] /\ ~collided
    BY StateParts DEF RoutingBase, RoutingTypes, AloneRow
  <1>1. CASE Looks(j)
    <2>1. state' = state /\ started' = started
      BY <1>1 DEF Looks, seen
    <2>2. task'[j] \in {"advRead", "advance", "commit"} => new.status # "ready"
      <3>1. CASE Moves(j, {"exec"}, {"advRead"})
        BY <2>1, <3>1 DEF Moves, Own, Runs
      <3>2. CASE Moves(j, {"after"}, {"advRead"}) /\ state.job[j].status = "running"
        BY <2>1, <3>2
      <3>3. CASE Moves(j, {"advRead", "advance"}, {"advance", "commit"})
        BY <1>0, <2>1, <3>3 DEF Moves, Executed
      <3>4. \/ Moves(j, {"exec"}, {"advRead"})
            \/ Moves(j, {"after"}, {"advRead"}) /\ state.job[j].status = "running"
            \/ Moves(j, {"advRead", "advance"}, {"advance", "commit"})
            \/ task'[j] \in {"route", "begin", "apply", "idle"}
        BY <1>1 DEF Looks, Moves
      <3> QED BY <3>1, <3>2, <3>3, <3>4
    <2> QED BY <1>0, <2>1, <2>2 DEF Executed
  <1>2. CASE Rejects(j)
    <2>1. state' = state /\ started'[j].attempt = started[j].attempt
      BY <1>0, <1>2 DEF Rejects, Excuse, Start
    <2>2. task'[j] = "idle"
      BY <1>2 DEF Rejects, Moves
    <2> QED BY <1>0, <2>1, <2>2 DEF Executed
  <1>3. CASE Moves(j, {"start", "begin"}, {"exec"}) /\ state' = Running(state, j)
    <2>1. new.status = "running"
      BY <1>0, <1>3, RunningTyped
    <2> QED BY <2>1
  <1>4. CASE /\ UNCHANGED seen /\ Closed(j, state)
             /\ \/ Moves(j, {"exec"}, {"after"})
                \/ Moves(j, {"commit"}, {"idle"})
    <2>1. Runs(j)
      <3>1. CASE task[j] = "exec"
        BY <3>1 DEF Own
      <3>2. CASE task[j] = "commit"
        BY <1>0, <3>2 DEF Own, Executed, Retaken
      <3> QED BY <1>4, <3>1, <3>2 DEF Moves
    <2>2. new.attempt = old.attempt
      BY <1>4 DEF Closed, ClosedAs
    <2>3. started'[j].attempt = new.attempt
      BY <1>0, <1>4, <2>1, <2>2, RunsAttempt DEF seen
    <2>4. task'[j] \in {"after", "idle"}
      BY <1>4 DEF Moves
    <2> QED BY <2>3, <2>4
  <1>5. CASE Passes(j) /\ copy[j] = state
    <2>1. /\ task'[j] = "idle" /\ new.status \in {"blocked", old.status}
          /\ old.status = "completed" => task[j] = "apply"
      BY <1>5 DEF Passes, Elsewhere, Moves, Finished
    <2>2. old.status # "completed"
      BY <2>1 DEF Own, Runs
    <2> QED BY <2>1, <2>2
  <1>6. CASE RouteOf(j) /\ copy[j] = state
    <2>0. task[j] = "apply" /\ Runs(j)
      BY <1>6 DEF RouteOf, RouteEnds, Moves, Own
    <2>1. /\ started[j].attempt = old.attempt
          /\ started'[j].attempt = started[j].attempt
          /\ old.status = "running"
      <3>1. started'[j].attempt = started[j].attempt
        BY <1>0, <1>6 DEF RouteOf, RouteEnds, Excuse, Start, seen
      <3> QED BY <1>0, <2>0, <3>1, RunsAttempt DEF Runs
    <2>2. new = old => new.status \notin {"completed", "ready"}
      BY <2>1
    <2>3. CASE state' = copy[j]
      BY <1>6, <2>2, <2>3
    <2>4. CASE Stopped(j)
      BY <2>4 DEF Stopped, ClosedAs
    <2>5. ASSUME NEW u \in Jobs, Again(j, u)
          PROVE  /\ new.status = "completed" => started'[j].attempt = new.attempt
                 /\ task'[j] \in {"advRead", "advance", "commit"} => new.status # "ready"
      <3>1. CASE u # j
        BY <1>6, <2>2, <2>5, <3>1 DEF Again, OthersAs
      <3>2. CASE u = j
        <4>1. /\ new.status = "ready" /\ route[j].do = "retry_job" /\ route[j].at = j
              /\ MaxAttempts[j] > 1
          BY <2>5, <3>2 DEF Again
        <4>3. \E k \in 1..Steps[j] : route[j] \in Routes[j][k]
          BY <2>0 DEF RoutingBase, Chosen, ChosenFor
        <4>4. route[j].via \notin {"output", "signal"}
          BY <4>1, <4>3 DEF AdvancedPastRetry
        <4>5. task'[j] \in {"after", "idle"}
          BY <1>6, <4>1, <4>4 DEF RouteOf, RouteEnds, Moves
        <4> QED BY <4>1, <4>5
      <3> QED BY <3>1, <3>2
    <2>6. ASSUME NEW u \in Jobs, Exceeds(j, u)
          PROVE  new.status \notin {"completed", "ready"}
      <3>1. CASE u # j
        BY <1>6, <2>2, <2>6, <3>1 DEF Exceeds, OthersAs
      <3>2. CASE u = j
        BY <2>6, <3>2 DEF Exceeds, ClosedAs
      <3> QED BY <3>1, <3>2
    <2>7. ASSUME NEW u \in Jobs, Activates(j, u)
          PROVE  new.status \notin {"completed", "ready"}
      <3>1. u # j
        BY <1>6, <2>1, <2>7 DEF Activates
      <3> QED BY <1>6, <2>2, <2>7, <3>1 DEF Activates, OthersAs
    <2>8. ASSUME NEW u \in Jobs, Jumps(j, u)
          PROVE  new.status = "completed" /\ new.attempt = old.attempt
      <3>1. u # j
        BY <1>6, <2>1, <2>8 DEF Jumps
      <3> QED BY <1>6, <2>8, <3>1 DEF Jumps, ClosedAs
    <2> QED BY <1>6, <2>1, <2>3, <2>2, <2>4, <2>5, <2>6, <2>7, <2>8 DEF RouteOf
  <1> QED BY <1>1, <1>2, <1>3, <1>4, <1>5, <1>6 DEF AloneRow

(* The record of another job is not completed by it.                        *)
LEMMA ExecutedOther ==
  ASSUME RoutingBase, NEW j \in Jobs, AloneRow(j),
         NEW t \in Jobs \ AdvancedPastRetry, t # j, Own(t), Executed
  PROVE  /\ state'.job[t].status = "completed" => started[t].attempt = state'.job[t].attempt
         /\ task[t] \in {"advRead", "advance", "commit"} => state'.job[t].status # "ready"
  <1> DEFINE old == state.job[t]
             new == state'.job[t]
  <1>0. RoutingTypes /\ ~collided
    BY DEF RoutingBase, AloneRow
  <1>1. CASE Woken(new, old)
    <2>1. task[t] # "idle" => old.status # "waiting"
      BY <1>0, OwnStatus
    <2> QED BY <1>0, <1>1, <2>1 DEF Woken, Executed
  <1>2. CASE task[t] = "idle" /\ (Again(j, t) \/ Exceeds(j, t) \/ Activates(j, t) \/ Jumps(j, t))
    <2>1. new.status # "completed"
      BY <1>2 DEF Again, Exceeds, ClosedAs, Activates, Enters, Jumps
    <2> QED BY <1>2, <2>1
  <1> QED BY <1>1, <1>2, OtherRecord

(* Completed jobs have executed their attempt.                              *)
LEMMA ExecutedSteps == RoutingBase /\ Owned /\ Executed /\ [Next]_vars => Executed'
  <1> SUFFICES ASSUME RoutingBase, Owned, Executed, [Next]_vars, ~collided',
                      NEW t \in Jobs \ AdvancedPastRetry
               PROVE  /\ state'.job[t].status = "completed"
                            => started'[t].attempt = state'.job[t].attempt
                      /\ task'[t] \in {"advRead", "advance", "commit"}
                            => state'.job[t].status # "ready"
    BY DEF Executed
  <1>0. RoutingTypes /\ started \in [Jobs -> Start]
    BY DEF RoutingBase, RoutingTypes
  <1>1. CASE UNCHANGED vars
    BY <1>1 DEF Executed, vars, disk, local, seen
  <1>2. CASE LoopRow
    <2>0. ~collided
      BY <1>2 DEF LoopRow
    <2>1. CASE Goes
      <3>1. state' = state /\ started' = started /\ task' = task
        BY <2>1 DEF Goes, seen
      <3> QED BY <2>0, <3>1 DEF Executed
    <2>2. CASE Dispatches
      <3>1. state' = state /\ started' = started /\ task'[t] \in {"idle", "start"}
        BY <2>2 DEF Dispatches, seen
      <3> QED BY <2>0, <3>1 DEF Executed
    <2>3. CASE Settles
      <3>1. started' = started /\ task'[t] = "idle" /\ Given(state'.job[t], state.job[t])
        BY <2>3 DEF Settles, seen, RoutingBase, InBatch
      <3> QED BY <2>0, <3>1 DEF Executed, Given, Woken
    <2>4. CASE Dies
      <3>1. /\ state' = state /\ task'[t] = "idle"
            /\ started'[t].attempt = started[t].attempt
        <4>1. t \in Jobs /\ started[t] \in Start
          BY <1>0
        <4>2. started'[t] = [started[t] EXCEPT !.step = 0]
          BY <2>4 DEF Dies
        <4> QED BY <2>4, <4>1, <4>2 DEF Dies, Start
      <3> QED BY <2>0, <3>1 DEF Executed
    <2> QED BY <1>2, <2>1, <2>2, <2>3, <2>4 DEF LoopRow
  <1>3. ASSUME NEW j \in Jobs, Row(j), RoutingTypes'
        PROVE  /\ state'.job[t].status = "completed"
                     => started'[t].attempt = state'.job[t].attempt
               /\ task'[t] \in {"advRead", "advance", "commit"}
                     => state'.job[t].status # "ready"
    <2>1. AloneRow(j)
      BY <1>3, RowAlone
    <2>2. \A k \in Jobs : Own(k)
      BY <2>1 DEF AloneRow, Owned
    <2>3. CASE t = j
      BY <1>3, <2>1, <2>2, <2>3, ExecutedOwn
    <2>4. CASE t # j
      <3>1. task'[t] = task[t] /\ started'[t] = started[t]
        BY <1>0, <1>3, <2>4, RowMoves
      <3> QED BY <2>1, <2>2, <2>4, <3>1, ExecutedOther
    <2> QED BY <2>3, <2>4
  <1>4. CASE Next
    <2>1. RoutingTypes' /\ (LoopRow \/ (\E j \in Jobs : Row(j)) \/ UNCHANGED vars)
      BY <1>4, RoutingRows
    <2> QED BY <1>1, <1>2, <1>3, <2>1
  <1> QED BY <1>1, <1>4

(* The attempt of a completed job has been executed: a job that a check, a  *)
(* return status or another job sends back is not completed by what its     *)
(* previous attempt still had to do, as long as no task overwrites the state*)
(* of another.  Jobs that their own on_output or signal may send back are   *)
(* left out.                                                                *)
THEOREM RetriedAttemptRan == Spec => []RetriedAttemptRuns
  <1>1. Init => Executed
    <2> SUFFICES ASSUME Init PROVE Executed
      OBVIOUS
    <2>1. \A j \in Jobs : state.job[j].status # "completed" /\ task[j] = "idle"
      BY InitStateTyped DEF Init
    <2> QED BY <2>1 DEF Executed
  <1>2. Executed => RetriedAttemptRuns
    BY DEF Executed, RetriedAttemptRuns
  <1> QED BY <1>1, <1>2, ExecutedSteps, OwnedInit, OwnedSteps, RoutingInit, RoutingSteps,
             PTL DEF Spec

(* No goto_job leads to a job that may have been sent back: it would have   *)
(* its first attempt again.                                                 *)
NoReturnedGoto ==
  \A j \in Jobs : \A k \in 1..Steps[j] : \A r \in Routes[j][k] :
    r.do = "goto_job" => r.at \notin Retried

(* A job with record rec may start: not the visit it last started.          *)
Unused(j, rec, last) ==
  /\ last.attempt =< AttemptOf(rec)
  /\ rec.status \in {"inactive", "waiting"} \/ (rec.status = "ready" /\ j \notin Retried)
       => last = NoStart

New(rec, last, point) ==
  point \in {"idle", "start", "begin"} /\ rec.status \notin Finished => last # Visited(rec)

Unrepeated ==
  ~collided =>
    /\ again = {}
    /\ \A j \in Jobs : /\ Unused(j, state.job[j], started[j])
                       /\ New(state.job[j], started[j], task[j])

(* What has been started of no step is not a visit of one.                  *)
LEMMA NoVisit ==
  ASSUME NEW j \in Jobs, NEW rec \in RecordOf(j), NEW last, last.step = 0
  PROVE  last # Visited(rec)
  BY VisitedParts

(* A job that was never started is new, in whatever way it enters.          *)
LEMMA NeverStarted ==
  ASSUME NEW j \in Jobs, NEW rec \in RecordOf(j), NEW point
  PROVE  Unused(j, rec, NoStart) /\ New(rec, NoStart, point)
  <1>1. NoStart.step = 0 /\ NoStart.attempt = 0
    BY DEF NoStart
  <1>2. AttemptOf(rec) \in Nat
    BY VisitedParts
  <1> QED BY <1>1, <1>2, NoVisit DEF Unused, New

(* A job that is only made ready, or blocked, while it waits.               *)
LEMMA GivenNew ==
  ASSUME NEW j \in Jobs, NEW old \in RecordOf(j), NEW new \in RecordOf(j), Given(new, old),
         NEW last, NEW point, Unused(j, old, last), New(old, last, point)
  PROVE  Unused(j, new, last) /\ New(new, last, point)
  <1>1. CASE new = old
    BY <1>1
  <1>2. CASE old.status = "waiting"
    <2>1. last = NoStart
      BY <1>2 DEF Unused
    <2> QED BY <2>1, NeverStarted
  <1> QED BY <1>1, <1>2 DEF Given, Woken

(* Attempts do not go back.                                                 *)
LEMMA SameAttempt ==
  ASSUME NEW j, NEW old, NEW new, NEW last, new.attempt = old.attempt,
         last.attempt =< AttemptOf(old),
         \/ new.status \in Finished \cup {"running"}
         \/ new.status = "ready" /\ j \in Retried
  PROVE  Unused(j, new, last)
  <1>1. AttemptOf(new) = AttemptOf(old)
    BY DEF AttemptOf
  <1>2. \/ new.status \notin {"inactive", "waiting", "ready"}
        \/ new.status = "ready" /\ j \in Retried
    BY DEF Finished
  <1> QED BY <1>1, <1>2 DEF Unused

(* A new attempt is a new visit.                                            *)
LEMMA NewAttempt ==
  ASSUME NEW j \in Retried, NEW old \in RecordOf(j), NEW new \in RecordOf(j), NEW last,
         last.attempt \in Nat, last.attempt =< AttemptOf(old), NEW point,
         new.status = "ready", new.attempt = AttemptOf(old) + 1
  PROVE  Unused(j, new, last) /\ New(new, last, point)
  <1>0. j \in Jobs
    BY DEF Retried
  <1>1. AttemptOf(old) \in Nat \ {0} /\ new.attempt # 0
    BY <1>0, VisitedParts
  <1>2. AttemptOf(new) = AttemptOf(old) + 1 /\ Visited(new).attempt = AttemptOf(new)
    BY <1>0, <1>1, VisitedParts
  <1>3. last.attempt < AttemptOf(new) /\ last.attempt =< AttemptOf(new)
    <2> DEFINE n == AttemptOf(old)
    <2>1. n \in Nat /\ AttemptOf(new) = n + 1 /\ last.attempt =< n
      BY <1>1, <1>2
    <2> HIDE DEF n
    <2> QED BY <2>1
  <1>4. last # Visited(new)
    <2> DEFINE m == Visited(new)
    <2>1. m.attempt = AttemptOf(new) /\ AttemptOf(new) \in Nat
      BY <1>0, <1>2, VisitedParts
    <2> HIDE DEF m
    <2>2. last # m
      BY <1>3, <2>1
    <2> QED BY <2>2 DEF m
  <1> QED BY <1>3, <1>4 DEF Unused, New

(* A target of another job's route is new.                                  *)
LEMMA TargetNew ==
  ASSUME NoReturnedGoto, RoutingBase, RoutingTypes', NEW j \in Jobs, AloneRow(j), Unrepeated,
         NEW t \in Jobs \ {j}
  PROVE  Unused(t, state'.job[t], started[t]) /\ New(state'.job[t], started[t], task[t])
  <1> DEFINE old == state.job[t]
             new == state'.job[t]
  <1>0. /\ old \in RecordOf(t) /\ new \in RecordOf(t) /\ ~collided
        /\ started[t].attempt \in Nat
    BY StateParts DEF RoutingBase, RoutingTypes, AloneRow, Start
  <1>1. Unused(t, old, started[t]) /\ New(old, started[t], task[t])
    BY <1>0 DEF Unrepeated
  <1>2. CASE Woken(new, old)
    <2>1. Given(new, old)
      BY <1>2 DEF Given
    <2> HIDE DEF old, new
    <2> QED BY <1>0, <1>1, <2>1, GivenNew DEF new
  <1>3. CASE task[j] = "apply" /\ copy[j] = state /\ Again(j, t)
    <2>1. /\ t \in Retried /\ new.status = "ready" /\ new.attempt = AttemptOf(old) + 1
      BY <1>3, SentBack DEF Again
    <2>2. started[t].attempt =< AttemptOf(old)
      BY <1>1 DEF Unused
    <2> HIDE DEF old, new
    <2> QED BY <1>0, <2>1, <2>2, NewAttempt DEF new
  <1>4. CASE copy[j] = state /\ Exceeds(j, t)
    <2>1. /\ new.status \in Finished /\ new.attempt = old.attempt
      BY <1>4 DEF Exceeds, ClosedAs, Finished
    <2>2. started[t].attempt =< AttemptOf(old)
      BY <1>1 DEF Unused
    <2>3. Unused(t, new, started[t])
      <3> HIDE DEF old, new
      <3> QED BY <2>1, <2>2, SameAttempt
    <2> QED BY <2>1, <2>3 DEF New
  <1>5. CASE copy[j] = state /\ task[j] = "apply" /\ (Activates(j, t) \/ Jumps(j, t))
    <2>1. started[t] = NoStart
      <3>1. CASE Activates(j, t)
        BY <1>1, <1>5, <3>1 DEF Activates, Unused
      <3>2. CASE Jumps(j, t)
        <4>1. /\ route[j].do = "goto_job" /\ route[j].at = t
              /\ old.status \in {"inactive", "waiting", "ready"}
          BY <1>5, <3>2 DEF Jumps
        <4>3. \E k \in 1..Steps[j] : route[j] \in Routes[j][k]
          BY <1>5 DEF RoutingBase, Chosen, ChosenFor
        <4>4. t \notin Retried
          BY <4>1, <4>3 DEF NoReturnedGoto
        <4> QED BY <1>1, <4>1, <4>4 DEF Unused
      <3> QED BY <1>5, <3>1, <3>2
    <2> QED BY <1>0, <2>1, NeverStarted
  <1> QED BY <1>2, <1>3, <1>4, <1>5, OtherRecord

(* The own record of a task that settles, or goes on, is new.               *)
LEMMA OwnNew ==
  ASSUME RoutingBase, RoutingTypes', NEW j \in Jobs, AloneRow(j), Own(j), Unrepeated
  PROVE  /\ Unused(j, state'.job[j], started'[j])
         /\ New(state'.job[j], started'[j], task'[j])
         /\ again' = {}
  <1> DEFINE old == state.job[j]
             new == state'.job[j]
             last == started[j]
  <1>0. /\ old \in RecordOf(j) /\ new \in RecordOf(j) /\ ~collided
        /\ RoutingTypes /\ state \in RoutedState
        /\ last.attempt \in Nat /\ started \in [Jobs -> Start]
    BY StateParts DEF RoutingBase, RoutingTypes, AloneRow, Start
  <1>1. Unused(j, old, last) /\ New(old, last, task[j]) /\ again = {}
    BY <1>0 DEF Unrepeated
  <1>2. last.attempt =< AttemptOf(old)
    BY <1>1 DEF Unused
  <1>3. CASE Looks(j)
    <2>1. new = old /\ started' = started /\ again' = again
      BY <1>3 DEF Looks, seen
    <2>2. New(old, last, task'[j])
      <3>1. CASE Moves(j, {"start"}, {"begin"})
        BY <1>1, <3>1 DEF Moves, New
      <3>2. CASE Moves(j, {"after"}, {"idle"}) /\ old.status # "running"
        <4>1. old.status \in Finished \/ Retaken(j)
          BY <3>2 DEF Own, Moves, Runs
        <4>2. Retaken(j) => last # Visited(old)
          <5>1. Visited(old).attempt = AttemptOf(old)
                /\ (old.attempt # 0 => AttemptOf(old) = old.attempt) /\ old.attempt \in Nat
            BY <1>0, VisitedParts
          <5>2. Retaken(j) => last.attempt < old.attempt /\ old.attempt # 0
            BY DEF Retaken
          <5>3. Retaken(j) => last.attempt # Visited(old).attempt
            <6> HIDE DEF old, last
            <6> QED BY <1>0, <5>1, <5>2
          <5> QED BY <5>3
        <4> QED BY <4>1, <4>2 DEF New
      <3>3. CASE Moves(j, {"advance"}, {"idle"}) /\ copy[j].job[j].status \in Finished
        BY <3>3 DEF Own, Moves, New
      <3>4. CASE task'[j] \notin {"idle", "start", "begin"}
        BY <3>4 DEF New
      <3>5. \/ Moves(j, {"start"}, {"begin"})
            \/ Moves(j, {"after"}, {"idle"}) /\ old.status # "running"
            \/ Moves(j, {"advance"}, {"idle"}) /\ copy[j].job[j].status \in Finished
            \/ task'[j] \notin {"idle", "start", "begin"}
        BY <1>3 DEF Looks, Moves
      <3> QED BY <3>1, <3>2, <3>3, <3>4, <3>5
    <2> QED BY <1>1, <2>1, <2>2
  <1>x. ASSUME Excuse(j)
        PROVE  /\ started'[j].attempt = last.attempt /\ started'[j].step = 0
               /\ last = NoStart => started'[j] = NoStart
               /\ again' = {}
    <2>1. /\ started'[j] = [last EXCEPT !.step = 0] /\ last \in Start /\ again' = again
      BY <1>0, <1>x DEF Excuse
    <2> HIDE DEF last
    <2> QED BY <1>1, <2>1 DEF Start, NoStart
  <1>4. CASE Rejects(j)
    <2>1. new = old /\ Excuse(j)
      BY <1>4 DEF Rejects
    <2>2. started'[j] # Visited(old)
      BY <1>0, <1>x, <2>1, NoVisit
    <2> QED BY <1>1, <1>x, <2>1, <2>2 DEF Unused, New
  <1>5. CASE /\ Moves(j, {"start", "begin"}, {"exec"}) /\ state' = Running(state, j)
             /\ Starts(j, old)
    <2>1. /\ new.status = "running" /\ new.attempt = AttemptOf(old)
      BY <1>0, <1>5, RunningTyped
    <2>2. /\ started' = [started EXCEPT ![j] = Visited(old)]
          /\ again' = IF last = Visited(old) THEN again \cup {j} ELSE again
      BY <1>5 DEF Starts, Visited
    <2>3. started'[j] = Visited(old)
      BY <1>0, <2>2
    <2>4. last # Visited(old)
      BY <1>1, <1>5 DEF Moves, New, Own, Finished
    <2>5. started'[j].attempt =< AttemptOf(new)
      <3> HIDE DEF old, new
      <3>1. AttemptOf(old) \in Nat \ {0} /\ Visited(old).attempt = AttemptOf(old)
        BY <1>0, VisitedParts DEF old
      <3>2. AttemptOf(new) = AttemptOf(old)
        BY <2>1, <3>1 DEF AttemptOf
      <3> QED BY <2>3, <3>1, <3>2
    <2>6. task'[j] = "exec"
      BY <1>5 DEF Moves
    <2> QED BY <1>1, <2>1, <2>2, <2>4, <2>5, <2>6 DEF Unused, New
  <1>6. CASE /\ UNCHANGED seen /\ Closed(j, state)
             /\ \/ Moves(j, {"exec"}, {"after"})
                \/ Moves(j, {"commit"}, {"idle"}) /\ new.status = "completed"
    <2>1. /\ new.attempt = old.attempt /\ new.status \in Finished \cup {"running"}
      BY <1>6 DEF Closed, ClosedAs
    <2>2. started' = started /\ again' = again
      BY <1>6 DEF seen
    <2>3. Unused(j, new, last)
      <3> HIDE DEF old, new, last
      <3> QED BY <1>2, <2>1, SameAttempt
    <2>4. New(new, last, task'[j])
      BY <1>6 DEF New, Moves, Finished
    <2> QED BY <1>1, <2>2, <2>3, <2>4
  <1>7. CASE Passes(j) /\ copy[j] = state
    <2>1. /\ Elsewhere(j, new, old) /\ started' = started /\ again' = again
          /\ Runs(j) \/ Retaken(j)
      <3>1. task[j] = "advance" \/ task[j] = "apply"
        BY <1>7 DEF Passes, Moves
      <3>2. Runs(j) \/ Retaken(j)
        BY <1>7, <3>1 DEF Passes, Own
      <3> QED BY <1>7, <3>2 DEF Passes, seen
    <2>2. new.attempt = old.attempt
      BY <2>1 DEF Elsewhere
    <2>3. CASE new.status = "blocked"
      <3>1. new.status \in Finished
        BY <2>3 DEF Finished
      <3>2. Unused(j, new, last)
        <4> HIDE DEF old, new, last
        <4> QED BY <1>2, <2>2, <3>1, SameAttempt
      <3> QED BY <1>1, <2>1, <3>1, <3>2 DEF New
    <2>4. CASE new.status # "blocked" /\ Runs(j)
      <3>1. /\ new.status = "running" /\ last = Visited(old) /\ old.step # 0
            /\ new.step # 0
            /\ new.step # old.step \/ new.visits[new.step] # old.visits[old.step]
        <4>1. new.step \in 1..Steps[j]
          BY <2>1 DEF Elsewhere
        <4> QED BY <2>1, <2>4, <4>1 DEF Elsewhere, Runs
      <3>2. Visited(new) # Visited(old)
        <4> HIDE DEF old, new
        <4>1. /\ Visited(new).step = new.step /\ Visited(old).step = old.step
              /\ Visited(new).visit = new.visits[new.step]
              /\ Visited(old).visit = old.visits[old.step]
          BY <1>0, <3>1, VisitedParts DEF old, new
        <4> QED BY <3>1, <4>1
      <3>3. Unused(j, new, last)
        <4> HIDE DEF old, new, last
        <4> QED BY <1>2, <2>2, <3>1, SameAttempt
      <3> QED BY <1>1, <2>1, <3>1, <3>2, <3>3 DEF New
    <2>5. CASE new.status # "blocked" /\ Retaken(j)
      <3>1. /\ new.status = "ready" /\ j \in Retried /\ last.attempt < old.attempt
            /\ old.attempt # 0
        BY <2>1, <2>5 DEF Elsewhere, Retaken
      <3>2. Visited(new).attempt = old.attempt /\ old.attempt \in Nat
        <4> HIDE DEF old, new
        <4> QED BY <1>0, <2>2, <3>1, VisitedParts DEF old, new
      <3>3. last # Visited(new)
        <4>1. last.attempt # Visited(new).attempt
          <5> HIDE DEF old, new, last
          <5> QED BY <1>0, <3>1, <3>2
        <4> QED BY <4>1
      <3>4. Unused(j, new, last)
        <4> HIDE DEF old, new, last
        <4> QED BY <1>2, <2>2, <3>1, SameAttempt
      <3> QED BY <1>1, <2>1, <3>3, <3>4 DEF New
    <2> QED BY <2>1, <2>3, <2>4, <2>5
  <1>8. CASE RouteOf(j) /\ copy[j] = state
    <2>0. /\ task[j] = "apply" /\ Runs(j) /\ old.status = "running"
      BY <1>8 DEF RouteOf, RouteEnds, Moves, Own, Runs
    <2>a. \/ UNCHANGED seen /\ task'[j] \in {"after", "advRead"}
          \/ /\ UNCHANGED seen /\ task'[j] = "idle"
             /\ route[j].do \notin {"continue", "retry_job", "activate_job"}
          \/ Excuse(j)
      BY <1>8 DEF RouteOf, RouteEnds, Moves
    <2>b. started'[j].attempt = last.attempt /\ again' = {}
      BY <1>1, <1>x, <2>a DEF seen
    <2>1. /\ Unused(j, new, started'[j])
          /\ \/ new.status \in Finished
             \/ route[j].do \in {"continue", "retry_job", "activate_job"}
             \/ task'[j] \notin {"idle", "start", "begin"}
      <3>1. /\ \/ new.attempt = old.attempt /\ new.status \in Finished \cup {"running"}
               \/ /\ new.attempt = AttemptOf(old) + 1 /\ new.status = "ready"
                  /\ j \in Retried
            /\ \/ new.status \in Finished
               \/ route[j].do \in {"continue", "retry_job", "activate_job"}
               \/ task'[j] \notin {"idle", "start", "begin"}
        <4>1. CASE state' = copy[j] /\ route[j].do \in {"continue", "activate_job"}
          BY <1>8, <2>0, <4>1
        <4>2. CASE Stopped(j)
          BY <1>8, <4>2 DEF Stopped, ClosedAs, Finished
        <4>3. ASSUME NEW u \in Jobs, Again(j, u) \/ Exceeds(j, u)
              PROVE  /\ \/ new.attempt = old.attempt /\ new.status \in Finished \cup {"running"}
                        \/ /\ new.attempt = AttemptOf(old) + 1 /\ new.status = "ready"
                           /\ j \in Retried
                     /\ route[j].do = "retry_job"
          <5>1. CASE u # j
            BY <1>8, <2>0, <4>3, <5>1 DEF Again, Exceeds, OthersAs
          <5>2. CASE u = j
            <6>1. Again(j, u) => j \in Retried
              BY <1>8, <5>2, SentBack DEF RouteOf, RouteEnds, Moves
            <6> QED BY <1>8, <4>3, <5>2, <6>1 DEF Again, Exceeds, ClosedAs, Finished
          <5> QED BY <5>1, <5>2
        <4>4. ASSUME NEW u \in Jobs, Activates(j, u)
              PROVE  /\ new.attempt = old.attempt /\ new.status = "running"
                     /\ route[j].do = "activate_job"
          <5>1. u # j
            BY <1>8, <2>0, <4>4 DEF Activates
          <5> QED BY <1>8, <2>0, <4>4, <5>1 DEF Activates, OthersAs
        <4>5. ASSUME NEW u \in Jobs, Jumps(j, u)
              PROVE  new.attempt = old.attempt /\ new.status \in Finished
          <5>1. u # j
            BY <1>8, <2>0, <4>5 DEF Jumps
          <5> QED BY <1>8, <4>5, <5>1 DEF Jumps, ClosedAs, Finished
        <4> QED BY <1>8, <4>1, <4>2, <4>3, <4>4, <4>5 DEF RouteOf
      <3>2. CASE new.attempt = old.attempt /\ new.status \in Finished \cup {"running"}
        <4> DEFINE now == started'[j]
        <4>1. now.attempt =< AttemptOf(old)
          BY <1>2, <2>b
        <4>2. Unused(j, new, now)
          <5> HIDE DEF old, new, now
          <5> QED BY <3>2, <4>1, SameAttempt
        <4> QED BY <3>1, <4>2
      <3>3. CASE new.attempt = AttemptOf(old) + 1 /\ new.status = "ready" /\ j \in Retried
        <4> DEFINE now == started'[j]
        <4>1. now.attempt =< AttemptOf(old) /\ now.attempt \in Nat
          BY <1>0, <1>2, <2>b
        <4>2. Unused(j, new, now)
          <5> HIDE DEF old, new, now
          <5> QED BY <1>0, <3>3, <4>1, NewAttempt DEF old, new
        <4> QED BY <3>1, <4>2
      <3> QED BY <3>1, <3>2, <3>3
    <2>2. New(new, started'[j], task'[j])
      <3>1. CASE Excuse(j)
        <4>1. started'[j] # Visited(new)
          BY <1>0, <1>x, <3>1, NoVisit
        <4> QED BY <4>1 DEF New
      <3>2. CASE task'[j] \in {"after", "advRead"}
        BY <3>2 DEF New
      <3>3. CASE /\ task'[j] = "idle"
                 /\ route[j].do \notin {"continue", "retry_job", "activate_job"}
        BY <2>1, <3>3 DEF New
      <3> QED BY <2>a, <3>1, <3>2, <3>3
    <2> QED BY <2>1, <2>2, <2>b
  <1> QED BY <1>3, <1>4, <1>5, <1>6, <1>7, <1>8 DEF AloneRow

(* Every start is of a new visit.                                           *)
LEMMA UnrepeatedSteps ==
  ASSUME NoReturnedGoto
  PROVE  RoutingBase /\ Owned /\ Unrepeated /\ [Next]_vars => Unrepeated'
  <1> SUFFICES ASSUME RoutingBase, Owned, Unrepeated, [Next]_vars, ~collided'
               PROVE  /\ again' = {}
                      /\ \A t \in Jobs : /\ Unused(t, state'.job[t], started'[t])
                                         /\ New(state'.job[t], started'[t], task'[t])
    BY DEF Unrepeated
  <1>0. RoutingTypes /\ \A t \in Jobs : state.job[t] \in RecordOf(t)
    BY StateParts DEF RoutingBase, RoutingTypes
  <1>1. CASE UNCHANGED vars
    BY <1>1 DEF Unrepeated, vars, disk, local, seen
  <1>2. CASE LoopRow /\ RoutingTypes'
    <2>0. ~collided
      BY <1>2 DEF LoopRow
    <2>1. CASE Goes
      <3>1. state' = state /\ started' = started /\ task' = task /\ again' = again
        BY <2>1 DEF Goes, seen
      <3> QED BY <2>0, <3>1 DEF Unrepeated
    <2>2. CASE Dispatches
      <3>1. /\ state' = state /\ started' = started /\ again' = again
            /\ \A t \in Jobs : task'[t] \in {"idle", "start"} /\ task[t] = "idle"
        BY <2>2 DEF Dispatches, seen, RoutingBase, InBatch
      <3> QED BY <2>0, <3>1 DEF Unrepeated, New
    <2>3. CASE Settles
      <3>1. /\ started' = started /\ again' = again /\ task' = task
            /\ \A t \in Jobs : Given(state'.job[t], state.job[t])
        BY <2>3 DEF Settles, seen
      <3>2. \A t \in Jobs : state'.job[t] \in RecordOf(t)
        BY <1>2, StateParts DEF RoutingTypes
      <3>3. ASSUME NEW t \in Jobs
            PROVE  /\ Unused(t, state'.job[t], started[t])
                   /\ New(state'.job[t], started[t], task[t])
        BY <1>0, <2>0, <3>1, <3>2, GivenNew DEF Unrepeated
      <3> QED BY <2>0, <3>1, <3>3 DEF Unrepeated
    <2>4. CASE Dies
      <3>1. state' = state /\ again' = again
        BY <2>4 DEF Dies
      <3>2. ASSUME NEW t \in Jobs
            PROVE  /\ Unused(t, state.job[t], started'[t])
                   /\ New(state.job[t], started'[t], task'[t])
        <4> DEFINE last == started[t]
        <4>1. started'[t] = [last EXCEPT !.step = 0] /\ last \in Start
          BY <1>0, <2>4 DEF Dies, RoutingTypes
        <4>2. Unused(t, state.job[t], last)
          BY <2>0 DEF Unrepeated
        <4> HIDE DEF last
        <4>3. /\ started'[t].attempt = last.attempt /\ started'[t].step = 0
              /\ last = NoStart => started'[t] = NoStart
          BY <4>1 DEF Start, NoStart
        <4>4. started'[t] # Visited(state.job[t])
          BY <1>0, <4>3, NoVisit
        <4> QED BY <4>2, <4>3, <4>4 DEF Unused, New
      <3> QED BY <2>0, <3>1, <3>2 DEF Unrepeated
    <2> QED BY <1>2, <2>1, <2>2, <2>3, <2>4 DEF LoopRow
  <1>3. ASSUME NEW j \in Jobs, Row(j), RoutingTypes'
        PROVE  /\ again' = {}
               /\ \A t \in Jobs : /\ Unused(t, state'.job[t], started'[t])
                                  /\ New(state'.job[t], started'[t], task'[t])
    <2>1. AloneRow(j)
      BY <1>3, RowAlone
    <2>2. Own(j)
      BY <2>1 DEF AloneRow, Owned
    <2>3. /\ Unused(j, state'.job[j], started'[j])
          /\ New(state'.job[j], started'[j], task'[j]) /\ again' = {}
      BY <1>3, <2>1, <2>2, OwnNew
    <2>4. ASSUME NEW t \in Jobs \ {j}
          PROVE  /\ Unused(t, state'.job[t], started'[t])
                 /\ New(state'.job[t], started'[t], task'[t])
      <3>1. task'[t] = task[t] /\ started'[t] = started[t]
        BY <1>0, <1>3, RowMoves
      <3> QED BY <1>3, <2>1, <3>1, TargetNew
    <2> QED BY <2>3, <2>4
  <1>4. CASE Next
    <2>1. RoutingTypes' /\ (LoopRow \/ (\E j \in Jobs : Row(j)) \/ UNCHANGED vars)
      BY <1>4, RoutingRows
    <2> QED BY <1>1, <1>2, <1>3, <2>1
  <1> QED BY <1>1, <1>4

(* One visit of a step is executed once: whatever a step asks for, the next *)
(* execution of the job is a new visit or a new attempt, unless goto_job    *)
(* gives a job that was sent back its first attempt again, as long as no    *)
(* task overwrites the state of another.                                    *)
THEOREM StepsOnce ==
  ASSUME NoReturnedGoto
  PROVE  Spec => []StepsNotRepeated
  <1>1. Init => Unrepeated
    <2> SUFFICES ASSUME Init PROVE Unrepeated
      OBVIOUS
    <2>1. /\ again = {} /\ \A j \in Jobs : started[j] = NoStart
          /\ \A j \in Jobs : state.job[j] \in RecordOf(j)
      BY InitStateTyped, StateParts DEF Init
    <2> QED BY <2>1, NeverStarted DEF Unrepeated
  <1>2. Unrepeated => StepsNotRepeated
    BY DEF Unrepeated, StepsNotRepeated
  <1> QED BY <1>1, <1>2, UnrepeatedSteps, OwnedInit, OwnedSteps, RoutingInit, RoutingSteps,
             PTL DEF Spec

(* -------------------------- reports that are read ------------------------*)

(* A set of naturals has a least element.                                   *)
LEMMA LeastNumber ==
  ASSUME NEW S, S \subseteq Nat, S # {}
  PROVE  \E m \in S : \A n \in S : m =< n
  <1>1. PICK m \in S : \A n \in S : <<n, m>> \notin OpToRel(<, Nat)
    BY NatLessThanWellFounded, WFMin
  <1>2. \A n \in S : ~(n < m)
    BY <1>1 DEF OpToRel
  <1> QED
    BY <1>2

(* The first entry that matches is one of them.                             *)
LEMMA FirstIs ==
  ASSUME NEW entries, entries \subseteq Nat, entries # {}
  PROVE  FirstOf(entries) \in entries
  BY LeastNumber DEF FirstOf

(* Among the first m numbers of a list there is a greatest.                 *)
LEMMA GreatestOf ==
  ASSUME NEW L \in Nat, L # 0, NEW f, \A i \in 1..L : f[i] \in Int
  PROVE  \E i \in 1..L : \A n \in 1..L : f[n] =< f[i]
  <1> DEFINE Bad == {m \in 1..L : ~\E i \in 1..m : \A n \in 1..m : f[n] =< f[i]}
  <1>0. Bad \subseteq Nat
    BY SMT
  <1>1. CASE Bad # {}
    <2>1. PICK m \in Bad : \A n \in Bad : m =< n
      <3> HIDE DEF Bad
      <3> QED BY <1>0, <1>1, LeastNumber
    <2>4. m \in 1..L
      OBVIOUS
    <2>2. CASE m = 1
      <3>1. \A n \in 1..1 : f[n] =< f[1]
        OBVIOUS
      <3> QED BY <2>2, <3>1
    <2>3. CASE m # 1
      <3>1. m - 1 \in 1..L /\ m - 1 \notin Bad /\ m \in 1..L
        <4>1. m - 1 \in 1..L /\ ~(m =< m - 1)
          BY <2>3, <2>4
        <4>2. m - 1 \notin Bad
          <5> HIDE DEF Bad
          <5> QED BY <2>1, <4>1
        <4> QED BY <2>4, <4>1, <4>2
      <3>2. PICK i \in 1..(m - 1) : \A n \in 1..(m - 1) : f[n] =< f[i]
        BY <3>1
      <3> DEFINE k == IF f[m] =< f[i] THEN i ELSE m
      <3>3. f[m] \in Int /\ f[i] \in Int /\ \A n \in 1..m : f[n] \in Int
        BY <3>1
      <3>4. k \in 1..m
        BY <3>1
      <3>5. \A n \in 1..m : f[n] =< f[k]
        BY <3>1, <3>2, <3>3
      <3> QED BY <2>1, <3>4, <3>5
    <2> QED BY <2>2, <2>3
  <1>2. CASE Bad = {}
    <2>1. L \in 1..L
      OBVIOUS
    <2> QED BY <1>2, <2>1
  <1> QED BY <1>1, <1>2

(* The strongest of the signals is one of them.                             *)
LEMMA StrongestIs ==
  ASSUME NEW names \in Seq(STRING), names # <<>>,
         \A i \in DOMAIN names : names[i] \in DOMAIN Signals
  PROVE  \E i \in DOMAIN names : Strongest(names) = names[i]
  <1> DEFINE f == [i \in DOMAIN names |-> Signals[names[i]].priority]
             L == Len(names)
             Top == {i \in 1..L : \A n \in 1..L : f[n] =< f[i]}
             Least(i) == \A n \in DOMAIN names :
                           \/ Signals[names[n]].priority < Signals[names[i]].priority
                           \/ /\ Signals[names[n]].priority = Signals[names[i]].priority
                              /\ i =< n
  <1>1. /\ L \in Nat /\ L # 0 /\ DOMAIN names = 1..L
        /\ \A i \in 1..L : f[i] \in Int /\ f[i] = Signals[names[i]].priority
    BY ReportsAssumption
  <1> HIDE DEF f, L
  <1>2. Top # {} /\ Top \subseteq Nat
    <2>1. \A i \in 1..L : f[i] \in Int
      BY <1>1
    <2>2. PICK i \in 1..L : \A n \in 1..L : f[n] =< f[i]
      BY <1>1, <2>1, GreatestOf
    <2>3. i \in Top
      BY <2>2
    <2>4. \A k \in 1..L : k \in Nat
      BY <1>1
    <2> QED BY <2>3, <2>4
  <1>3. PICK i \in Top : \A n \in Top : i =< n
    BY <1>2, LeastNumber
  <1>4. i \in DOMAIN names /\ Least(i)
    <2>1. i \in 1..L /\ \A n \in 1..L : f[n] =< f[i]
      BY <1>3
    <2>2. ASSUME NEW n \in 1..L, ~(f[n] < f[i])
          PROVE  f[n] = f[i] /\ i =< n
      <3>1. f[n] = f[i]
        BY <1>1, <2>1, <2>2
      <3>2. n \in Top
        BY <2>1, <3>1
      <3> QED BY <1>3, <3>1, <3>2
    <2> QED BY <1>1, <2>1, <2>2
  <1>5. Strongest(names) = names[CHOOSE k \in DOMAIN names : Least(k)]
    BY DEF Strongest
  <1> HIDE DEF Least
  <1>6. (CHOOSE k \in DOMAIN names : Least(k)) \in DOMAIN names
    BY <1>4
  <1> QED BY <1>5, <1>6

(* An action becomes a route that a task can apply.                         *)
LEMMA ViaTyped ==
  ASSUME NEW go \in Action, NEW carrier \in {"status", "output", "signal"}
  PROVE  Via(carrier, go) \in Route /\ Carried(Via(carrier, go))
  <1>1. Via(carrier, go) = [via |-> carrier, do |-> go.do, at |-> go.at]
    BY DEF Via
  <1>2. carrier \in Carrier
    BY DEF Carrier
  <1>3. Via(carrier, go) \in Route
    BY <1>1, <1>2 DEF Action, Route
  <1> QED BY <1>1, <1>3 DEF Carried

(* A report that was accepted asks for nothing, or for such a route.        *)
LEMMA AskedTyped ==
  ASSUME NEW j \in Jobs, NEW k \in 1..Steps[j], StepKind[j][k] = "agent",
         NEW r \in Written[j][k], Acceptable(j, Contract[j][k], r),
         Asked(Contract[j][k], r) # NoReport
  PROVE  Asked(Contract[j][k], r) \in Route /\ Carried(Asked(Contract[j][k], r))
  <1> DEFINE c == Contract[j][k]
  <1>1. /\ \A status \in DOMAIN c.onReturn : c.onReturn[status] \in Action
        /\ c.onOutput \in Seq([key : c.names, value : Values, go : Action])
        /\ r.shaped => r.signals \in Seq(STRING)
    BY ReportsAssumption DEF Declares
  <1>2. r.signals \in Seq(STRING)
    BY <1>1 DEF Acceptable, Fulfils
  <1> HIDE DEF c
  <1>3. CASE Returns(c, r)
    <2> DEFINE go == IF StatusOf(r) \in DOMAIN c.onReturn THEN c.onReturn[StatusOf(r)]
                     ELSE [do |-> "continue", at |-> 0]
    <2>1. go \in Action
      BY <1>1 DEF Action, PlainRoute
    <2>2. Asked(c, r) = Via("status", go)
      BY <1>3 DEF Asked
    <2> HIDE DEF go
    <2> QED BY <2>1, <2>2, ViaTyped DEF c
  <1>4. CASE ~Returns(c, r) /\ Matching(c, r) # {}
    <2>1. Matching(c, r) \subseteq 1..Len(c.onOutput) /\ Len(c.onOutput) \in Nat
      BY <1>1 DEF Matching
    <2>2. FirstOf(Matching(c, r)) \in 1..Len(c.onOutput)
      BY <1>4, <2>1, FirstIs
    <2>3. c.onOutput[FirstOf(Matching(c, r))].go \in Action
      <3> DEFINE n == FirstOf(Matching(c, r))
                 entries == c.onOutput
                 Entry == [key : c.names, value : Values, go : Action]
      <3>1. n \in 1..Len(entries) /\ entries \in Seq(Entry)
        BY <1>1, <2>2
      <3> HIDE DEF n, entries, Entry
      <3>2. entries[n] \in Entry
        BY <3>1
      <3> QED BY <3>2 DEF n, entries, Entry
    <2>4. Asked(c, r) = Via("output", c.onOutput[FirstOf(Matching(c, r))].go)
      BY <1>4 DEF Asked
    <2> QED BY <2>3, <2>4, ViaTyped DEF c
  <1>5. CASE ~Returns(c, r) /\ Matching(c, r) = {} /\ r.signals # <<>>
    <2>1. \A i \in DOMAIN r.signals : r.signals[i] \in DOMAIN Signals
      BY <1>5 DEF Acceptable, c
    <2>2. PICK i \in DOMAIN r.signals : Strongest(r.signals) = r.signals[i]
      BY <1>2, <1>5, <2>1, StrongestIs
    <2>3. Signals[Strongest(r.signals)].go \in Action
      BY <2>1, <2>2, ReportsAssumption
    <2>4. Asked(c, r) = Via("signal", Signals[Strongest(r.signals)].go)
      BY <1>5 DEF Asked
    <2> QED BY <2>3, <2>4, ViaTyped DEF c
  <1>6. ~Returns(c, r) /\ Matching(c, r) = {} /\ r.signals = <<>> => Asked(c, r) = NoReport
    BY DEF Asked
  <1> QED BY <1>3, <1>4, <1>5, <1>6 DEF c

(* ------------------------- a run driven by hand --------------------------*)

(* One command runs at a time: a report is read while every task is idle,   *)
(* and no two tasks move.                                                   *)
Serial ==
  /\ next.at # "idle" => \A j \in Jobs : task[j] = "idle"
  /\ \A j, k \in Jobs : task[j] # "idle" /\ task[k] # "idle" => j = k

(* Hence what a command has read is still the state when it is written.     *)
Current ==
  \A j \in Jobs : task[j] \in {"begin", "exec", "apply", "advance"} => copy[j] = state

(* `step` executes no agent.                                                *)
ByHand == \A j \in Jobs : task[j] \in {"start", "begin", "exec"} => ~IsAgent(j)

(* A running job that a command is to take on from an agent step has been   *)
(* given credit for it.                                                     *)
Credited ==
  \A j \in Jobs : task[j] # "idle" /\ state.job[j].status = "running" /\ IsAgent(j)
                    => credit[j] = Visiting(state.job[j])

(* Every report is one that the agent of an agent step may write.           *)
FiledAt(key, r) ==
  \E j \in Jobs : \E n \in Nat : \E k \in 1..Steps[j] :
    key = <<j, n, k>> /\ StepKind[j][k] = "agent" /\ r \in Written[j][k]

Filed == \A key \in DOMAIN report : FiledAt(key, report[key])

(* The report being read is for the agent step its job is at, and was       *)
(* accepted.                                                                *)
Reading ==
  /\ next = [at |-> next.at, job |-> next.job, key |-> next.key,
             report |-> next.report, draft |-> next.draft, done |-> next.done]
  /\ next.at # "idle" =>
       /\ next.job \in Jobs /\ next.key = Key(next.job)
       /\ IsAgent(next.job) /\ state.job[next.job].step # 0
       /\ Report \in Written[next.job][StepNow(next.job)]
       /\ Acceptable(next.job, ContractNow, Report)

HandInv ==
  RoutingTypes /\ Applicable /\ Serial /\ Current /\ ByHand /\ Credited /\ Filed /\ Reading

(* What a step on behalf of job t makes of another job's record ...         *)
Aside(new, old) ==
  \/ new = old
  \/ /\ new.status \in {"ready", "waiting", "failed", "blocked"}
     /\ new.step \in {old.step, 0}

(* A job that becomes ready by itself, enters the run, or is closed by      *)
(* another is such.                                                         *)
LEMMA AsideOf ==
  ASSUME NEW new, NEW old
  PROVE  /\ Woken(new, old) => Aside(new, old)
         /\ Enters(new, old) => Aside(new, old)
         /\ \A st \in {"failed", "blocked"} : ClosedAs(new, old, st) => Aside(new, old)
  BY DEF Woken, Enters, ClosedAs, Aside

(* To every job but t, a row of t is one of them.                           *)
LEMMA RowOthers ==
  ASSUME RoutingTypes, Current, NEW t \in Jobs, Row(t), NEW k \in Jobs \ {t}
  PROVE  Aside(state'.job[k], state.job[k])
  <1>0. state \in RoutedState
    BY DEF RoutingTypes
  <1>1. CASE Looks(t) \/ Rejects(t)
    BY <1>1 DEF Looks, Rejects, Aside
  <1>2. CASE Begins(t)
    <2>1. state' = Running(state, t)
      BY <1>2 DEF Begins, Begun, Moves, Current
    <2> QED BY <1>0, <2>1, RunningTyped DEF Aside
  <1>3. CASE Closes(t)
    <2>1. Closed(t, state)
      BY <1>3 DEF Closes, Moves, Current
    <2>2. Woken(state'.job[k], state.job[k])
      BY <2>1 DEF Closed
    <2> QED BY <2>2, AsideOf
  <1>4. CASE Passes(t)
    <2>1. copy[t] = state
      BY <1>4 DEF Passes, Moves, Current
    <2> QED BY <1>4, <2>1 DEF Passes, OthersAs, Aside
  <1>5. CASE RouteOf(t)
    <2>1. copy[t] = state
      BY <1>5 DEF RouteOf, RouteEnds, Moves, Current
    <2>2. CASE state' = copy[t] \/ Stopped(t)
      BY <2>1, <2>2 DEF Stopped, OthersAs, Aside
    <2>3. ASSUME NEW u \in Jobs, Again(t, u) PROVE Aside(state'.job[k], state.job[k])
      BY <2>1, <2>3 DEF Again, OthersAs, Aside
    <2>4. ASSUME NEW u \in Jobs, Exceeds(t, u) PROVE Aside(state'.job[k], state.job[k])
      BY <2>1, <2>4, AsideOf DEF Exceeds, OthersAs, Aside
    <2>5. ASSUME NEW u \in Jobs, Activates(t, u) PROVE Aside(state'.job[k], state.job[k])
      BY <2>1, <2>5, AsideOf DEF Activates, OthersAs, Aside
    <2>6. ASSUME NEW u \in Jobs, Jumps(t, u) PROVE Aside(state'.job[k], state.job[k])
      BY <2>1, <2>6, AsideOf DEF Jumps, Aside
    <2> QED BY <1>5, <2>2, <2>3, <2>4, <2>5, <2>6 DEF RouteOf
  <1> QED BY <1>1, <1>2, <1>3, <1>4, <1>5 DEF Row

(* ... and of t itself: a task that goes on has left its record alone, or   *)
(* executes a step that is no agent, or stops its job; and a job is         *)
(* completed at such a step, or put back to its first.                      *)
Itself(t) ==
  LET new == state'.job[t]
      old == state.job[t]
  IN  /\ task'[t] # "start"
      /\ task'[t] \in {"begin", "exec"} => ~IsAgent(t)'
      /\ task'[t] \in {"begin", "exec", "apply", "advance"} => copy'[t] = state'
      /\ task'[t] # "idle" /\ new.status = "running" => new = old \/ ~IsAgent(t)'
      /\ new.status = "completed" => new = old \/ new.step = 0 \/ ~IsAgent(t)'

(* No row of t does otherwise.                                              *)
LEMMA RowItself ==
  ASSUME RoutingTypes, Current, ByHand, NEW t \in Jobs, Row(t)
  PROVE  Itself(t)
  <1>0. state \in RoutedState
    BY DEF RoutingTypes
  <1>1. CASE Looks(t)
    <2>1. state' = state /\ (IsAgent(t)' <=> IsAgent(t))
      BY <1>1 DEF Looks, IsAgent, StepNow
    <2> QED BY <1>1, <2>1 DEF Looks, Moves, Itself, Current, ByHand
  <1>2. CASE Rejects(t)
    BY <1>2 DEF Rejects, Moves, Itself
  <1>3. CASE Begins(t)
    <2>1. task[t] \in {"start", "begin"} /\ task'[t] = "exec"
      BY <1>3 DEF Begins, Moves
    <2>2. ~IsAgent(t)
      BY <2>1 DEF ByHand
    <2>3. KindAt(t, state) # "agent"
      BY <2>2 DEF IsAgent, KindAt, StepNow
    <2>4. copy'[t] = state' /\ state' = Running(state, t)
      BY <1>3, <2>3 DEF Begins, Begun, Moves, Current
    <2>5. state'.job[t].step = StepOf(state.job[t]) /\ state'.job[t].status = "running"
      BY <1>0, <2>4, RunningTyped
    <2>6. StepOf(state.job[t]) # 0
      BY <1>0, StateParts, RecordParts
    <2>7. ~IsAgent(t)'
      BY <2>2, <2>5, <2>6 DEF IsAgent, StepNow, StepOf
    <2> QED BY <2>1, <2>4, <2>5, <2>7 DEF Itself
  <1>4. CASE Closes(t)
    <2>1. CASE task[t] = "commit"
      <3>1. task'[t] = "idle" /\ state'.job[t].step = 0
        BY <1>4, <2>1 DEF Closes, Moves
      <3> QED BY <3>1 DEF Itself
    <2>2. CASE task[t] # "commit"
      <3>1. /\ task[t] = "exec" /\ task'[t] = "after" /\ Closed(t, copy[t])
        BY <1>4, <2>2 DEF Closes, Moves
      <3>2. copy[t] = state /\ ~IsAgent(t)
        BY <3>1 DEF Current, ByHand
      <3>3. /\ state'.job[t].step \in {state.job[t].step, 0}
            /\ state'.job[t].step = 0 /\ state.job[t].step # 0 =>
                 state'.job[t].status \in Finished
        BY <3>1, <3>2 DEF Closed, ClosedAs
      <3>4. state'.job[t].step = state.job[t].step => ~IsAgent(t)'
        BY <3>2 DEF IsAgent, StepNow, StepOf
      <3> QED BY <3>1, <3>3, <3>4 DEF Itself, Finished
    <2> QED BY <2>1, <2>2
  <1>5. CASE Passes(t)
    <2>1. task'[t] = "idle" /\ state'.job[t].status # "completed"
      BY <1>5 DEF Passes, Moves, Elsewhere, Finished
    <2> QED BY <2>1 DEF Itself
  <1>6. CASE RouteOf(t)
    <2>1. copy[t] = state /\ task'[t] \in {"after", "advRead", "idle"}
      BY <1>6 DEF RouteOf, RouteEnds, Moves, Current
    <2> DEFINE new == state'.job[t]
    <2> SUFFICES new = state.job[t] \/ new.status \notin {"running", "completed"} \/
                 (new.status = "completed" /\ new.step = 0)
      BY <2>1 DEF Itself
    <2>2. CASE state' = copy[t] \/ Stopped(t)
      BY <2>1, <2>2 DEF Stopped, ClosedAs
    <2>3. ASSUME NEW u \in Jobs, Again(t, u) \/ Exceeds(t, u) \/ Activates(t, u) \/ Jumps(t, u)
          PROVE  new = state.job[t] \/ new.status \notin {"running", "completed"} \/
                 (new.status = "completed" /\ new.step = 0)
      BY <2>1, <2>3 DEF Again, Exceeds, Activates, Jumps, Enters, ClosedAs, OthersAs
    <2> QED BY <1>6, <2>2, <2>3 DEF RouteOf
  <1> QED BY <1>1, <1>2, <1>3, <1>4, <1>5, <1>6 DEF Row

(* A step that leaves the state alone leaves no visit.                      *)
LEMMA StaysThere ==
  ASSUME state' = state, NEW j \in Jobs
  PROVE  ~Leaves(j)
  BY DEF Leaves

(* A step between commands, or on the report, that leaves the job engine    *)
(* alone.                                                                   *)
LEMMA EngineRests ==
  ASSUME HandInv, UNCHANGED vars, \A j \in Jobs : task[j] = "idle", Filed', Reading'
  PROVE  HandInv' /\ \A j \in Jobs : ~Leaves(j)
  <1>1. /\ state' = state /\ copy' = copy /\ task' = task /\ route' = route
        /\ started' = started /\ jobLog' = jobLog /\ loop' = loop /\ crashes' = crashes
        /\ again' = again /\ collided' = collided
    BY DEF vars, disk, local, main, seen
  <1>2. RoutingTypes'
    BY <1>1 DEF HandInv, RoutingTypes
  <1>3. Applicable' /\ Serial' /\ Current' /\ ByHand' /\ Credited'
    BY <1>1 DEF Applicable, Serial, Current, ByHand, Credited
  <1> QED BY <1>1, <1>2, <1>3, StaysThere DEF HandInv

(* The report of a job's current step is filed under its key.               *)
LEMMA FiledNow ==
  ASSUME RoutingTypes, NEW j \in Jobs, NEW r, FiledAt(Key(j), r)
  PROVE  IsAgent(j) /\ r \in Written[j][StepNow(j)]
  <1>0. PICK i \in Jobs, n \in Nat : \E k \in 1..Steps[i] :
          Key(j) = <<i, n, k>> /\ StepKind[i][k] = "agent" /\ r \in Written[i][k]
    BY DEF FiledAt
  <1>1. PICK k \in 1..Steps[i] :
          Key(j) = <<i, n, k>> /\ StepKind[i][k] = "agent" /\ r \in Written[i][k]
    BY <1>0
  <1>2. i = j /\ k = StepNow(j)
    BY <1>1 DEF Key
  <1> QED BY <1>1, <1>2 DEF IsAgent

(* The agent's report is filed; `next` reads an accepted one.               *)
LEMMA WriteReport ==
  ASSUME HandInv, NEW j \in Jobs, AgentWrites(j)
  PROVE  HandInv' /\ \A k \in Jobs : ~Leaves(k)
  <1>1. /\ UNCHANGED vars /\ next' = next /\ next.at = "idle" /\ IsAgent(j)
        /\ \A k \in Jobs : task[k] = "idle"
    BY DEF AgentWrites, Idle, At
  <1>2. PICK r \in Written[j][StepNow(j)] :
          report' = [key \in DOMAIN report \cup {Key(j)} |->
                       IF key = Key(j) THEN r ELSE report[key]]
    BY DEF AgentWrites
  <1>3. state.job[j] \in RecordOf(j)
    BY StateParts DEF HandInv, RoutingTypes
  <1>4. FiledAt(Key(j), r)
    BY <1>1, <1>3, RecordParts DEF FiledAt, Key, StepNow, IsAgent
  <1>5. Filed'
    <2> SUFFICES ASSUME NEW key \in DOMAIN report' PROVE FiledAt(key, report'[key])
      BY DEF Filed, FiledAt
    <2>1. CASE key = Key(j)
      BY <1>2, <1>4, <2>1
    <2>2. CASE key # Key(j)
      BY <1>2, <2>2 DEF HandInv, Filed
    <2> QED BY <2>1, <2>2
  <1>6. Reading'
    BY <1>1 DEF HandInv, Reading
  <1> QED BY <1>1, <1>5, <1>6, EngineRests

(* Reading the next report leaves every job alone.                          *)
LEMMA ReadReport ==
  ASSUME HandInv, NEW j \in Jobs, NextRead(j)
  PROVE  HandInv' /\ \A k \in Jobs : ~Leaves(k)
  <1>1. /\ UNCHANGED vars /\ report' = report
        /\ \A k \in Jobs : task[k] = "idle"
    BY DEF NextRead, Idle, At, data
  <1>2. Filed'
    BY <1>1 DEF HandInv, Filed, FiledAt
  <1>3. FiledAt(Key(j), report[Key(j)])
    BY DEF HandInv, Filed, NextRead
  <1>4. IsAgent(j) /\ report[Key(j)] \in Written[j][StepNow(j)]
    BY <1>3, FiledNow DEF HandInv
  <1>5. /\ next' = [at |-> "outputs", job |-> j, key |-> Key(j), report |-> report[Key(j)],
                    draft |-> NoReport, done |-> 0]
        /\ state' = state
    BY <1>1 DEF NextRead, NoNext, vars, disk
  <1>6. Key(j)[3] = StepNow(j) /\ Key(j)' = Key(j) /\ StepNow(j)' = StepNow(j)
        /\ IsAgent(j)' = IsAgent(j)
    BY <1>5 DEF Key, StepNow, IsAgent
  <1>7. Reading'
    <2>1. /\ next'.at = "outputs" /\ next'.job = j /\ next'.key = Key(j)
          /\ next'.report = report[Key(j)] /\ next'.draft = NoReport /\ next'.done = 0
      BY <1>5
    <2>2. /\ Acceptable(j, Contract[j][StepNow(j)], report[Key(j)])
          /\ state.job[j].step # 0
      BY DEF NextRead
    <2>3. ContractNow' = Contract[j][StepNow(j)] /\ Report' = report[Key(j)]
      BY <1>6, <2>1 DEF ContractNow, Report
    <2>4. Acceptable(next.job, ContractNow, Report)'
      <3>1. Acceptable(next.job, ContractNow, Report)'
              <=> Acceptable(j, Contract[j][StepNow(j)], report[Key(j)])
        BY <2>1, <2>3 DEF Acceptable, Fulfils, Returns, StatusOf, Matching, Normalized
      <3> QED BY <2>2, <3>1
    <2>5. Report' \in Written[j][StepNow(j)]
      BY <1>4, <2>3
    <2>6. /\ IsAgent(next.job)' /\ (next.key = Key(next.job))'
          /\ (state.job[next.job].step # 0)'
          /\ (Report \in Written[next.job][StepNow(next.job)])'
      BY <1>4, <1>5, <1>6, <2>1, <2>2, <2>5 DEF IsAgent, Key, StepNow
    <2> QED BY <1>5, <2>1, <2>4, <2>6 DEF Reading
  <1> QED BY <1>1, <1>2, <1>7, EngineRests

(* What the command does with the report before it dispatches it.           *)
Proceeds ==
  /\ next.at # "idle" /\ UNCHANGED <<vars, report>>
  /\ \/ next' = NoNext
     \/ /\ next'.at # "idle" /\ next'.job = next.job /\ next'.key = next.key
        /\ next'.report = next.report
        /\ next' = [at |-> next'.at, job |-> next'.job, key |-> next'.key,
                    report |-> next'.report, draft |-> next'.draft, done |-> next'.done]

(* Every step between the reading and the dispatch is one.                  *)
LEMMA ProceedsOn ==
  ASSUME HandInv, \/ PersistOutputs \/ PatchesRefused \/ PatchesRead
                  \/ PatchVariable \/ PatchBlock \/ PatchBlockDelete \/ PatchesCommit
  PROVE  Proceeds
  <1> DEFINE n == next
  <1>0. n = [at |-> n.at, job |-> n.job, key |-> n.key,
             report |-> n.report, draft |-> n.draft, done |-> n.done]
    BY DEF HandInv, Reading
  <1>1. CASE PersistOutputs
    BY <1>0, <1>1 DEF PersistOutputs, Doing, Proceeds
  <1>2. CASE PatchesRefused
    BY <1>2 DEF PatchesRefused, Doing, Proceeds, data
  <1>3. CASE PatchesRead
    BY <1>0, <1>3 DEF PatchesRead, Doing, Proceeds, data
  <1>4. CASE PatchVariable
    BY <1>0, <1>4 DEF PatchVariable, Patching, Doing, Proceeds, data
  <1>5. CASE PatchBlock
    BY <1>0, <1>5 DEF PatchBlock, Patching, Doing, Proceeds
  <1>6. CASE PatchBlockDelete
    BY <1>0, <1>6 DEF PatchBlockDelete, Patching, Doing, Proceeds, data
  <1>7. CASE PatchesCommit
    BY <1>0, <1>7 DEF PatchesCommit, Doing, Proceeds
  <1> QED BY <1>1, <1>2, <1>3, <1>4, <1>5, <1>6, <1>7

(* Such a step keeps the report at hand, and leaves every job alone.        *)
LEMMA ProceedsKeeps ==
  ASSUME HandInv, Proceeds
  PROVE  HandInv' /\ \A k \in Jobs : ~Leaves(k)
  <1>1. /\ UNCHANGED vars /\ report' = report /\ state' = state
        /\ \A k \in Jobs : task[k] = "idle"
    BY DEF Proceeds, HandInv, Serial, vars, disk
  <1>2. Filed'
    BY <1>1 DEF HandInv, Filed, FiledAt
  <1>3. CASE next' = NoNext
    <2>1. Reading'
      BY <1>3 DEF Reading, NoNext
    <2> QED BY <1>1, <1>2, <2>1, EngineRests
  <1>4. CASE next' # NoNext
    <2>1. /\ next'.at # "idle" /\ next'.job = next.job /\ next'.key = next.key
          /\ next'.report = next.report
          /\ next' = [at |-> next'.at, job |-> next'.job, key |-> next'.key,
                      report |-> next'.report, draft |-> next'.draft, done |-> next'.done]
          /\ next.at # "idle"
      BY <1>4 DEF Proceeds
    <2>2. ContractNow' = ContractNow /\ Report' = Report
      BY <2>1 DEF ContractNow, Report
    <2>3. Acceptable(next.job, ContractNow, Report)' <=> Acceptable(next.job, ContractNow, Report)
      BY <2>1, <2>2 DEF Acceptable, Fulfils, Returns, StatusOf, Matching, Normalized
    <2>4. /\ IsAgent(next.job)' <=> IsAgent(next.job)
          /\ Key(next.job)' = Key(next.job) /\ StepNow(next.job)' = StepNow(next.job)
      BY <1>1, <2>1 DEF IsAgent, Key, StepNow
    <2>5. Reading'
      BY <1>1, <2>1, <2>2, <2>3, <2>4 DEF HandInv, Reading
    <2> QED BY <1>1, <1>2, <2>5, EngineRests
  <1> QED BY <1>3, <1>4

(* A task that begins or ends on the command line, with what it needs.      *)
Handed(j) ==
  /\ state' = state /\ UNCHANGED report
  /\ RoutingTypes'
  /\ \A k \in Jobs \ {j} : /\ task[k] = "idle" /\ task'[k] = "idle"
                           /\ copy'[k] = copy[k] /\ route'[k] = route[k]
  /\ task'[j] \notin {"begin", "exec", "apply", "advance"}
  /\ task'[j] = "start" => ~IsAgent(j)
  /\ task'[j] = "route" => Carried(route'[j])
  /\ task'[j] # "idle" /\ state.job[j].status = "running" /\ IsAgent(j)
       => credit'[j] = Visiting(state.job[j])
  /\ next'.at = "idle" /\ Reading'

(* Such a step keeps the invariant.                                         *)
LEMMA HandedKeeps ==
  ASSUME HandInv, NEW j \in Jobs, Handed(j)
  PROVE  HandInv' /\ \A k \in Jobs : ~Leaves(k)
  <1>1. /\ state' = state /\ \A k \in Jobs : IsAgent(k)' = IsAgent(k)
        /\ \A k \in Jobs \ {j} : task'[k] = "idle"
        /\ next'.at = "idle" /\ Reading' /\ RoutingTypes'
    BY DEF Handed, IsAgent, StepNow
  <1>2. Applicable'
    BY <1>1 DEF Handed, Applicable, Refused
  <1>3. Serial' /\ Current' /\ ByHand'
    BY <1>1 DEF Handed, Serial, Current, ByHand
  <1>4. Credited'
    BY <1>1 DEF Handed, Credited
  <1>5. Filed'
    BY DEF HandInv, Filed, FiledAt, Handed
  <1> QED BY <1>1, <1>2, <1>3, <1>4, <1>5, StaysThere DEF HandInv

(* No next command.                                                         *)
LEMMA NoReading ==
  ASSUME next' = NoNext \/ next' = next, HandInv, next' = NoNext \/ next.at = "idle"
  PROVE  next'.at = "idle" /\ Reading'
  <1>1. CASE next' = NoNext
    BY <1>1 DEF NoNext, Reading
  <1>2. CASE next' = next /\ next.at = "idle"
    BY <1>2 DEF Reading, HandInv
  <1> QED BY <1>1, <1>2

(* `step` begins, and ends where executeNonAgentStep would look again.      *)
LEMMA StepGiven ==
  ASSUME HandInv, NEW j \in Jobs, StepCommand(j) \/ StepCommandEnds(j)
  PROVE  HandInv' /\ \A k \in Jobs : ~Leaves(k)
  <1>0. /\ task \in [Jobs -> Points] /\ copy \in [Jobs -> RoutedState]
        /\ route \in [Jobs -> Route] /\ InitState \in RoutedState /\ NoRoute \in Route
    BY InitStateTyped DEF HandInv, RoutingTypes, NoRoute, Route, PlainRoute, Carrier
  <1>1. /\ next' = next /\ report' = report /\ state' = state /\ jobLog' = jobLog
        /\ loop' = loop /\ crashes' = crashes /\ started' = started /\ again' = again
        /\ collided' = collided
    BY DEF StepCommand, StepCommandEnds, data, disk, main, seen
  <1>2. CASE StepCommand(j)
    <2>1. /\ next.at = "idle" /\ \A k \in Jobs : task[k] = "idle"
          /\ task' = [task EXCEPT ![j] = "start"] /\ copy' = copy /\ route' = route
          /\ ~IsAgent(j)
      BY <1>2 DEF StepCommand, Idle, At, GoTo
    <2>2. RoutingTypes'
      BY <1>0, <1>1, <2>1 DEF HandInv, RoutingTypes, Points
    <2>3. Handed(j)
      BY <1>0, <1>1, <2>1, <2>2, NoReading DEF Handed
    <2> QED BY <2>3, HandedKeeps
  <1>3. CASE StepCommandEnds(j)
    <2>1. /\ task[j] = "after" /\ task' = [task EXCEPT ![j] = "idle"]
          /\ copy' = [copy EXCEPT ![j] = InitState]
          /\ route' = [route EXCEPT ![j] = NoRoute]
      BY <1>3 DEF StepCommandEnds, At, Finish
    <2>2. next.at = "idle" /\ \A k \in Jobs \ {j} : task[k] = "idle"
      BY <2>1 DEF HandInv, Serial
    <2>3. RoutingTypes'
      BY <1>0, <1>1, <2>1 DEF HandInv, RoutingTypes, Points
    <2>4. Handed(j)
      BY <1>0, <1>1, <2>1, <2>2, <2>3, NoReading DEF Handed
    <2> QED BY <2>4, HandedKeeps
  <1> QED BY <1>2, <1>3

(* The report is dispatched: its job has credit now.                        *)
LEMMA DispatchReport ==
  ASSUME HandInv, AcceptPlain \/ AcceptRoute, Credits
  PROVE  HandInv' /\ \A k \in Jobs : ~Leaves(k)
  <1> DEFINE j == next.job
             go == Asked(ContractNow, Report)
  <1>0. /\ task \in [Jobs -> Points] /\ route \in [Jobs -> Route]
        /\ jobLog \in [Jobs -> SUBSET Events]
    BY DEF HandInv, RoutingTypes
  <1>1. /\ next.at = "dispatch" /\ j \in Jobs /\ \A k \in Jobs : task[k] = "idle"
        /\ next' = NoNext /\ report' = report /\ state' = state /\ copy' = copy
        /\ loop' = loop /\ crashes' = crashes /\ started' = started /\ again' = again
        /\ collided' = collided
    BY DEF AcceptPlain, AcceptRoute, Dispatched, Doing, HandInv, Reading, Serial, main, seen
  <1>2. ContractNow = Contract[j][StepNow(j)] /\ StepNow(j) \in 1..Steps[j]
        /\ StepKind[j][StepNow(j)] = "agent"
    <2>1. state.job[j] \in RecordOf(j)
      BY <1>1, StateParts DEF HandInv, RoutingTypes
    <2>2. next.key[3] = StepNow(j) /\ IsAgent(j)
      BY <1>1 DEF HandInv, Reading, Key
    <2> QED BY <1>1, <2>1, <2>2, RecordParts DEF ContractNow, IsAgent, StepNow
  <1>3. task'[j] # "idle" => credit'[j] = Visiting(state.job[j])
    BY <1>1 DEF Credits, Doing, At
  <1>4. next'.at = "idle" /\ Reading'
    BY <1>1, NoReading
  <1>5. CASE AcceptPlain
    <2>1. /\ task' = [task EXCEPT ![j] = "advRead"] /\ route' = route
          /\ jobLog' = [jobLog EXCEPT ![j] = @ \cup {"agent_report_accepted"}]
      BY <1>5 DEF AcceptPlain, GoTo, Log
    <2>2. RoutingTypes'
      BY <1>0, <1>1, <2>1 DEF HandInv, RoutingTypes, Points, Events
    <2>3. Handed(j)
      BY <1>0, <1>1, <1>3, <1>4, <2>1, <2>2 DEF Handed
    <2> QED BY <1>1, <2>3, HandedKeeps
  <1>6. CASE AcceptRoute
    <2>1. /\ task' = [task EXCEPT ![j] = "route"] /\ route' = [route EXCEPT ![j] = go]
          /\ jobLog' = jobLog /\ go # NoReport
      BY <1>6 DEF AcceptRoute
    <2>2. /\ Report \in Written[j][StepNow(j)] /\ Acceptable(j, ContractNow, Report)
      BY <1>1 DEF HandInv, Reading
    <2>3. go \in Route /\ Carried(go)
      BY <1>1, <1>2, <2>1, <2>2, AskedTyped
    <2> HIDE DEF go
    <2>4. RoutingTypes'
      BY <1>0, <1>1, <2>1, <2>3 DEF HandInv, RoutingTypes, Points
    <2>5. Handed(j)
      BY <1>0, <1>1, <1>3, <1>4, <2>1, <2>3, <2>4 DEF Handed
    <2> QED BY <1>1, <2>5, HandedKeeps
  <1> QED BY <1>5, <1>6

(* `prompt` starts the agent step of a ready job.                           *)
LEMMA PromptGiven ==
  ASSUME HandInv, NEW j \in Jobs, Prompt(j)
  PROVE  HandInv' /\ \A k \in Jobs : ~Leaves(k)
  <1>1. /\ next' = next /\ report' = report /\ state' = Running(state, j)
        /\ jobLog' = jobLog /\ copy' = copy /\ task' = task /\ route' = route
        /\ loop' = loop /\ crashes' = crashes /\ started' = started /\ again' = again
        /\ collided' = collided /\ next.at = "idle" /\ \A k \in Jobs : task[k] = "idle"
        /\ state.job[j].status = "ready"
    BY DEF Prompt, Idle, At, data, local, main, seen
  <1>2. state \in RoutedState
    BY DEF HandInv, RoutingTypes
  <1>3. state' \in RoutedState /\ \A k \in Jobs \ {j} : state'.job[k] = state.job[k]
    BY <1>1, <1>2, RunningTyped
  <1>4. RoutingTypes'
    BY <1>1, <1>3 DEF HandInv, RoutingTypes
  <1>5. Applicable' /\ Serial' /\ Current' /\ ByHand' /\ Credited'
    BY <1>1 DEF Applicable, Serial, Current, ByHand, Credited
  <1>6. Filed' /\ Reading'
    BY <1>1 DEF HandInv, Filed, FiledAt, Reading
  <1>7. \A k \in Jobs : ~Leaves(k)
    BY <1>1, <1>3 DEF Leaves
  <1> QED BY <1>4, <1>5, <1>6, <1>7 DEF HandInv

(* The command dies.                                                        *)
LEMMA CommandDies ==
  ASSUME HandInv, CrashCommand
  PROVE  HandInv' /\ \A k \in Jobs : ~Leaves(k)
  <1>1. /\ next' = NoNext /\ report' = report /\ state' = state
        /\ jobLog' = jobLog /\ copy' = [j \in Jobs |-> InitState]
        /\ task' = [j \in Jobs |-> "idle"] /\ route' = [j \in Jobs |-> NoRoute]
        /\ loop' = loop /\ crashes' = crashes + 1 /\ started' = started /\ again' = again
        /\ collided' = collided
    BY DEF CrashCommand, data, disk, seen
  <1>2. /\ InitState \in RoutedState /\ NoRoute \in Route
    BY InitStateTyped DEF NoRoute, Route, PlainRoute, Carrier
  <1>3. RoutingTypes'
    BY <1>1, <1>2 DEF HandInv, RoutingTypes, Points
  <1>4. Applicable' /\ Serial' /\ Current' /\ ByHand' /\ Credited'
    BY <1>1 DEF Applicable, Serial, Current, ByHand, Credited, NoNext
  <1>5. Filed' /\ Reading'
    BY <1>1 DEF HandInv, Filed, FiledAt, Reading, NoNext
  <1> QED BY <1>1, <1>3, <1>4, <1>5, StaysThere DEF HandInv

(* A step of Routing: a visit of an agent step is left with its credit.     *)
LEMMA RowGiven ==
  ASSUME HandInv, NEW t \in Jobs, Row(t), RoutingTypes', UNCHANGED <<report, next>>, Credits
  PROVE  /\ HandInv'
         /\ \A k \in Jobs : Leaves(k) => credit[k] = Visiting(state.job[k])
  <1>0. RoutingTypes /\ Current /\ ByHand /\ Serial /\ Credited
    BY DEF HandInv
  <1>1. /\ task[t] # "idle" /\ crashes' = crashes
        /\ task'[t] \notin {"route", "apply", "start"} \/ Looks(t)
        /\ \A k \in Jobs \ {t} : task'[k] = task[k] /\ copy'[k] = copy[k] /\ route'[k] = route[k]
    <2>1. crashes' = crashes
      BY DEF Row, Looks, Rejects, Begins, Closes, Passes, RouteOf, RouteEnds, Moves, untouched
    <2> QED BY <1>0, <2>1, RowMoves
  <1>2. next.at = "idle" /\ \A k \in Jobs \ {t} : task[k] = "idle" /\ task'[k] = "idle"
    BY <1>0, <1>1 DEF Serial
  <1>3. \A k \in Jobs \ {t} : Aside(state'.job[k], state.job[k])
    BY <1>0, RowOthers
  <1>4. Itself(t)
    BY <1>0, RowItself
  <1>5. \A k \in Jobs \ {t} : ~Leaves(k)
    BY <1>3 DEF Aside, Leaves
  <1>6. \A k \in Jobs : Leaves(k) => credit[k] = Visiting(state.job[k])
    BY <1>0, <1>1, <1>5 DEF Leaves, Credited
  <1>7. Applicable'
    <2>1. /\ task'[t] \in {"route", "apply"} => Carried(route'[t])
          /\ task'[t] = "apply" => ~Refused(t, copy[t])'
      <3>1. CASE Looks(t)
        BY <3>1 DEF HandInv, Looks, Moves, Applicable, Refused, ChosenFor
      <3> QED BY <1>1, <3>1
    <2> QED BY <1>2, <2>1 DEF Applicable
  <1>8. Serial' /\ Current' /\ ByHand'
    BY <1>2, <1>4 DEF Serial, Current, ByHand, Itself
  <1>9. Credited'
    <2>1. ASSUME task'[t] # "idle", state'.job[t].status = "running", IsAgent(t)'
          PROVE  credit'[t] = Visiting(state'.job[t])
      <3>1. state'.job[t] = state.job[t]
        BY <1>4, <2>1 DEF Itself
      <3>2. IsAgent(t) /\ ~Leaves(t)
        BY <2>1, <3>1 DEF IsAgent, StepNow, Leaves
      <3>3. credit'[t] = credit[t]
        BY <1>1, <1>2, <3>2 DEF Credits, Doing
      <3> QED BY <1>0, <1>1, <2>1, <3>1, <3>2, <3>3 DEF Credited
    <2> QED BY <1>2, <2>1 DEF Credited
  <1>10. Filed' /\ Reading'
    BY <1>2 DEF HandInv, Filed, FiledAt, Reading
  <1> QED BY <1>6, <1>7, <1>8, <1>9, <1>10 DEF HandInv

(* Every step of a command keeps the invariant, and a visit of an agent step*)
(* is left with its credit only.                                            *)
LEMMA HandSteps ==
  ASSUME HandInv, ReportsNext
  PROVE  /\ HandInv'
         /\ \A k \in Jobs : Leaves(k) => credit[k] = Visiting(state.job[k])
  <1>0. Credits
    BY DEF ReportsNext
  <1>1. ASSUME NEW j \in Jobs, Routed(j)
        PROVE  /\ HandInv'
               /\ \A k \in Jobs : Leaves(k) => credit[k] = Visiting(state.job[k])
    <2>1. RoutingTypes' /\ Row(j)
      BY <1>1, StepRow, RouteRow, AdvanceRow DEF Routed, HandInv
    <2> QED BY <1>0, <1>1, <2>1, RowGiven DEF Routed, data
  <1>2. CASE NextCommand
    <2>1. CASE AcceptPlain \/ AcceptRoute
      BY <1>0, <2>1, DispatchReport
    <2>2. CASE ~(AcceptPlain \/ AcceptRoute)
      <3>1. Proceeds
        BY <1>2, <2>2, ProceedsOn DEF NextCommand
      <3> QED BY <3>1, ProceedsKeeps
    <2> QED BY <2>1, <2>2
  <1> QED
    BY <1>1, <1>2, PromptGiven, WriteReport, ReadReport, StepGiven, CommandDies
    DEF ReportsNext

(* Nothing is under way at first.                                           *)
LEMMA HandInit == ReportsInit => HandInv
  <1> SUFFICES ASSUME ReportsInit PROVE HandInv
    OBVIOUS
  <1>1. Init
    BY DEF ReportsInit
  <1>2. RoutingTypes /\ Applicable
    BY <1>1, RoutingInit, ChosenApplicable DEF RoutingBase
  <1>3. Serial /\ Current /\ ByHand /\ Credited
    BY <1>1 DEF ReportsInit, Init, NoNext, Serial, Current, ByHand, Credited
  <1>4. Filed /\ Reading
    BY DEF ReportsInit, NoNext, Filed, Reading
  <1> QED BY <1>2, <1>3, <1>4 DEF HandInv

(* A step that leaves the commands' state alone.                            *)
LEMMA HandRests ==
  ASSUME HandInv, UNCHANGED handVars
  PROVE  HandInv' /\ \A k \in Jobs : ~Leaves(k)
  <1>1. /\ state' = state /\ copy' = copy /\ task' = task /\ route' = route
        /\ started' = started /\ jobLog' = jobLog /\ loop' = loop /\ crashes' = crashes
        /\ again' = again /\ collided' = collided /\ next' = next /\ report' = report
        /\ credit' = credit
    BY DEF handVars, vars, data, disk, local, main, seen
  <1>2. RoutingTypes'
    BY <1>1 DEF HandInv, RoutingTypes
  <1>a. \A k \in Jobs : /\ IsAgent(k)' <=> IsAgent(k)
                         /\ Key(k)' = Key(k) /\ StepNow(k)' = StepNow(k)
    BY <1>1 DEF IsAgent, Key, StepNow
  <1>3. /\ Applicable' /\ Serial' /\ Current' /\ Filed'
        /\ ByHand' /\ Credited'
    <2>1. Applicable' /\ Serial' /\ Current'
      BY <1>1 DEF HandInv, Applicable, Refused, Serial, Current
    <2>2. ByHand' /\ Credited'
      BY <1>1, <1>a DEF HandInv, ByHand, Credited
    <2>3. Filed'
      BY <1>1 DEF HandInv, Filed, FiledAt
    <2> QED BY <2>1, <2>2, <2>3
  <1>4. Reading'
    <2>1. ContractNow' = ContractNow /\ Report' = Report
      BY <1>1 DEF ContractNow, Report
    <2>2. Acceptable(next.job, ContractNow, Report)' <=> Acceptable(next.job, ContractNow, Report)
      BY <1>1, <2>1 DEF Acceptable, Fulfils, Returns, StatusOf, Matching, Normalized
    <2>3. CASE next.at = "idle"
      BY <1>1, <2>3 DEF HandInv, Reading
    <2>4. CASE next.at # "idle"
      <3>1. /\ next.job \in Jobs /\ next.key = Key(next.job)
            /\ IsAgent(next.job) /\ state.job[next.job].step # 0
            /\ Report \in Written[next.job][StepNow(next.job)]
            /\ Acceptable(next.job, ContractNow, Report)
        BY <2>4 DEF HandInv, Reading
      <3>2. /\ IsAgent(next.job)' <=> IsAgent(next.job)
            /\ Key(next.job)' = Key(next.job) /\ StepNow(next.job)' = StepNow(next.job)
        BY <1>1, <3>1 DEF IsAgent, Key, StepNow
      <3> QED BY <1>1, <2>1, <2>2, <3>1, <3>2 DEF HandInv, Reading
    <2> QED BY <2>3, <2>4
  <1> QED BY <1>1, <1>2, <1>3, <1>4, StaysThere DEF HandInv

(* Whatever command is given, and wherever it dies.                         *)
LEMMA CommandSteps ==
  ASSUME HandInv, [CommandsNext]_commandVars
  PROVE  /\ HandInv'
         /\ \A k \in Jobs : Leaves(k) => credit[k] = Visiting(state.job[k])
  <1>1. CASE GiveCommands
    BY <1>1, HandSteps DEF GiveCommands
  <1>2. CASE CreateRuns \/ Open \/ UNCHANGED commandVars
    <2>1. UNCHANGED handVars
      BY <1>2 DEF CreateRuns, Open, commandVars
    <2> QED BY <2>1, HandRests
  <1> QED BY <1>1, <1>2 DEF CommandsNext

(* Every variable of the engine has its type under the commands too.        *)
LEMMA AlwaysByHand == CommandsSpec => []HandInv
  <1>1. CommandsInit => HandInv
    BY HandInit DEF CommandsInit
  <1>2. HandInv /\ [CommandsNext]_commandVars => HandInv'
    BY CommandSteps
  <1> QED BY <1>1, <1>2, PTL DEF CommandsSpec

(* One `next` moves its job by one step: for every workflow, contract and   *)
(* set of reports, wherever commands die, a running job leaves a visit of   *)
(* an agent step only within a command that accepted, at that visit, a      *)
(* report of its job, attempt and step (be it one of an earlier visit).     *)
THEOREM ReportsMoveJobs == CommandsSpec => StepNeedsReport
  <1>1. HandInv /\ [CommandsNext]_commandVars =>
          [\A j \in Jobs : Leaves(j) => credit[j] = Visiting(state.job[j])]_handVars
    BY CommandSteps
  <1> QED BY <1>1, AlwaysByHand, PTL DEF CommandsSpec, StepNeedsReport

(* The shells' directories under the commands: forgotten runs and shells    *)
(* that have ended leave every other shell with its own.                    *)
LEMMA CommandsOwn == OwnInv /\ [CommandsNext]_commandVars => OwnInv'
  <1> SUFFICES ASSUME OwnInv, [CommandsNext]_commandVars PROVE OwnInv'
    OBVIOUS
  <1>1. CASE CreateRuns
    BY <1>1, NextOwn DEF CreateRuns
  <1>2. CASE GiveCommands \/ UNCHANGED commandVars
    <2>1. UNCHANGED storeVars
      BY <1>2 DEF GiveCommands, commandVars
    <2> QED BY <2>1, NextOwn
  <1>3. CASE Open
    <2>1. PICK id \in Existing : dir' = [i \in {id} |-> dir[i]]
      BY <1>3 DEF Open
    <2>2. /\ Existing' = {id} /\ dir'[id] = dir[id]
          /\ shell' = [s \in Shells |-> [Started EXCEPT !.at = "done"]] /\ mishaps' = 0
      BY <1>3, <2>1 DEF Open, Existing
    <2>3. StoreTypeOK'
      BY <2>1, <2>2 DEF OwnInv, StoreTypeOK, Started, Point, Existing
    <2>4. FinitelyMany'
      BY <2>2, FS_Singleton DEF FinitelyMany
    <2>5. Mine' /\ OwnRunDirectory'
      BY <2>2 DEF OwnInv, Mine, OwnRunDirectory, Started, Writing
    <2> QED BY <2>3, <2>4, <2>5 DEF OwnInv
  <1> QED BY <1>1, <1>2, <1>3 DEF CommandsNext

(* No run directory is written by two shells, under the commands as well.   *)
THEOREM CommandsKeepRuns == CommandsSpec => []OwnRunDirectory
  <1>1. CommandsInit => OwnInv
    BY InitOwn DEF CommandsInit
  <1>2. OwnInv => OwnRunDirectory
    BY DEF OwnInv
  <1> QED BY <1>1, <1>2, CommandsOwn, PTL DEF CommandsSpec

(* ------------------------------- outputs ---------------------------------*)

(* `step` does not advance a job, so that one whose first step is no agent  *)
(* never gets beyond it, ...                                                *)
AgentsFirst ==
  \A j \in Jobs : StepKind[j][1] # "agent" => state.job[j].step \in {0, 1}

(* ... and the task of a step that is no agent ends without advancing.      *)
NotAdvanced ==
  \A j \in Jobs : ~IsAgent(j) =>
    /\ task[j] \in {"idle", "start", "begin", "exec", "after", "route", "apply"}
    /\ task[j] \in {"route", "apply"} => route[j].via \in {"case", "pass", "fail"}

(* A job at an agent step began with one.                                   *)
LEMMA AgentBegan ==
  ASSUME AgentsFirst, NEW j \in Jobs, IsAgent(j)
  PROVE  StepKind[j][1] = "agent"
  BY DEF AgentsFirst, IsAgent, StepNow, StepOf

(* It is at an agent step again when it is put back to its first.           *)
LEMMA AgentAgain ==
  ASSUME AgentsFirst, NEW j \in Jobs, IsAgent(j),
         state'.job[j].step \in {state.job[j].step, 0}
  PROVE  IsAgent(j)'
  BY AgentBegan DEF IsAgent, StepNow, StepOf

(* A step that keeps every job at its step, or puts it back.                *)
LEMMA RowAgents ==
  ASSUME HandInv, AgentsFirst, NotAdvanced, NEW t \in Jobs, Row(t), task[t] # "after"
  PROVE  AgentsFirst' /\ NotAdvanced'
  <1>0. /\ RoutingTypes /\ Current /\ ByHand /\ Serial /\ Applicable
        /\ state \in RoutedState
    BY DEF HandInv, RoutingTypes
  <1>1. /\ task[t] # "idle"
        /\ \A k \in Jobs \ {t} : task'[k] = task[k] /\ task[k] = "idle"
    BY <1>0, RowMoves DEF Serial
  <1>2. \A k \in Jobs \ {t} : state'.job[k].step \in {state.job[k].step, 0}
    BY <1>0, RowOthers DEF Aside
  <1> DEFINE Back == state'.job[t].step \in {state.job[t].step, 0}
             Ends == /\ task'[t] \in {"idle", "start", "begin", "exec", "after", "route", "apply"}
                     /\ task'[t] \in {"route", "apply"} => route'[t].via \in {"case", "pass", "fail"}
             First == StepKind[t][1] # "agent" => state'.job[t].step \in {0, 1}
  <1>f. Back => First
    BY DEF AgentsFirst
  <1>a. Back /\ ~IsAgent(t)' => ~IsAgent(t)
    BY AgentAgain
  <1>n. ~IsAgent(t) =>
          /\ task[t] \in {"start", "begin", "exec", "route", "apply"}
          /\ task[t] \in {"route", "apply"} => route[t].via \in {"case", "pass", "fail"}
    BY <1>1 DEF NotAdvanced
  <1>3. First /\ (~IsAgent(t)' => Ends)
    <2>1. CASE Looks(t)
      <3>1. state' = state
        BY <2>1 DEF Looks
      <3>2. ASSUME ~IsAgent(t) PROVE Ends
        <4>1. KindAt(t, state) # "agent"
          BY <3>2 DEF IsAgent, KindAt, StepNow
        <4>2. task[t] = "exec" => copy[t] = state
          BY <1>0 DEF Current
        <4> QED BY <1>n, <2>1, <3>2, <4>1, <4>2 DEF Looks, Moves
      <3> QED BY <1>a, <1>f, <3>1, <3>2
    <2>2. CASE Rejects(t)
      BY <1>f, <2>2 DEF Rejects, Moves
    <2>3. CASE Begins(t)
      <3>1. state' = Running(state, t) /\ task'[t] = "exec"
        BY <1>0, <2>3 DEF Begins, Begun, Moves, Current
      <3>2. state'.job[t].step = StepOf(state.job[t])
        BY <1>0, <3>1, RunningTyped
      <3>3. First
        BY <3>2 DEF AgentsFirst, StepOf
      <3> QED BY <3>1, <3>3
    <2>4. CASE Closes(t)
      <3>1. /\ task'[t] \in {"after", "idle"}
            /\ \/ Closed(t, copy[t]) /\ task[t] = "exec"
               \/ Closed(t, state)
        BY <2>4 DEF Closes, Moves
      <3>2. Closed(t, state)
        BY <1>0, <3>1 DEF Current
      <3>3. Back
        BY <3>2 DEF Closed, ClosedAs
      <3> QED BY <1>f, <3>1, <3>3
    <2>5. CASE Passes(t)
      <3>1. IsAgent(t)
        BY <1>0, <1>n, <2>5 DEF Passes, Moves, Applicable, Carried, JobRoute
      <3>2. First
        BY <3>1, AgentBegan
      <3> QED BY <2>5, <3>2 DEF Passes, Moves
    <2>6. CASE RouteOf(t)
      <3>1. copy[t] = state
        BY <1>0, <2>6 DEF RouteOf, RouteEnds, Moves, Current
      <3>2. Back
        <4>1. CASE state' = copy[t] \/ Stopped(t)
          BY <3>1, <4>1 DEF Stopped, ClosedAs
        <4>2. ASSUME NEW u \in Jobs, Again(t, u) \/ Exceeds(t, u) \/ Activates(t, u) \/ Jumps(t, u)
              PROVE  Back
          BY <3>1, <4>2 DEF Again, Exceeds, Activates, Jumps, Enters, ClosedAs, OthersAs
        <4> QED BY <2>6, <4>1, <4>2 DEF RouteOf
      <3>3. ASSUME ~IsAgent(t) PROVE Ends
        <4>1. task[t] = "apply" /\ route[t].via \in {"case", "pass", "fail"}
              /\ route[t].do \in JobRoute
          BY <1>0, <1>n, <2>6, <3>3 DEF RouteOf, RouteEnds, Moves, Applicable, Carried
        <4> QED BY <2>6, <4>1 DEF RouteOf, RouteEnds, Moves, JobRoute
      <3> QED BY <1>a, <1>f, <3>2, <3>3
    <2> QED BY <2>1, <2>2, <2>3, <2>4, <2>5, <2>6 DEF Row
  <1>4. AgentsFirst'
    BY <1>2, <1>3 DEF AgentsFirst
  <1>5. NotAdvanced'
    BY <1>1, <1>3 DEF NotAdvanced
  <1> QED BY <1>4, <1>5

(* A job that is completed has left its agent steps.                        *)
DoneWithAgents ==
  \A j \in Jobs : state.job[j].status = "completed"
                    => state.job[j].step = 0 \/ ~IsAgent(j)

(* What a report leaves behind that did not pass is left at an agent step,  *)
(* where only another report can take the job on.                           *)
LeftBehind ==
  \A j \in Jobs : output[j] # passed[j] =>
    IsAgent(j) /\ state.job[j].status # "completed" /\ task[j] = "idle"

(* Outputs are persisted before everything else.                            *)
Persisted ==
  next.at \notin {"idle", "outputs"} =>
    output[next.job] = Normalized(ContractNow, Report.outputs)

OutputInv ==
  /\ output = [j \in Jobs |-> output[j]] /\ passed = [j \in Jobs |-> passed[j]]
  /\ AgentsFirst /\ NotAdvanced /\ DoneWithAgents /\ LeftBehind /\ Persisted

(* A step of Routing completes no job whose outputs were left behind.       *)
LEMMA RowOutputs ==
  ASSUME HandInv, OutputInv, NEW t \in Jobs, Row(t), task[t] # "after",
         UNCHANGED <<output, passed, next>>
  PROVE  OutputInv'
  <1>0. RoutingTypes /\ Current /\ ByHand /\ Serial
    BY DEF HandInv
  <1>1. /\ task[t] # "idle"
        /\ \A k \in Jobs \ {t} : task'[k] = task[k]
    BY <1>0, RowMoves
  <1>2. next.at = "idle"
    BY <1>0, <1>1 DEF Serial
  <1>3. \A k \in Jobs \ {t} : Aside(state'.job[k], state.job[k])
    BY <1>0, RowOthers
  <1>4. Itself(t)
    BY <1>0, RowItself
  <1>5. ASSUME NEW k \in Jobs \ {t}, IsAgent(k) PROVE IsAgent(k)'
    BY <1>3, <1>5, AgentAgain DEF Aside, OutputInv
  <1>6. DoneWithAgents'
    <2> SUFFICES ASSUME NEW k \in Jobs, state'.job[k].status = "completed"
                 PROVE  state'.job[k].step = 0 \/ ~IsAgent(k)'
      BY DEF DoneWithAgents
    <2>1. state'.job[k] = state.job[k] \/ state'.job[k].step = 0 \/ ~IsAgent(k)'
      BY <1>3, <1>4 DEF Aside, Itself
    <2>2. CASE state'.job[k] = state.job[k]
      <3>1. state.job[k].step = 0 \/ ~IsAgent(k)
        BY <2>2 DEF OutputInv, DoneWithAgents
      <3> QED BY <2>2, <3>1 DEF IsAgent, StepNow
    <2> QED BY <2>1, <2>2
  <1>7. LeftBehind'
    <2> SUFFICES ASSUME NEW k \in Jobs, output[k] # passed[k]
                 PROVE  IsAgent(k)' /\ state'.job[k].status # "completed" /\ task'[k] = "idle"
      BY DEF LeftBehind
    <2>1. IsAgent(k) /\ state.job[k].status # "completed" /\ task[k] = "idle"
      BY DEF OutputInv, LeftBehind
    <2> QED BY <1>1, <1>3, <1>5, <2>1 DEF Aside
  <1>8. AgentsFirst' /\ NotAdvanced'
    BY RowAgents DEF OutputInv
  <1> QED BY <1>2, <1>6, <1>7, <1>8 DEF OutputInv, Persisted

(* Nor does a step that leaves state and outputs alone.                     *)
LEMMA RestOutputs ==
  ASSUME OutputInv, state' = state, UNCHANGED <<output, passed>>, Persisted',
         \A j \in Jobs : \/ task'[j] = task[j] /\ route'[j] = route[j]
                         \/ task'[j] = "idle"
                         \/ task'[j] = "start" /\ ~IsAgent(j)
  PROVE  OutputInv'
  <1>1. \A k \in Jobs : IsAgent(k)' <=> IsAgent(k)
    BY DEF IsAgent, StepNow
  <1>2. AgentsFirst' /\ NotAdvanced'
    BY <1>1 DEF OutputInv, AgentsFirst, NotAdvanced
  <1>3. DoneWithAgents' /\ LeftBehind'
    BY <1>1 DEF OutputInv, DoneWithAgents, LeftBehind
  <1> QED BY <1>2, <1>3 DEF OutputInv

(* Reading a report persists its outputs, at an agent step.                 *)
LEMMA PersistKeeps ==
  ASSUME HandInv, OutputInv, PersistOutputs
  PROVE  OutputInv'
  <1> DEFINE j == next.job
             new == Normalized(ContractNow, Report.outputs)
  <1>1. /\ j \in Jobs /\ state.job[j].step # 0 /\ IsAgent(j) /\ task[j] = "idle"
    BY DEF PersistOutputs, Doing, HandInv, Reading, Serial
  <1>2. state.job[j].status # "completed"
    BY <1>1 DEF OutputInv, DoneWithAgents
  <1>3. /\ output' = [output EXCEPT ![j] = new] /\ passed' = passed
        /\ state' = state /\ task' = task /\ route' = route
        /\ next' = [next EXCEPT !.at = "patches"]
    BY DEF PersistOutputs, vars, disk, local, history
  <1>4. next'.job = j /\ ContractNow' = ContractNow /\ Report' = Report
    <2>1. next'.job = j /\ next'.key = next.key /\ next'.report = next.report
      BY <1>3 DEF HandInv, Reading
    <2> QED BY <2>1 DEF ContractNow, Report
  <1>5. \A k \in Jobs : IsAgent(k)' <=> IsAgent(k)
    BY <1>3 DEF IsAgent, StepNow
  <1>6. Normalized(ContractNow, Report.outputs)' = new
    BY <1>4 DEF Normalized
  <1> HIDE DEF new
  <1>7. /\ output' = [k \in Jobs |-> output'[k]] /\ output'[j] = new
        /\ \A k \in Jobs \ {j} : output'[k] = output[k]
    BY <1>1, <1>3 DEF OutputInv
  <1>8. DoneWithAgents' /\ LeftBehind'
    BY <1>1, <1>2, <1>3, <1>5, <1>7 DEF OutputInv, DoneWithAgents, LeftBehind
  <1>9. Persisted'
    BY <1>4, <1>6, <1>7 DEF Persisted, new
  <1>10. AgentsFirst' /\ NotAdvanced'
    BY <1>3, <1>5 DEF OutputInv, AgentsFirst, NotAdvanced
  <1> QED BY <1>3, <1>7, <1>8, <1>9, <1>10 DEF OutputInv

(* The report passes.                                                       *)
LEMMA PassKeeps ==
  ASSUME HandInv, OutputInv, AcceptPlain \/ AcceptRoute
  PROVE  OutputInv'
  <1> DEFINE j == next.job
             new == Normalized(ContractNow, Report.outputs)
  <1>1. /\ j \in Jobs /\ next.at = "dispatch" /\ next' = NoNext /\ state' = state
        /\ passed' = [passed EXCEPT ![j] = new]
        /\ \A k \in Jobs \ {j} : task'[k] = task[k] /\ route'[k] = route[k]
        /\ IsAgent(j)
    BY DEF AcceptPlain, AcceptRoute, Dispatched, GoTo, Doing, HandInv, Reading, RoutingTypes
  <1>2. output[j] = new
    BY <1>1 DEF OutputInv, Persisted
  <1>3. output' = output \/ output' = [output EXCEPT ![j] = new]
    BY DEF AcceptPlain, AcceptRoute
  <1>4. \A k \in Jobs : IsAgent(k)' <=> IsAgent(k)
    BY <1>1 DEF IsAgent, StepNow
  <1> HIDE DEF new
  <1>5. output' = output
    <2>1. output = [k \in Jobs |-> output[k]]
      BY DEF OutputInv
    <2> QED BY <1>2, <1>3, <2>1
  <1>6. /\ passed' = [k \in Jobs |-> passed'[k]] /\ passed'[j] = new
        /\ \A k \in Jobs \ {j} : passed'[k] = passed[k]
    BY <1>1 DEF OutputInv
  <1>7. DoneWithAgents' /\ LeftBehind'
    BY <1>1, <1>2, <1>4, <1>5, <1>6 DEF OutputInv, DoneWithAgents, LeftBehind
  <1>8. Persisted'
    BY <1>1 DEF Persisted, NoNext
  <1>9. output' = [k \in Jobs |-> output'[k]]
    BY <1>5 DEF OutputInv
  <1>10. AgentsFirst' /\ NotAdvanced'
    BY <1>1, <1>4 DEF OutputInv, AgentsFirst, NotAdvanced
  <1> QED BY <1>6, <1>7, <1>8, <1>9, <1>10 DEF OutputInv

(* Every step of a command keeps the outputs in order.                      *)
LEMMA OutputSteps ==
  ASSUME HandInv, OutputInv, ReportsNext
  PROVE  OutputInv'
  <1>1. ASSUME NEW j \in Jobs, Routed(j) PROVE OutputInv'
    <2>1. RoutingTypes' /\ Row(j)
      BY <1>1, StepRow, RouteRow, AdvanceRow DEF Routed, HandInv
    <2>2. task[j] # "after"
      BY <1>1 DEF Routed, Step, ApplyRoute, Advance, At, Applies, AdvanceLive, AdvanceSkips,
                  RouteRefused, RouteRead, RouteContinue, RouteStop, RouteRetry, RouteExceeded,
                  RouteActivate, RouteGotoJob, RouteGotoStep, AdvanceRead, AdvanceNothing,
                  AdvanceStep, AdvanceSkip, AdvanceComplete, CommitJobCompleted
    <2> QED BY <1>1, <2>1, <2>2, RowOutputs DEF Routed, data, history
  <1>2. ASSUME NEW j \in Jobs, Prompt(j) PROVE OutputInv'
    <2>1. /\ state' = Running(state, j) /\ task' = task /\ next' = next /\ output' = output
          /\ passed' = passed /\ next.at = "idle" /\ state \in RoutedState
          /\ route' = route
      BY <1>2 DEF Prompt, Idle, data, local, history, HandInv, RoutingTypes
    <2>2. /\ \A k \in Jobs \ {j} : state'.job[k] = state.job[k]
          /\ state'.job[j].status = "running" /\ state'.job[j].step = StepOf(state.job[j])
      BY <2>1, RunningTyped
    <2>3. StepOf(state.job[j]) # 0
      BY <2>1, StateParts, RecordParts
    <2>4. \A k \in Jobs : IsAgent(k)' <=> IsAgent(k)
      BY <2>2, <2>3 DEF IsAgent, StepNow, StepOf
    <2>5. DoneWithAgents' /\ LeftBehind' /\ Persisted'
      BY <2>1, <2>2, <2>4 DEF OutputInv, DoneWithAgents, LeftBehind, Persisted
    <2>6. AgentsFirst' /\ NotAdvanced'
      BY <2>1, <2>2, <2>4 DEF OutputInv, AgentsFirst, NotAdvanced, StepOf
    <2> QED BY <2>1, <2>5, <2>6 DEF OutputInv
  <1>3. ASSUME NEW j \in Jobs,
               AgentWrites(j) \/ NextRead(j) \/ StepCommand(j) \/ StepCommandEnds(j)
        PROVE  OutputInv'
    <2>1. state' = state /\ output' = output /\ passed' = passed
      BY <1>3 DEF AgentWrites, NextRead, StepCommand, StepCommandEnds, vars, disk, data, history
    <2>2. Persisted'
      <3>1. next'.at \in {"idle", "outputs"}
        <4>1. CASE NextRead(j)
          BY <4>1 DEF NextRead, NoNext
        <4>2. CASE AgentWrites(j) \/ StepCommand(j)
          BY <4>2 DEF AgentWrites, StepCommand, Idle
        <4>3. CASE StepCommandEnds(j)
          BY <4>3 DEF StepCommandEnds, At, HandInv, Serial
        <4> QED BY <1>3, <4>1, <4>2, <4>3
      <3> QED BY <3>1 DEF Persisted
    <2>3. \A k \in Jobs : \/ task'[k] = task[k] /\ route'[k] = route[k]
                          \/ task'[k] = "idle"
                          \/ task'[k] = "start" /\ ~IsAgent(k)
      <3>1. \/ route' = route /\ task' = task
            \/ route' = route /\ ~IsAgent(j) /\ task' = [task EXCEPT ![j] = "start"]
            \/ route' = [route EXCEPT ![j] = NoRoute] /\ task' = [task EXCEPT ![j] = "idle"]
        BY <1>3 DEF AgentWrites, NextRead, StepCommand, StepCommandEnds, GoTo, Finish, vars, local
      <3>2. task \in [Jobs -> Points] /\ route \in [Jobs -> Route]
        BY DEF HandInv, RoutingTypes
      <3> QED BY <3>1, <3>2
    <2> QED BY <2>1, <2>2, <2>3, RestOutputs
  <1>4. CASE \/ PatchesRefused \/ PatchesRead
             \/ PatchVariable \/ PatchBlock \/ PatchBlockDelete \/ PatchesCommit
    <2>1. /\ state' = state /\ output' = output /\ passed' = passed /\ task' = task
          /\ route' = route /\ next.at \in {"patches", "patching"}
      BY <1>4 DEF PatchesRefused, PatchesRead, PatchVariable, PatchBlock, PatchBlockDelete,
                  PatchesCommit, Patching, Doing, vars, disk, local, data, history
    <2>2. Proceeds
      BY <1>4, ProceedsOn
    <2>3. Persisted'
      <3>1. CASE next' = NoNext
        BY <3>1 DEF Persisted, NoNext
      <3>2. CASE next' # NoNext
        <4>1. next'.job = next.job /\ next'.key = next.key /\ next'.report = next.report
          BY <2>2, <3>2 DEF Proceeds
        <4>2. ContractNow' = ContractNow /\ Report' = Report
          BY <4>1 DEF ContractNow, Report
        <4>3. Normalized(ContractNow, Report.outputs)' = Normalized(ContractNow, Report.outputs)
          BY <4>2 DEF Normalized
        <4> QED BY <2>1, <4>1, <4>3 DEF OutputInv, Persisted
      <3> QED BY <3>1, <3>2
    <2> QED BY <2>1, <2>3, RestOutputs
  <1>5. CASE CrashCommand
    <2>1. /\ state' = state /\ output' = output /\ passed' = passed
          /\ \A k \in Jobs : task'[k] = "idle"
          /\ next' = NoNext
      BY <1>5 DEF CrashCommand, disk, data, history
    <2>2. Persisted'
      BY <2>1 DEF Persisted, NoNext
    <2> QED BY <2>1, <2>2, RestOutputs
  <1> QED
    BY <1>1, <1>2, <1>3, <1>4, <1>5, PersistKeeps, PassKeeps DEF ReportsNext, NextCommand

(* A completed job has the outputs of the last of its reports that passed,  *)
(* for every workflow and set of reports, wherever commands die: the outputs*)
(* that a refused or interrupted report has left behind do not survive.     *)
THEOREM OutputsKept == CommandsSpec => []OutputsAreReported
  <1>1. CommandsInit => OutputInv
    <2> SUFFICES ASSUME CommandsInit PROVE OutputInv
      OBVIOUS
    <2>1. /\ output = [j \in Jobs |-> NoReport] /\ passed = [j \in Jobs |-> NoReport]
          /\ next = NoNext /\ state = InitState /\ \A j \in Jobs : task[j] = "idle"
      BY DEF CommandsInit, ReportsInit, Init
    <2>2. \A j \in Jobs : state.job[j].step = 0
      BY <2>1, InitStateTyped
    <2>3. AgentsFirst /\ NotAdvanced
      BY <2>1, <2>2 DEF AgentsFirst, NotAdvanced
    <2> QED BY <2>1, <2>2, <2>3 DEF OutputInv, DoneWithAgents, LeftBehind, Persisted, NoNext
  <1>2. HandInv /\ OutputInv /\ [CommandsNext]_commandVars => OutputInv'
    <2> SUFFICES ASSUME HandInv, OutputInv, [CommandsNext]_commandVars PROVE OutputInv'
      OBVIOUS
    <2>1. CASE GiveCommands
      BY <2>1, OutputSteps DEF GiveCommands
    <2>2. CASE CreateRuns \/ Open \/ UNCHANGED commandVars
      <3>1. /\ state' = state /\ output' = output /\ passed' = passed /\ next' = next
            /\ task' = task /\ route' = route
        BY <2>2 DEF CreateRuns, Open, commandVars, handVars, vars, disk, local, data, history
      <3>2. ContractNow' = ContractNow /\ Report' = Report
        BY <3>1 DEF ContractNow, Report
      <3>3. Persisted'
        BY <3>1, <3>2 DEF OutputInv, Persisted, Normalized
      <3> QED BY <3>1, <3>3, RestOutputs
    <2> QED BY <2>1, <2>2 DEF CommandsNext
  <1>3. OutputInv => OutputsAreReported
    BY DEF OutputInv, LeftBehind, OutputsAreReported
  <1> QED BY <1>1, <1>2, <1>3, AlwaysByHand, PTL DEF CommandsSpec

(* ------------------------------- context ---------------------------------*)

(* No report deletes a block and writes it anew afterwards: its version     *)
(* would be counted from 1 again, and the file of a version that state.json *)
(* still names would be written over before the state is.                   *)
NoRewrittenBlock ==
  \A j \in Jobs : \A k \in 1..Steps[j] : StepKind[j][k] = "agent" =>
    \A r \in Written[j][k] : r.shaped =>
      \A i, n \in 1..Len(r.patches) :
        /\ i < n /\ r.patches[i].kind = "context_block_delete"
        /\ r.patches[n].kind \in {"context_block_set", "context_block_append"}
        => r.patches[i].name # r.patches[n].name

Contexts == [var : [Vars -> Values \cup {NoReport}], block : [Blocks -> Nat],
             initial : SUBSET DOMAIN InitialText]

Stories == [var : [Vars -> Values \cup {NoReport}], text : [Blocks -> Seq(Values)]]

(* Patches of what is declared.                                             *)
Fit == [kind : VariableKind, name : Vars, value : Values]
         \cup [kind : BlockKind, name : Blocks, value : Values]

(* The function that ToldBy is the last value of: the context after each of *)
(* the patches.                                                             *)
Story(g, ctx, patches) ==
  g = [n \in 0..Len(patches) |-> IF n = 0 THEN ctx ELSE Tell(g[n - 1], patches[n])]

TaleOf(ctx, patches) == CHOOSE g : Story(g, ctx, patches)

(* What one patch makes of a context.                                       *)
LEMMA TellTyped ==
  ASSUME NEW ctx \in Stories, NEW p \in Fit
  PROVE  /\ Tell(ctx, p) \in Stories
         /\ p.kind = "variable_set" => Tell(ctx, p) = [ctx EXCEPT !.var[p.name] = p.value]
         /\ p.kind = "variable_delete" => Tell(ctx, p) = [ctx EXCEPT !.var[p.name] = NoReport]
         /\ p.kind = "context_block_set" => Tell(ctx, p) = [ctx EXCEPT !.text[p.name] = <<p.value>>]
         /\ p.kind = "context_block_append" =>
              Tell(ctx, p) = [ctx EXCEPT !.text[p.name] = Append(ctx.text[p.name], p.value)]
         /\ p.kind = "context_block_delete" => Tell(ctx, p) = [ctx EXCEPT !.text[p.name] = <<>>]
  <1>0. /\ ctx.var \in [Vars -> Values \cup {NoReport}] /\ ctx.text \in [Blocks -> Seq(Values)]
        /\ p.value \in Values
    BY DEF Stories, Fit
  <1>1. CASE p.kind = "variable_set"
    <2>1. Tell(ctx, p) = [ctx EXCEPT !.var[p.name] = p.value]
      BY <1>1 DEF Tell
    <2> QED BY <1>0, <1>1, <2>1 DEF Stories
  <1>2. CASE p.kind = "variable_delete"
    <2>1. Tell(ctx, p) = [ctx EXCEPT !.var[p.name] = NoReport]
      BY <1>2 DEF Tell
    <2> QED BY <1>0, <1>2, <2>1 DEF Stories
  <1>3. CASE p.kind = "context_block_set"
    <2>1. Tell(ctx, p) = [ctx EXCEPT !.text[p.name] = <<p.value>>]
      BY <1>3 DEF Tell
    <2>2. <<p.value>> \in Seq(Values)
      BY <1>0
    <2> HIDE DEF Stories
    <2>3. [ctx EXCEPT !.text[p.name] = <<p.value>>] \in Stories
      <3> DEFINE text == <<p.value>>
      <3>1. text \in Seq(Values)
        BY <2>2
      <3> HIDE DEF text
      <3>2. [ctx EXCEPT !.text[p.name] = text] \in Stories
        BY <1>0, <3>1 DEF Stories
      <3> QED BY <3>2 DEF text
    <2> QED BY <1>3, <2>1, <2>3
  <1>4. CASE p.kind = "context_block_append"
    <2>1. Tell(ctx, p) = [ctx EXCEPT !.text[p.name] = Append(ctx.text[p.name], p.value)]
      BY <1>4 DEF Tell
    <2>2. p.name \in Blocks
      BY <1>4 DEF Fit, VariableKind
    <2>3. Append(ctx.text[p.name], p.value) \in Seq(Values)
      BY <1>0, <2>2
    <2> QED BY <1>0, <1>4, <2>1, <2>3 DEF Stories
  <1>5. CASE p.kind = "context_block_delete"
    <2>1. Tell(ctx, p) = [ctx EXCEPT !.text[p.name] = <<>>]
      BY <1>5 DEF Tell
    <2>2. [ctx EXCEPT !.text[p.name] = <<>>] \in Stories
      <3> DEFINE text == <<>>
      <3>1. text \in Seq(Values)
        OBVIOUS
      <3> HIDE DEF text
      <3>2. [ctx EXCEPT !.text[p.name] = text] \in Stories
        BY <1>0, <3>1 DEF Stories
      <3> QED BY <3>2 DEF text
    <2> QED BY <1>5, <2>1, <2>2
  <1>6. p.kind \in {"variable_set", "variable_delete", "context_block_set",
                    "context_block_append", "context_block_delete"}
    BY DEF Fit, VariableKind, BlockKind
  <1> QED BY <1>1, <1>2, <1>3, <1>4, <1>5, <1>6

(* The contexts after the first m patches, one after the other.             *)
Chapters(m, ctx, patches) ==
  {g \in [0..m -> Stories] : g[0] = ctx /\ \A n \in 1..m : g[n] = Tell(g[n - 1], patches[n])}

(* They exist.                                                              *)
LEMMA ChaptersExist ==
  ASSUME NEW ctx \in Stories, NEW patches \in Seq(Fit)
  PROVE  Chapters(Len(patches), ctx, patches) # {}
  <1> DEFINE L == Len(patches)
             Bad == {m \in 0..L : Chapters(m, ctx, patches) = {}}
  <1>1. L \in Nat
    OBVIOUS
  <1>2. Bad = {}
    <2>1. SUFFICES ASSUME Bad # {} PROVE FALSE
      OBVIOUS
    <2>2. Bad \subseteq Nat
      BY <1>1
    <2>3. PICK m \in Bad : \A n \in Bad : m =< n
      BY <2>1, <2>2, LeastNumber
    <2>4. m \in 0..L /\ Chapters(m, ctx, patches) = {}
      OBVIOUS
    <2>5. CASE m = 0
      <3> DEFINE g == [n \in 0..0 |-> ctx]
      <3>1. g \in [0..0 -> Stories] /\ g[0] = ctx
        OBVIOUS
      <3> HIDE DEF g
      <3>2. g \in Chapters(0, ctx, patches)
        BY <3>1 DEF Chapters
      <3> QED BY <2>4, <2>5, <3>2
    <2>6. CASE m # 0
      <3>1. m - 1 \in 0..L /\ m - 1 \notin Bad /\ m \in 1..L
        BY <1>1, <2>3, <2>4, <2>6
      <3>2. PICK g : g \in Chapters(m - 1, ctx, patches)
        BY <3>1
      <3>3. /\ g \in [0..m - 1 -> Stories] /\ g[0] = ctx
            /\ \A n \in 1..(m - 1) : g[n] = Tell(g[n - 1], patches[n])
        BY <3>2 DEF Chapters
      <3> DEFINE new == Tell(g[m - 1], patches[m])
                 h == [n \in 0..m |-> IF n < m THEN g[n] ELSE new]
      <3>4. g[m - 1] \in Stories /\ patches[m] \in Fit
        BY <1>1, <3>1, <3>3
      <3>5. new \in Stories
        BY <3>4, TellTyped
      <3> HIDE DEF new
      <3>6. /\ h \in [0..m -> Stories]
            /\ \A n \in 0..(m - 1) : h[n] = g[n]
            /\ h[m] = new
        BY <3>1, <3>3, <3>5
      <3> HIDE DEF h
      <3>7. \A n \in 1..m : h[n] = Tell(h[n - 1], patches[n])
        <4> SUFFICES ASSUME NEW n \in 1..m PROVE h[n] = Tell(h[n - 1], patches[n])
          OBVIOUS
        <4>1. h[n - 1] = g[n - 1]
          BY <3>1, <3>6
        <4>2. CASE n = m
          BY <3>6, <4>1, <4>2 DEF new
        <4>3. CASE n # m
          <5>1. n \in 1..(m - 1) /\ h[n] = g[n]
            BY <3>1, <3>6, <4>3
          <5> QED BY <3>3, <4>1, <5>1
        <4> QED BY <4>2, <4>3
      <3>8. h[0] = ctx
        BY <3>1, <3>3, <3>6
      <3>9. h \in Chapters(m, ctx, patches)
        BY <3>6, <3>7, <3>8 DEF Chapters
      <3> QED BY <2>4, <3>9
    <2> QED BY <2>5, <2>6
  <1> QED BY <1>1, <1>2

(* Two accounts of the same patches are the same.                           *)
LEMMA StoryUnique ==
  ASSUME NEW ctx \in Stories, NEW patches \in Seq(Fit), NEW g, Story(g, ctx, patches),
         NEW h \in Chapters(Len(patches), ctx, patches)
  PROVE  \A n \in 0..Len(patches) : g[n] = h[n]
  <1> DEFINE L == Len(patches)
             Bad == {m \in 0..L : g[m] # h[m]}
  <1>1. L \in Nat
    OBVIOUS
  <1>2. /\ h[0] = ctx /\ \A n \in 1..L : h[n] = Tell(h[n - 1], patches[n])
    BY DEF Chapters
  <1>3. \A n \in 0..L : g[n] = IF n = 0 THEN ctx ELSE Tell(g[n - 1], patches[n])
    BY DEF Story
  <1>4. Bad = {}
    <2>1. SUFFICES ASSUME Bad # {} PROVE FALSE
      OBVIOUS
    <2>2. Bad \subseteq Nat
      BY <1>1
    <2>3. PICK m \in Bad : \A n \in Bad : m =< n
      BY <2>1, <2>2, LeastNumber
    <2>4. m \in 0..L /\ g[m] # h[m]
      OBVIOUS
    <2>5. m # 0
      BY <1>2, <1>3, <2>4
    <2>6. m - 1 \in 0..L /\ m - 1 \notin Bad /\ m \in 1..L
      BY <1>1, <2>3, <2>4, <2>5
    <2>7. g[m - 1] = h[m - 1]
      BY <2>6
    <2>8. g[m] = Tell(g[m - 1], patches[m]) /\ h[m] = Tell(h[m - 1], patches[m])
      BY <1>2, <1>3, <2>4, <2>5, <2>6
    <2> QED BY <2>4, <2>7, <2>8
  <1> QED BY <1>4

(* The tale that ToldBy tells.                                              *)
LEMMA TaleTyped ==
  ASSUME NEW ctx \in Stories, NEW patches \in Seq(Fit)
  PROVE  LET g == TaleOf(ctx, patches)
         IN  /\ g \in [0..Len(patches) -> Stories] /\ g[0] = ctx
             /\ \A n \in 1..Len(patches) : g[n] = Tell(g[n - 1], patches[n])
             /\ ToldBy(ctx, patches) = g[Len(patches)]
  <1> DEFINE L == Len(patches)
             g == TaleOf(ctx, patches)
  <1>1. PICK h : h \in Chapters(L, ctx, patches)
    BY ChaptersExist
  <1>2. /\ h \in [0..L -> Stories] /\ h[0] = ctx
        /\ \A n \in 1..L : h[n] = Tell(h[n - 1], patches[n])
    BY <1>1 DEF Chapters
  <1>3. L \in Nat
    OBVIOUS
  <1>4. Story(h, ctx, patches)
    <2>1. h = [n \in 0..L |-> h[n]]
      BY <1>2
    <2>2. \A n \in 0..L : h[n] = IF n = 0 THEN ctx ELSE Tell(h[n - 1], patches[n])
      <3> SUFFICES ASSUME NEW n \in 0..L, n # 0
                   PROVE  h[n] = Tell(h[n - 1], patches[n])
        BY <1>2
      <3>1. n \in 1..L
        BY <1>3
      <3> QED BY <1>2, <3>1
    <2> QED BY <2>1, <2>2 DEF Story
  <1>5. Story(g, ctx, patches)
    BY <1>4, Zenon DEF TaleOf
  <1>6. \A n \in 0..L : g[n] = h[n]
    <2> HIDE DEF g
    <2> QED BY <1>1, <1>5, StoryUnique
  <1>7. g \in [0..L -> Stories]
    <2>1. g = [n \in 0..L |-> g[n]]
      BY <1>5 DEF Story
    <2> HIDE DEF g
    <2> QED BY <1>2, <1>6, <2>1
  <1>8. ToldBy(ctx, patches) = g[L]
    BY Zenon DEF ToldBy, TaleOf, Story
  <1> HIDE DEF g
  <1>9. g[0] = ctx /\ \A n \in 1..L : g[n] = Tell(g[n - 1], patches[n])
    <2>1. \A n \in 1..L : n \in 0..L /\ n - 1 \in 0..L
      BY <1>3
    <2> QED BY <1>2, <1>3, <1>6, <2>1
  <1> QED BY <1>7, <1>8, <1>9 DEF g

(* What a context says of a block when the files are f.                     *)
TextIn(f, ctx, b) ==
  IF b \in ctx.initial THEN InitialText[b]
  ELSE IF ctx.block[b] = 0 THEN <<>> ELSE f[b][ctx.block[b]]

(* A context, with the files f, is as the tale tells.                       *)
Recorded(f, ctx, tale) ==
  /\ ctx.var = tale.var
  /\ \A b \in Blocks : ctx.block[b] =< Len(f[b]) /\ TextIn(f, ctx, b) = tale.text[b]

(* A block has gone back to its first version: this report has deleted it.  *)
Deleted(b) == \E i \in 1..next.done : /\ Report.patches[i].kind = "context_block_delete"
                                      /\ Report.patches[i].name = b

(* The draft of `next` is what its patches so far make of the context, and  *)
(* the versions that state.json names are behind it.                        *)
Drafted ==
  /\ next.at \in {"outputs", "patches"} => next.done = 0
  /\ next.at = "patching" =>
       /\ Report.patches \in Seq(Fit)
       /\ next.done \in 0..Len(Report.patches)
       /\ next.draft \in Contexts
       /\ Recorded(file, next.draft, TaleOf(told, Report.patches)[next.done])
       /\ \A b \in Blocks : context.block[b] =< next.draft.block[b] \/ Deleted(b)

ContextInv ==
  /\ context \in Contexts /\ told \in Stories /\ file \in [Blocks -> Seq(Seq(Values))]
  /\ Recorded(file, context, told)
  /\ Drafted

(* A step that touches neither the context nor its files, nor a draft.      *)
LEMMA ContextRests ==
  ASSUME ContextInv, UNCHANGED <<context, file, told>>,
         \/ next' = next
         \/ next'.at \in {"idle", "dispatch"}
         \/ next'.at \in {"outputs", "patches"} /\ next'.done = 0
  PROVE  ContextInv'
  <1>1. CASE next' = next
    BY <1>1 DEF ContextInv, Drafted, Deleted, Report
  <1>2. CASE next' # next
    BY <1>2 DEF ContextInv, Drafted
  <1> QED BY <1>1, <1>2

(* The report's contract and patches have their types.                      *)
LEMMA ReportTyped ==
  ASSUME HandInv, next.at # "idle"
  PROVE  /\ Declares(ContractNow) /\ Report.shaped
         /\ Report.patches \in Seq(ContextPatch)
         /\ NoRewrittenBlock =>
              \A i, n \in 1..Len(Report.patches) :
                /\ i < n /\ Report.patches[i].kind = "context_block_delete"
                /\ Report.patches[n].kind \in {"context_block_set", "context_block_append"}
                => Report.patches[i].name # Report.patches[n].name
  <1> DEFINE j == next.job
             k == StepNow(j)
  <1>1. /\ j \in Jobs /\ next.key[3] = k /\ IsAgent(j)
        /\ Report \in Written[j][k] /\ Acceptable(j, ContractNow, Report)
    BY DEF HandInv, Reading, Key
  <1>2. state.job[j] \in RecordOf(j)
    BY <1>1, StateParts DEF HandInv, RoutingTypes
  <1>3. k \in 1..Steps[j] /\ StepKind[j][k] = "agent"
    BY <1>1, <1>2, RecordParts DEF IsAgent, StepNow
  <1>4. ContractNow = Contract[j][k] /\ Report.shaped
    BY <1>1 DEF ContractNow, Acceptable, Fulfils
  <1> HIDE DEF k, j
  <1> QED BY <1>1, <1>3, <1>4, ReportsAssumption DEF NoRewrittenBlock

(* What is permitted fits.                                                  *)
LEMMA PermittedFits ==
  ASSUME NEW c, Declares(c), NEW p \in ContextPatch, Permitted(c, p)
  PROVE  p \in Fit
  <1>1. c.vars \subseteq Vars /\ c.blocks \subseteq Blocks
    BY DEF Declares
  <1>2. \/ p.kind \in VariableKind /\ p.name \in Vars
        \/ p.kind \in BlockKind /\ p.name \in Blocks
    BY <1>1 DEF Permitted
  <1> QED BY <1>2 DEF ContextPatch, Fit

(* The draft begins as the context.                                         *)
LEMMA DraftBegins ==
  ASSUME HandInv, ContextInv, PatchesRead
  PROVE  ContextInv'
  <1> DEFINE ps == Report.patches
  <1>1. /\ context' = context /\ file' = file /\ told' = told
        /\ next' = [next EXCEPT !.at = "patching", !.draft = context]
        /\ next.at = "patches" /\ next.done = 0
    BY DEF PatchesRead, Doing, data, history, ContextInv, Drafted
  <1>2. /\ next'.at = "patching" /\ next'.draft = context /\ next'.done = 0
        /\ next'.report = next.report
    BY <1>1 DEF HandInv, Reading
  <1>3. ps \in Seq(ContextPatch) /\ Declares(ContractNow)
    BY <1>1, ReportTyped
  <1>4. \A i \in 1..Len(ps) : Permitted(ContractNow, ps[i])
    <2>1. ps = <<>> => 1..Len(ps) = {}
      OBVIOUS
    <2> QED BY <1>3, <2>1 DEF PatchesRead
  <1>5. \A i \in 1..Len(ps) : ps[i] \in Fit
    BY <1>3, <1>4, PermittedFits
  <1>6. ps \in Seq(Fit)
    <2> HIDE DEF ps
    <2> QED BY <1>3, <1>5
  <1>7. TaleOf(told, ps)[0] = told
    BY <1>6, TaleTyped DEF ContextInv
  <1>8. context \in Contexts /\ Recorded(file, context, told) /\ Len(ps) \in Nat
    BY <1>6 DEF ContextInv
  <1>9. Report' = Report
    BY <1>2 DEF Report
  <1>10. Drafted'
    <2>1. \A b \in Blocks : context.block[b] =< context.block[b]
      BY <1>8 DEF Contexts
    <2> QED BY <1>1, <1>2, <1>6, <1>7, <1>8, <1>9, <2>1 DEF Drafted
  <1> QED BY <1>1, <1>10 DEF ContextInv

(* The patch at hand, and what the tale makes of it.                        *)
LEMMA PatchAtHand ==
  ASSUME ContextInv, next.at = "patching", next.done < Len(Report.patches)
  PROVE  LET tale == TaleOf(told, Report.patches)
         IN  /\ Patch \in Fit
             /\ tale[next.done] \in Stories
             /\ tale[next.done + 1] = Tell(tale[next.done], Patch)
             /\ next.done + 1 \in 1..Len(Report.patches) /\ next.done \in Nat
             /\ Recorded(file, next.draft, tale[next.done])
             /\ next.draft \in Contexts
  <1> DEFINE ps == Report.patches
             tale == TaleOf(told, ps)
  <1>1. /\ ps \in Seq(Fit) /\ next.done \in 0..Len(ps) /\ told \in Stories
        /\ Recorded(file, next.draft, tale[next.done]) /\ next.draft \in Contexts
    BY DEF ContextInv, Drafted
  <1>2. Len(ps) \in Nat /\ next.done + 1 \in 1..Len(ps) /\ next.done \in Nat
    BY <1>1
  <1>3. ps[next.done + 1] \in Fit
    <2> HIDE DEF ps
    <2> QED BY <1>1, <1>2
  <1>4. /\ tale \in [0..Len(ps) -> Stories]
        /\ \A n \in 1..Len(ps) : tale[n] = Tell(tale[n - 1], ps[n])
    BY <1>1, TaleTyped
  <1> HIDE DEF tale
  <1>5. tale[next.done + 1] = Tell(tale[next.done + 1 - 1], ps[next.done + 1])
    BY <1>2, <1>4
  <1>6. next.done + 1 - 1 = next.done
    BY <1>2
  <1> QED BY <1>1, <1>2, <1>3, <1>4, <1>5, <1>6 DEF Patch, tale

(* The draft goes on by one patch.                                          *)
LEMMA DraftGoesOn ==
  ASSUME ContextInv, next.at = "patching", next.done < Len(Report.patches),
         UNCHANGED <<context, told>>, file' \in [Blocks -> Seq(Seq(Values))],
         next'.at = "patching", next'.report = next.report, next'.done = next.done + 1,
         next'.draft \in Contexts,
         Recorded(file', context, told),
         Recorded(file', next'.draft, Tell(TaleOf(told, Report.patches)[next.done], Patch)),
         \A b \in Blocks : \/ context.block[b] =< next'.draft.block[b]
                           \/ Deleted(b)
                           \/ Patch.kind = "context_block_delete" /\ Patch.name = b
  PROVE  ContextInv'
  <1>1. /\ TaleOf(told, Report.patches)[next.done + 1]
             = Tell(TaleOf(told, Report.patches)[next.done], Patch)
        /\ next.done + 1 \in 1..Len(Report.patches) /\ next.done \in Nat
    BY PatchAtHand
  <1>2. Report' = Report
    BY DEF Report
  <1>3. ASSUME NEW b \in Blocks
        PROVE  context.block[b] =< next'.draft.block[b] \/ Deleted(b)'
    <2>1. CASE Deleted(b)
      <3>1. PICK i \in 1..next.done : /\ Report.patches[i].kind = "context_block_delete"
                                      /\ Report.patches[i].name = b
        BY <2>1 DEF Deleted
      <3>2. i \in 1..next'.done
        BY <1>1
      <3> QED BY <1>2, <3>1, <3>2 DEF Deleted
    <2>2. CASE Patch.kind = "context_block_delete" /\ Patch.name = b
      <3>1. next.done + 1 \in 1..next'.done
        BY <1>1
      <3> QED BY <1>2, <2>2, <3>1 DEF Deleted, Patch
    <2> QED BY <2>1, <2>2
  <1>4. Report.patches \in Seq(Fit)
    BY DEF ContextInv, Drafted
  <1>5. next'.done \in 0..Len(Report.patches)
    BY <1>1
  <1>6. Recorded(file', next'.draft, TaleOf(told, Report.patches)[next'.done])
    BY <1>1
  <1>7. Drafted'
    BY <1>2, <1>3, <1>4, <1>5, <1>6 DEF Drafted
  <1> QED BY <1>7 DEF ContextInv

(* A patch of a variable.                                                   *)
LEMMA VariableKeeps ==
  ASSUME HandInv, ContextInv, PatchVariable
  PROVE  ContextInv'
  <1> DEFINE d == next.draft
             tale == TaleOf(told, Report.patches)[next.done]
             v == IF Patch.kind = "variable_set" THEN Patch.value ELSE NoReport
             new == [d EXCEPT !.var[Patch.name] = v]
  <1>1. /\ next.at = "patching" /\ next.done < Len(Report.patches) /\ Patch.kind \in VariableKind
        /\ context' = context /\ file' = file /\ told' = told
        /\ next' = [next EXCEPT !.done = @ + 1, !.draft.var[Patch.name] = v]
    BY DEF PatchVariable, Patching, Doing, data, history
  <1>2. /\ Patch \in Fit /\ tale \in Stories /\ Recorded(file, d, tale) /\ d \in Contexts
    BY <1>1, PatchAtHand
  <1>3. /\ next'.at = "patching" /\ next'.report = next.report /\ next'.done = next.done + 1
        /\ next'.draft = new
    <2> HIDE DEF v
    <2> QED BY <1>1 DEF HandInv, Reading
  <1>4. v \in Values \cup {NoReport}
    BY <1>2 DEF Fit
  <1> HIDE DEF d, tale
  <1>5. /\ new \in Contexts /\ new.block = d.block /\ new.initial = d.initial
        /\ new.var = [d.var EXCEPT ![Patch.name] = v]
    BY <1>2, <1>4 DEF Contexts
  <1>6. Tell(tale, Patch) = [tale EXCEPT !.var[Patch.name] = v]
    BY <1>1, <1>2, TellTyped DEF VariableKind
  <1>7. /\ Tell(tale, Patch).text = tale.text
        /\ Tell(tale, Patch).var = [tale.var EXCEPT ![Patch.name] = v]
    BY <1>2, <1>6 DEF Stories
  <1>8. Recorded(file, new, Tell(tale, Patch))
    BY <1>2, <1>5, <1>7 DEF Recorded, TextIn
  <1>9. \A b \in Blocks : context.block[b] =< new.block[b] \/ Deleted(b)
    BY <1>1, <1>5 DEF ContextInv, Drafted, d
  <1>10. Recorded(file, context, told) /\ file' \in [Blocks -> Seq(Seq(Values))]
    BY <1>1 DEF ContextInv
  <1> HIDE DEF new
  <1> QED BY <1>1, <1>3, <1>5, <1>8, <1>9, <1>10, DraftGoesOn DEF tale, new

(* A block is deleted.                                                      *)
LEMMA DeleteKeeps ==
  ASSUME HandInv, ContextInv, PatchBlockDelete
  PROVE  ContextInv'
  <1> DEFINE d == next.draft
             tale == TaleOf(told, Report.patches)[next.done]
             new == [d EXCEPT !.block[Patch.name] = 0, !.initial = d.initial \ {Patch.name}]
  <1>1. /\ next.at = "patching" /\ next.done < Len(Report.patches)
        /\ Patch.kind = "context_block_delete"
        /\ context' = context /\ file' = file /\ told' = told
        /\ next' = [next EXCEPT !.done = @ + 1, !.draft.block[Patch.name] = 0,
                                  !.draft.initial = @ \ {Patch.name}]
    BY DEF PatchBlockDelete, Patching, Doing, data, history
  <1>2. /\ Patch \in Fit /\ tale \in Stories /\ Recorded(file, d, tale) /\ d \in Contexts
    BY <1>1, PatchAtHand
  <1>3. /\ next'.at = "patching" /\ next'.report = next.report /\ next'.done = next.done + 1
        /\ next'.draft = new
    BY <1>1 DEF HandInv, Reading
  <1>a. Patch.name \in Blocks
    BY <1>1, <1>2 DEF Fit, VariableKind
  <1> HIDE DEF d, tale
  <1>5. /\ new \in Contexts /\ new.var = d.var /\ new.block = [d.block EXCEPT ![Patch.name] = 0]
        /\ new.initial = d.initial \ {Patch.name}
    BY <1>2 DEF Contexts
  <1>6. Tell(tale, Patch) = [tale EXCEPT !.text[Patch.name] = <<>>]
    BY <1>1, <1>2, TellTyped
  <1>7. /\ Tell(tale, Patch).var = tale.var
        /\ Tell(tale, Patch).text = [tale.text EXCEPT ![Patch.name] = <<>>]
    BY <1>2, <1>6 DEF Stories
  <1>b. d.block \in [Blocks -> Nat] /\ tale.text \in [Blocks -> Seq(Values)]
        /\ file \in [Blocks -> Seq(Seq(Values))]
    BY <1>2 DEF Contexts, Stories, ContextInv
  <1>8. Recorded(file, new, Tell(tale, Patch))
    <2> SUFFICES ASSUME NEW b \in Blocks
                 PROVE  /\ new.block[b] =< Len(file[b])
                        /\ TextIn(file, new, b) = Tell(tale, Patch).text[b]
      BY <1>2, <1>5, <1>7 DEF Recorded
    <2>1. CASE b = Patch.name
      <3>1. new.block[b] = 0 /\ b \notin new.initial /\ Tell(tale, Patch).text[b] = <<>>
        BY <1>5, <1>7, <1>b, <2>1
      <3>2. Len(file[b]) \in Nat
        BY <1>b
      <3> QED BY <3>1, <3>2 DEF TextIn
    <2>2. CASE b # Patch.name
      <3>1. /\ new.block[b] = d.block[b] /\ Tell(tale, Patch).text[b] = tale.text[b]
            /\ b \in new.initial <=> b \in d.initial
        BY <1>5, <1>7, <1>b, <2>2
      <3> QED BY <1>2, <3>1 DEF Recorded, TextIn
    <2> QED BY <2>1, <2>2
  <1>9. \A b \in Blocks : context.block[b] =< new.block[b] \/ Deleted(b) \/ Patch.name = b
    BY <1>1, <1>5, <1>b DEF ContextInv, Drafted, d
  <1>10. Recorded(file, context, told) /\ file' \in [Blocks -> Seq(Seq(Values))]
    BY <1>1 DEF ContextInv
  <1> HIDE DEF new
  <1> QED BY <1>1, <1>3, <1>5, <1>8, <1>9, <1>10, DraftGoesOn DEF tale, new

(* A block's files with one more, or one written over.                      *)
OneWritten(files, version, text, w) ==
  /\ w \in Seq(Seq(Values)) /\ Len(files) =< Len(w) /\ version =< Len(w)
  /\ w[version] = text
  /\ \A n \in 1..Len(files) : n # version => w[n] = files[n]

(* WithFile writes the one version and keeps the others.                    *)
LEMMA WithFileTyped ==
  ASSUME NEW files \in Seq(Seq(Values)), NEW version \in 1..(Len(files) + 1),
         NEW text \in Seq(Values)
  PROVE  OneWritten(files, version, text, WithFile(files, version, text))
  <1> DEFINE L == Len(files)
             M == IF version > L THEN version ELSE L
             S == Seq(Values)
             w == WithFile(files, version, text)
  <1>0. files \in Seq(S) /\ text \in S
    OBVIOUS
  <1>1. /\ L \in Nat /\ M \in Nat /\ L =< M /\ version \in 1..M
        /\ \A n \in 1..M : n # version => n \in 1..L
    OBVIOUS
  <1>2. \A n \in 1..L : files[n] \in S
    OBVIOUS
  <1>3. w = [n \in 1..M |-> IF n = version THEN text ELSE files[n]]
    BY DEF WithFile
  <1> HIDE DEF M, L, S, w
  <1>4. /\ w \in [1..M -> S] /\ w[version] = text
        /\ \A n \in 1..L : n # version => w[n] = files[n]
    <2> DEFINE new(n) == IF n = version THEN text ELSE files[n]
    <2>1. \A n \in 1..M : new(n) \in S
      BY <1>0, <1>1, <1>2
    <2>2. \A n \in 1..L : n \in 1..M
      BY <1>1
    <2>3. new(version) = text /\ \A n \in 1..L : n # version => new(n) = files[n]
      OBVIOUS
    <2>4. w = [n \in 1..M |-> new(n)]
      BY <1>3
    <2> HIDE DEF new
    <2> QED BY <1>1, <2>1, <2>2, <2>3, <2>4
  <1>5. w \in Seq(S) /\ Len(w) = M
    BY <1>1, <1>4
  <1> QED BY <1>1, <1>4, <1>5 DEF L, S, w, OneWritten

(* A new version of a block is written to a file of its own.                *)
LEMMA BlockKeeps ==
  ASSUME NoRewrittenBlock, HandInv, ContextInv, PatchBlock
  PROVE  ContextInv'
  <1> DEFINE d == next.draft
             tale == TaleOf(told, Report.patches)[next.done]
             name == Patch.name
             version == d.block[name] + 1
             before == IF Patch.kind = "context_block_append" THEN Text(d, name) ELSE <<>>
             text == Append(before, Patch.value)
             new == [d EXCEPT !.block[name] = version, !.initial = d.initial \ {name}]
  <1>1. /\ next.at = "patching" /\ next.done < Len(Report.patches)
        /\ Patch.kind \in {"context_block_set", "context_block_append"}
        /\ context' = context /\ told' = told
        /\ file' = [file EXCEPT ![name] = WithFile(file[name], version, text)]
        /\ next' = [next EXCEPT !.done = @ + 1, !.draft.block[name] = version,
                                  !.draft.initial = @ \ {name}]
    BY DEF PatchBlock, Patching, Doing, history
  <1>2. /\ Patch \in Fit /\ tale \in Stories /\ Recorded(file, d, tale) /\ d \in Contexts
        /\ next.done + 1 \in 1..Len(Report.patches) /\ next.done \in Nat
    BY <1>1, PatchAtHand
  <1>3. /\ next'.at = "patching" /\ next'.report = next.report /\ next'.done = next.done + 1
        /\ next'.draft = new
    <2> HIDE DEF version
    <2> QED BY <1>1 DEF HandInv, Reading
  <1>a. name \in Blocks /\ Patch.value \in Values
    BY <1>1, <1>2 DEF Fit, VariableKind
  <1>b. ~Deleted(name)
    <2> SUFFICES ASSUME NEW i \in 1..next.done,
                        Report.patches[i].kind = "context_block_delete",
                        Report.patches[i].name = name
                 PROVE  FALSE
      BY DEF Deleted
    <2>1. /\ i \in 1..Len(Report.patches) /\ next.done + 1 \in 1..Len(Report.patches)
          /\ i < next.done + 1
      BY <1>2
    <2> DEFINE n == next.done + 1
    <2>2. Report.patches[i].name # Report.patches[n].name
      <3>1. Report.patches[n].kind \in {"context_block_set", "context_block_append"}
        BY <1>1 DEF Patch
      <3>2. next.at # "idle"
        BY <1>1
      <3> HIDE DEF n
      <3> QED BY <2>1, <3>1, <3>2, ReportTyped DEF n
    <2> QED BY <2>2 DEF Patch
  <1>c. /\ d.block \in [Blocks -> Nat] /\ tale.text \in [Blocks -> Seq(Values)]
        /\ file \in [Blocks -> Seq(Seq(Values))] /\ context.block \in [Blocks -> Nat]
    BY <1>2 DEF Contexts, Stories, ContextInv
  <1>d. context.block[name] =< d.block[name] /\ d.block[name] =< Len(file[name])
    BY <1>1, <1>2, <1>a, <1>b DEF ContextInv, Drafted, Recorded
  <1>e. version \in 1..(Len(file[name]) + 1) /\ version \in Nat
    <2>1. d.block[name] \in Nat /\ Len(file[name]) \in Nat
      BY <1>a, <1>c
    <2> QED BY <1>d, <2>1
  <1>f. Text(d, name) = tale.text[name] /\ tale.text[name] \in Seq(Values)
    BY <1>2, <1>a, <1>c DEF Recorded, TextIn, Text
  <1>g. before \in Seq(Values) /\ text \in Seq(Values)
    <2>1. before \in Seq(Values)
      BY <1>f
    <2> HIDE DEF before
    <2> QED BY <1>a, <2>1
  <1>h. /\ Tell(tale, Patch).var = tale.var
        /\ Tell(tale, Patch).text = [tale.text EXCEPT ![name] = text]
    <2>1. CASE Patch.kind = "context_block_set"
      <3>1. Tell(tale, Patch) = [tale EXCEPT !.text[name] = <<Patch.value>>]
        BY <1>2, <2>1, TellTyped
      <3>2. text = <<Patch.value>>
        <4>1. before = <<>>
          BY <2>1
        <4> HIDE DEF before
        <4> QED BY <4>1, <1>a
      <3> QED BY <1>2, <3>1, <3>2 DEF Stories
    <2>2. CASE Patch.kind = "context_block_append"
      <3>1. Tell(tale, Patch) = [tale EXCEPT !.text[name] = Append(tale.text[name], Patch.value)]
        BY <1>2, <2>2, TellTyped
      <3>2. text = Append(tale.text[name], Patch.value)
        BY <1>f, <2>2
      <3> HIDE DEF text
      <3> QED BY <1>2, <3>1, <3>2 DEF Stories
    <2> QED BY <1>1, <2>1, <2>2
  <1> HIDE DEF text, before, version, d, tale, name
  <1> DEFINE w == WithFile(file[name], version, text)
  <1>4. /\ w \in Seq(Seq(Values)) /\ Len(file[name]) =< Len(w) /\ version =< Len(w)
        /\ w[version] = text
        /\ \A n \in 1..Len(file[name]) : n # version => w[n] = file[name][n]
    <2>1. file[name] \in Seq(Seq(Values))
      BY <1>a, <1>c
    <2> HIDE DEF w
    <2>2. w = WithFile(file[name], version, text)
      BY DEF w
    <2>3. OneWritten(file[name], version, text, w)
      BY <1>e, <1>g, <2>1, <2>2, WithFileTyped
    <2> QED BY <2>3 DEF OneWritten
  <1>5. file' \in [Blocks -> Seq(Seq(Values))] /\ file'[name] = w
        /\ \A b \in Blocks \ {name} : file'[b] = file[b]
    <2> HIDE DEF w
    <2>1. file' = [file EXCEPT ![name] = w]
      BY <1>1 DEF w
    <2> QED BY <1>a, <1>c, <1>4, <2>1
  <1>6. /\ new \in Contexts /\ new.var = d.var /\ new.block = [d.block EXCEPT ![name] = version]
        /\ new.initial = d.initial \ {name}
    BY <1>2, <1>e DEF Contexts
  <1> HIDE DEF w, new
  <1>7. Recorded(file', context, told)
    <2> SUFFICES ASSUME NEW b \in Blocks
                 PROVE  /\ context.block[b] =< Len(file'[b])
                        /\ TextIn(file', context, b) = told.text[b]
      BY DEF Recorded, ContextInv
    <2>1. context.block[b] =< Len(file[b]) /\ TextIn(file, context, b) = told.text[b]
      BY DEF ContextInv, Recorded
    <2>2. CASE b # name
      BY <1>5, <2>1, <2>2 DEF TextIn
    <2>3. CASE b = name
      <3>1. context.block[b] \in Nat /\ Len(file[b]) \in Nat /\ Len(w) \in Nat
            /\ d.block[name] \in Nat
        BY <1>a, <1>c, <1>4
      <3>2. context.block[b] =< Len(w)
        BY <1>4, <2>1, <2>3, <3>1
      <3>3. context.block[b] # version
        BY <1>d, <2>3, <3>1 DEF version
      <3>4. context.block[b] # 0 => w[context.block[b]] = file[b][context.block[b]]
        <4>1. context.block[b] # 0 => context.block[b] \in 1..Len(file[name])
          BY <2>1, <2>3, <3>1
        <4> QED BY <1>4, <2>3, <3>3, <4>1
      <3> QED BY <1>5, <2>1, <2>3, <3>2, <3>4 DEF TextIn
    <2> QED BY <2>2, <2>3
  <1>8. Recorded(file', new, Tell(tale, Patch))
    <2> SUFFICES ASSUME NEW b \in Blocks
                 PROVE  /\ new.block[b] =< Len(file'[b])
                        /\ TextIn(file', new, b) = Tell(tale, Patch).text[b]
      BY <1>2, <1>6, <1>h DEF Recorded
    <2>1. CASE b = name
      <3>1. /\ new.block[b] = version /\ Tell(tale, Patch).text[b] = text /\ version # 0
            /\ b \notin new.initial
        BY <1>6, <1>a, <1>c, <1>e, <1>h, <2>1
      <3> QED BY <1>4, <1>5, <2>1, <3>1 DEF TextIn
    <2>2. CASE b # name
      <3>1. /\ new.block[b] = d.block[b] /\ Tell(tale, Patch).text[b] = tale.text[b]
            /\ b \in new.initial <=> b \in d.initial
        BY <1>6, <1>c, <1>h, <2>2
      <3>2. d.block[b] =< Len(file[b]) /\ TextIn(file, d, b) = tale.text[b]
        BY <1>2 DEF Recorded
      <3> QED BY <1>5, <2>2, <3>1, <3>2 DEF TextIn
    <2> QED BY <2>1, <2>2
  <1>9. \A b \in Blocks : context.block[b] =< new.block[b] \/ Deleted(b)
    <2> SUFFICES ASSUME NEW b \in Blocks PROVE context.block[b] =< new.block[b] \/ Deleted(b)
      OBVIOUS
    <2>1. CASE b = name
      <3>1. new.block[b] = version /\ d.block[name] \in Nat /\ context.block[name] \in Nat
        BY <1>6, <1>a, <1>c, <2>1
      <3> QED BY <1>d, <2>1, <3>1 DEF version
    <2>2. CASE b # name
      <3>1. new.block[b] = d.block[b]
        BY <1>6, <1>c, <2>2
      <3> QED BY <1>1, <3>1 DEF ContextInv, Drafted, d
    <2> QED BY <2>1, <2>2
  <1> QED BY <1>1, <1>3, <1>5, <1>6, <1>7, <1>8, <1>9, DraftGoesOn DEF tale, new

(* The draft replaces the context when all patches are in it.               *)
LEMMA CommitKeeps ==
  ASSUME HandInv, ContextInv, PatchesCommit
  PROVE  ContextInv'
  <1> DEFINE ps == Report.patches
  <1>1. /\ next.at = "patching" /\ next.done = Len(ps)
        /\ context' = next.draft /\ told' = ToldBy(told, ps) /\ file' = file
        /\ next' = [next EXCEPT !.at = "dispatch"]
    BY DEF PatchesCommit, Doing
  <1>2. /\ ps \in Seq(Fit) /\ next.draft \in Contexts /\ told \in Stories
        /\ Recorded(file, next.draft, TaleOf(told, ps)[next.done])
        /\ file \in [Blocks -> Seq(Seq(Values))]
    BY <1>1 DEF ContextInv, Drafted
  <1>3. /\ TaleOf(told, ps) \in [0..Len(ps) -> Stories]
        /\ ToldBy(told, ps) = TaleOf(told, ps)[Len(ps)]
    BY <1>2, TaleTyped
  <1>4. Len(ps) \in 0..Len(ps)
    BY <1>2
  <1>5. told' \in Stories /\ Recorded(file, context', told')
    BY <1>1, <1>2, <1>3, <1>4
  <1>6. next'.at = "dispatch"
    BY <1>1 DEF HandInv, Reading
  <1>7. Drafted'
    BY <1>6 DEF Drafted
  <1> QED BY <1>1, <1>2, <1>5, <1>7 DEF ContextInv

(* Every step of a command keeps the context to what has been reported.     *)
LEMMA ContextSteps ==
  ASSUME NoRewrittenBlock, HandInv, ContextInv, ReportsNext
  PROVE  ContextInv'
  <1>1. ASSUME NEW j \in Jobs,
               \/ Prompt(j) \/ AgentWrites(j) \/ NextRead(j) \/ StepCommand(j)
               \/ StepCommandEnds(j) \/ Routed(j)
        PROVE  ContextInv'
    <2>1. /\ context' = context /\ file' = file /\ told' = told
          /\ \/ next' = next
             \/ next'.at = "outputs" /\ next'.done = 0
      <3>1. CASE NextRead(j)
        <4> DEFINE read == [NoNext EXCEPT !.at = "outputs", !.job = j, !.key = Key(j),
                                          !.report = report[Key(j)]]
        <4>1. read.at = "outputs" /\ read.done = 0
          BY DEF NoNext
        <4>2. /\ next' = read /\ UNCHANGED <<context, file, told>>
          BY <3>1 DEF NextRead, data, history
        <4> HIDE DEF read
        <4> QED BY <4>1, <4>2
      <3>2. CASE Prompt(j) \/ AgentWrites(j)
        BY <3>2 DEF Prompt, AgentWrites, data, history
      <3>3. CASE StepCommand(j) \/ StepCommandEnds(j) \/ Routed(j)
        BY <3>3 DEF StepCommand, StepCommandEnds, Routed, data, history
      <3> QED BY <1>1, <3>1, <3>2, <3>3
    <2> QED BY <2>1, ContextRests
  <1>2. CASE PersistOutputs \/ PatchesRefused \/ AcceptPlain \/ AcceptRoute \/ CrashCommand
    <2>1. /\ context' = context /\ file' = file /\ told' = told
      BY <1>2 DEF PersistOutputs, PatchesRefused, AcceptPlain, AcceptRoute, Dispatched,
                  CrashCommand, data, history
    <2>2. CASE PersistOutputs
      <3>1. next.at = "outputs" /\ next' = [next EXCEPT !.at = "patches"]
        BY <2>2 DEF PersistOutputs, Doing
      <3>2. next'.at = "patches" /\ next'.done = next.done
        BY <3>1 DEF HandInv, Reading
      <3> QED BY <2>1, <3>1, <3>2, ContextRests DEF ContextInv, Drafted
    <2>3. CASE PatchesRefused \/ AcceptPlain \/ AcceptRoute \/ CrashCommand
      <3>1. next'.at = "idle"
        BY <2>3 DEF PatchesRefused, AcceptPlain, AcceptRoute, Dispatched, CrashCommand, NoNext
      <3> QED BY <2>1, <3>1, ContextRests
    <2> QED BY <1>2, <2>2, <2>3
  <1> QED
    BY <1>1, <1>2, DraftBegins, VariableKeeps, BlockKeeps, DeleteKeeps, CommitKeeps
    DEF ReportsNext, NextCommand

(* Variables and the text of every context block are at all times what      *)
(* whole reports have made of them, for every contract and set of reports   *)
(* none of which writes a block that it has deleted, and wherever commands  *)
(* die between the files of a block and state.json.                         *)
THEOREM ContextKept ==
  ASSUME NoRewrittenBlock
  PROVE  CommandsSpec => []ContextIsReported
  <1>1. CommandsInit => ContextInv
    <2> SUFFICES ASSUME CommandsInit PROVE ContextInv
      OBVIOUS
    <2>1. /\ context = [var |-> InitialVar, block |-> [b \in Blocks |-> 0],
                        initial |-> DOMAIN InitialText]
          /\ told = [var |-> InitialVar,
                     text |-> [b \in Blocks |-> IF b \in DOMAIN InitialText
                                                THEN InitialText[b] ELSE <<>>]]
          /\ file = [b \in Blocks |-> <<>>] /\ next.at = "idle"
      BY DEF CommandsInit, ReportsInit, NoNext
    <2>2. <<>> \in Seq(Values) /\ <<>> \in Seq(Seq(Values)) /\ Len(<<>>) = 0
      OBVIOUS
    <2>3. context \in Contexts /\ told \in Stories /\ file \in [Blocks -> Seq(Seq(Values))]
      BY <2>1, <2>2, ReportsAssumption DEF Contexts, Stories
    <2>4. Recorded(file, context, told)
      BY <2>1, <2>2 DEF Recorded, TextIn
    <2> QED BY <2>1, <2>3, <2>4 DEF ContextInv, Drafted
  <1>2. HandInv /\ ContextInv /\ [CommandsNext]_commandVars => ContextInv'
    <2> SUFFICES ASSUME HandInv, ContextInv, [CommandsNext]_commandVars PROVE ContextInv'
      OBVIOUS
    <2>1. CASE GiveCommands
      BY <2>1, ContextSteps DEF GiveCommands
    <2>2. CASE CreateRuns \/ Open \/ UNCHANGED commandVars
      <3>1. context' = context /\ file' = file /\ told' = told /\ next' = next
        BY <2>2 DEF CreateRuns, Open, commandVars, handVars, data, history
      <3> QED BY <3>1, ContextRests
    <2> QED BY <2>1, <2>2 DEF CommandsNext
  <1>3. ContextInv => ContextIsReported
    BY DEF ContextInv, Recorded, TextIn, Text, ContextIsReported
  <1> QED BY <1>1, <1>2, <1>3, AlwaysByHand, PTL DEF CommandsSpec
=============================================================================
