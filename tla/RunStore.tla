------------------------------ MODULE RunStore ------------------------------
(***************************************************************************)
(* Creating runs under .zigma-flow/runs: reserveRunDirectory of            *)
(* src/run/index.ts and createRun of src/engine/index.ts, executed by      *)
(* several shells at once.                                                 *)
(*                                                                         *)
(* A run id is the number after its date prefix; all runs are of one day.  *)
(* What a run's files hold is abstracted to how far they are written.      *)
(***************************************************************************)
EXTENDS Naturals, FiniteSets

CONSTANTS
  Shells,        \* processes that each create a run
  MaxTries,      \* tries of reserveRunDirectory (100 in the code)
  DenialLimit,   \* denials of one candidate that are final (5 in the code)
  MaxMishaps     \* bound on crashes, removed runs and denied mkdirs

ASSUME RunStoreAssumption ==
  /\ MaxTries \in Nat \ {0}
  /\ DenialLimit \in Nat \ {0}
  /\ MaxMishaps \in Nat

VARIABLES
  dir,      \* per existing run, the last file written in its directory, and
            \* (history) the shells that wrote there
  shell,    \* what each shell is doing
  mishaps

storeVars == <<dir, shell, mishaps>>

Stage == {"empty", "run.yml", "events.jsonl", "state.json"}

Point == {"count", "mkdir", "load", "yml", "events", "state", "done", "failed", "dead"}

Writing == {"load", "yml", "events", "state"}

Ended == {"done", "failed", "dead"}

Started == [at |-> "count", id |-> 0, tries |-> 0, denied |-> 0, last |-> 0]

StoreInit ==
  /\ dir = [id \in {} |-> [stage |-> "empty", by |-> {}]]
  /\ shell = [s \in Shells |-> Started]
  /\ mishaps = 0

Existing == DOMAIN dir

Mishap == mishaps < MaxMishaps /\ mishaps' = mishaps + 1

MoveTo(s, point) == shell' = [shell EXCEPT ![s].at = point]

End(s, point) == shell' = [shell EXCEPT ![s] = [Started EXCEPT !.at = point]]

(* nextRunId: the number of directories, plus one.                          *)
Count(s) ==
  /\ shell[s].at = "count"
  /\ shell' = [shell EXCEPT ![s].at = "mkdir", ![s].id = Cardinality(Existing) + 1]
  /\ UNCHANGED <<dir, mishaps>>

(* Mutant: a recursive mkdir, as in createRunDirectory, finds no fault in a *)
(* directory that exists.                                                   *)
ReserveRecursively(s) ==
  LET id == shell[s].id
      by == IF id \in Existing THEN dir[id].by ELSE {}
  IN  /\ shell[s].at = "mkdir"
      /\ dir' = [i \in Existing \cup {id} |->
                   IF i = id THEN [stage |-> "empty", by |-> by \cup {s}] ELSE dir[i]]
      /\ MoveTo(s, "load")
      /\ UNCHANGED mishaps

(* The exclusive mkdir succeeds.                                            *)
Reserve(s) ==
  LET id == shell[s].id
  IN  /\ shell[s].at = "mkdir"
      /\ id \notin Existing
      /\ dir' = [i \in Existing \cup {id} |->
                   IF i = id THEN [stage |-> "empty", by |-> {s}] ELSE dir[i]]
      /\ MoveTo(s, "load")
      /\ UNCHANGED mishaps

(* Another try, or the end of them.                                         *)
TryAgain(s, denied) ==
  IF shell[s].tries + 1 = MaxTries \/ denied = DenialLimit
  THEN End(s, "failed")
  ELSE shell' = [shell EXCEPT ![s] =
                   [shell[s] EXCEPT !.at     = "count",
                                    !.tries  = shell[s].tries + 1,
                                    !.denied = denied,
                                    !.last   = shell[s].id]]

(* EEXIST: another shell has the candidate.                                 *)
Contended(s) ==
  /\ shell[s].at = "mkdir"
  /\ shell[s].id \in Existing
  /\ TryAgain(s, 0)
  /\ UNCHANGED <<dir, mishaps>>

(* EPERM: a pending delete of the candidate, or a real lack of permission.  *)
Denied(s) ==
  /\ shell[s].at = "mkdir"
  /\ Mishap
  /\ TryAgain(s, IF shell[s].id = shell[s].last THEN shell[s].denied + 1 ELSE 1)
  /\ UNCHANGED dir

(* The workflow is loaded once the directory is there: an invalid one       *)
(* leaves it empty.                                                         *)
Load(s) ==
  /\ shell[s].at = "load"
  /\ MoveTo(s, "yml") \/ End(s, "failed")
  /\ UNCHANGED <<dir, mishaps>>

Write(s, stage) ==
  dir' = [dir EXCEPT ![shell[s].id] = [stage |-> stage, by |-> @.by \cup {s}]]

(* The snapshots of skill lock and caller context, then run.yml.            *)
WriteYaml(s) ==
  /\ shell[s].at = "yml"
  /\ Write(s, "run.yml")
  /\ MoveTo(s, "events")
  /\ UNCHANGED mishaps

(* run_created, and job_ready and attempt_started of every ready job.       *)
AppendEvents(s) ==
  /\ shell[s].at = "events"
  /\ Write(s, "events.jsonl")
  /\ MoveTo(s, "state")
  /\ UNCHANGED mishaps

(* The temporary file is renamed to state.json, and the shell is done.      *)
WriteState(s) ==
  /\ shell[s].at = "state"
  /\ Write(s, "state.json")
  /\ End(s, "done")
  /\ UNCHANGED mishaps

CrashShell(s) ==
  /\ shell[s].at \notin Ended
  /\ Mishap
  /\ End(s, "dead")
  /\ UNCHANGED dir

(* Somebody deletes a run that no shell is creating.                        *)
DeleteRun(id) ==
  /\ \A s \in Shells : shell[s].at \in Writing => shell[s].id # id
  /\ Mishap
  /\ dir' = [i \in Existing \ {id} |-> dir[i]]
  /\ UNCHANGED shell

StoreNext ==
  \/ \E s \in Shells : \/ Count(s) \/ Reserve(s) \/ Contended(s) \/ Denied(s)
                       \/ Load(s) \/ WriteYaml(s) \/ AppendEvents(s) \/ WriteState(s)
                       \/ CrashShell(s)
  \/ \E id \in Existing : DeleteRun(id)

StoreSpec == StoreInit /\ [][StoreNext]_storeVars

(* The run a command is given on: one it names, or the latest.  A run       *)
(* without state.json is an error of the command.                           *)
Resolved(id, latest) ==
  id \in Existing /\ (latest => \A other \in Existing : other =< id)

Usable(id) == dir[id].stage = "state.json"

(* ------------------------------- properties ------------------------------*)

(* Every variable has its type.                                             *)
StoreTypeOK ==
  /\ Existing \subseteq Nat
  /\ dir \in [Existing -> [stage : Stage, by : SUBSET Shells]]
  /\ shell \in [Shells -> [at : Point, id : Nat, tries : Nat, denied : Nat, last : Nat]]
  /\ mishaps \in Nat

(* Shells that count the same directories do not end up in one of them: the *)
(* files of a run are written by a single shell (the race on the id that    *)
(* the exclusive mkdir of reserveRunDirectory is there for).                *)
OwnRunDirectory ==
  \A id \in Existing : \A s, t \in dir[id].by : s = t
=============================================================================
