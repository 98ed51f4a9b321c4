------------------------------ MODULE Commands ------------------------------
(***************************************************************************)
(* The deprecated command line end to end: shells create runs (RunStore),  *)
(* and the commands prompt, next and step are given on one of them         *)
(* (Reports).  The two touch different directories, so the model lets the  *)
(* commands begin when the shells have ended.                              *)
(***************************************************************************)
EXTENDS Reports, RunStore

VARIABLE target     \* the run the commands are given on; 0 before the first

commandVars == <<handVars, storeVars, target>>

CommandsInit == StoreInit /\ ReportsInit /\ target = 0

CreateRuns ==
  /\ target = 0
  /\ StoreNext
  /\ UNCHANGED <<handVars, target>>

(* resolveRunId; readSnapshot finds the run's first state.  Only the files  *)
(* of this run matter from now on: the model forgets shells and other runs. *)
Open ==
  /\ target = 0
  /\ \A s \in Shells : shell[s].at \in Ended
  /\ \E id \in Existing, latest \in BOOLEAN :
       /\ Resolved(id, latest)
       /\ Usable(id)
       /\ target' = id
       /\ dir' = [i \in {id} |-> dir[i]]
  /\ shell' = [s \in Shells |-> [Started EXCEPT !.at = "done"]]
  /\ mishaps' = 0
  /\ UNCHANGED handVars

GiveCommands ==
  /\ target # 0
  /\ ReportsNext
  /\ UNCHANGED <<storeVars, target>>

CommandsNext == CreateRuns \/ Open \/ GiveCommands

CommandsSpec == CommandsInit /\ [][CommandsNext]_commandVars
=============================================================================
