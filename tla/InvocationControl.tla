-------------------------- MODULE InvocationControl -------------------------
(***************************************************************************)
(* Which process owns a run, and how another process cancels it            *)
(* (src/run/invocationControl.ts).                                         *)
(*                                                                         *)
(* An invoke opens a server, then creates the control record              *)
(* .control/invoke-owner.json, which serves as a lock and tells an abort   *)
(* where the server is.  The abort connects, asks for cancellation and     *)
(* waits on the connection; the invoke answers when its run has settled,   *)
(* after it has replaced the record by a quiescent one.                    *)
(*                                                                         *)
(* The record is a path: `open(path, "wx")` creates it empty, the write    *)
(* goes to the file that was opened, unlink and rename act on whatever     *)
(* file has the path at that moment.                                       *)
(***************************************************************************)
EXTENDS Integers

CONSTANTS
  Invokes,     \* invoke processes of one run
  Aborts,      \* abort processes
  Nobody,
  Attempts,    \* turns of the loop of acquireControlRecord (3 in the code)
  MaxCrashes   \* bound on invokes that are killed

ASSUME InvocationAssumption ==
  /\ Nobody \notin Invokes
  /\ Attempts \in Nat \ {0}
  /\ MaxCrashes \in Nat

VARIABLES
  record,      \* the file at the path: its phase, and the process that made it
  invoke,      \* where each invoke is
  tries,       \* its turns in the loop of acquireControlRecord
  seen,        \* the record it is about to remove
  stolen,      \* history: an invoke has removed a record it had not read
  cancelled,   \* its onCancellation has been called
  clean,       \* its acknowledgement says that the run is quiescent
  abort,       \* where each abort is
  target,      \* the invoke it has read from the record
  held,        \* a connection of the invoke's server is read by nobody
  crashes

lock   == <<tries, seen, stolen>>
owner  == <<record, invoke, lock, clean, crashes>>
vars   == <<record, invoke, lock, cancelled, clean, abort, target, held, crashes>>

NoRecord == [phase |-> "none", by |-> Nobody]

Record == {NoRecord} \cup [phase : {"empty", "active", "quiescent"}, by : Invokes]

InvokePoint == {"open", "read", "unlink", "write", "starting", "running",
                "acking", "closing", "ended", "refused", "crashed"}

AbortPoint == {"start", "connecting", "unheard", "connected", "pending",
               "acked", "direct", "error"}

Init ==
  /\ record = NoRecord
  /\ invoke = [p \in Invokes |-> "open"]
  /\ tries = [p \in Invokes |-> 0]
  /\ seen = [p \in Invokes |-> NoRecord]
  /\ stolen = FALSE
  /\ cancelled = [p \in Invokes |-> FALSE]
  /\ clean = [p \in Invokes |-> FALSE]
  /\ abort = [c \in Aborts |-> "start"]
  /\ target = [c \in Aborts |-> Nobody]
  /\ held = [p \in Invokes |-> FALSE]
  /\ crashes = 0

Move(p, from, to) == invoke[p] = from /\ invoke' = [invoke EXCEPT ![p] = to]

(* isProcessAlive.                                                          *)
Alive(p) == invoke[p] \notin {"ended", "refused", "crashed"}

(* Aborts with a connection to p that p's handler reads.                    *)
Connections(p) ==
  {c \in Aborts : target[c] = p /\ abort[c] \in {"connected", "pending"}}

(* -------------------------- acquireControlRecord -------------------------*)

(* open(path, "wx") succeeds on a free path.                                *)
CreateRecord(p) ==
  /\ record.phase = "none"
  /\ Move(p, "open", "write")
  /\ record' = [phase |-> "empty", by |-> p]
  /\ UNCHANGED <<lock, cancelled, clean, abort, target, held, crashes>>

(* EEXIST.                                                                  *)
RecordExists(p) ==
  /\ record.phase # "none"
  /\ Move(p, "open", "read")
  /\ UNCHANGED <<record, lock, cancelled, clean, abort, target, held, crashes>>

(* The write goes to the file p has opened; another may have the path now.  *)
WriteRecord(p) ==
  /\ Move(p, "write", "starting")
  /\ record' = IF record = [phase |-> "empty", by |-> p]
               THEN [phase |-> "active", by |-> p] ELSE record
  /\ UNCHANGED <<lock, cancelled, clean, abort, target, held, crashes>>

(* Mutant: the owner's process is not looked at.                            *)
ReadAnyRecord(p) ==
  /\ Move(p, "read", IF record.phase = "empty" THEN "refused" ELSE "unlink")
  /\ seen' = [seen EXCEPT ![p] = record]
  /\ UNCHANGED <<record, tries, stolen, cancelled, clean, abort, target, held, crashes>>

(* An empty record does not parse; an active one of a living process is     *)
(* respected; any other is to be removed.                                   *)
Respected(r) == r.phase = "empty" \/ (r.phase = "active" /\ Alive(r.by))

ReadRecord(p) ==
  /\ IF Respected(record)
     THEN Move(p, "read", "refused") /\ UNCHANGED seen
     ELSE Move(p, "read", "unlink") /\ seen' = [seen EXCEPT ![p] = record]
  /\ UNCHANGED <<record, tries, stolen, cancelled, clean, abort, target, held, crashes>>

(* Whatever file has the path by now is removed, the one that was read or   *)
(* another.                                                                 *)
UnlinkRecord(p) ==
  /\ Move(p, "unlink", IF tries[p] + 1 = Attempts THEN "refused" ELSE "open")
  /\ record' = NoRecord
  /\ tries' = [tries EXCEPT ![p] = @ + 1]
  /\ stolen' = (stolen \/ record \notin {seen[p], NoRecord})
  /\ seen' = [seen EXCEPT ![p] = NoRecord]
  /\ UNCHANGED <<cancelled, clean, abort, target, held, crashes>>

(* start assigns the owner its server's handler has waited for.             *)
Start(p) ==
  /\ Move(p, "starting", "running")
  /\ UNCHANGED <<record, lock, cancelled, clean, abort, target, held, crashes>>

(* -------------------------- acknowledgeQuiescence ------------------------*)
(* Mutant: a failure to replace the record is not part of the answer.       *)
QuiesceRegardless(p) ==
  /\ Move(p, "running", "acking")
  /\ record' \in {record, [phase |-> "quiescent", by |-> p]}
  /\ clean' \in {clean, [clean EXCEPT ![p] = TRUE]}
  /\ UNCHANGED <<lock, cancelled, abort, target, held, crashes>>

(* The run has settled, cancelled or not, and the record is replaced; the   *)
(* answer is clean if nothing failed, this replacement included.            *)
Quiesce(p) ==
  /\ Move(p, "running", "acking")
  /\ \/ /\ record' = [phase |-> "quiescent", by |-> p]
        /\ clean' \in {clean, [clean EXCEPT ![p] = TRUE]}
     \/ UNCHANGED <<record, clean>>
  /\ UNCHANGED <<lock, cancelled, abort, target, held, crashes>>

Answer(p) == IF clean[p] THEN "acked" ELSE "error"

(* Every pending abort is answered; the server takes no new connections.    *)
Acknowledge(p) ==
  /\ Move(p, "acking", "closing")
  /\ abort' = [c \in Aborts |->
       IF target[c] = p /\ abort[c] = "pending" THEN Answer(p) ELSE abort[c]]
  /\ UNCHANGED <<record, lock, cancelled, clean, target, held, crashes>>

(* server.close calls back when no connection is left.                      *)
Close(p) ==
  /\ Connections(p) = {} /\ ~held[p]
  /\ Move(p, "closing", "ended")
  /\ UNCHANGED <<record, lock, cancelled, clean, abort, target, held, crashes>>

(* The process is killed; its connections break.                            *)
Crash(p) ==
  /\ crashes < MaxCrashes
  /\ Alive(p)
  /\ invoke' = [invoke EXCEPT ![p] = "crashed"]
  /\ abort' = [c \in Aborts |->
       IF target[c] = p /\ abort[c] \in {"unheard", "connected", "pending"}
       THEN "error" ELSE abort[c]]
  /\ crashes' = crashes + 1
  /\ UNCHANGED <<record, lock, cancelled, clean, target, held>>

(* ----------------------- requestInvocationCancellation -------------------*)
(* Mutants: an unreadable record counts as no owner; a missing record does  *)
(* not.                                                                     *)
ReadLeniently(c) ==
  /\ abort[c] = "start"
  /\ IF record.phase = "active"
     THEN /\ abort' = [abort EXCEPT ![c] = "connecting"]
          /\ target' = [target EXCEPT ![c] = record.by]
     ELSE /\ abort' = [abort EXCEPT ![c] = "direct"]
          /\ UNCHANGED target
  /\ UNCHANGED <<owner, cancelled, held>>

(* The record decides: no owner (the abort then changes the state itself),  *)
(* unreadable, or an owner to connect to.                                   *)
ReadControl(c) ==
  /\ abort[c] = "start"
  /\ abort' = [abort EXCEPT ![c] =
       CASE record.phase = "active" -> "connecting"
         [] record.phase = "empty"  -> "error"
         [] record.phase \in {"none", "quiescent"} -> "direct"]
  /\ target' = [target EXCEPT ![c] =
       IF record.phase = "active" THEN record.by ELSE Nobody]
  /\ UNCHANGED <<owner, cancelled, held>>

(* The server listens until the run has been acknowledged.  A connection    *)
(* made before the owner is assigned finds no handler: the request stays    *)
(* unread in the socket, which therefore never sees the end of its stream.  *)
Connect(c) ==
  LET p == target[c]
  IN  /\ abort[c] = "connecting"
      /\ abort' = [abort EXCEPT ![c] =
           CASE invoke[p] = "starting" -> "unheard"
             [] invoke[p] \in {"running", "acking"} -> "connected"
             [] OTHER -> "error"]
      /\ held' = [held EXCEPT ![p] = @ \/ invoke[p] = "starting"]
      /\ UNCHANGED <<owner, cancelled, target>>

(* accept: the request is kept and the run aborted, or it is answered at    *)
(* once when the answers have been sent.                                    *)
Accept(c) ==
  LET p == target[c]
  IN  /\ abort[c] = "connected"
      /\ IF invoke[p] = "closing"
         THEN /\ abort' = [abort EXCEPT ![c] = Answer(p)]
              /\ UNCHANGED cancelled
         ELSE /\ abort' = [abort EXCEPT ![c] = "pending"]
              /\ cancelled' = [cancelled EXCEPT ![p] = TRUE]
      /\ UNCHANGED <<owner, target, held>>

(* Mutant: the timer is set when the request has arrived.                   *)
TimeoutWhenHeard(c) ==
  /\ abort[c] = "pending"
  /\ abort' = [abort EXCEPT ![c] = "error"]
  /\ UNCHANGED <<owner, cancelled, target, held>>

(* The server drops a connection that has been silent for five seconds,     *)
(* whether or not its request has arrived.                                  *)
ServerTimeout(c) ==
  /\ abort[c] \in {"connected", "pending"}
  /\ abort' = [abort EXCEPT ![c] = "error"]
  /\ UNCHANGED <<owner, cancelled, target, held>>

(* The abort gives up and closes its connection.                            *)
AbortTimeout(c) ==
  /\ abort[c] \in {"unheard", "connected", "pending"}
  /\ abort' = [abort EXCEPT ![c] = "error"]
  /\ UNCHANGED <<owner, cancelled, target, held>>

(* ---------------------------- the specification --------------------------*)

Acquire(p) ==
  \/ CreateRecord(p) \/ RecordExists(p) \/ WriteRecord(p) \/ ReadRecord(p)
  \/ UnlinkRecord(p)

End(p) == Acknowledge(p) \/ Close(p)

Next ==
  \/ \E p \in Invokes : Acquire(p) \/ Start(p) \/ Quiesce(p) \/ End(p) \/ Crash(p)
  \/ \E c \in Aborts : \/ ReadControl(c) \/ Connect(c) \/ Accept(c)
                       \/ ServerTimeout(c) \/ AbortTimeout(c)

Spec == Init /\ [][Next]_vars

(* A run may take for ever, unless it is cancelled: its children are then   *)
(* killed and its batch settles.  The rest is up to the invoke's own event  *)
(* loop and its timers; nothing is asked of the aborts.                     *)
FairSpec ==
  /\ Spec
  /\ \A p \in Invokes : WF_vars((cancelled[p] /\ Quiesce(p)) \/ End(p))
  /\ \A c \in Aborts : WF_vars(ServerTimeout(c))

(* ------------------------------- properties ------------------------------*)

(* Every variable has its type; an abort that has passed the record has a   *)
(* process to talk to.                                                      *)
TypeOK ==
  /\ record \in Record
  /\ invoke \in [Invokes -> InvokePoint]
  /\ tries \in [Invokes -> Nat]
  /\ seen \in [Invokes -> Record]
  /\ stolen \in BOOLEAN
  /\ cancelled \in [Invokes -> BOOLEAN]
  /\ clean \in [Invokes -> BOOLEAN]
  /\ abort \in [Aborts -> AbortPoint]
  /\ target \in [Aborts -> Invokes \cup {Nobody}]
  /\ \A c \in Aborts : target[c] = Nobody => abort[c] \in {"start", "direct", "error"}
  /\ held \in [Invokes -> BOOLEAN]
  /\ crashes \in Nat

Owns(p) == invoke[p] \in {"write", "starting", "running"}

(* As long as an invoke owns the run, the record is its own: an abort finds *)
(* the process that runs, and a later invoke is refused.  Only the removal  *)
(* of a record other than the one that was read can break this.             *)
OwnerIsRecorded ==
  ~stolen => \A p \in Invokes : Owns(p) =>
    record = [phase |-> IF invoke[p] = "write" THEN "empty" ELSE "active",
              by    |-> p]

(* An abort changes the state itself only if no invoke owns the run.        *)
DirectOnlyWhenUnowned ==
  [][\A c \in Aborts : abort[c] = "start" /\ abort'[c] = "direct" /\ ~stolen
       => ~ \E p \in Invokes : Owns(p)]_vars

(* An abort is told that the run is quiescent only when it is, and when the *)
(* record no longer says that it is active ("persist before replying").     *)
AckedAfterQuiescence ==
  \A c \in Aborts : abort[c] = "acked" =>
    /\ invoke[target[c]] \in {"closing", "ended", "crashed"}
    /\ record # [phase |-> "active", by |-> target[c]]

(* An invocation that has been cancelled, or has settled by itself, comes   *)
(* to its end whatever its peers do (one that never sends a request "must   *)
(* not be able to hold the owning invoke process open"), unless one of them *)
(* connected before the owner was assigned.                                 *)
CancelledInvocationEnds ==
  \A p \in Invokes :
    (cancelled[p] \/ invoke[p] = "acking") /\ ~held[p]
      ~> invoke[p] \in {"ended", "crashed"}
=============================================================================
