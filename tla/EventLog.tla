------------------------------ MODULE EventLog ------------------------------
(***************************************************************************)
(* The event log of one run and its delivery to a Core (src/events, and    *)
(* the callback part of src/engine/runAll.ts).                             *)
(*                                                                         *)
(* events.jsonl is written by one process after another: a run is invoked, *)
(* ends or crashes, and is resumed.  Each such process is a life.  Within  *)
(* a life concurrent writers (the jobs' tasks) append events in two steps: *)
(* nextSequentialEventId hands out an id, appendEvent writes the line.     *)
(* Each step goes through its own queue and is atomic; the pair is not.    *)
(*                                                                         *)
(* An event handed to onEvent is put into the life's delivery queue.  The  *)
(* queue POSTs it to the Core, then saves the id in the cursor file.  The  *)
(* log is replayed into the queue when a life starts and when it ends.     *)
(***************************************************************************)
EXTENDS Integers, Sequences

CONSTANTS
  Lives,      \* processes that may own the run, each once
  NoLife,
  Writers,    \* concurrent writers of events
  Home,       \* Home[w]: the life w belongs to
  Silent,     \* writers that do not call onEvent (applyContextPatch)
  MaxEvents   \* bound on the ids a life hands out

ASSUME EventLogAssumption ==
  /\ NoLife \notin Lives
  /\ Home \in [Writers -> Lives]
  /\ Silent \subseteq Writers
  /\ MaxEvents \in Nat

VARIABLES
  log,        \* events.jsonl: the id of each event, and the life that wrote it
  live,       \* the life that owns the run now
  over,       \* the lives that have ended
  counter,    \* lastAllocatedCounters of the live process; 0 when absent
  pending,    \* pending[w]: the id w has and has not yet appended; 0 when none
  closing,    \* the live process is in runAll's teardown
  queue,      \* its eventSinkQueue
  posted,     \* the Core has acknowledged the head of the queue
  delivered,  \* its lastDeliveredCallbackSequence
  failed,     \* its callbackDeliveryFailed
  cursor,     \* lastSequence in core-callback-delivery.json; 0 when absent
  received,   \* the events the Core has received
  flushed     \* length of the log when a life last ended without an error

delivery == <<queue, posted, delivered, failed, cursor, received, flushed>>
vars == <<log, live, over, counter, pending, closing, queue, posted,
          delivered, failed, cursor, received, flushed>>

Event == [id : Nat \ {0}, life : Lives]

Init ==
  /\ log = <<>>
  /\ live = NoLife
  /\ over = {}
  /\ counter = 0
  /\ pending = [w \in Writers |-> 0]
  /\ closing = FALSE
  /\ queue = <<>>
  /\ posted = FALSE
  /\ delivered = 0
  /\ failed = FALSE
  /\ cursor = 0
  /\ received = {}
  /\ flushed = 0

(* enqueueCoreCallback lets through what lies after the cursor, one event   *)
(* of the log after the other (a SelectSeq, written out for the proofs).    *)
After(sequence, events) ==
  LET through[n \in 0..Len(events)] ==
        IF n = 0 THEN <<>>
        ELSE IF events[n].id > sequence THEN Append(through[n - 1], events[n])
        ELSE through[n - 1]
  IN  through[Len(events)]

Open(l) ==
  /\ live = NoLife
  /\ l \notin over
  /\ live' = l
  /\ delivered' = cursor
  /\ queue' = After(cursor, log)
  /\ UNCHANGED <<log, over, counter, pending, closing, posted, failed, cursor,
                 received, flushed>>

(* ----------------------------- event sequence ----------------------------*)

(* readLastEventId: the id on the last line.                                *)
LastEventId == IF log = <<>> THEN 0 ELSE log[Len(log)].id

(* Mutant: the id always comes from the last line.                          *)
NextFromTail == LastEventId + 1

(* Mutant: a resumed process counts from one again.                         *)
NextFromCounter == counter + 1

(* The first id of a life continues the log, later ones the life's counter. *)
NextId == IF counter = 0 THEN LastEventId + 1 ELSE counter + 1

NextSequentialEventId(w) ==
  /\ live = Home[w]
  /\ ~closing
  /\ pending[w] = 0
  /\ NextId =< MaxEvents
  /\ counter' = NextId
  /\ pending' = [pending EXCEPT ![w] = NextId]
  /\ UNCHANGED <<log, live, over, closing, delivery>>

(* appendEvent and onEvent.                                                 *)
AppendEvent(w) ==
  LET event == [id |-> pending[w], life |-> live]
  IN  /\ live = Home[w]
      /\ pending[w] # 0
      /\ log' = Append(log, event)
      /\ pending' = [pending EXCEPT ![w] = 0]
      /\ queue' = IF w \in Silent THEN queue
                  ELSE queue \o After(delivered, <<event>>)
      /\ UNCHANGED <<live, over, counter, closing, posted, delivered, failed,
                     cursor, received, flushed>>

(* --------------------------- callback delivery ---------------------------*)

Sinks == live # NoLife /\ queue # <<>> /\ ~posted

(* The queue's task returns at once: delivery has failed in this life, or   *)
(* the event lies before what has been delivered meanwhile.                 *)
SkipCallback ==
  /\ Sinks
  /\ failed \/ Head(queue).id =< delivered
  /\ queue' = Tail(queue)
  /\ UNCHANGED <<log, live, over, counter, pending, closing, posted, delivered,
                 failed, cursor, received, flushed>>

(* deliverCoreCallback succeeds, after at most its number of attempts.      *)
PostCallback ==
  /\ Sinks
  /\ ~failed
  /\ Head(queue).id > delivered
  /\ received' = received \cup {Head(queue)}
  /\ posted' = TRUE
  /\ UNCHANGED <<log, live, over, counter, pending, closing, queue, delivered,
                 failed, cursor, flushed>>

(* Mutant: a failed event does not stop the delivery of the next ones.      *)
LoseQuietly ==
  /\ Sinks
  /\ ~failed
  /\ Head(queue).id > delivered
  /\ received' \in {received, received \cup {Head(queue)}}
  /\ queue' = Tail(queue)
  /\ UNCHANGED <<log, live, over, counter, pending, closing, posted, delivered,
                 failed, cursor, flushed>>

(* All attempts failed; the Core may have received the event nevertheless.  *)
LoseCallback ==
  /\ Sinks
  /\ ~failed
  /\ Head(queue).id > delivered
  /\ received' \in {received, received \cup {Head(queue)}}
  /\ failed' = TRUE
  /\ queue' = Tail(queue)
  /\ UNCHANGED <<log, live, over, counter, pending, closing, posted, delivered,
                 cursor, flushed>>

(* writeCoreCallbackCursor, an atomic rename.                               *)
WriteCursor ==
  /\ posted
  /\ cursor' = Head(queue).id
  /\ delivered' = Head(queue).id
  /\ posted' = FALSE
  /\ queue' = Tail(queue)
  /\ UNCHANGED <<log, live, over, counter, pending, closing, failed, received,
                 flushed>>

(* ------------------------------ end of a life ----------------------------*)

(* The end of runAll: every writer is done, the log is replayed once more.  *)
Close ==
  /\ live # NoLife
  /\ ~closing
  /\ \A w \in Writers : pending[w] = 0
  /\ closing' = TRUE
  /\ queue' = queue \o After(delivered, log)
  /\ UNCHANGED <<log, live, over, counter, pending, posted, delivered, failed,
                 cursor, received, flushed>>

(* The process is gone: its variables are, the files stay.                  *)
Ends ==
  /\ live' = NoLife
  /\ over' = over \cup {live}
  /\ counter' = 0
  /\ pending' = [w \in Writers |-> 0]
  /\ closing' = FALSE
  /\ queue' = <<>>
  /\ posted' = FALSE
  /\ delivered' = 0
  /\ failed' = FALSE
  /\ UNCHANGED <<log, cursor, received>>

(* The queue has drained: runAll returns, with an error if delivery failed. *)
Closed ==
  /\ closing
  /\ queue = <<>>
  /\ Ends
  /\ flushed' = IF failed THEN flushed ELSE Len(log)

Crash ==
  /\ live # NoLife
  /\ Ends
  /\ UNCHANGED flushed

Next ==
  \/ \E l \in Lives : Open(l)
  \/ \E w \in Writers : NextSequentialEventId(w) \/ AppendEvent(w)
  \/ SkipCallback \/ PostCallback \/ LoseCallback \/ WriteCursor
  \/ Close \/ Closed \/ Crash

Spec == Init /\ [][Next]_vars

(* ------------------------------- properties ------------------------------*)

(* The events of one life have different ids, whatever the order in which   *)
(* its concurrent writers append them (nextSequentialEventId).              *)
LifeUnique ==
  \A m, n \in DOMAIN log :
    log[m].life = log[n].life /\ log[m].id = log[n].id => m = n

(* Every life has appended its events in the order of their ids.            *)
InOrder ==
  \A m, n \in DOMAIN log :
    m < n /\ log[m].life = log[n].life => log[m].id < log[n].id

(* As long as no life appends out of order, ids increase along the whole    *)
(* log, across crashes and resumes: a life takes up where the log ends.     *)
LogIncreases ==
  InOrder => \A m, n \in DOMAIN log : m < n => log[m].id < log[n].id

(* As long as no life appends out of order, nothing is kept from the Core:  *)
(* it has received every event up to the cursor, after which a resumed life *)
(* starts, and the whole log of a run that ended without an error.          *)
CursorCovers ==
  InOrder => /\ \A n \in DOMAIN log : log[n].id =< cursor => log[n] \in received
             /\ \A n \in 1..flushed : log[n] \in received
=============================================================================
