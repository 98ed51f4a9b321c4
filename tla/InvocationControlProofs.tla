----------------------- MODULE InvocationControlProofs ----------------------
(***************************************************************************)
(* For any number of invokes, aborts and crashes: an owner's record is its *)
(* own unless a record was removed unread, and no abort is told too early  *)
(* that the run is quiescent.                                              *)
(***************************************************************************)
EXTENDS InvocationControl, TLAPS

(* Invokes that have settled and written their quiescent record have done   *)
(* with the record; whom an abort was told about is one of them.            *)
Settled == {"closing", "ended", "crashed"}

CleanIsSettled ==
  \A p \in Invokes : clean[p] =>
    invoke[p] \in {"acking"} \cup Settled /\ record # [phase |-> "active", by |-> p]

AckedIsClean ==
  \A c \in Aborts : abort[c] = "acked" =>
    clean[target[c]] /\ invoke[target[c]] \in Settled

(* A record about to be removed was no living owner's, and none revives.    *)
SeenIsDisowned ==
  \A p \in Invokes : invoke[p] = "unlink" => ~Respected(seen[p])

(* The variables keep their types in every behaviour.                       *)
LEMMA Typing == Spec => []TypeOK
<1>1. Init => TypeOK
  <2> SUFFICES ASSUME Init PROVE TypeOK
    OBVIOUS
  <2>1. NoRecord \in Record
    BY DEF Record
  <2> QED
    BY <2>1 DEF Init, TypeOK, InvokePoint, AbortPoint
<1>2. TypeOK /\ [Next]_vars => TypeOK'
  <2> SUFFICES ASSUME TypeOK, [Next]_vars PROVE TypeOK'
    OBVIOUS
  <2> USE InvocationAssumption DEF TypeOK, Record, InvokePoint, AbortPoint, NoRecord,
        Move, owner, lock
  <2>1. ASSUME NEW p \in Invokes, CreateRecord(p) PROVE TypeOK'
    BY <2>1 DEF CreateRecord
  <2>2. ASSUME NEW p \in Invokes, RecordExists(p) PROVE TypeOK'
    BY <2>2 DEF RecordExists
  <2>3. ASSUME NEW p \in Invokes, WriteRecord(p) PROVE TypeOK'
    BY <2>3 DEF WriteRecord
  <2>4. ASSUME NEW p \in Invokes, ReadRecord(p) PROVE TypeOK'
    <3>1. /\ UNCHANGED <<record, tries, stolen, cancelled, clean, abort, target, held, crashes>>
          /\ invoke' \in [Invokes -> InvokePoint]
      BY <2>4 DEF ReadRecord
    <3>2. seen' \in [Invokes -> Record]
      <4>1. seen' = seen \/ seen' = [seen EXCEPT ![p] = record]
        BY <2>4 DEF ReadRecord
      <4> HIDE DEF Record
      <4> QED
        BY <4>1
    <3> QED
      BY <3>1, <3>2
  <2>5. ASSUME NEW p \in Invokes, UnlinkRecord(p) PROVE TypeOK'
    BY <2>5 DEF UnlinkRecord
  <2>6. ASSUME NEW p \in Invokes, Start(p) PROVE TypeOK'
    BY <2>6 DEF Start
  <2>7. ASSUME NEW p \in Invokes, Quiesce(p) PROVE TypeOK'
    <3>1. /\ UNCHANGED <<tries, seen, stolen, cancelled, abort, target, held, crashes>>
          /\ invoke' \in [Invokes -> InvokePoint]
      BY <2>7 DEF Quiesce
    <3>2. record' \in Record
      BY <2>7 DEF Quiesce
    <3>3. clean' \in [Invokes -> BOOLEAN]
      BY <2>7 DEF Quiesce
    <3> QED
      BY <3>1, <3>2, <3>3
  <2>8. ASSUME NEW p \in Invokes, Acknowledge(p) PROVE TypeOK'
    BY <2>8 DEF Acknowledge, Answer
  <2>9. ASSUME NEW p \in Invokes, Close(p) PROVE TypeOK'
    BY <2>9 DEF Close
  <2>10. ASSUME NEW p \in Invokes, Crash(p) PROVE TypeOK'
    BY <2>10 DEF Crash
  <2>11. ASSUME NEW c \in Aborts, ReadControl(c) PROVE TypeOK'
    <3>1. /\ UNCHANGED <<record, invoke, tries, seen, stolen, cancelled, clean, held, crashes>>
          /\ record.phase \in {"none", "empty", "active", "quiescent"}
          /\ record.phase = "active" => record.by \in Invokes
      BY <2>11 DEF ReadControl
    <3>2. abort' \in [Aborts -> AbortPoint]
      BY <2>11, <3>1 DEF ReadControl
    <3>3. target' \in [Aborts -> Invokes \cup {Nobody}]
      BY <2>11, <3>1 DEF ReadControl
    <3>4. \A d \in Aborts : target'[d] = Nobody => abort'[d] \in {"start", "direct", "error"}
      <4> SUFFICES ASSUME NEW d \in Aborts, target'[d] = Nobody
                   PROVE abort'[d] \in {"start", "direct", "error"}
        OBVIOUS
      <4>1. CASE d # c
        BY <2>11, <4>1 DEF ReadControl
      <4>2. CASE d = c
        BY <2>11, <3>1, <4>2 DEF ReadControl
      <4> QED
        BY <4>1, <4>2
    <3> QED
      BY <3>1, <3>2, <3>3, <3>4
  <2>12. ASSUME NEW c \in Aborts, Connect(c) PROVE TypeOK'
    BY <2>12 DEF Connect
  <2>13. ASSUME NEW c \in Aborts, Accept(c) PROVE TypeOK'
    BY <2>13 DEF Accept, Answer
  <2>14. ASSUME NEW c \in Aborts, ServerTimeout(c) PROVE TypeOK'
    BY <2>14 DEF ServerTimeout
  <2>15. ASSUME NEW c \in Aborts, AbortTimeout(c) PROVE TypeOK'
    BY <2>15 DEF AbortTimeout
  <2>16. CASE UNCHANGED vars
    BY <2>16 DEF vars
  <2> QED
    BY <2>1, <2>2, <2>3, <2>4, <2>5, <2>6, <2>7, <2>8, <2>9, <2>10, <2>11, <2>12,
       <2>13, <2>14, <2>15, <2>16 DEF Next, Acquire, End
<1> QED
  BY <1>1, <1>2, PTL DEF Spec

(* An abort is told that the run is quiescent only when it is, and when the *)
(* record no longer says that it is active: an answer is clean only if      *)
(* acknowledgeQuiescence has replaced the record first, and nobody who is   *)
(* past that point writes an active record again.                           *)
THEOREM AckIsLate == Spec => []AckedAfterQuiescence
<1>1. Init => CleanIsSettled /\ AckedIsClean
  BY DEF Init, CleanIsSettled, AckedIsClean
<1>2. TypeOK /\ CleanIsSettled /\ [Next]_vars => CleanIsSettled'
  <2> SUFFICES ASSUME TypeOK, CleanIsSettled, [Next]_vars PROVE CleanIsSettled'
    OBVIOUS
  <2> USE DEF TypeOK, CleanIsSettled, Settled, Move, owner, lock, NoRecord, Alive
  <2>1. ASSUME NEW p \in Invokes, CreateRecord(p) PROVE CleanIsSettled'
    BY <2>1 DEF CreateRecord
  <2>2. ASSUME NEW p \in Invokes, RecordExists(p) PROVE CleanIsSettled'
    BY <2>2 DEF RecordExists
  <2>3. ASSUME NEW p \in Invokes, WriteRecord(p) PROVE CleanIsSettled'
    BY <2>3 DEF WriteRecord
  <2>4. ASSUME NEW p \in Invokes, ReadRecord(p) PROVE CleanIsSettled'
    BY <2>4 DEF ReadRecord
  <2>5. ASSUME NEW p \in Invokes, UnlinkRecord(p) PROVE CleanIsSettled'
    BY <2>5 DEF UnlinkRecord
  <2>6. ASSUME NEW p \in Invokes, Start(p) PROVE CleanIsSettled'
    BY <2>6 DEF Start
  <2>7. ASSUME NEW p \in Invokes, Quiesce(p) PROVE CleanIsSettled'
    BY <2>7 DEF Quiesce
  <2>8. ASSUME NEW p \in Invokes, Acknowledge(p) PROVE CleanIsSettled'
    BY <2>8 DEF Acknowledge
  <2>9. ASSUME NEW p \in Invokes, Close(p) PROVE CleanIsSettled'
    BY <2>9 DEF Close
  <2>10. ASSUME NEW p \in Invokes, Crash(p) PROVE CleanIsSettled'
    BY <2>10 DEF Crash
  <2>11. ASSUME NEW c \in Aborts, ReadControl(c) PROVE CleanIsSettled'
    BY <2>11 DEF ReadControl
  <2>12. ASSUME NEW c \in Aborts, Connect(c) PROVE CleanIsSettled'
    BY <2>12 DEF Connect
  <2>13. ASSUME NEW c \in Aborts, Accept(c) PROVE CleanIsSettled'
    BY <2>13 DEF Accept
  <2>14. ASSUME NEW c \in Aborts, ServerTimeout(c) PROVE CleanIsSettled'
    BY <2>14 DEF ServerTimeout
  <2>15. ASSUME NEW c \in Aborts, AbortTimeout(c) PROVE CleanIsSettled'
    BY <2>15 DEF AbortTimeout
  <2>16. CASE UNCHANGED vars
    BY <2>16 DEF vars
  <2> QED
    BY <2>1, <2>2, <2>3, <2>4, <2>5, <2>6, <2>7, <2>8, <2>9, <2>10, <2>11, <2>12,
       <2>13, <2>14, <2>15, <2>16 DEF Next, Acquire, End
<1>3. TypeOK /\ CleanIsSettled /\ AckedIsClean /\ [Next]_vars => AckedIsClean'
  <2> SUFFICES ASSUME TypeOK, CleanIsSettled, AckedIsClean, [Next]_vars PROVE AckedIsClean'
    OBVIOUS
  <2> USE InvocationAssumption DEF TypeOK, CleanIsSettled, AckedIsClean, Settled, Move,
        owner, lock, Alive
  <2>1. ASSUME NEW p \in Invokes, CreateRecord(p) PROVE AckedIsClean'
    BY <2>1 DEF CreateRecord
  <2>2. ASSUME NEW p \in Invokes, RecordExists(p) PROVE AckedIsClean'
    BY <2>2 DEF RecordExists
  <2>3. ASSUME NEW p \in Invokes, WriteRecord(p) PROVE AckedIsClean'
    BY <2>3 DEF WriteRecord
  <2>4. ASSUME NEW p \in Invokes, ReadRecord(p) PROVE AckedIsClean'
    BY <2>4 DEF ReadRecord
  <2>5. ASSUME NEW p \in Invokes, UnlinkRecord(p) PROVE AckedIsClean'
    BY <2>5 DEF UnlinkRecord
  <2>6. ASSUME NEW p \in Invokes, Start(p) PROVE AckedIsClean'
    BY <2>6 DEF Start
  <2>7. ASSUME NEW p \in Invokes, Quiesce(p) PROVE AckedIsClean'
    BY <2>7 DEF Quiesce
  <2>8. ASSUME NEW p \in Invokes, Acknowledge(p) PROVE AckedIsClean'
    BY <2>8 DEF Acknowledge, Answer
  <2>9. ASSUME NEW p \in Invokes, Close(p) PROVE AckedIsClean'
    BY <2>9 DEF Close
  <2>10. ASSUME NEW p \in Invokes, Crash(p) PROVE AckedIsClean'
    BY <2>10 DEF Crash
  <2>11. ASSUME NEW c \in Aborts, ReadControl(c) PROVE AckedIsClean'
    <3>1. UNCHANGED <<clean, invoke>>
      BY <2>11 DEF ReadControl
    <3>2. abort'[c] # "acked"
      BY <2>11 DEF ReadControl, Record, NoRecord
    <3>3. \A d \in Aborts \ {c} : abort'[d] = abort[d] /\ target'[d] = target[d]
      BY <2>11 DEF ReadControl
    <3> QED
      BY <3>1, <3>2, <3>3
  <2>12. ASSUME NEW c \in Aborts, Connect(c) PROVE AckedIsClean'
    BY <2>12 DEF Connect
  <2>13. ASSUME NEW c \in Aborts, Accept(c) PROVE AckedIsClean'
    BY <2>13 DEF Accept, Answer
  <2>14. ASSUME NEW c \in Aborts, ServerTimeout(c) PROVE AckedIsClean'
    BY <2>14 DEF ServerTimeout
  <2>15. ASSUME NEW c \in Aborts, AbortTimeout(c) PROVE AckedIsClean'
    BY <2>15 DEF AbortTimeout
  <2>16. CASE UNCHANGED vars
    BY <2>16 DEF vars
  <2> QED
    BY <2>1, <2>2, <2>3, <2>4, <2>5, <2>6, <2>7, <2>8, <2>9, <2>10, <2>11, <2>12,
       <2>13, <2>14, <2>15, <2>16 DEF Next, Acquire, End
<1>4. TypeOK /\ CleanIsSettled /\ AckedIsClean => AckedAfterQuiescence
  BY InvocationAssumption DEF TypeOK, CleanIsSettled, AckedIsClean, Settled, AckedAfterQuiescence
<1> QED
  BY Typing, <1>1, <1>2, <1>3, <1>4, PTL DEF Spec

(* As long as no record has been removed unread, an owner's record is its   *)
(* own, so no two invokes own the run: open(..., "wx") succeeds on a free   *)
(* path only, and a record is removed only when its process is dead or has  *)
(* declared it quiescent.                                                   *)
THEOREM OwnerKeepsRecord == Spec => []OwnerIsRecorded
<1>1. Init => OwnerIsRecorded /\ SeenIsDisowned
  BY DEF Init, OwnerIsRecorded, SeenIsDisowned, Owns
<1>2. TypeOK /\ SeenIsDisowned /\ [Next]_vars => SeenIsDisowned'
  <2> SUFFICES ASSUME TypeOK, SeenIsDisowned, [Next]_vars PROVE SeenIsDisowned'
    OBVIOUS
  <2> USE DEF TypeOK, Record, SeenIsDisowned, Respected, Move, owner, lock, Alive
  <2>1. ASSUME NEW p \in Invokes, CreateRecord(p) PROVE SeenIsDisowned'
    BY <2>1 DEF CreateRecord
  <2>2. ASSUME NEW p \in Invokes, RecordExists(p) PROVE SeenIsDisowned'
    BY <2>2 DEF RecordExists
  <2>3. ASSUME NEW p \in Invokes, WriteRecord(p) PROVE SeenIsDisowned'
    BY <2>3 DEF WriteRecord
  <2>4. ASSUME NEW p \in Invokes, ReadRecord(p) PROVE SeenIsDisowned'
    <3> SUFFICES ASSUME NEW q \in Invokes, invoke'[q] = "unlink"
                 PROVE ~Respected(seen[q])'
      BY Zenon DEF SeenIsDisowned
    <3>1. \A r \in Invokes : ~Alive(r) => ~Alive(r)'
      BY <2>4 DEF ReadRecord
    <3>2. \A r \in Record : r.phase = "active" => r.by \in Invokes
      BY DEF NoRecord
    <3>3. CASE q # p
      <4>1. invoke[q] = "unlink" /\ seen'[q] = seen[q]
        BY <2>4, <3>3 DEF ReadRecord
      <4>2. ~Respected(seen[q])
        BY <4>1
      <4> QED
        BY <4>1, <4>2, <3>1, <3>2
    <3>4. CASE q = p
      <4>1. ~Respected(record) /\ seen'[q] = record
        BY <2>4, <3>4 DEF ReadRecord
      <4> QED
        BY <4>1, <3>1, <3>2
    <3> QED
      BY <3>3, <3>4
  <2>5. ASSUME NEW p \in Invokes, UnlinkRecord(p) PROVE SeenIsDisowned'
    BY <2>5 DEF UnlinkRecord
  <2>6. ASSUME NEW p \in Invokes, Start(p) PROVE SeenIsDisowned'
    BY <2>6 DEF Start
  <2>7. ASSUME NEW p \in Invokes, Quiesce(p) PROVE SeenIsDisowned'
    BY <2>7 DEF Quiesce
  <2>8. ASSUME NEW p \in Invokes, Acknowledge(p) PROVE SeenIsDisowned'
    BY <2>8 DEF Acknowledge
  <2>9. ASSUME NEW p \in Invokes, Close(p) PROVE SeenIsDisowned'
    BY <2>9 DEF Close
  <2>10. ASSUME NEW p \in Invokes, Crash(p) PROVE SeenIsDisowned'
    BY <2>10 DEF Crash
  <2>11. ASSUME NEW c \in Aborts, ReadControl(c) PROVE SeenIsDisowned'
    BY <2>11 DEF ReadControl
  <2>12. ASSUME NEW c \in Aborts, Connect(c) PROVE SeenIsDisowned'
    BY <2>12 DEF Connect
  <2>13. ASSUME NEW c \in Aborts, Accept(c) PROVE SeenIsDisowned'
    BY <2>13 DEF Accept
  <2>14. ASSUME NEW c \in Aborts, ServerTimeout(c) PROVE SeenIsDisowned'
    BY <2>14 DEF ServerTimeout
  <2>15. ASSUME NEW c \in Aborts, AbortTimeout(c) PROVE SeenIsDisowned'
    BY <2>15 DEF AbortTimeout
  <2>16. CASE UNCHANGED vars
    BY <2>16 DEF vars
  <2> QED
    BY <2>1, <2>2, <2>3, <2>4, <2>5, <2>6, <2>7, <2>8, <2>9, <2>10, <2>11, <2>12,
       <2>13, <2>14, <2>15, <2>16 DEF Next, Acquire, End
<1>3. TypeOK /\ SeenIsDisowned /\ OwnerIsRecorded /\ [Next]_vars => OwnerIsRecorded'
  <2> SUFFICES ASSUME TypeOK, SeenIsDisowned, OwnerIsRecorded, [Next]_vars
               PROVE OwnerIsRecorded'
    OBVIOUS
  <2> USE DEF TypeOK, OwnerIsRecorded, Owns, Move, owner, lock
  <2>1. ASSUME NEW p \in Invokes, CreateRecord(p) PROVE OwnerIsRecorded'
    BY <2>1 DEF CreateRecord, NoRecord
  <2>2. ASSUME NEW p \in Invokes, RecordExists(p) PROVE OwnerIsRecorded'
    BY <2>2 DEF RecordExists
  <2>3. ASSUME NEW p \in Invokes, WriteRecord(p) PROVE OwnerIsRecorded'
    BY <2>3 DEF WriteRecord
  <2>4. ASSUME NEW p \in Invokes, ReadRecord(p) PROVE OwnerIsRecorded'
    BY <2>4 DEF ReadRecord
  <2>5. ASSUME NEW p \in Invokes, UnlinkRecord(p) PROVE OwnerIsRecorded'
    <3> SUFFICES ASSUME ~stolen', NEW q \in Invokes, Owns(q)' PROVE FALSE
      BY Zenon DEF OwnerIsRecorded
    <3>1. invoke[p] = "unlink" /\ ~stolen /\ record \in {seen[p], NoRecord}
      BY <2>5 DEF UnlinkRecord
    <3>2. q # p /\ Owns(q) /\ invoke[q] = invoke'[q]
      BY <2>5 DEF UnlinkRecord
    <3>3. record.phase \in {"empty", "active"} /\ record.by = q
      BY <3>1, <3>2
    <3>4. Respected(seen[p])
      BY <3>1, <3>2, <3>3 DEF Respected, Alive, NoRecord
    <3> QED
      BY <3>1, <3>4 DEF SeenIsDisowned
  <2>6. ASSUME NEW p \in Invokes, Start(p) PROVE OwnerIsRecorded'
    BY <2>6 DEF Start
  <2>7. ASSUME NEW p \in Invokes, Quiesce(p) PROVE OwnerIsRecorded'
    BY <2>7 DEF Quiesce
  <2>8. ASSUME NEW p \in Invokes, Acknowledge(p) PROVE OwnerIsRecorded'
    BY <2>8 DEF Acknowledge
  <2>9. ASSUME NEW p \in Invokes, Close(p) PROVE OwnerIsRecorded'
    BY <2>9 DEF Close
  <2>10. ASSUME NEW p \in Invokes, Crash(p) PROVE OwnerIsRecorded'
    BY <2>10 DEF Crash
  <2>11. ASSUME NEW c \in Aborts, ReadControl(c) PROVE OwnerIsRecorded'
    BY <2>11 DEF ReadControl
  <2>12. ASSUME NEW c \in Aborts, Connect(c) PROVE OwnerIsRecorded'
    BY <2>12 DEF Connect
  <2>13. ASSUME NEW c \in Aborts, Accept(c) PROVE OwnerIsRecorded'
    BY <2>13 DEF Accept
  <2>14. ASSUME NEW c \in Aborts, ServerTimeout(c) PROVE OwnerIsRecorded'
    BY <2>14 DEF ServerTimeout
  <2>15. ASSUME NEW c \in Aborts, AbortTimeout(c) PROVE OwnerIsRecorded'
    BY <2>15 DEF AbortTimeout
  <2>16. CASE UNCHANGED vars
    BY <2>16 DEF vars
  <2> QED
    BY <2>1, <2>2, <2>3, <2>4, <2>5, <2>6, <2>7, <2>8, <2>9, <2>10, <2>11, <2>12,
       <2>13, <2>14, <2>15, <2>16 DEF Next, Acquire, End
<1> QED
  BY Typing, <1>1, <1>2, <1>3, PTL DEF Spec

(* An abort changes the run's state itself only if no invoke owns the run,  *)
(* unless a record has been removed unread: it takes the absence of an      *)
(* active record for the absence of an owner.                               *)
THEOREM DirectIsUnowned == Spec => DirectOnlyWhenUnowned
<1> DEFINE Unowned == \A c \in Aborts :
      abort[c] = "start" /\ abort'[c] = "direct" /\ ~stolen => ~ \E p \in Invokes : Owns(p)
<1>1. TypeOK /\ OwnerIsRecorded /\ [Next]_vars => [Unowned]_vars
  <2> SUFFICES ASSUME TypeOK, OwnerIsRecorded, Next,
                      NEW c \in Aborts, abort[c] = "start", abort'[c] = "direct", ~stolen,
                      NEW p \in Invokes, Owns(p)
               PROVE FALSE
    BY Zenon
  <2>1. ReadControl(c)
    BY DEF TypeOK, Next, Acquire, End, Move, owner, CreateRecord, RecordExists, WriteRecord,
       ReadRecord, UnlinkRecord, Start, Quiesce, Acknowledge, Answer, Close, Crash,
       ReadControl, Connect, Accept, ServerTimeout, AbortTimeout
  <2>2. record.phase \in {"empty", "active"}
    BY DEF OwnerIsRecorded
  <2> QED
    BY <2>1, <2>2 DEF ReadControl, TypeOK
<1> QED
  BY Typing, OwnerKeepsRecord, <1>1, PTL DEF Spec, DirectOnlyWhenUnowned
=============================================================================
