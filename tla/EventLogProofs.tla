--------------------------- MODULE EventLogProofs ---------------------------
(***************************************************************************)
(* Proofs about EventLog, for any number of lives, writers and events: the *)
(* ids of one life are distinct, ids increase along the log as long as     *)
(* every life appends in order (neither depends on the delivery of the     *)
(* events), and the Core has received every event its cursor has passed.   *)
(***************************************************************************)
EXTENDS EventLog, WellFoundedInduction, TLAPS

logging == <<log, live, over, counter, pending>>

LogTypes ==
  /\ log \in Seq(Event)
  /\ live \in Lives \cup {NoLife}
  /\ over \subseteq Lives
  /\ counter \in Nat
  /\ pending \in [Writers -> Nat]

(* Only the live process holds a counter and pending ids.                   *)
NothingHeld ==
  live = NoLife => /\ ~closing
                   /\ counter = 0
                   /\ \A w \in Writers : pending[w] = 0

(* A life that has not begun has written nothing.                           *)
LivesOnce ==
  /\ live \notin over
  /\ \A n \in DOMAIN log : log[n].life \in over \cup {live}

(* The counter is the largest id the live process has handed out.           *)
CounterCovers ==
  /\ \A w \in Writers : pending[w] =< counter
  /\ \A n \in DOMAIN log : log[n].life = live => log[n].id =< counter

(* The ids held by writers differ from each other and from the log's.       *)
PendingUnique ==
  \A w \in Writers : pending[w] # 0 =>
    /\ \A v \in Writers : pending[v] = pending[w] => v = w
    /\ \A n \in DOMAIN log : log[n].life = live => log[n].id # pending[w]

LifeInv ==
  /\ LogTypes
  /\ NothingHeld
  /\ LivesOnce
  /\ CounterCovers
  /\ PendingUnique
  /\ LifeUnique

(* The steps that change what the log's invariants speak of.                *)
LEMMA LogSteps ==
  ASSUME NothingHeld, [Next]_vars
  PROVE  \/ \E l \in Lives : Open(l)
         \/ \E w \in Writers : NextSequentialEventId(w)
         \/ \E w \in Writers : AppendEvent(w)
         \/ live # NoLife /\ Ends
         \/ UNCHANGED logging /\ (live = NoLife => UNCHANGED closing)
BY DEF NothingHeld, Next, vars, logging, SkipCallback, PostCallback, LoseCallback,
       WriteCursor, Close, Closed, Crash, Sinks

(* What an append does to the log.                                          *)
LEMMA Appended ==
  ASSUME NEW s \in Seq(Event), NEW e \in Event
  PROVE  /\ Append(s, e) \in Seq(Event)
         /\ DOMAIN Append(s, e) = DOMAIN s \cup {Len(s) + 1}
         /\ DOMAIN s = 1..Len(s)
         /\ Len(s) \in Nat
         /\ Append(s, e)[Len(s) + 1] = e
         /\ \A n \in DOMAIN s : Append(s, e)[n] = s[n]
  OBVIOUS

(* Every line of the log is an event.                                       *)
LEMMA Lines ==
  ASSUME LogTypes
  PROVE  \A n \in DOMAIN log : log[n].id \in Nat \ {0} /\ log[n].life \in Lives
  <1>1. \A s \in Seq(Event) : \A n \in DOMAIN s : s[n] \in Event
    OBVIOUS
  <1> QED
    BY <1>1 DEF LogTypes, Event

(* The next id of the live process is larger than all it has handed out.    *)
LEMMA NextIdFresh ==
  ASSUME LogTypes
  PROVE  NextId \in Nat /\ NextId > counter
  <1>1. log # <<>> => Len(log) \in DOMAIN log
    BY DEF LogTypes
  <1>2. LastEventId \in Nat
    BY <1>1, Lines DEF LastEventId
  <1> QED
    BY <1>2 DEF LogTypes, NextId

(* It holds of the empty log.                                               *)
LEMMA LifeInit == Init => LifeInv
  BY EventLogAssumption
     DEF Init, LifeInv, LogTypes, NothingHeld, LivesOnce, CounterCovers,
         PendingUnique, LifeUnique

(* Every step keeps it.                                                     *)
LEMMA LifeStep == LifeInv /\ [Next]_vars => LifeInv'
  <1> SUFFICES ASSUME LifeInv, [Next]_vars
               PROVE  LifeInv'
    OBVIOUS
  <1> USE EventLogAssumption
  <1>1. CASE \E l \in Lives : Open(l)
    <2>1. PICK l \in Lives : Open(l)
      BY <1>1
    <2>2. live' = l /\ live = NoLife /\ l \notin over /\ UNCHANGED <<log, over, counter, pending, closing>>
      BY <2>1 DEF Open
    <2>3. \A n \in DOMAIN log : log[n].life \in Lives /\ log[n].life # l
      BY <2>2, Lines DEF LifeInv, LivesOnce
    <2> QED
      BY <2>2, <2>3 DEF LifeInv, LogTypes, NothingHeld, LivesOnce,
                        CounterCovers, PendingUnique, LifeUnique
  <1>2. CASE \E w \in Writers : NextSequentialEventId(w)
    <2>1. PICK w \in Writers : NextSequentialEventId(w)
      BY <1>2
    <2>2. NextId \in Nat /\ NextId > counter
      BY NextIdFresh DEF LifeInv
    <2>3. /\ live \in Lives
          /\ counter' = NextId
          /\ pending' = [pending EXCEPT ![w] = NextId]
          /\ UNCHANGED <<log, live, over>>
      BY <2>1 DEF NextSequentialEventId
    <2>4. LogTypes' /\ NothingHeld' /\ LivesOnce' /\ LifeUnique'
      BY <2>2, <2>3 DEF LifeInv, LogTypes, NothingHeld, LivesOnce, LifeUnique
    <2>5. /\ pending'[w] = NextId
          /\ \A v \in Writers \ {w} : pending'[v] = pending[v]
          /\ \A v \in Writers : pending[v] \in Nat /\ pending[v] =< counter
          /\ counter \in Nat
          /\ \A n \in DOMAIN log : log[n].id \in Nat
      BY <2>3, Lines DEF LifeInv, LogTypes, CounterCovers
    <2>6. CounterCovers'
      BY <2>2, <2>3, <2>5 DEF LifeInv, CounterCovers
    <2>7. PendingUnique'
      BY <2>2, <2>3, <2>5 DEF LifeInv, CounterCovers, PendingUnique
    <2> QED
      BY <2>4, <2>6, <2>7 DEF LifeInv
  <1>3. CASE \E w \in Writers : AppendEvent(w)
    <2>1. PICK w \in Writers : AppendEvent(w)
      BY <1>3
    <2> DEFINE e == [id |-> pending[w], life |-> live]
    <2>2. /\ live \in Lives
          /\ live = Home[w]
          /\ pending[w] # 0
          /\ log' = Append(log, e)
          /\ pending' = [pending EXCEPT ![w] = 0]
          /\ UNCHANGED <<live, over, counter>>
      BY <2>1 DEF AppendEvent
    <2>3. e \in Event /\ log \in Seq(Event) /\ e.id = pending[w] /\ e.life = live
      BY <2>2 DEF LifeInv, LogTypes, Event
    <2> HIDE DEF e
    <2>4. /\ log' \in Seq(Event)
          /\ DOMAIN log' = DOMAIN log \cup {Len(log) + 1}
          /\ log'[Len(log) + 1] = e
          /\ \A n \in DOMAIN log : log'[n] = log[n]
      BY <2>2, <2>3, Appended
    <2>5. LogTypes' /\ NothingHeld' /\ LivesOnce'
      BY <2>2, <2>3, <2>4 DEF LifeInv, LogTypes, NothingHeld, LivesOnce
    <2>6. /\ pending'[w] = 0
          /\ \A v \in Writers \ {w} : pending'[v] = pending[v]
          /\ counter \in Nat
      BY <2>2 DEF LifeInv, LogTypes
    <2>7. CounterCovers'
      BY <2>2, <2>3, <2>4, <2>6 DEF LifeInv, CounterCovers
    <2>8. PendingUnique'
      BY <2>2, <2>3, <2>4, <2>6 DEF LifeInv, PendingUnique
    <2>9. LifeUnique'
      BY <2>2, <2>3, <2>4 DEF LifeInv, LifeUnique, PendingUnique
    <2> QED
      BY <2>5, <2>7, <2>8, <2>9 DEF LifeInv
  <1>4. CASE live # NoLife /\ Ends
    <2>1. /\ live' = NoLife
          /\ over' = over \cup {live}
          /\ counter' = 0
          /\ ~closing'
          /\ pending' = [w \in Writers |-> 0]
          /\ log' = log
      BY <1>4 DEF Ends
    <2>2. \A n \in DOMAIN log : log[n].life # NoLife
      BY Lines, EventLogAssumption DEF LifeInv
    <2>3. NoLife \notin over'
      BY <2>1, <1>4 DEF LifeInv, LogTypes
    <2> QED
      BY <2>1, <2>2, <2>3 DEF LifeInv, LogTypes, NothingHeld, LivesOnce,
                              CounterCovers, PendingUnique, LifeUnique
  <1>5. CASE UNCHANGED logging /\ (live = NoLife => UNCHANGED closing)
    BY <1>5 DEF logging, LifeInv, LogTypes, NothingHeld, LivesOnce,
                CounterCovers, PendingUnique, LifeUnique
  <1> QED
    BY <1>1, <1>2, <1>3, <1>4, <1>5, LogSteps DEF LifeInv
(* The events of one life have different ids, for any number of concurrent  *)
(* writers and any crashes and resumes (nextSequentialEventId).             *)
THEOREM LifeIdsUnique == Spec => []LifeUnique
  <1>1. LifeInv => LifeUnique
    BY DEF LifeInv
  <1> QED
    BY <1>1, LifeInit, LifeStep, PTL DEF Spec

(* ---------------------------- order of the log ---------------------------*)

(* As long as every life appends in order, ids increase along the log, and  *)
(* what the live process has handed out lies after all earlier lives.       *)
Grows ==
  /\ \A m, n \in DOMAIN log : m < n => log[m].id < log[n].id
  /\ \A n \in DOMAIN log : log[n].life # live =>
       /\ counter # 0 => log[n].id =< counter
       /\ \A w \in Writers : pending[w] # 0 => log[n].id < pending[w]

GrowsInv == InOrder => Grows

(* Every step keeps the order, as long as every life appends in order.      *)
LEMMA GrowsStep == LifeInv /\ GrowsInv /\ [Next]_vars => GrowsInv'
  <1> SUFFICES ASSUME LifeInv, GrowsInv, [Next]_vars, InOrder'
               PROVE  Grows'
    BY DEF GrowsInv
  <1>0. LogTypes /\ NothingHeld
    BY DEF LifeInv
  <1>1. CASE \E l \in Lives : Open(l)
    <2>1. live = NoLife /\ UNCHANGED <<log, counter, pending>>
      BY <1>1 DEF Open
    <2> QED
      BY <2>1, <1>0 DEF NothingHeld, GrowsInv, Grows, InOrder
  <1>2. CASE \E w \in Writers : NextSequentialEventId(w)
    <2>1. PICK w \in Writers : NextSequentialEventId(w)
      BY <1>2
    <2>2. NextId \in Nat /\ NextId > counter /\ counter \in Nat
      BY NextIdFresh, <1>0 DEF LogTypes
    <2>3. /\ counter' = NextId
          /\ pending'[w] = NextId
          /\ \A v \in Writers \ {w} : pending'[v] = pending[v]
          /\ UNCHANGED <<log, live>>
      BY <2>1, <1>0 DEF NextSequentialEventId, LogTypes
    <2>4. Grows
      BY <2>3 DEF GrowsInv, InOrder
    <2>5. ASSUME NEW n \in DOMAIN log, log[n].life # live
          PROVE  log[n].id < NextId
      <3>1. CASE counter # 0
        BY <3>1, <2>2, <2>4, <2>5, Lines, <1>0 DEF Grows
      <3>2. CASE counter = 0
        <4>1. Len(log) \in DOMAIN log /\ n \in 1..Len(log) /\ log # <<>>
          BY <1>0 DEF LogTypes
        <4>2. log[n].id =< log[Len(log)].id
          BY <4>1, <2>4, Lines, <1>0 DEF Grows
        <4> QED
          BY <3>2, <4>1, <4>2, Lines, <1>0 DEF NextId, LastEventId
      <3> QED
        BY <3>1, <3>2
    <2> QED
      BY <2>2, <2>3, <2>4, <2>5, Lines, <1>0 DEF Grows
  <1>3. CASE \E w \in Writers : AppendEvent(w)
    <2>1. PICK w \in Writers : AppendEvent(w)
      BY <1>3
    <2> DEFINE e == [id |-> pending[w], life |-> live]
    <2>2. /\ live \in Lives
          /\ pending[w] # 0
          /\ log' = Append(log, e)
          /\ pending'[w] = 0
          /\ \A v \in Writers \ {w} : pending'[v] = pending[v]
          /\ UNCHANGED <<live, counter>>
      BY <2>1, <1>0, EventLogAssumption DEF AppendEvent, LogTypes
    <2>3. e \in Event /\ log \in Seq(Event) /\ e.id = pending[w] /\ e.life = live
      BY <2>2, <1>0 DEF LogTypes, Event
    <2> HIDE DEF e
    <2>4. /\ DOMAIN log' = DOMAIN log \cup {Len(log) + 1}
          /\ DOMAIN log = 1..Len(log)
          /\ Len(log) \in Nat
          /\ log'[Len(log) + 1] = e
          /\ \A n \in DOMAIN log : log'[n] = log[n]
      BY <2>2, <2>3, Appended
    <2>5. InOrder
      BY <2>4 DEF InOrder
    <2>6. Grows
      BY <2>5 DEF GrowsInv
    <2>7. ASSUME NEW m \in DOMAIN log
          PROVE  log'[m].id < e.id
      <3>1. CASE log[m].life = live
        BY <3>1, <2>3, <2>4 DEF InOrder
      <3>2. CASE log[m].life # live
        BY <3>2, <2>2, <2>3, <2>4, <2>6 DEF Grows
      <3> QED
        BY <3>1, <3>2
    <2>8. \A m, n \in DOMAIN log' : m < n => log'[m].id < log'[n].id
      BY <2>4, <2>6, <2>7 DEF Grows
    <2>9. \A n \in DOMAIN log' : log'[n].life # live' =>
            /\ counter' # 0 => log'[n].id =< counter'
            /\ \A v \in Writers : pending'[v] # 0 => log'[n].id < pending'[v]
      BY <2>2, <2>3, <2>4, <2>6 DEF Grows
    <2> QED
      BY <2>8, <2>9 DEF Grows
  <1>4. CASE live # NoLife /\ Ends
    <2>1. counter' = 0 /\ pending' = [w \in Writers |-> 0] /\ log' = log
      BY <1>4 DEF Ends
    <2> QED
      BY <2>1 DEF GrowsInv, Grows, InOrder
  <1>5. CASE UNCHANGED logging
    BY <1>5 DEF logging, GrowsInv, Grows, InOrder
  <1> QED
    BY <1>0, <1>1, <1>2, <1>3, <1>4, <1>5, LogSteps

(* As long as no life appends out of order, ids increase along the whole    *)
(* log, across any number of crashes and resumes: readLastEventId gives a   *)
(* resumed life the largest id.                                             *)
THEOREM IdsIncrease == Spec => []LogIncreases
  <1>1. Init => GrowsInv
    BY DEF Init, GrowsInv, Grows
  <1>2. GrowsInv => LogIncreases
    BY DEF GrowsInv, Grows, LogIncreases
  <1> QED
    BY <1>1, <1>2, LifeInit, LifeStep, GrowsStep, PTL DEF Spec

(* ---------------------- what After lets through --------------------------*)

(* The induction over a log: a set of naturals has a least element.         *)
LEMMA LeastNumber ==
  ASSUME NEW S, S \subseteq Nat, S # {}
  PROVE  \E m \in S : \A n \in S : m =< n
  <1>1. PICK m \in S : \A n \in S : <<n, m>> \notin OpToRel(<, Nat)
    BY NatLessThanWellFounded, WFMin
  <1>2. \A n \in S : ~(n < m)
    BY <1>1 DEF OpToRel
  <1> QED
    BY <1>2

(* The function that After is the last value of.                            *)
Selects(g, c, s) ==
  g = [n \in 0..Len(s) |->
         IF n = 0 THEN <<>>
         ELSE IF s[n].id > c THEN Append(g[n - 1], s[n])
         ELSE g[n - 1]]

(* Such a function up to m.                                                 *)
Stages(m, c, s) ==
  {g \in [0..m -> Seq(Event)] :
     /\ g[0] = <<>>
     /\ \A n \in 1..m : g[n] = IF s[n].id > c THEN Append(g[n - 1], s[n]) ELSE g[n - 1]}

(* There is one.                                                            *)
LEMMA SelectsSome ==
  ASSUME NEW s \in Seq(Event), NEW c \in Nat
  PROVE  \E g \in [0..Len(s) -> Seq(Event)] : Selects(g, c, s)
  <1> DEFINE L == Len(s)
             Bad == {m \in 0..L : Stages(m, c, s) = {}}
  <1>1. L \in Nat /\ \A n \in 1..L : s[n] \in Event
    OBVIOUS
  <1>2. Bad = {}
    <2>1. SUFFICES ASSUME Bad # {} PROVE FALSE
      OBVIOUS
    <2>2. Bad \subseteq Nat
      BY <1>1
    <2>3. PICK m \in Bad : \A n \in Bad : m =< n
      BY <2>1, <2>2, LeastNumber
    <2>4. m \in 0..L /\ Stages(m, c, s) = {}
      OBVIOUS
    <2>5. CASE m = 0
      <3> DEFINE g == [n \in 0..0 |-> <<>>]
      <3>1. <<>> \in Seq(Event)
        OBVIOUS
      <3>2. g \in [0..0 -> Seq(Event)] /\ g[0] = <<>>
        BY <3>1
      <3> HIDE DEF g
      <3>3. g \in Stages(0, c, s)
        BY <3>2 DEF Stages
      <3> QED BY <2>4, <2>5, <3>3
    <2>6. CASE m # 0
      <3>1. m - 1 \in 0..L /\ m - 1 \notin Bad /\ m \in 1..L
        BY <1>1, <2>3, <2>4, <2>6
      <3>2. PICK g : g \in Stages(m - 1, c, s)
        BY <3>1
      <3>3. /\ g \in [0..m - 1 -> Seq(Event)] /\ g[0] = <<>>
            /\ \A n \in 1..(m - 1) :
                 g[n] = IF s[n].id > c THEN Append(g[n - 1], s[n]) ELSE g[n - 1]
        BY <3>2 DEF Stages
      <3> DEFINE next == IF s[m].id > c THEN Append(g[m - 1], s[m]) ELSE g[m - 1]
                 h == [n \in 0..m |-> IF n < m THEN g[n] ELSE next]
      <3>4. g[m - 1] \in Seq(Event) /\ s[m] \in Event
        BY <1>1, <3>1, <3>3
      <3>5. next \in Seq(Event)
        BY <3>4
      <3> HIDE DEF next
      <3>6. /\ h \in [0..m -> Seq(Event)]
            /\ \A n \in 0..(m - 1) : h[n] = g[n]
            /\ h[m] = next
        BY <3>1, <3>3, <3>5
      <3> HIDE DEF h
      <3>7. \A n \in 1..m :
              h[n] = IF s[n].id > c THEN Append(h[n - 1], s[n]) ELSE h[n - 1]
        <4> SUFFICES ASSUME NEW n \in 1..m
                     PROVE  h[n] = IF s[n].id > c THEN Append(h[n - 1], s[n])
                                   ELSE h[n - 1]
          OBVIOUS
        <4>1. h[n - 1] = g[n - 1]
          BY <3>1, <3>6
        <4>2. CASE n = m
          BY <3>6, <4>1, <4>2 DEF next
        <4>3. CASE n # m
          <5>1. n \in 1..(m - 1) /\ h[n] = g[n]
            BY <3>1, <3>6, <4>3
          <5> QED BY <3>3, <4>1, <5>1
        <4> QED BY <4>2, <4>3
      <3>8. h[0] = <<>>
        BY <3>1, <3>3, <3>6
      <3>9. h \in Stages(m, c, s)
        BY <3>6, <3>7, <3>8 DEF Stages
      <3> QED BY <2>4, <3>9
    <2> QED BY <2>5, <2>6
  <1>3. PICK g : g \in Stages(L, c, s)
    BY <1>1, <1>2
  <1>4. /\ g \in [0..L -> Seq(Event)] /\ g[0] = <<>>
        /\ \A n \in 1..L : g[n] = IF s[n].id > c THEN Append(g[n - 1], s[n]) ELSE g[n - 1]
    BY <1>3 DEF Stages
  <1>5. \A n \in 0..L :
          g[n] = IF n = 0 THEN <<>>
                 ELSE IF s[n].id > c THEN Append(g[n - 1], s[n])
                 ELSE g[n - 1]
    <2> SUFFICES ASSUME NEW n \in 0..L
                 PROVE  g[n] = IF n = 0 THEN <<>>
                               ELSE IF s[n].id > c THEN Append(g[n - 1], s[n])
                               ELSE g[n - 1]
      OBVIOUS
    <2>1. CASE n = 0
      BY <1>4, <2>1
    <2>2. CASE n # 0
      <3>1. n \in 1..L
        BY <1>1, <2>2
      <3> QED BY <1>4, <2>2, <3>1
    <2> QED BY <2>1, <2>2
  <1>6. g = [n \in 0..L |-> g[n]]
    BY <1>4
  <1>7. Selects(g, c, s)
    BY <1>5, <1>6 DEF Selects
  <1> QED BY <1>4, <1>7

(* After is defined by a function over the prefixes of the log.             *)
LEMMA AfterSelects ==
  ASSUME NEW s \in Seq(Event), NEW c \in Nat
  PROVE  \E g : Selects(g, c, s) /\ After(c, s) = g[Len(s)]
  <1> DEFINE f == CHOOSE g : Selects(g, c, s)
  <1>1. After(c, s) = f[Len(s)]
    BY Zenon DEF After, Selects
  <1>2. Selects(f, c, s)
    <2>1. \E g : Selects(g, c, s)
      BY SelectsSome
    <2> QED BY <2>1
  <1> QED BY <1>1, <1>2

Increasing(s) == \A m, n \in DOMAIN s : m < n => s[m].id < s[n].id

(* Event e is in q, behind smaller ids only.                                *)
Behind(q, e) ==
  \E k \in DOMAIN q : q[k] = e /\ \A i \in 1..(k - 1) : q[i].id < e.id

(* q is what lies after c of the first m events of s.                       *)
Picked(q, m, c, s) ==
  /\ q \in Seq(Event)
  /\ \A k \in DOMAIN q : \E n \in 1..m : q[k] = s[n]
  /\ Increasing(s) => \A n \in 1..m : s[n].id > c => Behind(q, s[n])

(* An event stays behind what it is behind when others are appended.        *)
LEMMA BehindStays ==
  ASSUME NEW q \in Seq(Event), NEW r \in Seq(Event), NEW e, Behind(q, e)
  PROVE  Behind(q \o r, e)
  <1>1. PICK k \in DOMAIN q : q[k] = e /\ \A i \in 1..(k - 1) : q[i].id < e.id
    BY DEF Behind
  <1>2. k \in 1..Len(q) /\ Len(q) \in Nat
    OBVIOUS
  <1>3. \A i \in 1..Len(q) : i \in DOMAIN (q \o r) /\ (q \o r)[i] = q[i]
    OBVIOUS
  <1>4. (q \o r)[k] = e /\ \A i \in 1..(k - 1) : (q \o r)[i].id < e.id
    BY <1>1, <1>2, <1>3
  <1> QED
    BY <1>2, <1>3, <1>4 DEF Behind

(* One more event.                                                          *)
LEMMA PickedNext ==
  ASSUME NEW s \in Seq(Event), NEW c \in Nat, NEW m \in 1..Len(s),
         NEW q, Picked(q, m - 1, c, s)
  PROVE  Picked(IF s[m].id > c THEN Append(q, s[m]) ELSE q, m, c, s)
  <1>1. /\ s[m] \in Event /\ q \in Seq(Event) /\ m \in Nat /\ m \in DOMAIN s
        /\ \A n \in 1..m : n = m \/ n \in 1..(m - 1)
        /\ \A n \in 1..(m - 1) : n \in 1..m /\ n \in DOMAIN s
    BY DEF Picked
  <1>2. CASE s[m].id > c
    <2> DEFINE r == Append(q, s[m])
    <2>1. /\ r \in Seq(Event) /\ Len(q) \in Nat
          /\ DOMAIN r = DOMAIN q \cup {Len(q) + 1}
          /\ DOMAIN q = 1..Len(q)
          /\ r[Len(q) + 1] = s[m]
          /\ \A k \in DOMAIN q : r[k] = q[k]
      BY <1>1, Appended
    <2> HIDE DEF r
    <2>2. \A k \in DOMAIN r : \E n \in 1..m : r[k] = s[n]
      <3> SUFFICES ASSUME NEW k \in DOMAIN r PROVE \E n \in 1..m : r[k] = s[n]
        OBVIOUS
      <3>1. CASE k \in DOMAIN q
        <4>1. PICK n \in 1..(m - 1) : q[k] = s[n]
          BY <3>1 DEF Picked
        <4> QED BY <1>1, <2>1, <3>1, <4>1
      <3>2. CASE k = Len(q) + 1
        BY <2>1, <3>2
      <3> QED BY <2>1, <3>1, <3>2
    <2>3. ASSUME Increasing(s), NEW n \in 1..m, s[n].id > c
          PROVE  Behind(r, s[n])
      <3>1. CASE n = m
        <4>1. ASSUME NEW k \in DOMAIN q
              PROVE  q[k].id < s[m].id
          <5>1. PICK i \in 1..(m - 1) : q[k] = s[i]
            BY <4>1 DEF Picked
          <5>2. i \in DOMAIN s /\ i < m
            BY <1>1, <5>1
          <5> QED BY <1>1, <2>3, <5>1, <5>2 DEF Increasing
        <4>2. \A i \in 1..((Len(q) + 1) - 1) : r[i].id < s[m].id
          BY <2>1, <4>1
        <4> QED BY <2>1, <3>1, <4>2 DEF Behind
      <3>2. CASE n # m
        <4>1. n \in 1..(m - 1)
          BY <1>1, <3>2
        <4>2. PICK k \in DOMAIN q : q[k] = s[n] /\ \A i \in 1..(k - 1) : q[i].id < s[n].id
          BY <2>3, <4>1 DEF Picked, Behind
        <4>3. \A i \in 1..(k - 1) : i \in DOMAIN q
          BY <2>1
        <4>4. r[k] = s[n] /\ \A i \in 1..(k - 1) : r[i].id < s[n].id
          BY <2>1, <4>2, <4>3
        <4> QED BY <2>1, <4>4 DEF Behind
      <3> QED BY <3>1, <3>2
    <2>4. Picked(r, m, c, s)
      BY <2>1, <2>2, <2>3 DEF Picked
    <2> QED BY <1>2, <2>4 DEF r
  <1>3. CASE ~(s[m].id > c)
    <2>1. Picked(q, m, c, s)
      BY <1>1, <1>3 DEF Picked
    <2> QED BY <1>3, <2>1
  <1> QED BY <1>2, <1>3

(* What After lets through: events of the log, and in an increasing log all *)
(* that lie after c, in order.                                              *)
LEMMA AfterPicks ==
  ASSUME NEW s \in Seq(Event), NEW c \in Nat
  PROVE  Picked(After(c, s), Len(s), c, s)
  <1>1. PICK g : Selects(g, c, s) /\ After(c, s) = g[Len(s)]
    BY AfterSelects
  <1> DEFINE L == Len(s)
             Bad == {m \in 0..L : ~Picked(g[m], m, c, s)}
  <1>2. L \in Nat
    OBVIOUS
  <1>3. \A n \in 0..L :
          g[n] = IF n = 0 THEN <<>>
                 ELSE IF s[n].id > c THEN Append(g[n - 1], s[n])
                 ELSE g[n - 1]
    BY <1>1 DEF Selects
  <1>4. Bad = {}
    <2>1. SUFFICES ASSUME Bad # {} PROVE FALSE
      OBVIOUS
    <2>2. Bad \subseteq Nat
      BY <1>2
    <2>3. PICK m \in Bad : \A n \in Bad : m =< n
      BY <2>1, <2>2, LeastNumber
    <2>4. m \in 0..L /\ ~Picked(g[m], m, c, s)
      OBVIOUS
    <2>5. CASE m = 0
      <3>1. g[m] = <<>>
        BY <1>2, <1>3, <2>5
      <3>2. Picked(<<>>, 0, c, s)
        BY DEF Picked
      <3> QED BY <2>4, <2>5, <3>1, <3>2
    <2>6. CASE m # 0
      <3>1. m - 1 \in 0..L /\ m - 1 \notin Bad /\ m \in 1..L
        BY <1>2, <2>3, <2>4, <2>6
      <3>2. Picked(g[m - 1], m - 1, c, s)
        BY <3>1
      <3>3. g[m] = IF s[m].id > c THEN Append(g[m - 1], s[m]) ELSE g[m - 1]
        BY <1>3, <2>4, <2>6
      <3>4. Picked(g[m], m, c, s)
        BY <3>1, <3>2, <3>3, PickedNext
      <3> QED BY <2>4, <3>4
    <2> QED BY <2>5, <2>6
  <1>5. Picked(g[L], L, c, s)
    BY <1>2, <1>4
  <1> QED BY <1>1, <1>5

(* ---------------------- what the Core has received -----------------------*)

(* In front of e only what lies before it, e is behind all of it.           *)
LEMMA BehindAll ==
  ASSUME NEW q \in Seq(Event), NEW r \in Seq(Event), NEW e,
         \A k \in DOMAIN q : q[k].id < e.id, Behind(r, e)
  PROVE  Behind(q \o r, e)
  <1>1. PICK k \in DOMAIN r : r[k] = e /\ \A i \in 1..(k - 1) : r[i].id < e.id
    BY DEF Behind
  <1>2. /\ k \in 1..Len(r) /\ Len(r) \in Nat /\ Len(q) \in Nat
        /\ DOMAIN q = 1..Len(q)
    OBVIOUS
  <1>3. DOMAIN (q \o r) = 1..(Len(q) + Len(r))
    OBVIOUS
  <1>4. \A i \in 1..(Len(q) + Len(r)) :
          (q \o r)[i] = IF i =< Len(q) THEN q[i] ELSE r[i - Len(q)]
    OBVIOUS
  <1>5. Len(q) + k \in DOMAIN (q \o r) /\ (q \o r)[Len(q) + k] = e
    BY <1>1, <1>2, <1>3, <1>4
  <1>6. ASSUME NEW i \in 1..((Len(q) + k) - 1)
        PROVE  (q \o r)[i].id < e.id
    <2>1. i \in 1..(Len(q) + Len(r))
      BY <1>2
    <2>2. CASE i =< Len(q)
      <3>1. i \in DOMAIN q /\ (q \o r)[i] = q[i]
        BY <1>2, <1>4, <2>1, <2>2
      <3> QED BY <3>1
    <2>3. CASE ~(i =< Len(q))
      <3>1. i - Len(q) \in 1..(k - 1) /\ (q \o r)[i] = r[i - Len(q)]
        BY <1>2, <1>4, <2>1, <2>3
      <3> QED BY <1>1, <3>1
    <2> QED BY <2>2, <2>3
  <1> QED BY <1>5, <1>6 DEF Behind

(* An event behind the head of the queue is still there without the head.   *)
LEMMA BehindTail ==
  ASSUME NEW q \in Seq(Event), NEW e, q # <<>>, Behind(q, e), Head(q) # e
  PROVE  Behind(Tail(q), e)
  <1>1. PICK k \in DOMAIN q : q[k] = e /\ \A i \in 1..(k - 1) : q[i].id < e.id
    BY DEF Behind
  <1>2. /\ k \in 1..Len(q) /\ Len(q) \in Nat /\ Head(q) = q[1]
        /\ Tail(q) \in Seq(Event) /\ DOMAIN Tail(q) = 1..(Len(q) - 1)
        /\ \A i \in 1..(Len(q) - 1) : Tail(q)[i] = q[i + 1]
    OBVIOUS
  <1>3. k # 1
    BY <1>1, <1>2
  <1>4. k - 1 \in DOMAIN Tail(q) /\ Tail(q)[k - 1] = e
    BY <1>1, <1>2, <1>3
  <1>5. ASSUME NEW i \in 1..((k - 1) - 1)
        PROVE  Tail(q)[i].id < e.id
    <2>1. i + 1 \in 1..(k - 1) /\ i \in 1..(Len(q) - 1)
      BY <1>2
    <2> QED BY <1>1, <1>2, <2>1
  <1> QED BY <1>4, <1>5 DEF Behind

(* What is in a concatenation.                                              *)
LEMMA Joined ==
  ASSUME NEW q \in Seq(Event), NEW r \in Seq(Event)
  PROVE  /\ (q \o r) \in Seq(Event)
         /\ \A k \in DOMAIN (q \o r) :
              \/ k \in DOMAIN q /\ (q \o r)[k] = q[k]
              \/ k - Len(q) \in DOMAIN r /\ (q \o r)[k] = r[k - Len(q)]
         /\ q # <<>> => (q \o r) # <<>> /\ Head(q \o r) = Head(q)
  <1>1. /\ Len(q) \in Nat /\ Len(r) \in Nat
        /\ DOMAIN q = 1..Len(q) /\ DOMAIN r = 1..Len(r)
        /\ (q \o r) \in Seq(Event) /\ DOMAIN (q \o r) = 1..(Len(q) + Len(r))
        /\ Len(q \o r) = Len(q) + Len(r)
    OBVIOUS
  <1>2. \A i \in 1..(Len(q) + Len(r)) :
          (q \o r)[i] = IF i =< Len(q) THEN q[i] ELSE r[i - Len(q)]
    OBVIOUS
  <1>3. ASSUME q # <<>>
        PROVE  (q \o r) # <<>> /\ Head(q \o r) = Head(q)
    <2>1. Len(q) # 0 /\ Head(q) = q[1]
      BY <1>3
    <2>2. (q \o r)[1] = q[1] /\ Len(q \o r) # 0
      BY <1>1, <1>2, <2>1
    <2>3. (q \o r) # <<>>
      BY <2>2
    <2> QED BY <1>1, <2>1, <2>2, <2>3
  <1> QED BY <1>1, <1>2, <1>3

(* What the queue and the cursor hold comes from the log, and the live      *)
(* process has delivered exactly up to the cursor.                          *)
Delivering ==
  /\ queue \in Seq(Event)
  /\ delivered \in Nat
  /\ cursor \in Nat
  /\ flushed \in 0..Len(log)
  /\ live = NoLife => ~posted /\ ~failed /\ queue = <<>>
  /\ live # NoLife => delivered = cursor
  /\ posted => /\ queue # <<>> /\ ~failed
               /\ Head(queue) \in received /\ Head(queue).id > delivered
  /\ \A k \in DOMAIN queue : \E n \in DOMAIN log : queue[k] = log[n]
  /\ cursor # 0 => \E n \in DOMAIN log : log[n].id = cursor

(* Until delivery fails, every event the Core may still miss is in the      *)
(* queue, behind smaller ids only: the cursor cannot pass it.               *)
Covers ==
  /\ \A n \in DOMAIN log : log[n].id =< cursor => log[n] \in received
  /\ \A n \in 1..flushed : log[n] \in received
  /\ live # NoLife /\ ~failed =>
       \A n \in DOMAIN log : log[n].id > cursor => Behind(queue, log[n])

CoversInv == InOrder => Covers

(* The head and the tail of the queue.                                      *)
LEMMA HeadTail ==
  ASSUME NEW q \in Seq(Event), q # <<>>
  PROVE  /\ 1 \in DOMAIN q /\ Head(q) = q[1] /\ Head(q).id \in Nat \ {0}
         /\ Tail(q) \in Seq(Event)
         /\ \A k \in DOMAIN Tail(q) : k + 1 \in DOMAIN q /\ Tail(q)[k] = q[k + 1]
  <1>1. /\ Len(q) \in Nat /\ DOMAIN q = 1..Len(q) /\ Head(q) = q[1]
        /\ \A k \in 1..Len(q) : q[k] \in Event
    OBVIOUS
  <1>2. Len(q) # 0
    OBVIOUS
  <1>3. 1 \in DOMAIN q
    BY <1>1, <1>2
  <1>4. Head(q).id \in Nat \ {0}
    BY <1>1, <1>3 DEF Event
  <1>5. /\ Tail(q) \in Seq(Event) /\ DOMAIN Tail(q) = 1..(Len(q) - 1)
        /\ \A k \in 1..(Len(q) - 1) : Tail(q)[k] = q[k + 1]
    BY <1>1, <1>2
  <1> QED BY <1>1, <1>3, <1>4, <1>5

(* Every step keeps the positions of the delivery.                          *)
LEMMA DeliveringStep == LifeInv /\ Delivering /\ [Next]_vars => Delivering'
  <1> SUFFICES ASSUME LifeInv, Delivering, [Next]_vars
               PROVE  Delivering'
    OBVIOUS
  <1> USE EventLogAssumption
  <1>0. LogTypes /\ NothingHeld /\ Len(log) \in Nat /\ DOMAIN log = 1..Len(log)
    BY DEF LifeInv, LogTypes
  <1>1. CASE \E l \in Lives : Open(l)
    <2>1. /\ live = NoLife /\ live' # NoLife
          /\ delivered' = cursor
          /\ queue' = After(cursor, log)
          /\ UNCHANGED <<log, posted, failed, cursor, received, flushed>>
      BY <1>1 DEF Open
    <2>2. Picked(queue', Len(log), cursor, log)
      BY <1>0, <2>1, AfterPicks DEF LogTypes, Delivering
    <2>3. /\ queue' \in Seq(Event)
          /\ \A k \in DOMAIN queue' : \E n \in DOMAIN log : queue'[k] = log[n]
      BY <1>0, <2>2 DEF Picked
    <2> QED
      BY <2>1, <2>3 DEF Delivering
  <1>2. CASE \E w \in Writers : NextSequentialEventId(w)
    <2>1. UNCHANGED <<log, live, queue, posted, delivered, failed, cursor,
                      received, flushed>>
      BY <1>2 DEF NextSequentialEventId, delivery
    <2> QED BY <2>1 DEF Delivering
  <1>3. CASE \E w \in Writers : AppendEvent(w)
    <2>1. PICK w \in Writers : AppendEvent(w)
      BY <1>3
    <2> DEFINE e == [id |-> pending[w], life |-> live]
               new == After(delivered, <<e>>)
    <2>2. /\ live \in Lives
          /\ pending[w] # 0
          /\ log' = Append(log, e)
          /\ queue' = queue \/ queue' = queue \o new
          /\ UNCHANGED <<live, posted, delivered, failed, cursor, received, flushed>>
      BY <2>1 DEF AppendEvent
    <2>3. e \in Event /\ log \in Seq(Event)
      BY <2>2, <1>0 DEF LogTypes, Event
    <2> HIDE DEF e
    <2>4. /\ DOMAIN log' = DOMAIN log \cup {Len(log) + 1}
          /\ Len(log') = Len(log) + 1
          /\ log'[Len(log) + 1] = e
          /\ \A n \in DOMAIN log : log'[n] = log[n]
      BY <2>2, <2>3, Appended
    <2>5. <<e>> \in Seq(Event) /\ Len(<<e>>) = 1 /\ <<e>>[1] = e
      BY <2>3
    <2>6. Picked(new, 1, delivered, <<e>>)
      BY <2>5, AfterPicks DEF Delivering
    <2> HIDE DEF new
    <2>7. new \in Seq(Event) /\ \A k \in DOMAIN new : new[k] = e
      BY <2>5, <2>6 DEF Picked
    <2>8. /\ (queue \o new) \in Seq(Event)
          /\ \A k \in DOMAIN (queue \o new) :
               (queue \o new)[k] = e \/ (k \in DOMAIN queue /\ (queue \o new)[k] = queue[k])
          /\ queue # <<>> => queue \o new # <<>> /\ Head(queue \o new) = Head(queue)
      <3>1. queue \in Seq(Event)
        BY DEF Delivering
      <3>2. /\ (queue \o new) \in Seq(Event)
            /\ \A k \in DOMAIN (queue \o new) :
                 \/ k \in DOMAIN queue /\ (queue \o new)[k] = queue[k]
                 \/ k - Len(queue) \in DOMAIN new /\ (queue \o new)[k] = new[k - Len(queue)]
            /\ queue # <<>> => (queue \o new) # <<>> /\ Head(queue \o new) = Head(queue)
        BY <2>7, <3>1, Joined
      <3>3. \A k \in DOMAIN (queue \o new) :
              (queue \o new)[k] = e \/ (k \in DOMAIN queue /\ (queue \o new)[k] = queue[k])
        BY <2>7, <3>2
      <3> QED BY <3>2, <3>3
    <2>9. /\ queue' \in Seq(Event)
          /\ \A k \in DOMAIN queue' :
               queue'[k] = e \/ (k \in DOMAIN queue /\ queue'[k] = queue[k])
          /\ queue # <<>> => queue' # <<>> /\ Head(queue') = Head(queue)
      BY <2>2, <2>8 DEF Delivering
    <2>10. \A k \in DOMAIN queue' : \E n \in DOMAIN log' : queue'[k] = log'[n]
      BY <2>4, <2>9 DEF Delivering
    <2>11. flushed' \in 0..Len(log')
      BY <1>0, <2>2, <2>4 DEF Delivering
    <2>12. posted' => /\ queue' # <<>> /\ ~failed'
                      /\ Head(queue') \in received' /\ Head(queue').id > delivered'
      BY <2>2, <2>9 DEF Delivering
    <2>13. cursor' # 0 => \E n \in DOMAIN log' : log'[n].id = cursor'
      BY <2>2, <2>4 DEF Delivering
    <2> QED
      BY <2>2, <2>9, <2>10, <2>11, <2>12, <2>13 DEF Delivering
  <1>4. CASE SkipCallback \/ LoseCallback
    <2>1. /\ live # NoLife /\ queue # <<>> /\ ~posted
          /\ queue' = Tail(queue)
          /\ UNCHANGED <<log, live, posted, delivered, cursor, flushed>>
      BY <1>4 DEF SkipCallback, LoseCallback, Sinks
    <2>2. /\ queue' \in Seq(Event)
          /\ \A k \in DOMAIN queue' : \E n \in DOMAIN log : queue'[k] = log[n]
      BY <2>1, HeadTail DEF Delivering
    <2> QED BY <2>1, <2>2 DEF Delivering
  <1>5. CASE PostCallback
    <2>1. /\ live # NoLife /\ queue # <<>> /\ ~failed
          /\ Head(queue) \in received' /\ Head(queue).id > delivered
          /\ UNCHANGED <<log, live, queue, delivered, failed, cursor, flushed>>
      BY <1>5 DEF PostCallback, Sinks
    <2> QED BY <2>1 DEF Delivering
  <1>6. CASE WriteCursor
    <2>1. /\ posted /\ ~posted'
          /\ cursor' = Head(queue).id /\ delivered' = Head(queue).id
          /\ queue' = Tail(queue)
          /\ UNCHANGED <<log, live, failed, received, flushed>>
      BY <1>6 DEF WriteCursor
    <2>2. queue # <<>> /\ live # NoLife
      BY <2>1 DEF Delivering
    <2>3. /\ queue' \in Seq(Event)
          /\ \A k \in DOMAIN queue' : \E n \in DOMAIN log : queue'[k] = log[n]
      BY <2>1, <2>2, HeadTail DEF Delivering
    <2>4. cursor' \in Nat /\ \E n \in DOMAIN log : log[n].id = cursor'
      BY <2>1, <2>2, HeadTail DEF Delivering
    <2> QED BY <2>1, <2>2, <2>3, <2>4 DEF Delivering
  <1>7. CASE Close
    <2> DEFINE new == After(delivered, log)
    <2>1. /\ live # NoLife
          /\ queue' = queue \o new
          /\ UNCHANGED <<log, live, posted, delivered, failed, cursor, received, flushed>>
      BY <1>7 DEF Close
    <2>2. Picked(new, Len(log), delivered, log)
      BY <1>0, AfterPicks DEF LogTypes, Delivering
    <2> HIDE DEF new
    <2>3. /\ new \in Seq(Event)
          /\ \A k \in DOMAIN new : \E n \in DOMAIN log : new[k] = log[n]
      BY <1>0, <2>2 DEF Picked
    <2>4. /\ queue' \in Seq(Event)
          /\ \A k \in DOMAIN queue' :
               \/ k \in DOMAIN queue /\ queue'[k] = queue[k]
               \/ k - Len(queue) \in DOMAIN new /\ queue'[k] = new[k - Len(queue)]
          /\ queue # <<>> => queue' # <<>> /\ Head(queue') = Head(queue)
      BY <2>1, <2>3, Joined DEF Delivering
    <2>5. ASSUME NEW k \in DOMAIN queue'
          PROVE  \E n \in DOMAIN log : queue'[k] = log[n]
      <3>1. CASE k \in DOMAIN queue /\ queue'[k] = queue[k]
        BY <3>1 DEF Delivering
      <3>2. CASE k - Len(queue) \in DOMAIN new /\ queue'[k] = new[k - Len(queue)]
        BY <2>3, <3>2
      <3> QED BY <2>4, <3>1, <3>2
    <2> QED BY <2>1, <2>4, <2>5 DEF Delivering
  <1>8. CASE Closed \/ Crash
    <2>1. /\ live' = NoLife /\ queue' = <<>> /\ ~posted' /\ delivered' = 0 /\ ~failed'
          /\ UNCHANGED <<log, cursor, received>>
      BY <1>8 DEF Closed, Crash, Ends
    <2>2. flushed' = flushed \/ flushed' = Len(log)
      BY <1>8 DEF Closed, Crash
    <2>3. <<>> \in Seq(Event) /\ DOMAIN <<>> = {}
      OBVIOUS
    <2>4. flushed' \in 0..Len(log')
      BY <1>0, <2>1, <2>2 DEF Delivering
    <2> QED BY <2>1, <2>3, <2>4 DEF Delivering
  <1>9. CASE UNCHANGED vars
    BY <1>9 DEF vars, Delivering
  <1> QED
    BY <1>1, <1>2, <1>3, <1>4, <1>5, <1>6, <1>7, <1>8, <1>9 DEF Next

(* Every step keeps what the cursor covers, if every event is posted.       *)
LEMMA CoversStep ==
  ASSUME Silent = {}
  PROVE  /\ LifeInv /\ GrowsInv /\ GrowsInv' /\ Delivering /\ CoversInv /\ [Next]_vars
         => CoversInv'
  <1> SUFFICES ASSUME LifeInv, GrowsInv, GrowsInv', Delivering, CoversInv,
                      [Next]_vars, InOrder'
               PROVE  Covers'
    BY DEF CoversInv
  <1> USE EventLogAssumption
  <1>0. /\ LogTypes /\ NothingHeld /\ Len(log) \in Nat /\ DOMAIN log = 1..Len(log)
        /\ \A n \in DOMAIN log : log[n].id \in Nat \ {0}
    BY Lines DEF LifeInv, LogTypes
  <1>1. CASE \E l \in Lives : Open(l)
    <2>1. /\ queue' = After(cursor, log)
          /\ UNCHANGED <<log, cursor, received, flushed>>
      BY <1>1 DEF Open
    <2>2. Covers /\ Increasing(log)
      BY <2>1 DEF InOrder, CoversInv, GrowsInv, Grows, Increasing
    <2>3. Picked(queue', Len(log), cursor, log)
      BY <1>0, <2>1, AfterPicks DEF LogTypes, Delivering
    <2>4. \A n \in DOMAIN log : log[n].id > cursor => Behind(queue', log[n])
      BY <1>0, <2>2, <2>3 DEF Picked
    <2> QED BY <2>1, <2>2, <2>4 DEF Covers
  <1>2. CASE \E w \in Writers : NextSequentialEventId(w)
    <2>1. UNCHANGED <<log, live, queue, posted, delivered, failed, cursor,
                      received, flushed>>
      BY <1>2 DEF NextSequentialEventId, delivery
    <2> QED BY <2>1 DEF InOrder, CoversInv, Covers
  <1>3. CASE \E w \in Writers : AppendEvent(w)
    <2>1. PICK w \in Writers : AppendEvent(w)
      BY <1>3
    <2> DEFINE e == [id |-> pending[w], life |-> live]
               new == After(delivered, <<e>>)
    <2>2. /\ live \in Lives
          /\ pending[w] # 0
          /\ log' = Append(log, e)
          /\ queue' = queue \o new
          /\ UNCHANGED <<live, posted, delivered, failed, cursor, received, flushed>>
      BY <2>1 DEF AppendEvent
    <2>3. e \in Event /\ log \in Seq(Event)
      BY <2>2, <1>0 DEF LogTypes, Event
    <2> HIDE DEF e
    <2>4. /\ DOMAIN log' = DOMAIN log \cup {Len(log) + 1}
          /\ log'[Len(log) + 1] = e
          /\ \A n \in DOMAIN log : log'[n] = log[n]
      BY <2>2, <2>3, Appended
    <2>5. /\ <<e>> \in Seq(Event) /\ Len(<<e>>) = 1 /\ <<e>>[1] = e
          /\ DOMAIN <<e>> = 1..1 /\ e.id \in Nat \ {0}
      BY <2>3 DEF Event
    <2>6. Picked(new, 1, delivered, <<e>>)
      BY <2>5, AfterPicks DEF Delivering
    <2> HIDE DEF new
    <2>7. Increasing(<<e>>)
      BY <2>5 DEF Increasing
    <2>8. \A n \in DOMAIN log : log[n].id < e.id
      <3>1. \A m, n \in DOMAIN log' : m < n => log'[m].id < log'[n].id
        BY DEF GrowsInv, Grows
      <3> QED BY <1>0, <2>4, <3>1
    <2>9. e.id > cursor /\ delivered = cursor /\ live # NoLife /\ live' = live
      BY <2>2, <2>5, <2>8 DEF Delivering
    <2>10. Behind(new, e) /\ new \in Seq(Event) /\ queue \in Seq(Event)
      BY <2>5, <2>6, <2>7, <2>9 DEF Picked, Delivering
    <2>11. \A k \in DOMAIN queue : queue[k].id < e.id
      BY <2>8 DEF Delivering
    <2>12. Behind(queue \o new, e)
      BY <2>10, <2>11, BehindAll
    <2>13. InOrder
      BY <2>4, <1>0 DEF InOrder
    <2>14. Covers
      BY <2>13 DEF CoversInv
    <2>15. ~failed' => \A n \in DOMAIN log' : log'[n].id > cursor' => Behind(queue', log'[n])
      BY <2>2, <2>4, <2>9, <2>10, <2>12, <2>14, BehindStays DEF Covers
    <2>16. \A n \in DOMAIN log' : log'[n].id =< cursor' => log'[n] \in received'
      BY <2>2, <2>4, <2>5, <2>9, <2>14 DEF Covers, Delivering
    <2>17. \A n \in 1..flushed' : log'[n] \in received'
      BY <1>0, <2>2, <2>4, <2>14 DEF Covers, Delivering
    <2> QED BY <2>15, <2>16, <2>17 DEF Covers
  <1>4. CASE SkipCallback
    <2>1. /\ live # NoLife /\ queue # <<>>
          /\ failed \/ Head(queue).id =< cursor
          /\ queue' = Tail(queue)
          /\ UNCHANGED <<log, live, failed, cursor, received, flushed>>
      BY <1>4 DEF SkipCallback, Sinks, Delivering
    <2>2. Covers
      BY <2>1 DEF InOrder, CoversInv
    <2>3. ASSUME ~failed, NEW n \in DOMAIN log, log[n].id > cursor
          PROVE  Behind(queue', log[n])
      <3>1. Behind(queue, log[n]) /\ queue \in Seq(Event)
        BY <2>1, <2>2, <2>3 DEF Covers, Delivering
      <3>2. Head(queue) # log[n]
        BY <1>0, <2>1, <2>3 DEF Delivering
      <3> QED BY <2>1, <3>1, <3>2, BehindTail
    <2> QED BY <2>1, <2>2, <2>3 DEF Covers
  <1>5. CASE PostCallback
    <2>1. /\ received \subseteq received'
          /\ UNCHANGED <<log, live, queue, failed, cursor, flushed>>
      BY <1>5 DEF PostCallback
    <2>2. Covers
      BY <2>1 DEF InOrder, CoversInv
    <2> QED BY <2>1, <2>2 DEF Covers
  <1>6. CASE LoseCallback
    <2>1. /\ received \subseteq received' /\ failed'
          /\ UNCHANGED <<log, live, cursor, flushed>>
      BY <1>6 DEF LoseCallback
    <2>2. Covers
      BY <2>1 DEF InOrder, CoversInv
    <2> QED BY <2>1, <2>2 DEF Covers
  <1>7. CASE WriteCursor
    <2>1. /\ posted
          /\ cursor' = Head(queue).id
          /\ queue' = Tail(queue)
          /\ UNCHANGED <<log, live, failed, received, flushed>>
      BY <1>7 DEF WriteCursor
    <2>2. /\ queue # <<>> /\ queue \in Seq(Event) /\ live # NoLife /\ ~failed
          /\ Head(queue) \in received /\ cursor \in Nat /\ Head(queue).id > cursor
      BY <2>1 DEF Delivering
    <2>3. Covers
      BY <2>1 DEF InOrder, CoversInv
    <2>4. Head(queue).id \in Nat
      BY <2>2, HeadTail
    <2>5. ASSUME NEW n \in DOMAIN log, log[n].id > cursor
          PROVE  IF Head(queue) = log[n] THEN TRUE
                 ELSE Head(queue).id < log[n].id /\ Behind(Tail(queue), log[n])
      <3>1. Behind(queue, log[n])
        BY <2>2, <2>3, <2>5 DEF Covers
      <3>2. CASE Head(queue) # log[n]
        <4>1. Behind(Tail(queue), log[n])
          BY <2>2, <3>1, <3>2, BehindTail
        <4>2. PICK k \in DOMAIN queue :
                queue[k] = log[n] /\ \A i \in 1..(k - 1) : queue[i].id < log[n].id
          BY <3>1 DEF Behind
        <4>3. Head(queue) = queue[1] /\ k \in Nat \ {0}
          BY <2>2
        <4>4. 1 \in 1..(k - 1)
          BY <3>2, <4>2, <4>3
        <4>5. Head(queue).id < log[n].id
          BY <4>2, <4>3, <4>4
        <4> QED BY <3>2, <4>1, <4>5
      <3> QED BY <3>2
    <2>6. \A n \in DOMAIN log : log[n].id =< Head(queue).id => log[n] \in received
      <3> SUFFICES ASSUME NEW n \in DOMAIN log, log[n].id =< Head(queue).id
                   PROVE  log[n] \in received
        OBVIOUS
      <3>1. CASE log[n].id =< cursor
        BY <2>3, <3>1 DEF Covers
      <3>2. CASE log[n].id > cursor
        <4>1. Head(queue) = log[n]
          BY <1>0, <2>4, <2>5, <3>2
        <4> QED BY <2>2, <4>1
      <3> QED BY <1>0, <2>2, <3>1, <3>2
    <2>7. ASSUME NEW n \in DOMAIN log, log[n].id > Head(queue).id
          PROVE  Behind(Tail(queue), log[n])
      <3>1. log[n].id > cursor
        BY <1>0, <2>2, <2>4, <2>7
      <3> QED BY <1>0, <2>4, <2>5, <2>7, <3>1
    <2> QED BY <2>1, <2>3, <2>6, <2>7 DEF Covers
  <1>8. CASE Close
    <2>1. /\ queue' = queue \o After(delivered, log)
          /\ UNCHANGED <<log, live, failed, cursor, received, flushed>>
      BY <1>8 DEF Close
    <2>2. Covers
      BY <2>1 DEF InOrder, CoversInv
    <2>3. After(delivered, log) \in Seq(Event) /\ queue \in Seq(Event)
      BY <1>0, AfterPicks DEF LogTypes, Delivering, Picked
    <2> QED BY <2>1, <2>2, <2>3, BehindStays DEF Covers
  <1>9. CASE Closed \/ Crash
    <2>1. /\ live' = NoLife
          /\ UNCHANGED <<log, cursor, received>>
      BY <1>9 DEF Closed, Crash, Ends
    <2>2. Covers
      BY <2>1 DEF InOrder, CoversInv
    <2>3. CASE flushed' = flushed
      BY <2>1, <2>2, <2>3 DEF Covers
    <2>4. CASE ~failed /\ closing /\ queue = <<>> /\ flushed' = Len(log)
      <3>1. live # NoLife
        BY <1>0, <2>4 DEF NothingHeld
      <3>2. \A n \in DOMAIN log : ~Behind(queue, log[n])
        BY <2>4 DEF Behind
      <3>3. \A n \in DOMAIN log : log[n] \in received
        BY <1>0, <2>2, <2>4, <3>1, <3>2 DEF Covers, Delivering
      <3> QED BY <1>0, <2>1, <2>4, <3>3 DEF Covers
    <2> QED BY <1>9, <2>3, <2>4 DEF Closed, Crash
  <1>10. CASE UNCHANGED vars
    BY <1>10 DEF vars, InOrder, CoversInv, Covers
  <1> QED
    BY <1>1, <1>2, <1>3, <1>4, <1>5, <1>6, <1>7, <1>8, <1>9, <1>10 DEF Next

(* As long as every life has appended its events in the order of their ids  *)
(* (InOrder, the antecedent of CursorCovers) and every writer calls onEvent,*)
(* the cursor passes no event the Core has not received, and a run that     *)
(* ends without an error has delivered its whole log.  This holds for any   *)
(* number of lives, failed deliveries and crashes; of concurrent writers it *)
(* speaks only until one of them appends behind the larger id of another.   *)
THEOREM CursorCoversLog ==
  ASSUME Silent = {}
  PROVE  Spec => []CursorCovers
  <1> DEFINE Inv == LifeInv /\ GrowsInv /\ Delivering /\ CoversInv
  <1>1. Init => Inv
    <2>1. Init => GrowsInv /\ CoversInv
      BY DEF Init, GrowsInv, Grows, CoversInv, Covers
    <2>2. Init => Delivering
      BY DEF Init, Delivering
    <2> QED BY <2>1, <2>2, LifeInit
  <1>2. Inv /\ [Next]_vars => Inv'
    BY LifeStep, GrowsStep, DeliveringStep, CoversStep
  <1>3. Inv => CursorCovers
    BY DEF CoversInv, Covers, CursorCovers
  <1> QED
    BY <1>1, <1>2, <1>3, PTL DEF Spec
=============================================================================
