---------------------------- MODULE TQueueProofs ----------------------------
(***************************************************************************)
(* Proofs about TQueue, for any number of writers and consumers, any cap   *)
(* and any number of updates, failures and restarts.                       *)
(***************************************************************************)
EXTENDS TQueue, TQueueOpsProofs

-----------------------------------------------------------------------------
(* Type correctness.                                                       *)

\* Remove keeps the types of what it changes, for ids that are live.
LEMMA RemoveType ==
  ASSUME TypeOK, NEW p \in Procs, NEW S \in SUBSET DOMAIN events,
         Remove(p, S), UNCHANGED <<tail, nextLog>>
  PROVE  /\ DOMAIN events' \subseteq 1..tail' /\ events' \in [DOMAIN events' -> Event']
         /\ pops' \in [Procs -> SUBSET LogIds']
<1>1. DOMAIN events' = DOMAIN events \ S /\ \A i \in DOMAIN events \ S : events'[i] = events[i]
  BY DEF Remove, Without, Restrict
<1>2. events' = [i \in DOMAIN events \ S |-> events[i]]
  BY DEF Remove, Without, Restrict
<1>3. LogsOf(events, S) \in SUBSET LogIds
  BY DEF LogsOf, TypeOK, Event
<1>4. Event' = Event /\ LogIds' = LogIds
  BY DEF Event, LogIds
<1>5. pops' \in [Procs -> SUBSET LogIds]
  BY <1>3 DEF Remove, TypeOK
<1> QED
  BY <1>1, <1>2, <1>4, <1>5 DEF TypeOK

\* The events taken for an answer have the type of one.
LEMMA MatchingType ==
  ASSUME TypeOK, NEW from, NEW limit
  PROVE  {[id |-> i, upd |-> events[i].upd] : i \in Matching(events, from, now, limit)}
           \in SUBSET Reply
<1>1. Matching(events, from, now, limit) \subseteq DOMAIN events
  BY DEF Matching, Lowest
<1>2. \A i \in DOMAIN events : i \in EventIds /\ events[i].upd \in Updates
  BY BoundsAssumption DEF TypeOK, Event, EventIds
<1> QED
  BY <1>1, <1>2 DEF Reply

\* Every row Replay may restore has a winner among the rows with its id.
LEMMA WinnerExists ==
  ASSUME TypeOK, NEW loaded \in SUBSET rows, NEW r \in loaded
  PROVE  \E s \in Winners(loaded) : s.id = r.id
<1> DEFINE L == {s.log : s \in {t \in loaded : t.id = r.id}}
<1>1. L \in SUBSET (0..nextLog) /\ L # {} /\ nextLog \in Nat
  BY DEF TypeOK, Row, LogIds
<1> HIDE DEF L
<1>2. Greatest(L) \in L /\ \A l \in L : l <= Greatest(L)
  BY <1>1, GreatestOf
<1>3. PICK s \in loaded : s.id = r.id /\ s.log = Greatest(L)
  BY <1>2 DEF L
<1>4. \A t \in loaded : t.id = s.id => t.log <= s.log
  BY <1>2, <1>3 DEF L
<1> QED
  BY <1>3, <1>4 DEF Winners

\* What Replay puts in the map is a row it loaded, the last one with its id.
LEMMA ReplayedMap ==
  ASSUME TypeOK, NEW loaded \in SUBSET rows
  PROVE  /\ DOMAIN Replayed(loaded) = {r.id : r \in loaded}
         /\ \A i \in DOMAIN Replayed(loaded) :
              \E r \in Winners(loaded) :
                /\ r.id = i
                /\ Replayed(loaded)[i] = [exp |-> r.exp, log |-> r.log, upd |-> r.upd]
<1>1. DOMAIN Replayed(loaded) = {r.id : r \in loaded}
  BY DEF Replayed
<1>2. ASSUME NEW i \in {r.id : r \in loaded}
      PROVE  \E r \in Winners(loaded) :
                /\ r.id = i
                /\ Replayed(loaded)[i] = [exp |-> r.exp, log |-> r.log, upd |-> r.upd]
  <2> DEFINE c == CHOOSE r \in Winners(loaded) : r.id = i
  <2>1. \E r \in Winners(loaded) : r.id = i
    BY WinnerExists
  <2>2. c \in Winners(loaded) /\ c.id = i
    BY <2>1
  <2>3. Replayed(loaded)[i] = [exp |-> c.exp, log |-> c.log, upd |-> c.upd]
    BY DEF Replayed
  <2> QED
    BY <2>2, <2>3
<1> QED
  BY <1>1, <1>2

\* tail after Replay is at least every id on disk, and at most MaxID.
LEMMA TailOfRows ==
  ASSUME TypeOK, NEW loaded \in SUBSET rows
  PROVE  TailOf(loaded) \in 0..MaxID /\ \A r \in loaded : r.id <= TailOf(loaded)
<1> DEFINE S == {r.id : r \in loaded} \cup {0}
<1>1. S \in SUBSET (0..MaxID) /\ S # {} /\ MaxID \in Nat
  BY BoundsAssumption DEF TypeOK, Row, EventIds
<1> HIDE DEF S
<1>2. Greatest(S) \in S /\ \A j \in S : j <= Greatest(S)
  BY <1>1, GreatestOf
<1> QED
  BY <1>1, <1>2 DEF S, TailOf

LEMMA TypeInit == Init => TypeOK
  BY BoundsAssumption DEF Init, TypeOK, Event, Row, Reply, Pushing, LogIds, Idle

LEMMA TypeStep == TypeOK /\ [Next]_vars => TypeOK'
<1> SUFFICES ASSUME TypeOK, [Next]_vars PROVE TypeOK'
  OBVIOUS
<1> USE BoundsAssumption, InputsAssumption
<1>1. ASSUME NEW w \in Writers, PushEvent(w) PROVE TypeOK'
  <2>1. PICK hint \in Hints, ttl \in TTLs : PushWith(w, hint, ttl)
    BY <1>1 DEF PushEvent
  <2> DEFINE id   == NextID(hint)
             ev   == [exp |-> ExpiresAt(ttl), log |-> 0, upd |-> issued + 1]
             all  == Put(events, id, ev)
             trim == AllButLast(all, MaxQueueEvents)
  <2>2. id \in EventIds /\ id > tail /\ id \in Nat
    BY <2>1 DEF PushWith, NextID, TypeOK, EventIds
  <2>3. ev \in Event /\ issued + 1 \in Updates /\ ExpiresAt(ttl) \in Nat
    BY <2>1 DEF PushWith, ExpiresAt, TypeOK, Event, Updates
  <2>4. LogIds' = LogIds /\ Event' = Event /\ Row' = Row /\ Reply' = Reply /\ Pushing' = Pushing
    BY <2>1 DEF PushWith, store, LogIds, Event, Row, Reply, Pushing
  <2> HIDE DEF id, ev
  <2>5. all \in [DOMAIN events \cup {id} -> Event] /\ DOMAIN all = DOMAIN events \cup {id}
    BY <2>3 DEF Put, TypeOK
  <2>6. trim \subseteq DOMAIN all
    BY DEF AllButLast
  <2> HIDE DEF all, trim
  <2>7. events' = Without(all, trim) /\ tail' = id
    BY <2>1 DEF PushWith, all, trim, id, ev
  <2>8. DOMAIN events' = DOMAIN all \ trim /\ events' \in [DOMAIN events' -> Event]
    BY <2>5, <2>6, <2>7 DEF Without, Restrict
  <2>9. DOMAIN events' \subseteq 1..tail'
    BY <2>2, <2>5, <2>7, <2>8 DEF TypeOK
  <2>10. pops' \in [Procs -> SUBSET LogIds]
    <3>1. LogsOf(all, trim) \in SUBSET LogIds
      BY <2>5, <2>6 DEF LogsOf, Event
    <3> QED
      BY <2>1, <3>1 DEF PushWith, TypeOK, all, trim, id, ev
  <2>11. push' \in [Writers -> Pushing \cup {Idle}]
    <3>1. [pc |-> "insert", id |-> id, exp |-> ExpiresAt(ttl), upd |-> issued + 1, log |-> 0]
            \in Pushing
      BY <2>2, <2>3 DEF Pushing
    <3> QED
      BY <2>1, <3>1 DEF PushWith, TypeOK, id
  <2>12. /\ tail' \in 0..MaxID /\ issued' \in 0..MaxUpdates
         /\ UNCHANGED <<rows, nextLog, reply, gcNow, now, restarts, ack, delivered, confirmed, leaked>>
    BY <2>1, <2>2, <2>7 DEF PushWith, TypeOK, store, bot, EventIds
  <2> QED
    BY <2>4, <2>8, <2>9, <2>10, <2>11, <2>12 DEF TypeOK
<1>2. ASSUME NEW w \in Writers, PushFull(w) PROVE TypeOK'
  BY <1>2 DEF PushFull, TypeOK, memory, store, bot, Event, Row, Reply, Pushing, LogIds
<1>3. ASSUME NEW w \in Writers, InsertRow(w) PROVE TypeOK'
  <2>1. /\ push[w] \in Pushing /\ push[w].pc = "insert"
        /\ push[w].id \in EventIds /\ push[w].exp \in Nat /\ push[w].upd \in Updates
    BY <1>3 DEF InsertRow, TypeOK, Pushing, Idle
  <2>2. LogIds \subseteq LogIds' /\ nextLog \in LogIds' /\ nextLog' \in Nat \ {0}
    BY <1>3 DEF InsertRow, LogIds, TypeOK
  <2>3. Event \subseteq Event' /\ Row \subseteq Row' /\ Reply' = Reply /\ Pushing \subseteq Pushing'
    BY <2>2 DEF Event, Row, Reply, Pushing
  <2>4. rows' \subseteq Row'
    BY <1>3, <2>1, <2>2, <2>3 DEF InsertRow, TypeOK, Row
  <2>5. push' \in [Writers -> Pushing' \cup {Idle}]
    <3>1. push'[w] \in Pushing'
      BY <1>3, <2>1, <2>2 DEF InsertRow, TypeOK, Pushing
    <3> QED
      BY <1>3, <2>3, <3>1 DEF InsertRow, TypeOK
  <2>6. events' \in [DOMAIN events' -> Event'] /\ pops' \in [Procs -> SUBSET LogIds']
    BY <1>3, <2>2, <2>3 DEF InsertRow, TypeOK, memory
  <2> QED
    BY <1>3, <2>2, <2>3, <2>4, <2>5, <2>6 DEF InsertRow, TypeOK, memory, bot
<1>4. ASSUME NEW w \in Writers, InsertFails(w) PROVE TypeOK'
  BY <1>4 DEF InsertFails, TypeOK, memory, store, bot, Event, Row, Reply, Pushing, LogIds
<1>5. ASSUME NEW w \in Writers, RecordLog(w) PROVE TypeOK'
  <2>1. push[w].log \in LogIds /\ push[w].id \in DOMAIN events
    BY <1>5 DEF RecordLog, TypeOK, Pushing, Idle
  <2>2. Event' = Event /\ Row' = Row /\ Reply' = Reply /\ Pushing' = Pushing /\ LogIds' = LogIds
    BY <1>5 DEF RecordLog, store, Event, Row, Reply, Pushing, LogIds
  <2>3. DOMAIN events' = DOMAIN events /\ events' \in [DOMAIN events' -> Event]
    BY <1>5, <2>1 DEF RecordLog, TypeOK, Event
  <2>4. push' \in [Writers -> Pushing \cup {Idle}]
    BY <1>5 DEF RecordLog, TypeOK
  <2> QED
    BY <1>5, <2>2, <2>3, <2>4 DEF RecordLog, TypeOK, store, bot
<1>6. ASSUME NEW w \in Writers, UndoInsert(w) PROVE TypeOK'
  <2>1. push[w].log \in LogIds
    BY <1>6 DEF UndoInsert, TypeOK, Pushing, Idle
  <2>2. Event' = Event /\ Row' = Row /\ Reply' = Reply /\ Pushing' = Pushing /\ LogIds' = LogIds
    BY <1>6 DEF UndoInsert, Event, Row, Reply, Pushing, LogIds
  <2>3. push' \in [Writers -> Pushing \cup {Idle}]
    BY <1>6 DEF UndoInsert, TypeOK
  <2>4. rows' \subseteq rows /\ leaked' \subseteq leaked \cup {push[w].log}
    BY <1>6 DEF UndoInsert, StorePop
  <2> QED
    BY <1>6, <2>1, <2>2, <2>3, <2>4 DEF UndoInsert, TypeOK, memory, bot
<1>7. ASSUME NEW p \in Procs, PopOne(p) PROVE TypeOK'
  BY <1>7 DEF PopOne, StorePop, TypeOK, memory, store, bot, Event, Row, Reply, Pushing, LogIds
<1>8. ASSUME NEW c \in Consumers, Poll(c) PROVE TypeOK'
  BY <1>8, MatchingType DEF Poll, TypeOK, memory, store, bot, Event, Row, Reply, Pushing, LogIds
<1>9. ASSUME NEW c \in Consumers, Confirm(c) PROVE TypeOK'
  <2>1. LogIds' = LogIds /\ Event' = Event /\ Row' = Row /\ Reply' = Reply /\ Pushing' = Pushing
    BY <1>9 DEF Confirm, store, LogIds, Event, Row, Reply, Pushing
  <2>2. /\ DOMAIN events' \subseteq 1..tail' /\ events' \in [DOMAIN events' -> Event']
        /\ pops' \in [Procs -> SUBSET LogIds']
    BY <1>9, RemoveType DEF Confirm, store, UpTo, Procs
  <2>3. reply' \in [Consumers -> SUBSET Reply]
    BY <1>9, MatchingType DEF Confirm, TypeOK
  <2>4. confirmed' \subseteq Updates
    BY <1>9 DEF Confirm, TypeOK, UpTo, Event
  <2> QED
    BY <1>9, <2>1, <2>2, <2>3, <2>4 DEF Confirm, TypeOK, store
<1>10. ASSUME NEW c \in Consumers, Clear(c) PROVE TypeOK'
  <2>1. LogIds' = LogIds /\ Event' = Event /\ Row' = Row /\ Reply' = Reply /\ Pushing' = Pushing
    BY <1>10 DEF Clear, store, LogIds, Event, Row, Reply, Pushing
  <2>2. /\ DOMAIN events' \subseteq 1..tail' /\ events' \in [DOMAIN events' -> Event']
        /\ pops' \in [Procs -> SUBSET LogIds']
    BY <1>10, RemoveType DEF Clear, store, AllButLast, Procs
  <2> QED
    BY <1>10, <2>1, <2>2 DEF Clear, TypeOK, store, bot
<1>11. ASSUME NEW c \in Consumers, Forget(c) PROVE TypeOK'
  <2>1. LogIds' = LogIds /\ Event' = Event /\ Row' = Row /\ Reply' = Reply /\ Pushing' = Pushing
    BY <1>11 DEF Forget, store, LogIds, Event, Row, Reply, Pushing
  <2>2. /\ DOMAIN events' \subseteq 1..tail' /\ events' \in [DOMAIN events' -> Event']
        /\ pops' \in [Procs -> SUBSET LogIds']
    BY <1>11, RemoveType DEF Forget, store, Procs
  <2> QED
    BY <1>11, <2>1, <2>2 DEF Forget, TypeOK, store, bot
<1>12. ASSUME NEW c \in Consumers, Receive(c) PROVE TypeOK'
  <2> DEFINE ids == {x.id : x \in reply[c]} \cup {ack}
  <2>1. ids \in SUBSET (0..MaxID) /\ ids # {} /\ MaxID \in Nat
    BY <1>12 DEF TypeOK, Reply, EventIds
  <2>2. Greatest(ids) \in 0..MaxID
    BY <2>1, GreatestOf
  <2>3. delivered' \subseteq Updates
    BY <1>12 DEF Receive, TypeOK, Reply
  <2> QED
    BY <1>12, <2>2, <2>3
    DEF Receive, TypeOK, memory, store, Event, Row, Reply, Pushing, LogIds
<1>13. ASSUME NEW c \in Consumers, LoseReply(c) PROVE TypeOK'
  BY <1>13 DEF LoseReply, TypeOK, memory, store, bot, Event, Row, Reply, Pushing, LogIds
<1>14. CASE RunGC
  <2>1. LogIds' = LogIds /\ Event' = Event /\ Row' = Row /\ Reply' = Reply /\ Pushing' = Pushing
    BY <1>14 DEF RunGC, store, LogIds, Event, Row, Reply, Pushing
  <2>2. /\ DOMAIN events' \subseteq 1..tail' /\ events' \in [DOMAIN events' -> Event']
        /\ pops' \in [Procs -> SUBSET LogIds']
    BY <1>14, RemoveType DEF RunGC, store, ExpiredIds, Procs
  <2> QED
    BY <1>14, <2>1, <2>2 DEF RunGC, TypeOK, store, bot
<1>15. CASE StoreGC
  BY <1>15 DEF StoreGC, TypeOK, memory, store, bot, Event, Row, Reply, Pushing, LogIds, Outdated
<1>16. CASE Restart
  <2>1. PICK loaded \in {rows, {}} :
          /\ events' = Replayed(loaded)
          /\ tail' = TailOf(loaded)
          /\ leaked' = {r.log : r \in rows \ Winners(loaded)}
    BY <1>16 DEF Restart
  <2>2. loaded \in SUBSET rows
    OBVIOUS
  <2>3. LogIds' = LogIds /\ Event' = Event /\ Row' = Row /\ Reply' = Reply /\ Pushing' = Pushing
    BY <1>16 DEF Restart, store, LogIds, Event, Row, Reply, Pushing
  <2>4. \A r \in rows : r \in Row
    BY DEF TypeOK
  <2>5. events' \in [DOMAIN events' -> Event]
    <3>1. \A i \in DOMAIN events' : events'[i] \in Event
      <4> TAKE i \in DOMAIN events'
      <4>1. PICK r \in Winners(loaded) :
              /\ r.id = i
              /\ Replayed(loaded)[i] = [exp |-> r.exp, log |-> r.log, upd |-> r.upd]
        <5>1. i \in DOMAIN Replayed(loaded)
          BY <2>1
        <5> QED
          BY <2>2, <5>1, ReplayedMap
      <4>2. r \in Row
        BY <2>2, <2>4 DEF Winners
      <4> QED
        BY <2>1, <4>1, <4>2 DEF Row, Event
    <3> QED
      BY <2>1, <3>1 DEF Replayed
  <2>6. DOMAIN events' \subseteq 1..tail' /\ tail' \in 0..MaxID
    <3>1. DOMAIN events' = {r.id : r \in loaded}
      BY <2>1, <2>2, ReplayedMap
    <3>2. tail' \in 0..MaxID /\ \A r \in loaded : r.id <= tail'
      BY <2>1, <2>2, TailOfRows
    <3>3. \A r \in loaded : r.id \in EventIds
      BY <2>2, <2>4 DEF Row
    <3> QED
      BY <3>1, <3>2, <3>3 DEF EventIds
  <2>7. leaked' \subseteq LogIds
    BY <2>1, <2>4 DEF Row
  <2>8. /\ push' \in [Writers -> Pushing \cup {Idle}] /\ pops' \in [Procs -> SUBSET LogIds]
        /\ reply' \in [Consumers -> SUBSET Reply] /\ gcNow' \in 0..now /\ restarts' \in Nat
    BY <1>16 DEF Restart, TypeOK
  <2> QED
    BY <1>16, <2>3, <2>5, <2>6, <2>7, <2>8 DEF Restart, TypeOK, store, bot
<1>17. CASE Tick
  BY <1>17 DEF Tick, TypeOK, memory, store, bot, Event, Row, Reply, Pushing, LogIds
<1>18. CASE UNCHANGED vars
  BY <1>18 DEF vars, TypeOK, memory, store, bot, Event, Row, Reply, Pushing, LogIds
<1> QED
  BY <1>1, <1>2, <1>3, <1>4, <1>5, <1>6, <1>7, <1>8, <1>9, <1>10, <1>11, <1>12, <1>13,
     <1>14, <1>15, <1>16, <1>17, <1>18 DEF Next, FinishPush

\* Every variable has its type, whatever fails and whenever the process dies.
THEOREM TypeCorrect == Spec => []TypeOK
<1> QED
  BY TypeInit, TypeStep, PTL DEF Spec

-----------------------------------------------------------------------------
(* The kinds of steps, as far as events, rows and log ids are concerned.   *)

\* A push of an event under a fresh id; what it trims is left for w to pop.
PushStep(w, id, exp, upd) ==
  /\ push[w] = Idle /\ pops[w] = {}
  /\ id \in EventIds /\ id > tail /\ tail' = id
  /\ DOMAIN events' \subseteq DOMAIN events \cup {id}
  /\ \A i \in DOMAIN events' \ {id} : events'[i] = events[i]
  /\ id \in DOMAIN events' => events'[id] = [exp |-> exp, log |-> 0, upd |-> upd]
  /\ \A i \in DOMAIN events \ DOMAIN events' : events[i].log \in pops'[w] \cup {0}
  /\ \A l \in pops'[w] : \E i \in DOMAIN events \ DOMAIN events' : l = events[i].log
  /\ \A p \in Procs \ {w} : pops'[p] = pops[p]
  /\ push' = [push EXCEPT ![w] =
       [pc |-> "insert", id |-> id, exp |-> exp, upd |-> upd, log |-> 0]]
  /\ UNCHANGED <<rows, nextLog, leaked, now>>

\* A removal of ids by p.
RemoveStep(p, S) ==
  /\ pops[p] = {} /\ Remove(p, S)
  /\ UNCHANGED <<tail, rows, nextLog, push, leaked, now>>

\* A step of the readers, of the clock, or none.
QuietStep ==
  /\ UNCHANGED <<events, tail, rows, nextLog, push, pops, leaked>>
  /\ now' \in Nat /\ now <= now'

LEMMA PushIsPushStep ==
  ASSUME TypeOK, NEW w \in Writers, NEW hint \in Hints, NEW ttl \in TTLs, PushWith(w, hint, ttl)
  PROVE  \E id, exp, upd : PushStep(w, id, exp, upd)
<1> DEFINE id   == NextID(hint)
           exp  == ExpiresAt(ttl)
           upd  == issued + 1
           ev   == [exp |-> exp, log |-> 0, upd |-> upd]
           all  == Put(events, id, ev)
           trim == AllButLast(all, MaxQueueEvents)
<1>1. id \in EventIds /\ id > tail
  BY BoundsAssumption, InputsAssumption DEF PushWith, NextID, TypeOK, EventIds
<1>2. /\ push[w] = Idle /\ pops[w] = {} /\ tail' = id
      /\ events' = Without(all, trim)
      /\ pops' = [pops EXCEPT ![w] = LogsOf(all, trim)]
      /\ push' = [push EXCEPT ![w] =
           [pc |-> "insert", id |-> id, exp |-> exp, upd |-> upd, log |-> 0]]
      /\ UNCHANGED <<rows, nextLog, leaked, now>>
  BY DEF PushWith, store
<1>3. /\ DOMAIN all = DOMAIN events \cup {id} /\ all[id] = ev
      /\ \A i \in DOMAIN events \ {id} : all[i] = events[i]
  BY DEF Put
<1>4. trim \subseteq DOMAIN all
  BY DEF AllButLast
<1>5. id \notin DOMAIN events
  BY <1>1 DEF TypeOK
<1> HIDE DEF id, exp, upd, all, trim
<1>6. /\ DOMAIN events' = DOMAIN all \ trim
      /\ \A i \in DOMAIN events' : events'[i] = all[i]
  BY <1>2 DEF Without, Restrict
<1>7. pops'[w] = LogsOf(all, trim) /\ \A p \in Procs \ {w} : pops'[p] = pops[p]
  BY <1>2 DEF TypeOK, Procs
<1>8. \A i \in DOMAIN events \ DOMAIN events' : events[i].log \in pops'[w] \cup {0}
  BY <1>3, <1>5, <1>6, <1>7 DEF LogsOf
<1>9. \A l \in pops'[w] : \E i \in DOMAIN events \ DOMAIN events' : l = events[i].log
  <2> SUFFICES ASSUME NEW l \in pops'[w]
               PROVE  \E i \in DOMAIN events \ DOMAIN events' : l = events[i].log
    OBVIOUS
  <2>1. PICK i \in trim : l = all[i].log /\ l # 0
    BY <1>7 DEF LogsOf
  <2>2. i # id
    BY <2>1, <1>3
  <2> QED
    BY <2>1, <2>2, <1>3, <1>4, <1>6
<1>10. PushStep(w, id, exp, upd)
  BY <1>1, <1>2, <1>3, <1>6, <1>7, <1>8, <1>9 DEF PushStep
<1> QED
  BY <1>10

\* Every step is of one of these kinds.
LEMMA StepKinds ==
  ASSUME TypeOK, [Next]_vars
  PROVE  \/ \E w \in Writers : \E id, exp, upd : PushStep(w, id, exp, upd)
         \/ \E w \in Writers : FinishPush(w)
         \/ \E p \in Procs : PopOne(p)
         \/ \E p \in Procs : \E S \in SUBSET DOMAIN events : RemoveStep(p, S)
         \/ StoreGC \/ Restart \/ QuietStep
<1>1. ASSUME NEW w \in Writers, PushEvent(w)
      PROVE  \E id, exp, upd : PushStep(w, id, exp, upd)
  BY <1>1, PushIsPushStep DEF PushEvent
<1>2. ASSUME NEW w \in Writers, PushFull(w) PROVE QuietStep
  BY <1>2 DEF PushFull, QuietStep, memory, store, TypeOK
<1>3. ASSUME NEW c \in Consumers, Poll(c) \/ Receive(c) \/ LoseReply(c) PROVE QuietStep
  BY <1>3 DEF Poll, Receive, LoseReply, QuietStep, memory, store, TypeOK
<1>4. ASSUME NEW c \in Consumers, Confirm(c)
      PROVE  \E S \in SUBSET DOMAIN events : RemoveStep(c, S)
  <2>1. PICK from : Remove(c, UpTo(events, from))
    BY <1>4 DEF Confirm
  <2>2. UpTo(events, from) \in SUBSET DOMAIN events
    BY DEF UpTo
  <2> QED
    BY <1>4, <2>1, <2>2 DEF Confirm, Free, RemoveStep, store
<1>5. ASSUME NEW c \in Consumers, Clear(c)
      PROVE  \E S \in SUBSET DOMAIN events : RemoveStep(c, S)
  <2>1. PICK k : Remove(c, AllButLast(events, k))
    BY <1>5 DEF Clear
  <2>2. AllButLast(events, k) \in SUBSET DOMAIN events
    BY DEF AllButLast
  <2> QED
    BY <1>5, <2>1, <2>2 DEF Clear, Free, RemoveStep, store
<1>6. ASSUME NEW c \in Consumers, Forget(c)
      PROVE  \E S \in SUBSET DOMAIN events : RemoveStep(c, S)
  <2>1. PICK id \in DOMAIN events : Remove(c, {id})
    BY <1>6 DEF Forget
  <2> QED
    BY <1>6, <2>1 DEF Forget, Free, RemoveStep, store
<1>7. ASSUME RunGC
      PROVE  \E S \in SUBSET DOMAIN events : RemoveStep(GC, S)
  <2>1. ExpiredIds(events, now) \in SUBSET DOMAIN events
    BY DEF ExpiredIds
  <2> QED
    BY <1>7, <2>1 DEF RunGC, RemoveStep, store
<1>8. ASSUME Tick PROVE QuietStep
  BY <1>8 DEF Tick, QuietStep, memory, store, TypeOK
<1>9. ASSUME UNCHANGED vars PROVE QuietStep
  BY <1>9 DEF vars, QuietStep, memory, store, TypeOK
<1> QED
  BY <1>1, <1>2, <1>3, <1>4, <1>5, <1>6, <1>7, <1>8, <1>9 DEF Next, Procs

-----------------------------------------------------------------------------
(* The events of writers that have not recorded a log id yet.              *)

LEMMA PendingStep ==
  ASSUME TypeOK, PushPending, [Next]_vars
  PROVE  PushPending'
<1>1. ASSUME NEW w \in Writers, NEW id, NEW exp, NEW upd, PushStep(w, id, exp, upd)
      PROVE  PushPending'
  <2>1. /\ push'[w].id = id /\ push'[w].exp = exp /\ push'[w].upd = upd
        /\ \A v \in Writers \ {w} : push'[v] = push[v]
    BY <1>1 DEF PushStep, TypeOK
  <2>2. id > tail /\ tail' = id /\ tail \in Nat /\ id \in Nat
    BY <1>1 DEF PushStep, TypeOK, EventIds
  <2>3. ASSUME NEW v \in Writers \ {w}, push[v] # Idle
        PROVE  push[v].id <= tail /\ push[v].id # id /\ push[v].id \in Nat
    <3>1. push[v] \in Pushing /\ push[v].id <= tail
      BY <2>3 DEF TypeOK, PushPending
    <3>2. push[v].id \in Nat
      BY <3>1, BoundsAssumption DEF Pushing, EventIds
    <3> QED
      BY <2>2, <3>1, <3>2
  <2>4. ASSUME NEW v \in Writers, push'[v] # Idle
        PROVE  /\ push'[v].id <= tail'
               /\ push'[v].id \in DOMAIN events' =>
                    events'[push'[v].id] = [exp |-> push'[v].exp, log |-> 0, upd |-> push'[v].upd]
    <3>1. CASE v = w
      BY <1>1, <2>1, <2>2, <3>1 DEF PushStep
    <3>2. CASE v # w
      <4>1. push'[v] = push[v] /\ push[v] # Idle /\ push[v].id # id /\ push[v].id <= tail'
        BY <2>1, <2>2, <2>3, <2>4, <3>2
      <4>2. push[v].id \in DOMAIN events' =>
              push[v].id \in DOMAIN events /\ events'[push[v].id] = events[push[v].id]
        BY <1>1, <4>1 DEF PushStep
      <4> QED
        BY <4>1, <4>2 DEF PushPending
    <3> QED
      BY <3>1, <3>2
  <2>5. ASSUME NEW u \in Writers, NEW v \in Writers, u # v, push'[u] # Idle, push'[v] # Idle
        PROVE  push'[u].id # push'[v].id
    BY <2>1, <2>3, <2>5 DEF PushPending
  <2> QED
    BY <2>4, <2>5 DEF PushPending
<1>2. ASSUME NEW w \in Writers, InsertRow(w) PROVE PushPending'
  <2>1. /\ push[w] # Idle /\ push'[w].id = push[w].id
        /\ push'[w].exp = push[w].exp /\ push'[w].upd = push[w].upd
        /\ \A v \in Writers \ {w} : push'[v] = push[v]
        /\ UNCHANGED <<events, tail>>
    BY <1>2 DEF InsertRow, TypeOK, Pushing, Idle, memory
  <2> QED
    BY <2>1 DEF PushPending
<1>3. ASSUME NEW w \in Writers, InsertFails(w) \/ UndoInsert(w) PROVE PushPending'
  <2>1. /\ push'[w] = Idle /\ \A v \in Writers \ {w} : push'[v] = push[v]
        /\ UNCHANGED <<events, tail>>
    BY <1>3 DEF InsertFails, UndoInsert, TypeOK, memory
  <2> QED
    BY <2>1 DEF PushPending
<1>4. ASSUME NEW w \in Writers, RecordLog(w) PROVE PushPending'
  <2>1. /\ push[w] # Idle
        /\ push'[w] = Idle /\ \A v \in Writers \ {w} : push'[v] = push[v]
        /\ DOMAIN events' = DOMAIN events /\ tail' = tail
        /\ \A i \in DOMAIN events \ {push[w].id} : events'[i] = events[i]
    BY <1>4 DEF RecordLog, TypeOK, Idle
  <2>2. \A v \in Writers \ {w} : push[v] # Idle => push[v].id # push[w].id
    BY <2>1 DEF PushPending
  <2> QED
    BY <2>1, <2>2 DEF PushPending
<1>5. ASSUME NEW p \in Procs, NEW S \in SUBSET DOMAIN events, RemoveStep(p, S)
      PROVE  PushPending'
  <2>1. /\ DOMAIN events' = DOMAIN events \ S /\ UNCHANGED <<push, tail>>
        /\ \A i \in DOMAIN events' : events'[i] = events[i]
    BY <1>5 DEF RemoveStep, Remove, Without, Restrict
  <2> QED
    BY <2>1 DEF PushPending
<1>6. CASE Restart
  BY <1>6 DEF Restart, PushPending
<1>7. ASSUME UNCHANGED <<events, tail, push>> PROVE PushPending'
  BY <1>7 DEF PushPending
<1> QED
  BY <1>1, <1>2, <1>3, <1>4, <1>5, <1>6, <1>7, StepKinds
  DEF FinishPush, PopOne, StoreGC, QuietStep, memory

-----------------------------------------------------------------------------
(* Who owns a log id.                                                      *)

\* A step that leaves these variables alone keeps what LogsApart says.
LEMMA ApartFrame ==
  ASSUME LogsApart, UNCHANGED <<events, push, pops>>
  PROVE  LogsApart'
<1> QED
  BY DEF LogsApart

LEMMA ApartStep ==
  ASSUME TypeOK, PushPending, RowsBehindTail, LogsApart, [Next]_vars
  PROVE  LogsApart'
<1> USE DEF LogsApart
<1>1. ASSUME NEW w \in Writers, NEW id, NEW exp, NEW upd, PushStep(w, id, exp, upd)
      PROVE  LogsApart'
  <2>1. /\ push'[w].pc = "insert" /\ \A v \in Writers \ {w} : push'[v] = push[v]
    BY <1>1 DEF PushStep, TypeOK
  <2>2. \A v \in Writers : push'[v].pc = "record" => push'[v] = push[v]
    BY <2>1
  <2>3. \A i \in DOMAIN events' :
          \/ events'[i].log = 0
          \/ i \in DOMAIN events /\ events'[i] = events[i]
    BY <1>1 DEF PushStep
  <2>4. \A v \in Writers : push'[v].pc = "record" => push'[v].log # 0
    BY <2>2 DEF TypeOK, Pushing, Idle, LogIds
  <2>5. \A p \in Procs : 0 \notin pops'[p]
    BY <1>1, TypeStep DEF TypeOK, LogIds
  <2>6. \A p \in Procs : \A l \in pops'[p] :
          l \in pops[p] \/ \E j \in DOMAIN events \ DOMAIN events' : l = events[j].log
    BY <1>1 DEF PushStep
  <2>7. \A i \in DOMAIN events', p \in Procs : events'[i].log \notin pops'[p]
    BY <2>3, <2>5, <2>6
  <2>8. \A v \in Writers, p \in Procs : push'[v].pc = "record" => push'[v].log \notin pops'[p]
    BY <2>2, <2>6
  <2> QED
    BY <2>2, <2>3, <2>4, <2>7, <2>8
<1>2. ASSUME NEW w \in Writers, InsertRow(w) PROVE LogsApart'
  <2>1. /\ push'[w].log = nextLog /\ \A v \in Writers \ {w} : push'[v] = push[v]
        /\ UNCHANGED <<events, pops>>
    BY <1>2 DEF InsertRow, TypeOK, Pushing, Idle, memory
  <2>2. /\ \A i \in DOMAIN events : events[i].log # nextLog
        /\ \A v \in Writers : push[v].log # nextLog
        /\ \A p \in Procs : nextLog \notin pops[p]
    BY DEF TypeOK, Event, Pushing, Idle, LogIds
  <2> QED
    BY <2>1, <2>2
<1>3. ASSUME NEW w \in Writers, InsertFails(w) \/ UndoInsert(w) PROVE LogsApart'
  <2>1. /\ push'[w] = Idle /\ \A v \in Writers \ {w} : push'[v] = push[v]
        /\ UNCHANGED <<events, pops>>
    BY <1>3 DEF InsertFails, UndoInsert, TypeOK, memory
  <2>2. Idle.pc # "record"
    BY DEF Idle
  <2> QED
    BY <2>1, <2>2
<1>4. ASSUME NEW w \in Writers, RecordLog(w) PROVE LogsApart'
  <2>1. /\ push[w].pc = "record" /\ push[w].id \in DOMAIN events
        /\ push'[w] = Idle /\ \A v \in Writers \ {w} : push'[v] = push[v]
        /\ DOMAIN events' = DOMAIN events /\ UNCHANGED pops
        /\ events'[push[w].id].log = push[w].log
        /\ \A i \in DOMAIN events \ {push[w].id} : events'[i] = events[i]
    BY <1>4 DEF RecordLog, TypeOK, Event
  <2>2. Idle.pc # "record"
    BY DEF Idle
  <2> QED
    BY <2>1, <2>2
<1>5. ASSUME NEW p \in Procs, PopOne(p) PROVE LogsApart'
  <2>1. UNCHANGED <<events, push>> /\ \A q \in Procs : pops'[q] \subseteq pops[q]
    BY <1>5 DEF PopOne, TypeOK, memory
  <2> QED
    BY <2>1
<1>6. ASSUME NEW p \in Procs, NEW S \in SUBSET DOMAIN events, RemoveStep(p, S)
      PROVE  LogsApart'
  <2>1. /\ DOMAIN events' = DOMAIN events \ S /\ UNCHANGED push
        /\ \A i \in DOMAIN events' : events'[i] = events[i]
        /\ pops'[p] = {events[i].log : i \in S} \ {0}
        /\ \A q \in Procs \ {p} : pops'[q] = pops[q]
    BY <1>6 DEF RemoveStep, Remove, Without, Restrict, LogsOf, TypeOK
  <2> QED
    BY <2>1
<1>7. CASE Restart
  <2>1. PICK loaded \in {rows, {}} : events' = Replayed(loaded)
    BY <1>7 DEF Restart
  <2>2. /\ \A v \in Writers : push'[v].pc # "record"
        /\ \A p \in Procs : pops'[p] = {}
    BY <1>7 DEF Restart, Idle
  <2>3. ASSUME NEW i \in DOMAIN events', NEW j \in DOMAIN events', i # j
        PROVE  events'[i].log # events'[j].log
    <3>1. i \in DOMAIN Replayed(loaded) /\ j \in DOMAIN Replayed(loaded) /\ loaded \in SUBSET rows
      BY <2>1
    <3>2. PICK r \in Winners(loaded) :
            r.id = i /\ Replayed(loaded)[i] = [exp |-> r.exp, log |-> r.log, upd |-> r.upd]
      BY <3>1, ReplayedMap
    <3>3. PICK s \in Winners(loaded) :
            s.id = j /\ Replayed(loaded)[j] = [exp |-> s.exp, log |-> s.log, upd |-> s.upd]
      BY <3>1, ReplayedMap
    <3>4. r \in rows /\ s \in rows
      BY <3>1 DEF Winners
    <3> QED
      BY <2>1, <2>3, <3>2, <3>3, <3>4 DEF RowsBehindTail
  <2> QED
    BY <2>2, <2>3
<1> QED
  BY <1>1, <1>2, <1>3, <1>4, <1>5, <1>6, <1>7, StepKinds, ApartFrame
  DEF FinishPush, StoreGC, QuietStep, memory

-----------------------------------------------------------------------------
(* Every row has an owner, or a failed statement left it.                  *)

LEMMA OwnedStep ==
  ASSUME TypeOK, PushPending, RowsOwned, [Next]_vars
  PROVE  RowsOwned'
<1> SUFFICES ASSUME NEW r \in rows', r.log \notin leaked'
             PROVE  Owned(r.log)'
  BY DEF RowsOwned
<1>0. TypeOK'
  BY TypeStep
<1>1. ASSUME NEW w \in Writers, NEW id, NEW exp, NEW upd, PushStep(w, id, exp, upd)
      PROVE  Owned(r.log)'
  <2>1. Owned(r.log) /\ r.log # 0
    BY <1>1 DEF PushStep, RowsOwned, TypeOK, Row, LogIds
  <2>2. CASE \E i \in DOMAIN events : events[i].log = r.log
    <3>1. PICK i \in DOMAIN events : events[i].log = r.log
      BY <2>2
    <3>2. CASE i \in DOMAIN events'
      <4>1. i # id
        BY <1>1, <3>1 DEF PushStep, TypeOK
      <4> QED
        BY <1>1, <3>1, <3>2, <4>1 DEF PushStep, Owned
    <3>3. CASE i \notin DOMAIN events'
      BY <1>1, <2>1, <3>1, <3>3 DEF PushStep, Owned, Procs
    <3> QED
      BY <3>2, <3>3
  <2>3. CASE \E v \in Writers : push[v].pc = "record" /\ push[v].log = r.log
    <3>1. PICK v \in Writers : push[v].pc = "record" /\ push[v].log = r.log
      BY <2>3
    <3>2. v # w
      BY <1>1, <3>1 DEF PushStep, Idle
    <3>3. push'[v] = push[v]
      BY <1>1, <3>2 DEF PushStep, TypeOK
    <3> QED
      BY <3>1, <3>3 DEF Owned
  <2>4. CASE \E p \in Procs : r.log \in pops[p]
    BY <1>1, <2>4 DEF PushStep, Owned
  <2> QED
    BY <2>1, <2>2, <2>3, <2>4 DEF Owned
<1>2. ASSUME NEW w \in Writers, InsertRow(w) PROVE Owned(r.log)'
  <2>1. /\ push'[w].pc = "record" /\ push'[w].log = nextLog
        /\ push[w].pc = "insert" /\ \A v \in Writers \ {w} : push'[v] = push[v]
        /\ UNCHANGED <<events, pops, leaked>>
    BY <1>2 DEF InsertRow, TypeOK, Pushing, Idle, memory
  <2>2. r \in rows \/ r.log = nextLog
    BY <1>2 DEF InsertRow
  <2> QED
    BY <2>1, <2>2 DEF RowsOwned, Owned
<1>3. ASSUME NEW w \in Writers, InsertFails(w) PROVE Owned(r.log)'
  <2>1. /\ push[w].pc = "insert" /\ \A v \in Writers \ {w} : push'[v] = push[v]
        /\ UNCHANGED <<events, pops, leaked, rows>>
    BY <1>3 DEF InsertFails, TypeOK, memory, store
  <2> QED
    BY <2>1 DEF RowsOwned, Owned
<1>4. ASSUME NEW w \in Writers, UndoInsert(w) PROVE Owned(r.log)'
  <2>1. /\ \A v \in Writers \ {w} : push'[v] = push[v]
        /\ UNCHANGED <<events, pops>>
        /\ r \in rows /\ r.log \notin leaked /\ r.log # push[w].log
    BY <1>4 DEF UndoInsert, StorePop, TypeOK, memory
  <2> QED
    BY <2>1 DEF RowsOwned, Owned
<1>5. ASSUME NEW w \in Writers, RecordLog(w) PROVE Owned(r.log)'
  <2>1. /\ push[w] # Idle /\ push[w].id \in DOMAIN events
        /\ \A v \in Writers \ {w} : push'[v] = push[v]
        /\ DOMAIN events' = DOMAIN events /\ UNCHANGED <<pops, rows, leaked>>
        /\ events'[push[w].id].log = push[w].log
        /\ \A i \in DOMAIN events \ {push[w].id} : events'[i] = events[i]
    BY <1>5 DEF RecordLog, TypeOK, Event, Idle, store
  <2>2. events[push[w].id].log = 0
    <3>1. events[push[w].id] = [exp |-> push[w].exp, log |-> 0, upd |-> push[w].upd]
      BY <2>1 DEF PushPending
    <3> QED
      BY <3>1
  <2>3. Owned(r.log) /\ r.log # 0
    BY <2>1 DEF RowsOwned, TypeOK, Row, LogIds
  <2> QED
    BY <2>1, <2>2, <2>3 DEF Owned
<1>6. ASSUME NEW p \in Procs, PopOne(p) PROVE Owned(r.log)'
  <2>1. PICK l \in pops[p] : StorePop(l) /\ pops' = [pops EXCEPT ![p] = @ \ {l}]
    BY <1>6 DEF PopOne
  <2>2. r \in rows /\ r.log \notin leaked /\ r.log # l
    BY <2>1 DEF StorePop
  <2>3. \A q \in Procs : r.log \in pops[q] => r.log \in pops'[q]
    BY <2>1, <2>2 DEF TypeOK
  <2>4. UNCHANGED <<events, push>>
    BY <1>6 DEF PopOne, memory
  <2> QED
    BY <2>2, <2>3, <2>4 DEF RowsOwned, Owned
<1>7. ASSUME NEW p \in Procs, NEW S \in SUBSET DOMAIN events, RemoveStep(p, S)
      PROVE  Owned(r.log)'
  <2>1. /\ DOMAIN events' = DOMAIN events \ S /\ UNCHANGED <<push, rows, leaked>>
        /\ \A i \in DOMAIN events' : events'[i] = events[i]
        /\ pops'[p] = {events[i].log : i \in S} \ {0} /\ pops[p] = {}
        /\ \A q \in Procs \ {p} : pops'[q] = pops[q]
    BY <1>7 DEF RemoveStep, Remove, Without, Restrict, LogsOf, TypeOK
  <2>2. Owned(r.log) /\ r.log # 0
    BY <2>1 DEF RowsOwned, TypeOK, Row, LogIds
  <2> QED
    BY <2>1, <2>2 DEF Owned
<1>8. CASE StoreGC
  BY <1>8 DEF StoreGC, Outdated, RowsOwned, Owned, memory
<1>9. CASE Restart
  <2>1. PICK loaded \in {rows, {}} :
          events' = Replayed(loaded) /\ leaked' = {s.log : s \in rows \ Winners(loaded)}
    BY <1>9 DEF Restart
  <2>2. r \in Winners(loaded) /\ loaded \in SUBSET rows
    BY <1>9, <2>1 DEF Restart, store
  <2>3. r \in loaded /\ \A s \in Winners(loaded) : s.id = r.id => s.log = r.log
    <3>1. \A s \in rows : s.log \in Int
      BY DEF TypeOK, Row, LogIds
    <3> QED
      BY <2>2, <3>1 DEF Winners
  <2>4. r.id \in DOMAIN Replayed(loaded)
    <3>1. DOMAIN Replayed(loaded) = {s.id : s \in loaded}
      BY <2>2, ReplayedMap
    <3> QED
      BY <2>3, <3>1
  <2>5. PICK s \in Winners(loaded) :
          s.id = r.id /\ Replayed(loaded)[r.id] = [exp |-> s.exp, log |-> s.log, upd |-> s.upd]
    BY <2>2, <2>4, ReplayedMap
  <2>6. events'[r.id].log = r.log /\ r.id \in DOMAIN events'
    BY <2>1, <2>3, <2>4, <2>5
  <2> QED
    BY <2>6 DEF Owned
<1>10. CASE QuietStep
  BY <1>10 DEF QuietStep, RowsOwned, Owned
<1> QED
  BY <1>1, <1>2, <1>3, <1>4, <1>5, <1>6, <1>7, <1>8, <1>9, <1>10, StepKinds DEF FinishPush

-----------------------------------------------------------------------------
(* What is recorded is on disk.                                            *)

\* An event that has not expired now had not expired before.
LEMMA ExpiryMonotone ==
  ASSUME NEW t \in Nat, NEW u \in Nat, t <= u, NEW ev, ev.exp \in Nat, ~Expired(ev, u)
  PROVE  ~Expired(ev, t)
<1> QED
  BY DEF Expired

\* A step that records no log id and deletes no row leaves every row in place.
LEMMA DiskFrame ==
  ASSUME TypeOK, LiveEventsDurable, InsertedOnDisk, now' \in Nat, now <= now', rows \subseteq rows',
         \A i \in DOMAIN events' :
           events'[i].log = 0 \/ (i \in DOMAIN events /\ events'[i] = events[i]),
         \A w \in Writers : push'[w].pc = "record" => push'[w] = push[w]
  PROVE  LiveEventsDurable' /\ InsertedOnDisk'
<1>1. ASSUME NEW i \in DOMAIN events', events'[i].log # 0, ~Expired(events'[i], now')
      PROVE  [log |-> events'[i].log, id |-> i, exp |-> events'[i].exp, upd |-> events'[i].upd]
               \in rows'
  <2>1. events'[i] = events[i] /\ i \in DOMAIN events /\ events[i].exp \in Nat
    BY <1>1 DEF TypeOK, Event
  <2>2. ~Expired(events[i], now)
    BY <1>1, <2>1, ExpiryMonotone DEF TypeOK
  <2> QED
    BY <1>1, <2>1, <2>2 DEF LiveEventsDurable
<1>2. ASSUME NEW w \in Writers, push'[w].pc = "record", ~Expired(push'[w], now')
      PROVE  [log |-> push'[w].log, id |-> push'[w].id, exp |-> push'[w].exp, upd |-> push'[w].upd]
               \in rows'
  <2>1. push'[w] = push[w] /\ push[w].exp \in Nat
    BY <1>2 DEF TypeOK, Pushing, Idle
  <2>2. ~Expired(push[w], now)
    BY <1>2, <2>1, ExpiryMonotone DEF TypeOK
  <2> QED
    BY <1>2, <2>1, <2>2 DEF InsertedOnDisk
<1> QED
  BY <1>1, <1>2 DEF LiveEventsDurable, InsertedOnDisk

\* Deleting the row of a log id that no event and no recording writer has.
LEMMA PopKeepsOthers ==
  ASSUME LiveEventsDurable, InsertedOnDisk, NEW l, StorePop(l), UNCHANGED <<events, now>>,
         \A i \in DOMAIN events : events[i].log # l,
         \A w \in Writers : push'[w].pc = "record" => push'[w] = push[w] /\ push[w].log # l
  PROVE  LiveEventsDurable' /\ InsertedOnDisk'
<1>1. \A r \in rows : r.log # l => r \in rows'
  BY DEF StorePop
<1>2. ASSUME NEW i \in DOMAIN events', events'[i].log # 0, ~Expired(events'[i], now')
      PROVE  [log |-> events'[i].log, id |-> i, exp |-> events'[i].exp, upd |-> events'[i].upd]
               \in rows'
  <2>1. [log |-> events[i].log, id |-> i, exp |-> events[i].exp, upd |-> events[i].upd] \in rows
    BY <1>2 DEF LiveEventsDurable
  <2> QED
    BY <1>1, <2>1
<1>3. ASSUME NEW w \in Writers, push'[w].pc = "record", ~Expired(push'[w], now')
      PROVE  [log |-> push'[w].log, id |-> push'[w].id, exp |-> push'[w].exp, upd |-> push'[w].upd]
               \in rows'
  <2>1. [log |-> push[w].log, id |-> push[w].id, exp |-> push[w].exp, upd |-> push[w].upd] \in rows
    BY <1>3 DEF InsertedOnDisk
  <2> QED
    BY <1>1, <1>3, <2>1
<1> QED
  BY <1>2, <1>3 DEF LiveEventsDurable, InsertedOnDisk

LEMMA DurableStep ==
  ASSUME TypeOK, PushPending, LogsApart, LiveEventsDurable, InsertedOnDisk, [Next]_vars
  PROVE  LiveEventsDurable' /\ InsertedOnDisk'
<1> DEFINE Goal == LiveEventsDurable' /\ InsertedOnDisk'
<1>0. now \in Nat /\ now <= now
  BY DEF TypeOK
<1>1. ASSUME NEW w \in Writers, NEW id, NEW exp, NEW upd, PushStep(w, id, exp, upd)
      PROVE  Goal
  <2>1. \A i \in DOMAIN events' :
          events'[i].log = 0 \/ (i \in DOMAIN events /\ events'[i] = events[i])
    <3> TAKE i \in DOMAIN events'
    <3>1. CASE i = id
      <4>1. events'[id] = [exp |-> exp, log |-> 0, upd |-> upd]
        BY <1>1, <3>1 DEF PushStep
      <4>2. events'[id].log = 0
        BY <4>1
      <4> QED
        BY <3>1, <4>2
    <3>2. CASE i # id
      BY <1>1, <3>2 DEF PushStep
    <3> QED
      BY <3>1, <3>2
  <2>2. \A v \in Writers : push'[v].pc = "record" => push'[v] = push[v]
    BY <1>1 DEF PushStep, TypeOK
  <2>3. UNCHANGED <<rows, now>>
    BY <1>1 DEF PushStep
  <2> QED
    BY <1>0, <2>1, <2>2, <2>3, DiskFrame
<1>2. ASSUME NEW w \in Writers, InsertRow(w) PROVE Goal
  <2>1. /\ push'[w].id = push[w].id /\ push'[w].exp = push[w].exp /\ push'[w].upd = push[w].upd
        /\ push'[w].log = nextLog
        /\ \A v \in Writers \ {w} : push'[v] = push[v]
        /\ UNCHANGED <<events, now>> /\ rows \subseteq rows'
        /\ [log |-> nextLog, id |-> push[w].id, exp |-> push[w].exp, upd |-> push[w].upd] \in rows'
    BY <1>2 DEF InsertRow, TypeOK, Pushing, Idle, memory
  <2>2. LiveEventsDurable'
    BY <2>1 DEF LiveEventsDurable
  <2>3. InsertedOnDisk'
    BY <2>1 DEF InsertedOnDisk
  <2> QED
    BY <2>2, <2>3
<1>3. ASSUME NEW w \in Writers, InsertFails(w) PROVE Goal
  <2>1. /\ push'[w] = Idle /\ \A v \in Writers \ {w} : push'[v] = push[v]
        /\ UNCHANGED <<events, rows, now>>
    BY <1>3 DEF InsertFails, TypeOK, memory, store
  <2> QED
    BY <1>0, <2>1, DiskFrame DEF Idle
<1>4. ASSUME NEW w \in Writers, UndoInsert(w) PROVE Goal
  <2>1. /\ push'[w] = Idle /\ \A v \in Writers \ {w} : push'[v] = push[v]
        /\ push[w].pc = "record" /\ StorePop(push[w].log) /\ UNCHANGED <<events, now>>
    BY <1>4 DEF UndoInsert, TypeOK, memory
  <2>2. \A i \in DOMAIN events : events[i].log # push[w].log
    BY <2>1 DEF LogsApart
  <2>3. \A v \in Writers : push'[v].pc = "record" => push'[v] = push[v] /\ push[v].log # push[w].log
    BY <2>1 DEF LogsApart, Idle
  <2> QED
    BY <2>1, <2>2, <2>3, PopKeepsOthers
<1>5. ASSUME NEW w \in Writers, RecordLog(w) PROVE Goal
  <2> DEFINE id == push[w].id
  <2>1. /\ push[w].pc = "record" /\ push[w] # Idle /\ id \in DOMAIN events
        /\ push'[w] = Idle /\ \A v \in Writers \ {w} : push'[v] = push[v]
        /\ DOMAIN events' = DOMAIN events /\ UNCHANGED <<rows, now>>
        /\ events'[id].log = push[w].log /\ events'[id].exp = events[id].exp
        /\ events'[id].upd = events[id].upd
        /\ \A i \in DOMAIN events \ {id} : events'[i] = events[i]
    BY <1>5 DEF RecordLog, TypeOK, Event, Idle, store
  <2>2. events[id] = [exp |-> push[w].exp, log |-> 0, upd |-> push[w].upd]
    BY <2>1 DEF PushPending
  <2>3. ASSUME ~Expired(events'[id], now')
        PROVE  [log |-> events'[id].log, id |-> id, exp |-> events'[id].exp, upd |-> events'[id].upd]
                 \in rows'
    <3>1. ~Expired(push[w], now)
      BY <2>1, <2>2, <2>3 DEF Expired
    <3>2. [log |-> push[w].log, id |-> id, exp |-> push[w].exp, upd |-> push[w].upd] \in rows
      BY <2>1, <3>1 DEF InsertedOnDisk
    <3> QED
      BY <2>1, <2>2, <3>2
  <2> HIDE DEF id
  <2>4. LiveEventsDurable'
    BY <2>1, <2>3 DEF LiveEventsDurable
  <2>5. InsertedOnDisk'
    BY <2>1 DEF InsertedOnDisk, Idle
  <2> QED
    BY <2>4, <2>5
<1>6. ASSUME NEW p \in Procs, PopOne(p) PROVE Goal
  <2>1. PICK l \in pops[p] : StorePop(l)
    BY <1>6 DEF PopOne
  <2>2. UNCHANGED <<events, push, now>>
    BY <1>6 DEF PopOne, memory
  <2>3. /\ \A i \in DOMAIN events : events[i].log # l
        /\ \A v \in Writers : push[v].pc = "record" => push[v].log # l
    BY DEF LogsApart
  <2> QED
    BY <2>1, <2>2, <2>3, PopKeepsOthers
<1>7. ASSUME NEW p \in Procs, NEW S \in SUBSET DOMAIN events, RemoveStep(p, S)
      PROVE  Goal
  <2>1. /\ DOMAIN events' = DOMAIN events \ S /\ UNCHANGED <<push, rows, now>>
        /\ \A i \in DOMAIN events' : events'[i] = events[i]
    BY <1>7 DEF RemoveStep, Remove, Without, Restrict
  <2> QED
    BY <1>0, <2>1, DiskFrame
<1>8. CASE StoreGC
  <2>1. UNCHANGED <<events, push, now>> /\ gcNow \in Nat /\ gcNow <= now
    BY <1>8 DEF StoreGC, memory, TypeOK
  <2>2. ASSUME NEW r \in rows, r.exp \in Nat, ~Expired(r, now)
        PROVE  r \in rows'
    <3>1. ~Expired(r, gcNow)
      BY <1>0, <2>1, <2>2, ExpiryMonotone
    <3> QED
      BY <1>8, <3>1 DEF StoreGC, Outdated
  <2>3. LiveEventsDurable'
    <3> SUFFICES ASSUME NEW i \in DOMAIN events, events[i].log # 0, ~Expired(events[i], now)
                 PROVE  [log |-> events[i].log, id |-> i, exp |-> events[i].exp,
                         upd |-> events[i].upd] \in rows'
      BY <2>1 DEF LiveEventsDurable
    <3> DEFINE r == [log |-> events[i].log, id |-> i, exp |-> events[i].exp, upd |-> events[i].upd]
    <3>1. r \in rows
      BY DEF LiveEventsDurable
    <3>2. r.exp \in Nat /\ ~Expired(r, now)
      BY DEF Expired, TypeOK, Event
    <3> QED
      BY <2>2, <3>1, <3>2
  <2>4. InsertedOnDisk'
    <3> SUFFICES ASSUME NEW w \in Writers, push[w].pc = "record", ~Expired(push[w], now)
                 PROVE  [log |-> push[w].log, id |-> push[w].id, exp |-> push[w].exp,
                         upd |-> push[w].upd] \in rows'
      BY <2>1 DEF InsertedOnDisk
    <3> DEFINE r == [log |-> push[w].log, id |-> push[w].id, exp |-> push[w].exp, upd |-> push[w].upd]
    <3>1. r \in rows
      BY DEF InsertedOnDisk
    <3>2. r.exp \in Nat /\ ~Expired(r, now)
      BY DEF Expired, TypeOK, Pushing, Idle
    <3> QED
      BY <2>2, <3>1, <3>2
  <2> QED
    BY <2>3, <2>4
<1>9. CASE Restart
  <2>1. PICK loaded \in {rows, {}} : events' = Replayed(loaded)
    BY <1>9 DEF Restart
  <2>2. rows' = rows /\ loaded \in SUBSET rows /\ \A v \in Writers : push'[v].pc # "record"
    BY <1>9 DEF Restart, store, Idle
  <2>3. ASSUME NEW i \in DOMAIN events'
        PROVE  [log |-> events'[i].log, id |-> i, exp |-> events'[i].exp, upd |-> events'[i].upd]
                 \in rows'
    <3>1. i \in DOMAIN Replayed(loaded)
      BY <2>1
    <3>2. PICK r \in Winners(loaded) :
            r.id = i /\ Replayed(loaded)[i] = [exp |-> r.exp, log |-> r.log, upd |-> r.upd]
      BY <2>2, <3>1, ReplayedMap
    <3>3. r \in rows /\ r \in Row
      BY <2>2 DEF Winners, TypeOK
    <3>4. r = [log |-> r.log, id |-> r.id, exp |-> r.exp, upd |-> r.upd]
      BY <3>3 DEF Row
    <3> QED
      BY <2>1, <2>2, <3>2, <3>3, <3>4
  <2>4. LiveEventsDurable'
    BY <2>3 DEF LiveEventsDurable
  <2>5. InsertedOnDisk'
    BY <2>2 DEF InsertedOnDisk
  <2> QED
    BY <2>4, <2>5
<1>10. CASE QuietStep
  BY <1>10, DiskFrame DEF QuietStep
<1> QED
  BY <1>1, <1>2, <1>3, <1>4, <1>5, <1>6, <1>7, <1>8, <1>9, <1>10, StepKinds DEF FinishPush

-----------------------------------------------------------------------------
(* Event ids on disk.                                                      *)

LEMMA RowIdsStep ==
  ASSUME TypeOK, PushPending, RowIdsUnique, RowsBehindTail, [Next]_vars
  PROVE  RowIdsUnique' /\ RowsBehindTail'
<1> DEFINE Goal == RowIdsUnique' /\ RowsBehindTail'
<1>1. ASSUME NEW w \in Writers, NEW id, NEW exp, NEW upd, PushStep(w, id, exp, upd)
      PROVE  Goal
  <2>1. /\ UNCHANGED <<rows, leaked>>
        /\ id > tail /\ tail' = id /\ tail \in Nat /\ id \in Nat
        /\ push'[w].id = id /\ \A v \in Writers \ {w} : push'[v] = push[v]
    BY <1>1, BoundsAssumption DEF PushStep, TypeOK, EventIds
  <2>2. ASSUME NEW r \in rows, r.log \notin leaked
        PROVE  r.id <= tail' /\ r.id # id
    <3>1. r.id <= tail /\ r.id \in Nat
      BY <2>2, BoundsAssumption DEF RowsBehindTail, TypeOK, Row, EventIds
    <3> QED
      BY <2>1, <3>1
  <2> QED
    BY <2>1, <2>2 DEF RowIdsUnique, RowsBehindTail
<1>2. ASSUME NEW w \in Writers, InsertRow(w) PROVE Goal
  <2> DEFINE new == [log |-> nextLog, id |-> push[w].id, exp |-> push[w].exp, upd |-> push[w].upd]
  <2>1. /\ rows' = rows \cup {new} /\ UNCHANGED <<leaked, tail>>
        /\ push[w].pc = "insert" /\ push[w] # Idle
        /\ push'[w].pc = "record" /\ \A v \in Writers \ {w} : push'[v] = push[v]
    BY <1>2 DEF InsertRow, TypeOK, Pushing, Idle, memory
  <2>2. new.log = nextLog /\ new.id = push[w].id
    OBVIOUS
  <2> HIDE DEF new
  <2>3. \A r \in rows : r.log # nextLog
    BY DEF TypeOK, Row, LogIds
  <2>4. \A r \in rows : r.log \notin leaked => r.id # new.id
    BY <2>1, <2>2 DEF RowsBehindTail
  <2>5. new.id <= tail
    BY <2>1, <2>2 DEF PushPending
  <2>6. \A v \in Writers : push'[v].pc = "insert" => push'[v] = push[v] /\ push[v].id # new.id
    BY <2>1, <2>2 DEF PushPending, Idle
  <2>7. RowIdsUnique'
    BY <2>1, <2>4 DEF RowIdsUnique
  <2>8. RowsBehindTail'
    BY <2>1, <2>2, <2>3, <2>5, <2>6 DEF RowsBehindTail
  <2> QED
    BY <2>7, <2>8
<1>3. ASSUME NEW w \in Writers, InsertFails(w) \/ RecordLog(w) PROVE Goal
  <2>1. /\ push'[w] = Idle /\ \A v \in Writers \ {w} : push'[v] = push[v]
        /\ UNCHANGED <<rows, leaked, tail>>
    BY <1>3 DEF InsertFails, RecordLog, TypeOK, memory, store
  <2> QED
    BY <2>1 DEF RowIdsUnique, RowsBehindTail, Idle
<1>4. ASSUME rows' \subseteq rows, leaked \subseteq leaked', UNCHANGED tail,
             \A v \in Writers : push'[v].pc = "insert" => push'[v] = push[v]
      PROVE  Goal
  BY <1>4 DEF RowIdsUnique, RowsBehindTail
<1>5. ASSUME NEW w \in Writers, UndoInsert(w) PROVE Goal
  <2>1. /\ rows' \subseteq rows /\ leaked \subseteq leaked' /\ UNCHANGED tail
        /\ push'[w] = Idle /\ \A v \in Writers \ {w} : push'[v] = push[v]
    BY <1>5 DEF UndoInsert, StorePop, TypeOK, memory
  <2> QED
    BY <1>4, <2>1 DEF Idle
<1>6. ASSUME NEW p \in Procs, PopOne(p) PROVE Goal
  BY <1>4, <1>6 DEF PopOne, StorePop, memory
<1>7. ASSUME NEW p \in Procs, NEW S \in SUBSET DOMAIN events, RemoveStep(p, S)
      PROVE  Goal
  BY <1>4, <1>7 DEF RemoveStep
<1>8. CASE StoreGC
  BY <1>4, <1>8 DEF StoreGC, memory
<1>9. CASE Restart
  <2>1. PICK loaded \in {rows, {}} :
          tail' = TailOf(loaded) /\ leaked' = {s.log : s \in rows \ Winners(loaded)}
    BY <1>9 DEF Restart
  <2>2. rows' = rows /\ loaded \in SUBSET rows /\ \A v \in Writers : push'[v].pc # "insert"
    BY <1>9 DEF Restart, store, Idle
  <2>3. \A r \in rows : r.log \notin leaked' => r \in Winners(loaded)
    BY <2>1
  <2>4. \A r \in loaded : r.id <= tail'
    BY <2>1, <2>2, TailOfRows
  <2>5. \A r, s \in Winners(loaded) : r.id = s.id => r.log = s.log
    <3>1. \A r \in loaded : r.log \in Int
      BY <2>2 DEF TypeOK, Row, LogIds
    <3> QED
      BY <3>1 DEF Winners
  <2>6. Winners(loaded) \subseteq loaded
    BY DEF Winners
  <2>7. RowIdsUnique'
    BY <2>2, <2>3, <2>5 DEF RowIdsUnique, RowsBehindTail
  <2>8. RowsBehindTail'
    BY <2>2, <2>3, <2>4, <2>6 DEF RowsBehindTail
  <2> QED
    BY <2>7, <2>8
<1>10. CASE QuietStep
  BY <1>4, <1>10 DEF QuietStep
<1> QED
  BY <1>1, <1>2, <1>3, <1>5, <1>6, <1>7, <1>8, <1>9, <1>10, StepKinds DEF FinishPush

-----------------------------------------------------------------------------
(* The store invariant and what it gives.                                  *)

LEMMA StoreInit == Init => StoreInv
<1> SUFFICES ASSUME Init PROVE StoreInv
  OBVIOUS
<1>1. TypeOK
  BY TypeInit
<1>2. rows = {} /\ DOMAIN events = {} /\ \A w \in Writers : push[w] = Idle /\ push[w].pc = "idle"
  BY DEF Init, Idle
<1> QED
  BY <1>1, <1>2 DEF StoreInv, PushPending, LogsApart, RowsOwned, LiveEventsDurable, InsertedOnDisk,
                    RowIdsUnique, RowsBehindTail

LEMMA StoreStep == StoreInv /\ [Next]_vars => StoreInv'
  BY TypeStep, PendingStep, ApartStep, OwnedStep, DurableStep, RowIdsStep DEF StoreInv

\* Memory and disk agree in every reachable state.
THEOREM StoreInvariant == Spec => []StoreInv
<1> QED
  BY StoreInit, StoreStep, PTL DEF Spec

\* No row outlives its event but for a failed statement: the INSERT and the
\* DELETEs, all outside queue.mu, never miss one another.
THEOREM RowsAreOwned == Spec => []RowsOwned
<1>1. StoreInv => RowsOwned
  BY DEF StoreInv
<1> QED
  BY <1>1, StoreInvariant, PTL

\* A recorded event keeps its row until it expires.
THEOREM RecordedEventsDurable == Spec => []LiveEventsDurable
<1>1. StoreInv => LiveEventsDurable
  BY DEF StoreInv
<1> QED
  BY <1>1, StoreInvariant, PTL

\* Replay never meets two rows with one event id that nothing failed to delete.
THEOREM RowsHaveDistinctIds == Spec => []RowIdsUnique
<1>1. StoreInv => RowIdsUnique
  BY DEF StoreInv
<1> QED
  BY <1>1, StoreInvariant, PTL

\* While the process runs, tail never falls and a new event is above it.
LEMMA FreshStep ==
  ASSUME TypeOK, [Next]_vars, restarts' = restarts
  PROVE  /\ tail' >= tail
         /\ \A i \in DOMAIN events' \ DOMAIN events : i > tail
<1> DEFINE Fresh == /\ tail' >= tail
                    /\ \A i \in DOMAIN events' \ DOMAIN events : i > tail
<1>0. tail \in Nat
  BY DEF TypeOK
<1>1. ASSUME NEW w \in Writers, NEW id, NEW exp, NEW upd, PushStep(w, id, exp, upd)
      PROVE  Fresh
  BY <1>0, <1>1, BoundsAssumption DEF PushStep, EventIds
<1>2. ASSUME NEW w \in Writers, FinishPush(w) PROVE Fresh
  <2>1. tail' = tail /\ DOMAIN events' = DOMAIN events
    BY <1>2 DEF FinishPush, InsertRow, InsertFails, RecordLog, UndoInsert, memory, TypeOK
  <2> QED
    BY <1>0, <2>1
<1>3. ASSUME NEW p \in Procs, NEW S \in SUBSET DOMAIN events, RemoveStep(p, S)
      PROVE  Fresh
  BY <1>0, <1>3 DEF RemoveStep, Remove, Without, Restrict
<1>4. ASSUME UNCHANGED <<events, tail>> PROVE Fresh
  BY <1>0, <1>4
<1>5. ~Restart
  BY DEF Restart, TypeOK
<1> QED
  BY <1>1, <1>2, <1>3, <1>4, <1>5, StepKinds DEF PopOne, StoreGC, QuietStep, memory

\* While the process runs, ids only grow.
THEOREM IdsAreFresh == Spec => FreshIds
<1>1. TypeOK /\ [Next]_vars =>
        (restarts' = restarts =>
           /\ tail' >= tail
           /\ \A i \in DOMAIN events' \ DOMAIN events : i > tail)
  BY FreshStep
<1>2. Spec => [][restarts' = restarts =>
                   /\ tail' >= tail
                   /\ \A i \in DOMAIN events' \ DOMAIN events : i > tail]_vars
  BY <1>1, TypeCorrect, PTL DEF Spec
<1> QED
  BY <1>2 DEF FreshIds

=============================================================================
