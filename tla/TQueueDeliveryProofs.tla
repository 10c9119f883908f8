----------------------- MODULE TQueueDeliveryProofs ------------------------
(***************************************************************************)
(* Proofs about what the bot sees of TQueue, for any number of readers and *)
(* writers, any cap, lost answers and failing statements.                  *)
(***************************************************************************)
EXTENDS TQueueProofs

-----------------------------------------------------------------------------
(* Steps that push nothing.                                                *)

\* Every event left is one that was there, but for its log id.
KeepsEvents ==
  \A i \in DOMAIN events' :
    /\ i \in DOMAIN events
    /\ events'[i].upd = events[i].upd /\ events'[i].exp = events[i].exp

LEMMA WithoutKeeps ==
  ASSUME NEW S, events' = Without(events, S)
  PROVE  KeepsEvents /\ DOMAIN events' = DOMAIN events \ S
<1> QED
  BY DEF Without, Restrict, KeepsEvents

LEMMA RecordKeeps ==
  ASSUME TypeOK, NEW w \in Writers, RecordLog(w)
  PROVE  KeepsEvents
<1> DEFINE id == push[w].id
<1>1. /\ DOMAIN events' = DOMAIN events
      /\ \A i \in DOMAIN events \ {id} : events'[i] = events[i]
      /\ events'[id] = [events[id] EXCEPT !.log = push[w].log]
      /\ id \in DOMAIN events
  BY DEF RecordLog
<1>2. events[id] \in Event
  BY <1>1 DEF TypeOK
<1>3. events'[id].upd = events[id].upd /\ events'[id].exp = events[id].exp
  BY <1>1, <1>2 DEF Event
<1> QED
  BY <1>1, <1>3 DEF KeepsEvents

LEMMA OthersKeep ==
  ASSUME TypeOK, [Next]_vars, restarts' = restarts,
         ~ \E w \in Writers : \E hint \in Hints, ttl \in TTLs : PushWith(w, hint, ttl)
  PROVE  KeepsEvents
<1>1. ASSUME events' = events PROVE KeepsEvents
  BY <1>1 DEF KeepsEvents
<1>2. ASSUME NEW w \in Writers, PushFull(w) \/ InsertRow(w) \/ InsertFails(w) \/ UndoInsert(w)
      PROVE  KeepsEvents
  BY <1>1, <1>2 DEF PushFull, InsertRow, InsertFails, UndoInsert, memory
<1>3. ASSUME NEW p \in Procs, PopOne(p) PROVE KeepsEvents
  BY <1>1, <1>3 DEF PopOne, memory
<1>4. ASSUME NEW c \in Consumers, Poll(c) \/ Receive(c) \/ LoseReply(c) PROVE KeepsEvents
  BY <1>1, <1>4 DEF Poll, Receive, LoseReply, memory
<1>5. ASSUME NEW c \in Consumers, Confirm(c) \/ Clear(c) \/ Forget(c) PROVE KeepsEvents
  BY <1>5, WithoutKeeps DEF Confirm, Clear, Forget, Remove
<1>6. ASSUME RunGC PROVE KeepsEvents
  BY <1>6, WithoutKeeps DEF RunGC, Remove
<1>7. ASSUME StoreGC \/ Tick \/ UNCHANGED vars PROVE KeepsEvents
  BY <1>1, <1>7 DEF StoreGC, Tick, vars, memory
<1>8. ~Restart
  BY DEF Restart, TypeOK
<1> QED
  BY <1>2, <1>3, <1>4, <1>5, <1>6, <1>7, <1>8, RecordKeeps DEF Next, FinishPush, PushEvent

-----------------------------------------------------------------------------
(* head.                                                                   *)

\* What every path of the code recomputes or keeps.
HeadInv == head = HeadOf(events)

\* A push above all live ids moves head only when the queue was empty, or
\* when it trims.
LEMMA HeadPush ==
  ASSUME TypeOK, HeadInv, NEW w \in Writers, NEW hint \in Hints, NEW ttl \in TTLs,
         PushWith(w, hint, ttl)
  PROVE  HeadInv'
<1> DEFINE id   == NextID(hint)
           ev   == [exp |-> ExpiresAt(ttl), log |-> 0, upd |-> issued + 1]
           all  == Put(events, id, ev)
           trim == AllButLast(all, MaxQueueEvents)
<1>1. /\ events' = Without(all, trim)
      /\ head' = HeadAfterPush(id, Without(all, trim), trim)
  BY DEF PushWith
<1>2. id \in Nat \ {0} /\ id > tail /\ DOMAIN events \subseteq 1..tail /\ tail \in Nat
  BY InputsAssumption DEF NextID, TypeOK
<1>3. DOMAIN all = DOMAIN events \cup {id}
  BY DEF Put
<1> HIDE DEF id, all, trim
<1>4. CASE trim # {}
  BY <1>1, <1>4 DEF HeadAfterPush, HeadInv
<1>5. CASE trim = {}
  <2>1. DOMAIN events' = DOMAIN events \cup {id}
    BY <1>1, <1>3, <1>5 DEF Without, Restrict
  <2>2. head' = IF head = 0 THEN id ELSE head
    BY <1>1, <1>5 DEF HeadAfterPush
  <2>3. /\ HeadOf(events) = 0 <=> DOMAIN events = {}
        /\ DOMAIN events # {} =>
             HeadOf(events) \in DOMAIN events /\ \A i \in DOMAIN events : HeadOf(events) <= i
    BY <1>2, HeadOfMap
  <2>4. head' \in DOMAIN events' /\ \A i \in DOMAIN events' : head' <= i
    <3>1. CASE DOMAIN events = {}
      <4>1. head' = id /\ DOMAIN events' = {id}
        BY <2>1, <2>2, <2>3, <3>1 DEF HeadInv
      <4> QED
        BY <4>1, <1>2
    <3>2. CASE DOMAIN events # {}
      <4>1. head' = HeadOf(events)
        BY <2>2, <2>3, <3>2 DEF HeadInv
      <4>2. head' \in DOMAIN events /\ \A i \in DOMAIN events : head' <= i
        BY <4>1, <2>3, <3>2
      <4>3. head' <= id
        BY <4>2, <1>2
      <4> QED
        BY <4>2, <4>3, <2>1
    <3> QED
      BY <3>1, <3>2
  <2>5. DOMAIN events' \subseteq Nat \ {0}
    BY <2>1, <1>2
  <2>6. /\ HeadOf(events') \in DOMAIN events'
        /\ \A i \in DOMAIN events' : HeadOf(events') <= i
    BY <2>4, <2>5, HeadOfMap
  <2>7. head' <= HeadOf(events') /\ HeadOf(events') <= head'
    BY <2>4, <2>6
  <2>8. head' \in Nat /\ HeadOf(events') \in Nat
    BY <2>4, <2>5, <2>6
  <2>9. head' = HeadOf(events')
    BY <2>7, <2>8
  <2> QED
    BY <2>9 DEF HeadInv
<1> QED
  BY <1>4, <1>5

LEMMA HeadStep ==
  ASSUME TypeOK, HeadInv, [Next]_vars
  PROVE  HeadInv'
<1>1. ASSUME UNCHANGED <<events, head>> PROVE HeadInv'
  BY <1>1 DEF HeadInv
<1>2. ASSUME NEW w \in Writers, PushEvent(w) PROVE HeadInv'
  BY <1>2, HeadPush DEF PushEvent
<1>3. ASSUME NEW w \in Writers, RecordLog(w) PROVE HeadInv'
  <2>1. head' = head /\ DOMAIN events' = DOMAIN events
    BY <1>3 DEF RecordLog
  <2> QED
    BY <2>1 DEF HeadInv, HeadOf
<1>4. ASSUME NEW w \in Writers, PushFull(w) \/ InsertRow(w) \/ InsertFails(w) \/ UndoInsert(w)
      PROVE  HeadInv'
  BY <1>1, <1>4 DEF PushFull, InsertRow, InsertFails, UndoInsert, memory
<1>5. ASSUME NEW p \in Procs, PopOne(p) PROVE HeadInv'
  BY <1>1, <1>5 DEF PopOne, memory
<1>6. ASSUME NEW p, NEW S, Remove(p, S) PROVE HeadInv'
  BY <1>6 DEF Remove, HeadInv
<1>7. ASSUME NEW c \in Consumers, Confirm(c) \/ Clear(c) \/ Forget(c) PROVE HeadInv'
  BY <1>6, <1>7 DEF Confirm, Clear, Forget
<1>8. ASSUME NEW c \in Consumers, Poll(c) \/ Receive(c) \/ LoseReply(c) PROVE HeadInv'
  BY <1>1, <1>8 DEF Poll, Receive, LoseReply, memory
<1>9. ASSUME RunGC PROVE HeadInv'
  BY <1>6, <1>9 DEF RunGC
<1>10. ASSUME StoreGC \/ Tick \/ UNCHANGED vars PROVE HeadInv'
  BY <1>1, <1>10 DEF StoreGC, Tick, vars, memory
<1>11. ASSUME Restart PROVE HeadInv'
  BY <1>11 DEF Restart, HeadInv
<1> QED
  BY <1>2, <1>3, <1>4, <1>5, <1>7, <1>8, <1>9, <1>10, <1>11 DEF Next, FinishPush

\* head is the smallest live id in every reachable state.
THEOREM HeadIsExact == Spec => []HeadIsOldest
<1>1. Init => HeadInv
  BY DEF Init, HeadInv, HeadOf
<1>2. TypeOK /\ HeadInv => HeadIsOldest
  <2> SUFFICES ASSUME TypeOK, HeadInv PROVE HeadIsOldest
    OBVIOUS
  <2>1. DOMAIN events \subseteq Nat \ {0}
    BY DEF TypeOK
  <2> QED
    BY <2>1, HeadOfMap DEF HeadInv, HeadIsOldest
<1>3. TypeOK /\ HeadInv /\ [Next]_vars => HeadInv'
  BY HeadStep
<1> QED
  BY <1>1, <1>2, <1>3, TypeCorrect, PTL DEF Spec

-----------------------------------------------------------------------------
(* What the bot has seen.                                                  *)

\* An event is dealt with for a bot that has received the updates of D and
\* whose pending answer is R: received, in the answer, or past its time.
Dealt(ev, D, R, t) ==
  ev.upd \in D \/ Expired(ev, t) \/ \E y \in R : y.upd = ev.upd

LEMMA DealtStays ==
  ASSUME TypeOK, now' \in Nat, now <= now',
         NEW i \in DOMAIN events, NEW i2 \in DOMAIN events',
         events'[i2].upd = events[i].upd, events'[i2].exp = events[i].exp,
         NEW D, NEW D2, D \subseteq D2, NEW R, Dealt(events[i], D, R, now)
  PROVE  Dealt(events'[i2], D2, R, now')
<1>1. now \in Nat /\ events[i].exp \in Nat
  BY DEF TypeOK, Event
<1>2. Expired(events[i], now) => Expired(events'[i2], now')
  BY <1>1 DEF Expired
<1> QED
  BY <1>2 DEF Dealt

\* Of two answers, both are complete up to a bound when one is.
Complete(evs, n, D, R, t) == \A i \in DOMAIN evs : i <= n => Dealt(evs[i], D, R, t)

LEMMA SeenAsComplete ==
  /\ SeenUpToAck <=> ack <= tail /\ Complete(events, ack, delivered, {}, now)
  /\ AnswersComplete <=>
       \A c \in Consumers : \A x \in reply[c] :
         x.id <= tail /\ Complete(events, x.id, delivered, reply[c], now)
<1> QED
  BY DEF SeenUpToAck, AnswersComplete, Complete, Dealt

\* Completeness survives a step that keeps or removes events and pushes only
\* above the bound.
LEMMA CompleteStays ==
  ASSUME TypeOK, now' \in Nat, now <= now', NEW n, NEW D, NEW R, NEW D2, D \subseteq D2,
         Complete(events, n, D, R, now),
         \A i \in DOMAIN events' :
           i <= n => /\ i \in DOMAIN events
                     /\ events'[i].upd = events[i].upd /\ events'[i].exp = events[i].exp
  PROVE  Complete(events', n, D2, R, now')
<1> SUFFICES ASSUME NEW i \in DOMAIN events', i <= n
             PROVE  Dealt(events'[i], D2, R, now')
  BY DEF Complete
<1>1. Dealt(events[i], D, R, now)
  BY DEF Complete
<1> QED
  BY <1>1, DealtStays

\* What getLocked returns leaves no live event out below its last one.
LEMMA ReadComplete ==
  ASSUME TypeOK, NEW from \in 0..ack, NEW limit \in Nat,
         Complete(events, ack, delivered, {}, now),
         NEW m \in Matching(events, from, now, limit)
  PROVE  /\ m <= tail
         /\ Complete(events, m, delivered,
              {[id |-> i, upd |-> events[i].upd] : i \in Matching(events, from, now, limit)}, now)
<1> DEFINE S == {i \in DOMAIN events \ ExpiredIds(events, now) : i > from}
           R == {[id |-> i, upd |-> events[i].upd] : i \in Matching(events, from, now, limit)}
<1>1. tail \in Nat /\ S \in SUBSET (0..tail) /\ Matching(events, from, now, limit) = Lowest(S, limit)
  BY DEF TypeOK, Matching
<1>2. m \in S
  BY <1>1 DEF Lowest
<1>3. ASSUME NEW i \in DOMAIN events, i <= m
      PROVE  Dealt(events[i], delivered, R, now)
  <2>1. CASE i <= from
    <3>1. i <= ack
      BY <2>1 DEF TypeOK
    <3>2. Dealt(events[i], delivered, {}, now)
      BY <3>1 DEF Complete
    <3> QED
      BY <3>2 DEF Dealt
  <2>2. CASE Expired(events[i], now)
    BY <2>2 DEF Dealt
  <2>3. CASE i > from /\ ~Expired(events[i], now)
    <3>1. i \in S
      BY <2>3 DEF ExpiredIds
    <3>2. i \in Matching(events, from, now, limit)
      <4>1. m \in Lowest(S, limit)
        BY <1>1
      <4> HIDE DEF S
      <4>2. i \in Lowest(S, limit)
        BY <1>1, <3>1, <1>3, <4>1, LowestClosed
      <4> QED
        BY <1>1, <4>2
    <3>3. [id |-> i, upd |-> events[i].upd] \in R
      BY <3>2
    <3> QED
      BY <3>3 DEF Dealt
  <2>4. i \in Int /\ from \in Int
    BY DEF TypeOK
  <2> QED
    BY <2>1, <2>2, <2>3, <2>4
<1>4. m <= tail
  BY <1>1, <1>2
<1> QED
  BY <1>3, <1>4 DEF Complete

-----------------------------------------------------------------------------
(* The steps, as far as the bot is concerned.                              *)

\* Up to tail, a step only removes events.
LEMMA EventsMove ==
  ASSUME TypeOK, [Next]_vars, restarts' = restarts
  PROVE  /\ tail <= tail'
         /\ \A i \in DOMAIN events' :
              i <= tail => /\ i \in DOMAIN events
                           /\ events'[i].upd = events[i].upd /\ events'[i].exp = events[i].exp
<1>1. tail <= tail'
  BY FreshStep DEF TypeOK
<1>2. ASSUME NEW w \in Writers, NEW id, NEW exp, NEW upd, PushStep(w, id, exp, upd),
             NEW i \in DOMAIN events', i <= tail
      PROVE  i \in DOMAIN events /\ events'[i] = events[i]
  BY <1>2 DEF PushStep, TypeOK, EventIds
<1>3. CASE \E w \in Writers : \E hint \in Hints, ttl \in TTLs : PushWith(w, hint, ttl)
  BY <1>1, <1>2, <1>3, PushIsPushStep
<1>4. CASE ~ \E w \in Writers : \E hint \in Hints, ttl \in TTLs : PushWith(w, hint, ttl)
  BY <1>1, <1>4, OthersKeep DEF KeepsEvents
<1> QED
  BY <1>3, <1>4

LEMMA ClockMoves ==
  ASSUME TypeOK, [Next]_vars
  PROVE  now' \in Nat /\ now <= now'
<1>1. now \in Nat
  BY DEF TypeOK
<1>2. ASSUME now' = now PROVE now' \in Nat /\ now <= now'
  BY <1>1, <1>2
<1>3. ASSUME NEW w \in Writers, PushEvent(w) \/ PushFull(w) PROVE now' = now
  BY <1>3 DEF PushEvent, PushWith, PushFull
<1>4. ASSUME NEW w \in Writers, FinishPush(w) PROVE now' = now
  BY <1>4 DEF FinishPush, InsertRow, InsertFails, RecordLog, UndoInsert
<1>5. ASSUME NEW p \in Procs, PopOne(p) PROVE now' = now
  BY <1>5 DEF PopOne
<1>6. ASSUME NEW c \in Consumers, Poll(c) \/ Confirm(c) \/ Clear(c) PROVE now' = now
  BY <1>6 DEF Poll, Confirm, Clear
<1>7. ASSUME NEW c \in Consumers, Forget(c) \/ Receive(c) \/ LoseReply(c) PROVE now' = now
  BY <1>7 DEF Forget, Receive, LoseReply
<1>8. ASSUME RunGC \/ StoreGC \/ Restart \/ UNCHANGED vars PROVE now' = now
  BY <1>8 DEF RunGC, StoreGC, Restart, vars
<1>9. ASSUME Tick PROVE now' \in Nat /\ now <= now'
  BY <1>1, <1>9 DEF Tick
<1> QED
  BY <1>2, <1>3, <1>4, <1>5, <1>6, <1>7, <1>8, <1>9 DEF Next

\* c reads after an offset the bot may send.
TakeStep(c, from, limit) ==
  /\ reply' = [reply EXCEPT ![c] =
       {[id |-> i, upd |-> events[i].upd] : i \in Matching(events, from, now, limit)}]
  /\ UNCHANGED <<ack, delivered, now>>

\* Answers are lost at most.
SilentStep ==
  /\ \A c \in Consumers : reply'[c] \in {reply[c], {}}
  /\ UNCHANGED <<ack, delivered>>

LEMMA BotKinds ==
  ASSUME TypeOK, [Next]_vars, restarts' = restarts
  PROVE  \/ \E c \in Consumers : Receive(c)
         \/ \E c \in Consumers : \E from \in 0..ack, limit \in Nat : TakeStep(c, from, limit)
         \/ SilentStep
<1>1. ASSUME reply' = reply, UNCHANGED <<ack, delivered>> PROVE SilentStep
  BY <1>1 DEF SilentStep
<1>2. ASSUME NEW w \in Writers, PushEvent(w) \/ PushFull(w) \/ FinishPush(w) PROVE SilentStep
  BY <1>1, <1>2 DEF PushEvent, PushWith, PushFull, FinishPush, InsertRow, InsertFails,
    RecordLog, UndoInsert, bot
<1>3. ASSUME NEW p \in Procs, PopOne(p) PROVE SilentStep
  BY <1>1, <1>3 DEF PopOne, bot
<1>4. ASSUME NEW c \in Consumers, Poll(c)
      PROVE  \E from \in 0..ack, limit \in Nat : TakeStep(c, from, limit)
  <2>1. PICK from \in 0..ack, limit \in 1..MaxLimit :
          reply' = [reply EXCEPT ![c] =
            {[id |-> i, upd |-> events[i].upd] : i \in Matching(events, from, now, limit)}]
    BY <1>4 DEF Poll
  <2>2. limit \in Nat
    BY BoundsAssumption
  <2>3. UNCHANGED <<ack, delivered, now>>
    BY <1>4 DEF Poll, bot
  <2>4. TakeStep(c, from, limit)
    BY <2>1, <2>3 DEF TakeStep
  <2> QED
    BY <2>2, <2>4
<1>5. ASSUME NEW c \in Consumers, Confirm(c)
      PROVE  \E from \in 0..ack, limit \in Nat : TakeStep(c, from, limit)
  <2>1. PICK from \in 0..ack, limit \in 1..MaxLimit :
          reply' = [reply EXCEPT ![c] =
            {[id |-> i, upd |-> events[i].upd] : i \in Matching(events, from, now, limit)}]
    BY <1>5 DEF Confirm
  <2>2. limit \in Nat
    BY BoundsAssumption
  <2>3. UNCHANGED <<ack, delivered, now>>
    BY <1>5 DEF Confirm
  <2>4. TakeStep(c, from, limit)
    BY <2>1, <2>3 DEF TakeStep
  <2> QED
    BY <2>2, <2>4
<1>6. ASSUME NEW c \in Consumers, Clear(c) \/ Forget(c) PROVE SilentStep
  BY <1>1, <1>6 DEF Clear, Forget, bot
<1>7. ASSUME NEW c \in Consumers, LoseReply(c) PROVE SilentStep
  BY <1>7 DEF LoseReply, SilentStep, bot, TypeOK
<1>8. ASSUME RunGC \/ StoreGC \/ Tick \/ UNCHANGED vars PROVE SilentStep
  BY <1>1, <1>8 DEF RunGC, StoreGC, Tick, vars, bot
<1>9. ~Restart
  BY DEF Restart, TypeOK
<1> QED
  BY <1>2, <1>3, <1>4, <1>5, <1>6, <1>7, <1>8, <1>9 DEF Next

-----------------------------------------------------------------------------
(* The bot has seen what its acknowledged id passes.                       *)

LEMMA SeenStep ==
  ASSUME TypeOK, TypeOK', SeenUpToAck, AnswersComplete, [Next]_vars, restarts' = restarts
  PROVE  SeenUpToAck' /\ AnswersComplete'
<1>1. /\ ack <= tail /\ Complete(events, ack, delivered, {}, now)
      /\ \A c \in Consumers : \A x \in reply[c] :
           x.id <= tail /\ Complete(events, x.id, delivered, reply[c], now)
  BY SeenAsComplete
<1>2. tail \in Nat /\ tail' \in Nat /\ ack \in Nat /\ tail <= tail'
  BY EventsMove DEF TypeOK
<1>3. ASSUME NEW n \in Nat, n <= tail, NEW D, NEW D2, D \subseteq D2, NEW R,
             Complete(events, n, D, R, now)
      PROVE  n <= tail' /\ Complete(events', n, D2, R, now')
  <2>1. now' \in Nat /\ now <= now'
    BY ClockMoves
  <2>2. \A i \in DOMAIN events' :
          i <= n => /\ i \in DOMAIN events
                    /\ events'[i].upd = events[i].upd /\ events'[i].exp = events[i].exp
    <3>1. \A i \in DOMAIN events' : i \in Nat
      BY DEF TypeOK
    <3> QED
      BY <3>1, <1>2, <1>3, EventsMove
  <2>3. Complete(events', n, D2, R, now')
    BY <1>3, <2>1, <2>2, CompleteStays
  <2> QED
    BY <2>3, <1>2, <1>3
<1>4. ASSUME NEW c \in Consumers, NEW x \in reply[c]
      PROVE  x.id \in Nat
  BY DEF TypeOK, Reply, EventIds
<1>5. ASSUME NEW c \in Consumers, NEW x \in reply[c], NEW D2, delivered \subseteq D2
      PROVE  x.id <= tail' /\ Complete(events', x.id, D2, reply[c], now')
  BY <1>1, <1>3, <1>4, <1>5
<1>6. SUFFICES /\ ack' <= tail' /\ Complete(events', ack', delivered', {}, now')
               /\ \A c \in Consumers : \A x \in reply'[c] :
                    x.id <= tail' /\ Complete(events', x.id, delivered', reply'[c], now')
  BY DEF SeenUpToAck, AnswersComplete, Complete, Dealt
<1>7. CASE SilentStep
  <2>1. ack' = ack /\ delivered' = delivered
    BY <1>7 DEF SilentStep
  <2>2. ack' <= tail' /\ Complete(events', ack', delivered', {}, now')
    BY <2>1, <1>1, <1>2, <1>3
  <2>3. ASSUME NEW c \in Consumers, NEW x \in reply'[c]
        PROVE  x.id <= tail' /\ Complete(events', x.id, delivered', reply'[c], now')
    <3>1. reply'[c] = reply[c]
      BY <1>7, <2>3 DEF SilentStep
    <3> QED
      BY <3>1, <2>1, <2>3, <1>5
  <2> QED
    BY <2>2, <2>3
<1>8. ASSUME NEW c \in Consumers, NEW from \in 0..ack, NEW limit \in Nat, TakeStep(c, from, limit)
      PROVE  /\ ack' <= tail' /\ Complete(events', ack', delivered', {}, now')
             /\ \A d \in Consumers : \A x \in reply'[d] :
                  x.id <= tail' /\ Complete(events', x.id, delivered', reply'[d], now')
  <2> DEFINE R == {[id |-> i, upd |-> events[i].upd] : i \in Matching(events, from, now, limit)}
  <2>1. ack' = ack /\ delivered' = delivered
    BY <1>8 DEF TakeStep
  <2>2. ack' <= tail' /\ Complete(events', ack', delivered', {}, now')
    BY <2>1, <1>1, <1>2, <1>3
  <2>3. reply'[c] = R /\ \A d \in Consumers \ {c} : reply'[d] = reply[d]
    BY <1>8 DEF TakeStep, TypeOK
  <2>4. ASSUME NEW x \in R
        PROVE  x.id <= tail' /\ Complete(events', x.id, delivered', R, now')
    <3>1. PICK m \in Matching(events, from, now, limit) : x = [id |-> m, upd |-> events[m].upd]
      BY <2>4
    <3>2. m \in DOMAIN events
      BY DEF Matching, Lowest
    <3>3. m \in Nat
      BY <3>2 DEF TypeOK
    <3>4. m <= tail /\ Complete(events, m, delivered, R, now)
      BY <1>1, ReadComplete
    <3> HIDE DEF R
    <3>5. m <= tail' /\ Complete(events', m, delivered', R, now')
      BY <3>3, <3>4, <2>1, <1>3
    <3> QED
      BY <3>1, <3>5
  <2> HIDE DEF R
  <2> QED
    BY <2>1, <2>2, <2>3, <2>4, <1>5
<1>9. ASSUME NEW c \in Consumers, Receive(c)
      PROVE  /\ ack' <= tail' /\ Complete(events', ack', delivered', {}, now')
             /\ \A d \in Consumers : \A x \in reply'[d] :
                  x.id <= tail' /\ Complete(events', x.id, delivered', reply'[d], now')
  <2> DEFINE ids == {x.id : x \in reply[c]}
  <2>1. /\ delivered' = delivered \cup {x.upd : x \in reply[c]}
        /\ ack' = Greatest(ids \cup {ack})
        /\ reply' = [reply EXCEPT ![c] = {}]
    BY <1>9 DEF Receive
  <2>2. reply'[c] = {} /\ \A d \in Consumers \ {c} : reply'[d] = reply[d]
    BY <2>1 DEF TypeOK
  <2>3. ack' \in ids \cup {ack}
    <3>1. ids \cup {ack} \in SUBSET (0..tail) /\ ids \cup {ack} # {}
      BY <1>1, <1>2, <1>4
    <3> HIDE DEF ids
    <3> QED
      BY <3>1, <2>1, <1>2, GreatestOf
  <2>4. ASSUME ack' = ack PROVE ack' <= tail' /\ Complete(events', ack', delivered', {}, now')
    BY <2>1, <2>4, <1>1, <1>2, <1>3
  <2>5. ASSUME ack' \in ids PROVE ack' <= tail' /\ Complete(events', ack', delivered', {}, now')
    <3>1. PICK x \in reply[c] : ack' = x.id
      BY <2>5
    <3>2. x.id <= tail' /\ Complete(events', x.id, delivered', reply[c], now')
      BY <1>5, <2>1
    <3>3. \A y \in reply[c] : y.upd \in delivered'
      BY <2>1
    <3>4. Complete(events', x.id, delivered', {}, now')
      BY <3>2, <3>3 DEF Complete, Dealt
    <3> QED
      BY <3>1, <3>2, <3>4
  <2>6. ack' <= tail' /\ Complete(events', ack', delivered', {}, now')
    <3> HIDE DEF ids
    <3> QED
      BY <2>3, <2>4, <2>5
  <2>7. delivered \subseteq delivered'
    BY <2>1
  <2>8. ASSUME NEW d \in Consumers, NEW x \in reply'[d]
        PROVE  x.id <= tail' /\ Complete(events', x.id, delivered', reply'[d], now')
    <3>1. d # c /\ reply'[d] = reply[d]
      BY <2>2, <2>8
    <3>2. x \in reply[d]
      BY <2>8, <3>1
    <3> QED
      BY <2>7, <3>1, <3>2, <1>5
  <2> QED
    BY <2>6, <2>8
<1> QED
  BY <1>7, <1>8, <1>9, BotKinds

-----------------------------------------------------------------------------
(* What the offset removes.                                                *)

ConfirmInv == ConfirmedWasDelivered /\ UpdatesDistinct /\ ConfirmedIsGone

LEMMA PushConfirm ==
  ASSUME TypeOK, TypeOK', UpdatesDistinct, ConfirmedIsGone, restarts = 0,
         NEW w \in Writers, NEW hint \in Hints, NEW ttl \in TTLs, PushWith(w, hint, ttl)
  PROVE  UpdatesDistinct' /\ ConfirmedIsGone'
<1>1. issued \in Nat /\ issued' = issued + 1 /\ confirmed' = confirmed
  BY DEF PushWith, TypeOK, bot
<1>2. PICK id, exp, upd : PushStep(w, id, exp, upd)
  BY PushIsPushStep
<1>3. push'[w].upd = upd /\ push'[w].upd = issued + 1
  <2>1. push'[w] = [pc |-> "insert", id |-> id, exp |-> exp, upd |-> upd, log |-> 0]
    BY <1>2 DEF PushStep, TypeOK
  <2>2. push'[w] = [pc |-> "insert", id |-> NextID(hint), exp |-> ExpiresAt(ttl),
                    upd |-> issued + 1, log |-> 0]
    BY DEF PushWith, TypeOK
  <2> QED
    BY <2>1, <2>2
<1>4. \A i \in DOMAIN events' \ {id} : i \in DOMAIN events /\ events'[i] = events[i]
  BY <1>2 DEF PushStep
<1>5. id \in DOMAIN events' => events'[id].upd = issued + 1
  BY <1>2, <1>3 DEF PushStep
<1>6. \A i \in DOMAIN events : events[i].upd \in Nat /\ events[i].upd <= issued
  BY DEF TypeOK, Event, Updates, UpdatesDistinct
<1>7. \A u \in confirmed : u \in Nat /\ u <= issued
  BY DEF TypeOK, Updates, UpdatesDistinct
<1>8. \A i, j \in DOMAIN events' : events'[i].upd = events'[j].upd => i = j
  <2> SUFFICES ASSUME NEW i \in DOMAIN events', NEW j \in DOMAIN events',
                      events'[i].upd = events'[j].upd
               PROVE  i = j
    OBVIOUS
  <2>1. CASE i = id /\ j # id
    BY <1>1, <1>4, <1>5, <1>6, <2>1
  <2>2. CASE i # id /\ j = id
    BY <1>1, <1>4, <1>5, <1>6, <2>2
  <2>3. CASE i # id /\ j # id
    BY <1>4, <2>3 DEF UpdatesDistinct
  <2> QED
    BY <2>1, <2>2, <2>3
<1>9. \A i \in DOMAIN events' : events'[i].upd <= issued'
  BY <1>1, <1>4, <1>5, <1>6
<1>10. \A u \in confirmed' : u <= issued'
  BY <1>1, <1>7
<1>11. \A i \in DOMAIN events' : events'[i].upd \notin confirmed'
  <2> TAKE i \in DOMAIN events'
  <2>1. CASE i = id
    BY <1>1, <1>5, <1>7, <2>1
  <2>2. CASE i # id
    BY <1>1, <1>4, <2>2 DEF ConfirmedIsGone
  <2> QED
    BY <2>1, <2>2
<1> QED
  BY <1>8, <1>9, <1>10, <1>11 DEF UpdatesDistinct, ConfirmedIsGone

\* An offset the bot may send passes, of unexpired events, received ones only.
LEMMA ConfirmKeeps ==
  ASSUME TypeOK, SeenUpToAck, ConfirmInv, restarts = 0, NEW c \in Consumers, Confirm(c)
  PROVE  ConfirmInv'
<1>1. PICK from \in 0..ack :
        /\ Remove(c, UpTo(events, from))
        /\ confirmed' = confirmed \cup
             {events[i].upd : i \in UpTo(events, from) \ ExpiredIds(events, now)}
  BY DEF Confirm
<1>2. UNCHANGED <<delivered, issued, restarts>> /\ ack \in Nat
  BY DEF Confirm, TypeOK
<1> DEFINE gone == UpTo(events, from)
<1>3. \A i \in gone : i \in DOMAIN events /\ i <= ack
  BY <1>2 DEF UpTo, TypeOK
<1>4. KeepsEvents /\ DOMAIN events' = DOMAIN events \ gone
  BY <1>1, WithoutKeeps DEF Remove
<1>5. \A u \in confirmed' \ confirmed :
        \E i \in gone : u = events[i].upd /\ ~Expired(events[i], now)
  BY <1>1 DEF ExpiredIds, UpTo
<1> HIDE DEF gone
<1>6. ConfirmedWasDelivered'
  BY <1>2, <1>3, <1>5 DEF ConfirmedWasDelivered, SeenUpToAck, ConfirmInv
<1>7. UpdatesDistinct'
  BY <1>2, <1>3, <1>4, <1>5 DEF UpdatesDistinct, ConfirmInv, KeepsEvents
<1>8. ConfirmedIsGone'
  <2> SUFFICES ASSUME NEW i \in DOMAIN events', events'[i].upd \in confirmed'
               PROVE  FALSE
    BY DEF ConfirmedIsGone
  <2>1. i \in DOMAIN events /\ i \notin gone /\ events'[i].upd = events[i].upd
    BY <1>4 DEF KeepsEvents
  <2>2. events[i].upd \notin confirmed
    BY <2>1 DEF ConfirmedIsGone, ConfirmInv
  <2>3. PICK j \in gone : events[i].upd = events[j].upd
    BY <1>5, <2>1, <2>2
  <2> QED
    BY <1>3, <2>1, <2>3 DEF UpdatesDistinct, ConfirmInv
<1> QED
  BY <1>6, <1>7, <1>8 DEF ConfirmInv

\* Every other step confirms nothing.
LEMMA OthersConfirmNothing ==
  ASSUME TypeOK, [Next]_vars, restarts' = restarts, ~ \E c \in Consumers : Confirm(c)
  PROVE  confirmed' = confirmed /\ delivered \subseteq delivered' /\ issued <= issued'
<1> DEFINE Goal == confirmed' = confirmed /\ delivered \subseteq delivered' /\ issued <= issued'
<1>0. issued \in Nat
  BY DEF TypeOK
<1>1. ASSUME NEW w \in Writers, PushEvent(w) \/ PushFull(w) PROVE Goal
  <2>1. UNCHANGED bot /\ issued' = issued + 1
    BY <1>1 DEF PushEvent, PushWith, PushFull
  <2> QED
    BY <1>0, <2>1 DEF bot
<1>2. ASSUME NEW w \in Writers, FinishPush(w) PROVE Goal
  BY <1>0, <1>2 DEF FinishPush, InsertRow, InsertFails, RecordLog, UndoInsert, bot
<1>3. ASSUME NEW p \in Procs, PopOne(p) PROVE Goal
  BY <1>0, <1>3 DEF PopOne, bot
<1>4. ASSUME NEW c \in Consumers, Poll(c) \/ Clear(c) \/ Forget(c) \/ LoseReply(c) PROVE Goal
  <2>1. UNCHANGED bot /\ issued' = issued
    BY <1>4 DEF Poll, Clear, Forget, LoseReply
  <2> QED
    BY <1>0, <2>1 DEF bot
<1>5. ASSUME NEW c \in Consumers, Receive(c) PROVE Goal
  BY <1>0, <1>5 DEF Receive
<1>6. ASSUME RunGC \/ StoreGC \/ Tick \/ UNCHANGED vars PROVE Goal
  BY <1>0, <1>6 DEF RunGC, StoreGC, Tick, vars, bot
<1>7. ~Restart
  BY DEF Restart, TypeOK
<1> QED
  BY <1>1, <1>2, <1>3, <1>4, <1>5, <1>6, <1>7 DEF Next

LEMMA ConfirmStep ==
  ASSUME TypeOK, TypeOK', SeenUpToAck, ConfirmInv, restarts = 0, [Next]_vars, restarts' = restarts
  PROVE  ConfirmInv'
<1>1. CASE \E c \in Consumers : Confirm(c)
  BY <1>1, ConfirmKeeps
<1>2. CASE ~ \E c \in Consumers : Confirm(c)
  <2>1. confirmed' = confirmed /\ delivered \subseteq delivered' /\ issued <= issued'
    BY <1>2, OthersConfirmNothing
  <2>2. ConfirmedWasDelivered'
    BY <2>1 DEF ConfirmedWasDelivered, ConfirmInv
  <2>3. CASE \E w \in Writers : \E hint \in Hints, ttl \in TTLs : PushWith(w, hint, ttl)
    BY <2>2, <2>3, PushConfirm DEF ConfirmInv
  <2>4. CASE ~ \E w \in Writers : \E hint \in Hints, ttl \in TTLs : PushWith(w, hint, ttl)
    <3>1. KeepsEvents
      BY <2>4, OthersKeep
    <3>2. /\ issued \in Nat /\ issued' \in Nat
          /\ \A i \in DOMAIN events : events[i].upd \in Nat
          /\ \A u \in confirmed : u \in Nat
      BY DEF TypeOK, Event, Updates
    <3>3. UpdatesDistinct'
      BY <2>1, <3>1, <3>2 DEF UpdatesDistinct, KeepsEvents, ConfirmInv
    <3>4. ConfirmedIsGone'
      BY <2>1, <3>1 DEF ConfirmedIsGone, KeepsEvents, ConfirmInv
    <3> QED
      BY <2>2, <3>3, <3>4 DEF ConfirmInv
  <2> QED
    BY <2>3, <2>4
<1> QED
  BY <1>1, <1>2

-----------------------------------------------------------------------------
(* The delivery invariant and what it gives.                               *)

LEMMA DeliveryInit == Init => DeliveryInv
  BY DEF Init, DeliveryInv, SeenUpToAck, AnswersComplete, ConfirmedWasDelivered, UpdatesDistinct,
         ConfirmedIsGone

LEMMA DeliveryStep ==
  ASSUME TypeOK, TypeOK', DeliveryInv, [Next]_vars
  PROVE  DeliveryInv'
<1> SUFFICES ASSUME restarts' = 0
             PROVE  (SeenUpToAck /\ AnswersComplete /\ ConfirmInv)'
  BY DEF DeliveryInv, ConfirmInv
<1>1. restarts' = restarts
  <2>1. restarts' = restarts \/ restarts' = restarts + 1
    <3>1. ASSUME NEW w \in Writers, PushEvent(w) \/ PushFull(w) \/ FinishPush(w)
          PROVE  restarts' = restarts
      BY <3>1 DEF PushEvent, PushWith, PushFull, FinishPush, InsertRow, InsertFails, RecordLog,
        UndoInsert
    <3>2. ASSUME NEW p \in Procs, PopOne(p) PROVE restarts' = restarts
      BY <3>2 DEF PopOne
    <3>3. ASSUME NEW c \in Consumers, Poll(c) \/ Confirm(c) \/ Clear(c) PROVE restarts' = restarts
      BY <3>3 DEF Poll, Confirm, Clear
    <3>4. ASSUME NEW c \in Consumers, Forget(c) \/ Receive(c) \/ LoseReply(c)
          PROVE  restarts' = restarts
      BY <3>4 DEF Forget, Receive, LoseReply
    <3>5. ASSUME RunGC \/ StoreGC \/ Tick \/ UNCHANGED vars PROVE restarts' = restarts
      BY <3>5 DEF RunGC, StoreGC, Tick, vars
    <3>6. ASSUME Restart PROVE restarts' = restarts + 1
      BY <3>6 DEF Restart
    <3> QED
      BY <3>1, <3>2, <3>3, <3>4, <3>5, <3>6 DEF Next
  <2>2. restarts \in Nat
    BY DEF TypeOK
  <2> QED
    BY <2>1, <2>2
<1>2. restarts = 0 /\ SeenUpToAck /\ AnswersComplete /\ ConfirmInv
  BY <1>1 DEF DeliveryInv, ConfirmInv
<1>3. SeenUpToAck' /\ AnswersComplete'
  BY <1>1, <1>2, SeenStep
<1>4. ConfirmInv'
  BY <1>1, <1>2, ConfirmStep
<1> QED
  BY <1>3, <1>4

\* While the process runs, the acknowledged id, the answers on their way and
\* the live events agree.
THEOREM DeliveryInvariant == Spec => []DeliveryInv
<1>1. TypeOK /\ TypeOK' /\ DeliveryInv /\ [Next]_vars => DeliveryInv'
  BY DeliveryStep
<1> QED
  BY <1>1, DeliveryInit, TypeCorrect, PTL DEF Spec

\* Until the process restarts, no offset of the bot drops an unexpired update
\* the bot has not received, however readers, writers and lost answers interleave.
THEOREM OffsetDropsOnlyReceived == Spec => []ConfirmedWasDeliveredInRun
<1>1. DeliveryInv => ConfirmedWasDeliveredInRun
  BY DEF DeliveryInv, ConfirmedWasDeliveredInRun
<1> QED
  BY <1>1, DeliveryInvariant, PTL

\* Until the process restarts, a confirmed update never comes back.
THEOREM ConfirmedStaysGone == Spec => []ConfirmedIsGone
<1>1. DeliveryInv => ConfirmedIsGone
  BY DEF DeliveryInv, ConfirmedIsGone
<1> QED
  BY <1>1, DeliveryInvariant, PTL

=============================================================================
