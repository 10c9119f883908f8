----------------------- MODULE TQueueRefinementProofs -----------------------
(* As long as it is not restarted, TQueue implements UpdateQueue: every step *)
(* is a step of the abstract queue or leaves it as it is.                    *)
EXTENDS TQueueDeliveryProofs, TQueueRefinement

-----------------------------------------------------------------------------
(* Ids and numbers of updates run alike.                                   *)

LEMMA OrderStep ==
  ASSUME TypeOK, TypeOK', UpdatesDistinct, IdsInOrder, [Next]_vars, restarts' = restarts
  PROVE  IdsInOrder'
<1>1. CASE ~ \E w \in Writers : \E hint \in Hints, ttl \in TTLs : PushWith(w, hint, ttl)
  BY <1>1, OthersKeep DEF KeepsEvents, IdsInOrder
<1>2. ASSUME NEW w \in Writers, NEW hint \in Hints, NEW ttl \in TTLs, PushWith(w, hint, ttl)
      PROVE  IdsInOrder'
  <2>1. PICK id, exp, upd : PushStep(w, id, exp, upd)
    BY <1>2, PushIsPushStep
  <2>2. push'[w].upd = upd /\ push'[w].upd = issued + 1
    <3>1. push'[w] = [pc |-> "insert", id |-> id, exp |-> exp, upd |-> upd, log |-> 0]
      BY <2>1 DEF PushStep, TypeOK
    <3>2. push'[w] = [pc |-> "insert", id |-> NextID(hint), exp |-> ExpiresAt(ttl),
                      upd |-> issued + 1, log |-> 0]
      BY <1>2 DEF PushWith, TypeOK
    <3> QED
      BY <3>1, <3>2
  <2>3. /\ \A i \in DOMAIN events' \ {id} : i \in DOMAIN events /\ events'[i] = events[i]
        /\ id \in DOMAIN events' => events'[id].upd = issued + 1
    BY <2>1, <2>2 DEF PushStep
  <2>4. /\ id \in Nat /\ issued \in Nat
        /\ \A i \in DOMAIN events :
             i \in Nat /\ i < id /\ events[i].upd \in Nat /\ events[i].upd <= issued
    BY <2>1 DEF PushStep, TypeOK, EventIds, Event, Updates, UpdatesDistinct
  <2> QED
    BY <2>3, <2>4 DEF IdsInOrder
<1> QED
  BY <1>1, <1>2

-----------------------------------------------------------------------------
(* The removals.                                                           *)

\* The updates of the events with the ids of S.
UpdatesOf(S) == {events[i].upd : i \in S}

LEMMA RemovedLeaves ==
  ASSUME UpdatesDistinct, NEW S \in SUBSET DOMAIN events,
         events' = Without(events, S), now' = now
  PROVE  UpdatesOf(S) \subseteq pending /\ Queue!Leaves(pending \ UpdatesOf(S))
<1>1. /\ DOMAIN events' = DOMAIN events \ S
      /\ \A i \in DOMAIN events' : events'[i] = events[i]
  BY DEF Without, Restrict
<1>2. pending' = pending \ UpdatesOf(S)
  BY <1>1 DEF pending, UpdatesOf, UpdatesDistinct
<1>3. \A i \in DOMAIN events' :
        i \in ExpiredIds(events', now') <=> i \in ExpiredIds(events, now)
  BY <1>1 DEF ExpiredIds, Expired
<1>4. ExpiredIds(events', now') = ExpiredIds(events, now) \ S
  BY <1>1, <1>3 DEF ExpiredIds
<1>5. stale' = {events[i].upd : i \in ExpiredIds(events, now) \ S}
  BY <1>1, <1>4 DEF stale, ExpiredIds
<1>6. stale' = stale \cap (pending \ UpdatesOf(S))
  BY <1>5 DEF stale, pending, UpdatesOf, UpdatesDistinct, ExpiredIds
<1>7. UpdatesOf(S) \subseteq pending
  BY DEF UpdatesOf, pending
<1> QED
  BY <1>2, <1>6, <1>7 DEF Queue!Leaves

LEMMA OldestIds ==
  ASSUME TypeOK, IdsInOrder, NEW S \in SUBSET DOMAIN events,
         \A i \in S, j \in DOMAIN events : j < i => j \in S
  PROVE  Queue!Oldest(UpdatesOf(S), pending)
<1>1. \A i \in DOMAIN events : i \in Int /\ events[i].upd \in Int
  BY DEF TypeOK, Event, Updates
<1>2. ASSUME NEW i \in S, NEW j \in DOMAIN events, events[j].upd < events[i].upd
      PROVE  j \in S
  <2>1. ~(i < j) /\ i # j
    BY <1>1, <1>2 DEF IdsInOrder
  <2> QED
    BY <1>1, <2>1
<1> QED
  BY <1>2 DEF Queue!Oldest, UpdatesOf, pending

-----------------------------------------------------------------------------
(* Pushes.                                                                 *)

LEMMA PushArrives ==
  ASSUME TypeOK, TypeOK', UpdatesDistinct, IdsInOrder,
         NEW w \in Writers, NEW hint \in Hints, NEW ttl \in TTLs, PushWith(w, hint, ttl)
  PROVE  Queue!Arrive
<1> DEFINE id   == NextID(hint)
           ev   == [exp |-> ExpiresAt(ttl), log |-> 0, upd |-> issued + 1]
           all  == Put(events, id, ev)
           trim == AllButLast(all, MaxQueueEvents)
           trimmed == {all[i].upd : i \in trim}
<1>1. /\ id \in 1..MaxID /\ id > tail /\ tail \in Nat /\ MaxID \in Nat
      /\ issued \in Nat /\ now \in Nat
  BY BoundsAssumption, InputsAssumption DEF PushWith, NextID, TypeOK
<1>2. /\ events' = Without(all, trim) /\ issued' = issued + 1
      /\ UNCHANGED <<now, reply, delivered, confirmed>>
  BY DEF PushWith, bot
<1>3. /\ DOMAIN all = DOMAIN events \cup {id} /\ all[id] = ev
      /\ \A i \in DOMAIN events \ {id} : all[i] = events[i]
  BY DEF Put
<1>4. \A i \in DOMAIN events :
        /\ i \in 1..MaxID /\ i < id
        /\ events[i].upd \in Nat /\ events[i].upd <= issued
  BY <1>1 DEF TypeOK, Event, Updates, UpdatesDistinct
<1>5. ev.upd = issued + 1 /\ ~Expired(ev, now)
  <2>1. ttl \in Nat
    BY InputsAssumption
  <2> QED
    BY <1>1, <2>1 DEF Expired, ExpiresAt
<1>6. trim \subseteq DOMAIN all /\ DOMAIN all \subseteq 1..MaxID
  BY <1>1, <1>3, <1>4 DEF AllButLast
<1>7. \A i \in trim, j \in DOMAIN all : j < i => j \in trim
  BY <1>1, <1>6, OldestRemoved, BoundsAssumption
<1> HIDE DEF id, ev, all, trim
<1>8. \A i \in DOMAIN events : all[i] = events[i] /\ i # id
  BY <1>1, <1>3, <1>4
<1>9. \A i, j \in DOMAIN all :
        /\ i < j => all[i].upd < all[j].upd
        /\ all[i].upd = all[j].upd => i = j
        /\ i \in Int /\ all[i].upd \in Int
  <2> SUFFICES ASSUME NEW i \in DOMAIN all, NEW j \in DOMAIN all
               PROVE  /\ i < j => all[i].upd < all[j].upd
                      /\ all[i].upd = all[j].upd => i = j
                      /\ i \in Int /\ all[i].upd \in Int
    OBVIOUS
  <2>1. CASE i = id
    BY <1>1, <1>3, <1>4, <1>5, <1>8, <2>1
  <2>2. CASE j = id
    BY <1>1, <1>3, <1>4, <1>5, <1>8, <2>2
  <2>3. CASE i \in DOMAIN events /\ j \in DOMAIN events
    BY <1>4, <1>8, <2>3 DEF IdsInOrder, UpdatesDistinct
  <2> QED
    BY <1>3, <2>1, <2>2, <2>3
<1>10. pending \cup {issued + 1} = {all[i].upd : i \in DOMAIN all}
  BY <1>3, <1>5, <1>8 DEF pending
<1>11. Queue!Oldest(trimmed, pending \cup {issued + 1})
  <2>1. trimmed \subseteq {all[i].upd : i \in DOMAIN all}
    BY <1>6
  <2>2. ASSUME NEW i \in trim, NEW j \in DOMAIN all, all[j].upd < all[i].upd
        PROVE  all[j].upd \in trimmed
    <3>1. i \in DOMAIN all /\ ~(i < j) /\ i # j
      BY <1>6, <1>9, <2>2
    <3>2. j \in trim
      BY <1>7, <1>9, <3>1
    <3> QED
      BY <3>2
  <2> QED
    BY <1>10, <2>1, <2>2 DEF Queue!Oldest
<1>12. /\ DOMAIN events' = DOMAIN all \ trim
       /\ \A i \in DOMAIN events' : events'[i] = all[i]
  BY <1>2 DEF Without, Restrict
<1>13. pending' = (pending \cup {issued + 1}) \ trimmed
  <2>1. pending' = {all[i].upd : i \in DOMAIN all \ trim}
    BY <1>12 DEF pending
  <2>2. {all[i].upd : i \in DOMAIN all \ trim} = {all[i].upd : i \in DOMAIN all} \ trimmed
    BY <1>6, <1>9
  <2> QED
    BY <1>10, <2>1, <2>2
<1>14. stale' = stale \cap pending'
  <2>1. ASSUME NEW i \in DOMAIN events'
        PROVE  Expired(events'[i], now') <=> i \in ExpiredIds(events, now)
    BY <1>2, <1>3, <1>5, <1>8, <1>12 DEF ExpiredIds, Expired
  <2>2. ExpiredIds(events', now') = ExpiredIds(events, now) \cap DOMAIN events'
    BY <2>1 DEF ExpiredIds
  <2>3. \A i \in DOMAIN events' \cap DOMAIN events : events'[i] = events[i]
    BY <1>8, <1>12
  <2>4. stale' = {events[i].upd : i \in ExpiredIds(events, now) \cap DOMAIN events'}
    BY <2>2, <2>3 DEF stale, ExpiredIds
  <2>5. ASSUME NEW i \in ExpiredIds(events, now), events[i].upd \in pending'
        PROVE  i \in DOMAIN events'
    <3>1. PICK j \in DOMAIN events' : events[i].upd = events'[j].upd
      BY <2>5 DEF pending
    <3>2. i \in DOMAIN all /\ all[i] = events[i]
      BY <1>3, <1>8 DEF ExpiredIds
    <3> QED
      BY <1>9, <1>12, <3>1, <3>2
  <2>6. \A i \in DOMAIN events \cap DOMAIN events' : events[i].upd \in pending'
    BY <2>3 DEF pending
  <2> QED
    BY <2>4, <2>5, <2>6 DEF stale, ExpiredIds
<1>15. trimmed \in SUBSET (pending \cup {issued + 1})
  BY <1>11 DEF Queue!Oldest
<1>16. Queue!Leaves((pending \cup {issued + 1}) \ trimmed)
  BY <1>13, <1>14 DEF Queue!Leaves
<1>17. UNCHANGED answers
  BY <1>2 DEF answers
<1> HIDE DEF trimmed
<1> QED
  BY <1>2, <1>11, <1>15, <1>16, <1>17 DEF Queue!Arrive

-----------------------------------------------------------------------------
(* Readers.                                                                *)

\* A page read after an offset the bot may send.
PageAfter(from, limit) == UpdatesOf(Matching(events, from, now, limit))

LEMMA PagePassesOverNothing ==
  ASSUME TypeOK, SeenUpToAck, UpdatesDistinct, IdsInOrder,
         NEW from \in 0..ack, NEW limit \in Nat
  PROVE  /\ PageAfter(from, limit) \subseteq pending \ (UpdatesOf(UpTo(events, from)) \cup stale)
         /\ \A u \in PageAfter(from, limit), v \in pending \ stale :
              v < u => v \in PageAfter(from, limit) \cup delivered
<1> DEFINE M == Matching(events, from, now, limit)
           R == {[id |-> i, upd |-> events[i].upd] : i \in M}
<1>1. \A i \in M : i \in DOMAIN events /\ i \notin ExpiredIds(events, now) /\ i > from
  BY DEF Matching, Lowest
<1>2. \A i \in DOMAIN events : i \in Int /\ events[i].upd \in Int
  BY DEF TypeOK, Event, Updates
<1>3. from \in Int
  BY DEF TypeOK
<1>4. \A i \in M : i \notin UpTo(events, from)
  BY <1>1, <1>2, <1>3 DEF UpTo
<1>5. Complete(events, ack, delivered, {}, now)
  BY SeenAsComplete
<1>6. \A m \in M : Complete(events, m, delivered, R, now)
  BY <1>5, ReadComplete
<1> HIDE DEF M
<1>7. ASSUME NEW m \in M, NEW j \in DOMAIN events, j \notin ExpiredIds(events, now),
             events[j].upd < events[m].upd
      PROVE  events[j].upd \in UpdatesOf(M) \cup delivered
  <2>1. ~(m < j) /\ m # j
    BY <1>1, <1>2, <1>7 DEF IdsInOrder
  <2>2. Dealt(events[j], delivered, R, now)
    BY <1>1, <1>2, <1>6, <2>1 DEF Complete
  <2>3. ~Expired(events[j], now)
    BY <1>7 DEF ExpiredIds
  <2> QED
    BY <2>2, <2>3 DEF Dealt, UpdatesOf
<1>8. UpdatesOf(M) \subseteq pending \ (UpdatesOf(UpTo(events, from)) \cup stale)
  BY <1>1, <1>4 DEF UpdatesOf, pending, stale, UpdatesDistinct, UpTo, ExpiredIds
<1>9. \A u \in UpdatesOf(M), v \in pending \ stale : v < u => v \in UpdatesOf(M) \cup delivered
  BY <1>1, <1>7 DEF UpdatesOf, pending, stale
<1> QED
  BY <1>8, <1>9 DEF M, PageAfter

\* The answer of c becomes what it has taken.
LEMMA AnswerTaken ==
  ASSUME TypeOK, NEW c \in Consumers, NEW M,
         reply' = [reply EXCEPT ![c] = {[id |-> i, upd |-> events[i].upd] : i \in M}]
  PROVE  answers' = [answers EXCEPT ![c] = UpdatesOf(M)]
<1> DEFINE R == {[id |-> i, upd |-> events[i].upd] : i \in M}
<1>1. {x.upd : x \in R} = UpdatesOf(M)
  <2>1. ASSUME NEW x \in R
        PROVE  x.upd \in UpdatesOf(M)
    BY DEF UpdatesOf
  <2>2. ASSUME NEW i \in M
        PROVE  \E x \in R : x.upd = events[i].upd
    <3>1. [id |-> i, upd |-> events[i].upd] \in R
      OBVIOUS
    <3> QED
      BY <3>1
  <2> QED
    BY <2>1, <2>2 DEF UpdatesOf
<1>2. \A d \in Consumers :
        reply'[d] = IF d = c THEN {[id |-> i, upd |-> events[i].upd] : i \in M} ELSE reply[d]
  BY DEF TypeOK
<1>3. \A d \in Consumers :
        {x.upd : x \in reply'[d]} = IF d = c THEN UpdatesOf(M) ELSE {x.upd : x \in reply[d]}
  BY <1>1, <1>2
<1> QED
  BY <1>3 DEF answers

LEMMA PollTakes ==
  ASSUME TypeOK, SeenUpToAck, UpdatesDistinct, IdsInOrder, NEW c \in Consumers, Poll(c)
  PROVE  Queue!Take(c)
<1>1. PICK from \in 0..ack, limit \in 1..MaxLimit :
        reply' = [reply EXCEPT ![c] =
          {[id |-> i, upd |-> events[i].upd] : i \in Matching(events, from, now, limit)}]
  BY DEF Poll
<1>2. answers' = [answers EXCEPT ![c] = PageAfter(from, limit)]
  BY <1>1, AnswerTaken DEF PageAfter
<1>3. limit \in Nat
  BY BoundsAssumption
<1>4. UNCHANGED <<pending, stale, confirmed, issued, delivered>> /\ stale \subseteq pending
  BY DEF Poll, memory, bot, pending, stale, ExpiredIds
<1>5. answers[c] = {}
  BY DEF Poll, Free, answers
<1>6. /\ PageAfter(from, limit) \in SUBSET (pending \ ({} \cup stale))
      /\ \A u \in PageAfter(from, limit), v \in pending \ ({} \cup stale) :
           v < u => v \in PageAfter(from, limit) \cup delivered
  BY <1>3, PagePassesOverNothing
<1>7. Queue!Leaves(pending \ {}) /\ Queue!Oldest({}, pending)
  BY <1>4 DEF Queue!Leaves, Queue!Oldest
<1>8. {} \in SUBSET pending /\ {} \subseteq delivered \cup stale /\ confirmed' = confirmed \cup ({} \ stale)
  BY <1>4
<1> QED
  BY <1>2, <1>4, <1>5, <1>6, <1>7, <1>8 DEF Queue!Take

LEMMA ConfirmTakes ==
  ASSUME TypeOK, SeenUpToAck, UpdatesDistinct, IdsInOrder, NEW c \in Consumers, Confirm(c)
  PROVE  Queue!Take(c)
<1>1. PICK from \in 0..ack, limit \in 1..MaxLimit :
        /\ events' = Without(events, UpTo(events, from))
        /\ confirmed' = confirmed \cup
             {events[i].upd : i \in UpTo(events, from) \ ExpiredIds(events, now)}
        /\ reply' = [reply EXCEPT ![c] =
          {[id |-> i, upd |-> events[i].upd] : i \in Matching(events, from, now, limit)}]
  BY DEF Confirm, Remove
<1> DEFINE S == UpTo(events, from)
           gone == UpdatesOf(S)
           page == PageAfter(from, limit)
<1>2. answers' = [answers EXCEPT ![c] = page]
  BY <1>1, AnswerTaken DEF PageAfter
<1>3. limit \in Nat /\ from \in Int /\ ack \in Int
  BY BoundsAssumption DEF TypeOK
<1>4. UNCHANGED <<issued, delivered, now>> /\ answers[c] = {}
  BY DEF Confirm, Free, answers
<1>5. S \in SUBSET DOMAIN events /\ \A i \in S : i <= ack
  BY <1>3 DEF UpTo, TypeOK
<1>6. \A i \in S, j \in DOMAIN events : j < i => j \in S
  BY <1>3 DEF UpTo, TypeOK
<1>7. /\ page \subseteq pending \ (gone \cup stale)
      /\ \A u \in page, v \in pending \ stale : v < u => v \in page \cup delivered
  BY <1>3, PagePassesOverNothing
<1> HIDE DEF S
<1>8. gone \subseteq pending /\ Queue!Leaves(pending \ gone)
  BY <1>1, <1>4, <1>5, RemovedLeaves DEF S
<1>9. Queue!Oldest(gone, pending)
  BY <1>5, <1>6, OldestIds
<1>10. gone \subseteq delivered \cup stale
  BY <1>5 DEF SeenUpToAck, UpdatesOf, stale, ExpiredIds
<1>11. {events[i].upd : i \in S \ ExpiredIds(events, now)} = gone \ stale
  BY <1>5 DEF UpdatesOf, stale, UpdatesDistinct, ExpiredIds
<1>12. confirmed' = confirmed \cup (gone \ stale)
  BY <1>1, <1>11 DEF S
<1> HIDE DEF gone, page
<1>13. page \in SUBSET (pending \ (gone \cup stale))
  BY <1>7
<1>14. \A u \in page, v \in pending \ (gone \cup stale) : v < u => v \in page \cup delivered
  BY <1>7
<1>15. gone \in SUBSET pending
  BY <1>8
<1> QED
  BY <1>2, <1>4, <1>8, <1>9, <1>10, <1>12, <1>13, <1>14, <1>15 DEF Queue!Take

-----------------------------------------------------------------------------
(* Every other step.                                                       *)

LEMMA RemovalsDrop ==
  ASSUME TypeOK, UpdatesDistinct, IdsInOrder,
         RunGC \/ \E c \in Consumers : Clear(c) \/ Forget(c)
  PROVE  Queue!Drop
<1>1. ASSUME NEW S \in SUBSET DOMAIN events, events' = Without(events, S),
             UNCHANGED <<now, issued, reply, delivered, confirmed>>,
             \/ Queue!Oldest(UpdatesOf(S), pending)
             \/ \E u \in pending : UpdatesOf(S) = {u}
             \/ UpdatesOf(S) \subseteq stale
      PROVE  Queue!Drop
  <2>1. UpdatesOf(S) \in SUBSET pending /\ Queue!Leaves(pending \ UpdatesOf(S))
    BY <1>1, RemovedLeaves
  <2>2. UNCHANGED answers
    BY <1>1 DEF answers
  <2> QED
    BY <1>1, <2>1, <2>2 DEF Queue!Drop
<1>2. CASE RunGC
  <2> DEFINE S == ExpiredIds(events, now)
  <2>1. S \in SUBSET DOMAIN events /\ UpdatesOf(S) \subseteq stale
    BY DEF ExpiredIds, UpdatesOf, stale
  <2>2. events' = Without(events, S) /\ UNCHANGED <<now, issued, reply, delivered, confirmed>>
    BY <1>2 DEF RunGC, Remove, bot
  <2> QED
    BY <1>1, <2>1, <2>2
<1>3. ASSUME NEW c \in Consumers, Clear(c)
      PROVE  Queue!Drop
  <2>1. PICK k \in 0..MaxLimit : Remove(c, AllButLast(events, k))
    BY <1>3 DEF Clear
  <2> DEFINE S == AllButLast(events, k)
  <2>2. S \in SUBSET DOMAIN events
    BY DEF AllButLast
  <2>3. DOMAIN events \subseteq 1..tail /\ tail \in Nat /\ k \in Nat
    BY BoundsAssumption DEF TypeOK
  <2>4. \A i \in S, j \in DOMAIN events : j < i => j \in S
    BY <2>3, OldestRemoved
  <2>5. events' = Without(events, S) /\ UNCHANGED <<now, issued, reply, delivered, confirmed>>
    BY <1>3, <2>1 DEF Clear, Remove, bot
  <2> HIDE DEF S
  <2>6. Queue!Oldest(UpdatesOf(S), pending)
    BY <2>2, <2>4, OldestIds
  <2> QED
    BY <1>1, <2>2, <2>5, <2>6
<1>4. ASSUME NEW c \in Consumers, Forget(c)
      PROVE  Queue!Drop
  <2>1. PICK id \in DOMAIN events : Remove(c, {id})
    BY <1>4 DEF Forget
  <2>2. events' = Without(events, {id}) /\ UNCHANGED <<now, issued, reply, delivered, confirmed>>
    BY <1>4, <2>1 DEF Forget, Remove, bot
  <2>3. UpdatesOf({id}) = {events[id].upd} /\ events[id].upd \in pending
    BY DEF UpdatesOf, pending
  <2> QED
    BY <1>1, <2>2, <2>3
<1> QED
  BY <1>2, <1>3, <1>4

LEMMA AnswersEnd ==
  ASSUME TypeOK, NEW c \in Consumers, Receive(c) \/ LoseReply(c)
  PROVE  Queue!Receive(c) \/ Queue!Lose(c)
<1>1. UNCHANGED <<events, now, issued, confirmed>> /\ reply' = [reply EXCEPT ![c] = {}]
  BY DEF Receive, LoseReply, memory, bot
<1>2. UNCHANGED <<pending, stale>>
  BY <1>1 DEF pending, stale
<1>3. answers' = [answers EXCEPT ![c] = {}]
  <2>1. \A d \in Consumers : reply'[d] = IF d = c THEN {} ELSE reply[d]
    BY <1>1 DEF TypeOK
  <2>2. \A d \in Consumers : {x.upd : x \in reply'[d]} = IF d = c THEN {} ELSE {x.upd : x \in reply[d]}
    BY <2>1
  <2> QED
    BY <2>2 DEF answers
<1>4. CASE Receive(c)
  <2>1. delivered' = delivered \cup answers[c]
    BY <1>4 DEF Receive, answers
  <2> QED
    BY <1>1, <1>2, <1>3, <2>1 DEF Queue!Receive
<1>5. CASE LoseReply(c)
  <2>1. delivered' = delivered
    BY <1>5 DEF LoseReply, bot
  <2> QED
    BY <1>1, <1>2, <1>3, <2>1 DEF Queue!Lose
<1> QED
  BY <1>4, <1>5

\* Steps that only the disk, the goroutines or the clock see.
LEMMA HiddenSteps ==
  ASSUME TypeOK, UNCHANGED <<events, issued, reply, delivered, confirmed>>,
         now' \in Nat, now <= now'
  PROVE  Queue!Expire
<1>1. UNCHANGED <<pending, answers>>
  BY DEF pending, answers
<1>2. \A i \in DOMAIN events : events[i].exp \in Nat /\ now \in Nat
  BY DEF TypeOK, Event
<1>3. ExpiredIds(events, now) \subseteq ExpiredIds(events, now')
  BY <1>2 DEF ExpiredIds, Expired
<1>4. stale \subseteq stale' /\ stale' \subseteq pending
  BY <1>3 DEF stale, pending, ExpiredIds
<1> QED
  BY <1>1, <1>4 DEF Queue!Expire

LEMMA RecordHidden ==
  ASSUME TypeOK, NEW w \in Writers, RecordLog(w)
  PROVE  UNCHANGED Queue!vars
<1> DEFINE id == push[w].id
<1>1. /\ id \in DOMAIN events /\ events' = [events EXCEPT ![id].log = push[w].log]
      /\ UNCHANGED <<issued, now, reply, delivered, confirmed>>
  BY DEF RecordLog, bot
<1>2. /\ DOMAIN events' = DOMAIN events
      /\ \A i \in DOMAIN events : events'[i].upd = events[i].upd /\ events'[i].exp = events[i].exp
  <2>1. \A i \in DOMAIN events : events[i] \in Event
    BY DEF TypeOK
  <2> QED
    BY <1>1, <2>1 DEF Event
<1>3. pending' = pending
  BY <1>2 DEF pending
<1>4. ExpiredIds(events', now') = ExpiredIds(events, now)
  BY <1>1, <1>2 DEF ExpiredIds, Expired
<1>5. stale' = stale
  BY <1>2, <1>4 DEF stale, ExpiredIds
<1>6. answers' = answers
  BY <1>1 DEF answers
<1> QED
  BY <1>1, <1>3, <1>5, <1>6 DEF Queue!vars

-----------------------------------------------------------------------------
(* The refinement.                                                         *)

\* What a run of the process keeps, on top of TypeOK and DeliveryInv.
RunInv == restarts = 0 /\ IdsInOrder

LEMMA RunInit == Init => RunInv /\ Queue!Init
<1> SUFFICES ASSUME Init
             PROVE  RunInv /\ Queue!Init
  OBVIOUS
<1>1. DOMAIN events = {}
  BY DEF Init
<1>2. restarts = 0 /\ IdsInOrder
  BY <1>1 DEF Init, IdsInOrder
<1>3. pending = {} /\ stale = {}
  BY <1>1 DEF pending, stale, ExpiredIds
<1>4. answers = [c \in Consumers |-> {}]
  BY DEF Init, answers
<1> QED
  BY <1>2, <1>3, <1>4 DEF RunInv, Init, Queue!Init

LEMMA RunStep ==
  ASSUME MaxRestarts = 0, TypeOK, TypeOK', DeliveryInv, RunInv, [Next]_vars
  PROVE  RunInv' /\ [Queue!Next]_Queue!vars
<1>1. SeenUpToAck /\ UpdatesDistinct /\ IdsInOrder /\ restarts = 0
  BY DEF RunInv, DeliveryInv
<1>2. restarts' = restarts
  <2>1. ~Restart
    BY <1>1 DEF Restart
  <2>2. ASSUME NEW w \in Writers, PushEvent(w) \/ PushFull(w) \/ FinishPush(w)
        PROVE  restarts' = restarts
    BY <2>2 DEF PushEvent, PushWith, PushFull, FinishPush, InsertRow, InsertFails,
      RecordLog, UndoInsert
  <2>3. ASSUME NEW c \in Consumers,
               Poll(c) \/ Confirm(c) \/ Clear(c) \/ Forget(c) \/ Receive(c) \/ LoseReply(c)
        PROVE  restarts' = restarts
    BY <2>3 DEF Poll, Confirm, Clear, Forget, Receive, LoseReply
  <2>4. ASSUME (\E p \in Procs : PopOne(p)) \/ RunGC \/ StoreGC \/ Tick \/ UNCHANGED vars
        PROVE  restarts' = restarts
    BY <2>4 DEF PopOne, RunGC, StoreGC, Tick, vars
  <2> QED
    BY <2>1, <2>2, <2>3, <2>4 DEF Next
<1>3. RunInv'
  BY <1>1, <1>2, OrderStep DEF RunInv
<1>4. ASSUME NEW w \in Writers, PushEvent(w)
      PROVE  Queue!Next
  BY <1>1, <1>4, PushArrives DEF PushEvent, Queue!Next
<1>5. ASSUME NEW w \in Writers, PushFull(w)
      PROVE  Queue!Next
  <2>1. UNCHANGED <<events, now, reply, delivered, confirmed>> /\ issued' = issued + 1
    BY <1>5 DEF PushFull, memory, bot
  <2>2. UNCHANGED <<pending, stale, answers>>
    BY <2>1 DEF pending, stale, answers
  <2> QED
    BY <2>1, <2>2 DEF Queue!Reject, Queue!Next
<1>6. ASSUME UNCHANGED <<events, issued, reply, delivered, confirmed>>,
             now' \in Nat, now <= now'
      PROVE  Queue!Next
  BY <1>6, HiddenSteps DEF Queue!Next
<1>7. ASSUME NEW w \in Writers, FinishPush(w)
      PROVE  [Queue!Next]_Queue!vars
  <2>1. CASE RecordLog(w)
    BY <2>1, RecordHidden
  <2>2. CASE InsertRow(w) \/ InsertFails(w) \/ UndoInsert(w)
    BY <1>6, <2>2 DEF InsertRow, InsertFails, UndoInsert, memory, bot, TypeOK
  <2> QED
    BY <1>7, <2>1, <2>2 DEF FinishPush
<1>8. ASSUME (\E p \in Procs : PopOne(p)) \/ StoreGC \/ Tick \/ UNCHANGED vars
      PROVE  Queue!Next
  BY <1>6, <1>8 DEF PopOne, StoreGC, Tick, vars, memory, bot, TypeOK
<1>9. ASSUME NEW c \in Consumers, Poll(c) \/ Confirm(c)
      PROVE  Queue!Next
  BY <1>1, <1>9, PollTakes, ConfirmTakes DEF Queue!Next
<1>10. ASSUME RunGC \/ \E c \in Consumers : Clear(c) \/ Forget(c)
       PROVE  Queue!Next
  BY <1>1, <1>10, RemovalsDrop DEF Queue!Next
<1>11. ASSUME NEW c \in Consumers, Receive(c) \/ LoseReply(c)
       PROVE  Queue!Next
  BY <1>11, AnswersEnd DEF Queue!Next
<1>12. ~Restart
  BY <1>1 DEF Restart
<1>13. [Queue!Next]_Queue!vars
  BY <1>4, <1>5, <1>7, <1>8, <1>9, <1>10, <1>11, <1>12 DEF Next
<1> QED
  BY <1>3, <1>13

\* As long as the process is not restarted, for any number of readers and
\* writers, any cap, failing statements and lost answers: the queue of tqueue.go
\* with its table is a queue as UpdateQueue describes it.
THEOREM TQueueIsAnUpdateQueue ==
  ASSUME MaxRestarts = 0
  PROVE  Spec => ImplementsQueue
<1>1. Init => RunInv /\ Queue!Init
  BY RunInit
<1>2. TypeOK /\ TypeOK' /\ DeliveryInv /\ RunInv /\ [Next]_vars
        => RunInv' /\ [Queue!Next]_Queue!vars
  BY RunStep
<1> QED
  BY <1>1, <1>2, TypeCorrect, DeliveryInvariant, PTL DEF Spec, ImplementsQueue, Queue!Spec
=============================================================================
