-------------------------- MODULE DelivererProofs --------------------------
(***************************************************************************)
(* The webhook delivery loop for every number of updates, runs and         *)
(* connections: its counter of POSTs is exact, its queues hold the pending *)
(* updates in order, no accepted update is POSTed again in a run, and none *)
(* is given up without cause.                                              *)
(***************************************************************************)
EXTENDS Deliverer, TQueueOpsProofs, SequenceTheorems

USE DelivererAssumption

\* The empty map.
LEMMA EmptyDomain == DOMAIN Empty = {}
BY DEF Empty

\* What is marked in flight is a finite set.
LEMMA MarkedFinite == TypeOK => IsFiniteSet(Marked) /\ Cardinality(Marked) \in Nat
<1>1. SUFFICES ASSUME TypeOK PROVE IsFiniteSet(Marked) /\ Cardinality(Marked) \in Nat
  OBVIOUS
<1>2. Marked \in SUBSET (0..MaxUpdates)
  BY <1>1 DEF Marked, TypeOK, EventIds
<1> QED
  BY <1>2, BoundedIsFinite

-----------------------------------------------------------------------------
(* The first state.                                                        *)

\* Before the first run the loop holds nothing.
LEMMA LoopInit == Init => LoopInv
<1>1. SUFFICES ASSUME Init PROVE LoopInv
  OBVIOUS
<1>2. DOMAIN events = {} /\ DOMAIN pending = {} /\ DOMAIN queues = {}
  BY <1>1, EmptyDomain DEF Init
<1>3. results = <<>> /\ results \in Seq([id : EventIds, outcome : Outcomes])
  BY <1>1, EmptySeq DEF Init
<1>6. DOMAIN results = {}
  <2>1. DOMAIN results = 1..0
    BY <1>3, EmptySeq, LenProperties
  <2> QED
    BY <2>1
<1>4. TypeOK
  <2>1. /\ tail \in 0..MaxUpdates /\ run \in 0..MaxRuns /\ fromID \in 0..MaxUpdates + 1
        /\ inFlight \in Nat
    BY <1>1 DEF Init
  <2>2. /\ active \in BOOLEAN /\ cancelled \in BOOLEAN /\ gone \in BOOLEAN /\ idle \in BOOLEAN
        /\ pc \in {"off", "top", "dispatch", "select"}
        /\ posts = {} /\ acked = {} /\ forgotten = {}
    BY <1>1 DEF Init
  <2> QED
    BY <1>2, <1>3, <2>1, <2>2 DEF TypeOK
<1>5. Counted
  <2>1. Marked = {}
    BY <1>2 DEF Marked
  <2> QED
    BY <2>1, <1>1, FS_EmptySet DEF Init, Counted
<1> QED
  BY <1>1, <1>2, <1>3, <1>4, <1>5, <1>6
     DEF Init, LoopInv, OffIsClean, BehindCursor, PostsAreMarked, ResultsAreMarked,
         MarkedIsAccounted, AckedIsDone, MarkedAreHeads, QueuesHoldPending, NoRepost,
         GivenUpForCause, Running

-----------------------------------------------------------------------------
(* Steps that leave the loop alone.                                        *)

\* The queue changes, or a stop returns: the loop's variables are as before.
LEMMA LoopUntouched ==
  ASSUME LoopInv, TypeOK', pc' = pc, run' = run, UNCHANGED <<loopVars, posts, acked, forgotten>>
  PROVE  LoopInv'
<1>1. UNCHANGED <<fromID, pending, queues, inFlight, idle, results>>
  BY DEF loopVars
<1> QED
  BY <1>1 DEF LoopInv, OffIsClean, BehindCursor, PostsAreMarked, ResultsAreMarked,
       MarkedIsAccounted, Counted, Marked, AckedIsDone, MarkedAreHeads, QueuesHoldPending,
       NoRepost, GivenUpForCause, Running

\* The update queue changes under the loop: what the loop holds does not.
LEMMA QueueSteps ==
  ASSUME LoopInv, PushUpdate \/ Expire \/ QueueShrinks
  PROVE  LoopInv'
<1>1. TypeOK
  BY DEF LoopInv
<1>2. pc' = pc /\ run' = run /\ UNCHANGED <<ctlVars, loopVars, posts, acked, forgotten>>
  BY DEF PushUpdate, Expire, QueueShrinks
<1>3. UNCHANGED <<active, cancelled, gone, fromID, pending, queues, inFlight, idle, results,
                  posts, acked, forgotten, pc, run>>
  BY <1>2 DEF loopVars, ctlVars
<1>4. /\ DOMAIN events' \subseteq 1..tail' /\ tail' \in 0..MaxUpdates
      /\ \A i \in DOMAIN events' :
           events'[i] \in [extra : Extras, mortal : BOOLEAN, expired : BOOLEAN]
  <2>1. CASE PushUpdate
    <3>1. PICK x \in Extras, m \in BOOLEAN :
            /\ tail < MaxUpdates /\ tail' = tail + 1
            /\ events' = Put(events, tail + 1, [extra |-> x, mortal |-> m, expired |-> FALSE])
      BY <2>1 DEF PushUpdate
    <3> DEFINE e == [extra |-> x, mortal |-> m, expired |-> FALSE]
    <3>2. e \in [extra : Extras, mortal : BOOLEAN, expired : BOOLEAN]
      OBVIOUS
    <3> HIDE DEF e
    <3>3. /\ DOMAIN events' = DOMAIN events \cup {tail + 1}
          /\ \A i \in DOMAIN events' : events'[i] = IF i = tail + 1 THEN e ELSE events[i]
      BY <3>1 DEF Put, e
    <3>4. tail + 1 \in 1..tail' /\ 1..tail \subseteq 1..tail' /\ tail' \in 0..MaxUpdates
      BY <1>1, <3>1 DEF TypeOK
    <3>5. DOMAIN events \subseteq 1..tail
          /\ \A i \in DOMAIN events :
               events[i] \in [extra : Extras, mortal : BOOLEAN, expired : BOOLEAN]
      BY <1>1 DEF TypeOK
    <3> QED
      BY <3>2, <3>3, <3>4, <3>5
  <2>2. CASE Expire
    <3>1. PICK i \in DOMAIN events : events' = [events EXCEPT ![i].expired = TRUE] /\ tail' = tail
      BY <2>2 DEF Expire
    <3>2. /\ DOMAIN events \subseteq 1..tail /\ tail \in 0..MaxUpdates
          /\ \A j \in DOMAIN events :
               events[j] \in [extra : Extras, mortal : BOOLEAN, expired : BOOLEAN]
      BY <1>1 DEF TypeOK
    <3>3. events' = [events EXCEPT ![i] = [events[i] EXCEPT !.expired = TRUE]]
      BY <3>1
    <3>4. [events[i] EXCEPT !.expired = TRUE]
            \in [extra : Extras, mortal : BOOLEAN, expired : BOOLEAN]
      BY <3>2
    <3> QED
      BY <3>1, <3>2, <3>3, <3>4
  <2>3. CASE QueueShrinks
    <3>1. PICK S : events' = Without(events, S) /\ tail' = tail
      BY <2>3 DEF QueueShrinks
    <3>2. /\ DOMAIN events' \subseteq DOMAIN events
          /\ \A i \in DOMAIN events' : events'[i] = events[i]
      BY <3>1 DEF Without, Restrict
    <3> QED
      BY <1>1, <3>1, <3>2 DEF TypeOK
  <2> QED
    BY <2>1, <2>2, <2>3
<1>5. TypeOK'
  BY <1>1, <1>3, <1>4 DEF TypeOK
<1> QED
  BY <1>2, <1>5, LoopUntouched

\* A run is cancelled, or a stop returns.
LEMMA StopSteps ==
  ASSUME LoopInv, Cancel \/ StopReturns
  PROVE  LoopInv'
<1>1. TypeOK
  BY DEF LoopInv
<1>2. pc' = pc /\ run' = run /\ UNCHANGED <<loopVars, posts, acked, forgotten>>
  BY DEF Cancel, StopReturns
<1>3. TypeOK'
  <2>1. UNCHANGED <<events, tail, fromID, pending, queues, inFlight, idle, results,
                    posts, acked, forgotten, pc, run, gone>>
    BY DEF Cancel, StopReturns, loopVars, queueVars
  <2>2. active' \in BOOLEAN /\ cancelled' \in BOOLEAN
    BY <1>1 DEF Cancel, StopReturns, TypeOK
  <2> QED
    BY <1>1, <2>1, <2>2 DEF TypeOK
<1> QED
  BY <1>2, <1>3, LoopUntouched

\* The loop goes from one part of a turn to the next.
LEMMA TurnSteps ==
  ASSUME LoopInv, AllDispatched \/ PollTimer
  PROVE  LoopInv'
<1>1. UNCHANGED <<events, tail, active, cancelled, gone, run, fromID, pending, queues, inFlight,
                  idle, results, posts, acked, forgotten>>
  BY DEF AllDispatched, PollTimer, loopVars, queueVars, ctlVars
<1>2. pc' \in {"top", "select"} /\ pc # "off"
  BY DEF AllDispatched, PollTimer
<1> QED
  BY <1>1, <1>2 DEF LoopInv, TypeOK, OffIsClean, BehindCursor, PostsAreMarked, ResultsAreMarked,
       MarkedIsAccounted, Counted, Marked, AckedIsDone, MarkedAreHeads, QueuesHoldPending,
       NoRepost, GivenUpForCause, Running

-----------------------------------------------------------------------------
(* A run begins and ends.                                                  *)

\* A run begins with empty variables, and no POST bears its number.
LEMMA StartStep ==
  ASSUME LoopInv, Start
  PROVE  LoopInv'
<1>1. TypeOK /\ OffIsClean
  BY DEF LoopInv
<1>2. /\ pc = "off" /\ run < MaxRuns /\ pc' = "top" /\ run' = run + 1
      /\ acked' = {} /\ forgotten' = {} /\ tail' = tail /\ posts' = posts
      /\ events' \in {Empty, events}
      /\ gone' = FALSE /\ active' = TRUE /\ cancelled' = FALSE
  BY DEF Start
<1>3. UNCHANGED <<fromID, pending, queues, inFlight, idle, results>>
  BY DEF Start, loopVars
<1>4. /\ DOMAIN pending = {} /\ DOMAIN queues = {}
      /\ inFlight = 0 /\ results = <<>> /\ fromID = 0
  BY <1>1, <1>2 DEF OffIsClean, Running
<1>5. DOMAIN results = {}
  <2>1. DOMAIN results = 1..0
    BY <1>4, EmptySeq, LenProperties
  <2> QED
    BY <2>1
<1>6. run' \in 1..MaxRuns /\ run \in Nat /\ \A p \in posts : p.run # run'
  <2>1. run \in 0..MaxRuns /\ \A p \in posts : p.run \in Int /\ p.run <= run
    BY <1>1 DEF TypeOK, Runs, LoopInv, PostsAreMarked
  <2> QED
    BY <2>1, <1>2
<1>7. TypeOK'
  <2>1. /\ DOMAIN events' \subseteq 1..tail'
        /\ \A i \in DOMAIN events' :
             events'[i] \in [extra : Extras, mortal : BOOLEAN, expired : BOOLEAN]
    BY <1>1, <1>2, EmptyDomain DEF TypeOK
  <2>2. run' \in 0..MaxRuns
    BY <1>6
  <2> QED
    BY <2>1, <2>2, <1>1, <1>2, <1>3 DEF TypeOK
<1>8. Counted'
  <2>1. Marked' = {}
    BY <1>3, <1>4 DEF Marked
  <2> QED
    BY <2>1, <1>3, <1>4, FS_EmptySet DEF Counted
<1>9. PostsAreMarked'
  <2>1. \A p \in posts' : p.run \in Int /\ p.run <= run'
    BY <1>1, <1>2, <1>6 DEF TypeOK, Runs, LoopInv, PostsAreMarked
  <2> QED
    BY <2>1, <1>2, <1>6 DEF PostsAreMarked
<1>12. run' # 0
  BY <1>6
<1>10. /\ OffIsClean' /\ BehindCursor' /\ ResultsAreMarked' /\ MarkedIsAccounted'
       /\ AckedIsDone' /\ MarkedAreHeads' /\ NoRepost' /\ GivenUpForCause'
  BY <1>2, <1>3, <1>4, <1>5, <1>12
     DEF OffIsClean, BehindCursor, ResultsAreMarked, MarkedIsAccounted, AckedIsDone,
         MarkedAreHeads, NoRepost, GivenUpForCause, Running
<1>11. QueuesHoldPending'
  BY <1>3, <1>4 DEF QueuesHoldPending
<1> QED
  BY <1>7, <1>8, <1>9, <1>10, <1>11 DEF LoopInv

\* The run ends, by its context or by a sustained 410.
LEMMA EndSteps ==
  ASSUME LoopInv, RunEnds, run' = run, tail' = tail, events' = events,
         active' \in BOOLEAN, cancelled' = cancelled, gone' = gone,
         UNCHANGED <<posts, acked, forgotten>>
  PROVE  LoopInv'
<1>1. TypeOK
  BY DEF LoopInv
<1>2. /\ pc' = "off" /\ DOMAIN pending' = {} /\ DOMAIN queues' = {}
      /\ fromID' = 0 /\ inFlight' = 0 /\ idle' = FALSE /\ results' = <<>>
  BY EmptyDomain DEF RunEnds
<1>3. DOMAIN results' = {} /\ results' \in Seq([id : EventIds, outcome : Outcomes])
  <2>1. DOMAIN results' = 1..0
    BY <1>2, EmptySeq, LenProperties
  <2>2. DOMAIN results' = {}
    BY <2>1
  <2>3. <<>> \in Seq([id : EventIds, outcome : Outcomes])
    BY EmptySeq
  <2> QED
    BY <2>2, <2>3, <1>2
<1>4. TypeOK'
  <2>1. 0 \in 0..MaxUpdates + 1 /\ 0 \in Nat
    OBVIOUS
  <2>2. fromID' \in 0..MaxUpdates + 1 /\ inFlight' \in Nat
    BY <2>1, <1>2
  <2>3. idle' \in BOOLEAN
    BY <1>2
  <2> QED
    BY <2>2, <2>3, <1>1, <1>2, <1>3 DEF TypeOK
<1>5. Counted'
  <2>1. Marked' = {}
    BY <1>2 DEF Marked
  <2> QED
    BY <2>1, <1>2, FS_EmptySet DEF Counted
<1>6. /\ OffIsClean' /\ BehindCursor' /\ ResultsAreMarked' /\ MarkedIsAccounted'
      /\ MarkedAreHeads' /\ QueuesHoldPending'
  BY <1>2, <1>3
     DEF OffIsClean, BehindCursor, ResultsAreMarked, MarkedIsAccounted,
         MarkedAreHeads, QueuesHoldPending, Running
<1>7. PostsAreMarked' /\ AckedIsDone' /\ NoRepost' /\ GivenUpForCause'
  BY <1>2 DEF LoopInv, PostsAreMarked, AckedIsDone, NoRepost, GivenUpForCause, Running
<1> QED
  BY <1>4, <1>5, <1>6, <1>7 DEF LoopInv

-----------------------------------------------------------------------------
(* The loop POSTs, and a retry is due.                                     *)

\* The head of a queue is the oldest of its key.
LEMMA HeadIsFirst ==
  ASSUME LoopInv, Running, NEW i \in DOMAIN pending
  PROVE  /\ pending[i].key \in DOMAIN queues /\ queues[pending[i].key] # <<>>
         /\ queues[pending[i].key][1] <= i
<1>1. PICK k \in DOMAIN queues : \E n \in DOMAIN queues[k] : queues[k][n] = i
  BY DEF LoopInv, QueuesHoldPending
<1>2. PICK n \in DOMAIN queues[k] : queues[k][n] = i
  BY <1>1
<1>3. pending[i].key = k /\ queues[k] # <<>>
  BY <1>2 DEF LoopInv, QueuesHoldPending
<1>4. queues[k] \in Seq(EventIds)
  BY DEF LoopInv, TypeOK
<1>5. DOMAIN queues[k] = 1..Len(queues[k]) /\ Len(queues[k]) \in Nat
      /\ queues[k] \in [1..Len(queues[k]) -> EventIds]
  BY <1>4, LenProperties
<1>6. 1 \in DOMAIN queues[k] /\ 1 <= n
  BY <1>5
<1>7. queues[k][1] \in Int /\ i \in Int
  BY <1>2, <1>5, <1>6 DEF EventIds
<1>8. 1 < n => queues[k][1] < queues[k][n]
  BY <1>6 DEF LoopInv, QueuesHoldPending
<1>9. n = 1 \/ 1 < n
  BY <1>5, <1>6
<1> QED
  BY <1>2, <1>3, <1>7, <1>8, <1>9

\* A head that may be POSTed is pending and not in flight.
LEMMA ReadyIsPending ==
  ASSUME LoopInv, Running, NEW i \in Ready
  PROVE  /\ i \in DOMAIN pending /\ ~pending[i].inFlight
         /\ queues[pending[i].key][1] = i
<1>1. PICK k \in DOMAIN queues :
        /\ queues[k] # <<>> /\ i = queues[k][1] /\ i \in DOMAIN pending /\ ~pending[i].inFlight
  BY DEF Ready
<1>2. queues[k] \in Seq(EventIds)
  BY <1>1 DEF LoopInv, TypeOK
<1>3. 1 \in DOMAIN queues[k]
  BY <1>1, <1>2, EmptySeq, LenProperties
<1>4. pending[i].key = k
  BY <1>1, <1>3 DEF LoopInv, QueuesHoldPending
<1> QED
  BY <1>1, <1>4

\* The wait of a retry is over.
LEMMA WakeStep ==
  ASSUME LoopInv, NEW i \in EventIds, Wake(i)
  PROVE  LoopInv'
<1>1. TypeOK
  BY DEF LoopInv
<1>2. UNCHANGED <<events, tail, active, cancelled, gone, pc, run, fromID, queues, inFlight,
                  idle, results, posts, acked, forgotten>>
  BY DEF Wake, queueVars, ctlVars
<1>3. /\ i \in DOMAIN pending /\ DOMAIN pending' = DOMAIN pending
      /\ \A j \in DOMAIN pending :
           /\ pending'[j].key = pending[j].key /\ pending'[j].mortal = pending[j].mortal
           /\ pending'[j].inFlight = pending[j].inFlight
           /\ pending'[j] \in [key : Keys, mortal : BOOLEAN, sleeping : BOOLEAN, inFlight : BOOLEAN]
  <2>1. i \in DOMAIN pending /\ pending' = [pending EXCEPT ![i].sleeping = FALSE]
    BY DEF Wake
  <2>2. pending' = [pending EXCEPT ![i] = [pending[i] EXCEPT !.sleeping = FALSE]]
    BY <2>1
  <2>3. \A j \in DOMAIN pending :
          pending[j] \in [key : Keys, mortal : BOOLEAN, sleeping : BOOLEAN, inFlight : BOOLEAN]
    BY <1>1 DEF TypeOK
  <2> DEFINE e == [pending[i] EXCEPT !.sleeping = FALSE]
  <2>4. /\ e.key = pending[i].key /\ e.mortal = pending[i].mortal /\ e.inFlight = pending[i].inFlight
        /\ e \in [key : Keys, mortal : BOOLEAN, sleeping : BOOLEAN, inFlight : BOOLEAN]
    BY <2>1, <2>3
  <2>5. \A j \in DOMAIN pending : pending'[j] = IF j = i THEN e ELSE pending[j]
    BY <2>2
  <2>6. DOMAIN pending' = DOMAIN pending
    BY <2>2
  <2> HIDE DEF e
  <2> QED
    BY <2>1, <2>3, <2>4, <2>5, <2>6
<1>4. TypeOK'
  BY <1>1, <1>2, <1>3 DEF TypeOK
<1>5. Counted'
  <2>1. Marked' = Marked
    BY <1>3 DEF Marked
  <2> QED
    BY <2>1, <1>2 DEF LoopInv, Counted
<1>6. OffIsClean' /\ BehindCursor' /\ PostsAreMarked' /\ ResultsAreMarked' /\ MarkedIsAccounted'
  BY <1>2, <1>3
     DEF LoopInv, OffIsClean, BehindCursor, PostsAreMarked, ResultsAreMarked, MarkedIsAccounted,
         Running
<1>7. AckedIsDone' /\ MarkedAreHeads' /\ NoRepost' /\ GivenUpForCause'
  BY <1>2, <1>3 DEF LoopInv, AckedIsDone, MarkedAreHeads, NoRepost, GivenUpForCause, Running
<1>8. QueuesHoldPending'
  BY <1>2, <1>3 DEF LoopInv, QueuesHoldPending, Running
<1> QED
  BY <1>4, <1>5, <1>6, <1>7, <1>8 DEF LoopInv

\* The head of a queue is POSTed: it is marked and counted once.
LEMMA DispatchStep ==
  ASSUME LoopInv, NEW i \in EventIds, Dispatch(i)
  PROVE  LoopInv'
<1> DEFINE post == [run |-> run, id |-> i, key |-> pending[i].key]
<1>1. TypeOK
  BY DEF LoopInv
<1>2. /\ pc = "dispatch" /\ Running /\ i \in Ready
      /\ inFlight < MaxConnections /\ inFlight' = inFlight + 1
      /\ posts' = posts \cup {post}
  BY DEF Dispatch, Post, Running
<1>3. i \in DOMAIN pending /\ ~pending[i].inFlight /\ queues[pending[i].key][1] = i
  BY <1>2, ReadyIsPending
<1>4. UNCHANGED <<events, tail, active, cancelled, gone, pc, run, fromID, queues,
                  idle, results, acked, forgotten>>
  BY DEF Dispatch, Post, queueVars, ctlVars
<1>5. /\ DOMAIN pending' = DOMAIN pending
      /\ \A j \in DOMAIN pending :
           /\ pending'[j].key = pending[j].key /\ pending'[j].mortal = pending[j].mortal
           /\ pending'[j].inFlight = (pending[j].inFlight \/ j = i)
           /\ pending'[j] \in [key : Keys, mortal : BOOLEAN, sleeping : BOOLEAN, inFlight : BOOLEAN]
  <2>1. pending' = [pending EXCEPT ![i] = [pending[i] EXCEPT !.inFlight = TRUE]]
    BY DEF Dispatch, Post
  <2>2. \A j \in DOMAIN pending :
          pending[j] \in [key : Keys, mortal : BOOLEAN, sleeping : BOOLEAN, inFlight : BOOLEAN]
    BY <1>1 DEF TypeOK
  <2> DEFINE e == [pending[i] EXCEPT !.inFlight = TRUE]
  <2>3. /\ e.key = pending[i].key /\ e.mortal = pending[i].mortal /\ e.inFlight = TRUE
        /\ e \in [key : Keys, mortal : BOOLEAN, sleeping : BOOLEAN, inFlight : BOOLEAN]
    BY <1>3, <2>2
  <2>4. \A j \in DOMAIN pending : pending'[j] = IF j = i THEN e ELSE pending[j]
    BY <2>1
  <2>5. DOMAIN pending' = DOMAIN pending
    BY <2>1
  <2> HIDE DEF e
  <2>6. \A j \in DOMAIN pending : pending[j].inFlight \in BOOLEAN
    BY <2>2
  <2> QED
    BY <1>3, <2>2, <2>3, <2>4, <2>5, <2>6
<1>6. run \in Runs /\ pending[i].key \in Keys /\ post \in [run : Runs, id : EventIds, key : Keys]
  <2>1. run \in 0..MaxRuns /\ run # 0
    BY <1>1, <1>2 DEF TypeOK, LoopInv, Running, BehindCursor
  <2> QED
    BY <1>1, <1>3, <2>1 DEF TypeOK, Runs
<1>7. ~\E n \in DOMAIN results : results[n].id = i
  BY <1>3 DEF LoopInv, ResultsAreMarked
<1>8. \A p \in posts : p.run = run => p.id # i
  BY <1>2, <1>3 DEF LoopInv, PostsAreMarked
<1>9. inFlight \in Nat /\ MaxConnections \in Nat
  BY <1>1 DEF TypeOK
<1>10. TypeOK'
  <2>1. inFlight' \in Nat
    BY <1>2, <1>9
  <2>2. posts' \subseteq [run : Runs, id : EventIds, key : Keys]
    BY <1>1, <1>2, <1>6 DEF TypeOK
  <2>3. /\ DOMAIN pending' \subseteq EventIds
        /\ \A j \in DOMAIN pending' :
             pending'[j] \in [key : Keys, mortal : BOOLEAN, sleeping : BOOLEAN, inFlight : BOOLEAN]
    BY <1>1, <1>5 DEF TypeOK
  <2> QED
    BY <1>1, <1>4, <2>1, <2>2, <2>3 DEF TypeOK
<1>11. Counted'
  <2>1. Marked' = Marked \cup {i} /\ i \notin Marked
    BY <1>3, <1>5 DEF Marked
  <2>2. IsFiniteSet(Marked) /\ inFlight = Cardinality(Marked)
    BY <1>1, MarkedFinite DEF LoopInv, Counted
  <2>3. Cardinality(Marked') = inFlight + 1
    BY <2>1, <2>2, FS_AddElement
  <2> QED
    BY <1>2, <1>9, <2>3 DEF Counted
<1>12. OffIsClean' /\ BehindCursor'
  BY <1>2, <1>4, <1>5 DEF LoopInv, OffIsClean, BehindCursor, Running
<1>13. post.run = run /\ post.id = i /\ post.key = pending[i].key
  OBVIOUS
<1> HIDE DEF post
<1>14. PostsAreMarked'
  <2>1. \A p \in posts' : p.run <= run'
    BY <1>2, <1>4, <1>6, <1>13 DEF LoopInv, PostsAreMarked, Runs
  <2>2. \A p, q \in posts' : p.run = run' /\ q.run = run' /\ p.id = q.id => p = q
    BY <1>2, <1>4, <1>8, <1>13 DEF LoopInv, PostsAreMarked
  <2>3. \A p \in posts' : p.run = run' =>
          p.id \in DOMAIN pending' /\ pending'[p.id].inFlight /\ p.key = pending'[p.id].key
    BY <1>2, <1>3, <1>4, <1>5, <1>13 DEF LoopInv, PostsAreMarked
  <2> QED
    BY <2>1, <2>2, <2>3 DEF PostsAreMarked
<1>15. ResultsAreMarked'
  BY <1>2, <1>4, <1>5, <1>7, <1>13 DEF LoopInv, ResultsAreMarked
<1>16. MarkedIsAccounted'
  BY <1>2, <1>4, <1>5, <1>13 DEF LoopInv, MarkedIsAccounted
<1>17. AckedIsDone' /\ MarkedAreHeads'
  BY <1>2, <1>3, <1>4, <1>5 DEF LoopInv, AckedIsDone, MarkedAreHeads, Running
<1>18. NoRepost'
  <2>1. \A a \in acked : a # post
    <3>1. SUFFICES ASSUME post \in acked PROVE FALSE
      OBVIOUS
    <3>2. \E n \in DOMAIN results : results[n].id = i
      BY <1>2, <1>3, <1>13, <3>1 DEF LoopInv, AckedIsDone
    <3> QED
      BY <1>7, <3>2
  <2> QED
    BY <1>2, <1>4, <2>1 DEF LoopInv, NoRepost
<1>19. GivenUpForCause' /\ QueuesHoldPending'
  BY <1>4, <1>5 DEF LoopInv, GivenUpForCause, QueuesHoldPending, Running
<1> QED
  BY <1>10, <1>11, <1>12, <1>14, <1>15, <1>16, <1>17, <1>18, <1>19 DEF LoopInv
-----------------------------------------------------------------------------
(* A POST ends.                                                            *)

\* Its result, if the run still reads them, is one of an update in flight.
LEMMA AnswerStep ==
  ASSUME LoopInv, NEW p \in posts, Answer(p)
  PROVE  LoopInv'
<1>1. TypeOK /\ p.run \in Runs /\ p.id \in EventIds /\ p.key \in Keys
  BY DEF LoopInv, TypeOK
<1>2. PICK o \in Outcomes : Answered(p, o) /\ (o = "ok" /\ p.run = run => p \in acked')
  BY DEF Answer, AnswerOk, AnswerGone, AnswerRefused, AnswerError, Outcomes
<1>3. /\ posts' = posts \ {p}
      /\ acked' = acked \/ (p.run = run /\ acked' = acked \cup {p})
      /\ gone' \in BOOLEAN
  <2>1. acked' = acked \/ (p.run = run /\ acked' = acked \cup {p})
    BY DEF Answer, AnswerOk, AnswerGone, AnswerRefused, AnswerError
  <2>2. gone \in BOOLEAN
    BY <1>1 DEF TypeOK
  <2>3. gone' \in BOOLEAN
    BY <2>2 DEF Answer, AnswerOk, AnswerGone, AnswerRefused, AnswerError
  <2> QED
    BY <1>2, <2>1, <2>3 DEF Answered
<1>4. UNCHANGED <<events, tail, active, cancelled, pc, run, fromID, pending, queues, inFlight,
                  idle, forgotten>>
  BY <1>2 DEF Answered, queueVars
<1> DEFINE res == [id |-> p.id, outcome |-> o]
<1>5. results \in Seq([id : EventIds, outcome : Outcomes])
      /\ res \in [id : EventIds, outcome : Outcomes]
  BY <1>1 DEF TypeOK
<1>6. res.id = p.id /\ res.outcome = o
  OBVIOUS
<1>7. \/ p.run = run /\ Running /\ results' = Append(results, res)
      \/ ~(p.run = run /\ Running) /\ results' = results
  BY <1>2 DEF Answered, Running
<1> HIDE DEF res
<1>8. results' \in Seq([id : EventIds, outcome : Outcomes])
  <2>1. Append(results, res) \in Seq([id : EventIds, outcome : Outcomes])
    BY <1>5, AppendProperties
  <2> QED
    BY <1>5, <1>7, <2>1
<1>9. DOMAIN results = 1..Len(results) /\ DOMAIN results' = 1..Len(results')
      /\ Len(results) \in Nat
  BY <1>5, <1>8, LenProperties
<1>10. /\ \A n \in DOMAIN results : n \in DOMAIN results' /\ results'[n] = results[n]
       /\ \A n \in DOMAIN results' :
            n \in DOMAIN results \/ (/\ p.run = run /\ Running /\ n = Len(results) + 1
                                     /\ results'[n] = res)
       /\ p.run = run /\ Running =>
            Len(results) + 1 \in DOMAIN results' /\ results'[Len(results) + 1] = res
       /\ Len(results) + 1 \notin DOMAIN results
  <2>1. CASE p.run = run /\ Running
    <3>1. results' = Append(results, res)
      BY <1>7, <2>1
    <3>2. /\ Len(results') = Len(results) + 1 /\ results'[Len(results) + 1] = res
          /\ \A n \in 1..Len(results) : results'[n] = results[n]
      BY <1>5, <3>1, AppendProperties
    <3> QED
      BY <1>9, <2>1, <3>2
  <2>2. CASE ~(p.run = run /\ Running)
    <3>1. results' = results
      BY <1>7, <2>2
    <3>2. Len(results) + 1 \notin DOMAIN results
      BY <1>9
    <3> QED
      BY <2>2, <3>1, <3>2
  <2> QED
    BY <2>1, <2>2
<1>11. TypeOK'
  <2>1. posts' \subseteq [run : Runs, id : EventIds, key : Keys]
        /\ acked' \subseteq [run : Runs, id : EventIds, key : Keys]
    BY <1>1, <1>3 DEF TypeOK
  <2> QED
    BY <1>1, <1>3, <1>4, <1>8, <2>1 DEF TypeOK
<1>12. OffIsClean'
  BY <1>4, <1>7 DEF LoopInv, OffIsClean, Running
<1>13. Running /\ p.run = run =>
         /\ p.id \in DOMAIN pending /\ pending[p.id].inFlight /\ p.key = pending[p.id].key
         /\ p.id < fromID
  BY DEF LoopInv, PostsAreMarked, BehindCursor
<1>14. BehindCursor'
  BY <1>3, <1>4, <1>13 DEF LoopInv, BehindCursor, Running
<1>15. PostsAreMarked'
  BY <1>3, <1>4 DEF LoopInv, PostsAreMarked, Running
<1>16. Running /\ p.run = run => \A n \in DOMAIN results : results[n].id # p.id
  BY DEF LoopInv, ResultsAreMarked
<1>17. ResultsAreMarked'
  <2>1. \A m, n \in DOMAIN results' : results'[m].id = results'[n].id => m = n
    BY <1>6, <1>10, <1>16 DEF LoopInv, ResultsAreMarked
  <2>2. ASSUME NEW n \in DOMAIN results'
        PROVE  /\ results'[n].id \in DOMAIN pending' /\ pending'[results'[n].id].inFlight
               /\ \A q \in posts' : q.run = run' => q.id # results'[n].id
               /\ results'[n].outcome = "ok" => \E a \in acked' : a.id = results'[n].id
    <3>1. CASE n \in DOMAIN results
      BY <1>3, <1>4, <1>10, <3>1 DEF LoopInv, ResultsAreMarked
    <3>2. CASE n \notin DOMAIN results
      <4>1. p.run = run /\ Running /\ results'[n].id = p.id /\ results'[n].outcome = o
        BY <1>6, <1>10, <3>2
      <4>2. \A q \in posts' : q.run = run' => q.id # p.id
        BY <1>3, <1>4, <4>1 DEF LoopInv, PostsAreMarked
      <4>3. o = "ok" => p \in acked'
        BY <1>2, <4>1
      <4> QED
        BY <1>4, <1>13, <4>1, <4>2, <4>3
    <3> QED
      BY <3>1, <3>2
  <2> QED
    BY <2>1, <2>2 DEF ResultsAreMarked
<1>18. MarkedIsAccounted'
  <2>1. SUFFICES ASSUME NEW i \in DOMAIN pending, pending[i].inFlight
                 PROVE  \/ \E q \in posts' : q.run = run /\ q.id = i
                        \/ \E n \in DOMAIN results' : results'[n].id = i
    BY <1>4 DEF MarkedIsAccounted
  <2>2. CASE \E n \in DOMAIN results : results[n].id = i
    BY <1>10, <2>2
  <2>3. CASE \E q \in posts : q.run = run /\ q.id = i
    <3>1. PICK q \in posts : q.run = run /\ q.id = i
      BY <2>3
    <3>2. CASE q = p
      <4>1. Running
        BY DEF LoopInv, OffIsClean
      <4> QED
        BY <1>6, <1>10, <3>1, <3>2, <4>1
    <3>3. CASE q # p
      BY <1>3, <3>1, <3>3
    <3> QED
      BY <3>2, <3>3
  <2> QED
    BY <2>1, <2>2, <2>3 DEF LoopInv, MarkedIsAccounted
<1>19. Counted' /\ MarkedAreHeads' /\ QueuesHoldPending' /\ GivenUpForCause'
  <2>1. Marked' = Marked
    BY <1>4 DEF Marked
  <2> QED
    BY <1>3, <1>4, <2>1
       DEF LoopInv, Counted, MarkedAreHeads, QueuesHoldPending, GivenUpForCause, Running
<1>20. AckedIsDone'
  <2>1. \A a \in acked' : a.run = run'
    BY <1>3, <1>4 DEF LoopInv, AckedIsDone
  <2>2. ASSUME Running, NEW a \in acked'
        PROVE  /\ a.id \in DOMAIN pending =>
                    \E n \in DOMAIN results' : results'[n].id = a.id /\ results'[n].outcome = "ok"
               /\ \A i \in DOMAIN pending : pending[i].key = a.key => a.id <= i
    <3>1. CASE a \in acked
      BY <1>10, <2>2, <3>1 DEF LoopInv, AckedIsDone
    <3>2. CASE a \notin acked
      <4>1. a = p /\ p.run = run /\ acked' # acked
        BY <1>3, <3>2
      <4>2. results'[Len(results) + 1].id = p.id /\ results'[Len(results) + 1].outcome = "ok"
            /\ Len(results) + 1 \in DOMAIN results'
        <5>1. AnswerOk(p)
          BY <4>1 DEF Answer, AnswerGone, AnswerRefused, AnswerError
        <5>2. results' = Append(results, [id |-> p.id, outcome |-> "ok"])
          BY <2>2, <4>1, <5>1 DEF AnswerOk, Answered, Running
        <5>3. [id |-> p.id, outcome |-> "ok"] \in [id : EventIds, outcome : Outcomes]
          BY <1>1 DEF Outcomes
        <5>4. results'[Len(results) + 1] = [id |-> p.id, outcome |-> "ok"]
          BY <1>5, <5>2, <5>3, AppendProperties
        <5> QED
          BY <1>10, <2>2, <4>1, <5>4
      <4>3. queues[p.key][1] = p.id
        BY <1>13, <2>2, <4>1 DEF LoopInv, MarkedAreHeads
      <4>4. ASSUME NEW i \in DOMAIN pending, pending[i].key = p.key
            PROVE  p.id <= i
        BY <2>2, <4>3, <4>4, HeadIsFirst
      <4> QED
        BY <4>1, <4>2, <4>4
    <3> QED
      BY <3>1, <3>2
  <2> QED
    BY <1>4, <2>1, <2>2 DEF AckedIsDone, Running
<1>21. NoRepost'
  BY <1>3 DEF LoopInv, NoRepost
<1> QED
  BY <1>11, <1>12, <1>14, <1>15, <1>17, <1>18, <1>19, <1>20, <1>21 DEF LoopInv

-----------------------------------------------------------------------------
(* The loop takes a result.                                                *)

\* What the first result says, and what is left without it.
LEMMA FirstResult ==
  ASSUME LoopInv, results # <<>>
  PROVE  /\ Running /\ Head(results) = results[1] /\ 1 \in DOMAIN results
         /\ Head(results).id \in DOMAIN pending /\ pending[Head(results).id].inFlight
         /\ Tail(results) \in Seq([id : EventIds, outcome : Outcomes])
         /\ \A n \in DOMAIN Tail(results) :
              n + 1 \in DOMAIN results /\ Tail(results)[n] = results[n + 1] /\ n \in Nat /\ n + 1 # 1
         /\ \A n \in DOMAIN results :
              n # 1 => n - 1 \in DOMAIN Tail(results) /\ Tail(results)[n - 1] = results[n]
<1>1. results \in Seq([id : EventIds, outcome : Outcomes])
  BY DEF LoopInv, TypeOK
<1>2. Running
  BY DEF LoopInv, OffIsClean
<1>3. DOMAIN results = 1..Len(results) /\ Len(results) \in Nat \ {0}
  BY <1>1, LenProperties, EmptySeq
<1>4. 1 \in DOMAIN results /\ Head(results) = results[1]
  BY <1>1, <1>3
<1>5. /\ Tail(results) \in Seq([id : EventIds, outcome : Outcomes])
      /\ Len(Tail(results)) = Len(results) - 1
      /\ \A n \in 1..Len(Tail(results)) : Tail(results)[n] = results[n + 1]
  BY <1>1, HeadTailProperties
<1>6. DOMAIN Tail(results) = 1..(Len(results) - 1)
  BY <1>5, LenProperties
<1>7. \A n \in DOMAIN Tail(results) :
        n + 1 \in DOMAIN results /\ Tail(results)[n] = results[n + 1] /\ n \in Nat /\ n + 1 # 1
  BY <1>3, <1>5, <1>6
<1>8. \A n \in DOMAIN results :
        n # 1 => n - 1 \in DOMAIN Tail(results) /\ (n - 1) + 1 = n
  BY <1>3, <1>6
<1>9. \A n \in DOMAIN results : n # 1 => Tail(results)[n - 1] = results[n]
  BY <1>5, <1>6, <1>8
<1>10. Head(results).id \in DOMAIN pending /\ pending[Head(results).id].inFlight
  BY <1>4 DEF LoopInv, ResultsAreMarked
<1> QED
  BY <1>2, <1>4, <1>5, <1>7, <1>8, <1>9, <1>10

\* Taking a result unmarks its update, and nothing else is unmarked.
LEMMA TakeOne ==
  ASSUME LoopInv, results # <<>>, NEW i, i = Head(results).id,
         results' = Tail(results), pc' = "top", run' = run, fromID' = fromID,
         inFlight' = inFlight - 1, posts' = posts, acked' = acked,
         DOMAIN pending' \subseteq DOMAIN pending,
         \A j \in DOMAIN pending : j # i => j \in DOMAIN pending',
         \A j \in DOMAIN pending' :
           /\ pending'[j].key = pending[j].key
           /\ pending'[j].inFlight <=> (pending[j].inFlight /\ j # i),
         i \in DOMAIN pending' => Head(results).outcome # "ok"
  PROVE  /\ OffIsClean' /\ BehindCursor' /\ PostsAreMarked' /\ ResultsAreMarked'
         /\ MarkedIsAccounted' /\ Counted' /\ AckedIsDone' /\ NoRepost'
         /\ inFlight' \in Nat /\ results' \in Seq([id : EventIds, outcome : Outcomes])
<1>1. TypeOK /\ Running /\ Running'
  BY FirstResult DEF LoopInv, Running
<1>2. i \in DOMAIN pending /\ pending[i].inFlight /\ 1 \in DOMAIN results /\ results[1].id = i
      /\ Head(results) = results[1]
  BY FirstResult
<1>3. /\ \A n \in DOMAIN results' :
           n + 1 \in DOMAIN results /\ results'[n] = results[n + 1] /\ n + 1 # 1
      /\ \A n \in DOMAIN results :
           n # 1 => n - 1 \in DOMAIN results' /\ results'[n - 1] = results[n]
      /\ \A n \in DOMAIN results' : n \in Nat
      /\ results' \in Seq([id : EventIds, outcome : Outcomes])
  BY FirstResult
<1>4. \A n \in DOMAIN results : results[n].id = i => n = 1
  BY <1>2 DEF LoopInv, ResultsAreMarked
<1>5. \A p \in posts : p.run = run => p.id # i
  BY <1>2 DEF LoopInv, ResultsAreMarked
<1>6. Counted' /\ inFlight' \in Nat
  <2>1. Marked' = Marked \ {i} /\ i \in Marked
    BY <1>2 DEF Marked
  <2>2. IsFiniteSet(Marked) /\ inFlight = Cardinality(Marked) /\ Cardinality(Marked) \in Nat
        /\ inFlight <= MaxConnections
    BY <1>1, MarkedFinite DEF LoopInv, Counted
  <2>3. Cardinality(Marked \ {i}) = Cardinality(Marked) - 1 /\ IsFiniteSet(Marked \ {i})
    BY <2>1, <2>2, FS_RemoveElement
  <2>4. Cardinality(Marked \ {i}) \in Nat
    BY <2>3, FS_CardinalityType
  <2>5. inFlight' = Cardinality(Marked') /\ inFlight' \in Nat
    BY <2>1, <2>2, <2>3, <2>4
  <2>6. inFlight' <= MaxConnections
    BY <2>2
  <2> QED
    BY <2>5, <2>6 DEF Counted
<1>7. OffIsClean' /\ BehindCursor' /\ NoRepost'
  BY <1>1 DEF LoopInv, OffIsClean, BehindCursor, NoRepost
<1>8. PostsAreMarked'
  BY <1>1, <1>5 DEF LoopInv, PostsAreMarked
<1>9. ResultsAreMarked'
  <2>1. ASSUME NEW m \in DOMAIN results', NEW n \in DOMAIN results', results'[m].id = results'[n].id
        PROVE  m = n
    <3>1. m + 1 = n + 1
      BY <1>3, <2>1 DEF LoopInv, ResultsAreMarked
    <3> QED
      BY <1>3, <3>1
  <2>2. ASSUME NEW n \in DOMAIN results'
        PROVE  /\ results'[n].id \in DOMAIN pending' /\ pending'[results'[n].id].inFlight
               /\ \A p \in posts : p.run = run => p.id # results'[n].id
               /\ results'[n].outcome = "ok" => \E a \in acked : a.id = results'[n].id
    <3>1. n + 1 \in DOMAIN results /\ results'[n] = results[n + 1] /\ results[n + 1].id # i
      BY <1>3, <1>4
    <3> QED
      BY <3>1 DEF LoopInv, ResultsAreMarked
  <2> QED
    BY <2>1, <2>2 DEF ResultsAreMarked
<1>10. \A n \in DOMAIN results : results[n].id # i =>
         \E l \in DOMAIN results' : results'[l] = results[n]
  BY <1>2, <1>3
<1>11. MarkedIsAccounted'
  <2>1. SUFFICES ASSUME NEW j \in DOMAIN pending', pending'[j].inFlight
                 PROVE  \/ \E p \in posts : p.run = run /\ p.id = j
                        \/ \E n \in DOMAIN results' : results'[n].id = j
    BY DEF MarkedIsAccounted
  <2>2. j # i /\ j \in DOMAIN pending /\ pending[j].inFlight
    BY <2>1
  <2> QED
    BY <2>2, <1>10 DEF LoopInv, MarkedIsAccounted
<1>12. AckedIsDone'
  <2>1. \A a \in acked : a.run = run
    BY DEF LoopInv, AckedIsDone
  <2>2. \A a \in acked, j \in DOMAIN pending' : pending'[j].key = a.key => a.id <= j
    BY <1>1 DEF LoopInv, AckedIsDone
  <2>3. ASSUME NEW a \in acked, a.id \in DOMAIN pending'
        PROVE  \E n \in DOMAIN results' : results'[n].id = a.id /\ results'[n].outcome = "ok"
    <3>1. PICK n \in DOMAIN results : results[n].id = a.id /\ results[n].outcome = "ok"
      BY <1>1, <2>3 DEF LoopInv, AckedIsDone
    <3>2. a.id # i
      BY <1>2, <1>4, <2>3, <3>1
    <3> QED
      BY <1>10, <3>1, <3>2
  <2> QED
    BY <2>1, <2>2, <2>3 DEF AckedIsDone
<1> QED
  BY <1>3, <1>6, <1>7, <1>8, <1>9, <1>11, <1>12

\* The update at the head of its queue leaves it.
LEMMA QueuesAfter ==
  ASSUME LoopInv, Running, NEW i \in DOMAIN pending, pending[i].inFlight,
         queues' = QueuesWithout(i)
  PROVE  /\ DOMAIN queues' \subseteq DOMAIN queues
         /\ \A k \in DOMAIN queues : k # pending[i].key => k \in DOMAIN queues' /\ queues'[k] = queues[k]
         /\ \A k \in DOMAIN queues' :
              /\ queues'[k] \in Seq(EventIds) /\ queues'[k] # <<>>
              /\ k = pending[i].key =>
                   \A n \in DOMAIN queues'[k] :
                     n + 1 \in DOMAIN queues[k] /\ queues'[k][n] = queues[k][n + 1] /\ n \in Nat
                     /\ i < queues'[k][n]
         /\ \A n \in DOMAIN queues[pending[i].key] : n # 1 =>
              /\ pending[i].key \in DOMAIN queues' /\ n - 1 \in DOMAIN queues'[pending[i].key]
              /\ queues'[pending[i].key][n - 1] = queues[pending[i].key][n]
         /\ pending[i].key \in DOMAIN queues /\ queues[pending[i].key][1] = i
<1> DEFINE key  == pending[i].key
           left == Tail(queues[key])
<1>1. key \in DOMAIN queues /\ queues[key] # <<>> /\ queues[key][1] = i
  BY HeadIsFirst DEF LoopInv, MarkedAreHeads
<1>2. \A k \in DOMAIN queues : queues[k] \in Seq(EventIds) /\ queues[k] # <<>>
  BY DEF LoopInv, TypeOK, QueuesHoldPending
<1>3. queues' = IF left = <<>> THEN Without(queues, {key}) ELSE [queues EXCEPT ![key] = left]
  <2>1. Head(queues[key]) = i
    BY <1>1, <1>2
  <2> QED
    BY <1>1, <2>1 DEF QueuesWithout
<1>4. /\ left \in Seq(EventIds)
      /\ Len(left) = Len(queues[key]) - 1
      /\ \A n \in 1..Len(left) : left[n] = queues[key][n + 1]
  BY <1>1, <1>2, HeadTailProperties
<1>5. DOMAIN left = 1..(Len(queues[key]) - 1) /\ DOMAIN queues[key] = 1..Len(queues[key])
      /\ Len(queues[key]) \in Nat \ {0} /\ 1 \in DOMAIN queues[key]
  <2>1. DOMAIN left = 1..Len(left) /\ DOMAIN queues[key] = 1..Len(queues[key])
        /\ Len(queues[key]) \in Nat \ {0}
    BY <1>1, <1>2, <1>4, LenProperties, EmptySeq
  <2> QED
    BY <1>4, <2>1
<1> HIDE DEF left
<1>6. ASSUME NEW n \in DOMAIN left
      PROVE  /\ n + 1 \in DOMAIN queues[key] /\ left[n] = queues[key][n + 1] /\ n \in Nat
             /\ i < left[n]
  <2>1. n + 1 \in DOMAIN queues[key] /\ left[n] = queues[key][n + 1] /\ n \in Nat /\ 1 < n + 1
    BY <1>4, <1>5
  <2>2. queues[key][1] < queues[key][n + 1]
    BY <1>1, <1>5, <2>1 DEF LoopInv, QueuesHoldPending
  <2> QED
    BY <1>1, <2>1, <2>2
<1>7. ASSUME NEW n \in DOMAIN queues[key], n # 1
      PROVE  n - 1 \in DOMAIN left /\ left[n - 1] = queues[key][n] /\ left # <<>>
  <2>1. n - 1 \in DOMAIN left /\ (n - 1) + 1 = n
    BY <1>5, <1>7
  <2>2. left[n - 1] = queues[key][n]
    BY <1>6, <2>1
  <2>3. left # <<>>
    <3>1. SUFFICES ASSUME left = <<>> PROVE FALSE
      OBVIOUS
    <3>2. Len(left) = 0
      BY <3>1, EmptySeq
    <3>3. DOMAIN left = 1..Len(left)
      BY <1>4, LenProperties
    <3>4. DOMAIN left = {}
      BY <3>2, <3>3
    <3> QED
      BY <2>1, <3>4
  <2> QED
    BY <2>1, <2>2, <2>3
<1> HIDE DEF key
<1>8. CASE left = <<>>
  <2>6. queues' = Without(queues, {key})
    BY <1>3, <1>8
  <2>1. DOMAIN queues' = DOMAIN queues \ {key}
        /\ \A k \in DOMAIN queues' : queues'[k] = queues[k] /\ k # key
    BY <2>6 DEF Without, Restrict
  <2>2. \A n \in DOMAIN queues[key] : n = 1
    BY <1>7, <1>8
  <2>3. \A k \in DOMAIN queues : k # key => k \in DOMAIN queues' /\ queues'[k] = queues[k]
    BY <2>1
  <2>4. \A k \in DOMAIN queues' : queues'[k] \in Seq(EventIds) /\ queues'[k] # <<>> /\ k # key
    BY <1>2, <2>1
  <2>5. DOMAIN queues' \subseteq DOMAIN queues
    BY <2>1
  <2> QED
    BY <1>1, <2>2, <2>3, <2>4, <2>5 DEF key
<1>9. CASE left # <<>>
  <2>1. DOMAIN queues' = DOMAIN queues
        /\ \A k \in DOMAIN queues : queues'[k] = IF k = key THEN left ELSE queues[k]
    BY <1>3, <1>9
  <2>2. queues'[key] = left
    BY <1>1, <2>1
  <2>3. \A k \in DOMAIN queues' : queues'[k] \in Seq(EventIds) /\ queues'[k] # <<>>
    BY <1>2, <1>4, <1>9, <2>1
  <2>4. \A n \in DOMAIN queues'[key] :
          n + 1 \in DOMAIN queues[key] /\ queues'[key][n] = queues[key][n + 1] /\ n \in Nat
          /\ i < queues'[key][n]
    BY <1>6, <2>2
  <2>5. \A n \in DOMAIN queues[key] : n # 1 =>
          n - 1 \in DOMAIN queues'[key] /\ queues'[key][n - 1] = queues[key][n]
    BY <1>7, <2>2
  <2> QED
    BY <1>1, <2>1, <2>3, <2>4, <2>5 DEF key
<1> QED
  BY <1>8, <1>9

\* The update is forgotten: it was accepted, or it has an expiry.
LEMMA TakeDone ==
  ASSUME LoopInv, results # <<>>, NEW i, i = Head(results).id,
         Head(results).outcome = "ok" \/ pending[i].mortal,
         Done(i), inFlight' = inFlight - 1, GoOn, UNCHANGED <<tail, run, posts, acked>>
  PROVE  LoopInv'
<1>1. TypeOK /\ Running
  BY FirstResult DEF LoopInv
<1>2. i \in DOMAIN pending /\ pending[i].inFlight /\ 1 \in DOMAIN results /\ results[1].id = i
      /\ Head(results) = results[1]
  BY FirstResult
<1>3. /\ DOMAIN pending' = DOMAIN pending \ {i}
      /\ \A j \in DOMAIN pending' : pending'[j] = pending[j]
  <2>1. pending' = Without(pending, {i})
    BY DEF Done
  <2> QED
    BY <2>1 DEF Without, Restrict
<1>4. /\ results' = Tail(results) /\ pc' = "top" /\ fromID' = fromID /\ idle' = idle
      /\ run' = run /\ posts' = posts /\ acked' = acked /\ tail' = tail
      /\ active' = active /\ cancelled' = cancelled /\ gone' = gone
  BY DEF GoOn, ctlVars
<1>5. /\ OffIsClean' /\ BehindCursor' /\ PostsAreMarked' /\ ResultsAreMarked'
      /\ MarkedIsAccounted' /\ Counted' /\ AckedIsDone' /\ NoRepost'
      /\ inFlight' \in Nat /\ results' \in Seq([id : EventIds, outcome : Outcomes])
  <2>1. \A j \in DOMAIN pending' :
          /\ pending'[j].key = pending[j].key
          /\ pending'[j].inFlight <=> (pending[j].inFlight /\ j # i)
    BY <1>3
  <2>2. i \notin DOMAIN pending' /\ DOMAIN pending' \subseteq DOMAIN pending
        /\ \A j \in DOMAIN pending : j # i => j \in DOMAIN pending'
    BY <1>3
  <2> QED
    BY <1>4, <2>1, <2>2, TakeOne
<1>6. queues' = QueuesWithout(i)
  BY DEF Done
<1> DEFINE key == pending[i].key
<1>7. /\ DOMAIN queues' \subseteq DOMAIN queues
      /\ \A k \in DOMAIN queues : k # key => k \in DOMAIN queues' /\ queues'[k] = queues[k]
      /\ \A k \in DOMAIN queues' :
           /\ queues'[k] \in Seq(EventIds) /\ queues'[k] # <<>>
           /\ k = key =>
                \A n \in DOMAIN queues'[k] :
                  n + 1 \in DOMAIN queues[k] /\ queues'[k][n] = queues[k][n + 1] /\ n \in Nat
                  /\ i < queues'[k][n]
      /\ \A n \in DOMAIN queues[key] : n # 1 =>
           key \in DOMAIN queues' /\ n - 1 \in DOMAIN queues'[key]
           /\ queues'[key][n - 1] = queues[key][n]
      /\ key \in DOMAIN queues /\ queues[key][1] = i
  BY <1>1, <1>2, <1>6, QueuesAfter
<1>8. i \in Int /\ key \in Keys /\ key = pending[i].key
  BY <1>1, <1>2 DEF TypeOK, EventIds
<1> HIDE DEF key
<1>9. TypeOK'
  <2>1. events' = Without(events, {i})
    BY DEF Done
  <2>2. DOMAIN events' \subseteq DOMAIN events /\ \A j \in DOMAIN events' : events'[j] = events[j]
    BY <2>1 DEF Without, Restrict
  <2>3. DOMAIN events' \subseteq 1..tail' /\ tail' \in 0..MaxUpdates
        /\ \A j \in DOMAIN events' :
             events'[j] \in [extra : Extras, mortal : BOOLEAN, expired : BOOLEAN]
    BY <1>1, <1>4, <2>2 DEF TypeOK
  <2>4. DOMAIN pending' \subseteq EventIds
        /\ \A j \in DOMAIN pending' :
             pending'[j] \in [key : Keys, mortal : BOOLEAN, sleeping : BOOLEAN, inFlight : BOOLEAN]
    BY <1>1, <1>3 DEF TypeOK
  <2>5. DOMAIN queues' \subseteq Keys /\ \A k \in DOMAIN queues' : queues'[k] \in Seq(EventIds)
    BY <1>1, <1>7 DEF TypeOK
  <2>6. forgotten' \subseteq [id : EventIds, mortal : BOOLEAN]
    <3>1. forgotten' = forgotten \cup {[id |-> i, mortal |-> pending[i].mortal]}
      BY DEF Done
    <3>2. [id |-> i, mortal |-> pending[i].mortal] \in [id : EventIds, mortal : BOOLEAN]
      BY <1>1, <1>2 DEF TypeOK
    <3> QED
      BY <1>1, <3>1, <3>2 DEF TypeOK
  <2>7. active' \in BOOLEAN /\ cancelled' \in BOOLEAN /\ gone' \in BOOLEAN /\ idle' \in BOOLEAN
        /\ pc' \in {"off", "top", "dispatch", "select"} /\ run' \in 0..MaxRuns
        /\ fromID' \in 0..MaxUpdates + 1
        /\ posts' \subseteq [run : Runs, id : EventIds, key : Keys]
        /\ acked' \subseteq [run : Runs, id : EventIds, key : Keys]
    BY <1>1, <1>4 DEF TypeOK
  <2> QED
    BY <1>5, <2>3, <2>4, <2>5, <2>6, <2>7 DEF TypeOK
<1>10. MarkedAreHeads'
  <2>1. SUFFICES ASSUME NEW j \in DOMAIN pending', pending'[j].inFlight
                 PROVE  queues'[pending'[j].key][1] = j
    BY DEF MarkedAreHeads
  <2>2. j \in DOMAIN pending /\ j # i /\ pending'[j] = pending[j]
    BY <1>3
  <2>3. queues[pending[j].key][1] = j
    BY <2>1, <2>2 DEF LoopInv, MarkedAreHeads
  <2>4. pending[j].key # key
    BY <1>7, <2>2, <2>3
  <2>5. pending[j].key \in DOMAIN queues
    BY <1>1, <2>2, HeadIsFirst
  <2> QED
    BY <1>7, <2>2, <2>3, <2>4, <2>5
<1>11. GivenUpForCause'
  <2>1. forgotten' = forgotten \cup {[id |-> i, mortal |-> pending[i].mortal]}
    BY DEF Done
  <2>2. pending[i].mortal \/ \E a \in acked : a.id = i
    BY <1>2 DEF LoopInv, ResultsAreMarked
  <2> QED
    BY <1>4, <2>1, <2>2 DEF LoopInv, GivenUpForCause
<1>12. QueuesHoldPending'
  <2>1. ASSUME NEW k \in DOMAIN queues', NEW m \in DOMAIN queues'[k], NEW n \in DOMAIN queues'[k],
               m < n
        PROVE  queues'[k][m] < queues'[k][n]
    <3>1. CASE k = key
      <4>1. m + 1 \in DOMAIN queues[k] /\ n + 1 \in DOMAIN queues[k] /\ m + 1 < n + 1
        BY <1>7, <2>1, <3>1
      <4>2. queues[k][m + 1] < queues[k][n + 1]
        BY <1>1, <1>7, <4>1 DEF LoopInv, QueuesHoldPending
      <4> QED
        BY <1>7, <3>1, <4>2
    <3>2. CASE k # key
      BY <1>1, <1>7, <2>1, <3>2 DEF LoopInv, QueuesHoldPending
    <3> QED
      BY <3>1, <3>2
  <2>2. ASSUME NEW j \in DOMAIN pending'
        PROVE  \E k \in DOMAIN queues' : \E n \in DOMAIN queues'[k] : queues'[k][n] = j
    <3>1. PICK k \in DOMAIN queues : \E n \in DOMAIN queues[k] : queues[k][n] = j
      BY <1>1, <1>3 DEF LoopInv, QueuesHoldPending
    <3>2. PICK n \in DOMAIN queues[k] : queues[k][n] = j
      BY <3>1
    <3>3. CASE k = key
      <4>1. n # 1
        BY <1>3, <1>7, <3>2, <3>3
      <4> QED
        BY <1>7, <3>2, <3>3, <4>1
    <3>4. CASE k # key
      BY <1>7, <3>2, <3>4
    <3> QED
      BY <3>3, <3>4
  <2>3. ASSUME NEW k \in DOMAIN queues', NEW n \in DOMAIN queues'[k]
        PROVE  queues'[k][n] \in DOMAIN pending' /\ pending'[queues'[k][n]].key = k
    <3>1. CASE k = key
      <4>1. n + 1 \in DOMAIN queues[k] /\ queues'[k][n] = queues[k][n + 1] /\ i < queues'[k][n]
        BY <1>7, <3>1
      <4>2. queues[k][n + 1] \in DOMAIN pending /\ pending[queues[k][n + 1]].key = k
        BY <1>1, <1>7, <4>1 DEF LoopInv, QueuesHoldPending
      <4>3. queues'[k][n] # i
        BY <1>8, <4>1
      <4> QED
        BY <1>3, <4>1, <4>2, <4>3
    <3>2. CASE k # key
      <4>1. queues'[k] = queues[k] /\ k \in DOMAIN queues
        BY <1>7, <3>2
      <4>2. queues[k][n] \in DOMAIN pending /\ pending[queues[k][n]].key = k
        BY <1>1, <4>1 DEF LoopInv, QueuesHoldPending
      <4> QED
        BY <1>3, <1>8, <3>2, <4>1, <4>2
    <3> QED
      BY <3>1, <3>2
  <2>4. \A k \in DOMAIN queues' : queues'[k] # <<>>
    BY <1>7
  <2>5. DOMAIN pending' = UNION {{queues'[k][n] : n \in DOMAIN queues'[k]} : k \in DOMAIN queues'}
    BY <2>2, <2>3
  <2> QED
    BY <2>1, <2>3, <2>4, <2>5 DEF QueuesHoldPending
<1> QED
  BY <1>5, <1>9, <1>10, <1>11, <1>12 DEF LoopInv

\* The update waits for its retry.
LEMMA TakeRetry ==
  ASSUME LoopInv, results # <<>>, NEW i, i = Head(results).id, Head(results).outcome # "ok",
         pending' = [pending EXCEPT ![i].inFlight = FALSE, ![i].sleeping = TRUE],
         UNCHANGED <<events, queues, forgotten>>,
         inFlight' = inFlight - 1, GoOn, UNCHANGED <<tail, run, posts, acked>>
  PROVE  LoopInv'
<1>1. TypeOK /\ Running /\ i \in DOMAIN pending
  BY FirstResult DEF LoopInv
<1>2. /\ DOMAIN pending' = DOMAIN pending
      /\ \A j \in DOMAIN pending :
           /\ pending'[j].key = pending[j].key
           /\ pending'[j].inFlight <=> (pending[j].inFlight /\ j # i)
           /\ pending'[j] \in [key : Keys, mortal : BOOLEAN, sleeping : BOOLEAN, inFlight : BOOLEAN]
  <2> DEFINE e == [pending[i] EXCEPT !.inFlight = FALSE, !.sleeping = TRUE]
  <2>1. pending' = [pending EXCEPT ![i] = e]
    BY <1>1
  <2>2. \A j \in DOMAIN pending :
          pending[j] \in [key : Keys, mortal : BOOLEAN, sleeping : BOOLEAN, inFlight : BOOLEAN]
    BY <1>1 DEF TypeOK
  <2>3. /\ e.key = pending[i].key /\ e.inFlight = FALSE
        /\ e \in [key : Keys, mortal : BOOLEAN, sleeping : BOOLEAN, inFlight : BOOLEAN]
    BY <1>1, <2>2
  <2> HIDE DEF e
  <2>4. DOMAIN pending' = DOMAIN pending
        /\ \A j \in DOMAIN pending : pending'[j] = IF j = i THEN e ELSE pending[j]
    BY <2>1
  <2> QED
    BY <2>2, <2>3, <2>4
<1>3. /\ results' = Tail(results) /\ pc' = "top" /\ fromID' = fromID /\ idle' = idle
      /\ run' = run /\ posts' = posts /\ acked' = acked /\ tail' = tail
      /\ active' = active /\ cancelled' = cancelled /\ gone' = gone
      /\ events' = events /\ queues' = queues /\ forgotten' = forgotten
  BY DEF GoOn, ctlVars
<1>4. /\ OffIsClean' /\ BehindCursor' /\ PostsAreMarked' /\ ResultsAreMarked'
      /\ MarkedIsAccounted' /\ Counted' /\ AckedIsDone' /\ NoRepost'
      /\ inFlight' \in Nat /\ results' \in Seq([id : EventIds, outcome : Outcomes])
  <2>1. \A j \in DOMAIN pending' :
          /\ pending'[j].key = pending[j].key
          /\ pending'[j].inFlight <=> (pending[j].inFlight /\ j # i)
    BY <1>2
  <2>2. DOMAIN pending' \subseteq DOMAIN pending
        /\ \A j \in DOMAIN pending : j # i => j \in DOMAIN pending'
    BY <1>2
  <2> QED
    BY <1>3, <2>1, <2>2, TakeOne
<1>5. TypeOK'
  <2>1. DOMAIN pending' \subseteq EventIds
        /\ \A j \in DOMAIN pending' :
             pending'[j] \in [key : Keys, mortal : BOOLEAN, sleeping : BOOLEAN, inFlight : BOOLEAN]
    BY <1>1, <1>2 DEF TypeOK
  <2> QED
    BY <1>1, <1>3, <1>4, <2>1 DEF TypeOK
<1>6. MarkedAreHeads' /\ GivenUpForCause'
  BY <1>2, <1>3 DEF LoopInv, MarkedAreHeads, GivenUpForCause
<1>7. QueuesHoldPending'
  <2>1. /\ queues' = queues /\ DOMAIN pending' = DOMAIN pending
        /\ \A j \in DOMAIN pending : pending'[j].key = pending[j].key
    BY <1>2, <1>3
  <2>2. Running' /\ QueuesHoldPending
    BY <1>3 DEF LoopInv, Running
  <2> QED
    BY <1>1, <2>1, <2>2 DEF QueuesHoldPending
<1> QED
  BY <1>4, <1>5, <1>6, <1>7 DEF LoopInv

\* Every result is of an update in flight: accepted, retried, given up, or the
\* end of the run.
LEMMA TakeStep ==
  ASSUME LoopInv, TakeResult
  PROVE  LoopInv'
<1> DEFINE r == Head(results)
<1>1. results # <<>> /\ UNCHANGED <<tail, run, posts, acked>>
  BY DEF TakeResult
<1>2. r.id \in DOMAIN pending /\ r.outcome \in Outcomes
  <2>1. results \in Seq([id : EventIds, outcome : Outcomes])
    BY DEF LoopInv, TypeOK
  <2>2. r \in [id : EventIds, outcome : Outcomes]
    BY <1>1, <2>1, HeadTailProperties
  <2> QED
    BY <1>1, <2>2, FirstResult
<1>3. \/ r.outcome = "ok" /\ TakeOk(r.id)
      \/ r.outcome = "close" /\ TakeClose
      \/ r.outcome = "fail" /\ TakeFail(r.id)
  <2>1. IF r.id \notin DOMAIN pending
        THEN TakeStray(DOMAIN pending # {} \/ ~idle)
        ELSE \/ r.outcome = "ok" /\ TakeOk(r.id)
             \/ r.outcome = "close" /\ TakeClose
             \/ r.outcome = "fail" /\ TakeFail(r.id)
    BY DEF TakeResult
  <2> HIDE DEF r
  <2> QED
    BY <1>2, <2>1
<1>4. CASE r.outcome = "ok" /\ TakeOk(r.id)
  BY <1>1, <1>4, TakeDone DEF TakeOk
<1>5. CASE r.outcome = "close" /\ TakeClose
  <2>1. active' \in BOOLEAN
    BY <1>5 DEF TakeClose
  <2> QED
    BY <1>1, <1>5, <2>1, EndSteps DEF TakeClose
<1>6. CASE r.outcome = "fail" /\ TakeFail(r.id)
  <2>1. inFlight' = inFlight - 1 /\ GoOn
    BY <1>6 DEF TakeFail
  <2>2. CASE pending[r.id].mortal /\ Done(r.id)
    BY <1>1, <2>1, <2>2, TakeDone
  <2>3. CASE /\ pending' = [pending EXCEPT ![r.id].inFlight = FALSE, ![r.id].sleeping = TRUE]
             /\ UNCHANGED <<events, queues, forgotten>>
    BY <1>1, <1>6, <2>1, <2>3, TakeRetry
  <2> QED
    BY <1>6, <2>2, <2>3 DEF TakeFail
<1> QED
  BY <1>3, <1>4, <1>5, <1>6

-----------------------------------------------------------------------------
(* The loop loads events.                                                  *)

\* What is loaded has ids above the cursor, so it joins its queues at their ends.
LEMMA LoadStep ==
  ASSUME LoopInv, Load
  PROVE  LoopInv'
<1> DEFINE got  == Lowest({i \in DOMAIN events : ~events[i].expired /\ i > fromID}, BatchSize)
           new  == got \ DOMAIN pending
           keys == {KeyOf(i) : i \in new}
           Ids(k) == {i \in new : KeyOf(i) = k}
           old(k) == IF k \in DOMAIN queues THEN queues[k] ELSE <<>>
           add(k) == IF k \in keys THEN InOrder(Ids(k)) ELSE <<>>
<1>1. TypeOK /\ Running /\ pc' = "dispatch"
  BY DEF LoopInv, Load, Running
<1>2. /\ DOMAIN pending' = DOMAIN pending \cup new
      /\ \A i \in DOMAIN pending' : pending'[i] =
           IF i \in new THEN [key |-> KeyOf(i), mortal |-> events[i].mortal,
                               sleeping |-> FALSE, inFlight |-> FALSE]
                        ELSE pending[i]
  BY DEF Load
<1>3. queues' = [k \in DOMAIN queues \cup keys |-> old(k) \o add(k)]
  BY DEF Load
<1>4. fromID' = Greatest({i + 1 : i \in new} \cup {fromID}) /\ idle' = (got = {})
  BY DEF Load
<1>5. UNCHANGED <<events, tail, active, cancelled, gone, run, inFlight, results, posts, acked,
                  forgotten>>
  BY DEF Load, queueVars, ctlVars
<1>6. /\ new \subseteq EventIds /\ new \subseteq DOMAIN events
      /\ \A i \in new : i > fromID /\ i \notin DOMAIN pending
  <2>1. DOMAIN events \subseteq EventIds
    <3>1. DOMAIN events \subseteq 1..tail /\ tail \in 0..MaxUpdates
      BY <1>1 DEF TypeOK
    <3> QED
      BY <3>1 DEF EventIds
  <2>2. \A i \in new : i \in DOMAIN events /\ i > fromID /\ i \notin DOMAIN pending
    BY DEF Lowest
  <2> QED
    BY <2>1, <2>2
<1>7. idle' \in BOOLEAN
  BY <1>4
<1> HIDE DEF got, new
<1>8. \A i \in new : KeyOf(i) \in Keys
  <2>1. ASSUME NEW i \in new
        PROVE  KeyOf(i) \in Keys
    <3>1. events[i].extra \in Extras /\ i \in EventIds
      BY <1>1, <1>6 DEF TypeOK
    <3> QED
      BY <3>1 DEF KeyOf, Keys
  <2> QED
    BY <2>1
<1>9. /\ fromID' \in 0..MaxUpdates + 1 /\ fromID <= fromID'
      /\ \A i \in new : i < fromID'
  <2> DEFINE S == {i + 1 : i \in new} \cup {fromID}
  <2>1. S \in SUBSET (0..MaxUpdates + 1) /\ S # {} /\ fromID \in S
        /\ \A i \in new : i + 1 \in S /\ i \in Int
    BY <1>1, <1>6 DEF TypeOK, EventIds
  <2>2. fromID' = Greatest(S)
    BY <1>4
  <2> HIDE DEF S
  <2>3. fromID' \in S /\ \A j \in S : j <= fromID'
    <3>1. MaxUpdates + 1 \in Nat
      OBVIOUS
    <3> QED
      BY <2>1, <2>2, <3>1, GreatestOf
  <2>4. fromID' \in 0..MaxUpdates + 1 /\ fromID <= fromID'
    BY <2>1, <2>3
  <2>5. \A i \in new : i + 1 <= fromID' /\ i \in Int
    BY <2>1, <2>3
  <2> QED
    BY <2>4, <2>5
<1>10. fromID \in Int /\ \A i \in DOMAIN pending : i \in Int /\ i < fromID
  <2>1. fromID \in Int /\ \A i \in DOMAIN pending : i \in Int
    BY <1>1 DEF TypeOK, EventIds
  <2>2. \A i \in DOMAIN pending : i < fromID
    BY <1>1 DEF LoopInv, BehindCursor
  <2> QED
    BY <2>1, <2>2
<1>11. /\ \A i \in DOMAIN pending : i \in DOMAIN pending' /\ pending'[i] = pending[i]
       /\ \A i \in new : i \in DOMAIN pending' /\ pending'[i].key = KeyOf(i)
                         /\ ~pending'[i].inFlight
       /\ \A i \in DOMAIN pending' :
            pending'[i] \in [key : Keys, mortal : BOOLEAN, sleeping : BOOLEAN, inFlight : BOOLEAN]
  <2>1. \A i \in DOMAIN pending : i \in DOMAIN pending' /\ i \notin new /\ pending'[i] = pending[i]
    BY <1>2, <1>6
  <2>2. ASSUME NEW i \in new
        PROVE  /\ i \in DOMAIN pending' /\ pending'[i].key = KeyOf(i) /\ ~pending'[i].inFlight
               /\ pending'[i] \in [key : Keys, mortal : BOOLEAN, sleeping : BOOLEAN, inFlight : BOOLEAN]
    <3>1. events[i].mortal \in BOOLEAN /\ KeyOf(i) \in Keys
      BY <1>1, <1>6, <1>8 DEF TypeOK
    <3>2. i \in DOMAIN pending'
          /\ pending'[i] = [key |-> KeyOf(i), mortal |-> events[i].mortal,
                            sleeping |-> FALSE, inFlight |-> FALSE]
      BY <1>2
    <3> QED
      BY <3>1, <3>2
  <2>3. \A i \in DOMAIN pending :
          pending[i] \in [key : Keys, mortal : BOOLEAN, sleeping : BOOLEAN, inFlight : BOOLEAN]
    BY <1>1 DEF TypeOK
  <2> QED
    BY <1>2, <2>1, <2>2, <2>3
<1>12. ASSUME NEW k
       PROVE  /\ old(k) \in Seq(EventIds)
              /\ k \in DOMAIN queues => old(k) # <<>> /\ DOMAIN old(k) # {}
              /\ \A n \in DOMAIN old(k) :
                   /\ k \in DOMAIN queues /\ old(k)[n] \in DOMAIN pending
                   /\ pending[old(k)[n]].key = k
              /\ \A m, n \in DOMAIN old(k) : m < n => old(k)[m] < old(k)[n]
  <2>1. CASE k \in DOMAIN queues
    <3>1. old(k) = queues[k]
      BY <2>1
    <3>2. queues[k] \in Seq(EventIds) /\ queues[k] # <<>>
      BY <1>1, <2>1 DEF LoopInv, TypeOK, QueuesHoldPending
    <3>3. 1 \in DOMAIN queues[k]
      BY <3>2, EmptySeq, LenProperties
    <3> HIDE DEF old
    <3> QED
      BY <1>1, <2>1, <3>1, <3>2, <3>3 DEF LoopInv, QueuesHoldPending
  <2>2. CASE k \notin DOMAIN queues
    <3>1. old(k) = <<>> /\ <<>> \in Seq(EventIds) /\ Len(<<>>) = 0
      BY <2>2, EmptySeq
    <3>2. DOMAIN old(k) = 1..0
      BY <3>1, LenProperties
    <3>3. DOMAIN old(k) = {}
      BY <3>2
    <3> HIDE DEF old
    <3> QED
      BY <2>2, <3>1, <3>3
  <2> QED
    BY <2>1, <2>2
<1>13. ASSUME NEW k
       PROVE  /\ add(k) \in Seq(EventIds)
              /\ k \in keys => DOMAIN add(k) # {}
              /\ \A n \in DOMAIN add(k) : add(k)[n] \in new /\ KeyOf(add(k)[n]) = k
              /\ \A m, n \in DOMAIN add(k) : m < n => add(k)[m] < add(k)[n]
              /\ \A i \in new : KeyOf(i) = k => \E n \in DOMAIN add(k) : add(k)[n] = i
  <2>1. CASE k \in keys
    <3>1. add(k) = InOrder(Ids(k))
      BY <2>1
    <3>2. /\ Ids(k) \in SUBSET (0..MaxUpdates) /\ Ids(k) \subseteq EventIds /\ Ids(k) \subseteq new
          /\ \A i \in Ids(k) : KeyOf(i) = k
          /\ \A i \in new : KeyOf(i) = k => i \in Ids(k)
      <4>1. \A i \in Ids(k) : i \in new /\ KeyOf(i) = k
        OBVIOUS
      <4>2. \A i \in new : KeyOf(i) = k => i \in Ids(k)
        OBVIOUS
      <4>3. EventIds \subseteq 0..MaxUpdates
        BY DEF EventIds
      <4> HIDE DEF Ids
      <4> QED
        BY <1>6, <4>1, <4>2, <4>3
    <3>3. Ids(k) # {}
      BY <2>1
    <3> HIDE DEF Ids, add
    <3>4. /\ add(k) \in Seq(Ids(k))
          /\ \A m, n \in 1..Len(add(k)) : m < n => add(k)[m] < add(k)[n]
          /\ \A i \in Ids(k) : \E n \in 1..Len(add(k)) : add(k)[n] = i
      BY <3>1, <3>2, InOrderOf
    <3>5. DOMAIN add(k) = 1..Len(add(k)) /\ \A n \in DOMAIN add(k) : add(k)[n] \in Ids(k)
      BY <3>4, LenProperties, ElementOfSeq
    <3>6. add(k) \in Seq(EventIds)
      BY <3>2, <3>4, SeqMonotonic
    <3> QED
      BY <3>2, <3>3, <3>4, <3>5, <3>6
  <2>2. CASE k \notin keys
    <3>1. add(k) = <<>> /\ <<>> \in Seq(EventIds) /\ Len(<<>>) = 0
      BY <2>2, EmptySeq
    <3>2. DOMAIN add(k) = 1..0
      BY <3>1, LenProperties
    <3>3. DOMAIN add(k) = {} /\ \A i \in new : KeyOf(i) # k
      BY <2>2, <3>2
    <3> HIDE DEF add
    <3> QED
      BY <2>2, <3>1, <3>3
  <2> QED
    BY <2>1, <2>2
<1> HIDE DEF old, add, Ids
<1>14. ASSUME NEW k \in DOMAIN queues'
       PROVE  /\ queues'[k] \in Seq(EventIds) /\ DOMAIN queues'[k] # {}
              /\ \A m, n \in DOMAIN queues'[k] : m < n => queues'[k][m] < queues'[k][n]
              /\ \A n \in DOMAIN old(k) : n \in DOMAIN queues'[k] /\ queues'[k][n] = old(k)[n]
              /\ \A x : (\E n \in DOMAIN queues'[k] : queues'[k][n] = x) <=>
                          (\/ \E n \in DOMAIN old(k) : old(k)[n] = x
                           \/ \E n \in DOMAIN add(k) : add(k)[n] = x)
  <2>1. queues'[k] = old(k) \o add(k) /\ k \in DOMAIN queues \cup keys
    BY <1>3
  <2>2. old(k) \in Seq(EventIds) /\ add(k) \in Seq(EventIds)
    BY <1>12, <1>13
  <2>3. \A n \in DOMAIN old(k) : old(k)[n] < fromID
    BY <1>10, <1>12
  <2>4. \A n \in DOMAIN add(k) : fromID < add(k)[n]
    <3>1. \A i \in new : i \in Int
      BY <1>6 DEF EventIds
    <3> QED
      BY <1>6, <1>10, <1>13, <3>1
  <2>5. \A m, n \in DOMAIN old(k) : m < n => old(k)[m] < old(k)[n]
    BY <1>12
  <2>6. \A m, n \in DOMAIN add(k) : m < n => add(k)[m] < add(k)[n]
    BY <1>13
  <2>7. /\ old(k) \o add(k) \in Seq(EventIds)
        /\ \A m, n \in DOMAIN (old(k) \o add(k)) :
             m < n => (old(k) \o add(k))[m] < (old(k) \o add(k))[n]
        /\ \A n \in DOMAIN old(k) :
             n \in DOMAIN (old(k) \o add(k)) /\ (old(k) \o add(k))[n] = old(k)[n]
        /\ \A x : (\E n \in DOMAIN (old(k) \o add(k)) : (old(k) \o add(k))[n] = x) <=>
                    ((\E n \in DOMAIN old(k) : old(k)[n] = x)
                     \/ (\E n \in DOMAIN add(k) : add(k)[n] = x))
    <3> DEFINE s == old(k)
               t == add(k)
    <3>1. s \in Seq(EventIds) /\ t \in Seq(EventIds)
      BY <2>2
    <3>2. /\ \A n \in DOMAIN s : s[n] < fromID
          /\ \A n \in DOMAIN t : fromID < t[n]
          /\ \A m, n \in DOMAIN s : m < n => s[m] < s[n]
          /\ \A m, n \in DOMAIN t : m < n => t[m] < t[n]
      BY <2>3, <2>4, <2>5, <2>6
    <3>3. fromID \in Int /\ EventIds \in SUBSET Int
      BY <1>10 DEF EventIds
    <3> HIDE DEF s, t
    <3>4. /\ s \o t \in Seq(EventIds)
          /\ \A m, n \in DOMAIN (s \o t) : m < n => (s \o t)[m] < (s \o t)[n]
          /\ \A n \in DOMAIN s : n \in DOMAIN (s \o t) /\ (s \o t)[n] = s[n]
          /\ \A x : (\E n \in DOMAIN (s \o t) : (s \o t)[n] = x) <=>
                      ((\E n \in DOMAIN s : s[n] = x) \/ (\E n \in DOMAIN t : t[n] = x))
      BY ONLY <3>1, <3>2, <3>3, JoinInOrder
    <3> QED
      BY <3>4 DEF s, t
  <2>8. DOMAIN queues'[k] # {}
    <3>1. DOMAIN old(k) # {} \/ DOMAIN add(k) # {}
      BY <1>12, <1>13, <2>1
    <3>2. CASE DOMAIN old(k) # {}
      BY <2>1, <2>7, <3>2
    <3>3. CASE DOMAIN add(k) # {}
      <4>1. PICK n \in DOMAIN add(k) : TRUE
        BY <3>3
      <4>2. \E m \in DOMAIN (old(k) \o add(k)) : (old(k) \o add(k))[m] = add(k)[n]
        BY <2>7
      <4> QED
        BY <2>1, <4>2
    <3> QED
      BY <3>1, <3>2, <3>3
  <2> QED
    BY <2>1, <2>7, <2>8
<1>15. DOMAIN queues' = DOMAIN queues \cup keys
  BY <1>3
<1> HIDE DEF keys
<1>16. TypeOK'
  <2>1. DOMAIN pending' \subseteq EventIds
    BY <1>1, <1>2, <1>6 DEF TypeOK
  <2>2. DOMAIN queues' \subseteq Keys /\ \A k \in DOMAIN queues' : queues'[k] \in Seq(EventIds)
    BY <1>1, <1>8, <1>14, <1>15 DEF TypeOK, keys
  <2> QED
    BY <1>1, <1>5, <1>7, <1>9, <1>11, <2>1, <2>2 DEF TypeOK
<1>17. Counted'
  <2>1. Marked' = Marked
    BY <1>2, <1>11 DEF Marked
  <2> QED
    BY <1>5, <2>1 DEF LoopInv, Counted
<1>18. OffIsClean' /\ NoRepost' /\ GivenUpForCause'
  BY <1>1, <1>5 DEF LoopInv, OffIsClean, NoRepost, GivenUpForCause, Running
<1>19. BehindCursor'
  <2>1. run' # 0 /\ \A a \in acked' : a.id < fromID /\ a.id \in Int
    BY <1>1, <1>5 DEF LoopInv, BehindCursor, TypeOK, EventIds
  <2>2. fromID \in Int /\ fromID' \in Int
    BY <1>9, <1>10
  <2>3. \A a \in acked' : a.id < fromID'
    BY <1>9, <2>1, <2>2
  <2>4. \A i \in DOMAIN pending' : i < fromID'
    BY <1>2, <1>9, <1>10, <2>2
  <2> QED
    BY <2>1, <2>3, <2>4 DEF BehindCursor
<1>20. PostsAreMarked' /\ ResultsAreMarked'
  BY <1>1, <1>5, <1>11 DEF LoopInv, PostsAreMarked, ResultsAreMarked, Running
<1>21. MarkedIsAccounted'
  BY <1>2, <1>5, <1>11 DEF LoopInv, MarkedIsAccounted
<1>22. AckedIsDone'
  <2>1. \A a \in acked : a.id \in Int /\ a.id < fromID /\ a.run = run
    BY <1>1 DEF LoopInv, BehindCursor, AckedIsDone, TypeOK, EventIds
  <2>2. \A i \in new : i \in Int /\ i > fromID
    BY <1>6 DEF EventIds
  <2>3. ASSUME NEW a \in acked, a.id \in DOMAIN pending'
        PROVE  \E n \in DOMAIN results : results[n].id = a.id /\ results[n].outcome = "ok"
    <3>1. a.id \in DOMAIN pending
      BY <1>2, <1>10, <2>1, <2>2, <2>3
    <3> QED
      BY <1>1, <3>1 DEF LoopInv, AckedIsDone
  <2>4. ASSUME NEW a \in acked, NEW i \in DOMAIN pending', pending'[i].key = a.key
        PROVE  a.id <= i
    <3>1. CASE i \in new
      BY <1>10, <2>1, <2>2, <3>1
    <3>2. CASE i \notin new
      BY <1>1, <1>2, <1>11, <2>4, <3>2 DEF LoopInv, AckedIsDone
    <3> QED
      BY <3>1, <3>2
  <2> QED
    BY <1>5, <2>1, <2>3, <2>4 DEF AckedIsDone
<1>23. MarkedAreHeads'
  <2>1. SUFFICES ASSUME NEW i \in DOMAIN pending', pending'[i].inFlight
                 PROVE  queues'[pending'[i].key][1] = i
    BY DEF MarkedAreHeads
  <2>2. i \in DOMAIN pending /\ pending'[i] = pending[i]
    BY <1>2, <1>11, <2>1
  <2> DEFINE k == pending[i].key
  <2>3. k \in DOMAIN queues /\ queues[k] # <<>> /\ queues[k][1] = i
    BY <1>1, <2>1, <2>2, HeadIsFirst DEF LoopInv, MarkedAreHeads
  <2> HIDE DEF k
  <2>4. old(k) = queues[k]
    BY <2>3 DEF old
  <2>5. 1 \in DOMAIN old(k)
    <3>1. old(k) \in Seq(EventIds)
      BY <1>12
    <3> QED
      BY <2>3, <2>4, <3>1, EmptySeq, LenProperties
  <2>6. k \in DOMAIN queues'
    BY <1>15, <2>3
  <2>7. queues'[k][1] = old(k)[1]
    BY <1>14, <2>5, <2>6
  <2> QED
    BY <2>2, <2>3, <2>4, <2>7 DEF k
<1>24. QueuesHoldPending'
  <2>1. ASSUME NEW k \in DOMAIN queues'
        PROVE  queues'[k] # <<>>
    <3>1. queues'[k] \in Seq(EventIds) /\ DOMAIN queues'[k] # {}
      BY <1>14
    <3>2. DOMAIN queues'[k] = 1..Len(queues'[k])
      BY <3>1, LenProperties
    <3>3. queues'[k] = <<>> => Len(queues'[k]) = 0
      BY EmptySeq
    <3> QED
      BY <3>1, <3>2, <3>3
  <2>2. \A k \in DOMAIN queues' : \A m, n \in DOMAIN queues'[k] :
          m < n => queues'[k][m] < queues'[k][n]
    BY <1>14
  <2>3. ASSUME NEW k \in DOMAIN queues', NEW n \in DOMAIN queues'[k]
        PROVE  queues'[k][n] \in DOMAIN pending' /\ pending'[queues'[k][n]].key = k
    <3>1. \/ \E m \in DOMAIN old(k) : old(k)[m] = queues'[k][n]
          \/ \E m \in DOMAIN add(k) : add(k)[m] = queues'[k][n]
      BY <1>14
    <3>2. CASE \E m \in DOMAIN old(k) : old(k)[m] = queues'[k][n]
      BY <1>11, <1>12, <3>2
    <3>3. CASE \E m \in DOMAIN add(k) : add(k)[m] = queues'[k][n]
      BY <1>11, <1>13, <3>3
    <3> QED
      BY <3>1, <3>2, <3>3
  <2>4. ASSUME NEW i \in DOMAIN pending'
        PROVE  \E k \in DOMAIN queues' : \E n \in DOMAIN queues'[k] : queues'[k][n] = i
    <3>1. CASE i \in new
      <4>1. KeyOf(i) \in DOMAIN queues'
        BY <1>15, <3>1 DEF keys
      <4>2. \E n \in DOMAIN add(KeyOf(i)) : add(KeyOf(i))[n] = i
        BY <1>13, <3>1
      <4>3. \E n \in DOMAIN queues'[KeyOf(i)] : queues'[KeyOf(i)][n] = i
        BY <1>14, <4>1, <4>2
      <4> QED
        BY <4>1, <4>3
    <3>2. CASE i \in DOMAIN pending
      <4>1. PICK k \in DOMAIN queues : \E n \in DOMAIN queues[k] : queues[k][n] = i
        BY <1>1, <3>2 DEF LoopInv, QueuesHoldPending
      <4>2. old(k) = queues[k] /\ k \in DOMAIN queues'
        BY <1>15 DEF old
      <4>3. \E n \in DOMAIN queues'[k] : queues'[k][n] = i
        BY <1>14, <4>1, <4>2
      <4> QED
        BY <4>2, <4>3
    <3> QED
      BY <1>2, <3>1, <3>2
  <2>5. DOMAIN pending' = UNION {{queues'[k][n] : n \in DOMAIN queues'[k]} : k \in DOMAIN queues'}
    BY <2>3, <2>4
  <2> QED
    BY <2>1, <2>2, <2>3, <2>5 DEF QueuesHoldPending
<1> QED
  BY <1>16, <1>17, <1>18, <1>19, <1>20, <1>21, <1>22, <1>23, <1>24 DEF LoopInv

-----------------------------------------------------------------------------
(* What every behaviour keeps.                                             *)

\* Every step keeps the invariant.
LEMMA LoopStep == LoopInv /\ [Next]_vars => LoopInv'
<1> SUFFICES ASSUME LoopInv, [Next]_vars
             PROVE  LoopInv'
  OBVIOUS
<1>1. CASE PushUpdate \/ Expire \/ QueueShrinks
  BY <1>1, QueueSteps
<1>2. CASE Cancel \/ StopReturns
  BY <1>2, StopSteps
<1>3. CASE Start
  BY <1>3, StartStep
<1>4. CASE Load
  BY <1>4, LoadStep
<1>5. CASE AllDispatched \/ PollTimer
  BY <1>5, TurnSteps
<1>6. CASE Cancelled
  <2>1. /\ RunEnds /\ run' = run /\ tail' = tail /\ events' = events
        /\ active' = active /\ cancelled' = cancelled /\ gone' = gone
        /\ UNCHANGED <<posts, acked, forgotten>>
    BY <1>6 DEF Cancelled, queueVars, ctlVars
  <2>2. active' \in BOOLEAN
    BY <2>1 DEF LoopInv, TypeOK
  <2> QED
    BY <2>1, <2>2, EndSteps
<1>7. CASE TakeResult
  BY <1>7, TakeStep
<1>8. ASSUME NEW i \in EventIds, Dispatch(i)
      PROVE  LoopInv'
  BY <1>8, DispatchStep
<1>9. ASSUME NEW i \in EventIds, Wake(i)
      PROVE  LoopInv'
  BY <1>9, WakeStep
<1>10. ASSUME NEW p \in posts, Answer(p)
       PROVE  LoopInv'
  BY <1>10, AnswerStep
<1>11. CASE UNCHANGED vars
  <2>1. UNCHANGED <<events, tail, active, cancelled, gone, pc, run, loopVars, posts, acked,
                    forgotten>>
    BY <1>11 DEF vars, queueVars, ctlVars
  <2>2. TypeOK'
    BY <2>1 DEF LoopInv, TypeOK, loopVars
  <2> QED
    BY <2>1, <2>2, LoopUntouched
<1> QED
  BY <1>1, <1>2, <1>3, <1>4, <1>5, <1>6, <1>7, <1>8, <1>9, <1>10, <1>11 DEF Next

\* The invariant of the loop holds in every state.
THEOREM LoopInvHolds == Spec => []LoopInv
<1> QED
  BY LoopInit, LoopStep, PTL DEF Spec

\* The loop's variables have their types: its cursor never passes the last
\* update, the counter inFlight never goes below zero (deliver.go:420-421, 449,
\* 464 subtract from it).
THEOREM DelivererTypeOK == Spec => []TypeOK
<1>1. LoopInv => TypeOK
  BY DEF LoopInv
<1> QED
  BY <1>1, LoopInvHolds, PTL

\* The queues of the keys hold the pending updates, each once, in order, however
\* often the loop loads, delivers and retries.
THEOREM QueuesAlwaysHoldPending == Spec => []QueuesHoldPending
<1>1. LoopInv => QueuesHoldPending
  BY DEF LoopInv
<1> QED
  BY <1>1, LoopInvHolds, PTL

\* No update the webhook accepted in a run is POSTed in it again.
THEOREM NeverReposted == Spec => []NoRepost
<1>1. LoopInv => NoRepost
  BY DEF LoopInv
<1> QED
  BY <1>1, LoopInvHolds, PTL

\* The loop gives up only updates that were accepted or may expire.
THEOREM AlwaysForCause == Spec => []GivenUpForCause
<1>1. LoopInv => GivenUpForCause
  BY DEF LoopInv
<1> QED
  BY <1>1, LoopInvHolds, PTL

\* The updates of one key are POSTed and accepted in the order of their ids: a
\* POST is of the head of its queue, and the head is the oldest pending one.
THEOREM AlwaysInOrder == Spec => []OrderedPerKey
<1>1. LoopInv => OrderedPerKey
  <2>1. SUFFICES ASSUME LoopInv, Running, NEW i \in DOMAIN pending, NEW p \in posts \cup acked,
                        p.run = run, p.key = pending[i].key
                 PROVE  p.id <= i
    BY DEF OrderedPerKey
  <2>2. CASE p \in acked
    BY <2>1, <2>2 DEF LoopInv, AckedIsDone
  <2>3. CASE p \in posts
    <3>1. p.id \in DOMAIN pending /\ pending[p.id].inFlight /\ p.key = pending[p.id].key
      BY <2>1, <2>3 DEF LoopInv, PostsAreMarked
    <3>2. queues[p.key][1] = p.id
      BY <2>1, <3>1 DEF LoopInv, MarkedAreHeads
    <3>3. queues[pending[i].key][1] <= i
      BY <2>1, HeadIsFirst
    <3> QED
      BY <2>1, <3>2, <3>3
  <2> QED
    BY <2>2, <2>3
<1> QED
  BY <1>1, LoopInvHolds, PTL

\* The counter of POSTs in flight is exact and never above the limit.
THEOREM AlwaysAccounted == Spec => []InFlightAccounted
<1>1. LoopInv => InFlightAccounted
  <2>1. SUFFICES ASSUME LoopInv, Running
                 PROVE  /\ Marked = Underway \cup Undrained
                        /\ Cardinality(Marked) = Cardinality(Underway) + Len(results)
                        /\ inFlight = Cardinality(Marked) /\ inFlight <= MaxConnections
    BY DEF InFlightAccounted, Marked
  <2>2. Marked = Underway \cup Undrained
    <3>1. Marked \subseteq Underway \cup Undrained
      BY <2>1 DEF LoopInv, MarkedIsAccounted, Marked, Underway, Undrained
    <3>2. Underway \subseteq Marked
      BY <2>1 DEF LoopInv, PostsAreMarked, Marked, Underway
    <3>3. Undrained \subseteq Marked
      BY <2>1 DEF LoopInv, ResultsAreMarked, Marked, Undrained
    <3> QED
      BY <3>1, <3>2, <3>3
  <2>3. Underway \cap Undrained = {}
    BY <2>1 DEF LoopInv, ResultsAreMarked, Underway, Undrained
  <2>4. IsFiniteSet(Underway) /\ IsFiniteSet(Undrained)
    <3>1. IsFiniteSet(Marked)
      BY <2>1, MarkedFinite DEF LoopInv
    <3> QED
      BY <2>2, <3>1, FS_Subset
  <2>5. Cardinality(Undrained) = Len(results)
    <3>1. DOMAIN results = 1..Len(results) /\ Len(results) \in Nat
      BY <2>1, LenProperties DEF LoopInv, TypeOK
    <3> DEFINE f == [n \in 1..Len(results) |-> results[n].id]
    <3>2. f \in [1..Len(results) -> Undrained]
      BY <3>1 DEF Undrained
    <3>3. \A m, n \in 1..Len(results) : f[m] = f[n] => m = n
      BY <2>1, <3>1 DEF LoopInv, ResultsAreMarked
    <3>4. \A x \in Undrained : \E n \in 1..Len(results) : f[n] = x
      BY <3>1 DEF Undrained
    <3> HIDE DEF f
    <3>5. f \in Bijection(1..Len(results), Undrained)
      BY <3>2, <3>3, <3>4 DEF Bijection, Injection, Surjection, IsInjective
    <3>6. IsFiniteSet(1..Len(results)) /\ Cardinality(1..Len(results)) = Len(results)
      BY <3>1, FS_Interval
    <3> QED
      BY <3>5, <3>6, FS_Bijection DEF ExistsBijection
  <2>6. Cardinality(Underway \cup Undrained) = Cardinality(Underway) + Cardinality(Undrained)
    <3>1. Cardinality(Underway \cup Undrained)
            = Cardinality(Underway) + Cardinality(Undrained) - Cardinality(Underway \cap Undrained)
      BY <2>4, FS_Union
    <3>2. Cardinality(Underway \cap Undrained) = 0
      BY <2>3, FS_EmptySet
    <3>3. Cardinality(Underway) \in Nat /\ Cardinality(Undrained) \in Nat
      BY <2>4, FS_CardinalityType
    <3> QED
      BY <3>1, <3>2, <3>3
  <2> QED
    BY <2>1, <2>2, <2>5, <2>6 DEF LoopInv, Counted
<1> QED
  BY <1>1, LoopInvHolds, PTL

=============================================================================
