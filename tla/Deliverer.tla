----------------------------- MODULE Deliverer -----------------------------
(***************************************************************************)
(* internal/webhook/deliver.go: the loop Deliverer.run, which takes events *)
(* from the bot's update queue and POSTs them to the webhook, and the      *)
(* goroutines that run deliver, one per POST.                              *)
(*                                                                         *)
(* Time is abstract.  A retry waits (sleeping) until Wake; an event that   *)
(* has an expiry (mortal) may expire at any moment, and a retry of it may  *)
(* be found hopeless.  A run that has ended leaves the goroutines of its   *)
(* POSTs behind: a POST is named by its run and its event.  Start and      *)
(* StopContext are called one at a time here.                              *)
(***************************************************************************)
EXTENDS TQueueOps, Sequences

CONSTANTS
  Extras,          \* values of Event.Extra; 0 gives the event a key of its own
  BatchSize,       \* batchSize
  MaxConnections,  \* maxConnections()
  MaxUpdates,      \* bound on the number of updates
  MaxRuns          \* bound on the number of starts

ASSUME DelivererAssumption ==
  /\ Extras \subseteq Nat
  /\ BatchSize \in Nat \ {0} /\ MaxConnections \in Nat \ {0}
  /\ MaxUpdates \in Nat /\ MaxRuns \in Nat

EventIds == 1..MaxUpdates
Runs     == 1..MaxRuns
Keys     == Extras \cup {-i : i \in EventIds}
Outcomes == {"ok", "fail", "close"}

VARIABLES
  \* the queue
  events,     \* live id -> [extra, mortal, expired]
  tail,       \* last assigned id
  \* the Deliverer
  active,     \* d.active
  cancelled,  \* the context of the run is cancelled, the caller waits for done
  gone,       \* firstError410 is set
  \* the local variables of run
  pc,         \* "off" before a run and when done is closed
  run,        \* number of the run
  fromID,     \* the cursor
  pending,    \* id -> [key, mortal, sleeping, inFlight]
  queues,     \* key -> ids in the order they were loaded
  inFlight,   \* POSTs this run counts as in flight
  idle,       \* the last Get returned nothing
  results,    \* the results channel
  \* around it
  posts,      \* [run, id, key] of the goroutines inside deliver
  acked,      \* history: the POSTs of this run answered with 2xx
  forgotten   \* history: [id, mortal] of the events this run gave up

queueVars == <<events, tail>>
ctlVars   == <<active, cancelled, gone>>
loopVars  == <<fromID, pending, queues, inFlight, idle, results>>
vars == <<queueVars, ctlVars, pc, run, loopVars, posts, acked, forgotten>>

Empty == [i \in {} |-> 0]

Init ==
  /\ events = Empty /\ tail = 0
  /\ active = FALSE /\ cancelled = FALSE /\ gone = FALSE
  /\ pc = "off" /\ run = 0
  /\ fromID = 0 /\ pending = Empty /\ queues = Empty
  /\ inFlight = 0 /\ idle = FALSE /\ results = <<>>
  /\ posts = {} /\ acked = {} /\ forgotten = {}

-----------------------------------------------------------------------------
(* The queue, as TQueue has it: pushes, expiry, GC, and Clear by logOut.   *)

PushUpdate ==
  \E extra \in Extras, mortal \in BOOLEAN :
    /\ tail < MaxUpdates
    /\ tail' = tail + 1
    /\ events' = Put(events, tail + 1, [extra |-> extra, mortal |-> mortal, expired |-> FALSE])
    /\ UNCHANGED <<ctlVars, pc, run, loopVars, posts, acked, forgotten>>

Expire ==
  \E i \in DOMAIN events :
    /\ events[i].mortal /\ ~events[i].expired
    /\ events' = [events EXCEPT ![i].expired = TRUE]
    /\ UNCHANGED <<tail, ctlVars, pc, run, loopVars, posts, acked, forgotten>>

\* RunGC removes what expired, Clear(0) everything.
QueueShrinks ==
  \E gc \in BOOLEAN :
    /\ events' = Without(events, {i \in DOMAIN events : gc => events[i].expired})
    /\ UNCHANGED <<tail, ctlVars, pc, run, loopVars, posts, acked, forgotten>>

-----------------------------------------------------------------------------
(* Start and StopContext.                                                  *)

\* The context of the run is cancelled, by StopContext or by Start, which then
\* wait for done.
Cancel ==
  /\ active /\ ~cancelled
  /\ cancelled' = TRUE
  /\ UNCHANGED <<queueVars, active, gone, pc, run, loopVars, posts, acked, forgotten>>

\* Start launches a run: nothing ran, or the run it cancelled has ended.
Start ==
  \E dropPending \in BOOLEAN :
    /\ pc = "off" /\ (active => cancelled)
    /\ run < MaxRuns
    /\ events' = IF dropPending THEN Empty ELSE events
    /\ gone' = FALSE /\ active' = TRUE /\ cancelled' = FALSE
    /\ pc' = "top" /\ run' = run + 1
    /\ acked' = {} /\ forgotten' = {}
    /\ UNCHANGED <<tail, loopVars, posts>>

StopReturns ==
  /\ cancelled /\ pc = "off"
  /\ active' = FALSE /\ cancelled' = FALSE
  /\ UNCHANGED <<queueVars, gone, pc, run, loopVars, posts, acked, forgotten>>

-----------------------------------------------------------------------------
(* One turn of the loop: load, dispatch, wait.                             *)

\* The queue key of an event: its Extra, or a fresh fallback id.
KeyOf(i) == IF events[i].extra # 0 THEN events[i].extra ELSE -i

\* Get(fromID, limit batchSize), and the new events into pending and queues.
Load ==
  LET got  == Lowest({i \in DOMAIN events : ~events[i].expired /\ i > fromID}, BatchSize)
      new  == got \ DOMAIN pending
      keys == {KeyOf(i) : i \in new}
      IdsOf(k) == InOrder({i \in new : KeyOf(i) = k})
  IN /\ pc = "top" /\ ~cancelled
     /\ pending' = [i \in DOMAIN pending \cup new |->
          IF i \in new THEN [key |-> KeyOf(i), mortal |-> events[i].mortal,
                              sleeping |-> FALSE, inFlight |-> FALSE]
                       ELSE pending[i]]
     /\ queues' = [k \in DOMAIN queues \cup keys |->
          (IF k \in DOMAIN queues THEN queues[k] ELSE <<>>) \o
          (IF k \in keys THEN IdsOf(k) ELSE <<>>)]
     /\ fromID' = Greatest({i + 1 : i \in new} \cup {fromID})
     /\ idle' = (got = {})
     /\ pc' = "dispatch"
     /\ UNCHANGED <<queueVars, ctlVars, run, inFlight, results, posts, acked, forgotten>>

\* Mutant: any pending update, not only the oldest of its key.
ReadyInAnyOrder == {i \in DOMAIN pending : ~pending[i].inFlight /\ ~pending[i].sleeping}

\* The heads that may be POSTed now.
Ready == {queues[k][1] : k \in {q \in DOMAIN queues :
            /\ queues[q] # <<>>
            /\ queues[q][1] \in DOMAIN pending
            /\ ~pending[queues[q][1]].inFlight
            /\ ~pending[queues[q][1]].sleeping}}

\* Mutant: the POST is not counted.
PostUncounted(i) ==
  /\ pending' = [pending EXCEPT ![i].inFlight = TRUE]
  /\ posts' = posts \cup {[run |-> run, id |-> i, key |-> pending[i].key]}
  /\ UNCHANGED <<queueVars, ctlVars, pc, run, fromID, queues, inFlight, idle, results, acked, forgotten>>

\* A goroutine is started that delivers i.
Post(i) ==
  /\ pending' = [pending EXCEPT ![i].inFlight = TRUE]
  /\ posts' = posts \cup {[run |-> run, id |-> i, key |-> pending[i].key]}
  /\ inFlight' = inFlight + 1
  /\ UNCHANGED <<queueVars, ctlVars, pc, run, fromID, queues, idle, results, acked, forgotten>>

\* Go ranges over the map queues: any ready head.
Dispatch(i) == pc = "dispatch" /\ inFlight < MaxConnections /\ i \in Ready /\ Post(i)

AllDispatched ==
  /\ pc = "dispatch" /\ (inFlight = MaxConnections \/ Ready = {})
  /\ pc' = "select"
  /\ UNCHANGED <<queueVars, ctlVars, run, loopVars, posts, acked, forgotten>>

\* The local variables of run go with it.
RunEnds ==
  /\ pc' = "off"
  /\ fromID' = 0 /\ pending' = Empty /\ queues' = Empty
  /\ inFlight' = 0 /\ idle' = FALSE /\ results' = <<>>

PollTimer ==
  /\ pc = "select"
  /\ pc' = "top"
  /\ UNCHANGED <<queueVars, ctlVars, run, loopVars, posts, acked, forgotten>>

Cancelled ==
  /\ pc \in {"top", "select"} /\ cancelled
  /\ RunEnds
  /\ UNCHANGED <<queueVars, ctlVars, run, posts, acked, forgotten>>

-----------------------------------------------------------------------------
(* deliver, in a goroutine of its own.  The result of a run that has ended *)
(* goes to a channel nobody reads.                                         *)

\* Mutant: the results channel is shared by all runs.
AnsweredToAnyRun(p, outcome) ==
  /\ posts' = posts \ {p}
  /\ results' = IF pc # "off" THEN Append(results, [id |-> p.id, outcome |-> outcome]) ELSE results
  /\ UNCHANGED <<queueVars, active, cancelled, pc, run, fromID, pending, queues, inFlight,
                 idle, forgotten>>

Answered(p, outcome) ==
  /\ posts' = posts \ {p}
  /\ results' = IF p.run = run /\ pc # "off"
                THEN Append(results, [id |-> p.id, outcome |-> outcome])
                ELSE results
  /\ UNCHANGED <<queueVars, active, cancelled, pc, run, fromID, pending, queues, inFlight,
                 idle, forgotten>>

\* 2xx: reset410.
AnswerOk(p) ==
  /\ Answered(p, "ok")
  /\ gone' = FALSE /\ acked' = acked \cup {q \in {p} : q.run = run}

\* 410: mark410.  Whether 23 hours have passed since the first is left open.
AnswerGone(p) ==
  /\ \E sustained \in BOOLEAN :
       /\ sustained => gone
       /\ Answered(p, IF sustained THEN "close" ELSE "fail")
  /\ gone' = TRUE /\ UNCHANGED acked

\* 429 and any other status: reset410.
AnswerRefused(p) ==
  /\ Answered(p, "fail")
  /\ gone' = FALSE /\ UNCHANGED acked

\* The request failed, or was cancelled with its run.
AnswerError(p) ==
  /\ Answered(p, "fail")
  /\ UNCHANGED <<gone, acked>>

Answer(p) == AnswerOk(p) \/ AnswerGone(p) \/ AnswerRefused(p) \/ AnswerError(p)

-----------------------------------------------------------------------------
(* The loop takes the results of the POSTs.                                *)

\* Mutant: the key's queue keeps the id that was delivered.
QueuesUnshifted(i) == queues

\* i leaves the queue of its key, which goes when it is empty.
QueuesWithout(i) ==
  LET key  == pending[i].key
      left == IF queues[key] # <<>> /\ Head(queues[key]) = i
              THEN Tail(queues[key]) ELSE queues[key]
  IN IF left = <<>> THEN Without(queues, {key}) ELSE [queues EXCEPT ![key] = left]

\* Mutant: the update stays in pending and in the queue of its key.
DoneInQueueOnly(i) ==
  /\ events' = Without(events, {i})
  /\ pending' = [pending EXCEPT ![i].inFlight = FALSE]
  /\ forgotten' = forgotten \cup {[id |-> i, mortal |-> pending[i].mortal]}
  /\ UNCHANGED queues

\* i is forgotten: in the update queue, in pending and in the queue of its key.
Done(i) ==
  /\ events' = Without(events, {i})
  /\ pending' = Without(pending, {i})
  /\ queues' = QueuesWithout(i)
  /\ forgotten' = forgotten \cup {[id |-> i, mortal |-> pending[i].mortal]}

\* What is left to a turn of the loop that took a result and goes on.
GoOn ==
  /\ pc' = "top" /\ results' = Tail(results)
  /\ UNCHANGED <<ctlVars, fromID, idle>>

\* 2xx: forgotten.
TakeOk(i) == Done(i) /\ inFlight' = inFlight - 1 /\ GoOn

\* Mutant: every update whose POST failed is forgotten.
TakeFailForgets(i) == TakeOk(i)

\* Mutant: a failed POST counts as in flight for ever.
TakeFailStillCounts(i) ==
  /\ i \in DOMAIN events => ~events[i].expired
  /\ pending' = [pending EXCEPT ![i].inFlight = FALSE, ![i].sleeping = TRUE]
  /\ UNCHANGED <<events, queues, forgotten, inFlight>> /\ GoOn

\* Any other answer than 2xx: the event is forgotten if it would expire before
\* the retry, else retried after a wait.  Of a mortal event no longer in the
\* queue either may be so.
TakeFail(i) ==
  /\ \/ /\ pending[i].mortal
        /\ Done(i)
     \/ /\ i \in DOMAIN events => ~events[i].expired
        /\ pending' = [pending EXCEPT ![i].inFlight = FALSE, ![i].sleeping = TRUE]
        /\ UNCHANGED <<events, queues, forgotten>>
  /\ inFlight' = inFlight - 1 /\ GoOn

\* Sustained 410: the loop ends, its context not cancelled.
TakeClose ==
  /\ RunEnds /\ active' = FALSE
  /\ UNCHANGED <<cancelled, gone, events, forgotten>>

\* A loop that holds nothing throws the result away uncounted, one that does
\* not know the update counts it.
TakeStray(counted) ==
  /\ inFlight' = IF counted THEN inFlight - 1 ELSE inFlight
  /\ GoOn
  /\ UNCHANGED <<events, pending, queues, forgotten>>

TakeResult ==
  /\ pc = "select" /\ results # <<>>
  /\ LET r == Head(results)
     IN IF r.id \notin DOMAIN pending
        THEN TakeStray(DOMAIN pending # {} \/ ~idle)
        ELSE \/ r.outcome = "ok" /\ TakeOk(r.id)
             \/ r.outcome = "close" /\ TakeClose
             \/ r.outcome = "fail" /\ TakeFail(r.id)
  /\ UNCHANGED <<tail, run, posts, acked>>

\* The wait of a retry is over.
Wake(i) ==
  /\ i \in DOMAIN pending /\ pending[i].sleeping
  /\ pending' = [pending EXCEPT ![i].sleeping = FALSE]
  /\ UNCHANGED <<queueVars, ctlVars, pc, run, fromID, queues, inFlight, idle, results,
                 posts, acked, forgotten>>

-----------------------------------------------------------------------------
Next ==
  \/ PushUpdate \/ Expire \/ QueueShrinks
  \/ Cancel \/ Start \/ StopReturns
  \/ Load \/ AllDispatched \/ PollTimer \/ Cancelled \/ TakeResult
  \/ \E i \in EventIds : Dispatch(i) \/ Wake(i)
  \/ \E p \in posts : Answer(p)

Spec == Init /\ [][Next]_vars

\* The goroutine of the loop is scheduled; a select between a timer of 100 ms
\* and a result takes the result at last; Go starts the range over the map
\* queues at a random key, so no ready head is passed over for ever; clocks
\* advance.
LoopFairness ==
  /\ WF_vars(Load) /\ WF_vars(AllDispatched) /\ WF_vars(PollTimer) /\ WF_vars(Cancelled)
  /\ SF_vars(TakeResult)
  /\ \A i \in EventIds : SF_vars(Dispatch(i)) /\ WF_vars(Wake(i))

\* Every POST ends: http.Client has a timeout of 30 seconds.
PostFairness ==
  \A r \in Runs, i \in EventIds :
    WF_vars(\E p \in posts : p.run = r /\ p.id = i /\ Answer(p))

\* The webhook does not refuse one update for ever.
WebhookFairness ==
  \A i \in EventIds : SF_vars(\E p \in posts : p.id = i /\ p.run = run /\ AnswerOk(p))

FairSpec == Spec /\ LoopFairness /\ PostFairness /\ WebhookFairness

-----------------------------------------------------------------------------
(* Properties.                                                             *)

Running == pc # "off"

TypeOK ==
  /\ DOMAIN events \subseteq 1..tail /\ tail \in 0..MaxUpdates
  /\ \A i \in DOMAIN events :
       events[i] \in [extra : Extras, mortal : BOOLEAN, expired : BOOLEAN]
  /\ active \in BOOLEAN /\ cancelled \in BOOLEAN /\ gone \in BOOLEAN
  /\ pc \in {"off", "top", "dispatch", "select"} /\ run \in 0..MaxRuns
  /\ fromID \in 0..MaxUpdates + 1
  /\ DOMAIN pending \subseteq EventIds
  /\ \A i \in DOMAIN pending :
       pending[i] \in [key : Keys, mortal : BOOLEAN, sleeping : BOOLEAN, inFlight : BOOLEAN]
  /\ DOMAIN queues \subseteq Keys
  /\ \A k \in DOMAIN queues : queues[k] \in Seq(EventIds)
  /\ inFlight \in Nat /\ idle \in BOOLEAN
  /\ results \in Seq([id : EventIds, outcome : Outcomes])
  /\ posts \subseteq [run : Runs, id : EventIds, key : Keys]
  /\ acked \subseteq [run : Runs, id : EventIds, key : Keys]
  /\ forgotten \subseteq [id : EventIds, mortal : BOOLEAN]

\* The POSTs of the run that are under way, or whose result is not taken yet.
Underway  == {p.id : p \in {q \in posts : q.run = run}}
Undrained == {results[n].id : n \in DOMAIN results}

\* The loop's bookkeeping agrees with its goroutines: inFlight counts the
\* updates marked in flight, each of which has exactly one POST under way or one
\* result waiting, and never exceeds the limit.  Its own arithmetic (deliver.go:
\* 420-421, 449, 464) would let it POST above the limit, or never again.
InFlightAccounted ==
  Running =>
    LET marked == {i \in DOMAIN pending : pending[i].inFlight} IN
    /\ marked = Underway \cup Undrained
    /\ Cardinality(marked) = Cardinality(Underway) + Len(results)
    /\ inFlight = Cardinality(marked) /\ inFlight <= MaxConnections

\* Every pending update stands in the queue of its key, once, behind the older
\* ones, and the queues hold nothing else: an id left at the head of a queue
\* would block its key for the rest of the run.
QueuesHoldPending ==
  Running =>
    /\ \A k \in DOMAIN queues : queues[k] # <<>> /\ \A m, n \in DOMAIN queues[k] :
         m < n => queues[k][m] < queues[k][n]
    /\ DOMAIN pending = UNION {{queues[k][n] : n \in DOMAIN queues[k]} : k \in DOMAIN queues}
    /\ \A k \in DOMAIN queues : \A n \in DOMAIN queues[k] : pending[queues[k][n]].key = k

\* Updates of one key reach the webhook in order: while an update is pending no
\* later one of its key is POSTed or has been accepted in the same run.
OrderedPerKey ==
  Running =>
    \A i \in DOMAIN pending, p \in posts \cup acked :
      p.run = run /\ p.key = pending[i].key => p.id <= i

\* An update the webhook accepted is not POSTed again in the same run.
NoRepost == \A p \in posts : p \notin acked

\* The loop gives up an update only when the webhook accepted it in that very
\* run or when it has an expiry.
GivenUpForCause ==
  \A f \in forgotten : f.mortal \/ \E a \in acked : a.id = f.id

\* What these rest on.  Outside a run its variables are empty.
OffIsClean ==
  ~Running =>
    /\ DOMAIN pending = {} /\ DOMAIN queues = {}
    /\ inFlight = 0 /\ results = <<>> /\ fromID = 0

\* What was loaded is behind the cursor and is not loaded again.
BehindCursor ==
  Running =>
    /\ run # 0
    /\ \A i \in DOMAIN pending : i < fromID
    /\ \A a \in acked : a.id < fromID

\* A POST of this run is of an update marked in flight, one of each.
PostsAreMarked ==
  /\ \A p \in posts : p.run <= run
  /\ Running =>
       /\ \A p, q \in posts : p.run = run /\ q.run = run /\ p.id = q.id => p = q
       /\ \A p \in posts : p.run = run =>
            /\ p.id \in DOMAIN pending /\ pending[p.id].inFlight
            /\ p.key = pending[p.id].key

\* So is a result, and a POST with a result is over.
ResultsAreMarked ==
  /\ \A m, n \in DOMAIN results : results[m].id = results[n].id => m = n
  /\ \A n \in DOMAIN results :
       /\ results[n].id \in DOMAIN pending /\ pending[results[n].id].inFlight
       /\ \A p \in posts : p.run = run => p.id # results[n].id
       /\ results[n].outcome = "ok" => \E a \in acked : a.id = results[n].id

\* What is marked is one of the two.
MarkedIsAccounted ==
  \A i \in DOMAIN pending : pending[i].inFlight =>
    \/ \E p \in posts : p.run = run /\ p.id = i
    \/ \E n \in DOMAIN results : results[n].id = i

Marked == {i \in DOMAIN pending : pending[i].inFlight}
Counted == inFlight = Cardinality(Marked) /\ inFlight <= MaxConnections

\* An accepted update is gone, or its result waits; the later ones of its key
\* are behind it.
AckedIsDone ==
  /\ \A a \in acked : a.run = run
  /\ Running =>
       \A a \in acked :
         /\ a.id \in DOMAIN pending =>
              \E n \in DOMAIN results : results[n].id = a.id /\ results[n].outcome = "ok"
         /\ \A i \in DOMAIN pending : pending[i].key = a.key => a.id <= i

\* What is in flight is at the head of its queue.
MarkedAreHeads ==
  \A i \in DOMAIN pending : pending[i].inFlight => queues[pending[i].key][1] = i

\* The inductive invariant of the loop.
LoopInv ==
  /\ TypeOK /\ OffIsClean /\ BehindCursor /\ PostsAreMarked /\ ResultsAreMarked
  /\ MarkedIsAccounted /\ Counted /\ AckedIsDone /\ MarkedAreHeads
  /\ QueuesHoldPending /\ NoRepost /\ GivenUpForCause

\* Whatever the answers of other keys, an update that was loaded is at last
\* given up or accepted, unless the run ends.
LoadedIsServed ==
  \A i \in EventIds :
    (Running /\ i \in DOMAIN pending) ~> (~Running \/ i \notin DOMAIN pending)

\* "run ... polls the TQueue for new updates and POSTs them to the webhook URL"
\* (deliver.go:325-326): an update of the queue is at last POSTed, unless it
\* leaves the queue or the run ends.
EveryUpdatePosted ==
  \A i \in EventIds :
    (Running /\ i \in DOMAIN events) ~>
      (~Running \/ i \notin DOMAIN events \/ events[i].expired \/ i \in Underway)

=============================================================================
