------------------------------- MODULE TQueue -------------------------------
(***************************************************************************)
(* One bot's update queue: the in-memory queue of internal/tqueue and its  *)
(* rows in the SQLite table of internal/storage/tqueue.go, used at once by *)
(* the goroutines that ingest updates (Writers), by the goroutines that    *)
(* serve getUpdates, deleteWebhook or a webhook delivery (Consumers), and  *)
(* by the manager's garbage-collection loop (GC).                          *)
(*                                                                         *)
(* A critical section of queue.mu is one step, and so is one SQL           *)
(* statement.  Between the two the other goroutines run, and the process   *)
(* may die and be restarted (manager.New).  Queues of different bots share *)
(* no state but the map that holds them, so one queue is modelled.         *)
(***************************************************************************)
EXTENDS TQueueOps

CONSTANTS
  Writers,         \* goroutines inside PushWithData
  Consumers,       \* goroutines inside Get, Clear or Forget
  GC,              \* the manager's gcLoop
  MaxID,           \* EventID's MaxID
  MaxQueueEvents,  \* maxQueueEvents
  Hints,           \* the hints PushWithData is called with
  TTLs,            \* times to live of updates; 0 is an event that never expires
  MaxLimit,        \* bound on the limit of Get and the keepCount of Clear
  MaxUpdates,      \* bound on the number of updates pushed
  MaxTime,         \* bound on the clock
  MaxRestarts      \* bound on the number of restarts

ASSUME ProcsAssumption ==
  /\ Writers \cap Consumers = {}
  /\ GC \notin Writers \cup Consumers
ASSUME BoundsAssumption ==
  /\ MaxID \in Nat \ {0} /\ MaxQueueEvents \in Nat \ {0}
  /\ MaxLimit \in Nat /\ MaxUpdates \in Nat
  /\ MaxTime \in Nat /\ MaxRestarts \in Nat
ASSUME InputsAssumption == Hints \subseteq Nat /\ TTLs \subseteq Nat

Procs    == Writers \cup Consumers \cup {GC}
EventIds == 1..MaxID
Updates  == 1..MaxUpdates

VARIABLES
  events,     \* queue.events: live id -> event
  head,       \* queue.head
  tail,       \* queue.tail
  rows,       \* the rows of table updates
  nextLog,    \* the next AUTOINCREMENT log_id
  push,       \* where each writer is in PushWithData, with the event it pushes
  pops,       \* the log ids each goroutine has still to pop from the store
  reply,      \* the events each consumer has taken and not yet answered with
  gcNow,      \* the time RunGC ran with, 0 when the loop waits for its ticker
  now,        \* the clock
  issued,     \* number of updates that arrived
  restarts,   \* number of restarts
  ack,        \* the bot's: the highest update_id it has received
  delivered,  \* history: updates the bot has received
  confirmed,  \* history: unexpired updates removed because the bot's offset passed them
  leaked      \* history: log ids of rows a failed statement left without an owner

memory == <<events, head, tail>>
store  == <<rows, nextLog>>
bot    == <<ack, delivered, confirmed>>
vars   == <<memory, store, push, pops, reply, gcNow, now, issued, restarts, bot, leaked>>

Idle == [pc |-> "idle", id |-> 0, exp |-> 0, upd |-> 0, log |-> 0]

\* The log ids assigned so far.
LogIds == 1..nextLog - 1

\* A live event, the row of table updates that persists one, an event in an
\* answer, and a writer.  The payload is the number of the update.
Event == [exp : Nat, log : LogIds \cup {0}, upd : Updates]
Row   == [log : LogIds, id : EventIds, exp : Nat, upd : Updates]
Reply == [id : EventIds, upd : Updates]
Pushing ==
  [pc : {"insert"}, id : EventIds, exp : Nat, upd : Updates, log : {0}] \cup
  [pc : {"record"}, id : EventIds, exp : Nat, upd : Updates, log : LogIds]

Init ==
  /\ events = [i \in {} |-> 0] /\ head = 0 /\ tail = 0
  /\ rows = {} /\ nextLog = 1
  /\ push = [w \in Writers |-> Idle]
  /\ pops = [p \in Procs |-> {}]
  /\ reply = [c \in Consumers |-> {}]
  /\ gcNow = 0 /\ now = 1 /\ issued = 0 /\ restarts = 0
  /\ ack = 0 /\ delivered = {} /\ confirmed = {}
  /\ leaked = {}

-----------------------------------------------------------------------------
(* Removal under queue.mu, with the pops left for after the unlock.        *)

\* p removes the ids of S, recomputes head and keeps the log ids to pop.
Remove(p, S) ==
  /\ events' = Without(events, S)
  /\ head' = HeadOf(Without(events, S))
  /\ pops' = [pops EXCEPT ![p] = LogsOf(events, S)]

\* DELETE ... WHERE log_id = l.  Pop ignores the error of a failed statement.
StorePop(l) ==
  \/ rows' = {r \in rows : r.log # l} /\ UNCHANGED leaked
  \/ leaked' = leaked \cup {l} /\ UNCHANGED rows

\* One turn of popOutsideLock's loop.  The order of the log ids is that of a
\* map's range in most callers: any order.
PopOne(p) ==
  \E l \in pops[p] :
    /\ StorePop(l)
    /\ pops' = [pops EXCEPT ![p] = @ \ {l}]
    /\ UNCHANGED <<memory, nextLog, push, reply, gcNow, now, issued, restarts, bot>>

-----------------------------------------------------------------------------
(* PushWithData, called by pushUpdate.                                     *)

\* Mutant: the id after the newest live event, as if no id had to be remembered.
NextIDAfterLive(hint) == Greatest(DOMAIN events \cup {hint}) + 1

\* The id after the larger of hint and tail; ids start at 1.
NextID(hint) == (IF hint > tail THEN hint ELSE tail) + 1

\* ExpiresAt as pushUpdate computes it.
ExpiresAt(ttl) == IF ttl = 0 THEN 0 ELSE now + ttl

\* Mutant: head is not recomputed when the push trims the oldest events.
HeadKeptOnTrim(id, left, trim) == IF head = 0 THEN id ELSE head

\* head after the insertion of id and the removal of trim left this map.
HeadAfterPush(id, left, trim) ==
  IF trim # {} THEN HeadOf(left) ELSE IF head = 0 THEN id ELSE head

\* Phase 1: assign the id, insert, trim to the cap.
PushWith(w, hint, ttl) ==
  LET id   == NextID(hint)
      ev   == [exp |-> ExpiresAt(ttl), log |-> 0, upd |-> issued + 1]
      all  == Put(events, id, ev)
      trim == AllButLast(all, MaxQueueEvents)
  IN /\ push[w] = Idle /\ pops[w] = {}
     /\ issued < MaxUpdates
     /\ id <= MaxID
     /\ events' = Without(all, trim)
     /\ head' = HeadAfterPush(id, Without(all, trim), trim)
     /\ tail' = id
     /\ pops' = [pops EXCEPT ![w] = LogsOf(all, trim)]
     /\ push' = [push EXCEPT ![w] =
          [pc |-> "insert", id |-> id, exp |-> ExpiresAt(ttl), upd |-> issued + 1, log |-> 0]]
     /\ issued' = issued + 1
     /\ UNCHANGED <<store, reply, gcNow, now, restarts, bot, leaked>>

PushEvent(w) == \E hint \in Hints, ttl \in TTLs : PushWith(w, hint, ttl)

\* ErrQueueFull: pushUpdate logs it and the update is gone.
PushFull(w) ==
  /\ push[w] = Idle /\ pops[w] = {}
  /\ issued < MaxUpdates
  /\ \E hint \in Hints : NextID(hint) > MaxID
  /\ issued' = issued + 1
  /\ UNCHANGED <<memory, store, push, pops, reply, gcNow, now, restarts, bot, leaked>>

\* cb.Push: the INSERT, outside the locks, after the trimmed events' pops.
InsertRow(w) ==
  /\ push[w].pc = "insert" /\ pops[w] = {}
  /\ rows' = rows \cup {[log |-> nextLog, id |-> push[w].id, exp |-> push[w].exp, upd |-> push[w].upd]}
  /\ nextLog' = nextLog + 1
  /\ push' = [push EXCEPT ![w].pc = "record", ![w].log = nextLog]
  /\ UNCHANGED <<memory, pops, reply, gcNow, now, issued, restarts, bot, leaked>>

\* The INSERT failed: Push returns 0 and the event lives in memory only.
InsertFails(w) ==
  /\ push[w].pc = "insert" /\ pops[w] = {}
  /\ push' = [push EXCEPT ![w] = Idle]
  /\ UNCHANGED <<memory, store, pops, reply, gcNow, now, issued, restarts, bot, leaked>>

\* Mutant: the log id is stored without looking whether the event is still there.
RecordLogBlindly(w) ==
  /\ push[w].pc = "record"
  /\ events' = Put(events, push[w].id,
                   [exp |-> push[w].exp, log |-> push[w].log, upd |-> push[w].upd])
  /\ push' = [push EXCEPT ![w] = Idle]
  /\ UNCHANGED <<head, tail, store, pops, reply, gcNow, now, issued, restarts, bot, leaked>>

\* Second critical section, the event still there: note its log id.  No id is
\* assigned twice while the process lives, so current == re is id membership.
RecordLog(w) ==
  LET id == push[w].id IN
  /\ push[w].pc = "record" /\ id \in DOMAIN events
  /\ events' = [events EXCEPT ![id].log = push[w].log]
  /\ push' = [push EXCEPT ![w] = Idle]
  /\ UNCHANGED <<head, tail, store, pops, reply, gcNow, now, issued, restarts, bot, leaked>>

\* Mutant: the event removed meanwhile, the row is left on disk.
UndoNothing(w) ==
  /\ push[w].pc = "record" /\ push[w].id \notin DOMAIN events
  /\ push' = [push EXCEPT ![w] = Idle]
  /\ UNCHANGED <<memory, store, pops, reply, gcNow, now, issued, restarts, bot, leaked>>

\* Second critical section, the event removed meanwhile: undo the INSERT.
UndoInsert(w) ==
  /\ push[w].pc = "record" /\ push[w].id \notin DOMAIN events
  /\ StorePop(push[w].log)
  /\ push' = [push EXCEPT ![w] = Idle]
  /\ UNCHANGED <<memory, nextLog, pops, reply, gcNow, now, issued, restarts, bot>>

-----------------------------------------------------------------------------
(* The readers: getUpdates, deleteWebhook and logOut, webhook delivery.    *)

Free(c) == pops[c] = {} /\ reply[c] = {}

\* Get(fromID, forgetPrevious = false): a look for events after an offset.
Poll(c) ==
  \E from \in 0..ack, limit \in 1..MaxLimit :
    /\ Free(c)
    /\ reply' = [reply EXCEPT ![c] =
         {[id |-> i, upd |-> events[i].upd] : i \in Matching(events, from, now, limit)}]
    /\ UNCHANGED <<memory, store, push, pops, gcNow, now, issued, restarts, bot, leaked>>

\* Get(fromID, forgetPrevious = true): the first Get of getUpdates with
\* offset = from + 1.  A bot sends no offset past the updates it received.
Confirm(c) ==
  \E from \in 0..ack, limit \in 1..MaxLimit :
    LET gone == UpTo(events, from) IN
    /\ Free(c)
    /\ Remove(c, gone)
    /\ confirmed' = confirmed \cup {events[i].upd : i \in gone \ ExpiredIds(events, now)}
    /\ reply' = [reply EXCEPT ![c] =
         {[id |-> i, upd |-> events[i].upd] : i \in Matching(events, from, now, limit)}]
    /\ UNCHANGED <<tail, store, push, gcNow, now, issued, restarts, ack, delivered, leaked>>

\* Clear(keepCount): a negative offset, drop_pending_updates, logOut.
Clear(c) ==
  \E keepCount \in 0..MaxLimit :
    /\ Free(c)
    /\ Remove(c, AllButLast(events, keepCount))
    /\ UNCHANGED <<tail, store, push, reply, gcNow, now, issued, restarts, bot, leaked>>

\* Forget(id): the deliverer, after a 2xx answer or a hopeless retry.
Forget(c) ==
  \E id \in DOMAIN events :
    /\ Free(c)
    /\ Remove(c, {id})
    /\ UNCHANGED <<tail, store, push, reply, gcNow, now, issued, restarts, bot, leaked>>

\* The answer reaches the bot, once the pops of the call are done ...
Receive(c) ==
  LET ids == {x.id : x \in reply[c]} IN
  /\ pops[c] = {} /\ reply[c] # {}
  /\ delivered' = delivered \cup {x.upd : x \in reply[c]}
  /\ ack' = Greatest(ids \cup {ack})
  /\ reply' = [reply EXCEPT ![c] = {}]
  /\ UNCHANGED <<memory, store, push, pops, gcNow, now, issued, restarts, confirmed, leaked>>

\* ... or the connection is gone.
LoseReply(c) ==
  /\ pops[c] = {} /\ reply[c] # {}
  /\ reply' = [reply EXCEPT ![c] = {}]
  /\ UNCHANGED <<memory, store, push, pops, gcNow, now, issued, restarts, bot, leaked>>

-----------------------------------------------------------------------------
(* manager.gcLoop: RunGC, its pops, then the store's GC with the same time.*)

RunGC ==
  /\ gcNow = 0 /\ pops[GC] = {}
  /\ Remove(GC, ExpiredIds(events, now))
  /\ gcNow' = now
  /\ UNCHANGED <<tail, store, push, reply, now, issued, restarts, bot, leaked>>

\* Mutant: DELETE ... WHERE expires_at < ? without expires_at != 0.
OutdatedIgnoringZero(t) == {r \in rows : r.exp < t}

\* The rows of DELETE ... WHERE expires_at != 0 AND expires_at < t.
Outdated(t) == {r \in rows : Expired(r, t)}

StoreGC ==
  /\ gcNow # 0 /\ pops[GC] = {}
  /\ rows' = rows \ Outdated(gcNow) \/ rows' = rows
  /\ gcNow' = 0
  /\ UNCHANGED <<memory, nextLog, push, pops, reply, now, issued, restarts, bot, leaked>>

-----------------------------------------------------------------------------
(* The process dies and manager.New runs again.                            *)

\* Replay puts the rows into the map in log_id order: of two rows with one
\* event id the later wins.
Winners(loaded) == {r \in loaded : \A s \in loaded : s.id = r.id => s.log <= r.log}

Replayed(loaded) ==
  [i \in {r.id : r \in loaded} |->
     LET r == CHOOSE r \in Winners(loaded) : r.id = i
     IN [exp |-> r.exp, log |-> r.log, upd |-> r.upd]]

\* Mutant: Replay restores the events and not tail.
TailNotRestored(loaded) == 0

\* tail after Replay: the largest event id on disk.
TailOf(loaded) == Greatest({r.id : r \in loaded} \cup {0})

\* loaded is what LoadAll returned: every row, or nothing when the query
\* failed, which New only logs.  Rows no event owns then are leaked.
Restart ==
  \E loaded \in {rows, {}} :
    /\ restarts < MaxRestarts
    /\ events' = Replayed(loaded)
    /\ head' = HeadOf(Replayed(loaded))
    /\ tail' = TailOf(loaded)
    /\ leaked' = {r.log : r \in rows \ Winners(loaded)}
    /\ push' = [w \in Writers |-> Idle]
    /\ pops' = [p \in Procs |-> {}]
    /\ reply' = [c \in Consumers |-> {}]
    /\ gcNow' = 0
    /\ restarts' = restarts + 1
    /\ UNCHANGED <<store, now, issued, bot>>

Tick ==
  /\ now < MaxTime
  /\ now' = now + 1
  /\ UNCHANGED <<memory, store, push, pops, reply, gcNow, issued, restarts, bot, leaked>>

-----------------------------------------------------------------------------
\* What a writer still has to do once its event is in the queue.
FinishPush(w) == InsertRow(w) \/ InsertFails(w) \/ RecordLog(w) \/ UndoInsert(w)

Next ==
  \/ \E w \in Writers : PushEvent(w) \/ PushFull(w) \/ FinishPush(w)
  \/ \E p \in Procs : PopOne(p)
  \/ \E c \in Consumers :
       Poll(c) \/ Confirm(c) \/ Clear(c) \/ Forget(c) \/ Receive(c) \/ LoseReply(c)
  \/ RunGC \/ StoreGC
  \/ Restart \/ Tick

Spec == Init /\ [][Next]_vars

\* A goroutine inside a call goes on: the scheduler runs it and SQLite answers
\* (busy_timeout bounds the wait for its lock).
Fairness ==
  /\ \A w \in Writers : WF_vars(FinishPush(w))
  /\ \A p \in Procs : WF_vars(PopOne(p))
  /\ WF_vars(StoreGC)

FairSpec == Spec /\ Fairness

-----------------------------------------------------------------------------
(* Properties.                                                             *)

\* Every variable has its type; the live ids are ids already assigned, and
\* head is the smallest of them (tqueue.go:76-81).
TypeOK ==
  /\ DOMAIN events \subseteq 1..tail /\ events \in [DOMAIN events -> Event]
  /\ tail \in 0..MaxID
  /\ rows \subseteq Row /\ nextLog \in Nat \ {0}
  /\ push \in [Writers -> Pushing \cup {Idle}]
  /\ pops \in [Procs -> SUBSET LogIds]
  /\ reply \in [Consumers -> SUBSET Reply]
  /\ gcNow \in 0..now /\ now \in Nat /\ issued \in 0..MaxUpdates /\ restarts \in Nat
  /\ ack \in 0..MaxID /\ delivered \subseteq Updates /\ confirmed \subseteq Updates
  /\ leaked \subseteq LogIds

\* head, kept by hand on every path of PushWithData and recomputed on every
\* removal, is the smallest live id, and 0 exactly when the queue is empty.
HeadIsOldest ==
  /\ head = 0 <=> DOMAIN events = {}
  /\ DOMAIN events # {} => head \in DOMAIN events /\ \A i \in DOMAIN events : head <= i

\* Someone answers for the row with log id l: a live event has recorded it, a
\* writer is about to record or undo it, or a goroutine has still to pop it.
Owned(l) ==
  \/ \E i \in DOMAIN events : events[i].log = l
  \/ \E w \in Writers : push[w].pc = "record" /\ push[w].log = l
  \/ \E p \in Procs : l \in pops[p]

\* No row outlives its event: every row of the table is owned, unless a
\* statement failed.  The INSERT and the DELETEs run outside queue.mu and may
\* pass one another (tqueue.go:178-192).
RowsOwned == \A r \in rows : r.log \in leaked \/ Owned(r.log)

\* A recorded, unexpired event is on disk as it is in memory: no pop, undo or
\* store GC of another goroutine ever takes the row of a live event.
LiveEventsDurable ==
  \A i \in DOMAIN events :
    events[i].log # 0 /\ ~Expired(events[i], now) =>
      [log |-> events[i].log, id |-> i, exp |-> events[i].exp, upd |-> events[i].upd] \in rows

\* Two rows never hold the same event id, so Replay loses none of them, unless
\* a failed statement left one behind; ids are reassigned only past them.
RowIdsUnique ==
  \A r, s \in rows :
    r.log \notin leaked /\ s.log \notin leaked /\ r.id = s.id => r = s

\* What the two above rest on.  A writer's event is in the queue as it was
\* pushed and not recorded, if it is there at all, and no two writers have the
\* same id.
PushPending ==
  /\ \A w \in Writers : push[w] # Idle =>
       /\ push[w].id <= tail
       /\ push[w].id \in DOMAIN events =>
            events[push[w].id] = [exp |-> push[w].exp, log |-> 0, upd |-> push[w].upd]
  /\ \A v, w \in Writers : v # w /\ push[v] # Idle /\ push[w] # Idle => push[v].id # push[w].id

\* A log id has one owner: no two of a live event, a writer that is about to
\* record it and a goroutine that is about to pop it.
LogsApart ==
  /\ \A i, j \in DOMAIN events : i # j /\ events[i].log # 0 => events[i].log # events[j].log
  /\ \A i \in DOMAIN events, w \in Writers :
       push[w].pc = "record" => events[i].log # push[w].log
  /\ \A i \in DOMAIN events, p \in Procs : events[i].log \notin pops[p]
  /\ \A v, w \in Writers :
       v # w /\ push[v].pc = "record" /\ push[w].pc = "record" => push[v].log # push[w].log
  /\ \A w \in Writers, p \in Procs : push[w].pc = "record" => push[w].log \notin pops[p]

\* The row a writer has inserted is still there when it comes to record it.
InsertedOnDisk ==
  \A w \in Writers :
    push[w].pc = "record" /\ ~Expired(push[w], now) =>
      [log |-> push[w].log, id |-> push[w].id, exp |-> push[w].exp, upd |-> push[w].upd] \in rows

\* log_id is a primary key, and no row is ahead of the queue.
RowsBehindTail ==
  /\ \A r, s \in rows : r.log = s.log => r = s
  /\ \A r \in rows : r.log \notin leaked => r.id <= tail
  /\ \A w \in Writers, r \in rows :
       push[w].pc = "insert" /\ r.log \notin leaked => r.id # push[w].id

\* The inductive invariant of what memory and disk hold.
StoreInv ==
  /\ TypeOK /\ PushPending /\ LogsApart
  /\ RowsOwned /\ LiveEventsDurable /\ InsertedOnDisk
  /\ RowIdsUnique /\ RowsBehindTail

\* An update that the bot's offset removed was received by the bot: whatever
\* readers, writers, trims and lost answers interleave, no confirmation drops
\* an update nobody saw ("confirms/forgets all earlier events",
\* getupdates.go:32-35).
ConfirmedWasDelivered == confirmed \subseteq delivered

\* The same within one run of the process.
ConfirmedWasDeliveredInRun == restarts = 0 => ConfirmedWasDelivered

\* A confirmed update does not come back while the process runs, neither
\* through the late second critical section of its push nor otherwise.
ConfirmedIsGone ==
  restarts = 0 => \A i \in DOMAIN events : events[i].upd \notin confirmed

\* What the two above rest on, as long as the process runs.  Of the live events
\* up to the bot's acknowledged id the bot has received all but expired ones,
\* and an answer on its way holds the rest of those up to its last id.
SeenUpToAck ==
  /\ ack <= tail
  /\ \A i \in DOMAIN events :
       i <= ack => events[i].upd \in delivered \/ Expired(events[i], now)
AnswersComplete ==
  \A c \in Consumers : \A x \in reply[c] :
    /\ x.id <= tail
    /\ \A i \in DOMAIN events :
         i <= x.id => \/ events[i].upd \in delivered \/ Expired(events[i], now)
                      \/ \E y \in reply[c] : y.upd = events[i].upd

\* Every live event is an update of its own that arrived.
UpdatesDistinct ==
  /\ \A i, j \in DOMAIN events : events[i].upd = events[j].upd => i = j
  /\ \A i \in DOMAIN events : events[i].upd <= issued
  /\ \A u \in confirmed : u <= issued

\* The inductive invariant of what the bot sees.
DeliveryInv ==
  restarts = 0 =>
    /\ SeenUpToAck /\ AnswersComplete /\ ConfirmedWasDelivered
    /\ UpdatesDistinct /\ ConfirmedIsGone

\* While the process runs, an event enters the queue only with an id greater
\* than every id assigned before ("strictly increasing", eventid.go:13).
FreshIds ==
  [][restarts' = restarts =>
       /\ tail' >= tail
       /\ \A i \in DOMAIN events' \ DOMAIN events : i > tail]_vars

\* A row without an event is only temporary: a row whose event is gone is
\* deleted in the end, unless a statement failed or a restart brings it back.
\* ([]<>~P says of a state predicate what P ~> ~P says, at less cost to TLC.)
Lingering(l) ==
  /\ \E r \in rows : r.log = l
  /\ l \notin leaked
  /\ \A i \in DOMAIN events : events[i].log # l
RowsDrain == \A l \in 1..MaxUpdates : []<>~Lingering(l)

=============================================================================
