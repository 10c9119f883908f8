-------------------------- MODULE TQueueRefinement --------------------------
(* TQueue, as long as the process is not restarted, implements UpdateQueue.  *)
EXTENDS TQueue

\* The refinement mapping: ids, rows and pops are hidden.
pending == {events[i].upd : i \in DOMAIN events}
stale   == {events[i].upd : i \in ExpiredIds(events, now)}
answers == [c \in Consumers |-> {x.upd : x \in reply[c]}]

Queue == INSTANCE UpdateQueue
  WITH Readers <- Consumers, arrived <- issued, received <- delivered

\* Ids and numbers of updates run alike, as both grow with every push.
IdsInOrder ==
  \A i, j \in DOMAIN events : i < j => events[i].upd < events[j].upd

\* Whatever goroutines, pops and inserts interleave, the queue keeps what
\* UpdateQueue promises the bot: no answer of getUpdates passes over an update
\* it has not received, no offset removes one, none comes back
\* (getupdates.go:32-35, tqueue.go:198-248).
ImplementsQueue == Queue!Spec
=============================================================================
