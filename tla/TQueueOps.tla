----------------------------- MODULE TQueueOps -----------------------------
(***************************************************************************)
(* The pure part of internal/tqueue/tqueue.go: what the helpers that run   *)
(* under queue.mu compute from the map of live events.                     *)
(*                                                                         *)
(* The Go map events map[EventID]*RawEvent is a function whose domain is   *)
(* the set of live ids.  An event is a record with at least a field exp    *)
(* (ExpiresAt, 0 = never) and a field log (LogID, 0 = not persisted).      *)
(***************************************************************************)
EXTENDS Integers, FiniteSets, Functions

\* The smallest, and the largest, number of a non-empty set.
Least(S)    == CHOOSE i \in S : \A j \in S : i <= j
Greatest(S) == CHOOSE i \in S : \A j \in S : j <= i

\* The n smallest, and the n largest, members of a set of numbers.
Lowest(S, n)  == {i \in S : Cardinality({j \in S : j < i}) < n}
Highest(S, n) == {i \in S : Cardinality({j \in S : j > i}) < n}

\* recomputeHead: the smallest live id, 0 when the queue is empty.
HeadOf(evs) == IF DOMAIN evs = {} THEN 0 ELSE Least(DOMAIN evs)

\* The map with one more entry.
Put(evs, id, ev) ==
  [i \in DOMAIN evs \cup {id} |-> IF i = id THEN ev ELSE evs[i]]

\* The map without the ids of a set.
Without(evs, S) == Restrict(evs, DOMAIN evs \ S)

\* The storage log ids a removal leaves to be popped: those not 0.
LogsOf(evs, S) == {evs[i].log : i \in S} \ {0}

\* An event past its time: readers skip it, the garbage collector removes it.
Expired(ev, t) == ev.exp # 0 /\ ev.exp < t
ExpiredIds(evs, t) == {i \in DOMAIN evs : Expired(evs[i], t)}

\* Mutant: the last events instead of the first.
MatchingLast(evs, from, t, limit) ==
  Highest({i \in DOMAIN evs \ ExpiredIds(evs, t) : i > from}, limit)

\* getLocked: the ids of up to limit unexpired events strictly after from.
Matching(evs, from, t, limit) ==
  Lowest({i \in DOMAIN evs \ ExpiredIds(evs, t) : i > from}, limit)

\* getLocked: ids, sorted.
InOrder(ids) ==
  CHOOSE s \in [1..Cardinality(ids) -> ids] :
    \A m, n \in 1..Cardinality(ids) : m < n => s[m] < s[n]

\* Mutant: confirms one event too many.
UpToNext(evs, from) == {i \in DOMAIN evs : i <= from + 1}

\* forgetUpToLocked removes these ids ...
UpTo(evs, from) == {i \in DOMAIN evs : i <= from}

\* ... and Clear(keepCount), like trimOldestLocked(len - keepCount), these:
\* all but the last keepCount.
AllButLast(evs, keepCount) == DOMAIN evs \ Highest(DOMAIN evs, keepCount)

=============================================================================
