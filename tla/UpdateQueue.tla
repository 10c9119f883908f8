---------------------------- MODULE UpdateQueue ----------------------------
(***************************************************************************)
(* What a bot's update queue promises while the process runs, with nothing *)
(* of how it keeps it: no ids, no table, no locks.  Updates are numbered   *)
(* in the order they arrive.  Whatever readers ask and confirm, an answer  *)
(* passes over no update the bot has not received, and an offset removes   *)
(* none.  TQueue implements this specification (module TQueueRefinement).  *)
(***************************************************************************)
EXTENDS Integers

CONSTANT Readers    \* those that take updates on behalf of the bot

VARIABLES
  arrived,    \* the number of updates so far
  pending,    \* those in the queue
  stale,      \* those of them that are past their time
  answers,    \* what each reader has taken and is about to answer with
  received,   \* those the bot has received
  confirmed   \* those the bot's offset has removed before their time was over

vars == <<arrived, pending, stale, answers, received, confirmed>>

Init ==
  /\ arrived = 0
  /\ pending = {} /\ stale = {}
  /\ answers = [c \in Readers |-> {}]
  /\ received = {} /\ confirmed = {}

\* S are the oldest of the updates Q.
Oldest(S, Q) == S \subseteq Q /\ \A u \in S, v \in Q : v < u => v \in S

\* What is left of the queue is Q.
Leaves(Q) == pending' = Q /\ stale' = stale \cap Q

\* An update arrives; the cap may drop the oldest ones.
Arrive ==
  /\ arrived' = arrived + 1
  /\ \E trimmed \in SUBSET (pending \cup {arrived + 1}) :
       /\ Oldest(trimmed, pending \cup {arrived + 1})
       /\ Leaves((pending \cup {arrived + 1}) \ trimmed)
  /\ UNCHANGED <<answers, received, confirmed>>

\* An update arrives and finds no room, for good: the ids are used up.
Reject ==
  /\ arrived' = arrived + 1
  /\ UNCHANGED <<pending, stale, answers, received, confirmed>>

\* A reader removes what the bot confirms, all of it received or stale, and
\* takes a page: no update in time that the bot has not received comes before
\* the last of the page without being in it.
Take(c) ==
  /\ answers[c] = {}
  /\ \E gone \in SUBSET pending :
       /\ Oldest(gone, pending)
       /\ gone \subseteq received \cup stale
       /\ Leaves(pending \ gone)
       /\ confirmed' = confirmed \cup (gone \ stale)
       /\ \E page \in SUBSET (pending \ (gone \cup stale)) :
            /\ \A u \in page, v \in pending \ (gone \cup stale) :
                 v < u => v \in page \cup received
            /\ answers' = [answers EXCEPT ![c] = page]
  /\ UNCHANGED <<arrived, received>>

\* The answer reaches the bot, or does not.
Receive(c) ==
  /\ received' = received \cup answers[c]
  /\ answers' = [answers EXCEPT ![c] = {}]
  /\ UNCHANGED <<arrived, pending, stale, confirmed>>

Lose(c) ==
  /\ answers' = [answers EXCEPT ![c] = {}]
  /\ UNCHANGED <<arrived, pending, stale, received, confirmed>>

\* The oldest updates are dropped as the bot asks, one is as its webhook has
\* taken it, stale ones are at any time.
Drop ==
  /\ \E gone \in SUBSET pending :
       /\ Leaves(pending \ gone)
       /\ \/ Oldest(gone, pending)
          \/ \E u \in pending : gone = {u}
          \/ gone \subseteq stale
  /\ UNCHANGED <<arrived, answers, received, confirmed>>

Expire ==
  /\ stale \subseteq stale' /\ stale' \subseteq pending
  /\ UNCHANGED <<arrived, pending, answers, received, confirmed>>

Next ==
  \/ Arrive \/ Reject \/ Drop \/ Expire
  \/ \E c \in Readers : Take(c) \/ Receive(c) \/ Lose(c)

Spec == Init /\ [][Next]_vars
=============================================================================
