---------------------------- MODULE ServerProofs ----------------------------
(***************************************************************************)
(* The process for every number of bots, requests and clients: a bot has   *)
(* one connection, a shutdown that saw the requests end and reports no     *)
(* error has ended every delivery and told every connection to stop, and   *)
(* the collector runs on an open store.                                    *)
(*                                                                         *)
(* A step belongs to the manager, to one client, or to the process, and    *)
(* each of the three leaves the others' conjuncts of ServerInv alone.      *)
(***************************************************************************)
EXTENDS Server, FiniteSetTheorems, TLAPS

USE ServerAssumption
USE DEF Clients, Methods, Routing, Connecting, Serving

\* The request of r goes on to state new.
Moves(r, new) == new \in RequestStates /\ req' = [req EXCEPT ![r] = new]

\* What new keeps of the request.
Keeps(r, new) ==
  new.bot = req[r].bot /\ new.client = req[r].client /\ new.todo = req[r].todo

\* A request that has its client, and a place without one.
Routed(pc) == pc \notin {"idle"} \cup Routing

LEMMA IdleState == /\ Idle \in RequestStates
                   /\ Idle.pc = "idle" /\ Idle.client = 0 /\ Idle.todo = {} /\ Idle.bot = None
BY DEF Idle, RequestStates, Places

\* What is known of a request.
LEMMA Known ==
  ASSUME TypeOK, NEW r \in Reqs
  PROVE  /\ req[r] \in RequestStates /\ req[r].client \in 0..made /\ req[r].todo \subseteq 1..made
         /\ req[r].pc \in Places /\ req[r].bot \in Bots \cup {None}
BY DEF TypeOK, RequestStates

LEMMA Moved ==
  ASSUME TypeOK, NEW r \in Reqs, NEW new, Moves(r, new)
  PROVE  /\ req' \in [Reqs -> RequestStates] /\ req'[r] = new
         /\ \A q \in Reqs : q # r => req'[q] = req[q]
BY DEF TypeOK, Moves

-----------------------------------------------------------------------------
(* The number of clients made.                                             *)

RoutingReqs == {r \in Reqs : req[r].pc \in Routing}

LEMMA RoutingFinite ==
  ASSUME NEW S \in SUBSET Reqs
  PROVE  IsFiniteSet(S) /\ Cardinality(S) \in Nat
BY FS_Subset, FS_CardinalityType

\* A step of r keeps the count if it makes no client out of nothing.
LEMMA CountKept ==
  ASSUME TypeOK, MadeByCalls, NEW r \in Reqs, NEW new, Moves(r, new),
         \/ made' = made /\ calls' = calls /\ (new.pc \in Routing => req[r].pc \in Routing)
         \/ made' = made + 1 /\ calls' = calls /\ req[r].pc \in Routing /\ new.pc \notin Routing
         \/ made' = made /\ calls' = calls + 1
  PROVE  MadeByCalls'
<1> DEFINE before == RoutingReqs
           after == {q \in Reqs : req'[q].pc \in Routing}
<1>1. IsFiniteSet(before) /\ Cardinality(before) \in Nat /\ Cardinality(after) \in Nat
  BY RoutingFinite DEF RoutingReqs
<1>2. after \subseteq before \cup {r}
  BY Moved DEF RoutingReqs
<1>3. made + Cardinality(before) <= calls /\ made \in Nat /\ calls \in Nat
  BY DEF TypeOK, MadeByCalls, RoutingReqs
<1>4. Cardinality(after) <= Cardinality(before) + 1
  <2>1. /\ IsFiniteSet(before \cup {r})
        /\ Cardinality(before \cup {r}) =
             IF r \in before THEN Cardinality(before) ELSE Cardinality(before) + 1
    BY <1>1, FS_AddElement
  <2>2. Cardinality(after) <= Cardinality(before \cup {r})
    BY <1>2, <2>1, FS_Subset
  <2> QED
    BY <1>1, <2>1, <2>2
<1>5. ASSUME new.pc \in Routing => req[r].pc \in Routing
      PROVE  Cardinality(after) <= Cardinality(before)
  <2>1. after \subseteq before
    BY <1>5, Moved DEF RoutingReqs
  <2> QED
    BY <1>1, <2>1, FS_Subset
<1>6. ASSUME req[r].pc \in Routing, new.pc \notin Routing
      PROVE  Cardinality(after) = Cardinality(before) - 1
  <2>1. after = before \ {r} /\ r \in before
    BY <1>6, Moved DEF RoutingReqs
  <2>2. Cardinality(before \ {r}) = Cardinality(before) - 1
    BY <1>1, <2>1, FS_RemoveElement
  <2> QED
    BY <2>1, <2>2
<1> HIDE DEF before, after
<1>7. made' + Cardinality(after) <= calls'
  <2>1. CASE made' = made /\ calls' = calls /\ (new.pc \in Routing => req[r].pc \in Routing)
    BY <1>1, <1>3, <1>5, <2>1
  <2>2. CASE made' = made + 1 /\ calls' = calls /\ req[r].pc \in Routing /\ new.pc \notin Routing
    BY <1>1, <1>3, <1>6, <2>2
  <2>3. CASE made' = made /\ calls' = calls + 1
    BY <1>1, <1>3, <1>4, <2>3
  <2> QED
    BY <2>1, <2>2, <2>3
<1> QED
  BY <1>7 DEF MadeByCalls, after

\* No more clients are made than there are calls.
LEMMA MadeBounded ==
  ASSUME MadeByCalls', made' \in Nat, calls' \in 0..MaxCalls
  PROVE  made' \in 0..MaxCalls
<1> DEFINE after == {q \in Reqs : req'[q].pc \in Routing}
<1>1. Cardinality(after) \in Nat
  BY RoutingFinite
<1>2. made' + Cardinality(after) <= calls'
  BY DEF MadeByCalls
<1> HIDE DEF after
<1> QED
  BY <1>1, <1>2

\* While a request is being routed there is room for one more.
LEMMA Room ==
  ASSUME TypeOK, MadeByCalls, NEW r \in Reqs, req[r].pc \in Routing
  PROVE  made + 1 \in 1..MaxCalls
<1>1. IsFiniteSet(RoutingReqs) /\ Cardinality(RoutingReqs) \in Nat /\ r \in RoutingReqs
  BY RoutingFinite DEF RoutingReqs
<1>2. Cardinality(RoutingReqs) # 0
  BY <1>1, FS_EmptySet
<1> QED
  BY <1>1, <1>2 DEF MadeByCalls, RoutingReqs, TypeOK

-----------------------------------------------------------------------------
(* Steps of the manager.                                                   *)

\* What a step of the manager that moves r to new leaves as it was.
LEMMA ManagerStep ==
  ASSUME ServerInv, NEW r \in Reqs, NEW new, Moves(r, new),
         UNCHANGED <<client, disk, down>>,
         req[r].pc \notin Connecting \cup Serving, new.pc \notin Connecting \cup Serving,
         req[r].pc # "idle" \/ down.pc = "up",
         made' \in {made, made + 1}, MadeByCalls', calls' \in 0..MaxCalls,
         new.client \in 0..made', new.todo \subseteq 1..made',
         table' \in [Bots -> 1..made' \cup {None}], mmu' \in Reqs \cup {None},
         RequestsKnow', Evicting', OnlyFailedLeave'
  PROVE  ServerInv'
<1>1. TypeOK
  BY DEF ServerInv
<1>2. TypeOK'
  <2>1. made' \in 0..MaxCalls /\ 1..made \subseteq 1..made' /\ made <= made' /\ made \in Nat
    <3>1. made \in Nat /\ made' \in Nat
      BY <1>1 DEF TypeOK
    <3>2. made' \in 0..MaxCalls
      BY <3>1, MadeBounded
    <3> QED
      BY <3>1, <3>2
  <2>2. \A q \in Reqs : req'[q].client \in 0..made' /\ req'[q].todo \subseteq 1..made'
    BY <1>1, <2>1, Moved, Known
  <2>3. cmu' \in [Clients -> Reqs \cup {None}]
    BY <1>1 DEF client, TypeOK
  <2>4. /\ ready' \subseteq 1..made' /\ failed' \subseteq ready' /\ live' \subseteq ready'
        /\ closing' \subseteq ready' /\ leaving' \subseteq ready' /\ hook' \subseteq ready'
        /\ stopping' \subseteq live'
    BY <1>1, <2>1 DEF client, TypeOK
  <2>5. gc' \in {"rest", "work", "over"} /\ store' \in {"open", "closed"} /\ down' \in Shutdowns
    BY <1>1 DEF disk, TypeOK
  <2> QED
    BY <1>1, <2>1, <2>2, <2>3, <2>4, <2>5, Moved DEF TypeOK
<1>3. MutexesKept'
  <2>1. cmu' = cmu /\ MutexesKept
    BY DEF ServerInv, client
  <2>2. \A q \in Reqs : req'[q].pc \in Connecting => req'[q] = req[q]
    BY <1>1, Moved
  <2>3. \A q \in Reqs : req[q].pc \in Connecting => req'[q] = req[q]
    BY <1>1, Moved
  <2>4. \A c \in Clients : cmu[c] # None => cmu[c] \in Reqs
    BY <1>1 DEF TypeOK
  <2> QED
    BY <2>1, <2>2, <2>3, <2>4 DEF MutexesKept
<1>4. ConnectingIsBare' /\ ServingConnected' /\ FailedIsBare'
  BY <1>1, Moved DEF ServerInv, ConnectingIsBare, ServingConnected, FailedIsBare, client
<1>5. Stopping' /\ ClosedAfterGC'
  BY <1>1, Moved DEF ServerInv, Stopping, ClosedAfterGC, client, disk
<1> QED
  BY <1>2, <1>3, <1>4, <1>5 DEF ServerInv

LEMMA ArriveStep ==
  ASSUME ServerInv, NEW r \in Reqs, Arrive(r)
  PROVE  ServerInv'
<1>1. PICK b \in Bots : req' = [req EXCEPT ![r] = [Idle EXCEPT !.pc = "route", !.bot = b]]
  BY DEF Arrive
<1>2. PICK new : new = [Idle EXCEPT !.pc = "route", !.bot = b]
  OBVIOUS
<1>3. new.pc = "route" /\ new.bot = b /\ new.client = 0 /\ new.todo = {}
  BY <1>2 DEF Idle
<1>4. Moves(r, new)
  <2>1. new = [pc |-> "route", bot |-> b, client |-> 0, todo |-> {}]
    BY <1>2 DEF Idle
  <2>2. 0 \in 0..MaxCalls /\ {} \in SUBSET Clients /\ "route" \in Places
    BY DEF Places
  <2> QED
    BY <1>1, <1>2, <2>1, <2>2 DEF Moves, RequestStates
<1>5. TypeOK /\ UNCHANGED <<manager, client, disk, down>> /\ req[r].pc = "idle" /\ down.pc = "up"
  BY IdleState DEF Arrive, ServerInv
<1>6. calls' = calls + 1 /\ calls' \in 0..MaxCalls
  BY <1>5 DEF Arrive, TypeOK
<1>7. MadeByCalls'
  BY <1>4, <1>5, <1>6, CountKept DEF ServerInv, manager
<1>8. RequestsKnow' /\ Evicting' /\ OnlyFailedLeave'
  BY <1>3, <1>4, <1>5, Moved
    DEF ServerInv, RequestsKnow, Evicting, OnlyFailedLeave, Registered, manager, client
<1>9. made' = made /\ made \in Nat /\ table' \in [Bots -> 1..made' \cup {None}]
      /\ mmu' \in Reqs \cup {None}
  BY <1>5 DEF manager, TypeOK
<1> QED
  BY <1>3, <1>4, <1>5, <1>6, <1>7, <1>8, <1>9, ManagerStep

\* The bot of r, which has none, gets a new client.
LEMMA JoinStep ==
  ASSUME ServerInv, NEW r \in Reqs, Register(r), table[req[r].bot] = None,
         req[r].pc \in Routing, UNCHANGED <<client, disk, calls, down>>,
         mmu' \in Reqs \cup {None},
         \A q \in Reqs : q # r => req[q].pc # "evict"
  PROVE  ServerInv'
<1>1. /\ TypeOK /\ made \in Nat /\ made + 1 \in Clients /\ req[r] \in RequestStates
      /\ req[r].bot \in Bots
  <2>1. TypeOK /\ MadeByCalls /\ req[r].pc # "idle" /\ RequestsKnow
    BY DEF ServerInv
  <2>2. made \in Nat
    BY <2>1 DEF TypeOK
  <2> QED
    BY <2>1, <2>2, Known, Room DEF RequestsKnow
<1>2. PICK new : new = [req[r] EXCEPT !.pc = "dispatch", !.client = made + 1, !.todo = {}]
  OBVIOUS
<1>3. new.pc = "dispatch" /\ new.bot = req[r].bot /\ new.client = made + 1 /\ new.todo = {}
  BY <1>1, <1>2 DEF RequestStates
<1>4. Moves(r, new)
  <2>1. new = [pc |-> "dispatch", bot |-> req[r].bot, client |-> made + 1, todo |-> {}]
    BY <1>1, <1>2 DEF RequestStates
  <2>2. made + 1 \in 0..MaxCalls /\ {} \in SUBSET Clients /\ "dispatch" \in Places
    BY <1>1 DEF Places
  <2>3. new \in RequestStates
    BY <1>1, <2>1, <2>2 DEF RequestStates
  <2>4. req' = [req EXCEPT ![r] = new]
    BY <1>1, <1>2 DEF Register, TypeOK
  <2> QED
    BY <2>3, <2>4 DEF Moves
<1>5. made' = made + 1 /\ table' = [table EXCEPT ![req[r].bot] = made + 1]
  BY DEF Register
<1>6. MadeByCalls'
  BY <1>1, <1>3, <1>4, <1>5, CountKept DEF ServerInv
<1>7. table' \in [Bots -> 1..made' \cup {None}]
  BY <1>1, <1>5 DEF TypeOK
<1>8. RequestsKnow' /\ Evicting'
  BY <1>1, <1>3, <1>4, <1>5, Moved, Known DEF ServerInv, RequestsKnow, Evicting
<1>9. OnlyFailedLeave'
  <2>1. made + 1 \in Registered'
    BY <1>1, <1>5 DEF TypeOK, Registered
  <2>2. Registered \subseteq Registered'
    BY <1>1, <1>5 DEF TypeOK, Registered
  <2> QED
    BY <1>1, <1>5, <2>1, <2>2 DEF ServerInv, OnlyFailedLeave, client
<1>10. new.client \in 0..made' /\ new.todo \subseteq 1..made' /\ calls' \in 0..MaxCalls
  BY <1>1, <1>3, <1>5 DEF TypeOK
<1> QED
  BY <1>1, <1>3, <1>4, <1>5, <1>6, <1>7, <1>8, <1>9, <1>10, ManagerStep

LEMMA RouteStep ==
  ASSUME ServerInv, NEW r \in Reqs, Route(r)
  PROVE  ServerInv'
<1>1. TypeOK /\ req[r] \in RequestStates /\ req[r].pc = "route" /\ mmu = None /\ req[r].bot \in Bots
  BY Known DEF ServerInv, Route, RequestsKnow
<1>2. UNCHANGED <<mmu, client, disk, calls, down>>
  BY DEF Route
<1>3. CASE table[req[r].bot] = None /\ Register(r)
  <2>1. \A q \in Reqs : req[q].pc # "evict"
    BY <1>1 DEF ServerInv, Evicting
  <2> QED
    BY <1>1, <1>2, <1>3, <2>1, JoinStep
<1>4. CASE /\ table[req[r].bot] # None /\ UNCHANGED <<table, made>>
           /\ req' = [req EXCEPT ![r].pc = "dispatch", ![r].client = table[req[r].bot]]
  <2>1. PICK new : new = [req[r] EXCEPT !.pc = "dispatch", !.client = table[req[r].bot]]
    OBVIOUS
  <2>2. table[req[r].bot] \in 1..made /\ made \in 0..MaxCalls
    BY <1>1, <1>4 DEF TypeOK
  <2>3. /\ new.pc = "dispatch" /\ new.bot = req[r].bot /\ new.client = table[req[r].bot]
        /\ new.todo = req[r].todo
    BY <1>1, <2>1 DEF RequestStates
  <2>4. Moves(r, new)
    <3>1. table[req[r].bot] \in 0..MaxCalls /\ "dispatch" \in Places
      BY <2>2 DEF Places
    <3>2. new \in RequestStates
      BY <1>1, <2>1, <3>1 DEF RequestStates
    <3>3. req' = [req EXCEPT ![r] = new]
      BY <1>1, <1>4, <2>1 DEF TypeOK
    <3> QED
      BY <3>2, <3>3 DEF Moves
  <2>5. MadeByCalls'
    BY <1>1, <1>2, <1>4, <2>3, <2>4, CountKept DEF ServerInv
  <2>6. RequestsKnow' /\ Evicting' /\ OnlyFailedLeave'
    BY <1>1, <1>2, <1>4, <2>2, <2>3, <2>4, Moved
      DEF ServerInv, RequestsKnow, Evicting, OnlyFailedLeave, Registered, client
  <2>7. /\ new.client \in 0..made' /\ new.todo \subseteq 1..made' /\ calls' \in 0..MaxCalls
        /\ made' = made /\ table' \in [Bots -> 1..made' \cup {None}] /\ mmu' \in Reqs \cup {None}
    BY <1>1, <1>2, <1>4, <2>2, <2>3, Known DEF TypeOK
  <2> QED
    BY <1>1, <1>2, <2>3, <2>4, <2>5, <2>6, <2>7, ManagerStep
<1> QED
  BY <1>3, <1>4 DEF Route

LEMMA RouteFullStep ==
  ASSUME ServerInv, NEW r \in Reqs, RouteFull(r)
  PROVE  ServerInv'
<1>1. /\ TypeOK /\ req[r] \in RequestStates /\ req[r].pc = "route" /\ req[r].bot \in Bots
      /\ mmu = None /\ table[req[r].bot] = None
  BY Known DEF ServerInv, RouteFull, RequestsKnow
<1>2. PICK new : new = [req[r] EXCEPT !.pc = "evict", !.todo = Registered]
  OBVIOUS
<1>3. Registered \subseteq 1..made /\ Registered \subseteq Clients
  BY <1>1 DEF TypeOK, Registered
<1>4. /\ new.pc = "evict" /\ new.bot = req[r].bot /\ new.client = req[r].client
      /\ new.todo = Registered
  BY <1>1, <1>2 DEF RequestStates
<1>5. Moves(r, new)
  <2>1. new \in RequestStates
    BY <1>1, <1>2, <1>3 DEF RequestStates, Places
  <2>2. req' = [req EXCEPT ![r] = new]
    BY <1>1, <1>2 DEF RouteFull, TypeOK
  <2> QED
    BY <2>1, <2>2 DEF Moves
<1>6. UNCHANGED <<table, made, client, disk, calls, down>> /\ mmu' = r
  BY DEF RouteFull
<1>7. MadeByCalls'
  BY <1>1, <1>4, <1>5, <1>6, CountKept DEF ServerInv
<1>8. RequestsKnow' /\ Evicting' /\ OnlyFailedLeave'
  BY <1>1, <1>4, <1>5, <1>6, Moved
    DEF ServerInv, RequestsKnow, Evicting, OnlyFailedLeave, Registered, client
<1>9. /\ new.client \in 0..made' /\ new.todo \subseteq 1..made' /\ calls' \in 0..MaxCalls
      /\ made' = made /\ table' \in [Bots -> 1..made' \cup {None}] /\ mmu' \in Reqs \cup {None}
  BY <1>1, <1>3, <1>4, <1>6, Known DEF TypeOK
<1> QED
  BY <1>1, <1>4, <1>5, <1>6, <1>7, <1>8, <1>9, ManagerStep

\* Only a client that failed leaves the table.
LEMMA AskOneStep ==
  ASSUME ServerInv, NEW r \in Reqs, AskOne(r)
  PROVE  ServerInv'
<1>1. /\ TypeOK /\ req[r] \in RequestStates /\ req[r].pc = "evict" /\ req[r].bot \in Bots
      /\ mmu = r /\ table[req[r].bot] = None
  BY Known DEF ServerInv, AskOne, RequestsKnow, Evicting
<1>2. PICK c \in req[r].todo :
        /\ table' = [b \in Bots |-> IF table[b] = c /\ Evictable(c) THEN None ELSE table[b]]
        /\ req' = [req EXCEPT ![r].todo = @ \ {c}]
  BY DEF AskOne
<1>3. PICK new : new = [req[r] EXCEPT !.todo = @ \ {c}]
  OBVIOUS
<1>4. /\ new.pc = "evict" /\ new.bot = req[r].bot /\ new.client = req[r].client
      /\ new.todo = req[r].todo \ {c}
  BY <1>1, <1>3 DEF RequestStates
<1>5. Moves(r, new)
  <2>1. new \in RequestStates
    BY <1>1, <1>3 DEF RequestStates
  <2>2. req' = [req EXCEPT ![r] = new]
    BY <1>1, <1>2, <1>3 DEF TypeOK
  <2> QED
    BY <2>1, <2>2 DEF Moves
<1>6. UNCHANGED <<made, mmu, client, disk, calls, down>>
  BY DEF AskOne
<1>7. MadeByCalls'
  BY <1>1, <1>4, <1>5, <1>6, CountKept DEF ServerInv
<1>8. RequestsKnow'
  BY <1>1, <1>4, <1>5, <1>6, Moved DEF ServerInv, RequestsKnow
<1>9. Evicting'
  BY <1>1, <1>2, <1>4, <1>5, <1>6, Moved DEF ServerInv, RequestsKnow, Evicting
<1>10. OnlyFailedLeave'
  <2>1. Registered \subseteq Registered' \cup failed
    BY <1>2 DEF Registered, Evictable
  <2> QED
    BY <1>6, <2>1 DEF ServerInv, OnlyFailedLeave, client
<1>11. /\ new.client \in 0..made' /\ new.todo \subseteq 1..made' /\ calls' \in 0..MaxCalls
       /\ made' = made /\ table' \in [Bots -> 1..made' \cup {None}] /\ mmu' \in Reqs \cup {None}
  BY <1>1, <1>2, <1>4, <1>6, Known DEF TypeOK
<1> QED
  BY <1>1, <1>4, <1>5, <1>6, <1>7, <1>8, <1>9, <1>10, <1>11, ManagerStep

LEMMA EvictDoneStep ==
  ASSUME ServerInv, NEW r \in Reqs, EvictDone(r)
  PROVE  ServerInv'
<1>1. /\ TypeOK /\ req[r].pc = "evict" /\ mmu = r /\ table[req[r].bot] = None
      /\ \A q \in Reqs : q # r => req[q].pc # "evict"
  BY DEF ServerInv, EvictDone, Evicting
<1>2. UNCHANGED <<client, disk, calls, down>> /\ mmu' = None
  BY DEF EvictDone
<1>3. CASE Register(r)
  BY <1>1, <1>2, <1>3, JoinStep
<1>4. CASE Answer(r) /\ UNCHANGED <<table, made>>
  <2>1. Moves(r, Idle)
    BY <1>4, IdleState DEF Answer, Moves
  <2>2. MadeByCalls'
    BY <1>1, <1>2, <1>4, <2>1, IdleState, CountKept DEF ServerInv
  <2>3. RequestsKnow' /\ Evicting' /\ OnlyFailedLeave'
    BY <1>1, <1>2, <1>4, <2>1, IdleState, Moved
      DEF ServerInv, RequestsKnow, Evicting, OnlyFailedLeave, Registered, client
  <2>4. /\ Idle.client \in 0..made' /\ Idle.todo \subseteq 1..made' /\ calls' \in 0..MaxCalls
        /\ made' = made /\ table' \in [Bots -> 1..made' \cup {None}] /\ mmu' \in Reqs \cup {None}
    BY <1>1, <1>2, <1>4, IdleState DEF TypeOK
  <2> QED
    BY <1>1, <1>2, <2>1, <2>2, <2>3, <2>4, IdleState, ManagerStep
<1> QED
  BY <1>3, <1>4 DEF EvictDone

-----------------------------------------------------------------------------
(* Steps of a client.                                                      *)

\* What a step of the client of r leaves as it was.
LEMMA ClientStep ==
  ASSUME ServerInv, NEW r \in Reqs, NEW new, Moves(r, new),
         UNCHANGED <<manager, disk, calls, down>>,
         Routed(req[r].pc), new = Idle \/ (Keeps(r, new) /\ Routed(new.pc)),
         cmu' \in [Clients -> Reqs \cup {None}], failed \subseteq failed',
         ready' \subseteq 1..made, failed' \subseteq ready', live' \subseteq ready',
         stopping' \subseteq live', closing' \subseteq ready', leaving' \subseteq ready',
         hook' \subseteq ready',
         MutexesKept', ConnectingIsBare', ServingConnected', FailedIsBare'
  PROVE  ServerInv'
<1>1. TypeOK /\ req[r].client \in 0..made /\ req[r].todo \subseteq 1..made
  BY Known DEF ServerInv
<1>2. MadeByCalls'
  BY <1>1, IdleState, CountKept DEF ServerInv, manager, Routed
<1>3. new.client \in 0..made /\ new.todo \subseteq 1..made
  BY <1>1, IdleState DEF Keeps, TypeOK
<1>4. TypeOK'
  BY <1>1, <1>3, Moved DEF TypeOK, manager, disk
<1>5. RequestsKnow' /\ Evicting' /\ OnlyFailedLeave'
  BY <1>1, Moved, IdleState
    DEF ServerInv, RequestsKnow, Evicting, OnlyFailedLeave, Registered, manager, Keeps, Routed
<1>6. Stopping' /\ ClosedAfterGC'
  <2>1. ~down.drained
    BY DEF ServerInv, Stopping, Routed
  <2> QED
    BY <2>1 DEF ServerInv, Stopping, ClosedAfterGC, disk
<1> QED
  BY <1>2, <1>4, <1>5, <1>6 DEF ServerInv

\* r's client is connected: no request is connecting it.
Connected(r) ==
  /\ req[r].client \in ready \ failed
  /\ \A q \in Reqs : req[q].pc = "connecting" => req[q].client # req[r].client

LEMMA ServingIsConnected ==
  ASSUME ServerInv, NEW r \in Reqs, req[r].pc \in Serving
  PROVE  Connected(r)
BY DEF ServerInv, ConnectingIsBare, ServingConnected, Connected

\* A step of r under no mutex: it ends, or goes on to connect or to a handler.
LEMMA HandlerStep ==
  ASSUME ServerInv, NEW r \in Reqs, NEW new, Moves(r, new),
         UNCHANGED <<manager, disk, calls, down, cmu, ready, failed>>,
         req[r].pc \in Serving \cup {"dispatch", "connect"},
         new = Idle \/ (Keeps(r, new) /\ new.pc \in Serving \cup {"connect"}),
         new.pc \in Serving => Connected(r),
         live' = live, stopping' \subseteq live, hook' \subseteq hook \cup {req[r].client},
         hook' \subseteq hook \/ Connected(r),
         closing' \subseteq ready, leaving' \subseteq ready
  PROVE  ServerInv'
<1>1. TypeOK /\ ConnectingIsBare /\ ServingConnected /\ FailedIsBare /\ MutexesKept
  BY DEF ServerInv
<1>2. \A q \in Reqs : req'[q].pc \in Connecting \/ req[q].pc \in Connecting => req'[q] = req[q]
  BY <1>1, Moved, IdleState
<1>3. hook' \subseteq ready /\ failed \cap hook' = {}
  BY <1>1 DEF Connected, FailedIsBare, TypeOK
<1>4. MutexesKept'
  BY <1>1, <1>2 DEF MutexesKept, TypeOK
<1>5. \A q \in Reqs : req'[q].pc \in Serving =>
        /\ req'[q].client \in ready \ failed
        /\ \A p \in Reqs : req[p].pc = "connecting" => req[p].client # req'[q].client
  BY <1>1, Moved, IdleState DEF Connected, Keeps, ServingConnected, ConnectingIsBare
<1>6. ConnectingIsBare'
  <2> SUFFICES ASSUME NEW p \in Reqs, req'[p].pc = "connecting"
               PROVE  /\ req'[p].client \in ready' \ (failed' \cup live' \cup hook')
                      /\ \A q \in Reqs : req'[q].pc \in Serving => req'[q].client # req'[p].client
    BY DEF ConnectingIsBare
  <2>1. req'[p] = req[p]
    BY <1>2
  <2>2. req[p].client \notin hook'
    BY <1>1, <2>1 DEF ConnectingIsBare, Connected
  <2> QED
    BY <1>1, <1>5, <2>1, <2>2 DEF ConnectingIsBare
<1>7. ServingConnected'
  BY <1>1, <1>2, <1>5 DEF ServingConnected
<1>8. FailedIsBare'
  BY <1>1, <1>3 DEF FailedIsBare
<1>9. /\ cmu' \in [Clients -> Reqs \cup {None}] /\ ready' \subseteq 1..made
      /\ failed \subseteq failed' /\ failed' \subseteq ready' /\ live' \subseteq ready'
      /\ stopping' \subseteq live'
  BY <1>1 DEF TypeOK
<1>10. Routed(req[r].pc) /\ (new = Idle \/ (Keeps(r, new) /\ Routed(new.pc)))
  BY DEF Routed
<1> QED
  BY <1>3, <1>4, <1>6, <1>7, <1>8, <1>9, <1>10, ClientStep

\* r is answered.
LEMMA Answered ==
  ASSUME NEW r, Answer(r)
  PROVE  Moves(r, Idle) /\ Idle.pc \notin Serving
BY IdleState DEF Answer, Moves

\* r goes to another place.
LEMMA Goes ==
  ASSUME TypeOK, NEW r \in Reqs, NEW pc \in Places, At(r, pc)
  PROVE  \E new : Moves(r, new) /\ Keeps(r, new) /\ new.pc = pc
<1>1. PICK new : new = [req[r] EXCEPT !.pc = pc]
  OBVIOUS
<1>2. req[r] \in RequestStates
  BY Known
<1>3. new \in RequestStates /\ Keeps(r, new) /\ new.pc = pc
  BY <1>1, <1>2 DEF RequestStates, Keeps
<1>4. req' = [req EXCEPT ![r] = new]
  BY <1>1 DEF At, TypeOK
<1> QED
  BY <1>3, <1>4 DEF Moves

LEMMA DispatchStep ==
  ASSUME ServerInv, NEW r \in Reqs, Dispatch(r)
  PROVE  ServerInv'
<1>1. /\ TypeOK /\ req[r].pc = "dispatch" /\ UNCHANGED <<manager, client, disk, calls, down>>
      /\ closing \subseteq ready /\ leaving \subseteq ready /\ stopping \subseteq live
  BY DEF ServerInv, Dispatch, TypeOK
<1>2. CASE Answer(r)
  BY <1>1, <1>2, Answered, HandlerStep DEF client
<1>3. CASE At(r, "connect")
  <2>1. PICK new : Moves(r, new) /\ Keeps(r, new) /\ new.pc = "connect"
    BY <1>1, <1>3, Goes DEF Places
  <2> QED
    BY <1>1, <2>1, HandlerStep DEF client
<1> QED
  BY <1>2, <1>3 DEF Dispatch

LEMMA EndStep ==
  ASSUME ServerInv, NEW r \in Reqs, HandleCall(r) \/ HandleLogout(r) \/ HandleClosed(r)
  PROVE  ServerInv'
<1>1. /\ req[r].pc \in Serving /\ Answer(r)
      /\ UNCHANGED <<manager, disk, calls, down, cmu, ready, failed, live, stopping, hook>>
      /\ stopping \subseteq live
  BY DEF HandleCall, HandleLogout, HandleClosed, client, ServerInv, TypeOK
<1>2. closing' \subseteq ready /\ leaving' \subseteq ready
  <2>1. req[r].client \in ready
    BY <1>1, ServingIsConnected DEF Connected
  <2> QED
    BY <2>1 DEF HandleCall, HandleLogout, HandleClosed, client, ServerInv, TypeOK
<1> QED
  BY <1>1, <1>2, Answered, HandlerStep

LEMMA HandleCloseStep ==
  ASSUME ServerInv, NEW r \in Reqs, HandleClose(r)
  PROVE  ServerInv'
<1>1. /\ TypeOK /\ req[r].pc = "close" /\ Connected(r)
      /\ UNCHANGED <<manager, disk, calls, down, cmu, ready, failed, hook>>
      /\ live' = live /\ stopping' \subseteq live
      /\ closing' \subseteq ready /\ leaving' \subseteq ready
  BY ServingIsConnected DEF ServerInv, HandleClose, TypeOK
<1>2. CASE Answer(r)
  BY <1>1, <1>2, Answered, HandlerStep
<1>3. CASE At(r, "closing")
  <2>1. PICK new : Moves(r, new) /\ Keeps(r, new) /\ new.pc = "closing"
    BY <1>1, <1>3, Goes DEF Places
  <2> QED
    BY <1>1, <2>1, HandlerStep
<1> QED
  BY <1>2, <1>3 DEF HandleClose

\* A webhook's run begins at a handler of a connected client.  A restore never
\* gets here: its own request keeps the mutex.
LEMMA StartDelivererStep ==
  ASSUME ServerInv, NEW r \in Reqs, StartDeliverer(r)
  PROVE  ServerInv'
<1>1. req[r].pc = "hook"
  BY DEF ServerInv, MutexesKept, StartDeliverer
<1>2. /\ Answer(r) /\ Connected(r) /\ hook' = hook \cup {req[r].client}
      /\ UNCHANGED <<manager, disk, calls, down, cmu, ready, failed, live>>
      /\ closing' \subseteq ready /\ leaving' \subseteq ready /\ stopping' \subseteq live
  BY <1>1, ServingIsConnected DEF ServerInv, StartDeliverer, TypeOK
<1> QED
  BY <1>1, <1>2, Answered, HandlerStep

\* The client of r connects: r takes its mutex.
LEMMA LocksStep ==
  ASSUME ServerInv, NEW r \in Reqs, EnsureConnected(r), req[r].client \notin ready
  PROVE  ServerInv'
<1> DEFINE c == req[r].client
<1>1. /\ TypeOK /\ MutexesKept /\ ConnectingIsBare /\ ServingConnected /\ FailedIsBare
      /\ req[r].pc = "connect" /\ c \in Clients /\ c \in 1..made /\ cmu[c] = None
  BY DEF ServerInv, EnsureConnected, RequestsKnow, TypeOK
<1>2. /\ At(r, "connecting") /\ ready' = ready \cup {c} /\ cmu' = [cmu EXCEPT ![c] = r]
      /\ UNCHANGED <<manager, failed, live, stopping, closing, leaving, hook, disk, calls, down>>
  BY DEF EnsureConnected, WithReady
<1>3. PICK new : Moves(r, new) /\ Keeps(r, new) /\ new.pc = "connecting"
  BY <1>1, <1>2, Goes DEF Places
<1>4. req'[r] = new /\ new.client = c /\ \A q \in Reqs : q # r => req'[q] = req[q]
  BY <1>1, <1>3, Moved DEF Keeps
<1>5. MutexesKept'
  <2>1. \A q \in Reqs : req'[q].pc \in Connecting => cmu'[req'[q].client] = q
    BY <1>1, <1>2, <1>3, <1>4 DEF MutexesKept, TypeOK
  <2>2. \A d \in Clients : cmu'[d] # None =>
          req'[cmu'[d]].client = d /\ req'[cmu'[d]].pc \in Connecting
    BY <1>1, <1>2, <1>3, <1>4 DEF MutexesKept, TypeOK
  <2> QED
    BY <2>1, <2>2 DEF MutexesKept
<1>6. ConnectingIsBare'
  <2>1. c \notin failed \cup live \cup hook
    BY <1>1 DEF TypeOK
  <2>2. \A q \in Reqs : req'[q].pc \in Serving => req'[q] = req[q] /\ req[q].client # c
    BY <1>1, <1>3, <1>4 DEF ServingConnected
  <2> QED
    BY <1>1, <1>2, <1>3, <1>4, <2>1, <2>2 DEF ConnectingIsBare
<1>7. ServingConnected' /\ FailedIsBare'
  BY <1>1, <1>2, <1>3, <1>4 DEF ServingConnected, FailedIsBare
<1>8. /\ cmu' \in [Clients -> Reqs \cup {None}] /\ failed \subseteq failed'
      /\ ready' \subseteq 1..made /\ failed' \subseteq ready' /\ live' \subseteq ready'
      /\ closing' \subseteq ready' /\ leaving' \subseteq ready' /\ hook' \subseteq ready'
      /\ stopping' \subseteq live'
  BY <1>1, <1>2 DEF TypeOK
<1>9. Routed(req[r].pc) /\ Routed(new.pc)
  BY <1>1, <1>3 DEF Routed
<1> QED
  BY <1>2, <1>3, <1>5, <1>6, <1>7, <1>8, <1>9, ClientStep

LEMMA EnsureConnectedStep ==
  ASSUME ServerInv, NEW r \in Reqs, EnsureConnected(r)
  PROVE  ServerInv'
<1>1. /\ TypeOK /\ MutexesKept /\ closing \subseteq ready /\ leaving \subseteq ready
      /\ stopping \subseteq live
  BY DEF ServerInv, TypeOK
<1>2. CASE req[r].client \in ready
  <2>1. /\ req[r].pc = "connect" /\ cmu[req[r].client] = None
        /\ UNCHANGED <<manager, failed, live, stopping, closing, leaving, hook, disk, calls,
                       down, ready, cmu>>
    BY <1>2 DEF EnsureConnected
  <2>2. CASE Answer(r)
    BY <1>1, <2>1, <2>2, Answered, HandlerStep
  <2>3. CASE Handles(r) /\ req[r].client \notin failed
    <3>1. Connected(r)
      <4>1. \A q \in Reqs : req[q].pc = "connecting" => cmu[req[q].client] = q /\ q # None
        BY <1>1 DEF MutexesKept
      <4> QED
        BY <1>2, <2>1, <2>3, <4>1 DEF Connected
    <3>2. PICK pc \in Methods : At(r, pc)
      BY <2>3 DEF Handles
    <3>3. PICK new : Moves(r, new) /\ Keeps(r, new) /\ new.pc = pc
      BY <1>1, <3>2, Goes DEF Places
    <3> QED
      BY <1>1, <2>1, <3>1, <3>3, HandlerStep
  <2> QED
    BY <1>2, <2>2, <2>3 DEF EnsureConnected
<1> QED
  BY <1>2, LocksStep

\* The mutex is given back by the request that kept it, which does not connect any more.
LEMMA UnlocksKeeps ==
  ASSUME TypeOK, MutexesKept, NEW r \in Reqs, NEW new, Moves(r, new),
         req[r].pc \in Connecting, req[r].client \in Clients, new.pc \notin Connecting,
         cmu' = [cmu EXCEPT ![req[r].client] = None]
  PROVE  MutexesKept' /\ cmu' \in [Clients -> Reqs \cup {None}]
<1> DEFINE c == req[r].client
<1>1. cmu[c] = r /\ req'[r] = new /\ \A q \in Reqs : q # r => req'[q] = req[q]
  BY Moved DEF MutexesKept
<1>2. \A q \in Reqs : req'[q].pc \in Connecting => cmu'[req'[q].client] = q
  <2> SUFFICES ASSUME NEW q \in Reqs, req'[q].pc \in Connecting
               PROVE  cmu'[req'[q].client] = q
    OBVIOUS
  <2>1. q # r /\ req'[q] = req[q] /\ cmu[req[q].client] = q
    BY <1>1 DEF MutexesKept
  <2>2. req[q].client # c
    BY <1>1, <2>1
  <2> QED
    BY <2>1, <2>2 DEF TypeOK
<1>3. \A d \in Clients : cmu'[d] # None =>
        req'[cmu'[d]].client = d /\ req'[cmu'[d]].pc \in Connecting
  <2> SUFFICES ASSUME NEW d \in Clients, cmu'[d] # None
               PROVE  req'[cmu'[d]].client = d /\ req'[cmu'[d]].pc \in Connecting
    OBVIOUS
  <2>1. d # c /\ cmu'[d] = cmu[d]
    BY DEF TypeOK
  <2>2. cmu[d] \in Reqs /\ req[cmu[d]].client = d /\ req[cmu[d]].pc \in Connecting
    BY <2>1 DEF TypeOK, MutexesKept
  <2> QED
    BY <1>1, <2>1, <2>2
<1> QED
  BY <1>2, <1>3 DEF MutexesKept, TypeOK

LEMMA ConnectFailsStep ==
  ASSUME ServerInv, NEW r \in Reqs, ConnectFails(r)
  PROVE  ServerInv'
<1> DEFINE c == req[r].client
<1>1. /\ TypeOK /\ MutexesKept /\ ConnectingIsBare /\ ServingConnected /\ FailedIsBare
      /\ req[r].pc = "connecting" /\ c \in 1..made /\ c \in Clients
      /\ c \in ready \ (failed \cup live \cup hook)
  BY DEF ServerInv, ConnectFails, RequestsKnow, TypeOK, ConnectingIsBare
<1>2. /\ Answer(r) /\ failed' = failed \cup {c} /\ cmu' = [cmu EXCEPT ![c] = None]
      /\ UNCHANGED <<manager, ready, live, stopping, closing, leaving, hook, disk, calls, down>>
  BY DEF ConnectFails, Released
<1>3. Moves(r, Idle) /\ req'[r] = Idle /\ \A q \in Reqs : q # r => req'[q] = req[q]
  BY <1>1, <1>2, Answered, Moved
<1>4. MutexesKept' /\ cmu' \in [Clients -> Reqs \cup {None}]
  BY <1>1, <1>2, <1>3, IdleState, UnlocksKeeps
<1>5. \A q \in Reqs : q # r /\ req[q].pc \in Connecting => req[q].client # c
  BY <1>1 DEF MutexesKept
<1>6. \A q \in Reqs : req[q].pc \in Serving => req[q].client # c
  BY <1>1 DEF ConnectingIsBare
<1>7. ConnectingIsBare' /\ ServingConnected' /\ FailedIsBare'
  <2>1. ConnectingIsBare'
    BY <1>1, <1>2, <1>3, <1>5, IdleState DEF ConnectingIsBare
  <2>2. ServingConnected'
    BY <1>1, <1>2, <1>3, <1>5, <1>6, IdleState DEF ServingConnected
  <2>3. FailedIsBare'
    BY <1>1, <1>2 DEF FailedIsBare
  <2> QED
    BY <2>1, <2>2, <2>3
<1>8. /\ failed \subseteq failed' /\ ready' \subseteq 1..made
      /\ failed' \subseteq ready' /\ live' \subseteq ready'
      /\ closing' \subseteq ready' /\ leaving' \subseteq ready' /\ hook' \subseteq ready'
      /\ stopping' \subseteq live'
  BY <1>1, <1>2 DEF TypeOK
<1>9. Routed(req[r].pc)
  BY <1>1 DEF Routed
<1> QED
  BY <1>2, <1>3, <1>4, <1>7, <1>8, <1>9, ClientStep

LEMMA ConnectsStep ==
  ASSUME ServerInv, NEW r \in Reqs, Connects(r)
  PROVE  ServerInv'
<1> DEFINE c == req[r].client
<1>1. /\ TypeOK /\ MutexesKept /\ ConnectingIsBare /\ ServingConnected /\ FailedIsBare
      /\ req[r].pc = "connecting" /\ c \in 1..made /\ c \in Clients
      /\ c \in ready \ (failed \cup live \cup hook) /\ cmu[c] = r
  BY DEF ServerInv, Connects, RequestsKnow, TypeOK, ConnectingIsBare, MutexesKept
<1>2. /\ live' = live \cup {c}
      /\ UNCHANGED <<manager, ready, failed, stopping, closing, leaving, hook, disk, calls, down>>
  BY DEF Connects
<1>3. PICK new : /\ Moves(r, new) /\ Keeps(r, new) /\ new.pc \in {"restore"} \cup Methods
                 /\ new.pc = "restore" => cmu' = cmu
                 /\ new.pc \in Methods => cmu' = [cmu EXCEPT ![c] = None]
  <2>1. CASE At(r, "restore") /\ UNCHANGED cmu
    BY <1>1, <2>1, Goes DEF Places
  <2>2. CASE Handles(r) /\ cmu' = Released(c, TRUE)
    <3>1. PICK pc \in Methods : At(r, pc)
      BY <2>2 DEF Handles
    <3>2. PICK new : Moves(r, new) /\ Keeps(r, new) /\ new.pc = pc
      BY <1>1, <3>1, Goes DEF Places
    <3> QED
      BY <2>2, <3>2 DEF Released
  <2> QED
    BY <2>1, <2>2 DEF Connects
<1>4. req'[r] = new /\ new.client = c /\ \A q \in Reqs : q # r => req'[q] = req[q]
  BY <1>1, <1>3, Moved DEF Keeps
<1>5. MutexesKept' /\ cmu' \in [Clients -> Reqs \cup {None}]
  <2>1. CASE new.pc = "restore"
    BY <1>1, <1>3, <1>4, <2>1 DEF MutexesKept, TypeOK
  <2>2. CASE new.pc \in Methods
    BY <1>1, <1>3, <2>2, UnlocksKeeps
  <2> QED
    BY <1>3, <2>1, <2>2
<1>6. \A q \in Reqs : q # r /\ req[q].pc \in Connecting => req[q].client # c
  BY <1>1 DEF MutexesKept
<1>7. ConnectingIsBare'
  BY <1>1, <1>2, <1>3, <1>4, <1>6 DEF ConnectingIsBare
<1>8. ServingConnected' /\ FailedIsBare'
  BY <1>1, <1>2, <1>3, <1>4 DEF ServingConnected, FailedIsBare
<1>9. /\ failed \subseteq failed' /\ ready' \subseteq 1..made
      /\ failed' \subseteq ready' /\ live' \subseteq ready'
      /\ closing' \subseteq ready' /\ leaving' \subseteq ready' /\ hook' \subseteq ready'
      /\ stopping' \subseteq live'
  BY <1>1, <1>2 DEF TypeOK
<1>10. Routed(req[r].pc) /\ Routed(new.pc)
  BY <1>1, <1>3 DEF Routed
<1> QED
  BY <1>2, <1>3, <1>5, <1>7, <1>8, <1>9, <1>10, ClientStep

-----------------------------------------------------------------------------
(* Steps of the collector and of the shutdown.                             *)

\* What a step of the process leaves as it was.
LEMMA ProcessStep ==
  ASSUME ServerInv, UNCHANGED <<manager, cmu, ready, failed, closing, leaving, calls, req>>,
         live' \subseteq live, stopping' \subseteq live', hook' \subseteq hook,
         gc' \in {"rest", "work", "over"}, store' \in {"open", "closed"}, down' \in Shutdowns,
         Stopping', ClosedAfterGC'
  PROVE  ServerInv'
<1>1. TypeOK'
  BY DEF ServerInv, TypeOK, manager
<1>2. MadeByCalls' /\ RequestsKnow' /\ Evicting'
  BY DEF ServerInv, MadeByCalls, RequestsKnow, Evicting, manager
<1>3. MutexesKept' /\ ConnectingIsBare' /\ ServingConnected'
  BY DEF ServerInv, MutexesKept, ConnectingIsBare, ServingConnected
<1>4. FailedIsBare' /\ OnlyFailedLeave'
  BY DEF ServerInv, FailedIsBare, OnlyFailedLeave, Registered, manager
<1> QED
  BY <1>1, <1>2, <1>3, <1>4 DEF ServerInv

LEMMA CollectorStep ==
  ASSUME ServerInv, GCTick \/ GCDone \/ GCStops
  PROVE  ServerInv'
<1>1. /\ UNCHANGED <<manager, client, store, calls, req, down>>
      /\ gc' \in {"rest", "work", "over"} /\ gc # "over"
  BY DEF GCTick, GCDone, GCStops
<1>2. Stopping' /\ ClosedAfterGC'
  BY <1>1 DEF ServerInv, Stopping, ClosedAfterGC, client
<1>3. store' \in {"open", "closed"} /\ down' \in Shutdowns /\ stopping \subseteq live
  BY <1>1 DEF ServerInv, TypeOK
<1> QED
  BY <1>1, <1>2, <1>3, ProcessStep DEF client

\* A connection goes down.
LEMMA ConnStopsStep ==
  ASSUME ServerInv, NEW c \in Clients, ConnStops(c)
  PROVE  ServerInv'
<1>1. /\ UNCHANGED <<manager, cmu, ready, failed, closing, leaving, calls, req>>
      /\ UNCHANGED <<hook, gc, store, down>>
      /\ live' = live \ {c} /\ stopping' = stopping \ {c} /\ stopping' \subseteq live'
  BY DEF ConnStops, disk, ServerInv, TypeOK
<1>2. live' \ stopping' \subseteq live \ stopping
  BY <1>1
<1>3. Stopping' /\ ClosedAfterGC'
  BY <1>1, <1>2 DEF ServerInv, Stopping, ClosedAfterGC
<1> QED
  BY <1>1, <1>3, ProcessStep DEF ServerInv, TypeOK

\* What runs belongs to a client of the table.
LEMMA RunningRegistered ==
  ASSUME ServerInv
  PROVE  live \cup hook \subseteq Registered
BY DEF ServerInv, TypeOK, FailedIsBare, OnlyFailedLeave

\* The shutdown begins, and lists the clients.
LEMMA ListStep ==
  ASSUME ServerInv, Signal \/ HttpStops \/ ListClients
  PROVE  ServerInv'
<1>1. /\ TypeOK /\ Stopping /\ ClosedAfterGC /\ down \in Shutdowns
      /\ UNCHANGED <<manager, client, disk, calls, req>>
  BY DEF ServerInv, TypeOK, Signal, HttpStops, ListClients
<1>2. down' \in Shutdowns /\ Stopping'
  <2>1. CASE Signal
    <3>1. down' \in Shutdowns /\ down'.pc = "http" /\ down'.drained = down.drained /\ down.pc = "up"
      BY <1>1, <2>1 DEF Signal, Shutdowns
    <3> QED
      BY <1>1, <3>1 DEF Stopping
  <2>2. CASE HttpStops
    <3>1. /\ down' \in Shutdowns /\ down'.pc = "list"
          /\ down'.drained => \A r \in Reqs : req[r].pc = "idle"
      BY <1>1, <2>2, IdleState DEF HttpStops, Shutdowns
    <3> QED
      BY <1>1, <3>1 DEF Stopping
  <2>3. CASE ListClients
    <3>1. Registered \in SUBSET Clients
      BY <1>1 DEF TypeOK, Registered
    <3>2. /\ down' \in Shutdowns /\ down'.pc = "stop" /\ down'.todo = Registered
          /\ down'.drained = down.drained
      BY <1>1, <2>3, <3>1 DEF ListClients, Shutdowns
    <3> QED
      BY <1>1, <3>2, RunningRegistered DEF Stopping, client
  <2> QED
    BY <2>1, <2>2, <2>3
<1>3. /\ ClosedAfterGC' /\ gc' \in {"rest", "work", "over"} /\ store' \in {"open", "closed"}
      /\ stopping \subseteq live
  BY <1>1 DEF ClosedAfterGC, disk, TypeOK
<1> QED
  BY <1>1, <1>2, <1>3, ProcessStep DEF client

\* The deliveries are ended and the connections told to stop one after another.
LEMMA StopStep ==
  ASSUME ServerInv, StopNext \/ Stopped \/ StopExpires \/ AllStopped
  PROVE  ServerInv'
<1>1. /\ TypeOK /\ Stopping /\ ClosedAfterGC /\ down \in Shutdowns
      /\ UNCHANGED <<manager, cmu, ready, failed, closing, leaving, disk, calls, req>>
      /\ live' = live /\ stopping' \subseteq live /\ hook' \subseteq hook
  BY DEF ServerInv, TypeOK, StopNext, Stopped, StopExpires, AllStopped, client
<1>2. down' \in Shutdowns /\ Stopping'
  <2>1. CASE StopNext
    <3>1. PICK c \in down.todo :
            /\ down.pc = "stop" /\ UNCHANGED client
            /\ down' = [down EXCEPT !.pc = "wait", !.run = hook \cap {c},
                                   !.conn = live \cap {c}, !.todo = @ \ {c}]
      BY <2>1 DEF StopNext
    <3>2. hook \cap {c} \in SUBSET Clients /\ live \cap {c} \in SUBSET Clients
      BY <1>1, <3>1 DEF Shutdowns
    <3>3. /\ down' \in Shutdowns /\ down'.pc = "wait" /\ down'.run = hook \cap {c}
          /\ down'.conn = live \cap {c} /\ down'.todo = down.todo \ {c}
          /\ down'.drained = down.drained /\ down'.errors = down.errors
      BY <1>1, <3>1, <3>2 DEF Shutdowns
    <3> QED
      BY <1>1, <3>1, <3>3 DEF Stopping, client
  <2>2. CASE Stopped
    <3>1. /\ down' \in Shutdowns /\ down'.pc = "stop" /\ down.pc = "wait" /\ down'.todo = down.todo
          /\ down'.drained = down.drained /\ down'.errors = down.errors
      BY <1>1, <2>2 DEF Stopped, Shutdowns
    <3>2. /\ hook' = hook \ down.run
          /\ live' \ stopping' = (live \ stopping) \ down.conn
      BY <1>1, <2>2 DEF Stopped
    <3> QED
      BY <1>1, <3>1, <3>2 DEF Stopping
  <2>3. CASE StopExpires
    <3>1. /\ down' \in Shutdowns /\ down'.pc = "gc" /\ down.pc = "wait" /\ down'.errors
          /\ down'.drained = down.drained
      BY <1>1, <2>3 DEF StopExpires, WithError, Shutdowns
    <3> QED
      BY <1>1, <3>1 DEF Stopping
  <2>4. CASE AllStopped
    <3>1. /\ down' \in Shutdowns /\ down'.pc = "gc" /\ down.pc = "stop" /\ down.todo = {}
          /\ down'.drained = down.drained /\ down'.errors = down.errors /\ UNCHANGED client
      BY <1>1, <2>4 DEF AllStopped, Shutdowns
    <3> QED
      BY <1>1, <3>1 DEF Stopping, client
  <2> QED
    BY <2>1, <2>2, <2>3, <2>4
<1>3. ClosedAfterGC' /\ gc' \in {"rest", "work", "over"} /\ store' \in {"open", "closed"}
  BY <1>1 DEF ClosedAfterGC, disk, TypeOK
<1> QED
  BY <1>1, <1>2, <1>3, ProcessStep

\* The store is closed once the collector is over, or not at all.
LEMMA CloseStep ==
  ASSUME ServerInv, CloseStore \/ CloseExpires
  PROVE  ServerInv'
<1>1. /\ TypeOK /\ Stopping /\ ClosedAfterGC /\ down \in Shutdowns
      /\ UNCHANGED <<manager, client, gc, calls, req>>
  BY DEF ServerInv, TypeOK, CloseStore, CloseExpires, disk
<1>2. /\ down' \in Shutdowns /\ down'.pc = "over" /\ down.pc = "gc"
      /\ down'.drained = down.drained
      /\ \/ CloseStore /\ down'.errors = down.errors
         \/ CloseExpires /\ down'.errors
  BY <1>1 DEF CloseStore, CloseExpires, WithError, Shutdowns
<1>3. Stopping'
  BY <1>1, <1>2 DEF Stopping, client, CloseStore
<1>4. /\ ClosedAfterGC' /\ gc' \in {"rest", "work", "over"} /\ store' \in {"open", "closed"}
      /\ stopping \subseteq live
  BY <1>1 DEF ClosedAfterGC, TypeOK, CloseStore, CloseExpires, GCOver, disk
<1> QED
  BY <1>1, <1>2, <1>3, <1>4, ProcessStep DEF client

-----------------------------------------------------------------------------
(* The theorems.                                                           *)

LEMMA ServerInit == Init => ServerInv
<1> SUFFICES ASSUME Init PROVE ServerInv
  OBVIOUS
<1>1. \A r \in Reqs : req[r] = Idle
  BY DEF Init
<1>2. made = 0 /\ calls = 0 /\ ready = {} /\ failed = {} /\ live = {} /\ hook = {}
  BY DEF Init
<1>3. TypeOK
  BY IdleState DEF Init, TypeOK, Running, Shutdowns
<1>4. MadeByCalls
  <2>1. {r \in Reqs : req[r].pc \in Routing} = {}
    BY <1>1, IdleState
  <2>2. Cardinality({}) = 0
    BY FS_EmptySet, Zenon
  <2>3. Cardinality({r \in Reqs : req[r].pc \in Routing}) = 0
    BY <2>1, <2>2, Zenon
  <2> HIDE DEF Routing
  <2> QED
    BY <1>2, <2>3 DEF MadeByCalls
<1>5. RequestsKnow /\ Evicting /\ ConnectingIsBare /\ ServingConnected
  BY <1>1, IdleState DEF RequestsKnow, Evicting, ConnectingIsBare, ServingConnected
<1>6. MutexesKept
  BY <1>1, IdleState DEF Init, MutexesKept
<1>7. FailedIsBare /\ OnlyFailedLeave
  BY <1>2 DEF FailedIsBare, OnlyFailedLeave
<1>8. Stopping /\ ClosedAfterGC
  BY DEF Init, Running, Stopping, ClosedAfterGC
<1> QED
  BY <1>3, <1>4, <1>5, <1>6, <1>7, <1>8 DEF ServerInv

\* Every step keeps the invariant.
LEMMA ServerStep == ServerInv /\ [Next]_vars => ServerInv'
<1> SUFFICES ASSUME ServerInv, [Next]_vars PROVE ServerInv'
  OBVIOUS
<1>1. ASSUME NEW r \in Reqs, Arrive(r) \/ ReqStep(r) PROVE ServerInv'
  <2>1. CASE Arrive(r) \/ Route(r) \/ RouteFull(r) \/ AskOne(r) \/ EvictDone(r)
    BY <2>1, ArriveStep, RouteStep, RouteFullStep, AskOneStep, EvictDoneStep
  <2>2. CASE Dispatch(r) \/ EnsureConnected(r) \/ ConnectFails(r) \/ Connects(r)
    BY <2>2, DispatchStep, EnsureConnectedStep, ConnectFailsStep, ConnectsStep
  <2>3. CASE \/ HandleCall(r) \/ StartDeliverer(r) \/ HandleLogout(r)
             \/ HandleClose(r) \/ HandleClosed(r)
    BY <2>3, EndStep, StartDelivererStep, HandleCloseStep
  <2> QED
    BY <1>1, <2>1, <2>2, <2>3 DEF ReqStep
<1>2. ASSUME NEW c \in Clients, ConnStops(c) PROVE ServerInv'
  BY <1>2, ConnStopsStep
<1>3. ASSUME GCTick \/ GCDone \/ GCStops \/ Signal \/ DownStep PROVE ServerInv'
  BY <1>3, CollectorStep, ListStep, StopStep, CloseStep DEF DownStep
<1>4. CASE UNCHANGED vars
  <2>1. /\ UNCHANGED <<manager, cmu, ready, failed, closing, leaving, calls, req>>
        /\ UNCHANGED <<live, stopping, hook, gc, store, down>>
    BY <1>4 DEF vars, client, disk
  <2>2. Stopping' /\ ClosedAfterGC'
    BY <2>1 DEF ServerInv, Stopping, ClosedAfterGC
  <2> QED
    BY <2>1, <2>2, ProcessStep DEF ServerInv, TypeOK
<1> QED
  BY <1>1, <1>2, <1>3, <1>4 DEF Next

\* In every reachable state the manager's table, the clients' mutexes, flags and
\* connections, the requests and the shutdown agree (manager.go, client.go).
THEOREM ServerInvariant == Spec => []ServerInv
BY ServerInit, ServerStep, PTL DEF Spec

\* Each variable has its type: no more clients than calls, every flag is one of
\* a client made (manager.go:222-262, client.go).
THEOREM ServerTypeOK == Spec => []TypeOK
<1>1. ServerInv => TypeOK
  BY DEF ServerInv
<1> QED
  BY <1>1, ServerInvariant, PTL

\* A bot has one connection, for any number of bots, requests and clients:
\* what connects, is connected or delivers is in the table (manager.go:222-262).
THEOREM AlwaysOneConnection == Spec => []OneConnection
<1>1. ServerInv => OneConnection
  <2> SUFFICES ASSUME ServerInv, NEW c \in 1..made, c \in live \cup hook \/ cmu[c] # None
               PROVE  c \in Registered
    BY DEF OneConnection
  <2>1. CASE c \in live \cup hook
    BY <2>1, RunningRegistered
  <2>2. CASE cmu[c] # None
    <3>1. c \in Clients
      BY DEF ServerInv, TypeOK
    <3>2. /\ cmu[c] \in Reqs /\ req[cmu[c]].client = c
          /\ req[cmu[c]].pc \in Connecting
      BY <2>2, <3>1 DEF ServerInv, TypeOK, MutexesKept
    <3>3. c \notin failed
      BY <3>2 DEF ServerInv, ConnectingIsBare, ServingConnected
    <3> QED
      BY <3>3 DEF ServerInv, OnlyFailedLeave
  <2> QED
    BY <2>1, <2>2
<1> QED
  BY <1>1, ServerInvariant, PTL

\* A Shutdown that saw the requests end and reports no error has ended every delivery,
\* closed the store and told every connection to stop, for any number of bots and
\* whatever order connections go down in (manager.go:160-182, client.go:109-126).
THEOREM AlwaysCleanShutdown == Spec => []CleanShutdown
<1>1. ServerInv => CleanShutdown
  BY DEF ServerInv, Stopping, CleanShutdown
<1> QED
  BY <1>1, ServerInvariant, PTL

\* The collector never works on a closed store (manager.go:104-158).
THEOREM StoreAlwaysOpenForGC == Spec => []StoreOpenForGC
<1>1. ServerInv => StoreOpenForGC
  BY DEF ServerInv, ClosedAfterGC, StoreOpenForGC, TypeOK
<1> QED
  BY <1>1, ServerInvariant, PTL
=============================================================================
