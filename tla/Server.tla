------------------------------- MODULE Server -------------------------------
(***************************************************************************)
(* The process: the manager's table of clients (internal/manager/          *)
(* manager.go), each client's connection and end (internal/client/         *)
(* client.go, connect.go, lifecycle.go, the head of dispatch.go), and the  *)
(* shutdown on a signal (cmd/mtgo-bot-api/main.go).                        *)
(*                                                                         *)
(* A request is a goroutine.  Two mutexes are kept over waits and so are   *)
(* variables: m.mu while clientFor asks every client whether it failed,    *)
(* and a client's c.mu while it connects, which takes up to a minute.      *)
(* Elsewhere a stretch under a mutex is one step.  How long things take    *)
(* is open: a wait that shutdownTimeout bounds may end by it at any        *)
(* moment, and a connection told to stop may stay up for ever.             *)
(***************************************************************************)
EXTENDS Integers, FiniteSets

CONSTANTS
  Reqs,        \* goroutines that serve requests
  Bots,        \* valid tokens
  Hooked,      \* bots with a webhook_config row from an earlier process
  None,
  MaxClients,  \* Parameters.MaxClients
  MaxCalls     \* bound on the number of requests

ASSUME ServerAssumption ==
  /\ Hooked \subseteq Bots /\ None \notin Reqs \cup Bots \cup Nat
  /\ IsFiniteSet(Reqs)
  /\ MaxClients \in Nat \ {0} /\ MaxCalls \in Nat

\* What a request asks for, settled when it gets there: something that needs the
\* connection, a webhook, the end of the session or of the client.
Methods == {"call", "hook", "logout", "close"}

\* Clients are numbered as NewClient makes them.
Clients == 1..MaxCalls

VARIABLES
  \* Manager
  table,     \* m.clients: bot -> client or None
  made,      \* number of clients made
  mmu,       \* the request that keeps m.mu
  \* Client
  ready,     \* clients with c.ready
  failed,    \* ... with c.connErr
  live,      \* ... whose connection is up
  stopping,  \* ... told to go down: conn.Stop has been launched and not returned
  closing,   \* ... with c.closing
  leaving,   \* ... with c.loggingOut
  hook,      \* ... whose deliverer runs
  cmu,       \* client -> the request that keeps its c.mu
  \* gcLoop
  gc,        \* "rest" between ticks, "work" in one, "over" when gcDone is closed
  store,     \* "open" or "closed": tqueue.db
  \* around them
  calls,     \* number of requests so far
  req,       \* what each request is doing
  down       \* what the shutdown is doing

manager == <<table, made, mmu>>
client  == <<ready, failed, live, stopping, closing, leaving, hook, cmu>>
disk    == <<gc, store>>
vars == <<manager, client, disk, calls, req, down>>

Idle    == [pc |-> "idle", bot |-> None, client |-> 0, todo |-> {}]
Running == [pc |-> "up", todo |-> {}, run |-> {}, conn |-> {},
            drained |-> FALSE, errors |-> FALSE]

Init ==
  /\ table = [b \in Bots |-> None] /\ made = 0 /\ mmu = None
  /\ ready = {} /\ failed = {} /\ live = {} /\ stopping = {} /\ hook = {}
  /\ closing = {} /\ leaving = {}
  /\ cmu = [c \in Clients |-> None]
  /\ gc = "rest" /\ store = "open"
  /\ calls = 0 /\ req = [r \in Reqs |-> Idle] /\ down = Running

Registered == {table[b] : b \in Bots} \ {None}
Full == Cardinality(Registered) >= MaxClients

At(r, pc)  == req' = [req EXCEPT ![r].pc = pc]
Handles(r) == \E m \in Methods : At(r, m)
Answer(r)  == req' = [req EXCEPT ![r] = Idle]

-----------------------------------------------------------------------------
(* Manager.Handle and clientFor.                                           *)

Arrive(r) ==
  \E b \in Bots :
    /\ req[r] = Idle /\ down.pc = "up"
    /\ calls < MaxCalls /\ calls' = calls + 1
    /\ req' = [req EXCEPT ![r] = [Idle EXCEPT !.pc = "route", !.bot = b]]
    /\ UNCHANGED <<manager, client, disk, down>>

\* NewClient, registered for the bot of r.
Register(r) ==
  /\ made' = made + 1
  /\ table' = [table EXCEPT ![req[r].bot] = made + 1]
  /\ req' = [req EXCEPT ![r].pc = "dispatch", ![r].client = made + 1, ![r].todo = {}]

Route(r) ==
  LET known == table[req[r].bot] IN
  /\ req[r].pc = "route" /\ mmu = None
  /\ \/ /\ known # None
        /\ req' = [req EXCEPT ![r].pc = "dispatch", ![r].client = known]
        /\ UNCHANGED <<table, made>>
     \/ known = None /\ ~Full /\ Register(r)
  /\ UNCHANGED <<mmu, client, disk, calls, down>>

\* At the cap m.mu is kept while every client is asked for ConnFailed.
RouteFull(r) ==
  /\ req[r].pc = "route" /\ mmu = None
  /\ table[req[r].bot] = None /\ Full
  /\ mmu' = r
  /\ req' = [req EXCEPT ![r].pc = "evict", ![r].todo = Registered]
  /\ UNCHANGED <<table, made, client, disk, calls, down>>

\* Mutant: any client may go that is not ready.
EvictableUnready(c) == c \in failed \/ c \notin live

\* ConnFailed: the clients that may be stopped and removed.
Evictable(c) == c \in ready /\ c \in failed

AskOne(r) ==
  \E c \in req[r].todo :
    /\ req[r].pc = "evict" /\ cmu[c] = None
    /\ table' = [b \in Bots |-> IF table[b] = c /\ Evictable(c) THEN None ELSE table[b]]
    /\ req' = [req EXCEPT ![r].todo = @ \ {c}]
    /\ UNCHANGED <<made, mmu, client, disk, calls, down>>

\* 429 when nothing could be evicted.
EvictDone(r) ==
  /\ req[r].pc = "evict" /\ req[r].todo = {}
  /\ mmu' = None
  /\ IF Full THEN Answer(r) /\ UNCHANGED <<table, made>> ELSE Register(r)
  /\ UNCHANGED <<client, disk, calls, down>>

-----------------------------------------------------------------------------
(* Client.Dispatch and ensureConnected.                                    *)

\* closingError: no method is served once the client is closing or logging out.
Dispatch(r) ==
  LET c == req[r].client IN
  /\ req[r].pc = "dispatch"
  /\ IF c \in closing \cup leaving THEN Answer(r) ELSE At(r, "connect")
  /\ UNCHANGED <<manager, client, disk, calls, down>>

\* Mutant: the flag is left for connect to set.
WithReadyLate(c) == ready

\* The flag is set before connect.
WithReady(c) == ready \cup {c}

\* The first caller keeps c.mu and connects, later ones find the outcome.
EnsureConnected(r) ==
  LET c == req[r].client IN
  /\ req[r].pc = "connect" /\ cmu[c] = None
  /\ IF c \in ready
     THEN /\ IF c \in failed THEN Answer(r) ELSE Handles(r)
          /\ UNCHANGED <<ready, cmu>>
     ELSE /\ ready' = WithReady(c)
          /\ cmu' = [cmu EXCEPT ![c] = r]
          /\ At(r, "connecting")
  /\ UNCHANGED <<manager, failed, live, stopping, closing, leaving, hook, disk, calls, down>>

\* Mutant: a client that failed to connect keeps its mutex.
ReleasedIfConnected(c, ok) == IF ok THEN [cmu EXCEPT ![c] = None] ELSE cmu

\* c.mu is free again.
Released(c, ok) == [cmu EXCEPT ![c] = None]

\* connect fails: the error stays.
ConnectFails(r) ==
  LET c == req[r].client IN
  /\ req[r].pc = "connecting"
  /\ failed' = failed \cup {c}
  /\ cmu' = Released(c, FALSE)
  /\ Answer(r)
  /\ UNCHANGED <<manager, ready, live, stopping, closing, leaving, hook, disk, calls, down>>

\* connect succeeds; the preloads that follow are best effort.  A bot with a
\* webhook row goes on to restoreWebhookLocked, c.mu kept.
Connects(r) ==
  LET c == req[r].client IN
  /\ req[r].pc = "connecting"
  /\ live' = live \cup {c}
  /\ IF req[r].bot \in Hooked
     THEN At(r, "restore") /\ UNCHANGED cmu
     ELSE Handles(r) /\ cmu' = Released(c, TRUE)
  /\ UNCHANGED <<manager, ready, failed, stopping, closing, leaving, hook, disk, calls, down>>

-----------------------------------------------------------------------------
(* The handlers.                                                           *)

\* A call to Telegram ends somehow.
HandleCall(r) ==
  /\ req[r].pc = "call"
  /\ Answer(r)
  /\ UNCHANGED <<manager, client, disk, calls, down>>

\* setWebhook and restoreWebhookLocked start the deliverer.  Both take c.mu, in
\* ensureDeliverer and in applyAllowedUpdatesNormalized; the rest of setWebhook is
\* the matter of Webhook.
StartDeliverer(r) ==
  LET c == req[r].client IN
  /\ req[r].pc \in {"hook", "restore"} /\ cmu[c] = None
  /\ hook' = hook \cup {c}
  /\ IF req[r].pc = "restore" THEN Handles(r) ELSE Answer(r)
  /\ UNCHANGED <<manager, ready, failed, live, stopping, closing, leaving, cmu, disk,
                 calls, down>>

\* logout sets the flag before auth.logOut, and leaves it whatever comes of it.
HandleLogout(r) ==
  LET c == req[r].client IN
  /\ req[r].pc = "logout"
  /\ leaving' = leaving \cup {c}
  /\ Answer(r)
  /\ UNCHANGED <<manager, ready, failed, live, stopping, closing, hook, cmu, disk, calls, down>>

\* closeBot: refused within ten minutes, else the connection is told to stop, in a
\* goroutine of its own ...
HandleClose(r) ==
  LET c == req[r].client IN
  /\ req[r].pc = "close" /\ cmu[c] = None
  /\ \/ stopping' = stopping \cup ({c} \cap live) /\ At(r, "closing")
     \/ UNCHANGED stopping /\ Answer(r)
  /\ UNCHANGED <<manager, ready, failed, live, closing, leaving, hook, cmu, disk, calls, down>>

\* ... and the flag set without waiting for it.
HandleClosed(r) ==
  /\ req[r].pc = "closing"
  /\ closing' = closing \cup {req[r].client}
  /\ Answer(r)
  /\ UNCHANGED <<manager, ready, failed, live, stopping, leaving, hook, cmu, disk, calls, down>>

ReqStep(r) ==
  \/ Route(r) \/ RouteFull(r) \/ AskOne(r) \/ EvictDone(r)
  \/ Dispatch(r) \/ EnsureConnected(r) \/ ConnectFails(r) \/ Connects(r)
  \/ HandleCall(r) \/ StartDeliverer(r) \/ HandleLogout(r) \/ HandleClose(r) \/ HandleClosed(r)

\* A connection that was told to stop is down.  Nobody waits for it.
ConnStops(c) ==
  /\ c \in stopping
  /\ live' = live \ {c} /\ stopping' = stopping \ {c}
  /\ UNCHANGED <<manager, ready, failed, closing, leaving, hook, cmu, disk, calls, req, down>>

-----------------------------------------------------------------------------
(* gcLoop, and the shutdown on SIGINT or SIGTERM.                          *)

GCTick ==
  /\ gc = "rest" /\ gc' = "work"
  /\ UNCHANGED <<manager, client, store, calls, req, down>>

GCDone ==
  /\ gc = "work" /\ gc' = "rest"
  /\ UNCHANGED <<manager, client, store, calls, req, down>>

\* gcStop is closed: the loop returns when it comes to its select.
GCStops ==
  /\ gc = "rest" /\ down.pc = "gc" /\ gc' = "over"
  /\ UNCHANGED <<manager, client, store, calls, req, down>>

Signal ==
  /\ down.pc = "up" /\ down' = [down EXCEPT !.pc = "http"]
  /\ UNCHANGED <<manager, client, disk, calls, req>>

\* srv.Shutdown returns when no request is under way, or at the deadline.
HttpStops ==
  LET drained == \A r \in Reqs : req[r] = Idle IN
  /\ down.pc = "http"
  /\ down' = [down EXCEPT !.pc = "list", !.drained = drained]
  /\ UNCHANGED <<manager, client, disk, calls, req>>

\* Manager.Shutdown copies the table ...
ListClients ==
  /\ down.pc = "list" /\ mmu = None
  /\ down' = [down EXCEPT !.pc = "stop", !.todo = Registered]
  /\ UNCHANGED <<manager, client, disk, calls, req>>

\* ... and stops one client after another: StopContext reads deliverer and
\* connection under c.mu ...
StopNext ==
  \E c \in down.todo :
    /\ down.pc = "stop" /\ cmu[c] = None
    /\ down' = [down EXCEPT !.pc = "wait", !.run = hook \cap {c}, !.conn = live \cap {c},
                            !.todo = @ \ {c}]
    /\ UNCHANGED <<manager, client, disk, calls, req>>

\* ... the deliverer's run ends, and the connection is told to stop, in a
\* goroutine of its own ...
Stopped ==
  /\ down.pc = "wait"
  /\ hook' = hook \ down.run
  /\ stopping' = stopping \cup (down.conn \cap live)
  /\ down' = [down EXCEPT !.pc = "stop"]
  /\ UNCHANGED <<manager, ready, failed, live, closing, leaving, cmu, disk, calls, req>>

\* Mutant: the loop over the clients goes on as if nothing had happened.
ErrorLost(d) == d

\* Shutdown has met an error.
WithError(d) == [d EXCEPT !.errors = TRUE]

\* ... or the run has not ended at the deadline: the connection is told to stop,
\* and Shutdown goes to no other client.
StopExpires ==
  /\ down.pc = "wait" /\ down.run # {}
  /\ stopping' = stopping \cup (down.conn \cap live)
  /\ down' = WithError([down EXCEPT !.pc = "gc", !.todo = {}])
  /\ UNCHANGED <<manager, ready, failed, live, closing, leaving, hook, cmu, disk, calls, req>>

AllStopped ==
  /\ down.pc = "stop" /\ down.todo = {}
  /\ down' = [down EXCEPT !.pc = "gc"]
  /\ UNCHANGED <<manager, client, disk, calls, req>>

\* Mutant: the store is closed without waiting for the loop.
GCAnyway == TRUE

\* gcDone is closed.
GCOver == gc = "over"

\* CloseContext: the store is closed once the loop is over ...
CloseStore ==
  /\ down.pc = "gc" /\ GCOver
  /\ store' = "closed"
  /\ down' = [down EXCEPT !.pc = "over"]
  /\ UNCHANGED <<manager, client, gc, calls, req>>

\* ... or not at all if the deadline comes first.
CloseExpires ==
  /\ down.pc = "gc"
  /\ down' = WithError([down EXCEPT !.pc = "over"])
  /\ UNCHANGED <<manager, client, disk, calls, req>>

DownStep ==
  \/ HttpStops \/ ListClients \/ StopNext \/ Stopped \/ StopExpires \/ AllStopped
  \/ CloseStore \/ CloseExpires

-----------------------------------------------------------------------------
\* main has not returned.
Up == down.pc # "over"

Next ==
  /\ Up
  /\ \/ \E r \in Reqs : Arrive(r) \/ ReqStep(r)
     \/ \E c \in Clients : ConnStops(c)
     \/ GCTick \/ GCDone \/ GCStops
     \/ Signal \/ DownStep

Spec == Init /\ [][Next]_vars

\* A goroutine that can go on does: connectTimeout bounds a connect, a call to
\* Telegram ends, and shutdownTimeout bounds a wait for the collector.  Nothing
\* bounds how long a connection takes to go down.
Fairness ==
  /\ \A r \in Reqs : WF_vars(Up /\ ReqStep(r))
  /\ WF_vars(Up /\ DownStep)

FairSpec == Spec /\ Fairness

-----------------------------------------------------------------------------
(* Properties.                                                             *)

\* Where a request is: on its way, in the mutex of its client, in a handler.
Routing   == {"route", "evict"}
Connecting == {"connecting", "restore"}
Serving   == Methods \cup {"closing"}
Places    == {"idle", "dispatch", "connect"} \cup Routing \cup Connecting \cup Serving

RequestStates == [pc : Places, bot : Bots \cup {None}, client : 0..MaxCalls, todo : SUBSET Clients]

Shutdowns == [pc : {"up", "http", "list", "stop", "wait", "gc", "over"}, todo : SUBSET Clients,
              run : SUBSET Clients, conn : SUBSET Clients, drained : BOOLEAN, errors : BOOLEAN]

TypeOK ==
  /\ table \in [Bots -> 1..made \cup {None}] /\ made \in 0..MaxCalls /\ calls \in 0..MaxCalls
  /\ mmu \in Reqs \cup {None} /\ cmu \in [Clients -> Reqs \cup {None}]
  /\ ready \subseteq 1..made /\ failed \subseteq ready /\ live \subseteq ready
  /\ stopping \subseteq live /\ hook \subseteq ready
  /\ closing \subseteq ready /\ leaving \subseteq ready
  /\ gc \in {"rest", "work", "over"} /\ store \in {"open", "closed"}
  /\ req \in [Reqs -> RequestStates] /\ down \in Shutdowns
  /\ \A r \in Reqs : req[r].client \in 0..made /\ req[r].todo \subseteq 1..made

\* A bot has one connection: whatever the evictions and the requests that hold
\* an evicted client, no client that connects, is connected or delivers is out
\* of the table, where a second one for its bot would be made.
OneConnection ==
  \A c \in 1..made :
    c \in live \cup hook \/ cmu[c] # None => c \in Registered

\* A Shutdown that saw the requests end and reports no error has ended every
\* delivery and closed the store, and has told every connection to stop; it does
\* not wait for them to be down (manager.go:160-182, client.go:109-126).
CleanShutdown ==
  down.pc = "over" /\ down.drained /\ ~down.errors =>
    live \subseteq stopping /\ hook = {} /\ store = "closed"

\* The collector never runs on a closed store.
StoreOpenForGC == gc = "work" => store = "open"

-----------------------------------------------------------------------------
(* The inductive invariant behind the properties above.                    *)

\* A call makes one client at most.
MadeByCalls ==
  made + Cardinality({r \in Reqs : req[r].pc \in Routing}) <= calls

\* A request has a bot and, once it is routed, a client.
RequestsKnow ==
  \A r \in Reqs :
    /\ req[r].pc # "idle" => req[r].bot \in Bots
    /\ req[r].pc \notin {"idle"} \cup Routing => req[r].client \in 1..made

\* m.mu is kept by a request that evicts, whose bot has no client meanwhile.
Evicting ==
  \A r \in Reqs : req[r].pc = "evict" => mmu = r /\ table[req[r].bot] = None

\* c.mu is kept by the request that connects the client, or restores its webhook.
MutexesKept ==
  /\ \A r \in Reqs : req[r].pc \in Connecting => cmu[req[r].client] = r
  /\ \A c \in Clients : cmu[c] # None =>
       req[cmu[c]].client = c /\ req[cmu[c]].pc \in Connecting

\* Nothing of a client runs while it connects, and only handlers of a connected
\* client run.
ConnectingIsBare ==
  \A r \in Reqs : req[r].pc = "connecting" =>
    /\ req[r].client \in ready \ (failed \cup live \cup hook)
    /\ \A q \in Reqs : req[q].pc \in Serving => req[q].client # req[r].client

ServingConnected ==
  \A r \in Reqs : req[r].pc \in Serving \cup {"restore"} => req[r].client \in ready \ failed

\* A client that failed has nothing running; one that did not stays in the table.
FailedIsBare == failed \cap (live \cup hook) = {}
OnlyFailedLeave == \A c \in 1..made : c \in failed \cup Registered

\* What a shutdown that saw the requests end and met no error has still to stop.
Stopping ==
  LET ok   == down.drained /\ ~down.errors
      left == live \ stopping
  IN
  /\ down.drained => down.pc \notin {"up", "http"} /\ \A r \in Reqs : req[r].pc = "idle"
  /\ ok /\ down.pc = "stop" => left \cup hook \subseteq down.todo
  /\ ok /\ down.pc = "wait" =>
       left \subseteq down.todo \cup down.conn /\ hook \subseteq down.todo \cup down.run
  /\ ok /\ down.pc \in {"gc", "over"} => left \cup hook = {}
  /\ ok /\ down.pc = "over" => store = "closed"

ClosedAfterGC == store = "closed" => gc = "over"

\* What holds in every state and is kept by every step: who holds which mutex, where
\* each request is, what a client that connects or failed may have running, and what
\* a shutdown has still to end or tell to stop (manager.go, client.go,
\* cmd/mtgo-bot-api/main.go).
ServerInv ==
  /\ TypeOK /\ MadeByCalls /\ RequestsKnow /\ Evicting /\ MutexesKept
  /\ ConnectingIsBare /\ ServingConnected /\ FailedIsBare /\ OnlyFailedLeave
  /\ Stopping /\ ClosedAfterGC

-----------------------------------------------------------------------------
(* Liveness.                                                               *)

\* Every request is answered: m.mu is kept while waiting for the c.mu of every
\* client, c.mu over a connect, and no bot's connect stops the others for ever.
RequestsAnswered == \A r \in Reqs : req[r] # Idle ~> (req[r] = Idle \/ ~Up)

\* The shutdown comes to its end, although it takes both mutexes without
\* regard to its deadline.
ShutdownReturns == down.pc = "http" ~> down.pc = "over"

\* "so that webhooks survive server restarts" (webhook_handlers.go:46): once a
\* bot with a webhook row is connected, its deliverer runs at last.
WebhookSurvives ==
  \A c \in Clients :
    (\E r \in Reqs : req[r].pc = "restore" /\ req[r].client = c) ~> c \in hook

=============================================================================
