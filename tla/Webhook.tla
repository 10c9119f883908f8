------------------------------ MODULE Webhook ------------------------------
(***************************************************************************)
(* Who takes the updates of one bot: setWebhook, deleteWebhook and         *)
(* getUpdates (internal/client/webhook_handlers.go, getupdates.go) around  *)
(* the Start and StopContext of its Deliverer (internal/webhook/           *)
(* deliver.go).  Every request is a goroutine; requests of all kinds       *)
(* overlap.  The bot is connected and the process does not restart.        *)
(*                                                                         *)
(* A stretch under one mutex, a SQL statement and a wait are one step      *)
(* each.  c.mu is a variable because deleteWebhook keeps it over a wait;   *)
(* longPollMu and d.mu are held within steps only.  A delivery run is a    *)
(* number; what it POSTs is the matter of Deliverer.  Updates are not      *)
(* counted: a Get may always find some or none, and clearing them has no   *)
(* effect.  How much time passes is open.                                  *)
(***************************************************************************)
EXTENDS Integers, FiniteSets

CONSTANTS
  Setters,   \* goroutines that serve setWebhook with a url
  Deleters,  \* ... deleteWebhook, or setWebhook with an empty url
  Pollers,   \* ... getUpdates
  Urls,      \* webhook urls, each with its options
  Filters,   \* allowed_updates lists
  Default,   \* the filter a bot has that never set one
  None,
  MaxCalls   \* bound on the number of requests

Configs == [url : Urls, allowed : Filters]

ASSUME WebhookAssumption ==
  /\ Setters \cap Deleters = {} /\ Setters \cap Pollers = {} /\ Deleters \cap Pollers = {}
  /\ None \notin Urls \cup Filters \cup Configs \cup Setters \cup Deleters \cup Pollers
  /\ Default \in Filters /\ MaxCalls \in Nat

Runs == 1..MaxCalls

VARIABLES
  \* bot.db
  row,         \* the webhook_config row, None without one
  \* Client
  allowed,     \* c.allowedUpdates
  busy,        \* c.webhookSetBusy
  cmu,         \* the goroutine that keeps c.mu, None when it is free
  registered,  \* the getUpdates whose longPollCancel and longPollConflict are set
  \* Deliverer
  active,      \* d.active
  config,      \* d.cfg
  cur,         \* the run d.cancel and d.done belong to, 0 before the first
  on,          \* runs whose goroutine has not returned
  cancelled,   \* runs whose context is cancelled
  closing,     \* runs that tried to delete the row and have not cleared d.active
  \* the requests
  calls,       \* number of requests so far
  set,         \* what each setWebhook is doing
  del,         \* ... each deleteWebhook
  poll,        \* ... each getUpdates
  conflict,    \* getUpdates requests with a conflict in their channel
  aborted,     \* getUpdates requests whose pollCtx is cancelled
  \* history
  aborts,      \* number of setWebhook calls that aborted the long poll
  faults       \* mishaps that leave row and deliverer apart

db      == row
client  == <<allowed, busy, cmu, registered>>
webhook == <<active, config, cur, on, cancelled, closing>>
polls   == <<poll, conflict, aborted>>
vars == <<db, client, webhook, calls, set, del, polls, aborts, faults>>

SetIdle  == [pc |-> "idle", cfg |-> None, run |-> 0]
DelIdle  == [pc |-> "idle", run |-> 0]
PollIdle == [pc |-> "idle", long |-> FALSE, since |-> 0]

Init ==
  /\ row = None /\ allowed = Default
  /\ busy = FALSE /\ cmu = None /\ registered = None
  /\ active = FALSE /\ config = None /\ cur = 0 /\ on = {} /\ cancelled = {} /\ closing = {}
  /\ calls = 0
  /\ set = [s \in Setters |-> SetIdle]
  /\ del = [d \in Deleters |-> DelIdle]
  /\ poll = [p \in Pollers |-> PollIdle]
  /\ conflict = {} /\ aborted = {}
  /\ aborts = 0 /\ faults = {}

Call == calls < MaxCalls /\ calls' = calls + 1

Setting  == {s \in Setters : set[s].pc \notin {"idle", "check"}}
Deleting == {d \in Deleters : del[d].pc # "idle"}

\* Between SetWebhookConfig and the run that delivers to it.
Stored == {s \in Setters : set[s].pc \in {"verify", "undo", "start", "wait"}}

\* s goes to a step, d goes to a step.
SetAt(s, pc)  == set' = [set EXCEPT ![s].pc = pc]
SetEnds(s)    == set' = [set EXCEPT ![s] = SetIdle]
DelAt(d, pc)  == del' = [del EXCEPT ![d].pc = pc]

\* Mutant: the registered poll is cancelled and not told of a conflict.
AbortByCancelOnly == aborted' = aborted \cup ({registered} \ {None}) /\ UNCHANGED conflict

\* abortLongPollLocked: the registered poll finds a conflict in its channel,
\* which holds one; it is cancelled if there was one already.
AbortLongPoll ==
  /\ conflict' = conflict \cup ({registered} \ {None})
  /\ aborted' = aborted \cup ({registered} \cap conflict)

-----------------------------------------------------------------------------
(* setWebhook.                                                             *)

\* Mutant: without allowed_updates the configuration gets the default filter.
FilterOrDefault(filter) == IF filter = None THEN Default ELSE filter

\* The filter of the new configuration: the argument, else the current one.
FilterFor(filter) == IF filter = None THEN allowed ELSE filter

\* The arguments are read; allowed_updates takes effect at once.
SetArgs(s) ==
  \E url \in Urls, filter \in Filters \cup {None} :
    /\ set[s].pc = "idle" /\ cmu = None /\ Call
    /\ allowed' = IF filter = None THEN allowed ELSE filter
    /\ set' = [set EXCEPT ![s] = [pc |-> "check", run |-> 0,
                                  cfg |-> [url |-> url, allowed |-> FilterFor(filter)]]]
    /\ faults' = faults \cup (IF \E t \in Setters : set[t].pc # "idle" THEN {"crossed"} ELSE {})
    /\ UNCHANGED <<db, busy, cmu, registered, webhook, del, polls, aborts>>

\* 400 for a bad url, token or certificate, or 429: another is busy, or a second
\* has not passed since it was (nextSetWebhook).
SetRefused(s) ==
  /\ set[s].pc = "check"
  /\ SetEnds(s)
  /\ faults' = faults \cup {"refused"}
  /\ UNCHANGED <<db, client, webhook, calls, del, polls, aborts>>

\* One setWebhook at a time.
SetEnters(s) ==
  /\ set[s].pc = "check" /\ cmu = None
  /\ ~busy /\ busy' = TRUE
  /\ SetAt(s, "same")
  /\ faults' = faults \cup (IF Deleting # {} THEN {"overlap"} ELSE {})
  /\ UNCHANGED <<db, allowed, cmu, registered, webhook, calls, del, polls, aborts>>

\* "Webhook is already set", unless drop_pending_updates is given.
SetSame(s) ==
  /\ set[s].pc = "same"
  /\ \/ SetAt(s, "abort")
     \/ row = set[s].cfg /\ SetAt(s, "free")
  /\ UNCHANGED <<db, client, webhook, calls, del, polls, aborts, faults>>

SetAborts(s) ==
  /\ set[s].pc = "abort"
  /\ AbortLongPoll
  /\ aborts' = aborts + 1
  /\ SetAt(s, "store")
  /\ UNCHANGED <<db, client, webhook, calls, del, poll, faults>>

\* SetWebhookConfig, 500 when the statement fails.
SetStores(s) ==
  /\ set[s].pc = "store"
  /\ \/ row' = set[s].cfg /\ SetAt(s, "verify")
        /\ UNCHANGED faults
     \/ UNCHANGED row /\ SetAt(s, "free")
        /\ faults' = faults \cup {"refused"}
  /\ UNCHANGED <<client, webhook, calls, del, polls, aborts>>

\* ensureDeliverer and Verify, which dials the webhook for up to 10 seconds.
SetVerifies(s) ==
  /\ set[s].pc = "verify" /\ cmu = None
  /\ \E ok \in BOOLEAN : SetAt(s, IF ok THEN "start" ELSE "undo")
  /\ UNCHANGED <<db, client, webhook, calls, del, polls, aborts, faults>>

\* Verify failed: the row goes, unless the request was cancelled and with it
\* this statement.  The run that delivers to the webhook before goes on.
SetUndoes(s) ==
  /\ set[s].pc = "undo"
  /\ \/ row' = None /\ faults' = faults \cup {"unverified"}
     \/ UNCHANGED row /\ faults' = faults \cup {"abandoned"}
  /\ SetAt(s, "free")
  /\ UNCHANGED <<client, webhook, calls, del, polls, aborts>>

\* Start, while a run is active: cancel it and wait for its end.
StartCancels(s) ==
  /\ set[s].pc = "start" /\ active
  /\ cancelled' = cancelled \cup {cur}
  /\ set' = [set EXCEPT ![s].pc = "wait", ![s].run = cur]
  /\ UNCHANGED <<db, client, active, config, cur, on, closing, calls, del, polls, aborts, faults>>

\* Mutant: Start does not wait for the run it cancelled.
LaunchAtOnce(s) ==
  \/ set[s].pc = "start" /\ ~active
  \/ set[s].pc = "wait"

\* Nothing was active, or the run cancelled has ended.
MayLaunch(s) ==
  \/ set[s].pc = "start" /\ ~active
  \/ set[s].pc = "wait" /\ set[s].run \notin on

\* Start goes on: a new run.  Two Starts are a second apart, so a goroutine
\* has begun before d.done is replaced.
StartLaunches(s) ==
  /\ MayLaunch(s)
  /\ config' = set[s].cfg /\ active' = TRUE
  /\ cur' = cur + 1 /\ on' = on \cup {cur + 1}
  /\ SetAt(s, "free")
  /\ faults' = faults \cup (IF \E d \in Deleters : del[d].pc = "halt" THEN {"raced"} ELSE {})
  /\ UNCHANGED <<db, client, cancelled, closing, calls, del, polls, aborts>>

\* The deferred release, and the answer.
SetLeaves(s) ==
  /\ set[s].pc = "free" /\ cmu = None
  /\ busy' = FALSE
  /\ SetEnds(s)
  /\ UNCHANGED <<db, allowed, cmu, registered, webhook, calls, del, polls, aborts, faults>>

SetStep(s) ==
  \/ SetRefused(s) \/ SetEnters(s) \/ SetSame(s) \/ SetAborts(s) \/ SetStores(s)
  \/ SetVerifies(s) \/ SetUndoes(s) \/ StartCancels(s) \/ StartLaunches(s) \/ SetLeaves(s)

-----------------------------------------------------------------------------
(* doDeleteWebhook.                                                        *)

DelReads(d) ==
  /\ del[d].pc = "idle" /\ Call
  /\ DelAt(d, "lock")
  /\ faults' = faults \cup (IF Setting # {} THEN {"overlap"} ELSE {})
  /\ UNCHANGED <<db, client, webhook, set, polls, aborts>>

\* c.mu is taken, and kept over StopContext: the active run is cancelled.
DelLocks(d) ==
  /\ del[d].pc = "lock" /\ cmu = None
  /\ IF active
     THEN /\ cmu' = d
          /\ cancelled' = cancelled \cup {cur}
          /\ del' = [del EXCEPT ![d] = [pc |-> "halt", run |-> cur]]
     ELSE /\ DelAt(d, "erase")
          /\ UNCHANGED <<cmu, cancelled>>
  /\ UNCHANGED <<db, allowed, busy, registered, active, config, cur, on, closing, calls,
                 set, polls, aborts, faults>>

\* Mutant: StopContext forgets to note that nothing is active.
DelLeavesActive(d) ==
  /\ del[d].pc = "halt" /\ del[d].run \notin on
  /\ cmu' = None
  /\ DelAt(d, "erase")
  /\ UNCHANGED <<db, allowed, busy, registered, webhook, calls, set, polls, aborts, faults>>

\* StopContext has seen the run end.
DelHalts(d) ==
  /\ del[d].pc = "halt" /\ del[d].run \notin on
  /\ active' = FALSE /\ cmu' = None
  /\ DelAt(d, "erase")
  /\ UNCHANGED <<db, allowed, busy, registered, config, cur, on, cancelled, closing, calls,
                 set, polls, aborts, faults>>

\* DeleteWebhookConfig, 500 when it fails; Clear for drop_pending_updates.
DelErases(d) ==
  /\ del[d].pc = "erase"
  /\ \/ row' = None /\ UNCHANGED faults
     \/ UNCHANGED row /\ faults' = faults \cup {"kept"}
  /\ del' = [del EXCEPT ![d] = DelIdle]
  /\ UNCHANGED <<client, webhook, calls, set, polls, aborts>>

DelStep(d) == DelLocks(d) \/ DelHalts(d) \/ DelErases(d)

-----------------------------------------------------------------------------
(* A delivery run ends.                                                    *)

\* Mutant: the run reports to handleWebhookDeliveryStatus, which takes c.mu,
\* itself and not in a goroutine of its own.
RunEndsAfterReport(r) ==
  /\ r \in on \cap cancelled /\ r \notin closing /\ cmu = None
  /\ on' = on \ {r}
  /\ UNCHANGED <<db, client, active, config, cur, cancelled, closing, calls, set, del, polls,
                 aborts, faults>>

RunEnds(r) ==
  /\ r \in on \cap cancelled /\ r \notin closing
  /\ on' = on \ {r}
  /\ UNCHANGED <<db, client, active, config, cur, cancelled, closing, calls, set, del, polls,
                 aborts, faults>>

\* Sustained 410: DeleteWebhookConfig, whose error is ignored.  It fails if the
\* run was cancelled, and may fail if not ...
RunErases(r) ==
  /\ r \in on \ closing
  /\ closing' = closing \cup {r}
  /\ \/ r \notin cancelled /\ row' = None
        /\ faults' = faults \cup (IF Stored # {} THEN {"closed"} ELSE {})
     \/ UNCHANGED row
        /\ faults' = faults \cup (IF r \in cancelled THEN {} ELSE {"kept"})
  /\ UNCHANGED <<client, active, config, cur, on, cancelled, calls, set, del, polls, aborts>>

\* ... then, apart from it, d.active is cleared, and the run returns.
RunRests(r) ==
  /\ r \in closing
  /\ active' = FALSE /\ on' = on \ {r} /\ closing' = closing \ {r}
  /\ UNCHANGED <<db, client, config, cur, cancelled, calls, set, del, polls, aborts, faults>>

RunGoes(r) == RunEnds(r) \/ RunRests(r)

-----------------------------------------------------------------------------
(* getUpdates.                                                             *)

\* Mutant: busy is not looked at.
SeesBusyNever == FALSE

\* hasActiveWebhook reads busy under c.mu ...
SeesBusy == busy

PollArrives(p) ==
  /\ poll[p].pc = "idle" /\ cmu = None /\ Call
  /\ poll' = IF SeesBusy THEN poll
             ELSE [poll EXCEPT ![p] = [pc |-> "active?", long |-> FALSE, since |-> aborts]]
  /\ UNCHANGED <<db, client, webhook, set, del, conflict, aborted, aborts, faults>>

\* ... then IsActive, then the row: 409 if one of them says so.
PollChecksActive(p) ==
  /\ poll[p].pc = "active?"
  /\ poll' = IF active THEN [poll EXCEPT ![p] = PollIdle] ELSE [poll EXCEPT ![p].pc = "row?"]
  /\ UNCHANGED <<db, client, webhook, calls, set, del, conflict, aborted, aborts, faults>>

PollChecksRow(p) ==
  /\ poll[p].pc = "row?"
  /\ poll' = IF row # None THEN [poll EXCEPT ![p] = PollIdle] ELSE [poll EXCEPT ![p].pc = "join"]
  /\ UNCHANGED <<db, client, webhook, calls, set, del, conflict, aborted, aborts, faults>>

\* allowed_updates takes effect, and a long poll registers in place of another.
PollJoins(p) ==
  \E long \in BOOLEAN, filter \in Filters \cup {None} :
    /\ poll[p].pc = "join" /\ cmu = None
    /\ allowed' = IF filter = None THEN allowed ELSE filter
    /\ poll' = [poll EXCEPT ![p].pc = "get", ![p].long = long]
    /\ IF long THEN AbortLongPoll /\ registered' = p
               ELSE UNCHANGED <<conflict, aborted, registered>>
    /\ faults' = faults \cup
         (IF filter # None /\ (row # None \/ \E s \in Setters : set[s].pc # "idle")
          THEN {"late"} ELSE {})
    /\ UNCHANGED <<db, busy, cmu, webhook, calls, set, del, aborts>>

\* Mutant: whoever leaves clears the registration.
RegistrationCleared(p) == None

\* The deferred clean-up of a long poll.
RegistrationWithout(p) == IF registered = p THEN None ELSE registered

\* The answer of p: updates, nothing, or the conflict it was told of, maybe
\* after a delay.
PollAnswers(p) ==
  /\ poll[p].pc = "get"
  /\ poll' = [poll EXCEPT ![p] = PollIdle]
  /\ registered' = IF poll[p].long THEN RegistrationWithout(p) ELSE registered
  /\ conflict' = conflict \ {p} /\ aborted' = aborted \ {p}
  /\ UNCHANGED <<db, allowed, busy, cmu, webhook, calls, set, del, aborts, faults>>

PollStep(p) == PollChecksActive(p) \/ PollChecksRow(p) \/ PollJoins(p) \/ PollAnswers(p)

-----------------------------------------------------------------------------
Next ==
  \/ \E s \in Setters : SetArgs(s) \/ SetStep(s)
  \/ \E d \in Deleters : DelReads(d) \/ DelStep(d)
  \/ \E p \in Pollers : PollArrives(p) \/ PollStep(p)
  \/ \E r \in Runs : RunErases(r) \/ RunGoes(r)

Spec == Init /\ [][Next]_vars

\* A request goes on (statements and Verify are bounded in time, a waiter for
\* c.mu gets it at last), a run that was cancelled or closes returns, and a
\* second passes.  A poll may always be kept waiting by its timeout; it needs no
\* fairness.
Fairness ==
  /\ \A s \in Setters : WF_vars(SetStep(s))
  /\ \A d \in Deleters : WF_vars(DelStep(d))
  /\ \A r \in Runs : WF_vars(RunGoes(r))

FairSpec == Spec /\ Fairness

-----------------------------------------------------------------------------
(* Properties.                                                             *)

\* Where a setWebhook, a deleteWebhook and a getUpdates are.
SetStates ==
  [pc : {"idle", "check", "same", "abort", "store", "verify", "undo", "start", "wait", "free"},
   cfg : Configs \cup {None}, run : Nat]
DelStates  == [pc : {"idle", "lock", "halt", "erase"}, run : Nat]
PollStates == [pc : {"idle", "active?", "row?", "join", "get"}, long : BOOLEAN, since : Nat]

TypeOK ==
  /\ row \in Configs \cup {None} /\ config \in Configs \cup {None}
  /\ allowed \in Filters /\ busy \in BOOLEAN
  /\ cmu \in Deleters \cup {None} /\ registered \in Pollers \cup {None}
  /\ active \in BOOLEAN /\ cur \in Nat /\ on \subseteq 1..cur /\ cancelled \subseteq 1..cur
  /\ closing \subseteq on
  /\ set \in [Setters -> SetStates] /\ \A s \in Setters : set[s].run <= cur
  /\ del \in [Deleters -> DelStates] /\ \A d \in Deleters : del[d].run <= cur
  /\ poll \in [Pollers -> PollStates] /\ \A p \in Pollers : poll[p].since <= aborts
  /\ aborts \in Nat
  /\ conflict \subseteq Pollers /\ aborted \subseteq conflict

\* IsActive is exact, and no two runs take the updates of one bot, as long as
\* no Start of a setWebhook launched its run inside the StopContext of a
\* deleteWebhook (deliver.go:173-198, 291-307).
RunsExact ==
  "raced" \notin faults =>
    /\ \A r \in on : r = cur
    /\ ~active => on = {}

\* Mishaps of the filter only; those and a DELETE that failed.
Filtering == {"refused", "crossed", "late"}
Leftovers == Filtering \cup {"kept"}

Quiet == Setting = {} /\ Deleting = {}

\* Between requests, what runs is the webhook of the row, and a row has a run.
\* A failed DELETE of a deleteWebhook or of a close for sustained 410, whose
\* error nobody sees, may leave a row without a run, but never a run without its
\* row, which ends when the close does.  Excepted are a setWebhook that failed to
\* verify or to undo, one that overlapped a deleteWebhook, and one whose new row
\* the close deleted.
RowAgrees ==
  Quiet =>
    /\ faults \subseteq Leftovers /\ closing = {} /\ active => row = config
    /\ faults \subseteq Filtering /\ row # None => active

\* The filter of the updates is the one of the row, except after a refused
\* setWebhook, whose allowed_updates stay, one that overlapped another, a
\* getUpdates that got in before the webhook and set its filter after, or an
\* exception of RowAgrees; a row whose DELETE failed keeps its filter.
FilterAgrees ==
  Quiet /\ row # None /\ faults \subseteq {"kept"} /\ (\A s \in Setters : set[s].pc = "idle")
    => allowed = row.allowed

\* "only one long poll per bot" (client.go:68): a long poll that waits and was
\* not told to end is the registered one, whatever polls and setWebhooks
\* come and go, so that the next of them can end it.
OneLongPoll ==
  \A p \in Pollers :
    poll[p].pc = "get" /\ poll[p].long /\ p \notin conflict => registered = p

\* "getUpdates is forbidden while a webhook is active" (getupdates.go:40): a
\* poll that goes on beside a webhook had looked for one before the setWebhook
\* aborted the polls; none that looked later gets in.
PollsBesideWebhookAreOld ==
  active => \A p \in Pollers : poll[p].pc \in {"join", "get"} => poll[p].since < aborts

-----------------------------------------------------------------------------
(* The inductive invariant behind the properties above.                    *)

\* One setWebhook at a time is past its check, and busy says so.
OneSetting ==
  /\ \A s, t \in Setting : s = t
  /\ Setting # {} => busy

\* A setWebhook past its arguments has a configuration; only what was started is
\* active.
Configured ==
  /\ \A s \in Setters : set[s].pc # "idle" => set[s].cfg \in Configs
  /\ active => cur > 0 /\ config \in Configs

\* A Start waits for the last run, and so does a StopContext no Start raced with.
WaitsForLast ==
  /\ \A s \in Setters : set[s].pc = "wait" => set[s].run = cur
  /\ "raced" \notin faults => \A d \in Deleters : del[d].pc = "halt" => del[d].run = cur

\* Somebody waits for a cancelled run that has not returned.
CancelledAwaited ==
  "raced" \notin faults => \A r \in on \cap cancelled :
    \/ \E s \in Setters : set[s].pc = "wait"
    \/ \E d \in Deleters : del[d].pc = "halt"

\* What holds of row and deliverer while requests and a close work on them, as
\* long as nothing went wrong but filters and DELETEs: the run delivers to the
\* webhook of the row.
RowInStep ==
  /\ Setting = {} \/ Deleting = {}
  /\ \A s \in Stored : row = set[s].cfg
  /\ Stored = {} /\ active => row = config \/ (row = None /\ closing # {})
  /\ Setting = {} => \A d \in Deleters : del[d].pc = "erase" => ~active

RowFollows == faults \subseteq Leftovers => RowInStep

\* If no DELETE failed either, a row has a run, or somebody who deletes it.
RowServed ==
  faults \subseteq Filtering /\ Stored = {} /\ row # None =>
    \/ active /\ closing = {}
    \/ \E d \in Deleters : del[d].pc \in {"halt", "erase"}

\* What holds of the filter, as long as nothing went wrong but DELETEs.
FilterInStep ==
  /\ \A s, t \in Setters : set[s].pc # "idle" /\ set[t].pc # "idle" => s = t
  /\ \A s \in Setters : set[s].pc # "idle" => allowed = set[s].cfg.allowed
  /\ \A s \in Setters : set[s].pc = "free" => row \in {set[s].cfg, None}
  /\ (\A s \in Setters : set[s].pc = "idle") => row = None \/ allowed = row.allowed

FilterFollows == faults \subseteq {"kept"} => FilterInStep

\* A poll that was there when a setWebhook aborted the polls arrived before; one
\* that saw no webhook after the last abort is right about it.
PollsLookLate ==
  /\ \A s \in Setters, p \in Pollers :
       set[s].pc \in {"store", "verify", "undo", "start", "wait"} /\ poll[p].pc # "idle"
         => poll[p].since < aborts
  /\ \A p \in Pollers :
       poll[p].pc \in {"row?", "join", "get"} /\ poll[p].since = aborts => ~active

\* What holds in every state and is kept by every step of the requests and runs
\* of one bot (webhook_handlers.go, deliver.go:165-307, getupdates.go).
WebhookInv ==
  /\ TypeOK /\ OneSetting /\ Configured /\ WaitsForLast /\ CancelledAwaited /\ RunsExact
  /\ RowFollows /\ RowServed /\ FilterFollows /\ OneLongPoll /\ PollsLookLate

\* Every setWebhook and deleteWebhook is answered, although one waits for a run
\* to end while it keeps c.mu and the other for c.mu while it is busy.
RequestsEnd ==
  /\ \A s \in Setters : set[s].pc # "idle" ~> set[s].pc = "idle"
  /\ \A d \in Deleters : del[d].pc # "idle" ~> del[d].pc = "idle"

=============================================================================
