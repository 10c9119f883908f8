------------------------------ MODULE Requests ------------------------------
(* A request for a Bot API method from Dispatch to its answer, next to what
   Telegram does to the bot's chats and to the updates that report it: the
   handlers of SendMethods, ChatMethods and BotMethods step by step, with the
   peer cache they read and write.  There is one chat of each type, named by
   its type; the channel has a username.                                     *)
EXTENDS Integers, ChatMethods, BotMethods

CONSTANTS
  Methods,        \* the methods that are asked for
  RawOf,          \* the raw id of the chat of each type: the key of its row
  MemberIdIsRaw,  \* mtgo gives Chat.ID of a member update as the raw id
  MaxEvents,      \* bound: changes of the bot's chats and messages in them
  MaxInFlight     \* bound: updates on their way

VARIABLES
  member,    \* what the bot is in the group and in the channel, on Telegram
  upgraded,  \* the group was upgraded to a supergroup
  wasOut,    \* the chats the bot has not been able to write to at some time
  online,    \* ensureConnected has succeeded: rpc and store are there
  rows,      \* table peers, by raw id
  inflight,  \* updates Telegram has sent and ingest has not seen
  events,    \* counts the steps of the environment
  req        \* the request being served

vars == <<member, upgraded, wasOut, online, rows, inflight, events, req>>

Types == {"user", "chat", "channel"}
Groups == {"chat", "channel"}
RawIds == {RawOf[t] : t \in Types}
Ways ==
  [m \in DOMAIN SendWays \cup DOMAIN ChatWays \cup DOMAIN BotWays |->
     IF m \in DOMAIN SendWays THEN SendWays[m]
     ELSE IF m \in DOMAIN ChatWays THEN ChatWays[m] ELSE BotWays[m]]

ASSUME RequestsAssumption ==
  /\ Methods \subseteq DOMAIN Ways
  /\ RawOf \in [Types -> Nat]
  /\ MemberIdIsRaw \in BOOLEAN
  /\ MaxEvents \in Nat /\ MaxInFlight \in Nat

-----------------------------------------------------------------------------
(* The peer cache: one row per raw id, whatever the type of the peer.        *)

NoRow == [type |-> "none", status |-> "", named |-> FALSE,
          deactivated |-> FALSE, migrated |-> FALSE]

Cached(t) == rows[RawOf[t]].type # "none"

\* Columns other than access_hash, type, username and first_name are kept;
\* `named`: the username is the channel's, which only a resolved one sets.
SavePeer(R, t, named) ==
  [R EXCEPT ![RawOf[t]].type = t, ![RawOf[t]].named = named]

SaveChatFlags(R, t, deactivated, migrated) ==
  IF R[RawOf[t]].type = "none" THEN R
  ELSE [R EXCEPT ![RawOf[t]].deactivated = deactivated,
                 ![RawOf[t]].migrated = migrated]

SaveBotMemberStatus(R, t, status) ==
  IF status = "" \/ R[RawOf[t]].type = "none" THEN R
  ELSE [R EXCEPT ![RawOf[t]].status = status]

\* What Telegram shows of a chat: a forbidden chat to a bot that was kicked.
EntityOf(t, membership, isUpgraded) ==
  [chat |-> t,
   form |-> CASE t = "user" -> "user"
              [] t \in Groups /\ membership[t] = "in" -> "here"
              [] t \in Groups /\ membership[t] = "left" -> "left"
              [] OTHER -> "forbidden",
   upgraded |-> t = "chat" /\ isUpgraded]
Entity(t) == EntityOf(t, member, upgraded)

\* Mutant: Left is not looked at, every chat counts as left.
SaveAsLeft(R, e) == SaveBotMemberStatus(SavePeer(R, e.chat, FALSE), e.chat, "left")

\* updates.go: an update about a user or a chat carries it.
saveChatPeer(R, e) ==
  LET saved == SavePeer(R, e.chat, FALSE)
      flagged == SaveChatFlags(saved, e.chat, e.upgraded, e.upgraded)
  IN CASE e.form = "user" -> saved
       [] e.form = "here" -> flagged
       [] e.form = "left" -> SaveBotMemberStatus(flagged, e.chat, "left")
       [] e.form = "forbidden" /\ e.chat = "channel" ->
            SaveBotMemberStatus(flagged, e.chat, "kicked")
       [] OTHER -> SaveBotMemberStatus(saved, e.chat, "kicked")

\* peer_warmup.go: the bot's dialogs, users first, or none when getDialogs
\* fails; a chat the bot has left is no dialog.  MigratedTo is not read.
warmDialog(R, e) ==
  LET saved == SavePeer(R, e.chat, FALSE)
  IN CASE e.form = "here" -> SaveChatFlags(saved, e.chat, e.upgraded, FALSE)
       [] e.form = "forbidden" -> SaveBotMemberStatus(saved, e.chat, "kicked")
       [] OTHER -> saved

warmPeerCache(R, dialogs) ==
  LET warm(t, acc) == IF t \in dialogs THEN warmDialog(acc, Entity(t)) ELSE acc
  IN warm("channel", warm("chat", warm("user", R)))

Dialogs == {{}, {t \in Types : Entity(t).form # "left"}}

-----------------------------------------------------------------------------
(* The bot's chats change, and updates report it.                            *)

NoRequest ==
  [at |-> "idle", method |-> "", addr |-> "", rest |-> {}, target |-> "",
   changed |-> {}, seen |-> "", answer |-> ""]

Init ==
  /\ member = [t \in Groups |-> "in"]
  /\ upgraded = FALSE
  /\ wasOut = {}
  /\ online = FALSE
  /\ rows = [r \in RawIds |-> NoRow]
  /\ inflight = <<>>
  /\ events = 0
  /\ req = NoRequest

Event ==
  /\ events < MaxEvents /\ Len(inflight) < MaxInFlight
  /\ events' = events + 1

\* An update with the chat as it now is; `own`: what it says of the bot itself.
Sends(t, own) ==
  inflight' = Append(inflight,
                     [entity |-> EntityOf(t, member', upgraded'), own |-> own])

\* The bot is removed from a chat, or leaves it through another session.
Removed(t, how) ==
  /\ Event
  /\ member[t] = "in" /\ (t = "chat" => ~upgraded)
  /\ member' = [member EXCEPT ![t] = how]
  /\ wasOut' = wasOut \cup {t}
  /\ UNCHANGED upgraded
  /\ Sends(t, how)
  /\ UNCHANGED <<online, rows, req>>

Joined(t) ==
  /\ Event
  /\ member[t] # "in" /\ (t = "chat" => ~upgraded)
  /\ member' = [member EXCEPT ![t] = "in"]
  /\ UNCHANGED upgraded
  /\ Sends(t, "member")
  /\ UNCHANGED <<wasOut, online, rows, req>>

Upgraded ==
  /\ Event
  /\ member["chat"] = "in" /\ ~upgraded
  /\ upgraded' = TRUE
  /\ UNCHANGED member
  /\ wasOut' = wasOut \cup {"chat"}
  /\ Sends("chat", "")
  /\ UNCHANGED <<online, rows, req>>

\* A message in a chat of the bot.
Message(t) ==
  /\ Event
  /\ t \in Groups => member[t] = "in"
  /\ UNCHANGED <<member, upgraded>>
  /\ Sends(t, "")
  /\ UNCHANGED <<wasOut, online, rows, req>>

\* ingest, in the goroutine that hands out mtgo's updates.
Ingest ==
  /\ online /\ inflight # <<>>
  /\ LET u == Head(inflight)
         saved == saveChatPeer(rows, u.entity)
     IN rows' = IF MemberIdIsRaw
                THEN SaveBotMemberStatus(saved, u.entity.chat, u.own)
                ELSE saved
  /\ inflight' = Tail(inflight)
  /\ UNCHANGED <<member, upgraded, wasOut, online, events, req>>

-----------------------------------------------------------------------------
(* Dispatch.                                                                 *)

\* A request names its chat where the method has one to name.
ChatSteps == {"parsed", "resolved", "writable", "only", "when"}
TakesChat(m) ==
  \E p \in Ways[m] : \E i \in DOMAIN p : p[i].kind \in ChatSteps
Addresses(m) == IF TakesChat(m) THEN Types \cup {"@channel"} ELSE {""}

Receive(m, addr) ==
  /\ req.at = "idle"
  /\ req' = [NoRequest EXCEPT !.at = "gate", !.method = m, !.addr = addr,
                              !.rest = Ways[m], !.target = "elsewhere"]
  /\ UNCHANGED <<member, upgraded, wasOut, online, rows, inflight, events>>

Answers(answer) ==
  req' = [req EXCEPT !.at = "done", !.answer = answer, !.rest = {}]

\* The flood gate of large uploads.
Throttle ==
  /\ req.at = "gate"
  /\ Answers("refused")
  /\ UNCHANGED <<member, upgraded, wasOut, online, rows, inflight, events>>

Enter(addr) == req' = [req EXCEPT !.at = "run", !.addr = addr]

Handle ==
  /\ req.at = "gate" /\ req.addr # "@channel"
  /\ Enter(req.addr)
  /\ UNCHANGED <<member, upgraded, wasOut, online, rows, inflight, events>>

\* A @username is resolved, from the cache or live, or left for the handler to
\* refuse; ensureConnected comes first, and its failure leaves it too.
warmUsernamePeers ==
  /\ req.at = "gate" /\ req.addr = "@channel"
  /\ UNCHANGED <<member, upgraded, wasOut, inflight, events>>
  /\ \/ ~online /\ Enter("@channel") /\ UNCHANGED <<online, rows>>
     \/ \E dialogs \in IF online THEN {{}} ELSE Dialogs :
          LET warm == IF online THEN rows ELSE warmPeerCache(rows, dialogs)
              known == warm[RawOf["channel"]].named
          IN /\ online' = TRUE
             /\ \/ known /\ Enter("channel") /\ rows' = warm
                \/ ~known /\ Enter("@channel") /\ rows' = warm
                \/ /\ ~known /\ Enter("channel")
                   /\ rows' = SavePeer(warm, "channel", TRUE)

-----------------------------------------------------------------------------
(* The steps of a handler.                                                   *)

Heads == {p[1] : p \in req.rest \ {<<>>}}
Pending(kinds) ==
  {s \in Heads : req.at = "run" /\ s.kind \in kinds}
After(s) == {Tail(p) : p \in {q \in req.rest : q # <<>> /\ q[1] = s}}

\* The handler passes step s, and what it then has: a target, a change.
Pass(s) == req' = [req EXCEPT !.rest = After(s)]
PassTo(s, target) == req' = [req EXCEPT !.rest = After(s), !.target = target]

\* Telegram's side and the updates stay as they are, as nearly always; and what
\* the server keeps, as mostly.
Quietly == UNCHANGED <<member, upgraded, wasOut, inflight, events>>
Plainly == Quietly /\ UNCHANGED <<online, rows>>

\* Checks that depend on arguments the model does not have.
CheckArguments ==
  \E s \in Pending({"args", "other"}) :
    (Pass(s) \/ Answers("refused")) /\ Plainly

\* Checks of chat_id: its form, its type, for a user whether it is cached.
CheckChat ==
  \E s \in Pending({"parsed", "only", "cached"}) :
    LET passes == \/ s.kind = "parsed" /\ req.addr # "@channel"
                  \/ s.kind = "only" /\ req.addr \in s.what
                  \/ s.kind = "cached" /\ Cached(req.addr)
    IN (IF passes THEN Pass(s) ELSE Answers("refused")) /\ Plainly

Branch ==
  \E s \in Pending({"when", "whenPeer"}) :
    /\ (IF s.kind = "when" THEN req.addr ELSE req.target) \in s.what
    /\ Pass(s) /\ Plainly

\* chat_access.go: what the cached row forbids; nothing while there is no store.
Forbidden(addr) ==
  IF ~online \/ addr \notin Types \/ ~Cached(addr) THEN ""
  ELSE LET row == rows[RawOf[addr]]
       IN CASE addr = "chat" /\ row.deactivated /\ row.migrated -> "upgraded"
            [] addr # "channel" /\ row.deactivated -> "forbidden"
            [] addr # "user" /\ row.status \in {"kicked", "left"} -> "forbidden"
            [] OTHER -> ""

CheckWriteAccess ==
  \E s \in Pending({"writable"}) :
    /\ IF Forbidden(req.addr) = "" THEN Pass(s)
       ELSE Answers(Forbidden(req.addr))
    /\ Plainly

\* ensureConnected: a failed connect is the answer; the first one that succeeds
\* warms the cache.
Connect ==
  \E s \in Pending({"connected"}) :
    /\ Quietly
    /\ \/ online /\ Pass(s) /\ UNCHANGED <<online, rows>>
       \/ ~online /\ Answers("unavailable") /\ UNCHANGED <<online, rows>>
       \/ /\ ~online /\ online' = TRUE
          /\ Pass(s)
          /\ \E dialogs \in Dialogs : rows' = warmPeerCache(rows, dialogs)

\* convert.ResolvePeer: a row decides the type of the peer; without one the
\* sign and the prefix of the id do.  A group never needs a row.
ResolvePeer(addr) ==
  IF addr = "chat" \/ ~online \/ ~Cached(addr) THEN addr
  ELSE rows[RawOf[addr]].type

Resolve ==
  \E s \in Pending({"resolved", "inputChannel", "signedChat", "myself"}) :
    /\ CASE s.kind = "resolved" ->
              IF req.addr \in Types THEN PassTo(s, ResolvePeer(req.addr))
              ELSE Answers("refused")
         [] s.kind = "inputChannel" -> PassTo(s, "channel")
         [] s.kind = "signedChat" -> PassTo(s, "nobody")
         [] s.kind = "myself" -> PassTo(s, "the bot")
    /\ Plainly

-----------------------------------------------------------------------------
(* Calls, which need the connection: without it c.rpc is nil.                *)

Reads == {"asks", "looks", "peeks", "introduces", "uploads", "forgives"}
Changes == {"does", "leaves"}
Calls(kinds) == {s \in Pending(kinds) : online}

\* Telegram answers, refuses, or its answer is lost.  A bot that was kicked
\* sees nothing of the channel.
Ask ==
  \E s \in Calls({"asks", "looks", "uploads"}) :
    /\ \/ /\ s.kind = "looks" => member["channel"] # "kicked"
          /\ req' = [req EXCEPT !.rest = After(s),
                     !.seen = IF s.kind = "looks" THEN member["channel"] ELSE @]
       \/ Answers("rejected")
       \/ Answers("lost")
    /\ Plainly

\* forceResolveUser saves the user it did not know; other errors and answers
\* of these calls change nothing.
Peek ==
  \E s \in Calls({"peeks", "forgives", "introduces"}) :
    /\ Pass(s)
    /\ \/ UNCHANGED rows
       \/ /\ s.kind = "introduces" /\ ~Cached("user")
          /\ rows' = SavePeer(rows, "user", FALSE)
    /\ Quietly /\ UNCHANGED online

\* Telegram lets a bot change only the chats it is in.
Permits(t) ==
  /\ t # "nobody"
  /\ t \in Groups => member[t] = "in"
  /\ t = "chat" => ~upgraded

\* messages.deleteMessages names no chat: the message may be of any chat but a
\* channel.
Reaches(s) ==
  IF s.what = {"messages.deleteMessages"} /\ req.target # "elsewhere"
  THEN {"user", "chat"} ELSE {req.target}

Do ==
  \E s \in Calls({"does"}) :
    /\ \/ \E t \in Reaches(s) :
            /\ Permits(t)
            /\ \/ req' = [req EXCEPT !.rest = After(s), !.changed = @ \cup {t}]
               \/ req' = [req EXCEPT !.at = "done", !.answer = "lost",
                                     !.rest = {}, !.changed = @ \cup {t}]
       \/ Answers("rejected")
       \/ Answers("lost")
    /\ Plainly

\* leaveChat: when it succeeds Telegram reports it as it does any other leave.
Leave ==
  \E s \in Calls({"leaves"}) :
    \/ /\ Permits(req.target) /\ Len(inflight) < MaxInFlight
       /\ member' = [member EXCEPT ![req.target] = "left"]
       /\ wasOut' = wasOut \cup {req.target}
       /\ UNCHANGED upgraded
       /\ Sends(req.target, "left")
       /\ req' = [req EXCEPT !.rest = After(s), !.changed = @ \cup {req.target}]
       /\ UNCHANGED <<online, rows, events>>
    \/ (Answers("rejected") \/ Answers("lost")) /\ Plainly

\* The answer of a call is not what the handler expects.
Find ==
  \E s \in Pending({"finds"}) : (Pass(s) \/ Answers("internal")) /\ Plainly

\* Mutant: what Telegram says of the membership is saved as it is.
SaveVerbatim ==
  \E s \in Pending({"saves", "learns"}) :
    /\ Pass(s)
    /\ rows' = SaveBotMemberStatus(rows, "channel", req.seen)
    /\ Quietly /\ UNCHANGED online

\* cachePeersFromMessage keeps a basic group; getChat keeps a channel it knows.
Save ==
  \E s \in Pending({"saves", "learns"}) :
    /\ Pass(s)
    /\ rows' = CASE s.kind = "saves" /\ req.target = "chat" ->
                      SavePeer(rows, "chat", FALSE)
                 [] s.kind = "learns" /\ req.target = "channel" ->
                      SaveBotMemberStatus(
                        SaveChatFlags(rows, "channel", FALSE, FALSE), "channel",
                        IF req.seen = "left" THEN "left" ELSE "")
                 [] OTHER -> rows
    /\ Quietly /\ UNCHANGED online

Reply ==
  /\ req.at = "run" /\ <<>> \in req.rest
  /\ Answers("ok")
  /\ UNCHANGED <<member, upgraded, wasOut, online, rows, inflight, events>>

Finish ==
  /\ req.at = "done"
  /\ req' = NoRequest
  /\ UNCHANGED <<member, upgraded, wasOut, online, rows, inflight, events>>

\* Serving requests, one at a time.
Serve ==
  \/ \E m \in Methods : \E addr \in Addresses(m) : Receive(m, addr)
  \/ Throttle \/ Handle \/ warmUsernamePeers
  \/ CheckArguments \/ CheckChat \/ Branch \/ CheckWriteAccess \/ Connect
  \/ Resolve \/ Ask \/ Peek \/ Do \/ Leave \/ Find \/ Save
  \/ Reply \/ Finish

Next ==
  \/ Serve
  \/ Ingest
  \/ \E t \in Groups : Removed(t, "left") \/ Removed(t, "kicked") \/ Joined(t)
  \/ Upgraded
  \/ \E t \in Types : Message(t)

Spec == Init /\ [][Next]_vars

-----------------------------------------------------------------------------
(* Properties.                                                               *)

Statuses == {"", "member", "left", "kicked"}

TypeOK ==
  /\ member \in [Groups -> {"in", "left", "kicked"}]
  /\ wasOut \subseteq Groups
  /\ upgraded \in BOOLEAN /\ online \in BOOLEAN
  /\ rows \in [RawIds ->
       [type : Types \cup {"none"}, status : Statuses, named : BOOLEAN,
        deactivated : BOOLEAN, migrated : BOOLEAN]]
  /\ events \in 0..MaxEvents /\ Len(inflight) \in 0..MaxInFlight
  /\ req.at \in {"idle", "gate", "run", "done"}
  /\ req.changed \subseteq Types \cup {"elsewhere", "the bot"}

\* A handler makes a call only after it, or the resolution of a username, has
\* connected: before the first connect c.rpc is nil and the call panics.
ConnectsFirst ==
  Pending(Reads \cup Changes) # {} => online

\* The methods whose answer is what they read (or stored, for a sticker file
\* that no set has yet); the token of a managed bot is read or replaced.
Readers ==
  {"getMe", "getChat", "getChatAdministrators", "getChatMember",
   "getChatMemberCount", "getChatMenuButton", "getGameHighScores",
   "getBusinessConnection", "getBusinessAccountStarBalance",
   "getBusinessAccountGifts", "getMyCommands", "getMyName",
   "getMyDescription", "getMyShortDescription",
   "getMyDefaultAdministratorRights", "getUserProfilePhotos",
   "getUserProfileAudios", "getCustomEmojiStickers",
   "getUserPersonalChatMessages", "getManagedBotAccessSettings",
   "getStickerSet", "getForumTopicIconStickers", "uploadStickerFile",
   "getMyStarBalance", "getStarTransactions", "getAvailableGifts",
   "getUserGifts", "getChatGifts", "getUserChatBoosts", "getFile"}

\* Methods that may answer ok without having changed anything: by design,
\* where Telegram's refusal means there was nothing to do, and sendGift.
MayAnswerHollow ==
  {"sendChatAction", "unbanChatMember", "setMyDefaultAdministratorRights",
   "removeMyProfilePhoto", "getManagedBotToken", "sendGift"}

\* An ok answer says what happened: the method changed something on Telegram if
\* it is one that changes things, and nothing if it is one that reads.
OkTellsWhatHappened ==
  req.at = "done" /\ req.answer = "ok" /\ req.method \notin MayAnswerHollow
    => (req.method \in Readers <=> req.changed = {})

\* Methods of two changes: the second may be refused when the first is made.
PartlyDone == {"banChatMember", "copyMessage"}

\* A refusal, by the server's own checks or by Telegram, changed nothing: the
\* bot may correct the request and send it again without doing a thing twice.
RefusalsChangeNothing ==
  req.at = "done" /\ req.method \notin PartlyDone
  /\ req.answer \in {"refused", "upgraded", "forbidden", "rejected"}
    => req.changed = {}

\* deleteMessages of Telegram names no chat, and the menu button of a chat that
\* is no user is the button of all.
Misaddressed == {"deleteMessage", "deleteMessages", "setChatMenuButton"}

\* What a request changes is in the chat of its chat_id, or is named by other
\* arguments; never another chat, however the id was written and cached.
RightAddress ==
  req.method \notin Misaddressed
    => req.changed \subseteq
         {"elsewhere", IF req.addr = "@channel" THEN "channel" ELSE req.addr}

\* The pre-flight check refuses only chats the bot was out of at some time,
\* however the row came about: messages, dialogs, getChat, own changes.
RefusedOnlyIfOut ==
  req.at = "done" /\ req.answer \in {"forbidden", "upgraded"}
    => req.addr \in wasOut

\* chat_access.go:16: "it can NEVER block a legitimate send".  When every update
\* has been seen, the check lets a request to a chat the bot is in pass.
NeverBlocksLegitimate ==
  Pending({"writable"}) # {} /\ inflight = <<>> /\ req.addr \in Groups
    => (Permits(req.addr) => Forbidden(req.addr) = "")
-----------------------------------------------------------------------------
(* The inductive invariant of RequestsProofs.                                *)

\* The steps there are, and what they are to the properties: of a kind, a check
\* that the chat is a channel, a call that names no chat.
StepSet == UNION {{p[i] : i \in DOMAIN p} : p \in UNION {Ways[m] : m \in DOMAIN Ways}}
Is(s, K) ==
  \/ s.kind \in K
  \/ "onlyChannel" \in K /\ s.kind \in {"only", "when"} /\ s.what = {"channel"}
  \/ "unnamed" \in K /\ s.kind = "does" /\ s.what = {"messages.deleteMessages"}

\* What a way says of the order of its steps.
Has(p, K) == \E i \in DOMAIN p : Is(p[i], K)
Preceded(p, J, K) ==
  \A k \in DOMAIN p : Is(p[k], K) => \E j \in 1..(k - 1) : Is(p[j], J)
NotAfter(p, J, K) ==
  \A j, k \in DOMAIN p : j < k /\ Is(p[j], J) => ~Is(p[k], K)

Connects == {"connected"}
CallsMade == Reads \cup Changes
GroupTargets == {"inputChannel", "signedChat"}
OtherTargets == {"resolved", "myself"}
AnyTarget == GroupTargets \cup OtherTargets
\* The steps whose failure is a refusal, by the server or by Telegram.
Refusers ==
  {"args", "other", "parsed", "only", "cached", "writable", "resolved",
   "asks", "looks", "uploads", "does", "leaves"}

Updates ==
  [entity : [chat : Types, form : {"user", "here", "left", "forbidden"},
             upgraded : BOOLEAN],
   own : Statuses]
Targets == Types \cup {"elsewhere", "the bot", "nobody", ""}
Requests ==
  [at : {"idle", "gate", "run", "done"}, method : DOMAIN Ways \cup {""},
   addr : Types \cup {"@channel", ""}, rest : SUBSET Seq(StepSet),
   target : Targets, changed : SUBSET (Types \cup {"elsewhere", "the bot"}),
   seen : {"", "in", "left", "kicked"},
   answer : {"", "ok", "refused", "rejected", "lost", "unavailable",
             "internal", "forbidden", "upgraded"}]
TypeInv ==
  /\ TypeOK
  /\ events \in Nat /\ inflight \in Seq(Updates) /\ req \in Requests
  /\ req.at # "run" => req.at = "gate" \/ req.rest = {}
  /\ req.at \in {"idle", "gate"} => req.changed = {}
  /\ req.at = "gate" => req.target = "elsewhere"
  /\ req.at = "run" => req.target # ""

\* What is left of the request connects before it calls.
ConnectInv == online \/ \A p \in req.rest : Preceded(p, Connects, CallsMade)

\* The bot leaves a group or a channel, or nothing that it could leave.
LeaveInv ==
  \A p \in req.rest :
    /\ NotAfter(p, OtherTargets, {"leaves"})
    /\ req.target \in Groups \cup {"nobody"} \/ Preceded(p, GroupTargets, {"leaves"})

\* What a request has changed and what is left of it make the answer true.
OkInv ==
  req.at \in {"gate", "run"} /\ req.method \notin MayAnswerHollow =>
    IF req.method \in Readers
    THEN req.changed = {} /\ \A p \in req.rest : ~Has(p, Changes)
    ELSE req.changed = {} => \A p \in req.rest : Has(p, Changes)

\* After a change nothing is left that can be refused.
RefusalInv ==
  req.method \notin PartlyDone =>
    \A p \in req.rest :
      /\ NotAfter(p, Changes, Refusers)
      /\ req.changed = {} \/ ~Has(p, Refusers)

\* Telegram gives users, groups and channels raw ids that no other chat of the
\* bot's has: rows of two chats are two rows.
RawIdsApart == \A s, t \in Types : RawOf[s] = RawOf[t] => s = t

\* The target of the changes is the chat of chat_id.
TargetInv ==
  req.at \in {"gate", "run"} /\ req.method \notin Misaddressed =>
    /\ req.target \in {"elsewhere", "nobody", "the bot", req.addr}
    /\ \A p \in req.rest :
         /\ NotAfter(p, {"myself"}, Changes)
         /\ req.target = "the bot" => ~Has(p, Changes)
         /\ NotAfter(p, AnyTarget, {"unnamed"})
         /\ req.target = "elsewhere" \/ ~Has(p, {"unnamed"})
         /\ req.addr = "channel" \/ Preceded(p, {"onlyChannel"}, {"inputChannel"})

\* Whatever says that the bot is out of a chat was true of it at some time.
SaysOut(u) ==
  u.entity.form \in {"left", "forbidden"} \/ u.entity.upgraded
  \/ u.own \in {"left", "kicked"}
OutInv ==
  /\ \A t \in Groups : member[t] # "in" => t \in wasOut
  /\ upgraded => "chat" \in wasOut
  /\ \A i \in DOMAIN inflight :
       SaysOut(inflight[i]) => inflight[i].entity.chat \in wasOut
  /\ req.seen \in {"left", "kicked"} => "channel" \in wasOut
RowSaysOut(row) == row.deactivated \/ row.status \in {"left", "kicked"}
RowsInv ==
  \A t \in Types :
    /\ rows[RawOf[t]].type \in {"none", t}
    /\ RowSaysOut(rows[RawOf[t]]) => t \in wasOut

RequestsInv ==
  /\ TypeInv /\ ConnectInv /\ LeaveInv
  /\ OkInv /\ OkTellsWhatHappened
  /\ RefusalInv /\ RefusalsChangeNothing
  /\ OutInv
  /\ RawIdsApart =>
       RowsInv /\ TargetInv /\ RightAddress /\ RefusedOnlyIfOut
=============================================================================
