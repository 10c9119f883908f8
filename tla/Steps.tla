------------------------------- MODULE Steps -------------------------------
(* The language in which SendMethods, ChatMethods and BotMethods describe the
   handlers of the Bot API methods (internal/client).  A handler is the set of
   its ways: the sequences of steps it takes when every step succeeds, one way
   for every branch its arguments can choose.  A step that fails ends the way
   with the error answer that Requests gives it.  Building values, defaults,
   formats and wording are left out; every check, call, write to the peer
   cache and their order are kept.                                           *)
EXTENDS Sequences

\* A handler followed by another, and a handler that does the one or the other.
a & b == {p \o q : p \in a, q \in b}
a | b == a \cup b

Nothing == {<<>>}
Opt(a) == a | Nothing
Step(kind, what) == {<<[kind |-> kind, what |-> what]>>}

\* Checks that answer 400 before the chat is known: of the arguments, of the
\* form of chat_id (parseChatID refuses a @username), of its type.
Args == Step("args", {})
Parsed == Step("parsed", {})
Only(types) == Step("only", types)

\* Branches: on the type of chat_id, on the type of the peer it resolved to.
When(types) == Step("when", types)
WhenPeer(types) == Step("whenPeer", types)

\* ensureConnected, which answers 502 when there is no connection.
Connected == Step("connected", {})

\* The target of the calls that follow: by ResolvePeer, by the channel's raw
\* id, by the signed id as it came, the bot itself.  Until one is given they
\* concern what other arguments name: an account, an inline message, a set.
\* `Other` resolves a second chat argument.
Resolved == Step("resolved", {})
InputChannel == Step("inputChannel", {})
SignedChat == Step("signedChat", {})
Myself == Step("myself", {})
Other(arg) == Step("other", {arg})

\* Calls.  Asks and Does answer Telegram's error, Peeks ignores it; Does
\* changes something, Leaves takes the bot out of the chat and Looks keeps what
\* Telegram says of the bot's membership for `Learns`.
Asks(rpc) == Step("asks", {rpc})
Looks(rpc) == Step("looks", {rpc})
Peeks(rpc) == Step("peeks", {rpc})
Does(rpc) == Step("does", {rpc})
Leaves(rpc) == Step("leaves", {rpc})
Uploads == Step("uploads", {})

\* A call whose named error is answered with true: it was refused and the
\* answer is ok.
Forgives(rpc) == Step("forgives", {rpc})

\* The answer of a call lacks what the handler looks for in it: 500.
Finds(what) == Step("finds", {what})

\* Writes to the peer cache: the chat of a sent message, what Looks saw.
Saves == Step("saves", {})
Learns == Step("learns", {})
=============================================================================
