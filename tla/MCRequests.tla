----------------------------- MODULE MCRequests -----------------------------
(* Requests with the raw ids of Telegram's three id spaces apart.            *)
EXTENDS Requests

\* One method that checks write access and the one that learns of the bot's
\* membership by asking for it.
SendAndGet == {"sendMessage", "getChat"}

\* Requests for two methods behave alike if their handlers have the same ways and
\* no property exempts one of them alone: one method stands for all like it.
Exempted == {Readers, MayAnswerHollow, PartlyDone, Misaddressed}
Alike(m, n) == Ways[m] = Ways[n] /\ \A E \in Exempted : m \in E <=> n \in E
EveryHandler == {CHOOSE n \in DOMAIN Ways : Alike(m, n) : m \in DOMAIN Ways}

RawApart == [user |-> 1, chat |-> 2, channel |-> 3]
=============================================================================
