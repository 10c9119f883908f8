--------------------------- MODULE RequestsProofs ---------------------------
(* That RequestsInv is an invariant of Requests, and what follows.  First the
   descriptions of the handlers: a handler is built of steps with & and |, and
   what the proofs need of the order of its steps goes from the parts to the
   whole.  Then what is left of a request keeps that order while the request
   takes its steps, and what the server knows of the bot's chats stays true. *)
EXTENDS Requests, SequenceTheorems, TLAPS

\* What the ways of a handler have: steps, no step of K, a step of K, a J
\* before every K, no K after a J.
Typed(a) == \E S : a \subseteq Seq(S)
Never(a, K) == Typed(a) /\ \A p \in a : ~Has(p, K)
Always(a, K) == Typed(a) /\ \A p \in a : Has(p, K)
First(a, J, K) == Typed(a) /\ \A p \in a : Preceded(p, J, K)
Apart(a, J, K) == Typed(a) /\ \A p \in a : NotAfter(p, J, K)

\* What the proofs need of x = p \o q.
Concat(x, p, q) ==
  /\ \E S : p \in Seq(S) /\ q \in Seq(S) /\ x \in Seq(S)
  /\ \A i \in DOMAIN p : i \in DOMAIN x /\ x[i] = p[i]
  /\ \A i \in DOMAIN q : Len(p) + i \in DOMAIN x /\ x[Len(p) + i] = q[i]
  /\ \A i \in DOMAIN x :
       \/ i \in DOMAIN p
       \/ i - Len(p) \in DOMAIN q /\ i = Len(p) + (i - Len(p))

\* A way of `a & b` is a way of `a` and then a way of `b`.
LEMMA Concatenated ==
  ASSUME NEW a, NEW b, Typed(a), Typed(b), NEW x \in a & b
  PROVE  \E p \in a, q \in b : Concat(x, p, q)
<1>1. PICK p \in a, q \in b : x = p \o q
  BY DEF &
<1>2. PICK S : p \in Seq(S) /\ q \in Seq(S)
  <2>1. PICK S, T : a \subseteq Seq(S) /\ b \subseteq Seq(T)
    BY DEF Typed
  <2>2. Seq(S) \subseteq Seq(S \cup T) /\ Seq(T) \subseteq Seq(S \cup T)
    OBVIOUS
  <2> QED
    BY <2>1, <2>2
<1>3. x \in Seq(S) /\ Len(x) = Len(p) + Len(q)
      /\ \A i \in 1..(Len(p) + Len(q)) : x[i] = IF i <= Len(p) THEN p[i] ELSE q[i - Len(p)]
  BY <1>1, <1>2, ConcatProperties
<1>4. Len(p) \in Nat /\ Len(q) \in Nat /\ DOMAIN p = 1..Len(p) /\ DOMAIN q = 1..Len(q) /\
        DOMAIN x = 1..Len(x)
  BY <1>2, <1>3
<1> HIDE <1>1
<1>5. ASSUME NEW i \in DOMAIN p PROVE i \in DOMAIN x /\ x[i] = p[i]
  BY <1>3, <1>4
<1>6. ASSUME NEW i \in DOMAIN q PROVE Len(p) + i \in DOMAIN x /\ x[Len(p) + i] = q[i]
  <2>1. Len(p) + i \in 1..(Len(p) + Len(q)) /\ ~(Len(p) + i <= Len(p)) /\ (Len(p) + i) - Len(p) = i
    BY <1>4
  <2>2. QED
    BY <2>1, <1>3, <1>4
<1>7. ASSUME NEW i \in DOMAIN x
      PROVE  i \in DOMAIN p \/ (i - Len(p) \in DOMAIN q /\ i = Len(p) + (i - Len(p)))
  BY <1>3, <1>4
<1>8. QED
  BY <1>2, <1>3, <1>5, <1>6, <1>7 DEF Concat

\* Sequences follow sequences, and are joined with sequences.
LEMMA TypedSeq == \A a, b : Typed(a) /\ Typed(b) => Typed(a & b)
<1> SUFFICES ASSUME NEW a, NEW b, Typed(a), Typed(b) PROVE Typed(a & b)
  OBVIOUS
<1>1. PICK S, T : a \subseteq Seq(S) /\ b \subseteq Seq(T)
  BY DEF Typed
<1>2. Seq(S) \subseteq Seq(S \cup T) /\ Seq(T) \subseteq Seq(S \cup T)
  OBVIOUS
<1>3. ASSUME NEW x \in a & b PROVE x \in Seq(S \cup T)
  <2>1. PICK p \in a, q \in b : x = p \o q
    BY DEF &
  <2> QED
    BY <1>1, <1>2, <2>1
<1> QED
  BY <1>3 DEF Typed
LEMMA TypedOr == \A a, b : Typed(a) /\ Typed(b) => Typed(a | b)
<1> SUFFICES ASSUME NEW a, NEW b, Typed(a), Typed(b) PROVE Typed(a | b)
  OBVIOUS
<1>1. PICK S, T : a \subseteq Seq(S) /\ b \subseteq Seq(T)
  BY DEF Typed
<1>2. Seq(S) \subseteq Seq(S \cup T) /\ Seq(T) \subseteq Seq(S \cup T)
  OBVIOUS
<1> QED
  BY <1>1, <1>2 DEF Typed, |

\* How the properties of ways go over from two handlers to the one that does
\* both, one after the other: no step of K in either, a step of K in one.
LEMMA NeverSeq == \A a, b, K : Never(a, K) /\ Never(b, K) => Never(a & b, K)
<1> SUFFICES ASSUME NEW a, NEW b, NEW K, Never(a, K), Never(b, K), NEW x \in a & b
             PROVE ~Has(x, K)
  BY TypedSeq DEF Never
<1>1. PICK p \in a, q \in b : Concat(x, p, q)
  BY Concatenated DEF Never
<1>2. ~Has(p, K) /\ ~Has(q, K)
  BY DEF Never
<1> QED
  BY <1>1, <1>2 DEF Has, Concat

LEMMA AlwaysSeq ==
  \A a, b, K : Typed(a) /\ Typed(b) /\ (Always(a, K) \/ Always(b, K)) => Always(a & b, K)
<1> SUFFICES ASSUME NEW a, NEW b, NEW K, Typed(a), Typed(b), Always(a, K) \/ Always(b, K),
                    NEW x \in a & b
             PROVE Has(x, K)
  BY TypedSeq DEF Always
<1>1. PICK p \in a, q \in b : Concat(x, p, q)
  BY Concatenated
<1>2. Has(p, K) \/ Has(q, K)
  BY DEF Always
<1> QED
  BY <1>1, <1>2 DEF Has, Concat

\* ... every step of K comes after one of J: the second part may rely on the
\* first where the first always has a J.
LEMMA FirstSeq ==
  \A a, b, J, K : First(a, J, K) /\ (First(b, J, K) \/ (Typed(b) /\ Always(a, J))) =>
    First(a & b, J, K)
<1> SUFFICES ASSUME NEW a, NEW b, NEW J, NEW K, First(a, J, K), Typed(b),
                    First(b, J, K) \/ Always(a, J), NEW x \in a & b
             PROVE Preceded(x, J, K)
  BY TypedSeq DEF First
<1>1. PICK p \in a, q \in b : Concat(x, p, q)
  BY Concatenated DEF First
<1>2. Preceded(p, J, K) /\ (Has(p, J) \/ Preceded(q, J, K))
  BY DEF First, Always
<1>3. /\ Len(p) \in Nat /\ Len(q) \in Nat /\ Len(x) \in Nat
      /\ DOMAIN p = 1..Len(p) /\ DOMAIN q = 1..Len(q) /\ DOMAIN x = 1..Len(x)
  BY <1>1 DEF Concat
<1> SUFFICES ASSUME NEW k \in DOMAIN x, Is(x[k], K) PROVE \E j \in 1..(k - 1) : Is(x[j], J)
  BY DEF Preceded
<1>4. CASE k \in DOMAIN p
  <2>1. PICK j \in 1..(k - 1) : Is(p[j], J)
    BY <1>1, <1>2, <1>4 DEF Preceded, Concat
  <2>2. j \in DOMAIN p
    BY <1>3, <1>4
  <2> QED
    BY <1>1, <2>1, <2>2 DEF Concat
<1>5. CASE k \notin DOMAIN p
  <2> DEFINE l == k - Len(p)
  <2>1. l \in DOMAIN q /\ k = Len(p) + l /\ q[l] = x[k]
    BY <1>1, <1>5 DEF Concat
  <2>2. CASE Has(p, J)
    <3>1. PICK j \in DOMAIN p : Is(p[j], J)
      BY <2>2 DEF Has
    <3>2. Is(x[j], J) /\ j \in 1..(k - 1)
      BY <1>1, <1>3, <2>1, <3>1 DEF Concat
    <3> QED
      BY <3>2
  <2>3. CASE Preceded(q, J, K)
    <3>1. PICK j \in 1..(l - 1) : Is(q[j], J)
      BY <2>1, <2>3 DEF Preceded
    <3>2. j \in DOMAIN q /\ Len(p) + j \in 1..(k - 1)
      BY <1>3, <2>1
    <3>3. Is(x[Len(p) + j], J)
      BY <1>1, <3>1, <3>2 DEF Concat
    <3> QED
      BY <3>2, <3>3
  <2> QED
    BY <1>2, <2>2, <2>3
<1> QED
  BY <1>4, <1>5

\* ... no step of K comes after one of J: so too where the first part has no J
\* or the second no K.
LEMMA ApartSeq ==
  \A a, b, J, K :
    Apart(a, J, K) /\ Apart(b, J, K) /\ (Never(a, J) \/ Never(b, K)) => Apart(a & b, J, K)
<1> SUFFICES ASSUME NEW a, NEW b, NEW J, NEW K, Apart(a, J, K), Apart(b, J, K),
                    Never(a, J) \/ Never(b, K), NEW x \in a & b
             PROVE NotAfter(x, J, K)
  BY TypedSeq DEF Apart
<1>1. PICK p \in a, q \in b : Concat(x, p, q)
  BY Concatenated DEF Apart
<1>2. NotAfter(p, J, K) /\ NotAfter(q, J, K) /\ (~Has(p, J) \/ ~Has(q, K))
  BY DEF Apart, Never
<1>3. /\ Len(p) \in Nat /\ Len(q) \in Nat /\ Len(x) \in Nat
      /\ DOMAIN p = 1..Len(p) /\ DOMAIN q = 1..Len(q) /\ DOMAIN x = 1..Len(x)
  BY <1>1 DEF Concat
<1> SUFFICES ASSUME NEW j \in DOMAIN x, NEW k \in DOMAIN x, j < k, Is(x[j], J) PROVE ~Is(x[k], K)
  BY DEF NotAfter
<1>4. CASE k \in DOMAIN p
  <2>1. j \in DOMAIN p
    BY <1>3, <1>4
  <2> QED
    BY <1>1, <1>2, <1>4, <2>1 DEF NotAfter, Concat
<1>5. CASE k \notin DOMAIN p /\ j \in DOMAIN p
  BY <1>1, <1>2, <1>5 DEF Has, Concat
<1>6. CASE k \notin DOMAIN p /\ j \notin DOMAIN p
  <2>1. /\ k - Len(p) \in DOMAIN q /\ q[k - Len(p)] = x[k]
        /\ j - Len(p) \in DOMAIN q /\ q[j - Len(p)] = x[j]
    BY <1>1, <1>6 DEF Concat
  <2>2. j - Len(p) < k - Len(p)
    BY <1>3
  <2> QED
    BY <1>2, <2>1, <2>2 DEF NotAfter
<1> QED
  BY <1>4, <1>5, <1>6

\* ... and to the one that does either.
LEMMA NeverOr == \A a, b, K : Never(a, K) /\ Never(b, K) => Never(a | b, K)
BY TypedOr DEF Never, |
LEMMA AlwaysOr == \A a, b, K : Always(a, K) /\ Always(b, K) => Always(a | b, K)
BY TypedOr DEF Always, |
LEMMA FirstOr == \A a, b, J, K : First(a, J, K) /\ First(b, J, K) => First(a | b, J, K)
BY TypedOr DEF First, |
LEMMA ApartOr == \A a, b, J, K : Apart(a, J, K) /\ Apart(b, J, K) => Apart(a | b, J, K)
BY TypedOr DEF Apart, |

\* A handler of one step has what the step is.
LEMMA StepHas ==
  ASSUME NEW k, NEW w, NEW J, NEW K
  PROVE  LET s == [kind |-> k, what |-> w]
         IN /\ Typed(Step(k, w))
            /\ ~Is(s, K) => Never(Step(k, w), K) /\ First(Step(k, w), J, K)
            /\ Is(s, K) => Always(Step(k, w), K)
            /\ Apart(Step(k, w), J, K)
<1> DEFINE s == [kind |-> k, what |-> w]
           p == <<s>>
<1>2. Step(k, w) = {p}
  BY DEF Step
<1>3. p \in Seq({s}) /\ DOMAIN p = {1} /\ p[1] = s
  OBVIOUS
<1> HIDE DEF p, s
<1>4. Typed(Step(k, w))
  BY <1>2, <1>3 DEF Typed
<1>5. Has(p, K) <=> Is(s, K)
  BY <1>3 DEF Has
<1>6. ~Is(s, K) => Preceded(p, J, K)
  BY <1>3 DEF Preceded
<1>7. NotAfter(p, J, K)
  BY <1>3 DEF NotAfter
<1>8. QED
  BY <1>2, <1>4, <1>5, <1>6, <1>7 DEF Never, Always, First, Apart, s

\* A handler of no step has nothing.
LEMMA NothingHas ==
  ASSUME NEW J, NEW K
  PROVE  Never(Nothing, K) /\ First(Nothing, J, K) /\ Apart(Nothing, J, K)
<1>1. Nothing = {<<>>} /\ <<>> \in Seq({}) /\ DOMAIN <<>> = {}
  BY DEF Nothing
<1>2. Typed(Nothing)
  BY <1>1 DEF Typed
<1>3. QED
  BY <1>1, <1>2 DEF Never, First, Apart, Has, Preceded, NotAfter

\* The same, once for each question that the proofs ask of a step.
LEMMA StepTyped == \A k, w : Typed(Step(k, w))
  BY StepHas
LEMMA StepApart == \A k, w, J, K : Apart(Step(k, w), J, K)
  BY StepHas
LEMMA StepAlways == \A k, w, K : k \in K => Always(Step(k, w), K)
  BY StepHas DEF Is
LEMMA PlainIs ==
  \A k, w, K : k \notin K /\ "onlyChannel" \notin K /\ "unnamed" \notin K
               => ~Is([kind |-> k, what |-> w], K)
  BY DEF Is
LEMMA StepNever ==
  \A k, w, K : k \notin K /\ "onlyChannel" \notin K /\ "unnamed" \notin K
               => Never(Step(k, w), K)
  BY StepHas, PlainIs
LEMMA StepFirst ==
  \A k, w, J, K : k \notin K /\ "onlyChannel" \notin K /\ "unnamed" \notin K
               => First(Step(k, w), J, K)
  BY StepHas, PlainIs

\* A call names no chat only if it is messages.deleteMessages.
LEMMA StepNamed == \A k, w : k \notin {"does", "unnamed"} => Never(Step(k, w), {"unnamed"})
<1> SUFFICES ASSUME NEW k, NEW w, k \notin {"does", "unnamed"}
      PROVE ~Is([kind |-> k, what |-> w], {"unnamed"})
  BY StepHas
<1> QED BY DEF Is
LEMMA DoesNamed == \A w : w # "messages.deleteMessages" => Never(Does(w), {"unnamed"})
<1> SUFFICES ASSUME NEW w, w # "messages.deleteMessages"
      PROVE ~Is([kind |-> "does", what |-> {w}], {"unnamed"})
  BY StepHas DEF Does
<1> QED BY DEF Is

\* Each of the properties is of sequences, and the ones follow from the others.
LEMMA FirstTyped == \A a, J, K : First(a, J, K) => Typed(a)
  BY DEF First
LEMMA AlwaysTyped == \A a, K : Always(a, K) => Typed(a)
  BY DEF Always
LEMMA NeverTyped == \A a, K : Never(a, K) => Typed(a)
  BY DEF Never
LEMMA NeverFirst == \A a, J, K : Never(a, K) => First(a, J, K)
  BY DEF First, Never, Preceded, Has
LEMMA NeverBefore == \A a, J, K : Never(a, J) => Apart(a, J, K)
  BY DEF Apart, Never, NotAfter, Has
LEMMA NeverAfter == \A a, J, K : Never(a, K) => Apart(a, J, K)
  BY DEF Apart, Never, NotAfter, Has
LEMMA Subkinds ==
  \A a, K, L : Never(a, K) /\ L \subseteq K => Never(a, L)
  BY DEF Never, Has, Is
\* The order of the steps of a method, which the properties rely on.
Ordered(m, a) ==
  /\ First(a, Connects, CallsMade)
  /\ m \in Readers => Never(a, Changes)
  /\ m \notin Readers \cup MayAnswerHollow => Always(a, Changes)
  /\ m \notin PartlyDone => Apart(a, Changes, Refusers)
  /\ Apart(a, OtherTargets, {"leaves"}) /\ First(a, GroupTargets, {"leaves"})
  /\ First(a, {"onlyChannel"}, {"inputChannel"})
  /\ m \notin Misaddressed =>
       /\ Apart(a, {"myself"}, Changes)
       /\ Apart(a, AnyTarget, {"unnamed"})

\* The checks that the chat is a channel are seen as such.
LEMMA ChannelIs ==
  /\ Is([kind |-> "only", what |-> {"channel"}], {"onlyChannel"})
  /\ Is([kind |-> "when", what |-> {"channel"}], {"onlyChannel"})
  BY DEF Is

\* Only calls need the connection, and `Connected` makes it.
LEMMA ConnectAtoms ==
  /\ \A a \in {Args, Parsed, Connected, Resolved, InputChannel, SignedChat, Myself,
       Saves, Learns} : First(a, Connects, CallsMade)
  /\ \A a \in {checkWriteAccess, Step("cached", {}), Nothing} : First(a, Connects,
       CallsMade)
  /\ \A w : \A a \in {When(w), WhenPeer(w), Only(w), Other(w), Finds(w)} : First(a,
       Connects, CallsMade)
  /\ \A a \in {Uploads, Step("introduces", {"users.getFullUser"})} : Typed(a)
  /\ \A w : \A a \in {Asks(w), Looks(w), Peeks(w), Does(w), Leaves(w), Forgives(w)}
       : Typed(a)
  /\ \A a \in {Connected} : Always(a, Connects)
<1>1. \A a \in {Args, Parsed, Connected, Resolved, InputChannel, SignedChat, Myself,
       Saves, Learns} : First(a, Connects, CallsMade)
  BY NothingHas, StepFirst DEF Connects, CallsMade, Reads, Changes, Args, Parsed,
     Connected, Resolved, InputChannel, SignedChat, Myself, Saves, Learns
<1>2. \A a \in {checkWriteAccess, Step("cached", {}), Nothing} : First(a, Connects,
       CallsMade)
  BY NothingHas, StepFirst DEF Connects, CallsMade, Reads, Changes, checkWriteAccess
<1>3. \A w : \A a \in {When(w), WhenPeer(w), Only(w), Other(w), Finds(w)} : First(a,
       Connects, CallsMade)
  BY NothingHas, StepFirst DEF Connects, CallsMade, Reads, Changes, When, WhenPeer,
     Only, Other, Finds
<1>4. \A a \in {Uploads, Step("introduces", {"users.getFullUser"})} : Typed(a)
  BY StepTyped DEF Uploads
<1>5. \A w : \A a \in {Asks(w), Looks(w), Peeks(w), Does(w), Leaves(w), Forgives(w)}
       : Typed(a)
  BY StepTyped DEF Asks, Looks, Peeks, Does, Leaves, Forgives
<1>6. \A a \in {Connected} : Always(a, Connects)
  BY StepAlways DEF Connects, Connected
<1> QED
  BY <1>1, <1>2, <1>3, <1>4, <1>5, <1>6

\* Only `Does` and `Leaves` change something.
LEMMA ChangeAtoms ==
  /\ \A a \in {Args, Parsed, Connected, Resolved, InputChannel, SignedChat, Myself,
       Uploads, Saves, Learns, checkWriteAccess, Step("cached", {})} : Never(a,
       Changes)
  /\ \A a \in {Step("introduces", {"users.getFullUser"}), Nothing} : Never(a,
       Changes)
  /\ \A w : \A a \in {When(w), WhenPeer(w), Only(w), Other(w), Finds(w), Asks(w),
       Looks(w), Peeks(w), Forgives(w)} : Never(a, Changes)
  /\ \A w : \A a \in {Does(w), Leaves(w)} : Always(a, Changes)
<1>1. \A a \in {Args, Parsed, Connected, Resolved, InputChannel, SignedChat, Myself,
       Uploads, Saves, Learns, checkWriteAccess, Step("cached", {})} : Never(a,
       Changes)
  BY NothingHas, StepNever DEF Changes, Args, Parsed, Connected, Resolved,
     InputChannel, SignedChat, Myself, Uploads, Saves, Learns, checkWriteAccess
<1>2. \A a \in {Step("introduces", {"users.getFullUser"}), Nothing} : Never(a,
       Changes)
  BY NothingHas, StepNever DEF Changes
<1>3. \A w : \A a \in {When(w), WhenPeer(w), Only(w), Other(w), Finds(w), Asks(w),
       Looks(w), Peeks(w), Forgives(w)} : Never(a, Changes)
  BY NothingHas, StepNever DEF Changes, When, WhenPeer, Only, Other, Finds, Asks,
     Looks, Peeks, Forgives
<1>4. \A w : \A a \in {Does(w), Leaves(w)} : Always(a, Changes)
  BY StepAlways DEF Changes, Does, Leaves
<1> QED
  BY <1>1, <1>2, <1>3, <1>4

\* What the steps do when they fail.
LEMMA RefusalAtoms ==
  /\ \A a \in {Connected, InputChannel, SignedChat, Myself, Saves, Learns,
       Step("introduces", {"users.getFullUser"}), Nothing} : Never(a, Refusers)
  /\ \A w : \A a \in {When(w), WhenPeer(w), Finds(w), Peeks(w), Forgives(w)} :
       Never(a, Refusers)
  /\ \A w : \A a \in {Does(w), Leaves(w)} : Apart(a, Changes, Refusers)
<1>1. \A a \in {Connected, InputChannel, SignedChat, Myself, Saves, Learns,
       Step("introduces", {"users.getFullUser"}), Nothing} : Never(a, Refusers)
  BY NothingHas, StepNever DEF Refusers, Connected, InputChannel, SignedChat,
     Myself, Saves, Learns
<1>2. \A w : \A a \in {When(w), WhenPeer(w), Finds(w), Peeks(w), Forgives(w)} :
       Never(a, Refusers)
  BY NothingHas, StepNever DEF Refusers, When, WhenPeer, Finds, Peeks, Forgives
<1>3. \A w : \A a \in {Does(w), Leaves(w)} : Apart(a, Changes, Refusers)
  BY StepApart DEF Does, Leaves
<1> QED
  BY <1>1, <1>2, <1>3

\* The steps that other handlers than those of chats have.
LEMMA TargetAtoms ==
  /\ \A a \in {Args, Parsed, Connected, Resolved, SignedChat, Uploads, Saves,
       Learns, checkWriteAccess, Step("cached", {}), Step("introduces",
       {"users.getFullUser"})} : Never(a, {"leaves", "myself", "inputChannel"})
  /\ \A a \in {Nothing} : Never(a, {"leaves", "myself", "inputChannel"})
  /\ \A w : \A a \in {When(w), WhenPeer(w), Only(w), Other(w), Finds(w), Asks(w),
       Looks(w), Peeks(w), Does(w), Forgives(w)} : Never(a, {"leaves", "myself",
       "inputChannel"})
<1>1. \A a \in {Args, Parsed, Connected, Resolved, SignedChat, Uploads, Saves,
       Learns, checkWriteAccess, Step("cached", {}), Step("introduces",
       {"users.getFullUser"})} : Never(a, {"leaves", "myself", "inputChannel"})
  BY NothingHas, StepNever DEF Args, Parsed, Connected, Resolved, SignedChat,
     Uploads, Saves, Learns, checkWriteAccess
<1>2. \A a \in {Nothing} : Never(a, {"leaves", "myself", "inputChannel"})
  BY NothingHas, StepNever
<1>3. \A w : \A a \in {When(w), WhenPeer(w), Only(w), Other(w), Finds(w), Asks(w),
       Looks(w), Peeks(w), Does(w), Forgives(w)} : Never(a, {"leaves", "myself",
       "inputChannel"})
  BY NothingHas, StepNever DEF When, WhenPeer, Only, Other, Finds, Asks, Looks,
     Peeks, Does, Forgives
<1> QED
  BY <1>1, <1>2, <1>3

\* Only messages.deleteMessages names no chat.
LEMMA UnnamedAtoms ==
  /\ \A a \in {Args, Parsed, Connected, Resolved, InputChannel, SignedChat, Myself,
       Uploads, Saves, Learns, checkWriteAccess, Step("cached", {})} : Never(a,
       {"unnamed"})
  /\ \A a \in {Step("introduces", {"users.getFullUser"}), Nothing} : Never(a,
       {"unnamed"})
  /\ \A w : \A a \in {When(w), WhenPeer(w), Only(w), Other(w), Finds(w), Asks(w),
       Looks(w), Peeks(w), Leaves(w), Forgives(w)} : Never(a, {"unnamed"})
<1>1. \A a \in {Args, Parsed, Connected, Resolved, InputChannel, SignedChat, Myself,
       Uploads, Saves, Learns, checkWriteAccess, Step("cached", {})} : Never(a,
       {"unnamed"})
  BY NothingHas, StepNamed DEF Args, Parsed, Connected, Resolved, InputChannel,
     SignedChat, Myself, Uploads, Saves, Learns, checkWriteAccess
<1>2. \A a \in {Step("introduces", {"users.getFullUser"}), Nothing} : Never(a,
       {"unnamed"})
  BY NothingHas, StepNamed
<1>3. \A w : \A a \in {When(w), WhenPeer(w), Only(w), Other(w), Finds(w), Asks(w),
       Looks(w), Peeks(w), Leaves(w), Forgives(w)} : Never(a, {"unnamed"})
  BY NothingHas, StepNamed DEF When, WhenPeer, Only, Other, Finds, Asks, Looks,
     Peeks, Leaves, Forgives
<1> QED
  BY <1>1, <1>2, <1>3

\* A channel is addressed by its raw id after a check that it is one.
LEMMA ChannelAtoms ==
  /\ \A a \in {Args, Parsed, Connected, Resolved, SignedChat, Myself, Uploads,
       Saves, Learns, checkWriteAccess, Step("cached", {})} : First(a,
       {"onlyChannel"}, {"inputChannel"})
  /\ \A a \in {Step("introduces", {"users.getFullUser"}), Nothing} : First(a,
       {"onlyChannel"}, {"inputChannel"})
  /\ \A w : \A a \in {WhenPeer(w), Other(w), Finds(w), Asks(w), Looks(w), Peeks(w),
       Does(w), Leaves(w), Forgives(w)} : First(a, {"onlyChannel"},
       {"inputChannel"})
  /\ \A w : \A a \in {Only(w), When(w)} : First(a, {"onlyChannel"},
       {"inputChannel"})
  /\ \A a \in {InputChannel} : Typed(a)
  /\ \A a \in {Only({"channel"}), When({"channel"})} : Always(a, {"onlyChannel"})
<1>1. \A a \in {Args, Parsed, Connected, Resolved, SignedChat, Myself, Uploads,
       Saves, Learns, checkWriteAccess, Step("cached", {})} : First(a,
       {"onlyChannel"}, {"inputChannel"})
  BY NothingHas, StepFirst DEF Args, Parsed, Connected, Resolved, SignedChat,
     Myself, Uploads, Saves, Learns, checkWriteAccess
<1>2. \A a \in {Step("introduces", {"users.getFullUser"}), Nothing} : First(a,
       {"onlyChannel"}, {"inputChannel"})
  BY NothingHas, StepFirst
<1>3. \A w : \A a \in {WhenPeer(w), Other(w), Finds(w), Asks(w), Looks(w), Peeks(w),
       Does(w), Leaves(w), Forgives(w)} : First(a, {"onlyChannel"},
       {"inputChannel"})
  BY NothingHas, StepFirst DEF WhenPeer, Other, Finds, Asks, Looks, Peeks, Does,
     Leaves, Forgives
<1>4. \A w : \A a \in {Only(w), When(w)} : First(a, {"onlyChannel"},
       {"inputChannel"})
  BY StepHas DEF Is, Only, When
<1>5. \A a \in {InputChannel} : Typed(a)
  BY StepTyped DEF InputChannel
<1>6. \A a \in {Only({"channel"}), When({"channel"})} : Always(a, {"onlyChannel"})
  BY ChannelIs, StepHas DEF Only, When
<1> QED
  BY <1>1, <1>2, <1>3, <1>4, <1>5, <1>6

\* Steps that leaves and menu buttons are made of.
LEMMA LeaveAtoms ==
  /\ \A a \in {Args, Parsed, Connected, Resolved, InputChannel, SignedChat, Myself,
       Uploads, Saves, Learns, checkWriteAccess, Step("cached", {})} : Never(a,
       {"leaves"})
  /\ \A a \in {Step("introduces", {"users.getFullUser"}), Nothing} : Never(a,
       {"leaves"})
  /\ \A w : \A a \in {When(w), WhenPeer(w), Only(w), Other(w), Finds(w), Asks(w),
       Looks(w), Peeks(w), Does(w), Forgives(w)} : Never(a, {"leaves"})
  /\ \A a \in {Args, Parsed, Connected, Resolved, InputChannel, SignedChat, Uploads,
       Saves, Learns, checkWriteAccess, Step("cached", {}), Step("introduces",
       {"users.getFullUser"})} : Never(a, {"myself"})
  /\ \A a \in {Nothing} : Never(a, {"myself"})
  /\ \A w : \A a \in {When(w), WhenPeer(w), Only(w), Other(w), Finds(w), Asks(w),
       Looks(w), Peeks(w), Does(w), Leaves(w), Forgives(w)} : Never(a, {"myself"})
<1>1. \A a \in {Args, Parsed, Connected, Resolved, InputChannel, SignedChat, Myself,
       Uploads, Saves, Learns, checkWriteAccess, Step("cached", {})} : Never(a,
       {"leaves"})
  BY NothingHas, StepNever DEF Args, Parsed, Connected, Resolved, InputChannel,
     SignedChat, Myself, Uploads, Saves, Learns, checkWriteAccess
<1>2. \A a \in {Step("introduces", {"users.getFullUser"}), Nothing} : Never(a,
       {"leaves"})
  BY NothingHas, StepNever
<1>3. \A w : \A a \in {When(w), WhenPeer(w), Only(w), Other(w), Finds(w), Asks(w),
       Looks(w), Peeks(w), Does(w), Forgives(w)} : Never(a, {"leaves"})
  BY NothingHas, StepNever DEF When, WhenPeer, Only, Other, Finds, Asks, Looks,
     Peeks, Does, Forgives
<1>4. \A a \in {Args, Parsed, Connected, Resolved, InputChannel, SignedChat,
       Uploads, Saves, Learns, checkWriteAccess, Step("cached", {}),
       Step("introduces", {"users.getFullUser"})} : Never(a, {"myself"})
  BY NothingHas, StepNever DEF Args, Parsed, Connected, Resolved, InputChannel,
     SignedChat, Uploads, Saves, Learns, checkWriteAccess
<1>5. \A a \in {Nothing} : Never(a, {"myself"})
  BY NothingHas, StepNever
<1>6. \A w : \A a \in {When(w), WhenPeer(w), Only(w), Other(w), Finds(w), Asks(w),
       Looks(w), Peeks(w), Does(w), Leaves(w), Forgives(w)} : Never(a, {"myself"})
  BY NothingHas, StepNever DEF When, WhenPeer, Only, Other, Finds, Asks, Looks,
     Peeks, Does, Leaves, Forgives
<1> QED
  BY <1>1, <1>2, <1>3, <1>4, <1>5, <1>6

\* The other chat is left last, through the id that addresses it.
LEMMA LeaveChatOrdered ==
  Never(leaveChat, OtherTargets) /\ First(leaveChat, GroupTargets, {"leaves"})
<1> USE DEF GroupTargets, OtherTargets
<1>1. \A a \in {Args, Connected, Parsed, SignedChat, InputChannel} :
       Never(a, OtherTargets) /\ First(a, GroupTargets, {"leaves"})
  BY StepNever, StepFirst DEF Args, Connected, Parsed, SignedChat, InputChannel
<1>2. \A w : \A a \in {Only(w), When(w)} :
       Never(a, OtherTargets) /\ First(a, GroupTargets, {"leaves"})
  BY StepNever, StepFirst DEF Only, When
<1>3. \A w : Never(Leaves(w), OtherTargets) /\ Typed(Leaves(w))
  BY StepNever, StepTyped DEF Leaves
<1>4. \A a \in {SignedChat, InputChannel} : Always(a, GroupTargets)
  BY StepAlways DEF SignedChat, InputChannel
<1> HIDE DEF GroupTargets, OtherTargets
<1> USE DEF leaveChat, Begin, parseChatID, AnyGroup, InGroup, InChannel, resolveInputChannel
<1>5. Never(leaveChat, OtherTargets)
  BY <1>1, <1>2, <1>3, NeverSeq, NeverOr
<1>6. First(leaveChat, GroupTargets, {"leaves"})
  BY <1>1, <1>2, <1>3, <1>4, FirstTyped, FirstSeq, FirstOr, AlwaysSeq, TypedSeq, TypedOr
<1> QED
  BY <1>5, <1>6

\* The messages of a business account are deleted without naming a chat at all.
LEMMA DeleteBusinessMessagesOrdered ==
  Never(deleteBusinessMessages, AnyTarget)
<1>1. \A a \in {Args, Connected} : Never(a, AnyTarget)
  BY StepNever DEF Args, Connected, AnyTarget, GroupTargets, OtherTargets
<1>2. \A w : Never(Does(w), AnyTarget)
  BY StepNever DEF Does, AnyTarget, GroupTargets, OtherTargets
<1> QED
  BY <1>1, <1>2, NeverSeq DEF deleteBusinessMessages, requireBusinessConn, invokeBusiness

\* The handlers of SendMethods keep the order.
LEMMA SendWaysOrdered ==
  \A m \in DOMAIN SendWays : Ordered(m, SendWays[m])
<1> USE DEF Opt, sendMessage, resolveBroadcastPeer, forceResolveUser, finishSend,
      cachePeersFromMessage, editMessageText, resolveTargetMessage, invokeEdit,
      editMessageCaption, editMessageReplyMarkup, deleteMessage, DeleteByPeer,
      deleteMessages, pinChatMessage, unpinChatMessage, unpinAllChatMessages,
      sendPhoto, sendMediaPhoto, photoMediaInput, uploadedPhotoMedia, uploadFile,
      doSendMedia, doSendMediaResult, sendDocument, sendSingleDoc, docMediaInput,
      uploadedDocMedia, uploadThumbnail, sendAudio, sendVideo, sendAnimation,
      sendVoice, sendVideoNote, sendSticker, sendMediaGroup, parseMediaDescriptor,
      editMessageMedia, forwardMessage, doForwardOrCopy, forwardMessages,
      copyMessage, copyMessages, sendChatAction, sendContact, sendMediaMessage,
      sendVenue, sendLocation, sendDice, sendPoll, stopPoll, sendPaidMedia,
      resolvePaidMediaArray, resolvePaidMediaItem, setMessageReaction,
      editMessageLiveLocation, stopMessageLiveLocation, sendGame, postStory,
      resolveStoryPeer, storyContentMedia, storyUpload, storyResult, editStory,
      repostStory, approveSuggestedPost, declineSuggestedPost, sendMessageDraft,
      sendRichMessageDraft, sendRichMessage, sendChecklist, parseChecklistJSON,
      editMessageChecklist, deleteMessageReaction, deleteAllMessageReactions,
      sendLivePhoto
<1>1. \A a \in
       {sendMessage, editMessageText, editMessageCaption, editMessageReplyMarkup,
         deleteMessage, deleteMessages, pinChatMessage, unpinChatMessage,
         unpinAllChatMessages, sendPhoto, sendDocument, sendAudio, sendVideo,
         sendAnimation, sendVoice, sendVideoNote} :
       First(a, Connects, CallsMade)
  BY ConnectAtoms, FirstTyped, FirstSeq, FirstOr, AlwaysSeq, TypedSeq, TypedOr
<1>2. \A a \in
       {sendSticker, sendMediaGroup, editMessageMedia, forwardMessage,
         forwardMessages, copyMessage, copyMessages, sendChatAction, sendContact,
         sendVenue, sendLocation, sendDice, sendPoll, stopPoll, sendPaidMedia,
         setMessageReaction} :
       First(a, Connects, CallsMade)
  BY ConnectAtoms, FirstTyped, FirstSeq, FirstOr, AlwaysSeq, TypedSeq, TypedOr
<1>3. \A a \in
       {editMessageLiveLocation, stopMessageLiveLocation, sendGame, postStory,
         editStory, repostStory, approveSuggestedPost, declineSuggestedPost,
         sendMessageDraft, sendRichMessageDraft, sendRichMessage, sendChecklist,
         editMessageChecklist, deleteMessageReaction, deleteAllMessageReactions,
         sendLivePhoto} :
       First(a, Connects, CallsMade)
  BY ConnectAtoms, FirstTyped, FirstSeq, FirstOr, AlwaysSeq, TypedSeq, TypedOr
<1>4. \A a \in
       {sendMessage, editMessageText, editMessageCaption, editMessageReplyMarkup,
         deleteMessage, deleteMessages, pinChatMessage, unpinChatMessage,
         unpinAllChatMessages, sendPhoto, sendDocument, sendAudio, sendVideo,
         sendAnimation, sendVoice, sendVideoNote} :
       Always(a, Changes)
  BY ChangeAtoms, NeverTyped, AlwaysTyped, AlwaysSeq, AlwaysOr, TypedSeq, TypedOr
<1>5. \A a \in
       {sendSticker, sendMediaGroup, editMessageMedia, forwardMessage,
         forwardMessages, copyMessage, copyMessages, sendContact, sendVenue,
         sendLocation, sendDice, sendPoll, stopPoll, sendPaidMedia,
         setMessageReaction, editMessageLiveLocation} :
       Always(a, Changes)
  BY ChangeAtoms, NeverTyped, AlwaysTyped, AlwaysSeq, AlwaysOr, TypedSeq, TypedOr
<1>6. \A a \in
       {stopMessageLiveLocation, sendGame, postStory, editStory, repostStory,
         approveSuggestedPost, declineSuggestedPost, sendMessageDraft,
         sendRichMessageDraft, sendRichMessage, sendChecklist, editMessageChecklist,
         deleteMessageReaction, deleteAllMessageReactions, sendLivePhoto} :
       Always(a, Changes)
  BY ChangeAtoms, NeverTyped, AlwaysTyped, AlwaysSeq, AlwaysOr, TypedSeq, TypedOr
<1>7. \A a \in
       {sendMessage, editMessageText, editMessageCaption, editMessageReplyMarkup,
         deleteMessage, deleteMessages, pinChatMessage, unpinChatMessage,
         unpinAllChatMessages, sendPhoto, sendDocument, sendAudio, sendVideo,
         sendAnimation, sendVoice, sendVideoNote} :
       Apart(a, Changes, Refusers)
  BY ChangeAtoms, RefusalAtoms, NeverBefore, NeverAfter, NeverSeq, NeverOr, ApartSeq, ApartOr
<1>8. \A a \in
       {sendSticker, sendMediaGroup, editMessageMedia, forwardMessage,
         forwardMessages, copyMessages, sendChatAction, sendContact, sendVenue,
         sendLocation, sendDice, sendPoll, stopPoll, sendPaidMedia,
         setMessageReaction, editMessageLiveLocation} :
       Apart(a, Changes, Refusers)
  BY ChangeAtoms, RefusalAtoms, NeverBefore, NeverAfter, NeverSeq, NeverOr, ApartSeq, ApartOr
<1>9. \A a \in
       {stopMessageLiveLocation, sendGame, postStory, editStory, repostStory,
         approveSuggestedPost, declineSuggestedPost, sendMessageDraft,
         sendRichMessageDraft, sendRichMessage, sendChecklist, editMessageChecklist,
         deleteMessageReaction, deleteAllMessageReactions, sendLivePhoto} :
       Apart(a, Changes, Refusers)
  BY ChangeAtoms, RefusalAtoms, NeverBefore, NeverAfter, NeverSeq, NeverOr, ApartSeq, ApartOr
<1>10. \A a \in
       {sendMessage, editMessageText, editMessageCaption, editMessageReplyMarkup,
         deleteMessage, deleteMessages, pinChatMessage, unpinChatMessage,
         unpinAllChatMessages, sendPhoto, sendDocument, sendAudio, sendVideo,
         sendAnimation, sendVoice, sendVideoNote} :
       Never(a, {"leaves", "myself", "inputChannel"})
  BY TargetAtoms, NeverSeq, NeverOr
<1>11. \A a \in
       {sendSticker, sendMediaGroup, editMessageMedia, forwardMessage,
         forwardMessages, copyMessage, copyMessages, sendChatAction, sendContact,
         sendVenue, sendLocation, sendDice, sendPoll, stopPoll, sendPaidMedia,
         setMessageReaction} :
       Never(a, {"leaves", "myself", "inputChannel"})
  BY TargetAtoms, NeverSeq, NeverOr
<1>12. \A a \in
       {editMessageLiveLocation, stopMessageLiveLocation, sendGame, postStory,
         editStory, repostStory, approveSuggestedPost, declineSuggestedPost,
         sendMessageDraft, sendRichMessageDraft, sendRichMessage, sendChecklist,
         editMessageChecklist, deleteMessageReaction, deleteAllMessageReactions,
         sendLivePhoto} :
       Never(a, {"leaves", "myself", "inputChannel"})
  BY TargetAtoms, NeverSeq, NeverOr
<1>13. \A a \in
       {sendMessage, editMessageText, editMessageCaption, editMessageReplyMarkup,
         pinChatMessage, unpinChatMessage, unpinAllChatMessages, sendPhoto,
         sendDocument, sendAudio, sendVideo, sendAnimation, sendVoice,
         sendVideoNote, sendSticker, sendMediaGroup} :
       Never(a, {"unnamed"})
  BY UnnamedAtoms, DoesNamed, NeverSeq, NeverOr
<1>14. \A a \in
       {editMessageMedia, forwardMessage, forwardMessages, copyMessage,
         copyMessages, sendChatAction, sendContact, sendVenue, sendLocation,
         sendDice, sendPoll, stopPoll, sendPaidMedia, setMessageReaction,
         editMessageLiveLocation, stopMessageLiveLocation} :
       Never(a, {"unnamed"})
  BY UnnamedAtoms, DoesNamed, NeverSeq, NeverOr
<1>15. \A a \in
       {sendGame, postStory, editStory, repostStory, approveSuggestedPost,
         declineSuggestedPost, sendMessageDraft, sendRichMessageDraft,
         sendRichMessage, sendChecklist, editMessageChecklist,
         deleteMessageReaction, deleteAllMessageReactions, sendLivePhoto} :
       Never(a, {"unnamed"})
  BY UnnamedAtoms, DoesNamed, NeverSeq, NeverOr
<1> HIDE DEF Opt, sendMessage, resolveBroadcastPeer, forceResolveUser, finishSend,
      cachePeersFromMessage, editMessageText, resolveTargetMessage, invokeEdit,
      editMessageCaption, editMessageReplyMarkup, deleteMessage, DeleteByPeer,
      deleteMessages, pinChatMessage, unpinChatMessage, unpinAllChatMessages,
      sendPhoto, sendMediaPhoto, photoMediaInput, uploadedPhotoMedia, uploadFile,
      doSendMedia, doSendMediaResult, sendDocument, sendSingleDoc, docMediaInput,
      uploadedDocMedia, uploadThumbnail, sendAudio, sendVideo, sendAnimation,
      sendVoice, sendVideoNote, sendSticker, sendMediaGroup, parseMediaDescriptor,
      editMessageMedia, forwardMessage, doForwardOrCopy, forwardMessages,
      copyMessage, copyMessages, sendChatAction, sendContact, sendMediaMessage,
      sendVenue, sendLocation, sendDice, sendPoll, stopPoll, sendPaidMedia,
      resolvePaidMediaArray, resolvePaidMediaItem, setMessageReaction,
      editMessageLiveLocation, stopMessageLiveLocation, sendGame, postStory,
      resolveStoryPeer, storyContentMedia, storyUpload, storyResult, editStory,
      repostStory, approveSuggestedPost, declineSuggestedPost, sendMessageDraft,
      sendRichMessageDraft, sendRichMessage, sendChecklist, parseChecklistJSON,
      editMessageChecklist, deleteMessageReaction, deleteAllMessageReactions,
      sendLivePhoto
<1>16. \A m \in DOMAIN SendWays : First(SendWays[m], Connects, CallsMade)
  BY <1>1, <1>2, <1>3 DEF SendWays
<1>17. \A m \in DOMAIN SendWays : m \in Readers => Never(SendWays[m], Changes)
  BY DEF SendWays, Readers
<1>18. \A m \in DOMAIN SendWays : m \notin Readers \cup MayAnswerHollow =>
         Always(SendWays[m], Changes)
  BY <1>4, <1>5, <1>6 DEF SendWays, Readers, MayAnswerHollow
<1>19. \A m \in DOMAIN SendWays : m \notin PartlyDone => Apart(SendWays[m], Changes, Refusers)
  BY <1>7, <1>8, <1>9 DEF SendWays, PartlyDone
<1>20. \A m \in DOMAIN SendWays : Never(SendWays[m], {"leaves", "myself", "inputChannel"})
  BY <1>10, <1>11, <1>12 DEF SendWays
<1>21. \A m \in DOMAIN SendWays : m \notin Misaddressed => Never(SendWays[m], {"unnamed"})
  BY <1>13, <1>14, <1>15 DEF SendWays, Misaddressed
<1> QED
  BY <1>16, <1>17, <1>18, <1>19, <1>20, <1>21, NeverFirst, NeverBefore, NeverAfter, Subkinds
    DEF Ordered, GroupTargets, OtherTargets

\* The handlers of ChatMethods keep the order.
LEMMA ChatWaysOrdered ==
  \A m \in DOMAIN ChatWays : Ordered(m, ChatWays[m])
<1> USE DEF Opt, promoteChatMember, Begin, parseChatID, resolveInputChannel,
      restrictChatMember, setChatAdministratorCustomTitle, AnyGroup, InGroup,
      InChannel, banChatMember, unbanChatMember, NotBanned, banChatSenderChat,
      unbanChatSenderChat, setChatMemberTag, setChatTitle, setChatDescription,
      setChatPhoto, deleteChatPhoto, setChatPermissions, setChatStickerSet,
      deleteChatStickerSet, setChatMenuButton, MenuButtonUser, getChatMenuButton,
      verifyChat, resolvePeerForVerify, removeChatVerification, verifyUser,
      removeUserVerification, getChat, getChatPrivate, getChatGroup, getChatChannel,
      getChatAdministrators, getChatAdminsGroup, getChatAdminsChannel,
      getChatMember, getChatMemberPrivate, getChatMemberGroup, getChatMemberChannel,
      getChatMemberCount, getMemberCountGroup, getMemberCountChannel, leaveChat,
      exportChatInviteLink, resolvePeerForChat, exportedToInviteLink,
      createChatInviteLink, createChatSubscriptionInviteLink, editChatInviteLink,
      EditInvite, editChatSubscriptionInviteLink, revokeChatInviteLink,
      approveChatJoinRequest, hideChatJoinRequest, declineChatJoinRequest,
      answerChatJoinRequestQuery, sendChatJoinRequestWebApp, createForumTopic,
      editForumTopic, parseTopicID, closeForumTopic, toggleTopicClosed,
      reopenForumTopic, deleteForumTopic, unpinAllForumTopicMessages,
      editGeneralForumTopic, closeGeneralForumTopic, toggleGeneralTopicClosed,
      reopenGeneralForumTopic, hideGeneralForumTopic, toggleGeneralTopicHidden,
      unhideGeneralForumTopic, unpinAllGeneralForumTopicMessages
<1>1. \A a \in
       {promoteChatMember, restrictChatMember, setChatAdministratorCustomTitle,
         banChatMember, unbanChatMember, banChatSenderChat, unbanChatSenderChat,
         setChatMemberTag, setChatTitle, setChatDescription, setChatPhoto,
         deleteChatPhoto, setChatPermissions, setChatStickerSet,
         deleteChatStickerSet, setChatMenuButton} :
       First(a, Connects, CallsMade)
  BY ConnectAtoms, FirstTyped, FirstSeq, FirstOr, AlwaysSeq, TypedSeq, TypedOr
<1>2. \A a \in
       {getChatMenuButton, verifyChat, removeChatVerification, verifyUser,
         removeUserVerification, getChat, getChatAdministrators, getChatMember,
         getChatMemberCount, leaveChat, exportChatInviteLink, createChatInviteLink,
         createChatSubscriptionInviteLink, editChatInviteLink,
         editChatSubscriptionInviteLink, revokeChatInviteLink} :
       First(a, Connects, CallsMade)
  BY ConnectAtoms, FirstTyped, FirstSeq, FirstOr, AlwaysSeq, TypedSeq, TypedOr
<1>3. \A a \in
       {approveChatJoinRequest, declineChatJoinRequest, answerChatJoinRequestQuery,
         sendChatJoinRequestWebApp, createForumTopic, editForumTopic,
         closeForumTopic, reopenForumTopic, deleteForumTopic,
         unpinAllForumTopicMessages, editGeneralForumTopic, closeGeneralForumTopic,
         reopenGeneralForumTopic, hideGeneralForumTopic, unhideGeneralForumTopic,
         unpinAllGeneralForumTopicMessages} :
       First(a, Connects, CallsMade)
  BY ConnectAtoms, FirstTyped, FirstSeq, FirstOr, AlwaysSeq, TypedSeq, TypedOr
<1>4. \A a \in
       {getChatMenuButton, getChat, getChatAdministrators, getChatMember,
         getChatMemberCount} :
       Never(a, Changes)
  BY ChangeAtoms, NeverSeq, NeverOr
<1>5. \A a \in
       {promoteChatMember, restrictChatMember, setChatAdministratorCustomTitle,
         banChatMember, banChatSenderChat, unbanChatSenderChat, setChatMemberTag,
         setChatTitle, setChatDescription, setChatPhoto, deleteChatPhoto,
         setChatPermissions, setChatStickerSet, deleteChatStickerSet} :
       Always(a, Changes)
  BY ChangeAtoms, NeverTyped, AlwaysTyped, AlwaysSeq, AlwaysOr, TypedSeq, TypedOr
<1>6. \A a \in
       {setChatMenuButton, verifyChat, removeChatVerification, verifyUser,
         removeUserVerification, leaveChat, exportChatInviteLink,
         createChatInviteLink, createChatSubscriptionInviteLink, editChatInviteLink,
         editChatSubscriptionInviteLink, revokeChatInviteLink,
         approveChatJoinRequest, declineChatJoinRequest} :
       Always(a, Changes)
  BY ChangeAtoms, NeverTyped, AlwaysTyped, AlwaysSeq, AlwaysOr, TypedSeq, TypedOr
<1>7. \A a \in
       {answerChatJoinRequestQuery, sendChatJoinRequestWebApp, createForumTopic,
         editForumTopic, closeForumTopic, reopenForumTopic, deleteForumTopic,
         unpinAllForumTopicMessages, editGeneralForumTopic, closeGeneralForumTopic,
         reopenGeneralForumTopic, hideGeneralForumTopic, unhideGeneralForumTopic,
         unpinAllGeneralForumTopicMessages} :
       Always(a, Changes)
  BY ChangeAtoms, NeverTyped, AlwaysTyped, AlwaysSeq, AlwaysOr, TypedSeq, TypedOr
<1>8. \A a \in
       {promoteChatMember, restrictChatMember, setChatAdministratorCustomTitle,
         unbanChatMember, banChatSenderChat, unbanChatSenderChat, setChatMemberTag,
         setChatTitle, setChatDescription, setChatPhoto, deleteChatPhoto,
         setChatPermissions, setChatStickerSet, deleteChatStickerSet,
         setChatMenuButton, getChatMenuButton} :
       Apart(a, Changes, Refusers)
  BY ChangeAtoms, RefusalAtoms, NeverBefore, NeverAfter, NeverSeq, NeverOr, ApartSeq, ApartOr
<1>9. \A a \in
       {verifyChat, removeChatVerification, verifyUser, removeUserVerification,
         getChat, getChatAdministrators, getChatMember, getChatMemberCount,
         leaveChat, exportChatInviteLink, createChatInviteLink,
         createChatSubscriptionInviteLink, editChatInviteLink,
         editChatSubscriptionInviteLink, revokeChatInviteLink,
         approveChatJoinRequest} :
       Apart(a, Changes, Refusers)
  BY ChangeAtoms, RefusalAtoms, NeverBefore, NeverAfter, NeverSeq, NeverOr, ApartSeq, ApartOr
<1>10. \A a \in
       {declineChatJoinRequest, answerChatJoinRequestQuery,
         sendChatJoinRequestWebApp, createForumTopic, editForumTopic,
         closeForumTopic, reopenForumTopic, deleteForumTopic,
         unpinAllForumTopicMessages, editGeneralForumTopic, closeGeneralForumTopic,
         reopenGeneralForumTopic, hideGeneralForumTopic, unhideGeneralForumTopic,
         unpinAllGeneralForumTopicMessages} :
       Apart(a, Changes, Refusers)
  BY ChangeAtoms, RefusalAtoms, NeverBefore, NeverAfter, NeverSeq, NeverOr, ApartSeq, ApartOr
<1>11. \A a \in
       {promoteChatMember, restrictChatMember, setChatAdministratorCustomTitle,
         banChatMember, unbanChatMember, banChatSenderChat, unbanChatSenderChat,
         setChatMemberTag, setChatTitle, setChatDescription, setChatPhoto,
         deleteChatPhoto, setChatPermissions, setChatStickerSet,
         deleteChatStickerSet, setChatMenuButton} :
       Never(a, {"leaves"})
  BY LeaveAtoms, NeverSeq, NeverOr
<1>12. \A a \in
       {getChatMenuButton, verifyChat, removeChatVerification, verifyUser,
         removeUserVerification, getChat, getChatAdministrators, getChatMember,
         getChatMemberCount, exportChatInviteLink, createChatInviteLink,
         createChatSubscriptionInviteLink, editChatInviteLink,
         editChatSubscriptionInviteLink, revokeChatInviteLink,
         approveChatJoinRequest} :
       Never(a, {"leaves"})
  BY LeaveAtoms, NeverSeq, NeverOr
<1>13. \A a \in
       {declineChatJoinRequest, answerChatJoinRequestQuery,
         sendChatJoinRequestWebApp, createForumTopic, editForumTopic,
         closeForumTopic, reopenForumTopic, deleteForumTopic,
         unpinAllForumTopicMessages, editGeneralForumTopic, closeGeneralForumTopic,
         reopenGeneralForumTopic, hideGeneralForumTopic, unhideGeneralForumTopic,
         unpinAllGeneralForumTopicMessages} :
       Never(a, {"leaves"})
  BY LeaveAtoms, NeverSeq, NeverOr
<1>14. \A a \in
       {promoteChatMember, restrictChatMember, setChatAdministratorCustomTitle,
         banChatMember, unbanChatMember, banChatSenderChat, unbanChatSenderChat,
         setChatMemberTag, setChatTitle, setChatDescription, setChatPhoto,
         deleteChatPhoto, setChatPermissions, setChatStickerSet,
         deleteChatStickerSet, verifyChat} :
       Never(a, {"myself"})
  BY LeaveAtoms, NeverSeq, NeverOr
<1>15. \A a \in
       {removeChatVerification, verifyUser, removeUserVerification, getChat,
         getChatAdministrators, getChatMember, getChatMemberCount, leaveChat,
         exportChatInviteLink, createChatInviteLink,
         createChatSubscriptionInviteLink, editChatInviteLink,
         editChatSubscriptionInviteLink, revokeChatInviteLink,
         approveChatJoinRequest, declineChatJoinRequest} :
       Never(a, {"myself"})
  BY LeaveAtoms, NeverSeq, NeverOr
<1>16. \A a \in
       {answerChatJoinRequestQuery, sendChatJoinRequestWebApp, createForumTopic,
         editForumTopic, closeForumTopic, reopenForumTopic, deleteForumTopic,
         unpinAllForumTopicMessages, editGeneralForumTopic, closeGeneralForumTopic,
         reopenGeneralForumTopic, hideGeneralForumTopic, unhideGeneralForumTopic,
         unpinAllGeneralForumTopicMessages} :
       Never(a, {"myself"})
  BY LeaveAtoms, NeverSeq, NeverOr
<1>17. \A a \in
       {promoteChatMember, restrictChatMember, setChatAdministratorCustomTitle,
         banChatMember, unbanChatMember, banChatSenderChat, unbanChatSenderChat,
         setChatMemberTag, setChatTitle, setChatDescription, setChatPhoto,
         deleteChatPhoto, setChatPermissions, setChatStickerSet,
         deleteChatStickerSet, setChatMenuButton} :
       First(a, {"onlyChannel"}, {"inputChannel"})
  BY ChannelAtoms, FirstTyped, FirstSeq, FirstOr, AlwaysSeq, TypedSeq, TypedOr
<1>18. \A a \in
       {getChatMenuButton, verifyChat, removeChatVerification, verifyUser,
         removeUserVerification, getChat, getChatAdministrators, getChatMember,
         getChatMemberCount, leaveChat, exportChatInviteLink, createChatInviteLink,
         createChatSubscriptionInviteLink, editChatInviteLink,
         editChatSubscriptionInviteLink, revokeChatInviteLink} :
       First(a, {"onlyChannel"}, {"inputChannel"})
  BY ChannelAtoms, FirstTyped, FirstSeq, FirstOr, AlwaysSeq, TypedSeq, TypedOr
<1>19. \A a \in
       {approveChatJoinRequest, declineChatJoinRequest, answerChatJoinRequestQuery,
         sendChatJoinRequestWebApp, createForumTopic, editForumTopic,
         closeForumTopic, reopenForumTopic, deleteForumTopic,
         unpinAllForumTopicMessages, editGeneralForumTopic, closeGeneralForumTopic,
         reopenGeneralForumTopic, hideGeneralForumTopic, unhideGeneralForumTopic,
         unpinAllGeneralForumTopicMessages} :
       First(a, {"onlyChannel"}, {"inputChannel"})
  BY ChannelAtoms, FirstTyped, FirstSeq, FirstOr, AlwaysSeq, TypedSeq, TypedOr
<1>20. \A a \in
       {promoteChatMember, restrictChatMember, setChatAdministratorCustomTitle,
         banChatMember, unbanChatMember, banChatSenderChat, unbanChatSenderChat,
         setChatMemberTag, setChatTitle, setChatDescription, setChatPhoto,
         deleteChatPhoto, setChatPermissions, setChatStickerSet,
         deleteChatStickerSet, setChatMenuButton} :
       Never(a, {"unnamed"})
  BY UnnamedAtoms, DoesNamed, NeverSeq, NeverOr
<1>21. \A a \in
       {getChatMenuButton, verifyChat, removeChatVerification, verifyUser,
         removeUserVerification, getChat, getChatAdministrators, getChatMember,
         getChatMemberCount, leaveChat, exportChatInviteLink, createChatInviteLink,
         createChatSubscriptionInviteLink, editChatInviteLink,
         editChatSubscriptionInviteLink, revokeChatInviteLink} :
       Never(a, {"unnamed"})
  BY UnnamedAtoms, DoesNamed, NeverSeq, NeverOr
<1>22. \A a \in
       {approveChatJoinRequest, declineChatJoinRequest, answerChatJoinRequestQuery,
         sendChatJoinRequestWebApp, createForumTopic, editForumTopic,
         closeForumTopic, reopenForumTopic, deleteForumTopic,
         unpinAllForumTopicMessages, editGeneralForumTopic, closeGeneralForumTopic,
         reopenGeneralForumTopic, hideGeneralForumTopic, unhideGeneralForumTopic,
         unpinAllGeneralForumTopicMessages} :
       Never(a, {"unnamed"})
  BY UnnamedAtoms, DoesNamed, NeverSeq, NeverOr
<1> HIDE DEF Opt, promoteChatMember, Begin, parseChatID, resolveInputChannel,
      restrictChatMember, setChatAdministratorCustomTitle, AnyGroup, InGroup,
      InChannel, banChatMember, unbanChatMember, NotBanned, banChatSenderChat,
      unbanChatSenderChat, setChatMemberTag, setChatTitle, setChatDescription,
      setChatPhoto, deleteChatPhoto, setChatPermissions, setChatStickerSet,
      deleteChatStickerSet, setChatMenuButton, MenuButtonUser, getChatMenuButton,
      verifyChat, resolvePeerForVerify, removeChatVerification, verifyUser,
      removeUserVerification, getChat, getChatPrivate, getChatGroup, getChatChannel,
      getChatAdministrators, getChatAdminsGroup, getChatAdminsChannel,
      getChatMember, getChatMemberPrivate, getChatMemberGroup, getChatMemberChannel,
      getChatMemberCount, getMemberCountGroup, getMemberCountChannel, leaveChat,
      exportChatInviteLink, resolvePeerForChat, exportedToInviteLink,
      createChatInviteLink, createChatSubscriptionInviteLink, editChatInviteLink,
      EditInvite, editChatSubscriptionInviteLink, revokeChatInviteLink,
      approveChatJoinRequest, hideChatJoinRequest, declineChatJoinRequest,
      answerChatJoinRequestQuery, sendChatJoinRequestWebApp, createForumTopic,
      editForumTopic, parseTopicID, closeForumTopic, toggleTopicClosed,
      reopenForumTopic, deleteForumTopic, unpinAllForumTopicMessages,
      editGeneralForumTopic, closeGeneralForumTopic, toggleGeneralTopicClosed,
      reopenGeneralForumTopic, hideGeneralForumTopic, toggleGeneralTopicHidden,
      unhideGeneralForumTopic, unpinAllGeneralForumTopicMessages
<1>23. \A m \in DOMAIN ChatWays : First(ChatWays[m], Connects, CallsMade)
  BY <1>1, <1>2, <1>3 DEF ChatWays
<1>24. \A m \in DOMAIN ChatWays : m \in Readers => Never(ChatWays[m], Changes)
  BY <1>4 DEF ChatWays, Readers
<1>25. \A m \in DOMAIN ChatWays : m \notin Readers \cup MayAnswerHollow =>
         Always(ChatWays[m], Changes)
  BY <1>5, <1>6, <1>7 DEF ChatWays, Readers, MayAnswerHollow
<1>26. \A m \in DOMAIN ChatWays : m \notin PartlyDone => Apart(ChatWays[m], Changes, Refusers)
  BY <1>8, <1>9, <1>10 DEF ChatWays, PartlyDone
<1>27. \A m \in DOMAIN ChatWays : m # "leaveChat" => Never(ChatWays[m], {"leaves"})
  BY <1>11, <1>12, <1>13 DEF ChatWays
<1>28. \A m \in DOMAIN ChatWays : m \notin {"getChatMenuButton", "setChatMenuButton"} =>
         Never(ChatWays[m], {"myself"})
  BY <1>14, <1>15, <1>16 DEF ChatWays
<1>29. \A m \in DOMAIN ChatWays : First(ChatWays[m], {"onlyChannel"}, {"inputChannel"})
  BY <1>17, <1>18, <1>19 DEF ChatWays
<1>30. \A m \in DOMAIN ChatWays : Never(ChatWays[m], {"unnamed"})
  BY <1>20, <1>21, <1>22 DEF ChatWays
<1>31. ChatWays["leaveChat"] = leaveChat
  BY DEF ChatWays
<1> SUFFICES ASSUME NEW m \in DOMAIN ChatWays PROVE Ordered(m, ChatWays[m])
  OBVIOUS
<1> DEFINE a == ChatWays[m]
<1>32. Apart(a, OtherTargets, {"leaves"}) /\ First(a, GroupTargets, {"leaves"})
  <2>1. CASE m = "leaveChat"
    BY <2>1, <1>31, LeaveChatOrdered, NeverBefore
  <2>2. CASE m # "leaveChat"
    <3>1. Never(a, {"leaves"})
      BY <2>2, <1>27
    <3> QED
      BY <3>1, NeverFirst, NeverAfter
  <2> QED
    BY <2>1, <2>2
<1>33. ASSUME m \notin Misaddressed PROVE Apart(a, {"myself"}, Changes)
  <2>1. CASE m = "getChatMenuButton"
    <3>1. Never(a, Changes)
      BY <2>1, <1>24 DEF Readers
    <3> QED
      BY <3>1, NeverAfter
  <2>2. CASE m # "getChatMenuButton"
    <3>1. Never(a, {"myself"})
      BY <2>2, <1>28, <1>33 DEF Misaddressed
    <3> QED
      BY <3>1, NeverBefore
  <2> QED
    BY <2>1, <2>2
<1>34. Apart(a, AnyTarget, {"unnamed"})
  BY <1>30, NeverAfter
<1> QED
  BY <1>23, <1>24, <1>25, <1>26, <1>29, <1>32, <1>33, <1>34 DEF Ordered

\* The handlers of BotMethods keep the order.
LEMMA BotWaysOrdered ==
  \A m \in DOMAIN BotWays : Ordered(m, BotWays[m])
<1> USE DEF Opt, answerInlineQuery, answerCallbackQuery, setGameScore,
      getGameHighScores, savePreparedInlineMessage, Call, answerWebAppQuery,
      answerGuestQuery, savePreparedKeyboardButton, getMe, loadMeLocked,
      getBusinessConnection, requireBusinessConn, setBusinessAccountName,
      invokeBusiness, setBusinessAccountBio, setBusinessAccountUsername,
      readBusinessMessage, deleteBusinessMessages, setBusinessAccountProfilePhoto,
      uploadFile, removeBusinessAccountProfilePhoto, getBusinessAccountStarBalance,
      setBusinessAccountGiftSettings, transferBusinessAccountStars,
      getBusinessAccountGifts, deleteStory, getMyCommands, setMyCommands,
      parseBotCommands, deleteMyCommands, getMyName, setMyName, getMyDescription,
      setMyDescription, getMyShortDescription, setMyShortDescription,
      getMyDefaultAdministratorRights, setMyDefaultAdministratorRights, SetRights,
      setMyProfilePhoto, removeMyProfilePhoto, getUserProfilePhotos, Query,
      getUserProfileAudios, setPassportDataErrors, getCustomEmojiStickers,
      setUserEmojiStatus, getUserPersonalChatMessages, getManagedBotToken,
      getManagedBotAccessSettings, setManagedBotAccessSettings,
      replaceManagedBotToken, setStickerSetTitle, connectStickers, deleteStickerSet,
      stickerSetInput, setCustomEmojiStickerSetThumbnail, setStickerPositionInSet,
      deleteStickerFromSet, setStickerEmojiList, setStickerKeywords,
      setStickerMaskPosition, parseMaskPosition, getStickerSet,
      getForumTopicIconStickers, uploadStickerFile, uploadToInputDocument,
      fileIDToInputDocument, createNewStickerSet, addStickerToSet,
      replaceStickerInSet, setStickerSetThumbnail, sendInvoice, buildInvoiceMedia,
      buildInvoiceExtendedMedia, sendMediaMessage, cachePeersFromMessage,
      createInvoiceLink, answerShippingQuery, answerPreCheckoutQuery,
      refundStarPayment, getMyStarBalance, getStarTransactions, sendGift,
      giftPremiumSubscription, getAvailableGifts, resolveGiftSetNames, getUserGifts,
      getChatGifts, transferGift, upgradeGift, convertGiftToStars,
      editUserStarSubscription, getUserChatBoosts, getFile, downloadToTemp,
      downloadWebByLocation, writeChunksToFile, tryRefreshFileReference,
      fetchSourceMessages, downloadByLocation, downloadViaCDN
<1>1. Typed(downloadToTemp)
  BY ConnectAtoms, FirstTyped, FirstSeq, FirstOr, AlwaysSeq, TypedSeq, TypedOr
<1>2. First(getFile, Connects, CallsMade)
  <2> HIDE DEF downloadToTemp
  <2> QED
    BY <1>1, ConnectAtoms, FirstTyped, FirstSeq, FirstOr, AlwaysSeq, TypedSeq, TypedOr
<1>3. \A a \in
       {answerInlineQuery, answerCallbackQuery, setGameScore, getGameHighScores,
         savePreparedInlineMessage, answerWebAppQuery, answerGuestQuery,
         savePreparedKeyboardButton, getMe, getBusinessConnection,
         setBusinessAccountName, setBusinessAccountBio, setBusinessAccountUsername,
         readBusinessMessage, deleteBusinessMessages,
         setBusinessAccountProfilePhoto} :
       First(a, Connects, CallsMade)
  BY ConnectAtoms, FirstTyped, FirstSeq, FirstOr, AlwaysSeq, TypedSeq, TypedOr
<1>4. \A a \in
       {removeBusinessAccountProfilePhoto, getBusinessAccountStarBalance,
         setBusinessAccountGiftSettings, transferBusinessAccountStars,
         getBusinessAccountGifts, deleteStory, getMyCommands, setMyCommands,
         deleteMyCommands, getMyName, setMyName, getMyDescription, setMyDescription,
         getMyShortDescription, setMyShortDescription,
         getMyDefaultAdministratorRights} :
       First(a, Connects, CallsMade)
  BY ConnectAtoms, FirstTyped, FirstSeq, FirstOr, AlwaysSeq, TypedSeq, TypedOr
<1>5. \A a \in
       {setMyDefaultAdministratorRights, setMyProfilePhoto, removeMyProfilePhoto,
         getUserProfilePhotos, getUserProfileAudios, setPassportDataErrors,
         getCustomEmojiStickers, setUserEmojiStatus, getUserPersonalChatMessages,
         getManagedBotToken, getManagedBotAccessSettings,
         setManagedBotAccessSettings, replaceManagedBotToken, setStickerSetTitle,
         deleteStickerSet, setCustomEmojiStickerSetThumbnail} :
       First(a, Connects, CallsMade)
  BY ConnectAtoms, FirstTyped, FirstSeq, FirstOr, AlwaysSeq, TypedSeq, TypedOr
<1>6. \A a \in
       {setStickerPositionInSet, deleteStickerFromSet, setStickerEmojiList,
         setStickerKeywords, setStickerMaskPosition, getStickerSet,
         getForumTopicIconStickers, uploadStickerFile, createNewStickerSet,
         addStickerToSet, replaceStickerInSet, setStickerSetThumbnail, sendInvoice,
         createInvoiceLink, answerShippingQuery, answerPreCheckoutQuery} :
       First(a, Connects, CallsMade)
  BY ConnectAtoms, FirstTyped, FirstSeq, FirstOr, AlwaysSeq, TypedSeq, TypedOr
<1>7. \A a \in
       {refundStarPayment, getMyStarBalance, getStarTransactions, sendGift,
         giftPremiumSubscription, getAvailableGifts, getUserGifts, getChatGifts,
         transferGift, upgradeGift, convertGiftToStars, editUserStarSubscription,
         getUserChatBoosts} :
       First(a, Connects, CallsMade)
  BY ConnectAtoms, FirstTyped, FirstSeq, FirstOr, AlwaysSeq, TypedSeq, TypedOr
<1>8. Never(downloadToTemp, Changes)
  BY ChangeAtoms, NeverSeq, NeverOr
<1>9. Never(getFile, Changes)
  <2> HIDE DEF downloadToTemp
  <2> QED
    BY <1>8, ChangeAtoms, NeverSeq, NeverOr
<1>10. \A a \in
       {getGameHighScores, getMe, getBusinessConnection,
         getBusinessAccountStarBalance, getBusinessAccountGifts, getMyCommands,
         getMyName, getMyDescription, getMyShortDescription,
         getMyDefaultAdministratorRights, getUserProfilePhotos,
         getUserProfileAudios} :
       Never(a, Changes)
  BY ChangeAtoms, NeverSeq, NeverOr
<1>11. \A a \in
       {getCustomEmojiStickers, getUserPersonalChatMessages,
         getManagedBotAccessSettings, getStickerSet, getForumTopicIconStickers,
         uploadStickerFile, getMyStarBalance, getStarTransactions,
         getAvailableGifts, getUserGifts, getChatGifts, getUserChatBoosts} :
       Never(a, Changes)
  BY ChangeAtoms, NeverSeq, NeverOr
<1>12. \A a \in
       {answerInlineQuery, answerCallbackQuery, setGameScore,
         savePreparedInlineMessage, answerWebAppQuery, answerGuestQuery,
         savePreparedKeyboardButton, setBusinessAccountName, setBusinessAccountBio,
         setBusinessAccountUsername, readBusinessMessage, deleteBusinessMessages,
         setBusinessAccountProfilePhoto, removeBusinessAccountProfilePhoto,
         setBusinessAccountGiftSettings, transferBusinessAccountStars, deleteStory}
         :
       Always(a, Changes)
  BY ChangeAtoms, NeverTyped, AlwaysTyped, AlwaysSeq, AlwaysOr, TypedSeq, TypedOr
<1>13. \A a \in
       {setMyCommands, deleteMyCommands, setMyName, setMyDescription,
         setMyShortDescription, setMyProfilePhoto, setPassportDataErrors,
         setUserEmojiStatus, setManagedBotAccessSettings, replaceManagedBotToken,
         setStickerSetTitle, deleteStickerSet, setCustomEmojiStickerSetThumbnail,
         setStickerPositionInSet, deleteStickerFromSet, setStickerEmojiList,
         setStickerKeywords} :
       Always(a, Changes)
  BY ChangeAtoms, NeverTyped, AlwaysTyped, AlwaysSeq, AlwaysOr, TypedSeq, TypedOr
<1>14. \A a \in
       {setStickerMaskPosition, createNewStickerSet, addStickerToSet,
         replaceStickerInSet, setStickerSetThumbnail, sendInvoice,
         createInvoiceLink, answerShippingQuery, answerPreCheckoutQuery,
         refundStarPayment, giftPremiumSubscription, transferGift, upgradeGift,
         convertGiftToStars, editUserStarSubscription} :
       Always(a, Changes)
  BY ChangeAtoms, NeverTyped, AlwaysTyped, AlwaysSeq, AlwaysOr, TypedSeq, TypedOr
<1>15. \A a \in
       {answerInlineQuery, answerCallbackQuery, setGameScore, getGameHighScores,
         savePreparedInlineMessage, answerWebAppQuery, answerGuestQuery,
         savePreparedKeyboardButton, getMe, getBusinessConnection,
         setBusinessAccountName, setBusinessAccountBio, setBusinessAccountUsername,
         readBusinessMessage, deleteBusinessMessages,
         setBusinessAccountProfilePhoto} :
       Apart(a, Changes, Refusers)
  BY ChangeAtoms, RefusalAtoms, NeverBefore, NeverAfter, NeverSeq, NeverOr, ApartSeq, ApartOr
<1>16. \A a \in
       {removeBusinessAccountProfilePhoto, getBusinessAccountStarBalance,
         setBusinessAccountGiftSettings, transferBusinessAccountStars,
         getBusinessAccountGifts, deleteStory, getMyCommands, setMyCommands,
         deleteMyCommands, getMyName, setMyName, getMyDescription, setMyDescription,
         getMyShortDescription, setMyShortDescription,
         getMyDefaultAdministratorRights} :
       Apart(a, Changes, Refusers)
  BY ChangeAtoms, RefusalAtoms, NeverBefore, NeverAfter, NeverSeq, NeverOr, ApartSeq, ApartOr
<1>17. \A a \in
       {setMyDefaultAdministratorRights, setMyProfilePhoto, removeMyProfilePhoto,
         getUserProfilePhotos, getUserProfileAudios, setPassportDataErrors,
         getCustomEmojiStickers, setUserEmojiStatus, getUserPersonalChatMessages,
         getManagedBotToken, getManagedBotAccessSettings,
         setManagedBotAccessSettings, replaceManagedBotToken, setStickerSetTitle,
         deleteStickerSet, setCustomEmojiStickerSetThumbnail} :
       Apart(a, Changes, Refusers)
  BY ChangeAtoms, RefusalAtoms, NeverBefore, NeverAfter, NeverSeq, NeverOr, ApartSeq, ApartOr
<1>18. \A a \in
       {setStickerPositionInSet, deleteStickerFromSet, setStickerEmojiList,
         setStickerKeywords, setStickerMaskPosition, getStickerSet,
         getForumTopicIconStickers, uploadStickerFile, createNewStickerSet,
         addStickerToSet, replaceStickerInSet, setStickerSetThumbnail, sendInvoice,
         createInvoiceLink, answerShippingQuery, answerPreCheckoutQuery} :
       Apart(a, Changes, Refusers)
  BY ChangeAtoms, RefusalAtoms, NeverBefore, NeverAfter, NeverSeq, NeverOr, ApartSeq, ApartOr
<1>19. \A a \in
       {refundStarPayment, getMyStarBalance, getStarTransactions, sendGift,
         giftPremiumSubscription, getAvailableGifts, getUserGifts, getChatGifts,
         transferGift, upgradeGift, convertGiftToStars, editUserStarSubscription,
         getUserChatBoosts, getFile} :
       Apart(a, Changes, Refusers)
  BY ChangeAtoms, RefusalAtoms, NeverBefore, NeverAfter, NeverSeq, NeverOr, ApartSeq, ApartOr
<1>20. Never(downloadToTemp, {"leaves", "myself", "inputChannel"})
  BY TargetAtoms, NeverSeq, NeverOr
<1>21. Never(getFile, {"leaves", "myself", "inputChannel"})
  <2> HIDE DEF downloadToTemp
  <2> QED
    BY <1>20, TargetAtoms, NeverSeq, NeverOr
<1>22. \A a \in
       {answerInlineQuery, answerCallbackQuery, setGameScore, getGameHighScores,
         savePreparedInlineMessage, answerWebAppQuery, answerGuestQuery,
         savePreparedKeyboardButton, getMe, getBusinessConnection,
         setBusinessAccountName, setBusinessAccountBio, setBusinessAccountUsername,
         readBusinessMessage, deleteBusinessMessages,
         setBusinessAccountProfilePhoto} :
       Never(a, {"leaves", "myself", "inputChannel"})
  BY TargetAtoms, NeverSeq, NeverOr
<1>23. \A a \in
       {removeBusinessAccountProfilePhoto, getBusinessAccountStarBalance,
         setBusinessAccountGiftSettings, transferBusinessAccountStars,
         getBusinessAccountGifts, deleteStory, getMyCommands, setMyCommands,
         deleteMyCommands, getMyName, setMyName, getMyDescription, setMyDescription,
         getMyShortDescription, setMyShortDescription,
         getMyDefaultAdministratorRights} :
       Never(a, {"leaves", "myself", "inputChannel"})
  BY TargetAtoms, NeverSeq, NeverOr
<1>24. \A a \in
       {setMyDefaultAdministratorRights, setMyProfilePhoto, removeMyProfilePhoto,
         getUserProfilePhotos, getUserProfileAudios, setPassportDataErrors,
         getCustomEmojiStickers, setUserEmojiStatus, getUserPersonalChatMessages,
         getManagedBotToken, getManagedBotAccessSettings,
         setManagedBotAccessSettings, replaceManagedBotToken, setStickerSetTitle,
         deleteStickerSet, setCustomEmojiStickerSetThumbnail} :
       Never(a, {"leaves", "myself", "inputChannel"})
  BY TargetAtoms, NeverSeq, NeverOr
<1>25. \A a \in
       {setStickerPositionInSet, deleteStickerFromSet, setStickerEmojiList,
         setStickerKeywords, setStickerMaskPosition, getStickerSet,
         getForumTopicIconStickers, uploadStickerFile, createNewStickerSet,
         addStickerToSet, replaceStickerInSet, setStickerSetThumbnail, sendInvoice,
         createInvoiceLink, answerShippingQuery, answerPreCheckoutQuery} :
       Never(a, {"leaves", "myself", "inputChannel"})
  BY TargetAtoms, NeverSeq, NeverOr
<1>26. \A a \in
       {refundStarPayment, getMyStarBalance, getStarTransactions, sendGift,
         giftPremiumSubscription, getAvailableGifts, getUserGifts, getChatGifts,
         transferGift, upgradeGift, convertGiftToStars, editUserStarSubscription,
         getUserChatBoosts} :
       Never(a, {"leaves", "myself", "inputChannel"})
  BY TargetAtoms, NeverSeq, NeverOr
<1>27. Never(downloadToTemp, {"unnamed"})
  BY UnnamedAtoms, DoesNamed, NeverSeq, NeverOr
<1>28. Never(getFile, {"unnamed"})
  <2> HIDE DEF downloadToTemp
  <2> QED
    BY <1>27, UnnamedAtoms, DoesNamed, NeverSeq, NeverOr
<1>29. \A a \in
       {answerInlineQuery, answerCallbackQuery, setGameScore, getGameHighScores,
         savePreparedInlineMessage, answerWebAppQuery, answerGuestQuery,
         savePreparedKeyboardButton, getMe, getBusinessConnection,
         setBusinessAccountName, setBusinessAccountBio, setBusinessAccountUsername,
         readBusinessMessage, setBusinessAccountProfilePhoto,
         removeBusinessAccountProfilePhoto} :
       Never(a, {"unnamed"})
  BY UnnamedAtoms, DoesNamed, NeverSeq, NeverOr
<1>30. \A a \in
       {getBusinessAccountStarBalance, setBusinessAccountGiftSettings,
         transferBusinessAccountStars, getBusinessAccountGifts, deleteStory,
         getMyCommands, setMyCommands, deleteMyCommands, getMyName, setMyName,
         getMyDescription, setMyDescription, getMyShortDescription,
         setMyShortDescription, getMyDefaultAdministratorRights,
         setMyDefaultAdministratorRights} :
       Never(a, {"unnamed"})
  BY UnnamedAtoms, DoesNamed, NeverSeq, NeverOr
<1>31. \A a \in
       {setMyProfilePhoto, removeMyProfilePhoto, getUserProfilePhotos,
         getUserProfileAudios, setPassportDataErrors, getCustomEmojiStickers,
         setUserEmojiStatus, getUserPersonalChatMessages, getManagedBotToken,
         getManagedBotAccessSettings, setManagedBotAccessSettings,
         replaceManagedBotToken, setStickerSetTitle, deleteStickerSet,
         setCustomEmojiStickerSetThumbnail, setStickerPositionInSet} :
       Never(a, {"unnamed"})
  BY UnnamedAtoms, DoesNamed, NeverSeq, NeverOr
<1>32. \A a \in
       {deleteStickerFromSet, setStickerEmojiList, setStickerKeywords,
         setStickerMaskPosition, getStickerSet, getForumTopicIconStickers,
         uploadStickerFile, createNewStickerSet, addStickerToSet,
         replaceStickerInSet, setStickerSetThumbnail, sendInvoice,
         createInvoiceLink, answerShippingQuery, answerPreCheckoutQuery,
         refundStarPayment} :
       Never(a, {"unnamed"})
  BY UnnamedAtoms, DoesNamed, NeverSeq, NeverOr
<1>33. \A a \in
       {getMyStarBalance, getStarTransactions, sendGift, giftPremiumSubscription,
         getAvailableGifts, getUserGifts, getChatGifts, transferGift, upgradeGift,
         convertGiftToStars, editUserStarSubscription, getUserChatBoosts} :
       Never(a, {"unnamed"})
  BY UnnamedAtoms, DoesNamed, NeverSeq, NeverOr
<1> HIDE DEF Opt, answerInlineQuery, answerCallbackQuery, setGameScore,
      getGameHighScores, savePreparedInlineMessage, Call, answerWebAppQuery,
      answerGuestQuery, savePreparedKeyboardButton, getMe, loadMeLocked,
      getBusinessConnection, requireBusinessConn, setBusinessAccountName,
      invokeBusiness, setBusinessAccountBio, setBusinessAccountUsername,
      readBusinessMessage, deleteBusinessMessages, setBusinessAccountProfilePhoto,
      uploadFile, removeBusinessAccountProfilePhoto, getBusinessAccountStarBalance,
      setBusinessAccountGiftSettings, transferBusinessAccountStars,
      getBusinessAccountGifts, deleteStory, getMyCommands, setMyCommands,
      parseBotCommands, deleteMyCommands, getMyName, setMyName, getMyDescription,
      setMyDescription, getMyShortDescription, setMyShortDescription,
      getMyDefaultAdministratorRights, setMyDefaultAdministratorRights, SetRights,
      setMyProfilePhoto, removeMyProfilePhoto, getUserProfilePhotos, Query,
      getUserProfileAudios, setPassportDataErrors, getCustomEmojiStickers,
      setUserEmojiStatus, getUserPersonalChatMessages, getManagedBotToken,
      getManagedBotAccessSettings, setManagedBotAccessSettings,
      replaceManagedBotToken, setStickerSetTitle, connectStickers, deleteStickerSet,
      stickerSetInput, setCustomEmojiStickerSetThumbnail, setStickerPositionInSet,
      deleteStickerFromSet, setStickerEmojiList, setStickerKeywords,
      setStickerMaskPosition, parseMaskPosition, getStickerSet,
      getForumTopicIconStickers, uploadStickerFile, uploadToInputDocument,
      fileIDToInputDocument, createNewStickerSet, addStickerToSet,
      replaceStickerInSet, setStickerSetThumbnail, sendInvoice, buildInvoiceMedia,
      buildInvoiceExtendedMedia, sendMediaMessage, cachePeersFromMessage,
      createInvoiceLink, answerShippingQuery, answerPreCheckoutQuery,
      refundStarPayment, getMyStarBalance, getStarTransactions, sendGift,
      giftPremiumSubscription, getAvailableGifts, resolveGiftSetNames, getUserGifts,
      getChatGifts, transferGift, upgradeGift, convertGiftToStars,
      editUserStarSubscription, getUserChatBoosts, getFile, downloadToTemp,
      downloadWebByLocation, writeChunksToFile, tryRefreshFileReference,
      fetchSourceMessages, downloadByLocation, downloadViaCDN
<1>34. \A m \in DOMAIN BotWays : First(BotWays[m], Connects, CallsMade)
  BY <1>2, <1>3, <1>4, <1>5, <1>6, <1>7 DEF BotWays
<1>35. \A m \in DOMAIN BotWays : m \in Readers => Never(BotWays[m], Changes)
  BY <1>9, <1>10, <1>11 DEF BotWays, Readers
<1>36. \A m \in DOMAIN BotWays : m \notin Readers \cup MayAnswerHollow =>
         Always(BotWays[m], Changes)
  BY <1>12, <1>13, <1>14 DEF BotWays, Readers, MayAnswerHollow
<1>37. \A m \in DOMAIN BotWays : m \notin PartlyDone => Apart(BotWays[m], Changes, Refusers)
  BY <1>15, <1>16, <1>17, <1>18, <1>19 DEF BotWays, PartlyDone
<1>38. \A m \in DOMAIN BotWays : Never(BotWays[m], {"leaves", "myself", "inputChannel"})
  BY <1>21, <1>22, <1>23, <1>24, <1>25, <1>26 DEF BotWays
<1>39. \A m \in DOMAIN BotWays : m \notin Misaddressed \cup {"deleteBusinessMessages"} =>
         Never(BotWays[m], {"unnamed"})
  BY <1>28, <1>29, <1>30, <1>31, <1>32, <1>33 DEF BotWays, Misaddressed
<1>40. BotWays["deleteBusinessMessages"] = deleteBusinessMessages
  BY DEF BotWays
<1> SUFFICES ASSUME NEW m \in DOMAIN BotWays PROVE Ordered(m, BotWays[m])
  OBVIOUS
<1> DEFINE a == BotWays[m]
<1>41. ASSUME m \notin Misaddressed PROVE Apart(a, AnyTarget, {"unnamed"})
  <2>1. CASE m = "deleteBusinessMessages"
    BY <2>1, <1>40, DeleteBusinessMessagesOrdered, NeverBefore
  <2>2. CASE m # "deleteBusinessMessages"
    <3>1. Never(a, {"unnamed"})
      BY <2>2, <1>39, <1>41
    <3> QED
      BY <3>1, NeverAfter
  <2> QED
    BY <2>1, <2>2
<1>42. Never(a, {"leaves"}) /\ Never(a, {"myself"}) /\ Never(a, {"inputChannel"})
  BY <1>38, Subkinds
<1> QED
  BY <1>34, <1>35, <1>36, <1>37, <1>41, <1>42, NeverFirst, NeverBefore, NeverAfter DEF Ordered

\* The order that the properties rely on, in every way through each of the 174
\* handlers: connected before called; a method that reads without a change and
\* one that changes things with one; after the change nothing that refuses; the
\* channel's raw id only after a check that it is one.
THEOREM WaysOrdered == \A m \in DOMAIN Ways : Ordered(m, Ways[m])
  BY SendWaysOrdered, ChatWaysOrdered, BotWaysOrdered DEF Ways

-----------------------------------------------------------------------------
(* The peer cache.                                                           *)

\* A good table: what a row says of the chat of its raw id is of that chat,
\* and was true.
Row ==
  [type : Types \cup {"none"}, status : Statuses, named : BOOLEAN,
   deactivated : BOOLEAN, migrated : BOOLEAN]
EntityType == [chat : Types, form : {"user", "here", "left", "forbidden"}, upgraded : BOOLEAN]
GoodRows(R, out) ==
  /\ R \in [RawIds -> Row]
  /\ RawIdsApart => \A t \in Types :
       /\ R[RawOf[t]].type \in {"none", t}
       /\ RowSaysOut(R[RawOf[t]]) => t \in out

\* Every chat has a raw id.
LEMMA RawIdOf == \A t \in Types : RawOf[t] \in RawIds
  BY DEF RawIds

\* A row that is good for its chat keeps the table good.
LEMMA RowChanged ==
  ASSUME NEW R, NEW out, NEW out1, GoodRows(R, out), out \subseteq out1,
         NEW t \in Types, NEW row \in Row,
         RawIdsApart => row.type \in {"none", t} /\ (RowSaysOut(row) => t \in out1)
  PROVE  GoodRows([R EXCEPT ![RawOf[t]] = row], out1)
<1> DEFINE S == [R EXCEPT ![RawOf[t]] = row]
<1>1. S \in [RawIds -> Row]
  BY DEF GoodRows
<1>2. ASSUME RawIdsApart, NEW u \in Types
      PROVE  S[RawOf[u]].type \in {"none", u} /\ (RowSaysOut(S[RawOf[u]]) => u \in out1)
  <2>1. CASE u = t
    <3>1. S[RawOf[u]] = row
      BY <2>1, RawIdOf DEF GoodRows
    <3> QED
      BY <1>2, <2>1, <3>1
  <2>2. CASE u # t
    <3>1. S[RawOf[u]] = R[RawOf[u]]
      BY <1>2, <2>2, RawIdOf DEF GoodRows, RawIdsApart
    <3> QED
      BY <1>2, <3>1 DEF GoodRows
  <2> QED
    BY <2>1, <2>2
<1> QED
  BY <1>1, <1>2 DEF GoodRows

\* SavePeer, SaveChatFlags and SaveBotMemberStatus keep it good, if what they
\* write of the chat was true of it.
LEMMA SavePeerGood ==
  ASSUME NEW R, NEW out, GoodRows(R, out), NEW t \in Types, NEW named \in BOOLEAN
  PROVE  GoodRows(SavePeer(R, t, named), out)
<1> DEFINE old == R[RawOf[t]]
           row == [old EXCEPT !.type = t, !.named = named]
<1>1. old \in Row
  BY RawIdOf DEF GoodRows
<1>2. row \in Row /\ row.type = t /\ row.status = old.status /\ row.deactivated = old.deactivated
  BY <1>1 DEF Row
<1>3. SavePeer(R, t, named) = [R EXCEPT ![RawOf[t]] = row]
  BY RawIdOf DEF SavePeer, GoodRows
<1>4. RawIdsApart => row.type \in {"none", t} /\ (RowSaysOut(row) => t \in out)
  BY <1>2 DEF GoodRows, RowSaysOut
<1> HIDE DEF old, row
<1>5. GoodRows([R EXCEPT ![RawOf[t]] = row], out)
  BY <1>2, <1>4, RowChanged
<1> QED
  BY <1>3, <1>5

LEMMA SaveChatFlagsGood ==
  ASSUME NEW R, NEW out, GoodRows(R, out), NEW t \in Types,
         NEW deactivated \in BOOLEAN, NEW migrated \in BOOLEAN, deactivated => t \in out
  PROVE  GoodRows(SaveChatFlags(R, t, deactivated, migrated), out)
<1> DEFINE old == R[RawOf[t]]
           row == [old EXCEPT !.deactivated = deactivated, !.migrated = migrated]
<1>1. old \in Row
  BY RawIdOf DEF GoodRows
<1>2. row \in Row /\ row.type = old.type /\ row.status = old.status /\ row.deactivated = deactivated
  BY <1>1 DEF Row
<1>3. SaveChatFlags(R, t, deactivated, migrated) \in {R, [R EXCEPT ![RawOf[t]] = row]}
  BY RawIdOf DEF SaveChatFlags, GoodRows
<1>4. RawIdsApart => row.type \in {"none", t} /\ (RowSaysOut(row) => t \in out)
  BY <1>2 DEF GoodRows, RowSaysOut
<1> HIDE DEF old, row
<1>5. GoodRows([R EXCEPT ![RawOf[t]] = row], out)
  BY <1>2, <1>4, RowChanged
<1> QED
  BY <1>3, <1>5

LEMMA SaveBotMemberStatusGood ==
  ASSUME NEW R, NEW out, GoodRows(R, out), NEW t \in Types,
         NEW status \in Statuses, status \in {"left", "kicked"} => t \in out
  PROVE  GoodRows(SaveBotMemberStatus(R, t, status), out)
<1> DEFINE old == R[RawOf[t]]
           row == [old EXCEPT !.status = status]
<1>1. old \in Row
  BY RawIdOf DEF GoodRows
<1>2. row \in Row /\ row.type = old.type /\ row.status = status /\ row.deactivated = old.deactivated
  BY <1>1 DEF Row
<1>3. SaveBotMemberStatus(R, t, status) \in {R, [R EXCEPT ![RawOf[t]] = row]}
  BY RawIdOf DEF SaveBotMemberStatus, GoodRows
<1>4. RawIdsApart => row.type \in {"none", t} /\ (RowSaysOut(row) => t \in out)
  BY <1>2 DEF GoodRows, RowSaysOut
<1> HIDE DEF old, row
<1>5. GoodRows([R EXCEPT ![RawOf[t]] = row], out)
  BY <1>2, <1>4, RowChanged
<1> QED
  BY <1>3, <1>5

\* So does an update about a chat.
LEMMA saveChatPeerGood ==
  ASSUME NEW R, NEW out, GoodRows(R, out), NEW e \in EntityType,
         e.form \in {"left", "forbidden"} \/ e.upgraded => e.chat \in out
  PROVE  GoodRows(saveChatPeer(R, e), out)
<1> DEFINE saved == SavePeer(R, e.chat, FALSE)
           flagged == SaveChatFlags(saved, e.chat, e.upgraded, e.upgraded)
<1>1. e.chat \in Types /\ e.upgraded \in BOOLEAN
  BY DEF EntityType
<1>2. GoodRows(saved, out)
  BY <1>1, SavePeerGood
<1> HIDE DEF saved
<1>3. GoodRows(flagged, out)
  BY <1>1, <1>2, SaveChatFlagsGood
<1> HIDE DEF flagged
<1>4. \A S \in {saved, flagged} : \A status \in {"left", "kicked"} :
        e.form \in {"left", "forbidden"} => GoodRows(SaveBotMemberStatus(S, e.chat, status), out)
  BY <1>1, <1>2, <1>3, SaveBotMemberStatusGood DEF Statuses
<1>5. saveChatPeer(R, e) =
        CASE e.form = "user" -> saved
          [] e.form = "here" -> flagged
          [] e.form = "left" -> SaveBotMemberStatus(flagged, e.chat, "left")
          [] e.form = "forbidden" /\ e.chat = "channel" ->
               SaveBotMemberStatus(flagged, e.chat, "kicked")
          [] OTHER -> SaveBotMemberStatus(saved, e.chat, "kicked")
  BY DEF saveChatPeer, flagged, saved
<1>6. e.form \in {"user", "here", "left", "forbidden"}
  BY DEF EntityType
<1> QED
  BY <1>2, <1>3, <1>4, <1>5, <1>6

\* So does a dialog, and so do all dialogs.
LEMMA warmDialogGood ==
  ASSUME NEW R, NEW out, GoodRows(R, out), NEW e \in EntityType,
         e.form \in {"left", "forbidden"} \/ e.upgraded => e.chat \in out
  PROVE  GoodRows(warmDialog(R, e), out)
<1> DEFINE saved == SavePeer(R, e.chat, FALSE)
<1>1. e.chat \in Types /\ e.upgraded \in BOOLEAN
  BY DEF EntityType
<1>2. GoodRows(saved, out)
  BY <1>1, SavePeerGood
<1> HIDE DEF saved
<1>3. GoodRows(SaveChatFlags(saved, e.chat, e.upgraded, FALSE), out)
  BY <1>1, <1>2, SaveChatFlagsGood
<1>4. e.form = "forbidden" => GoodRows(SaveBotMemberStatus(saved, e.chat, "kicked"), out)
  BY <1>1, <1>2, SaveBotMemberStatusGood DEF Statuses
<1>5. warmDialog(R, e) =
        CASE e.form = "here" -> SaveChatFlags(saved, e.chat, e.upgraded, FALSE)
          [] e.form = "forbidden" -> SaveBotMemberStatus(saved, e.chat, "kicked")
          [] OTHER -> saved
  BY DEF warmDialog, saved
<1> QED
  BY <1>2, <1>3, <1>4, <1>5

\* What is known of a chat out of which the bot is says so only if it was.
LEMMA EntityGood ==
  ASSUME NEW membership, NEW isUpgraded \in BOOLEAN, NEW out, NEW t \in Types,
         \A u \in Groups : membership[u] # "in" => u \in out,
         isUpgraded => "chat" \in out
  PROVE  /\ EntityOf(t, membership, isUpgraded) \in EntityType
         /\ EntityOf(t, membership, isUpgraded).chat = t
         /\ \/ EntityOf(t, membership, isUpgraded).form \in {"left", "forbidden"}
            \/ EntityOf(t, membership, isUpgraded).upgraded
            => t \in out
<1> DEFINE form == CASE t = "user" -> "user"
              [] t \in Groups /\ membership[t] = "in" -> "here"
              [] t \in Groups /\ membership[t] = "left" -> "left"
              [] OTHER -> "forbidden"
<1>1. form \in {"user", "here", "left", "forbidden"}
  OBVIOUS
<1>2. form \in {"left", "forbidden"} => t \in out
  BY DEF Types, Groups
<1>3. EntityOf(t, membership, isUpgraded) = [chat |-> t, form |-> form, upgraded |-> t = "chat" /\
        isUpgraded]
  BY DEF EntityOf
<1> HIDE DEF form
<1> DEFINE e == [chat |-> t, form |-> form, upgraded |-> t = "chat" /\ isUpgraded]
<1>4. e \in EntityType
  BY <1>1 DEF EntityType
<1>5. e.chat = t /\ e.form = form /\ (e.upgraded => t \in out)
  OBVIOUS
<1> QED
  BY <1>2, <1>3, <1>4, <1>5

LEMMA warmPeerCacheGood ==
  ASSUME NEW R, NEW dialogs, GoodRows(R, wasOut), upgraded \in BOOLEAN,
         \A u \in Groups : member[u] # "in" => u \in wasOut,
         upgraded => "chat" \in wasOut
  PROVE  GoodRows(warmPeerCache(R, dialogs), wasOut)
<1> DEFINE warm(t, acc) == IF t \in dialogs THEN warmDialog(acc, Entity(t)) ELSE acc
<1>1. ASSUME NEW t \in Types, NEW acc, GoodRows(acc, wasOut)
      PROVE  GoodRows(warm(t, acc), wasOut)
  <2>1. /\ Entity(t) \in EntityType /\ Entity(t).chat = t
        /\ Entity(t).form \in {"left", "forbidden"} \/ Entity(t).upgraded => t \in wasOut
    BY EntityGood DEF Entity
  <2>2. GoodRows(warmDialog(acc, Entity(t)), wasOut)
    BY <1>1, <2>1, warmDialogGood
  <2> QED
    BY <1>1, <2>2
<1>2. warmPeerCache(R, dialogs) = warm("channel", warm("chat", warm("user", R)))
  BY DEF warmPeerCache
<1>3. {"user", "chat", "channel"} \subseteq Types
  BY DEF Types
<1> HIDE DEF warm
<1>4. GoodRows(warm("user", R), wasOut)
  BY <1>1, <1>3
<1>5. GoodRows(warm("chat", warm("user", R)), wasOut)
  BY <1>1, <1>3, <1>4
<1> QED
  BY <1>1, <1>2, <1>3, <1>5

-----------------------------------------------------------------------------
(* What is left of a request.                                                *)

\* What is left of a way when its first step has been taken.
LEMMA TailOrdered ==
  ASSUME NEW S, NEW p \in Seq(S), p # <<>>, NEW J, NEW K
  PROVE  /\ Tail(p) \in Seq(S)
         /\ Has(Tail(p), K) => Has(p, K)
         /\ Has(p, K) => Is(p[1], K) \/ Has(Tail(p), K)
         /\ Preceded(p, J, K) => ~Is(p[1], K) /\ (Is(p[1], J) \/ Preceded(Tail(p), J, K))
         /\ NotAfter(p, J, K) => NotAfter(Tail(p), J, K) /\ (Is(p[1], J) => ~Has(Tail(p), K))
         /\ ~Has(p, K) => Preceded(p, J, K)
<1> DEFINE t == Tail(p)
<1>1. /\ t \in Seq(S) /\ Len(p) \in Nat \ {0} /\ Len(t) = Len(p) - 1 /\ DOMAIN p = 1..Len(p) /\
           DOMAIN t = 1..Len(t)
      /\ 1 \in DOMAIN p
      /\ \A i \in 1..Len(t) : t[i] = p[i + 1]
  BY HeadTailProperties, EmptySeq
<1> HIDE DEF t
<1>2. ASSUME NEW i \in DOMAIN t PROVE i + 1 \in DOMAIN p /\ t[i] = p[i + 1] /\ i \in Nat
  BY <1>1
<1>3. ASSUME NEW i \in DOMAIN p, i # 1 PROVE i - 1 \in DOMAIN t /\ t[i - 1] = p[i]
  <2>1. i - 1 \in 1..Len(t) /\ (i - 1) + 1 = i
    BY <1>1, <1>3
  <2> QED
    BY <2>1, <1>1
<1>4. Has(t, K) => Has(p, K)
  BY <1>2 DEF Has
<1>5. Has(p, K) => Is(p[1], K) \/ Has(t, K)
  BY <1>3 DEF Has
<1>6. ASSUME Preceded(p, J, K) PROVE ~Is(p[1], K)
  BY <1>1, <1>6 DEF Preceded
<1>7. ASSUME Preceded(p, J, K), ~Is(p[1], J) PROVE Preceded(t, J, K)
  <2> SUFFICES ASSUME NEW k \in DOMAIN t, Is(t[k], K) PROVE \E j \in 1..(k - 1) : Is(t[j], J)
    BY DEF Preceded
  <2>1. PICK j \in 1..((k + 1) - 1) : Is(p[j], J)
    BY <1>2, <1>7 DEF Preceded
  <2>2. j # 1 /\ j \in DOMAIN p /\ j - 1 \in 1..(k - 1)
    BY <1>1, <1>7, <2>1
  <2> QED
    BY <1>3, <2>1, <2>2
<1>8. ASSUME NotAfter(p, J, K) PROVE NotAfter(t, J, K)
  <2> SUFFICES ASSUME NEW j \in DOMAIN t, NEW k \in DOMAIN t, j < k, Is(t[j], J) PROVE ~Is(t[k], K)
    BY DEF NotAfter
  <2>1. j + 1 < k + 1
    BY <1>2
  <2> QED
    BY <1>2, <1>8, <2>1 DEF NotAfter
<1>9. ASSUME NotAfter(p, J, K), Is(p[1], J), Has(t, K) PROVE FALSE
  <2>1. PICK k \in DOMAIN t : Is(t[k], K)
    BY <1>9 DEF Has
  <2>2. 1 < k + 1
    BY <1>1
  <2> QED
    BY <1>1, <1>2, <1>9, <2>1, <2>2 DEF NotAfter
<1>10. ~Has(p, K) => Preceded(p, J, K)
  BY DEF Has, Preceded
<1> QED
  BY <1>1, <1>4, <1>5, <1>6, <1>7, <1>8, <1>9, <1>10 DEF t

\* The ways are sequences of steps.
LEMMA WaysTyped == \A m \in DOMAIN Ways : Ways[m] \subseteq Seq(StepSet)
<1> SUFFICES ASSUME NEW m \in DOMAIN Ways, NEW p \in Ways[m] PROVE p \in Seq(StepSet)
  OBVIOUS
<1>1. PICK S : p \in Seq(S)
  BY WaysOrdered DEF Ordered, First, Typed
<1>2. \A i \in DOMAIN p : p[i] \in StepSet
  BY DEF StepSet
<1>3. Len(p) \in Nat /\ p \in [1..Len(p) -> S] /\ DOMAIN p = 1..Len(p)
  BY <1>1
<1>4. p \in [1..Len(p) -> StepSet]
  BY <1>2, <1>3
<1> QED
  BY <1>3, <1>4, SeqDef

\* What is left of a request after step s was left of some way that began
\* with s.
LEMMA Passed ==
  ASSUME NEW s, NEW t \in After(s), req.rest \subseteq Seq(StepSet), NEW J, NEW K
  PROVE  /\ t \in Seq(StepSet)
         /\ ~Has(t, K) => Preceded(t, J, K)
         /\ \E p \in req.rest :
              /\ Has(t, K) => Has(p, K)
              /\ Has(p, K) => Is(s, K) \/ Has(t, K)
              /\ Preceded(p, J, K) => ~Is(s, K) /\ (Is(s, J) \/ Preceded(t, J, K))
              /\ NotAfter(p, J, K) => NotAfter(t, J, K) /\ (Is(s, J) => ~Has(t, K))
<1>1. PICK p \in req.rest : p # <<>> /\ p[1] = s /\ t = Tail(p)
  BY DEF After
<1>2. p \in Seq(StepSet)
  OBVIOUS
<1>3. t \in Seq(StepSet)
  BY <1>1, <1>2, TailOrdered
<1>4. ~Has(t, K) => Preceded(t, J, K)
  BY DEF Has, Preceded
<1>5. /\ Has(t, K) => Has(p, K)
      /\ Has(p, K) => Is(s, K) \/ Has(t, K)
      /\ Preceded(p, J, K) => ~Is(s, K) /\ (Is(s, J) \/ Preceded(t, J, K))
      /\ NotAfter(p, J, K) => NotAfter(t, J, K) /\ (Is(s, J) => ~Has(t, K))
  BY <1>1, <1>2, TailOrdered
<1> QED
  BY <1>3, <1>4, <1>5

-----------------------------------------------------------------------------
(* The shapes that the steps of a request have.                              *)

\* Which fields a step keeps, and what else there is to say of it.
IsRequest(r) ==
  r = [at |-> r.at, method |-> r.method, addr |-> r.addr, rest |-> r.rest, target |-> r.target,
       changed |-> r.changed, seen |-> r.seen, answer |-> r.answer]
Same(fields) == IsRequest(req') /\ \A f \in fields : req'[f] = req[f]
TargetOf(s) ==
  CASE s.kind = "resolved" -> ResolvePeer(req.addr)
    [] s.kind = "inputChannel" -> "channel"
    [] s.kind = "signedChat" -> "nobody"
    [] OTHER -> "the bot"
Touches(s) ==
  /\ s.kind \in Changes
  /\ \E t \in IF Is(s, {"unnamed"}) /\ req.target # "elsewhere"
             THEN {"user", "chat"} ELSE {req.target} :
       Permits(t) /\ req'.changed = req.changed \cup {t}
Starting == \E m \in Methods : \E addr \in Addresses(m) : Receive(m, addr)
Entering ==
  /\ req.at = "gate" /\ req'.at = "run"
  /\ req'.addr = req.addr \/ (req.addr = "@channel" /\ req'.addr = "channel")
  /\ Same({"method", "rest", "target", "changed", "seen", "answer"})
Passing(s) ==
  /\ req.at = "run" /\ req'.at = "run" /\ s \in Heads /\ req'.rest = After(s)
  /\ s.kind # "onlyChannel"
  /\ Same({"method", "addr", "answer"})
  /\ s.kind = "connected" => online'
  /\ s.kind \in {"only", "when"} => req.addr \in s.what
  /\ IF s.kind \in AnyTarget
     THEN req'.target = TargetOf(s) /\ (s.kind = "resolved" => req.addr \in Types)
     ELSE req'.target = req.target
  /\ IF s.kind \in Changes THEN Touches(s) ELSE req'.changed = req.changed
  /\ req'.seen = req.seen \/ (req'.seen = member["channel"] /\ UNCHANGED wasOut)
Answering ==
  /\ req.at \in {"gate", "run"} /\ req'.at = "done" /\ req'.rest = {}
  /\ Same({"method", "addr", "target", "seen"})
  /\ req'.answer \in {"ok", "refused", "rejected", "lost", "unavailable", "internal", "forbidden",
       "upgraded"}
  /\ req'.answer = "ok" => req.at = "run" /\ <<>> \in req.rest
  /\ req'.answer \in {"refused", "upgraded", "forbidden", "rejected"} =>
       req.at = "gate" \/ \E s \in Heads : Is(s, Refusers)
  /\ req'.answer \in {"forbidden", "upgraded"} => req'.answer = Forbidden(req.addr)
  /\ \/ req'.changed = req.changed
     \/ req.at = "run" /\ req'.answer = "lost" /\ \E s \in Heads : Touches(s)
Finishing == req.at = "done" /\ req' = NoRequest
Shape ==
  \/ UNCHANGED req \/ Starting \/ Entering \/ Answering \/ Finishing
  \/ \E s \in Heads : Passing(s)

\* Every step has one of the shapes.
LEMMA Shapes == TypeInv /\ [Next]_vars => Shape
<1> SUFFICES ASSUME TypeInv, [Next]_vars PROVE Shape
  OBVIOUS
<1> USE DEF Same, IsRequest
<1>0. req \in Requests
  BY DEF TypeInv
<1>a. ASSUME NEW kinds, NEW s \in Pending(kinds)
      PROVE req.at = "run" /\ s \in Heads /\ s.kind \in kinds
  BY DEF Pending
<1>b. ASSUME NEW answer PROVE
      Answers(answer) => /\ req'.at = "done" /\ req'.rest = {} /\ req'.answer = answer
                         /\ Same({"method", "addr", "target", "seen", "changed"})
  BY <1>0 DEF Answers, Requests
<1>c. ASSUME NEW s PROVE
      Pass(s) => req'.rest = After(s) /\ Same({"at", "method", "addr", "answer", "target",
        "changed", "seen"})
  BY <1>0 DEF Pass, Requests
<1>d. ASSUME NEW s, NEW t PROVE
      PassTo(s, t) => req'.rest = After(s) /\ req'.target = t /\
        Same({"at", "method", "addr", "answer", "changed", "seen"})
  BY <1>0 DEF PassTo, Requests
<1>e. ASSUME NEW s, NEW kinds, s \in Pending(kinds), Pass(s),
        s.kind \notin AnyTarget \cup Changes \cup {"onlyChannel"},
             s.kind = "connected" => online', s.kind \in {"only", "when"} => req.addr \in s.what
      PROVE  Shape
  BY <1>a, <1>c, <1>e DEF Shape, Passing
<1>f. ASSUME NEW answer \in {"unavailable", "internal", "lost"}, Answers(answer),
        req.at \in {"gate", "run"}
      PROVE  Shape
  BY <1>b, <1>f DEF Shape, Answering
<1>g. ASSUME NEW answer \in {"refused", "rejected"}, Answers(answer), NEW s \in Heads,
        req.at = "run", Is(s, Refusers)
      PROVE  Shape
  BY <1>b, <1>g DEF Shape, Answering
<1>1. CASE Starting
  BY <1>1 DEF Shape
<1>2. CASE Throttle
  BY <1>2, <1>b DEF Throttle, Shape, Answering
<1>3. CASE Handle
  BY <1>3, <1>0 DEF Handle, Enter, Shape, Entering, Requests
<1>4. CASE warmUsernamePeers
  BY <1>4, <1>0 DEF warmUsernamePeers, Enter, Shape, Entering, Requests
<1>5. CASE CheckArguments
  <2>1. PICK s \in Pending({"args", "other"}) : Pass(s) \/ Answers("refused")
    BY <1>5 DEF CheckArguments
  <2>2. s.kind \notin AnyTarget \cup Changes \cup {"onlyChannel"} /\
          s.kind \notin {"connected", "only", "when"} /\ Is(s, Refusers)
    BY <1>a DEF AnyTarget, GroupTargets, OtherTargets, Changes, Is, Refusers
  <2> QED
    BY <2>1, <2>2, <1>a, <1>e, <1>g
<1>6. CASE CheckChat
  <2>1. PICK s \in Pending({"parsed", "only", "cached"}) :
          (Pass(s) /\ (s.kind = "only" => req.addr \in s.what)) \/ Answers("refused")
    BY <1>6, <1>a DEF CheckChat
  <2>2. s.kind \notin AnyTarget \cup Changes \cup {"onlyChannel"} /\
          s.kind \notin {"connected", "when"} /\ Is(s, Refusers)
    BY <1>a DEF AnyTarget, GroupTargets, OtherTargets, Changes, Is, Refusers
  <2> QED
    BY <2>1, <2>2, <1>a, <1>e, <1>g
<1>7. CASE Branch
  <2>1. PICK s \in Pending({"when", "whenPeer"}) :
          Pass(s) /\ (s.kind = "when" => req.addr \in s.what)
    BY <1>7, <1>a DEF Branch
  <2>2. s.kind \notin AnyTarget \cup Changes \cup {"onlyChannel"} /\
          s.kind \notin {"connected", "only"}
    BY <1>a DEF AnyTarget, GroupTargets, OtherTargets, Changes
  <2> QED
    BY <2>1, <2>2, <1>a, <1>e
<1>8. CASE CheckWriteAccess
  <2>1. PICK s \in Pending({"writable"}) :
          IF Forbidden(req.addr) = "" THEN Pass(s) ELSE Answers(Forbidden(req.addr))
    BY <1>8 DEF CheckWriteAccess
  <2>2. s.kind \notin AnyTarget \cup Changes \cup {"onlyChannel"} /\
          s.kind \notin {"connected", "only", "when"} /\ Is(s, Refusers)
    BY <1>a DEF AnyTarget, GroupTargets, OtherTargets, Changes, Is, Refusers
  <2>3. Forbidden(req.addr) \in {"", "upgraded", "forbidden"}
    BY DEF Forbidden
  <2>4. CASE Forbidden(req.addr) # ""
    BY <2>1, <2>2, <2>3, <2>4, <1>a, <1>b DEF Shape, Answering
  <2> QED
    BY <2>1, <2>2, <2>4, <1>a, <1>e
<1>9. CASE Connect
  <2>1. PICK s \in Pending({"connected"}) :
          (Pass(s) /\ online') \/ Answers("unavailable")
    BY <1>9 DEF Connect
  <2>2. s.kind \notin AnyTarget \cup Changes \cup {"onlyChannel"} /\ s.kind \notin {"only", "when"}
    BY <1>a DEF AnyTarget, GroupTargets, OtherTargets, Changes
  <2> QED
    BY <2>1, <2>2, <1>a, <1>e, <1>f
<1>10. CASE Resolve
  <2>1. PICK s \in Pending({"resolved", "inputChannel", "signedChat", "myself"}) :
          CASE s.kind = "resolved" ->
                 IF req.addr \in Types THEN PassTo(s, ResolvePeer(req.addr))
                 ELSE Answers("refused")
            [] s.kind = "inputChannel" -> PassTo(s, "channel")
            [] s.kind = "signedChat" -> PassTo(s, "nobody")
            [] s.kind = "myself" -> PassTo(s, "the bot")
    BY <1>10 DEF Resolve
  <2>2. s.kind \in {"resolved", "inputChannel", "signedChat", "myself"} /\ s.kind \in AnyTarget
        /\ s.kind \notin Changes \cup {"connected", "only", "when", "onlyChannel"} /\
             (s.kind = "resolved" => Is(s, Refusers))
    BY <1>a DEF AnyTarget, GroupTargets, OtherTargets, Changes, Is, Refusers
  <2>3. CASE s.kind = "resolved" /\ req.addr \notin Types
    BY <2>1, <2>2, <2>3, <1>a, <1>g
  <2>4. CASE ~(s.kind = "resolved" /\ req.addr \notin Types)
    <3>1. PassTo(s, TargetOf(s))
      BY <2>1, <2>2, <2>4 DEF TargetOf
    <3> QED
      BY <2>2, <2>4, <3>1, <1>a, <1>d DEF Shape, Passing
  <2> QED
    BY <2>3, <2>4
<1>11. CASE Ask
  <2>1. PICK s \in Pending({"asks", "looks", "uploads"}) :
          \/ /\ req' = [req EXCEPT !.rest = After(s),
                     !.seen = IF s.kind = "looks" THEN member["channel"] ELSE @]
             /\ UNCHANGED wasOut
          \/ Answers("rejected") \/ Answers("lost")
    BY <1>11 DEF Ask, Calls, Plainly, Quietly
  <2>2. s.kind \notin AnyTarget \cup Changes \cup {"onlyChannel"} /\
          s.kind \notin {"connected", "only", "when"} /\ Is(s, Refusers)
    BY <1>a DEF AnyTarget, GroupTargets, OtherTargets, Changes, Is, Refusers
  <2>3. CASE /\ req' = [req EXCEPT !.rest = After(s),
                     !.seen = IF s.kind = "looks" THEN member["channel"] ELSE @]
             /\ UNCHANGED wasOut
    <3>1. /\ req'.rest = After(s) /\ Same({"at", "method", "addr", "answer", "target", "changed"})
          /\ req'.seen = req.seen \/ req'.seen = member["channel"]
      BY <2>3, <1>0 DEF Requests
    <3> QED
      BY <2>2, <2>3, <3>1, <1>a DEF Shape, Passing
  <2> QED
    BY <2>1, <2>2, <2>3, <1>a, <1>f, <1>g
<1>12. CASE Peek
  <2>1. PICK s \in Pending({"peeks", "forgives", "introduces"}) : Pass(s)
    BY <1>12 DEF Peek, Calls
  <2>2. s.kind \notin AnyTarget \cup Changes \cup {"onlyChannel"} /\
          s.kind \notin {"connected", "only", "when"}
    BY <1>a DEF AnyTarget, GroupTargets, OtherTargets, Changes
  <2> QED
    BY <2>1, <2>2, <1>a, <1>e
<1>13. CASE Do
  <2>1. PICK s \in Pending({"does"}) :
          \/ \E t \in Reaches(s) :
               /\ Permits(t)
               /\ \/ req' = [req EXCEPT !.rest = After(s), !.changed = @ \cup {t}]
                  \/ req' = [req EXCEPT !.at = "done", !.answer = "lost",
                                        !.rest = {}, !.changed = @ \cup {t}]
          \/ Answers("rejected") \/ Answers("lost")
    BY <1>13 DEF Do, Calls
  <2>2. s.kind = "does" /\ s.kind \in Changes /\
          s.kind \notin AnyTarget \cup {"connected", "only", "when", "onlyChannel"} /\
            Is(s, Refusers)
    BY <1>a DEF AnyTarget, GroupTargets, OtherTargets, Changes, Is, Refusers
  <2>3. Reaches(s) = IF Is(s, {"unnamed"}) /\ req.target # "elsewhere"
                     THEN {"user", "chat"} ELSE {req.target}
    BY <2>2 DEF Reaches, Is
  <2>4. ASSUME NEW t \in Reaches(s), Permits(t),
               req' = [req EXCEPT !.rest = After(s), !.changed = @ \cup {t}]
        PROVE  Shape
    <3>1. /\ req'.rest = After(s) /\ Same({"at", "method", "addr", "answer", "target", "seen"})
          /\ req'.changed = req.changed \cup {t}
      BY <2>4, <1>0 DEF Requests
    <3> QED
      BY <2>2, <2>3, <2>4, <3>1, <1>a DEF Shape, Passing, Touches
  <2>5. ASSUME NEW t \in Reaches(s), Permits(t),
               req' = [req EXCEPT !.at = "done", !.answer = "lost", !.rest = {},
                 !.changed = @ \cup {t}]
        PROVE  Shape
    <3>1. /\ req'.at = "done" /\ req'.rest = {} /\ req'.answer = "lost"
          /\ Same({"method", "addr", "target", "seen"}) /\ req'.changed = req.changed \cup {t}
      BY <2>5, <1>0 DEF Requests
    <3> QED
      BY <2>2, <2>3, <2>5, <3>1, <1>a DEF Shape, Answering, Touches
  <2> QED
    BY <2>1, <2>2, <2>4, <2>5, <1>a, <1>f, <1>g
<1>14. CASE Leave
  <2>1. PICK s \in Pending({"leaves"}) :
          \/ Permits(req.target) /\ req' = [req EXCEPT !.rest = After(s),
               !.changed = @ \cup {req.target}]
          \/ Answers("rejected") \/ Answers("lost")
    BY <1>14 DEF Leave, Calls
  <2>2. s.kind = "leaves" /\ s.kind \in Changes /\
          s.kind \notin AnyTarget \cup {"connected", "only", "when", "onlyChannel"}
        /\ Is(s, Refusers) /\ ~Is(s, {"unnamed"})
    BY <1>a DEF AnyTarget, GroupTargets, OtherTargets, Changes, Is, Refusers
  <2>3. ASSUME Permits(req.target), req' = [req EXCEPT !.rest = After(s),
          !.changed = @ \cup {req.target}]
        PROVE  Shape
    <3>1. /\ req'.rest = After(s) /\ Same({"at", "method", "addr", "answer", "target", "seen"})
          /\ req'.changed = req.changed \cup {req.target}
      BY <2>3, <1>0 DEF Requests
    <3> QED
      BY <2>2, <2>3, <3>1, <1>a DEF Shape, Passing, Touches
  <2> QED
    BY <2>1, <2>2, <2>3, <1>a, <1>f, <1>g
<1>15. CASE Find
  <2>1. PICK s \in Pending({"finds"}) : Pass(s) \/ Answers("internal")
    BY <1>15 DEF Find
  <2>2. s.kind \notin AnyTarget \cup Changes \cup {"onlyChannel"} /\
          s.kind \notin {"connected", "only", "when"}
    BY <1>a DEF AnyTarget, GroupTargets, OtherTargets, Changes
  <2> QED
    BY <2>1, <2>2, <1>a, <1>e, <1>f
<1>16. CASE Save
  <2>1. PICK s \in Pending({"saves", "learns"}) : Pass(s)
    BY <1>16 DEF Save
  <2>2. s.kind \notin AnyTarget \cup Changes \cup {"onlyChannel"} /\
          s.kind \notin {"connected", "only", "when"}
    BY <1>a DEF AnyTarget, GroupTargets, OtherTargets, Changes
  <2> QED
    BY <2>1, <2>2, <1>a, <1>e
<1>17. CASE Reply
  BY <1>17, <1>b DEF Reply, Shape, Answering
<1>18. CASE Finish
  BY <1>18 DEF Finish, Shape, Finishing
<1>19. CASE UNCHANGED req
  BY <1>19 DEF Shape
<1>20. Next => Serve \/ UNCHANGED req
  BY DEF Next, Ingest, Removed, Joined, Upgraded, Message
<1> QED
  BY <1>1, <1>2, <1>3, <1>4, <1>5, <1>6, <1>7, <1>8, <1>9, <1>10, <1>11, <1>12, <1>13, <1>14,
    <1>15, <1>16,
     <1>17, <1>18, <1>19, <1>20 DEF Serve, Starting, vars

-----------------------------------------------------------------------------
(* What the server knows of the bot's chats.                                 *)

\* What the server is told of the bot's chats, and keeps, was true.
Good ==
  /\ member \in [Groups -> {"in", "left", "kicked"}] /\ wasOut \subseteq Groups
  /\ upgraded \in BOOLEAN /\ online \in BOOLEAN /\ events \in 0..MaxEvents
  /\ inflight \in Seq(Updates) /\ Len(inflight) \in 0..MaxInFlight
  /\ GoodRows(rows, wasOut)
  /\ \A t \in Groups : member[t] # "in" => t \in wasOut
  /\ upgraded => "chat" \in wasOut
  /\ \A i \in DOMAIN inflight :
       SaysOut(inflight[i]) => inflight[i].entity.chat \in wasOut
Seen == req.seen \in {"left", "kicked"} => "channel" \in wasOut

\* The updates are chats as Telegram shows them, with what is said of the bot.
LEMMA UpdatesType == Updates = [entity : EntityType, own : Statuses]
  BY DEF Updates, EntityType

\* A new update says no more than was true.
LEMMA SendsGood ==
  ASSUME Good, NEW t \in Types, NEW own \in Statuses, Sends(t, own), Len(inflight) < MaxInFlight,
         member' \in [Groups -> {"in", "left", "kicked"}], upgraded' \in BOOLEAN,
         wasOut \subseteq wasOut',
         \A u \in Groups : member'[u] # "in" => u \in wasOut',
         upgraded' => "chat" \in wasOut', own \in {"left", "kicked"} => t \in wasOut'
  PROVE  /\ inflight' \in Seq(Updates) /\ Len(inflight') \in 0..MaxInFlight
         /\ \A i \in DOMAIN inflight' :
              SaysOut(inflight'[i]) => inflight'[i].entity.chat \in wasOut'
<1> DEFINE e == EntityOf(t, member', upgraded')
           u == [entity |-> e, own |-> own]
<1>1. e \in EntityType /\ e.chat = t /\ (e.form \in {"left", "forbidden"} \/ e.upgraded =>
        t \in wasOut')
  <2>1. ASSUME NEW membership, NEW isUpgraded \in BOOLEAN, NEW out,
               membership = member', isUpgraded = upgraded', out = wasOut'
        PROVE  /\ EntityOf(t, membership, isUpgraded) \in EntityType
               /\ EntityOf(t, membership, isUpgraded).chat = t
               /\ EntityOf(t, membership, isUpgraded).form \in {"left", "forbidden"} => t \in out
               /\ EntityOf(t, membership, isUpgraded).upgraded => t \in out
    <3>1. \A v \in Groups : membership[v] # "in" => v \in out
      BY <2>1
    <3>2. isUpgraded => "chat" \in out
      BY <2>1
    <3> HIDE DEF e, u
    <3>3. EntityOf(t, membership, isUpgraded) \in EntityType
      BY <3>1, <3>2, EntityGood
    <3>6. EntityOf(t, membership, isUpgraded).chat = t
      BY DEF EntityOf
    <3>4. EntityOf(t, membership, isUpgraded).form \in {"left", "forbidden"} => t \in out
      BY <3>1, <3>2, EntityGood
    <3>5. EntityOf(t, membership, isUpgraded).upgraded => t \in out
      BY <3>1, <3>2, EntityGood
    <3> QED
      BY <3>3, <3>4, <3>5, <3>6
  <2> QED
    BY <2>1
<1> HIDE DEF e
<1>2. u \in Updates /\ (SaysOut(u) => u.entity.chat \in wasOut')
  BY <1>1, UpdatesType DEF SaysOut
<1>3. inflight' = Append(inflight, u)
  BY DEF Sends, e, u
<1> HIDE DEF u
<1>4. /\ inflight' \in Seq(Updates) /\ Len(inflight') = Len(inflight) + 1
      /\ DOMAIN inflight' = 1..(Len(inflight) + 1)
      /\ \A i \in 1..Len(inflight) : inflight'[i] = inflight[i]
      /\ inflight'[Len(inflight) + 1] = u
  BY <1>2, <1>3, AppendProperties DEF Good
<1>5. Len(inflight) \in Nat /\ DOMAIN inflight = 1..Len(inflight) /\
        Len(inflight') \in 0..MaxInFlight
  BY <1>4, RequestsAssumption DEF Good
<1>6. ASSUME NEW i \in DOMAIN inflight', SaysOut(inflight'[i])
      PROVE  inflight'[i].entity.chat \in wasOut'
  <2>1. CASE i \in 1..Len(inflight)
    BY <2>1, <1>4, <1>5, <1>6 DEF Good
  <2>2. CASE i = Len(inflight) + 1
    BY <2>2, <1>2, <1>4, <1>6
  <2> QED
    BY <1>4, <1>5, <2>1, <2>2
<1> QED
  BY <1>4, <1>5, <1>6

\* What was true of fewer chats is true of more.
LEMMA GoodRowsGrow ==
  ASSUME NEW R, NEW out, NEW out1, GoodRows(R, out), out \subseteq out1 PROVE GoodRows(R, out1)
  BY DEF GoodRows

\* A change of the bot's chats keeps the server's picture of them true.
LEMMA EventGood ==
  ASSUME Good, Event, UNCHANGED <<online, rows>>, wasOut \subseteq wasOut',
    wasOut' \subseteq Groups,
         member' \in [Groups -> {"in", "left", "kicked"}], upgraded' \in BOOLEAN,
         \A u \in Groups : member'[u] # "in" => u \in wasOut', upgraded' => "chat" \in wasOut',
         NEW t \in Types, NEW own \in Statuses, Sends(t, own), own \in {"left", "kicked"} =>
           t \in wasOut'
  PROVE  Good'
<1>1. events' \in 0..MaxEvents /\ Len(inflight) < MaxInFlight
  BY RequestsAssumption DEF Event, Good
<1>2. GoodRows(rows, wasOut')
  BY GoodRowsGrow DEF Good
<1> QED
  BY <1>1, <1>2, SendsGood DEF Good

\* So does every step: ingest, the handlers' writes and the warm-up included.
LEMMA GoodStep == TypeInv /\ LeaveInv /\ Good /\ Seen /\ [Next]_vars => Good' /\
  wasOut \subseteq wasOut'
<1> SUFFICES ASSUME TypeInv, LeaveInv, Good, Seen, [Next]_vars
      PROVE Good' /\ wasOut \subseteq wasOut'
  OBVIOUS
<1> USE RequestsAssumption
<1>a. Groups \subseteq Types /\ {"user", "chat", "channel"} = Types /\ {"chat", "channel"} = Groups
  BY DEF Groups, Types
<1>b. ASSUME UNCHANGED <<member, upgraded, wasOut, inflight, events, online, rows>>
      PROVE Good' /\ wasOut \subseteq wasOut'
  BY <1>b DEF Good
<1>c. ASSUME Quietly, online' \in BOOLEAN, GoodRows(rows', wasOut)
      PROVE Good' /\ wasOut \subseteq wasOut'
  BY <1>c DEF Good, Quietly
<1>1. ASSUME NEW t \in Groups, NEW how \in {"left", "kicked"}, Removed(t, how)
      PROVE Good' /\ wasOut \subseteq wasOut'
  <2>1. /\ Event /\ UNCHANGED <<online, rows, upgraded>> /\ wasOut' = wasOut \cup {t} /\
             Sends(t, how)
        /\ member' = [member EXCEPT ![t] = how]
    BY <1>1 DEF Removed
  <2>2. member' \in [Groups -> {"in", "left", "kicked"}] /\ \A u \in Groups : member'[u] # "in" =>
          u \in wasOut'
    BY <2>1 DEF Good
  <2> QED
    BY <2>1, <2>2, <1>a, EventGood DEF Good, Statuses
<1>2. ASSUME NEW t \in Groups, Joined(t) PROVE Good' /\ wasOut \subseteq wasOut'
  <2>1. /\ Event /\ UNCHANGED <<online, rows, upgraded, wasOut>> /\ Sends(t, "member")
        /\ member' = [member EXCEPT ![t] = "in"]
    BY <1>2 DEF Joined
  <2>2. member' \in [Groups -> {"in", "left", "kicked"}] /\ \A u \in Groups : member'[u] # "in" =>
          u \in wasOut'
    BY <2>1 DEF Good
  <2> QED
    BY <2>1, <2>2, <1>a, EventGood DEF Good, Statuses
<1>3. ASSUME Upgraded PROVE Good' /\ wasOut \subseteq wasOut'
  <2>1. /\ Event /\ UNCHANGED <<online, rows, member>> /\ Sends("chat", "") /\ upgraded' = TRUE
        /\ wasOut' = wasOut \cup {"chat"}
    BY <1>3 DEF Upgraded
  <2> QED
    BY <2>1, <1>a, EventGood DEF Good, Statuses
<1>4. ASSUME NEW t \in Types, Message(t) PROVE Good' /\ wasOut \subseteq wasOut'
  <2>1. /\ Event /\ UNCHANGED <<online, rows, member, upgraded, wasOut>> /\ Sends(t, "")
    BY <1>4 DEF Message
  <2> QED
    BY <2>1, <1>a, EventGood DEF Good, Statuses
<1>5. CASE Ingest
  <2> DEFINE u == Head(inflight)
             saved == saveChatPeer(rows, u.entity)
  <2>1. /\ u \in Updates /\ inflight' \in Seq(Updates) /\ Len(inflight') = Len(inflight) - 1 /\
             Len(inflight) \in Nat \ {0}
        /\ DOMAIN inflight = 1..Len(inflight) /\ DOMAIN inflight' = 1..Len(inflight')
        /\ u = inflight[1] /\ \A i \in 1..Len(inflight') : inflight'[i] = inflight[i + 1]
    BY <1>5, HeadTailProperties, EmptySeq DEF Ingest, Good
  <2>2. u.entity \in EntityType /\ u.own \in Statuses /\ u.entity.chat \in Types
    BY <2>1, UpdatesType DEF EntityType
  <2>3. SaysOut(u) => u.entity.chat \in wasOut
    BY <2>1 DEF Good
  <2>4. rows' = IF MemberIdIsRaw THEN SaveBotMemberStatus(saved, u.entity.chat, u.own) ELSE saved
    BY <1>5 DEF Ingest
  <2> HIDE DEF u
  <2>5. GoodRows(saved, wasOut)
    BY <2>2, <2>3, saveChatPeerGood DEF Good, SaysOut
  <2> HIDE DEF saved
  <2>6. GoodRows(SaveBotMemberStatus(saved, u.entity.chat, u.own), wasOut)
    BY <2>2, <2>3, <2>5, SaveBotMemberStatusGood DEF SaysOut
  <2>7. \A i \in DOMAIN inflight' : SaysOut(inflight'[i]) => inflight'[i].entity.chat \in wasOut
    <3> TAKE i \in DOMAIN inflight'
    <3>1. i + 1 \in DOMAIN inflight /\ inflight'[i] = inflight[i + 1]
      BY <2>1
    <3> QED
      BY <3>1 DEF Good
  <2>8. Len(inflight') \in 0..MaxInFlight /\ UNCHANGED <<member, upgraded, wasOut, online, events>>
    BY <1>5, <2>1 DEF Ingest, Good
  <2> QED
    BY <2>1, <2>4, <2>5, <2>6, <2>7, <2>8 DEF Good
<1>6. ASSUME NEW dialogs PROVE GoodRows(warmPeerCache(rows, dialogs), wasOut)
  BY warmPeerCacheGood DEF Good
<1>7. CASE warmUsernamePeers
  <2>1. /\ Quietly
        /\ \/ UNCHANGED <<online, rows>>
           \/ \E dialogs : LET warm == IF online THEN rows ELSE warmPeerCache(rows, dialogs)
                           IN online' = TRUE /\ rows' \in {warm, SavePeer(warm, "channel", TRUE)}
    BY <1>7 DEF warmUsernamePeers, Quietly
  <2>2. CASE UNCHANGED <<online, rows>>
    BY <1>b, <2>1, <2>2 DEF Quietly
  <2>3. ASSUME NEW dialogs, online' = TRUE, NEW warm,
          warm = IF online THEN rows ELSE warmPeerCache(rows, dialogs),
               rows' \in {warm, SavePeer(warm, "channel", TRUE)}
        PROVE  Good' /\ wasOut \subseteq wasOut'
    <3>1. GoodRows(warm, wasOut)
      BY <1>6, <2>3 DEF Good
    <3>2. GoodRows(rows', wasOut)
      BY <1>a, <2>3, <3>1, SavePeerGood
    <3> QED
      BY <1>c, <2>1, <2>3, <3>2
  <2> QED
    BY <2>1, <2>2, <2>3
<1>8. CASE Connect
  <2>1. /\ Quietly
        /\ \/ UNCHANGED <<online, rows>>
           \/ online' = TRUE /\ \E dialogs : rows' = warmPeerCache(rows, dialogs)
    BY <1>8 DEF Connect
  <2> QED
    BY <1>6, <1>c, <2>1 DEF Good
<1>9. CASE Peek
  <2>1. Quietly /\ online' = online /\ rows' \in {rows, SavePeer(rows, "user", FALSE)}
    BY <1>9 DEF Peek
  <2>2. GoodRows(SavePeer(rows, "user", FALSE), wasOut)
    BY <1>a, SavePeerGood DEF Good
  <2>3. GoodRows(rows', wasOut)
    BY <2>1, <2>2 DEF Good
  <2> QED
    BY <1>c, <2>1, <2>3 DEF Good
<1>10. CASE Save
  <2> DEFINE flagged == SaveChatFlags(rows, "channel", FALSE, FALSE)
             status == IF req.seen = "left" THEN "left" ELSE ""
  <2>1. Quietly /\ online' = online
        /\ rows' \in {rows, SavePeer(rows, "chat", FALSE),
             SaveBotMemberStatus(flagged, "channel", status)}
    <3>1. PICK s \in Pending({"saves", "learns"}) :
            /\ Quietly /\ UNCHANGED online
            /\ rows' = CASE s.kind = "saves" /\ req.target = "chat" -> SavePeer(rows, "chat", FALSE)
                         [] s.kind = "learns" /\ req.target = "channel" ->
                              SaveBotMemberStatus(flagged, "channel", status)
                         [] OTHER -> rows
      BY <1>10 DEF Save
    <3> QED
      BY <3>1
  <2>2. GoodRows(SavePeer(rows, "chat", FALSE), wasOut)
    BY <1>a, SavePeerGood DEF Good
  <2>3. GoodRows(flagged, wasOut)
    BY <1>a, SaveChatFlagsGood DEF Good
  <2> HIDE DEF flagged
  <2>4. status \in Statuses /\ (status \in {"left", "kicked"} => "channel" \in wasOut)
    BY DEF Statuses, Seen
  <2> HIDE DEF status
  <2>5. GoodRows(SaveBotMemberStatus(flagged, "channel", status), wasOut)
    BY <1>a, <2>3, <2>4, SaveBotMemberStatusGood
  <2>6. GoodRows(rows', wasOut)
    BY <2>1, <2>2, <2>5 DEF Good
  <2> QED
    BY <1>c, <2>1, <2>6 DEF Good
<1>11. CASE Leave
  <2>1. PICK s \in Pending({"leaves"}) :
          \/ /\ Permits(req.target) /\ Len(inflight) < MaxInFlight
             /\ member' = [member EXCEPT ![req.target] = "left"]
             /\ wasOut' = wasOut \cup {req.target}
             /\ UNCHANGED upgraded
             /\ Sends(req.target, "left")
             /\ UNCHANGED <<online, rows, events>>
          \/ Plainly
    BY <1>11 DEF Leave, Calls
  <2>2. CASE Plainly
    BY <1>b, <2>2 DEF Plainly, Quietly
  <2>3. ASSUME Permits(req.target), Len(inflight) < MaxInFlight,
               member' = [member EXCEPT ![req.target] = "left"],
               wasOut' = wasOut \cup {req.target}, UNCHANGED upgraded,
               Sends(req.target, "left"), UNCHANGED <<online, rows, events>>
        PROVE  Good' /\ wasOut \subseteq wasOut'
    <3>1. PICK p \in req.rest : p # <<>> /\ p[1] = s /\ s.kind = "leaves"
      BY DEF Pending, Heads
    <3>2. p \in Seq(StepSet) /\ Is(p[1], {"leaves"})
      BY <3>1 DEF Is, TypeInv, Requests
    <3>3. ~Preceded(p, GroupTargets, {"leaves"})
      BY <3>1, <3>2, TailOrdered
    <3>4. req.target \in Groups
      BY <2>3, <3>3 DEF LeaveInv, Permits
    <3>5. member' \in [Groups -> {"in", "left", "kicked"}] /\
            \A u \in Groups : member'[u] # "in" => u \in wasOut'
      BY <2>3, <3>4 DEF Good
    <3>6. "left" \in Statuses /\ req.target \in Types /\ req.target \in wasOut' /\
            wasOut' \subseteq Groups
      BY <1>a, <2>3, <3>4 DEF Statuses, Good
    <3>7. /\ inflight' \in Seq(Updates) /\ Len(inflight') \in 0..MaxInFlight
          /\ \A i \in DOMAIN inflight' :
               SaysOut(inflight'[i]) => inflight'[i].entity.chat \in wasOut'
      BY <2>3, <3>5, <3>6, SendsGood DEF Good
    <3>8. GoodRows(rows', wasOut')
      BY <2>3, GoodRowsGrow DEF Good
    <3> QED
      BY <2>3, <3>5, <3>6, <3>7, <3>8 DEF Good
  <2> QED
    BY <2>1, <2>2, <2>3
<1>12. CASE \/ CheckArguments \/ CheckChat \/ Branch \/ CheckWriteAccess
            \/ Resolve \/ Ask \/ Do \/ Find
  BY <1>12, <1>b DEF CheckArguments, CheckChat, Branch, CheckWriteAccess, Resolve, Ask, Do, Find,
    Plainly, Quietly
<1>13. CASE Starting \/ Throttle \/ Handle \/ Reply \/ Finish
  BY <1>13, <1>b DEF Starting, Receive, Throttle, Handle, Reply, Finish
<1>14. CASE UNCHANGED vars
  BY <1>14, <1>b DEF vars
<1> QED
  BY <1>1, <1>2, <1>3, <1>4, <1>5, <1>7, <1>8, <1>9, <1>10, <1>11, <1>12, <1>13, <1>14 DEF Next,
    Serve, Starting

-----------------------------------------------------------------------------
(* The parts of the invariant, one after the other.                          *)

\* The next step of a request is one that it has left.
LEMMA HeadHas ==
  ASSUME req \in Requests, NEW s \in Heads, NEW J, NEW K
  PROVE  \E p \in req.rest : /\ Is(s, K) => Has(p, K)
                             /\ Preceded(p, J, K) => ~Is(s, K)
<1>1. PICK p \in req.rest : p # <<>> /\ p[1] = s
  BY DEF Heads
<1>2. p \in Seq(StepSet)
  BY DEF Requests
<1>3. 1 \in DOMAIN p
  BY <1>1, <1>2
<1>4. Preceded(p, J, K) => ~Is(s, K)
  BY <1>1, <1>2, TailOrdered
<1> QED
  BY <1>1, <1>3, <1>4 DEF Has

\* A new request, and what is known of it.
LEMMA ReceivedIs ==
  ASSUME Starting
  PROVE  \E m \in DOMAIN Ways, addr \in Types \cup {"@channel", ""} :
           req' = [at |-> "gate", method |-> m, addr |-> addr, rest |-> Ways[m],
             target |-> "elsewhere",
                   changed |-> {}, seen |-> "", answer |-> ""]
<1>1. PICK m \in Methods : \E addr \in Addresses(m) : Receive(m, addr)
  BY DEF Starting
<1>2. PICK addr \in Addresses(m) : Receive(m, addr)
  BY <1>1
<1>3. m \in DOMAIN Ways
  BY RequestsAssumption
<1>4. addr \in Types \cup {"@channel", ""}
  BY DEF Addresses
<1>5. req' = [at |-> "gate", method |-> m, addr |-> addr, rest |-> Ways[m], target |-> "elsewhere",
              changed |-> {}, seen |-> "", answer |-> ""]
  BY <1>2 DEF Receive, NoRequest
<1> QED
  BY <1>3, <1>4, <1>5

LEMMA ReceivedHas ==
  ASSUME Starting
  PROVE  \E m \in DOMAIN Ways :
           /\ req'.at = "gate" /\ req'.method = m /\ req'.rest = Ways[m] /\
                req'.target = "elsewhere"
           /\ req'.changed = {} /\ req'.seen = "" /\ req'.answer = ""
<1>1. PICK m \in DOMAIN Ways, addr \in Types \cup {"@channel", ""} :
           req' = [at |-> "gate", method |-> m, addr |-> addr, rest |-> Ways[m],
             target |-> "elsewhere",
                   changed |-> {}, seen |-> "", answer |-> ""]
  BY ReceivedIs
<1> QED
  BY <1>1

\* No request.
LEMMA FinishedHas ==
  ASSUME Finishing
  PROVE  /\ req'.at = "idle" /\ req'.rest = {} /\ req'.target = "" /\ req'.changed = {} /\
              req'.seen = ""
         /\ req'.answer = ""
  BY DEF Finishing, NoRequest

\* A record of the fields of a request is a request, and the other way round.
LEMMA RequestIs ==
  ASSUME NEW r, IsRequest(r), r.at \in {"idle", "gate", "run", "done"},
    r.method \in DOMAIN Ways \cup {""},
         r.addr \in Types \cup {"@channel", ""}, r.rest \in SUBSET Seq(StepSet),
           r.target \in Targets,
         r.changed \in SUBSET (Types \cup {"elsewhere", "the bot"}),
           r.seen \in {"", "in", "left", "kicked"},
         r.answer \in {"", "ok", "refused", "rejected", "lost", "unavailable", "internal",
           "forbidden", "upgraded"}
  PROVE  r \in Requests
  BY DEF IsRequest, Requests

LEMMA RequestHas ==
  ASSUME NEW r \in Requests
  PROVE  /\ IsRequest(r) /\ r.at \in {"idle", "gate", "run", "done"} /\
              r.method \in DOMAIN Ways \cup {""}
         /\ r.addr \in Types \cup {"@channel", ""} /\ r.rest \in SUBSET Seq(StepSet) /\
              r.target \in Targets
         /\ r.changed \in SUBSET (Types \cup {"elsewhere", "the bot"}) /\
              r.seen \in {"", "in", "left", "kicked"}
         /\ r.answer \in {"", "ok", "refused", "rejected", "lost", "unavailable", "internal",
              "forbidden", "upgraded"}
  BY DEF IsRequest, Requests

\* The type invariant is kept.
LEMMA TypeStep == TypeInv /\ Shape /\ Good' => TypeInv'
<1> SUFFICES ASSUME TypeInv, Shape, Good' PROVE TypeInv'
  OBVIOUS
<1>0. req \in Requests /\ (req.at \in {"idle", "gate"} => req.changed = {}) /\
        (req.at \in {"gate", "run"} => req.target # "")
      /\ (req.at # "run" => req.at = "gate" \/ req.rest = {}) /\
           (req.at = "gate" => req.target = "elsewhere")
  BY DEF TypeInv
<1> DEFINE Mine == /\ req' \in Requests
                   /\ req'.at # "run" => req'.at = "gate" \/ req'.rest = {}
                   /\ req'.at \in {"idle", "gate"} => req'.changed = {}
                   /\ req'.at = "gate" => req'.target = "elsewhere"
                   /\ req'.at = "run" => req'.target # ""
<1>1. ASSUME Mine PROVE TypeInv'
  <2>1. req'.at \in {"idle", "gate", "run", "done"} /\
          req'.changed \in SUBSET (Types \cup {"elsewhere", "the bot"})
    BY <1>1, RequestHas
  <2>2. /\ member' \in [Groups -> {"in", "left", "kicked"}] /\ wasOut' \subseteq Groups
        /\ upgraded' \in BOOLEAN /\ online' \in BOOLEAN /\ rows' \in [RawIds -> Row]
        /\ events' \in 0..MaxEvents /\ Len(inflight') \in 0..MaxInFlight /\
             inflight' \in Seq(Updates)
    BY DEF Good, GoodRows
  <2>3. events' \in Nat
    BY <2>2
  <2>4. TypeOK'
    BY <2>1, <2>2 DEF TypeOK, Row
  <2> QED
    BY <1>1, <2>2, <2>3, <2>4 DEF TypeInv
<1>2. CASE UNCHANGED req
  <2>1. req' = req
    BY <1>2
  <2> QED
    BY <2>1, <1>0, <1>1
<1>3. CASE Starting
  <2>1. PICK m \in DOMAIN Ways, addr \in Types \cup {"@channel", ""} :
           req' = [at |-> "gate", method |-> m, addr |-> addr, rest |-> Ways[m],
             target |-> "elsewhere",
                   changed |-> {}, seen |-> "", answer |-> ""]
    BY <1>3, ReceivedIs
  <2>2. Ways[m] \in SUBSET Seq(StepSet)
    BY WaysTyped
  <2>3. req' \in Requests
    BY <2>1, <2>2, RequestIs DEF IsRequest, Targets
  <2> QED
    BY <2>1, <2>3, <1>1
<1>4. CASE Entering
  <2>1. req'.addr \in Types \cup {"@channel", ""}
    BY <1>0, <1>4, RequestHas DEF Entering, Types
  <2>2. req' \in Requests
    BY <1>0, <1>4, <2>1, RequestHas, RequestIs DEF Entering, Same
  <2> QED
    BY <1>0, <1>1, <1>4, <2>2 DEF Entering, Same
<1>5. CASE Finishing
  <2>1. req' \in Requests
    BY <1>5, RequestIs DEF Finishing, NoRequest, IsRequest, Targets
  <2> QED
    BY <1>1, <1>5, <2>1 DEF Finishing, NoRequest
<1>6. ASSUME NEW s, Touches(s), req.at = "run"
      PROVE  req'.changed \in SUBSET (Types \cup {"elsewhere", "the bot"})
  BY <1>6, <1>0 DEF Touches, Permits, Requests, Targets, Types
<1>7. CASE Answering
  <2>1. req'.changed \in SUBSET (Types \cup {"elsewhere", "the bot"})
    BY <1>0, <1>6, <1>7 DEF Answering, Requests
  <2>2. req' \in Requests
    BY <1>0, <1>7, <2>1, RequestHas, RequestIs DEF Answering, Same
  <2> QED
    BY <1>1, <1>7, <2>2 DEF Answering
<1>8. ASSUME NEW s \in Heads, Passing(s) PROVE Mine
  <2>1. req'.changed \in SUBSET (Types \cup {"elsewhere", "the bot"})
    BY <1>0, <1>6, <1>8 DEF Passing, Requests
  <2>2. After(s) \in SUBSET Seq(StepSet)
    BY <1>0, Passed DEF Requests
  <2>3. ASSUME NEW addr \in Types PROVE ResolvePeer(addr) \in Types
    <3>1. rows[RawOf[addr]] \in Row
      BY RawIdOf DEF TypeInv, TypeOK, Row
    <3> QED
      BY <2>3, <3>1 DEF ResolvePeer, Cached, Row
  <2>4. req'.target \in Targets \ {""}
    BY <1>0, <1>8, <2>3 DEF Passing, TargetOf, Targets, Requests, Types
  <2>5. req'.seen \in {"", "in", "left", "kicked"}
    BY <1>0, <1>8 DEF Passing, Requests, TypeInv, TypeOK, Groups
  <2> QED
    BY <1>0, <1>8, <2>1, <2>2, <2>4, <2>5 DEF Passing, Same, IsRequest, Requests
<1> QED
  BY <1>1, <1>2, <1>3, <1>4, <1>5, <1>7, <1>8 DEF Shape

\* What getChat has seen of the bot's membership was so.
LEMMA SeenStep ==
  ASSUME TypeInv, Shape, Good, Seen, wasOut \subseteq wasOut'
  PROVE  Seen'
<1>1. CASE Starting
  <2>1. req'.seen = ""
    BY <1>1, ReceivedHas
  <2> QED
    BY <2>1 DEF Seen
<1>2. CASE UNCHANGED req
  BY <1>2 DEF Seen
<1>3. CASE Entering \/ Answering
  BY <1>3 DEF Entering, Answering, Same, Seen
<1>4. CASE Finishing
  BY <1>4 DEF Finishing, NoRequest, Seen
<1>5. ASSUME NEW s, Passing(s) PROVE Seen'
  BY <1>5 DEF Passing, Seen, Good, Groups
<1> QED
  BY <1>1, <1>2, <1>3, <1>4, <1>5 DEF Shape

\* The connection that there is stays.
LEMMA OnlineStays == TypeInv /\ [Next]_vars /\ online => online'
<1> SUFFICES ASSUME TypeInv, [Next]_vars, online PROVE online'
  OBVIOUS
<1>1. CASE Starting \/ Throttle \/ Handle \/ Reply \/ Finish \/ Ingest
  BY <1>1 DEF Starting, Receive, Throttle, Handle, Reply, Finish, Ingest
<1>2. CASE warmUsernamePeers
  BY <1>2 DEF warmUsernamePeers
<1>3. CASE CheckArguments \/ CheckChat \/ Branch \/ CheckWriteAccess \/ Resolve \/ Ask \/ Do \/ Find
  BY <1>3 DEF CheckArguments, CheckChat, Branch, CheckWriteAccess, Resolve, Ask, Do, Find, Plainly
<1>4. CASE Connect \/ Peek \/ Save
  BY <1>4 DEF Connect, Peek, Save
<1>5. CASE Leave
  BY <1>5 DEF Leave, Plainly
<1>6. ASSUME NEW t, NEW how, Removed(t, how) \/ Joined(t) \/ Upgraded \/ Message(t) PROVE online'
  BY <1>6 DEF Removed, Joined, Upgraded, Message
<1>7. CASE UNCHANGED vars
  BY <1>7 DEF vars
<1> QED
  BY <1>1, <1>2, <1>3, <1>4, <1>5, <1>6, <1>7 DEF Next, Serve, Starting

\* What is left of a request still connects before it calls.
LEMMA ConnectStep ==
  ASSUME TypeInv, Shape, ConnectInv, online => online'
  PROVE  ConnectInv'
<1> SUFFICES ASSUME ~online', NEW t \in req'.rest PROVE Preceded(t, Connects, CallsMade)
  BY DEF ConnectInv
<1>0. req \in Requests /\ \A p \in req.rest : Preceded(p, Connects, CallsMade)
  BY DEF TypeInv, ConnectInv
<1>1. CASE Starting
  <2>1. PICK m \in DOMAIN Ways : req'.rest = Ways[m] /\ req'.target = "elsewhere"
    BY <1>1, ReceivedHas
  <2> QED
    BY <2>1, WaysOrdered DEF Ordered, First
<1>2. CASE UNCHANGED req \/ Entering
  BY <1>0, <1>2 DEF Entering, Same
<1>3. CASE Answering
  BY <1>3 DEF Answering
<1>5. CASE Finishing
  BY <1>5, FinishedHas
<1>4. ASSUME NEW s \in Heads, Passing(s) PROVE Preceded(t, Connects, CallsMade)
  <2>1. t \in After(s) /\ ~Is(s, Connects)
    BY <1>4 DEF Passing, Is, Connects
  <2> QED
    BY <1>0, <2>1, Passed DEF Requests
<1> QED
  BY <1>1, <1>2, <1>3, <1>4, <1>5 DEF Shape

\* The bot leaves a group or a channel, or nothing that it could leave.
LEMMA LeaveStep ==
  ASSUME TypeInv, Shape, LeaveInv
  PROVE  LeaveInv'
<1> DEFINE Fine(p, target) ==
             /\ NotAfter(p, OtherTargets, {"leaves"})
             /\ target \in Groups \cup {"nobody"} \/ Preceded(p, GroupTargets, {"leaves"})
<1> SUFFICES ASSUME NEW t \in req'.rest PROVE Fine(t, req'.target)
  BY DEF LeaveInv
<1>0. req \in Requests /\ \A p \in req.rest : Fine(p, req.target)
  BY DEF TypeInv, LeaveInv
<1>1. CASE Starting
  <2>1. PICK m \in DOMAIN Ways : req'.rest = Ways[m] /\ req'.target = "elsewhere"
    BY <1>1, ReceivedHas
  <2> QED
    BY <2>1, WaysOrdered DEF Ordered, First, Apart
<1>2. CASE UNCHANGED req \/ Entering
  BY <1>0, <1>2 DEF Entering, Same
<1>3. CASE Answering
  BY <1>3 DEF Answering
<1>5. CASE Finishing
  BY <1>5, FinishedHas
<1>4. ASSUME NEW s \in Heads, Passing(s) PROVE Fine(t, req'.target)
  <2>1. t \in After(s)
    BY <1>4 DEF Passing
  <2>2. NotAfter(t, OtherTargets, {"leaves"}) /\
          (Is(s, OtherTargets) => Preceded(t, GroupTargets, {"leaves"}))
    <3> DEFINE J == OtherTargets
               K == {"leaves"}
    <3> HIDE DEF J, K
    <3>3. req.rest \subseteq Seq(StepSet)
      BY <1>0, RequestHas
    <3>1. \E p \in req.rest : NotAfter(p, J, K) => NotAfter(t, J, K) /\ (Is(s, J) => ~Has(t, K))
      BY <2>1, <3>3, Passed
    <3>2. ~Has(t, {"leaves"}) => Preceded(t, GroupTargets, {"leaves"})
      BY <1>0, <2>1, Passed DEF Requests
    <3> QED
      BY <1>0, <3>1, <3>2 DEF J, K
  <2>3. req.target \in Groups \cup {"nobody"} \/ Is(s, GroupTargets) \/ Preceded(t, GroupTargets,
          {"leaves"})
    BY <1>0, <2>1, Passed DEF Requests
  <2>4. Is(s, GroupTargets) => req'.target \in Groups \cup {"nobody"}
    BY <1>4 DEF Passing, Is, TargetOf, AnyTarget, GroupTargets, Groups
  <2>5. req'.target = req.target \/ Is(s, GroupTargets) \/ Is(s, OtherTargets)
    BY <1>4 DEF Passing, Is, AnyTarget
  <2> QED
    BY <2>2, <2>3, <2>4, <2>5
<1> QED
  BY <1>1, <1>2, <1>3, <1>4, <1>5 DEF Shape

\* What is left of a request still makes an ok answer true, and one that is
\* given is true.
LEMMA OkStep ==
  ASSUME TypeInv, Shape, OkInv, OkTellsWhatHappened
  PROVE  OkInv' /\ OkTellsWhatHappened'
<1> DEFINE Honest(method, changed, rest) ==
             method \notin MayAnswerHollow =>
               IF method \in Readers
               THEN changed = {} /\ \A p \in rest : ~Has(p, Changes)
               ELSE changed = {} => \A p \in rest : Has(p, Changes)
<1>0. req \in Requests /\ req.rest \subseteq Seq(StepSet)
  BY RequestHas DEF TypeInv
<1>1. req.at \in {"gate", "run"} => Honest(req.method, req.changed, req.rest)
  BY DEF OkInv
<1>2. OkInv' <=> (req'.at \in {"gate", "run"} => Honest(req'.method, req'.changed, req'.rest))
  BY DEF OkInv
<1>3. CASE UNCHANGED req
  BY <1>3 DEF OkInv, OkTellsWhatHappened
<1>4. CASE Starting
  <2>1. PICK m \in DOMAIN Ways :
          req'.at = "gate" /\ req'.method = m /\ req'.rest = Ways[m] /\ req'.changed = {}
    BY <1>4, ReceivedHas
  <2>2. Honest(m, {}, Ways[m])
    BY WaysOrdered DEF Ordered, Never, Always
  <2> QED
    BY <1>2, <2>1, <2>2 DEF OkTellsWhatHappened
<1>5. CASE Entering
  BY <1>1, <1>2, <1>5 DEF Entering, Same, OkTellsWhatHappened
<1>6. CASE Finishing
  BY <1>2, <1>6, FinishedHas DEF OkTellsWhatHappened
<1>7. CASE Answering
  <2>1. req'.at = "done" /\ req'.method = req.method
    BY <1>7 DEF Answering, Same
  <2>2. ASSUME req'.answer = "ok", req.method \notin MayAnswerHollow
        PROVE  req.method \in Readers <=> req'.changed = {}
    <3>1. req'.changed = req.changed /\ req.at = "run" /\ <<>> \in req.rest
      BY <1>7, <2>2 DEF Answering
    <3>2. ~Has(<<>>, Changes)
      BY DEF Has
    <3> QED
      BY <1>1, <2>2, <3>1, <3>2
  <2> QED
    BY <1>2, <2>1, <2>2 DEF OkTellsWhatHappened
<1>8. ASSUME NEW s \in Heads, Passing(s) PROVE OkInv' /\ OkTellsWhatHappened'
  <2>1. req.at = "run" /\ req'.at = "run" /\ req'.rest = After(s) /\ req'.method = req.method
    BY <1>8 DEF Passing, Same
  <2>2. IF s.kind \in Changes THEN req'.changed # {} ELSE req'.changed = req.changed
    BY <1>8 DEF Passing, Touches
  <2>3. Is(s, Changes) <=> s.kind \in Changes
    BY DEF Is, Changes
  <2>4. ASSUME NEW t \in After(s)
        PROVE  \E p \in req.rest : (Has(t, Changes) => Has(p, Changes)) /\
                 (Has(p, Changes) => Is(s, Changes) \/ Has(t, Changes))
    BY <1>0, <2>4, Passed
  <2>5. \E p \in req.rest : Is(s, Changes) => Has(p, Changes)
    BY <1>0, HeadHas
  <2>6. ASSUME req.method \notin MayAnswerHollow, req.method \in Readers
        PROVE  req'.changed = {} /\ \A t \in After(s) : ~Has(t, Changes)
    <3>1. req.changed = {} /\ \A p \in req.rest : ~Has(p, Changes)
      BY <1>1, <2>1, <2>6
    <3> QED
      BY <2>2, <2>3, <2>4, <2>5, <3>1
  <2>7. ASSUME req.method \notin MayAnswerHollow, req.method \notin Readers, req'.changed = {}
        PROVE  \A t \in After(s) : Has(t, Changes)
    <3>1. s.kind \notin Changes /\ \A p \in req.rest : Has(p, Changes)
      BY <1>1, <2>1, <2>2, <2>7
    <3> QED
      BY <2>3, <2>4, <3>1
  <2>8. Honest(req'.method, req'.changed, req'.rest)
    BY <2>1, <2>6, <2>7
  <2> QED
    BY <1>2, <2>1, <2>8 DEF OkTellsWhatHappened
<1> QED
  BY <1>3, <1>4, <1>5, <1>6, <1>7, <1>8 DEF Shape

\* After a change nothing is left that can be refused, and a refusal that is
\* given changed nothing.
LEMMA RefusalStep ==
  ASSUME TypeInv, Shape, RefusalInv, RefusalsChangeNothing
  PROVE  RefusalInv' /\ RefusalsChangeNothing'
<1> DEFINE Safe(method, changed, rest) ==
             method \notin PartlyDone =>
               \A p \in rest : NotAfter(p, Changes, Refusers) /\ (changed = {} \/ ~Has(p, Refusers))
<1>0. req \in Requests /\ req.rest \subseteq Seq(StepSet) /\ (req.at = "gate" => req.changed = {})
  BY RequestHas DEF TypeInv
<1>1. Safe(req.method, req.changed, req.rest)
  BY DEF RefusalInv
<1>2. RefusalInv' <=> Safe(req'.method, req'.changed, req'.rest)
  BY DEF RefusalInv
<1>3. CASE UNCHANGED req
  BY <1>3 DEF RefusalInv, RefusalsChangeNothing
<1>4. CASE Starting
  <2>1. PICK m \in DOMAIN Ways :
          req'.at = "gate" /\ req'.method = m /\ req'.rest = Ways[m] /\ req'.changed = {}
    BY <1>4, ReceivedHas
  <2>2. Safe(m, {}, Ways[m])
    BY WaysOrdered DEF Ordered, Apart
  <2> QED
    BY <1>2, <2>1, <2>2 DEF RefusalsChangeNothing
<1>5. CASE Entering
  BY <1>1, <1>2, <1>5 DEF Entering, Same, RefusalsChangeNothing
<1>6. CASE Finishing
  BY <1>2, <1>6, FinishedHas DEF RefusalsChangeNothing
<1>7. CASE Answering
  <2>1. req'.at = "done" /\ req'.method = req.method /\ req'.rest = {}
    BY <1>7 DEF Answering, Same
  <2>2. ASSUME req'.answer \in {"refused", "upgraded", "forbidden", "rejected"},
          req.method \notin PartlyDone
        PROVE  req'.changed = {}
    <3>1. req'.changed = req.changed /\ (req.at = "gate" \/ \E s \in Heads : Is(s, Refusers))
      BY <1>7, <2>2 DEF Answering
    <3>2. ASSUME NEW s \in Heads, Is(s, Refusers) PROVE req.changed = {}
      <4>1. \E p \in req.rest : Is(s, Refusers) => Has(p, Refusers)
        BY <1>0, HeadHas
      <4> QED
        BY <1>1, <2>2, <3>2, <4>1
    <3> QED
      BY <1>0, <3>1, <3>2
  <2> QED
    BY <1>2, <2>1, <2>2 DEF RefusalsChangeNothing
<1>8. ASSUME NEW s \in Heads, Passing(s) PROVE RefusalInv' /\ RefusalsChangeNothing'
  <2>1. req'.at = "run" /\ req'.rest = After(s) /\ req'.method = req.method
    BY <1>8 DEF Passing, Same
  <2>2. s.kind \notin Changes => req'.changed = req.changed
    BY <1>8 DEF Passing
  <2>3. Is(s, Changes) <=> s.kind \in Changes
    BY DEF Is, Changes
  <2>4. ASSUME NEW t \in After(s), req.method \notin PartlyDone
        PROVE  NotAfter(t, Changes, Refusers) /\ (req'.changed = {} \/ ~Has(t, Refusers))
    <3>1. PICK p \in req.rest :
            /\ Has(t, Refusers) => Has(p, Refusers)
            /\ NotAfter(p, Changes, Refusers) =>
                 NotAfter(t, Changes, Refusers) /\ (Is(s, Changes) => ~Has(t, Refusers))
      BY <1>0, <2>4, Passed
    <3> QED
      BY <1>1, <2>2, <2>3, <2>4, <3>1
  <2> QED
    BY <1>2, <2>1, <2>4 DEF RefusalsChangeNothing
<1> QED
  BY <1>3, <1>4, <1>5, <1>6, <1>7, <1>8 DEF Shape

\* The target is the chat of chat_id as long as rows are not shared.
LEMMA TargetStep ==
  ASSUME TypeInv, Shape, RowsInv, TargetInv, RightAddress
  PROVE  TargetInv' /\ RightAddress'
<1> DEFINE Aimed(addr, target, rest) ==
             /\ target \in {"elsewhere", "nobody", "the bot", addr}
             /\ \A p \in rest :
                  /\ NotAfter(p, {"myself"}, Changes)
                  /\ target = "the bot" => ~Has(p, Changes)
                  /\ NotAfter(p, AnyTarget, {"unnamed"})
                  /\ target = "elsewhere" \/ ~Has(p, {"unnamed"})
                  /\ addr = "channel" \/ Preceded(p, {"onlyChannel"}, {"inputChannel"})
           Own(addr) == {"elsewhere", IF addr = "@channel" THEN "channel" ELSE addr}
<1>0. req \in Requests /\ req.rest \subseteq Seq(StepSet) /\
        (req.at \in {"idle", "gate"} => req.changed = {})
      /\ (req.at = "gate" => req.target = "elsewhere") /\ (req.at = "run" => req.target # "")
  BY RequestHas DEF TypeInv
<1>1. req.at \in {"gate", "run"} /\ req.method \notin Misaddressed =>
        Aimed(req.addr, req.target, req.rest)
  BY DEF TargetInv
<1>2. TargetInv' <=>
        (req'.at \in {"gate", "run"} /\ req'.method \notin Misaddressed =>
          Aimed(req'.addr, req'.target, req'.rest))
  BY DEF TargetInv
<1>3. req.method \notin Misaddressed => req.changed \subseteq Own(req.addr)
  BY DEF RightAddress
<1>4. RightAddress' <=> (req'.method \notin Misaddressed => req'.changed \subseteq Own(req'.addr))
  BY DEF RightAddress
<1> HIDE DEF Aimed
<1>5. CASE UNCHANGED req
  BY <1>5, <1>1, <1>2, <1>3, <1>4
<1>6. CASE Starting
  <2>1. PICK m \in DOMAIN Ways :
          /\ req'.at = "gate" /\ req'.method = m /\ req'.rest = Ways[m] /\ req'.changed = {}
          /\ req'.target = "elsewhere"
    BY <1>6, ReceivedHas
  <2>2. ASSUME NEW addr, m \notin Misaddressed PROVE Aimed(addr, "elsewhere", Ways[m])
    BY <2>2, WaysOrdered DEF Ordered, Apart, First, Aimed
  <2> QED
    BY <1>2, <1>4, <2>1, <2>2
<1>7. CASE Entering
  <2>1. Aimed(req.addr, req.target, req.rest) => Aimed(req'.addr, req'.target, req'.rest)
    BY <1>0, <1>7 DEF Entering, Same, Aimed
  <2> QED
    BY <1>0, <1>1, <1>2, <1>4, <1>7, <2>1 DEF Entering, Same
<1>8. CASE Finishing
  BY <1>2, <1>4, <1>8, FinishedHas
<1>9. ASSUME NEW s \in Heads, req.at = "run", req.method \notin Misaddressed, Touches(s)
      PROVE  req'.changed \subseteq Own(req.addr)
  <2>1. Aimed(req.addr, req.target, req.rest)
    BY <1>1, <1>9
  <2>2. \E p \in req.rest : Is(s, {"unnamed"}) => Has(p, {"unnamed"})
    BY <1>0, HeadHas
  <2>3. \E p \in req.rest : Is(s, Changes) => Has(p, Changes)
    BY <1>0, HeadHas
  <2>4. Is(s, Changes)
    BY <1>9 DEF Touches, Is
  <2>5. req.target # "the bot" /\ (Is(s, {"unnamed"}) => req.target = "elsewhere")
    BY <2>1, <2>2, <2>3, <2>4 DEF Aimed
  <2>6. PICK t : t = req.target /\ Permits(t) /\ req'.changed = req.changed \cup {t}
    BY <1>9, <2>5 DEF Touches
  <2>7. t \in {"elsewhere", req.addr} /\ t # "@channel"
    BY <1>0, <2>1, <2>5, <2>6, RequestHas DEF Aimed, Permits, Targets, Types
  <2> QED
    BY <1>3, <1>9, <2>6, <2>7
<1>10. CASE Answering
  <2>1. req'.at = "done" /\ req'.method = req.method /\ req'.addr = req.addr
    BY <1>10 DEF Answering, Same
  <2>2. req'.changed = req.changed \/ (req.at = "run" /\ \E s \in Heads : Touches(s))
    BY <1>10 DEF Answering
  <2> QED
    BY <1>2, <1>3, <1>4, <1>9, <2>1, <2>2
<1>11. ASSUME NEW s \in Heads, Passing(s) PROVE TargetInv' /\ RightAddress'
  <2>1. req.at = "run" /\ req'.at = "run" /\ req'.rest = After(s) /\ req'.method = req.method /\
          req'.addr = req.addr
    BY <1>11 DEF Passing, Same
  <2>2. req'.changed = req.changed \/ Touches(s)
    BY <1>11 DEF Passing
  <2>3. RightAddress'
    BY <1>3, <1>4, <1>9, <2>1, <2>2
  <2> SUFFICES ASSUME req.method \notin Misaddressed PROVE Aimed(req.addr, req'.target, After(s))
    BY <1>2, <2>1, <2>3
  <2>4. Aimed(req.addr, req.target, req.rest)
    BY <1>1, <2>1
  <2>5. ASSUME req.addr \in Types PROVE ResolvePeer(req.addr) = req.addr
    BY <2>5 DEF ResolvePeer, Cached, RowsInv
  <2>6. \E p \in req.rest : Preceded(p, {"onlyChannel"}, {"inputChannel"}) =>
          ~Is(s, {"inputChannel"})
    BY <1>0, HeadHas
  <2>7. s.kind = "inputChannel" => req.addr = "channel"
    BY <2>4, <2>6 DEF Aimed, Is
  <2>8. IF s.kind \in AnyTarget
        THEN /\ req'.target \in {"nobody", "the bot", req.addr}
             /\ req'.target = "the bot" => s.kind = "myself" \/ req.addr = "the bot"
        ELSE req'.target = req.target
    BY <1>11, <2>5, <2>7 DEF Passing, TargetOf, AnyTarget, GroupTargets, OtherTargets
  <2>9. req.addr # "the bot"
    BY <1>0, RequestHas DEF Types
  <2>10. Is(s, {"onlyChannel"}) => req.addr = "channel"
    BY <1>11 DEF Passing, Is
  <2>11. (Is(s, {"myself"}) <=> s.kind = "myself") /\ (Is(s, AnyTarget) <=> s.kind \in AnyTarget)
    BY DEF Is, AnyTarget, GroupTargets, OtherTargets
  <2> SUFFICES ASSUME NEW t \in After(s)
               PROVE  /\ NotAfter(t, {"myself"}, Changes)
                      /\ req'.target = "the bot" => ~Has(t, Changes)
                      /\ NotAfter(t, AnyTarget, {"unnamed"})
                      /\ req'.target = "elsewhere" \/ ~Has(t, {"unnamed"})
                      /\ req.addr = "channel" \/ Preceded(t, {"onlyChannel"}, {"inputChannel"})
    BY <2>4, <2>8 DEF Aimed
  <2>12. NotAfter(t, {"myself"}, Changes) /\ (s.kind = "myself" \/ req.target = "the bot" =>
           ~Has(t, Changes))
    <3>1. PICK p \in req.rest :
            /\ Has(t, Changes) => Has(p, Changes)
            /\ NotAfter(p, {"myself"}, Changes) =>
                 NotAfter(t, {"myself"}, Changes) /\ (Is(s, {"myself"}) => ~Has(t, Changes))
      BY <1>0, Passed
    <3> QED
      BY <2>4, <2>11, <3>1 DEF Aimed
  <2>13. NotAfter(t, AnyTarget, {"unnamed"}) /\
           (s.kind \in AnyTarget \/ req.target # "elsewhere" => ~Has(t, {"unnamed"}))
    <3>1. PICK p \in req.rest :
            /\ Has(t, {"unnamed"}) => Has(p, {"unnamed"})
            /\ NotAfter(p, AnyTarget, {"unnamed"}) =>
                 NotAfter(t, AnyTarget, {"unnamed"}) /\ (Is(s, AnyTarget) => ~Has(t, {"unnamed"}))
      <4> DEFINE K == {"unnamed"}
      <4> HIDE DEF K
      <4>1. \E p \in req.rest :
              /\ Has(t, K) => Has(p, K)
              /\ NotAfter(p, AnyTarget, K) => NotAfter(t, AnyTarget, K) /\
                   (Is(s, AnyTarget) => ~Has(t, K))
        BY <1>0, Passed
      <4> QED
        BY <4>1 DEF K
    <3> QED
      BY <2>4, <2>11, <3>1 DEF Aimed
  <2>14. req.addr = "channel" \/ Preceded(t, {"onlyChannel"}, {"inputChannel"})
    <3>1. PICK p \in req.rest :
            Preceded(p, {"onlyChannel"}, {"inputChannel"}) =>
              Is(s, {"onlyChannel"}) \/ Preceded(t, {"onlyChannel"}, {"inputChannel"})
      BY <1>0, Passed
    <3> QED
      BY <2>4, <2>10, <3>1 DEF Aimed
  <2> QED
    BY <2>8, <2>9, <2>12, <2>13, <2>14
<1> QED
  BY <1>5, <1>6, <1>7, <1>8, <1>10, <1>11 DEF Shape

\* A row that forbids says that the bot is out, and it was.
LEMMA ForbiddenSays ==
  ASSUME RowsInv, NEW addr, Forbidden(addr) \in {"forbidden", "upgraded"}
  PROVE  addr \in wasOut
<1>1. addr \in Types /\ RowSaysOut(rows[RawOf[addr]])
  BY DEF Forbidden, RowSaysOut
<1> QED
  BY <1>1 DEF RowsInv

\* Only such rows refuse.
LEMMA RefusedStep ==
  ASSUME Shape, RowsInv, RefusedOnlyIfOut, wasOut \subseteq wasOut'
  PROVE  RefusedOnlyIfOut'
<1>1. CASE UNCHANGED req
  BY <1>1 DEF RefusedOnlyIfOut
<1>2. CASE Starting
  BY <1>2, ReceivedHas DEF RefusedOnlyIfOut
<1>3. CASE Finishing
  BY <1>3, FinishedHas DEF RefusedOnlyIfOut
<1>4. CASE Answering
  <2>1. req'.addr = req.addr /\ (req'.answer \in {"forbidden", "upgraded"} =>
          req'.answer = Forbidden(req.addr))
    BY <1>4 DEF Answering, Same
  <2> QED
    BY <2>1, ForbiddenSays DEF RefusedOnlyIfOut
<1>5. CASE Entering \/ \E s \in Heads : Passing(s)
  BY <1>5 DEF Entering, Passing, RefusedOnlyIfOut
<1> QED
  BY <1>1, <1>2, <1>3, <1>4, <1>5 DEF Shape

-----------------------------------------------------------------------------
(* The theorems.                                                             *)

\* The parts of the invariant, as the lemmas above divide it.
LEMMA RequestsInvParts ==
  TypeInv => (OutInv /\ (RawIdsApart => RowsInv) <=> Good /\ Seen)
<1> SUFFICES ASSUME TypeInv PROVE OutInv /\ (RawIdsApart => RowsInv) <=> Good /\ Seen
  OBVIOUS
<1>1. /\ member \in [Groups -> {"in", "left", "kicked"}] /\ wasOut \subseteq Groups
      /\ upgraded \in BOOLEAN /\ online \in BOOLEAN /\ events \in 0..MaxEvents
      /\ inflight \in Seq(Updates) /\ Len(inflight) \in 0..MaxInFlight
      /\ rows \in [RawIds -> Row]
  BY DEF TypeInv, TypeOK, Row
<1>2. GoodRows(rows, wasOut) <=> (RawIdsApart => RowsInv)
  BY <1>1 DEF GoodRows, RowsInv
<1>3. OutInv <=>
        /\ \A t \in Groups : member[t] # "in" => t \in wasOut
        /\ upgraded => "chat" \in wasOut
        /\ \A i \in DOMAIN inflight : SaysOut(inflight[i]) => inflight[i].entity.chat \in wasOut
        /\ Seen
  BY DEF OutInv, Seen
<1> QED
  BY <1>1, <1>2, <1>3 DEF Good

\* It holds at the start.
LEMMA InitRequestsInv == Init => RequestsInv
<1> SUFFICES ASSUME Init PROVE RequestsInv
  OBVIOUS
<1>1. /\ req.at = "idle" /\ req.method = "" /\ req.addr = "" /\ req.rest = {} /\ req.target = ""
      /\ req.changed = {} /\ req.seen = "" /\ req.answer = "" /\ IsRequest(req)
  BY DEF Init, NoRequest, IsRequest
<1>2. req \in Requests
  BY <1>1, RequestIs DEF Targets
<1>3. rows \in [RawIds -> Row] /\ \A r \in RawIds : rows[r] = NoRow
  BY DEF Init, NoRow, Row, Statuses
<1>4. inflight = <<>> /\ inflight \in Seq(Updates) /\ Len(inflight) = 0 /\ DOMAIN inflight = {}
  BY DEF Init
<1>5. TypeOK
  <2>1. /\ member \in [Groups -> {"in", "left", "kicked"}] /\ wasOut \subseteq Groups
        /\ upgraded \in BOOLEAN /\ online \in BOOLEAN
    BY DEF Init
  <2>2. events \in 0..MaxEvents /\ Len(inflight) \in 0..MaxInFlight
    BY <1>4, RequestsAssumption DEF Init
  <2> QED
    BY <1>1, <1>3, <2>1, <2>2 DEF TypeOK, Row
<1>6. TypeInv
  BY <1>1, <1>2, <1>4, <1>5 DEF TypeInv, Init
<1>7. ConnectInv /\ LeaveInv /\ OkInv /\ OkTellsWhatHappened /\ RefusalInv /\ RefusalsChangeNothing
  BY <1>1 DEF ConnectInv, LeaveInv, OkInv, OkTellsWhatHappened, RefusalInv, RefusalsChangeNothing
<1>8. OutInv
  BY <1>1, <1>4 DEF Init, OutInv
<1>9. RowsInv
  <2>1. NoRow.type = "none" /\ ~RowSaysOut(NoRow)
    BY DEF NoRow, RowSaysOut
  <2> QED
    BY <1>3, <2>1, RawIdOf DEF RowsInv
<1>10. TargetInv /\ RightAddress /\ RefusedOnlyIfOut
  BY <1>1 DEF TargetInv, RightAddress, RefusedOnlyIfOut
<1> QED
  BY <1>6, <1>7, <1>8, <1>9, <1>10 DEF RequestsInv

\* Every step keeps it.
LEMMA NextRequestsInv == RequestsInv /\ [Next]_vars => RequestsInv'
<1> SUFFICES ASSUME RequestsInv, [Next]_vars PROVE RequestsInv'
  OBVIOUS
<1>1. TypeInv /\ LeaveInv /\ Good /\ Seen
  BY RequestsInvParts DEF RequestsInv
<1>2. Shape
  BY <1>1, Shapes
<1>3. Good' /\ wasOut \subseteq wasOut'
  BY <1>1, GoodStep
<1>4. TypeInv'
  BY <1>1, <1>2, <1>3, TypeStep
<1>5. Seen'
  BY <1>1, <1>2, <1>3, SeenStep
<1>6. OutInv' /\ (RawIdsApart => RowsInv)'
  <2>1. TypeInv' => (OutInv' /\ (RawIdsApart => RowsInv)' <=> Good' /\ Seen')
    BY RequestsInvParts, PTL
  <2> QED
    BY <1>3, <1>4, <1>5, <2>1
<1>7. ConnectInv'
  BY <1>1, <1>2, OnlineStays, ConnectStep DEF RequestsInv
<1>8. LeaveInv'
  BY <1>1, <1>2, LeaveStep
<1>9. OkInv' /\ OkTellsWhatHappened'
  BY <1>1, <1>2, OkStep DEF RequestsInv
<1>10. RefusalInv' /\ RefusalsChangeNothing'
  BY <1>1, <1>2, RefusalStep DEF RequestsInv
<1>11. RawIdsApart => TargetInv' /\ RightAddress'
  BY <1>1, <1>2, TargetStep DEF RequestsInv
<1>12. RawIdsApart => RefusedOnlyIfOut'
  BY <1>2, <1>3, RefusedStep DEF RequestsInv
<1>13. RawIdsApart' <=> RawIdsApart
  BY DEF RawIdsApart
<1> QED
  BY <1>4, <1>6, <1>7, <1>8, <1>9, <1>10, <1>11, <1>12, <1>13 DEF RequestsInv

\* The inductive invariant holds for every set of methods, all raw ids and any
\* number of changes of the bot's chats: what is left of a request always has
\* the order that its answer and its target rely on.
THEOREM RequestsInvariant == Spec => []RequestsInv
  BY InitRequestsInv, NextRequestsInv, PTL DEF Spec

\* Requests, rows and updates keep their types, the peers table one row per raw
\* id; a request changes only chats that there are.
THEOREM RequestsTypeCorrect == Spec => []TypeOK
<1>1. RequestsInv => TypeOK
  BY DEF RequestsInv, TypeInv
<1> QED
  BY <1>1, RequestsInvariant, PTL

\* No handler makes a call before ensureConnected, or the resolution of a
\* username in Dispatch, has set c.rpc: none of the 174 panics on a nil client,
\* whatever branch its arguments choose.
THEOREM ConnectsBeforeCalls == Spec => []ConnectsFirst
<1>1. RequestsInv => ConnectsFirst
  <2> SUFFICES ASSUME RequestsInv, NEW s \in Pending(Reads \cup Changes), ~online PROVE FALSE
    BY DEF ConnectsFirst
  <2>1. s \in Heads /\ s.kind \in CallsMade
    BY DEF Pending, CallsMade
  <2>2. \A p \in req.rest : Preceded(p, Connects, CallsMade)
    BY DEF RequestsInv, ConnectInv
  <2>3. \E p \in req.rest : Preceded(p, Connects, CallsMade) => ~Is(s, CallsMade)
    BY <2>1, HeadHas DEF RequestsInv, TypeInv
  <2> QED
    BY <2>1, <2>2, <2>3 DEF Is
<1> QED
  BY <1>1, RequestsInvariant, PTL

\* An ok answer of a method that changes things says that Telegram made a
\* change, and one of a method that reads that nothing was changed, for every
\* way through its handler and every failure on that way.
THEOREM OkAnswersAreTrue == Spec => []OkTellsWhatHappened
<1>1. RequestsInv => OkTellsWhatHappened
  BY DEF RequestsInv
<1> QED
  BY <1>1, RequestsInvariant, PTL

\* A request that is refused, by the flood gate, the checks, chat_access.go or
\* Telegram, has changed nothing, for every method of one change: the bot may
\* correct it and send it again.
THEOREM RefusalsAreClean == Spec => []RefusalsChangeNothing
<1>1. RequestsInv => RefusalsChangeNothing
  BY DEF RequestsInv
<1> QED
  BY <1>1, RequestsInvariant, PTL

\* What a request changes is in the chat of its chat_id, if no other chat of
\* the bot's shares its raw id: convert.ResolvePeer takes the type of the peer
\* from the row of the raw id, and would take another chat's.
THEOREM ChangesTheRightChat ==
  ASSUME RawIdsApart PROVE Spec => []RightAddress
<1>1. RequestsInv => RightAddress
  BY DEF RequestsInv
<1> QED
  BY <1>1, RequestsInvariant, PTL

\* checkChatWriteAccess refuses a chat only if the bot was out of it at some
\* time, whichever of messages, dialogs, getChat and member updates wrote the
\* row, if no other chat of the bot's writes the same row.
THEOREM RefusesOnlyWhenOut ==
  ASSUME RawIdsApart PROVE Spec => []RefusedOnlyIfOut
<1>1. RequestsInv => RefusedOnlyIfOut
  BY DEF RequestsInv
<1> QED
  BY <1>1, RequestsInvariant, PTL
=============================================================================
