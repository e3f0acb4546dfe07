------------------------- MODULE MailSessionProofs -------------------------
(***************************************************************************)
(* Proofs about the POP and the SMTP session of MCMailCore, for any        *)
(* maildrop and any choice of operations.  Both go the same way: what a    *)
(* call does to a sound world, from the server's replies up to main() of   *)
(* each operation, and from these the steps of the session.                *)
(***************************************************************************)
EXTENDS MCMailCore, RangesProofs

-----------------------------------------------------------------------------
(* POP: the world a call leaves behind.                                    *)

\* The messages that QUIT would remove.
Taken(w) == {w.drop[i] : i \in w.marked}

PopSound(w) ==
  /\ w \in Pop!World
  /\ w.marked \subseteq DOMAIN w.drop
  /\ ~w.auth => w.drop = <<>>

\* What calls that delete the indexes S and do not disconnect make of w: after a
\* list the session is never logged in anew, and an index keeps its message.
Kept(w, v, S) ==
  /\ PopSound(v) /\ v.gone = w.gone
  /\ w.state = "listed" => v.state = "listed" /\ (v.auth => w.auth /\ v.drop = w.drop)
  /\ S = {} \/ w.state = "listed" =>
       v.marked = {} \/ (v.drop = w.drop /\ v.marked \subseteq w.marked \cup S)

PopFine(w, o, S) == Kept(w, o.world, S) /\ o.error \in Pop!Errors

\* Nothing but these messages has been removed, or will be.
Within(w, messages) == w.gone \subseteq messages /\ Taken(w) \subseteq messages

LEMMA CardinalityIsNat ==
  ASSUME Pop!MessagesAssumption, NEW S \in SUBSET Messages
  PROVE  /\ Pop!Cardinality(S) \in Nat /\ Pop!Cardinality(Messages) \in Nat
         /\ Pop!Cardinality(S) <= Pop!Cardinality(Messages)
<1>1. IsFiniteSet(Messages)
  BY DEF Pop!MessagesAssumption, Pop!IsFiniteSet, IsFiniteSet
<1>2. Pop!Cardinality(S) = Cardinality(S) /\ Pop!Cardinality(Messages) = Cardinality(Messages)
  BY DEF Pop!Cardinality, Cardinality
<1>3. QED
  BY <1>1, <1>2, FS_Subset, FS_CardinalityType

LEMMA EmptyDrop == Pop!MessagesAssumption => <<>> \in Pop!Maildrops /\ DOMAIN <<>> = {}
<1>1. SUFFICES ASSUME Pop!MessagesAssumption
               PROVE  <<>> \in Pop!Maildrops /\ DOMAIN <<>> = {}
  OBVIOUS
<1>2. 0 \in 0..Pop!Cardinality(Messages)
  BY <1>1, CardinalityIsNat
<1>3. <<>> \in [1..0 -> Messages] /\ DOMAIN <<>> = {}
  OBVIOUS
<1>4. QED
  BY <1>2, <1>3 DEF Pop!Maildrops

LEMMA DropsAreFunctions ==
  ASSUME Pop!MessagesAssumption, NEW d \in Pop!Maildrops
  PROVE  DOMAIN d \subseteq Pop!Indexes /\ \A i \in DOMAIN d : d[i] \in Messages
<1>1. PICK n \in 0..Pop!Cardinality(Messages) : d \in [1..n -> Messages]
  BY DEF Pop!Maildrops
<1>2. QED
  BY <1>1, CardinalityIsNat DEF Pop!Indexes

LEMMA NumberingIsDrop ==
  ASSUME Pop!MessagesAssumption, NEW S \in SUBSET Messages, NEW d \in Pop!SetToSeqs(S)
  PROVE  d \in Pop!Maildrops
<1>1. d \in [1..Pop!Cardinality(S) -> S]
  BY DEF Pop!SetToSeqs
<1>2. Pop!Cardinality(S) \in 0..Pop!Cardinality(Messages)
  BY CardinalityIsNat
<1>3. d \in [1..Pop!Cardinality(S) -> Messages]
  BY <1>1
<1>4. QED
  BY <1>2, <1>3 DEF Pop!Maildrops

LEMMA KeptIsTransitive ==
  ASSUME Pop!MessagesAssumption, NEW w, PopSound(w), NEW u, NEW v, NEW S, NEW T,
         Kept(w, u, S), Kept(u, v, T)
  PROVE  Kept(w, v, S \cup T)
<1>1. DOMAIN <<>> = {}
  BY EmptyDrop
<1>2. CASE S \cup T = {} \/ w.state = "listed"
  <2>1. CASE v.marked = {}
    BY <2>1 DEF Kept, PopSound
  <2>2. CASE u.marked = {}
    BY <1>1, <1>2, <2>2 DEF Kept, PopSound
  <2>3. CASE v.marked # {} /\ u.marked # {}
    BY <1>2, <2>3 DEF Kept, PopSound
  <2>4. QED
    BY <2>1, <2>2, <2>3
<1>3. CASE ~(S \cup T = {} \/ w.state = "listed")
  BY <1>3 DEF Kept
<1>4. QED
  BY <1>2, <1>3

LEMMA KeptByItself ==
  ASSUME NEW w, PopSound(w), NEW S PROVE Kept(w, w, S)
  BY DEF Kept

LEMMA KeptWithin ==
  ASSUME NEW w, NEW v, NEW S, NEW messages, Kept(w, v, S), Within(w, messages),
         S = {} \/ w.state = "listed",
         {w.drop[i] : i \in S \cap DOMAIN w.drop} \subseteq messages
  PROVE  Within(v, messages)
<1>1. ASSUME NEW i \in v.marked PROVE v.drop[i] \in messages
  <2>1. v.drop = w.drop /\ i \in DOMAIN v.drop
    BY DEF Kept, PopSound
  <2>2. i \in w.marked \/ i \in S
    BY DEF Kept
  <2>3. QED
    BY <2>1, <2>2 DEF Within, Taken
<1>2. QED
  BY <1>1 DEF Kept, Within, Taken

LEMMA FineThenKept ==
  ASSUME Pop!MessagesAssumption, NEW w, PopSound(w), NEW u, NEW o, NEW S,
         Kept(w, u, {}), PopFine(u, o, S)
  PROVE  PopFine(w, o, S)
<1>1. {} \cup S = S
  OBVIOUS
<1>2. QED
  BY <1>1, KeptIsTransitive DEF PopFine

-----------------------------------------------------------------------------
(* POP: what each call does.                                               *)

LEMMA PopLostIsKept ==
  ASSUME Pop!MessagesAssumption, NEW w, PopSound(w)
  PROVE  Kept(w, Pop!Lost(w), {})
<1>1. <<>> \in Pop!Maildrops /\ DOMAIN <<>> = {}
  BY EmptyDrop
<1>2. Pop!Lost(w) \in Pop!World
  BY <1>1 DEF PopSound, Pop!Lost, Pop!World
<1>3. QED
  BY <1>1, <1>2 DEF PopSound, Pop!Lost, Pop!World, Kept

LEMMA PopAskOutcome ==
  ASSUME NEW w, NEW legal \in BOOLEAN, NEW done, NEW o \in Pop!Ask(w, legal, done)
  PROVE  \/ o = Pop!Outcome(done, "none") /\ legal /\ w.live
         \/ o = Pop!Outcome(w, "refused")
         \/ o = Pop!Outcome(Pop!Lost(w), "connection")
<1>1. PICK r \in Pop!Replies(w, legal) :
        o = CASE r = "none"       -> Pop!Outcome(done, r)
              [] r = "refused"    -> Pop!Outcome(w, r)
              [] r = "connection" -> Pop!Outcome(Pop!Lost(w), r)
  BY DEF Pop!Ask
<1>2. \/ r = "none" /\ legal /\ w.live
      \/ r \in {"refused", "connection"}
  BY DEF Pop!Replies
<1>3. QED
  BY <1>1, <1>2

LEMMA PopAskIsFine ==
  ASSUME Pop!MessagesAssumption, NEW w, PopSound(w), NEW legal \in BOOLEAN, NEW done, NEW S,
         legal /\ w.live => Kept(w, done, S), NEW o \in Pop!Ask(w, legal, done)
  PROVE  /\ PopFine(w, o, S)
         /\ o.error = "none" => o.world = done /\ legal
<1>1. Kept(w, w, S)
  BY KeptByItself
<1>2. Kept(w, Pop!Lost(w), S)
  BY PopLostIsKept DEF Kept, Pop!Lost
<1>3. QED
  BY <1>1, <1>2, PopAskOutcome DEF PopFine, Pop!Outcome, Pop!Errors

LEMMA PopConnectIsFine ==
  ASSUME NEW w, PopSound(w), NEW o \in Pop!ConnectIfNeeded(w)
  PROVE  /\ PopFine(w, o, {})
         /\ w.state = "listed" => o = Pop!Outcome(w, "none")
<1>1. CASE w.state = "disconnected"
  <2>1. \/ o = Pop!Outcome([w EXCEPT !.object = TRUE, !.live = TRUE,
                                     !.state = "connected"], "none")
        \/ o = Pop!Outcome([w EXCEPT !.object = TRUE], "connection")
    BY <1>1 DEF Pop!ConnectIfNeeded, Pop!Connect
  <2>2. ASSUME NEW v, \/ v = [w EXCEPT !.object = TRUE, !.live = TRUE,
                                       !.state = "connected"]
                      \/ v = [w EXCEPT !.object = TRUE]
        PROVE  Kept(w, v, {})
    BY <1>1, <2>2 DEF PopSound, Pop!World, Kept
  <2>3. QED
    BY <1>1, <2>1, <2>2 DEF PopFine, Pop!Outcome, Pop!Errors
<1>2. CASE w.state # "disconnected"
  <2>1. o = Pop!Outcome(w, "none")
    BY <1>2 DEF Pop!ConnectIfNeeded
  <2>2. QED
    BY <2>1, KeptByItself DEF PopFine, Pop!Outcome, Pop!Errors
<1>3. QED
  BY <1>1, <1>2

LEMMA PopLoginIsFine ==
  ASSUME Pop!MessagesAssumption, NEW w, PopSound(w), w.state = "connected",
         NEW o \in Pop!Login(w)
  PROVE  PopFine(w, o, {})
<1>1. PICK p \in UNION {Pop!Ask(w, ~w.auth, Pop!LoggedIn(w, numbered)) :
                           numbered \in Pop!SetToSeqs(w.box)} :
        o = IF p.error = "none"
            THEN Pop!Outcome([p.world EXCEPT !.state = "loggedin"], "none") ELSE p
  BY Zenon DEF Pop!Login
<1>2. PICK numbered \in Pop!SetToSeqs(w.box) : p \in Pop!Ask(w, ~w.auth, Pop!LoggedIn(w, numbered))
  BY <1>1
<1>3. numbered \in Pop!Maildrops
  BY NumberingIsDrop DEF PopSound, Pop!World
<1>4. Kept(w, Pop!LoggedIn(w, numbered), {})
  BY <1>3 DEF PopSound, Pop!World, Kept, Pop!LoggedIn
<1>5. PopFine(w, p, {}) /\ (p.error = "none" => p.world = Pop!LoggedIn(w, numbered))
  BY <1>2, <1>4, PopAskIsFine
<1>6. Kept(w, [Pop!LoggedIn(w, numbered) EXCEPT !.state = "loggedin"], {})
  BY <1>3 DEF PopSound, Pop!World, Kept, Pop!LoggedIn
<1>7. QED
  BY <1>1, <1>5, <1>6 DEF PopFine, Pop!Outcome, Pop!Errors

LEMMA PopLoginIfNeededIsFine ==
  ASSUME Pop!MessagesAssumption, NEW w, PopSound(w), NEW o \in Pop!LoginIfNeeded(w)
  PROVE  /\ PopFine(w, o, {})
         /\ w.state = "listed" => o = Pop!Outcome(w, "none")
<1>1. PICK p \in Pop!ConnectIfNeeded(w) :
        o \in IF p.error = "none"
              THEN IF p.world.state = "connected" THEN Pop!Login(p.world)
                   ELSE {Pop!Outcome(p.world, "none")}
              ELSE {p}
  BY DEF Pop!LoginIfNeeded, Pop!Then
<1>2. PopFine(w, p, {}) /\ (w.state = "listed" => p = Pop!Outcome(w, "none"))
  BY PopConnectIsFine
<1>3. CASE p.error # "none"
  BY <1>1, <1>2, <1>3 DEF Pop!Outcome
<1>4. CASE p.error = "none" /\ p.world.state = "connected"
  <2>1. w.state # "listed"
    BY <1>2, <1>4 DEF Pop!Outcome
  <2>2. PopFine(p.world, o, {})
    BY <1>1, <1>2, <1>4, PopLoginIsFine DEF PopFine, Kept
  <2>3. QED
    BY <1>2, <2>1, <2>2, FineThenKept DEF PopFine
<1>5. CASE p.error = "none" /\ p.world.state # "connected"
  <2>1. o = Pop!Outcome(p.world, "none")
    BY <1>1, <1>5
  <2>2. QED
    BY <1>2, <2>1 DEF PopFine, Pop!Outcome, Pop!Errors
<1>6. QED
  BY <1>3, <1>4, <1>5

LEMMA PopFetchMessagesIsFine ==
  ASSUME Pop!MessagesAssumption, NEW w, PopSound(w), NEW o \in Pop!FetchMessages(w)
  PROVE  /\ PopFine(w, o, {})
         /\ o.error = "none" => o.world.state = "listed" /\ o.world.auth
<1>1. PICK p \in Pop!LoginIfNeeded(w) :
        o \in IF p.error = "none"
              THEN {IF q.error = "none"
                    THEN Pop!Outcome([q.world EXCEPT !.state = "listed"], "none")
                    ELSE q : q \in Pop!Ask(p.world, p.world.auth, p.world)}
              ELSE {p}
  BY DEF Pop!FetchMessages, Pop!Then
<1>2. PopFine(w, p, {})
  BY PopLoginIfNeededIsFine
<1>3. CASE p.error # "none"
  BY <1>1, <1>2, <1>3
<1>4. CASE p.error = "none"
  <2>1. PICK q \in Pop!Ask(p.world, p.world.auth, p.world) :
          o = IF q.error = "none"
              THEN Pop!Outcome([q.world EXCEPT !.state = "listed"], "none") ELSE q
    BY <1>1, <1>4
  <2>2. Kept(p.world, p.world, {}) /\ PopSound(p.world)
    BY <1>2, KeptByItself DEF PopFine, Kept
  <2>3. /\ PopFine(p.world, q, {})
        /\ q.error = "none" => q.world = p.world /\ p.world.auth
    <3>1. p.world.auth \in BOOLEAN
      BY <2>2 DEF PopSound, Pop!World
    <3>2. QED
      BY <2>1, <2>2, <3>1, PopAskIsFine
  <2>4. Kept(p.world, [p.world EXCEPT !.state = "listed"], {})
    BY <2>2 DEF Kept, PopSound, Pop!World
  <2>5. PopFine(p.world, o, {})
    BY <2>1, <2>3, <2>4 DEF PopFine, Pop!Outcome, Pop!Errors
  <2>6. o.error = "none" => o.world.state = "listed" /\ o.world.auth
    BY <2>1, <2>2, <2>3 DEF Pop!Outcome, PopSound, Pop!World
  <2>7. QED
    BY <1>2, <2>5, <2>6, FineThenKept DEF PopFine
<1>5. QED
  BY <1>3, <1>4

LEMMA PopListIfNeededIsFine ==
  ASSUME Pop!MessagesAssumption, NEW w, PopSound(w), NEW o \in Pop!ListIfNeeded(w)
  PROVE  /\ PopFine(w, o, {})
         /\ o.error = "none" => o.world.state = "listed"
         /\ w.state = "listed" => o = Pop!Outcome(w, "none")
<1>1. CASE w.state = "listed"
  BY <1>1, KeptByItself DEF Pop!ListIfNeeded, PopFine, Pop!Outcome, Pop!Errors
<1>2. CASE w.state # "listed"
  BY <1>2, PopFetchMessagesIsFine DEF Pop!ListIfNeeded
<1>3. QED
  BY <1>1, <1>2

LEMMA PopRetrieveIsFine ==
  ASSUME Pop!MessagesAssumption, NEW w, PopSound(w), NEW i, NEW o \in Pop!Retrieve(w, i)
  PROVE  /\ PopFine(w, o, {})
         /\ o.error = "none" /\ w.state = "listed" =>
              w.auth /\ i \in DOMAIN w.drop /\ o.world.got = w.drop[i]
<1> DEFINE Done(v) == IF Pop!There(v, i) THEN [v EXCEPT !.got = v.drop[i]] ELSE v
<1>1. PICK p \in Pop!ListIfNeeded(w) :
        o \in IF p.error = "none"
              THEN Pop!Ask(p.world, Pop!There(p.world, i), Done(p.world)) ELSE {p}
  BY DEF Pop!Retrieve, Pop!Then
<1>2. /\ PopFine(w, p, {})
      /\ w.state = "listed" => p = Pop!Outcome(w, "none")
  BY PopListIfNeededIsFine
<1>3. CASE p.error # "none"
  BY <1>1, <1>2, <1>3 DEF Pop!Outcome
<1>4. CASE p.error = "none"
  <2>1. PopSound(p.world)
    BY <1>2 DEF PopFine, Kept
  <2>2. ASSUME Pop!There(p.world, i)
        PROVE  Done(p.world) = [p.world EXCEPT !.got = p.world.drop[i]]
               /\ p.world.drop[i] \in Messages
    BY <2>1, <2>2, DropsAreFunctions DEF PopSound, Pop!World, Pop!There
  <2>3. Pop!There(p.world, i) => Kept(p.world, Done(p.world), {})
    BY <2>1, <2>2 DEF Kept, PopSound, Pop!World
  <2> HIDE DEF Done
  <2>4. /\ PopFine(p.world, o, {})
        /\ o.error = "none" => o.world = Done(p.world) /\ Pop!There(p.world, i)
    <3>1. o \in Pop!Ask(p.world, Pop!There(p.world, i), Done(p.world))
      BY <1>1, <1>4
    <3>2. Pop!There(p.world, i) \in BOOLEAN
      BY DEF Pop!There
    <3> DEFINE legal == Pop!There(p.world, i)
               done == Done(p.world)
               v == p.world
    <3> HIDE DEF legal, done, v
    <3>3. /\ PopSound(v) /\ legal \in BOOLEAN /\ (legal => Kept(v, done, {}))
          /\ o \in Pop!Ask(v, legal, done)
      BY <2>1, <2>3, <3>1, <3>2 DEF legal, done, v
    <3>4. PopFine(v, o, {}) /\ (o.error = "none" => o.world = done /\ legal)
      BY <3>3, PopAskIsFine
    <3>5. QED
      BY <3>4, Zenon DEF legal, done, v
  <2>5. ASSUME o.error = "none", w.state = "listed"
        PROVE  w.auth /\ i \in DOMAIN w.drop /\ o.world.got = w.drop[i]
    <3>1. p.world = w
      BY <1>2, <2>5 DEF Pop!Outcome
    <3>2. o.world = [w EXCEPT !.got = w.drop[i]]
      BY <2>2, <2>4, <2>5, <3>1
    <3>3. QED
      BY <2>1, <2>4, <2>5, <3>1, <3>2 DEF Pop!There, PopSound, Pop!World
  <2>6. QED
    BY <1>2, <2>4, <2>5, FineThenKept DEF PopFine
<1>5. QED
  BY <1>3, <1>4

LEMMA PopDeleteMessageIsFine ==
  ASSUME Pop!MessagesAssumption, NEW w, PopSound(w), NEW i, NEW o \in Pop!DeleteMessage(w, i)
  PROVE  PopFine(w, o, {i})
<1> DEFINE Done(v) == [v EXCEPT !.marked = @ \cup {i}]
<1>1. PICK p \in Pop!ListIfNeeded(w) :
        o \in IF p.error = "none"
              THEN Pop!Ask(p.world, Pop!There(p.world, i), Done(p.world)) ELSE {p}
  BY DEF Pop!DeleteMessage, Pop!Then
<1>2. PopFine(w, p, {})
  BY PopListIfNeededIsFine
<1>3. CASE p.error # "none"
  BY <1>1, <1>2, <1>3 DEF PopFine, Kept
<1>4. CASE p.error = "none"
  <2>1. PopSound(p.world)
    BY <1>2 DEF PopFine, Kept
  <2>2. ASSUME Pop!There(p.world, i) PROVE Kept(p.world, Done(p.world), {i})
    <3>1. DOMAIN p.world.drop \subseteq Pop!Indexes
      BY <2>1, DropsAreFunctions DEF PopSound, Pop!World
    <3>2. QED
      BY <2>1, <2>2, <3>1 DEF Kept, PopSound, Pop!World, Pop!There
  <2> HIDE DEF Done
  <2>3. PopFine(p.world, o, {i})
    <3>1. Pop!There(p.world, i) \in BOOLEAN
      BY DEF Pop!There
    <3>2. QED
      BY <1>1, <1>4, <2>1, <2>2, <3>1, PopAskIsFine
  <2>4. QED
    BY <1>2, <2>3, FineThenKept DEF PopFine
<1>5. QED
  BY <1>3, <1>4

-----------------------------------------------------------------------------
(* POP: the deletions one after the other.                                 *)

\* UpTo as far as n, whatever set of indexes there is.
DeletionsTo(f, n, w, set) ==
  f = [i \in 0..n |->
         IF i = 0 THEN {Pop!Outcome(w, "none")}
         ELSE IF i \in set THEN Pop!DeleteEach(f[i - 1], i) ELSE f[i - 1]]

LEMMA DeletionsExist ==
  ASSUME NEW w, NEW set
  PROVE  \A n \in Nat : \E f : DeletionsTo(f, n, w, set)
<1> DEFINE bad == {n \in Nat : ~\E f : DeletionsTo(f, n, w, set)}
<1>1. SUFFICES ASSUME bad # {} PROVE FALSE
  OBVIOUS
<1>2. PICK n \in bad : \A m \in Nat : m < n => m \notin bad
  BY <1>1, LeastBad
<1>3. CASE n = 0
  <2>1. DeletionsTo([i \in 0..0 |-> {Pop!Outcome(w, "none")}], 0, w, set)
    BY DEF DeletionsTo
  <2>2. QED
    BY <1>2, <1>3, <2>1
<1>4. CASE n # 0
  <2>1. n \in Nat /\ n - 1 \in Nat /\ n - 1 < n
    BY <1>2, <1>4
  <2>2. PICK g : DeletionsTo(g, n - 1, w, set)
    BY <1>2, <2>1
  <2> DEFINE f == [i \in 0..n |->
                     IF i < n THEN g[i]
                     ELSE IF i \in set THEN Pop!DeleteEach(g[i - 1], i) ELSE g[i - 1]]
  <2>3. ASSUME NEW i \in 0..n
        PROVE  f[i] = IF i = 0 THEN {Pop!Outcome(w, "none")}
                      ELSE IF i \in set THEN Pop!DeleteEach(f[i - 1], i) ELSE f[i - 1]
    <3>1. i = 0 \/ f[i - 1] = g[i - 1]
      BY <2>1
    <3>2. CASE i < n
      <4>1. i \in 0..(n - 1)
        BY <2>1, <3>2
      <4>2. g[i] = IF i = 0 THEN {Pop!Outcome(w, "none")}
                   ELSE IF i \in set THEN Pop!DeleteEach(g[i - 1], i) ELSE g[i - 1]
        BY <2>2, <4>1 DEF DeletionsTo
      <4>3. f[i] = g[i]
        BY <3>2
      <4> HIDE DEF f
      <4>4. QED
        BY <3>1, <4>2, <4>3
    <3>3. CASE i = n
      BY <1>4, <3>1, <3>3
    <3>4. QED
      BY <2>1, <3>2, <3>3
  <2>4. DeletionsTo(f, n, w, set)
    BY <2>3 DEF DeletionsTo
  <2>5. QED
    BY <1>2, <2>4
<1>5. QED
  BY <1>3, <1>4

LEMMA UpToUnfolds ==
  ASSUME Pop!MessagesAssumption, NEW w, NEW set
  PROVE  DeletionsTo(Pop!UpTo(w, set), Pop!Cardinality(Messages), w, set)
<1> DEFINE N == Pop!Cardinality(Messages)
<1>1. N \in Nat /\ {0} \cup Pop!Indexes = 0..N
  BY CardinalityIsNat DEF Pop!Indexes
<1>2. Pop!UpTo(w, set) = CHOOSE f : DeletionsTo(f, N, w, set)
  BY <1>1 DEF Pop!UpTo, DeletionsTo
<1>3. QED
  BY <1>1, <1>2, DeletionsExist

LEMMA PopUpToIsFine ==
  ASSUME Pop!MessagesAssumption, NEW w, PopSound(w), NEW set
  PROVE  \A o \in Pop!UpTo(w, set)[Pop!Cardinality(Messages)] :
           PopFine(w, o, set) /\ (set = {} => o = Pop!Outcome(w, "none"))
<1> DEFINE N == Pop!Cardinality(Messages)
           f == Pop!UpTo(w, set)
           Good(n) == \A o \in f[n] :
                        PopFine(w, o, set) /\ (set = {} => o = Pop!Outcome(w, "none"))
           bad == {n \in 0..N : ~Good(n)}
<1>1. N \in Nat /\ DeletionsTo(f, N, w, set)
  BY CardinalityIsNat, UpToUnfolds
<1>2. SUFFICES ASSUME bad # {} PROVE FALSE
  BY <1>1
<1>3. PICK n \in bad : \A m \in Nat : m < n => m \notin bad
  <2>1. bad \in SUBSET Nat
    BY <1>1
  <2> HIDE DEF bad
  <2>2. QED
    BY <1>2, <2>1, LeastBad
<1>4. f[n] = IF n = 0 THEN {Pop!Outcome(w, "none")}
             ELSE IF n \in set THEN Pop!DeleteEach(f[n - 1], n) ELSE f[n - 1]
  <2> HIDE DEF f
  <2> QED BY <1>1, <1>3 DEF DeletionsTo
<1> HIDE DEF f
<1>5. CASE n = 0
  <2>1. PopFine(w, Pop!Outcome(w, "none"), set)
    BY KeptByItself DEF PopFine, Pop!Outcome, Pop!Errors
  <2>2. QED
    BY <1>3, <1>4, <1>5, <2>1
<1>6. CASE n # 0
  <2>1. n - 1 \in 0..N /\ n - 1 < n
    BY <1>1, <1>3, <1>6
  <2>2. Good(n - 1)
    BY <1>3, <2>1
  <2>3. CASE n \notin set
    BY <1>3, <1>4, <1>6, <2>2, <2>3
  <2>4. CASE n \in set
    <3>1. SUFFICES ASSUME NEW o \in Pop!DeleteEach(f[n - 1], n) PROVE PopFine(w, o, set)
      BY <1>3, <1>4, <1>6, <2>4
    <3>2. PICK p \in f[n - 1] :
            o \in IF p.error = "none" THEN Pop!DeleteMessage(p.world, n) ELSE {p}
      BY DEF Pop!DeleteEach, Pop!Then
    <3>3. PopFine(w, p, set)
      BY <2>2
    <3>4. CASE p.error # "none"
      BY <3>2, <3>3, <3>4
    <3>5. CASE p.error = "none"
      <4>1. PopFine(p.world, o, {n})
        BY <3>2, <3>3, <3>5, PopDeleteMessageIsFine DEF PopFine, Kept
      <4>2. Kept(w, o.world, set \cup {n}) /\ set \cup {n} = set
        BY <2>4, <3>3, <4>1, KeptIsTransitive DEF PopFine
      <4>3. QED
        BY <4>1, <4>2 DEF PopFine
    <3>6. QED
      BY <3>4, <3>5
  <2>5. QED
    BY <2>3, <2>4
<1>7. QED
  BY <1>5, <1>6

LEMMA PopDisconnectIsFine ==
  ASSUME Pop!MessagesAssumption, NEW w, PopSound(w), NEW u \in Pop!Disconnect(w),
         NEW messages, Within(w, messages)
  PROVE  PopSound(u) /\ Within(u, messages)
<1>1. CASE ~w.object
  BY <1>1 DEF Pop!Disconnect
<1>2. CASE w.object
  <2> DEFINE ended(v) == [Pop!Lost(v) EXCEPT !.state = "disconnected", !.object = FALSE]
  <2>1. u = ended(Pop!Committed(w)) \/ u = ended(w)
    BY <1>2 DEF Pop!Disconnect
  <2>2. <<>> \in Pop!Maildrops /\ DOMAIN <<>> = {}
    BY EmptyDrop
  <2>3. Taken(w) \subseteq Messages
    BY DropsAreFunctions DEF Taken, PopSound, Pop!World
  <2>4. Pop!Committed(w) = [w EXCEPT !.box = @ \ Taken(w), !.gone = @ \cup Taken(w)]
    BY DEF Pop!Committed, Taken
  <2>5. ASSUME NEW v, v = w \/ v = Pop!Committed(w)
        PROVE  /\ PopSound(ended(v)) /\ ended(v).marked = {}
               /\ ended(v).gone = v.gone /\ v.gone \subseteq w.gone \cup Taken(w)
    <3>1. v = w \/ v = [w EXCEPT !.box = @ \ Taken(w), !.gone = @ \cup Taken(w)]
      BY <2>4, <2>5
    <3>2. w \in Pop!World
      BY DEF PopSound
    <3> HIDE DEF ended
    <3>3. v \in Pop!World
      BY <2>3, <3>1, <3>2 DEF Pop!World
    <3>4. v.gone \subseteq w.gone \cup Taken(w)
      BY <3>1, <3>2 DEF Pop!World
    <3> USE DEF ended
    <3>5. QED
      BY <2>2, <3>3, <3>4 DEF PopSound, Pop!World, Pop!Lost
  <2> HIDE DEF ended
  <2>6. PopSound(u) /\ u.marked = {} /\ u.gone \subseteq w.gone \cup Taken(w)
    BY <2>1, <2>5
  <2>7. QED
    BY <2>6 DEF Within, Taken
<1>3. QED
  BY <1>1, <1>2

-----------------------------------------------------------------------------
(* POP: what main() of each operation does.                                *)

LEMMA PopDeleteMessagesDoes ==
  ASSUME Pop!MessagesAssumption, NEW w, PopSound(w), NEW set,
         NEW o \in Pop!DeleteMessages(w, set)
  PROVE  /\ PopSound(o.world) /\ o.error \in Pop!Errors
         /\ o.error # "none" => Kept(w, o.world, set)
         /\ \A messages :
              /\ set = {} \/ w.state = "listed"
              /\ {w.drop[i] : i \in set \cap DOMAIN w.drop} \subseteq messages
              /\ Within(w, messages)
              => Within(o.world, messages)
<1>1. PICK p \in Pop!UpTo(w, set)[Pop!Cardinality(Messages)] :
        o \in IF p.error = "none"
              THEN {Pop!Outcome(u, "none") : u \in Pop!Disconnect(p.world)} ELSE {p}
  BY DEF Pop!DeleteMessages, Pop!Then
<1>2. PopFine(w, p, set)
  BY PopUpToIsFine
<1>3. PopSound(p.world)
  BY <1>2 DEF PopFine, Kept
<1>4. ASSUME NEW messages, set = {} \/ w.state = "listed",
             {w.drop[i] : i \in set \cap DOMAIN w.drop} \subseteq messages,
             Within(w, messages)
      PROVE  Within(p.world, messages)
  BY <1>2, <1>4, KeptWithin DEF PopFine
<1>5. CASE p.error # "none"
  <2>1. o = p
    BY <1>1, <1>5
  <2>2. QED
    BY <1>2, <1>3, <1>4, <2>1 DEF PopFine
<1>6. CASE p.error = "none"
  <2>1. PICK u \in Pop!Disconnect(p.world) : o = Pop!Outcome(u, "none")
    BY <1>1, <1>6
  <2>2. o.world = u /\ o.error = "none"
    BY <2>1 DEF Pop!Outcome
  <2>3. u = p.world \/ PopSound(u)
    <3>1. Within(p.world, p.world.gone \cup Taken(p.world))
      BY DEF Within
    <3>2. QED
      BY <1>3, <3>1, PopDisconnectIsFine
  <2>4. \A messages : Within(p.world, messages) => Within(u, messages)
    BY <1>3, PopDisconnectIsFine
  <2>5. QED
    BY <1>3, <1>4, <2>2, <2>3, <2>4 DEF Pop!Errors
<1>7. QED
  BY <1>5, <1>6

LEMMA PopNoopIsFine ==
  ASSUME Pop!MessagesAssumption, NEW w, PopSound(w), NEW o \in Pop!Noop(w)
  PROVE  PopFine(w, o, {})
<1>1. CASE ~w.object
  <2>1. PICK e \in Pop!Errors \ {"null"} : o = Pop!Outcome(w, e)
    BY <1>1 DEF Pop!Noop
  <2>2. QED
    BY <2>1, KeptByItself DEF PopFine, Pop!Outcome
<1>2. CASE w.object
  <2>1. PICK p \in Pop!LoginIfNeeded(w) :
          o \in IF p.error = "none"
                THEN {IF q.error = "refused" THEN Pop!Outcome(q.world, "none") ELSE q :
                        q \in Pop!Ask(p.world, TRUE, p.world)}
                ELSE {p}
    BY <1>2 DEF Pop!Noop, Pop!Then
  <2>2. PopFine(w, p, {})
    BY PopLoginIfNeededIsFine
  <2>3. CASE p.error # "none"
    BY <2>1, <2>2, <2>3
  <2>4. CASE p.error = "none"
    <3>1. PICK q \in Pop!Ask(p.world, TRUE, p.world) :
            o = IF q.error = "refused" THEN Pop!Outcome(q.world, "none") ELSE q
      BY <2>1, <2>4
    <3>2. PopSound(p.world) /\ Kept(p.world, p.world, {})
      BY <2>2, KeptByItself DEF PopFine, Kept
    <3>3. PopFine(p.world, q, {})
      BY <3>2, PopAskIsFine
    <3>4. PopFine(p.world, o, {})
      BY <3>1, <3>3 DEF PopFine, Pop!Outcome, Pop!Errors
    <3>5. QED
      BY <2>2, <3>4, FineThenKept DEF PopFine
  <2>5. QED
    BY <2>3, <2>4
<1>3. QED
  BY <1>1, <1>2

LEMMA PopFetchMessageDoes ==
  ASSUME Pop!MessagesAssumption, NEW w, PopSound(w), NEW i,
         NEW o \in Pop!FetchMessage(w, i)
  PROVE  /\ PopFine(w, o, {})
         /\ o.error = "none" /\ w.state = "listed" =>
              w.auth /\ i \in DOMAIN w.drop /\ o.world.got = w.drop[i]
<1>1. PICK p \in Pop!Retrieve(w, i) :
        o = IF p.error = "none" THEN p ELSE Pop!Outcome(p.world, "null")
  BY DEF Pop!FetchMessage
<1>2. /\ PopFine(w, p, {})
      /\ p.error = "none" /\ w.state = "listed" =>
           w.auth /\ i \in DOMAIN w.drop /\ p.world.got = w.drop[i]
  BY PopRetrieveIsFine
<1>3. QED
  BY <1>1, <1>2 DEF PopFine, Pop!Outcome, Pop!Errors

\* Of the index a header or a message is fetched for.
GotFrom(w, o, set) ==
  \A i \in set : w.auth /\ i \in DOMAIN w.drop /\ o.world.got = w.drop[i]

LEMMA PopMainDoes ==
  ASSUME Pop!MessagesAssumption, NEW w, PopSound(w), NEW kind \in Pop!Kinds,
         NEW set \in Pop!Arguments(kind), NEW o \in Pop!Main(kind, set, w)
  PROVE  /\ kind # "delete" => PopFine(w, o, {})
         /\ kind = "delete" => o \in Pop!DeleteMessages(w, set)
         /\ kind = "list" /\ o.error = "none" => o.world.state = "listed" /\ o.world.auth
         /\ kind \in {"header", "message"} /\ o.error = "none" /\ w.state = "listed" =>
              GotFrom(w, o, set)
<1>1. CASE kind = "list"
  BY <1>1, PopFetchMessagesIsFine DEF Pop!Main
<1>2. CASE kind = "header"
  <2>1. PICK i \in Pop!Indexes : set = {i}
    BY <1>2 DEF Pop!Arguments
  <2>2. o \in Pop!Retrieve(w, i)
    BY <1>2, <2>1 DEF Pop!Main
  <2>3. QED
    BY <1>2, <2>1, <2>2, PopRetrieveIsFine DEF GotFrom
<1>3. CASE kind = "message"
  <2>1. PICK i \in Pop!Indexes : set = {i}
    BY <1>3 DEF Pop!Arguments
  <2>2. o \in Pop!FetchMessage(w, i)
    BY <1>3, <2>1 DEF Pop!Main
  <2>3. QED
    BY <1>3, <2>1, <2>2, PopFetchMessageDoes DEF GotFrom
<1>4. CASE kind = "delete"
  BY <1>4 DEF Pop!Main
<1>5. CASE kind = "check"
  BY <1>5, PopLoginIfNeededIsFine DEF Pop!Main
<1>6. CASE kind = "noop"
  BY <1>6, PopNoopIsFine DEF Pop!Main
<1>7. QED
  BY <1>1, <1>2, <1>3, <1>4, <1>5, <1>6 DEF Pop!Kinds

-----------------------------------------------------------------------------
(* POP: the invariant.                                                     *)

\* The list of a client that has not disconnected since is what its connection
\* has, as long as it is logged in.
ListIsValid ==
  client.fresh =>
    /\ popWorld.state = "listed"
    /\ popWorld.auth => popWorld.drop = client.list

PopIInv ==
  /\ Pop!TypeOK /\ PopSound(popWorld)
  /\ ListIsValid
  /\ ~client.blind => Within(popWorld, client.asked)
  /\ Pop!IndexIsReference

LEMMA PopInitIInv == Pop!MessagesAssumption /\ Pop!Init => PopIInv
<1>1. SUFFICES ASSUME Pop!MessagesAssumption, Pop!Init PROVE PopIInv
  OBVIOUS
<1>2. <<>> \in Pop!Maildrops /\ DOMAIN <<>> = {}
  BY <1>1, EmptyDrop
<1>3. Pop!TypeOK
  BY <1>1, <1>2 DEF Pop!Init, Pop!TypeOK, Pop!World, Pop!Kinds, Pop!Errors
<1>4. PopSound(popWorld) /\ Taken(popWorld) = {} /\ popWorld.gone = {}
  BY <1>1, <1>2, <1>3 DEF Pop!Init, Pop!TypeOK, PopSound, Taken
<1>5. QED
  BY <1>1, <1>3, <1>4 DEF Pop!Init, PopIInv, ListIsValid, Within, Pop!IndexIsReference

\* What the client notes has its type, and its list is what it was or the one it
\* has just been told.
LEMMA NotedIsClient ==
  ASSUME Pop!MessagesAssumption, Pop!TypeOK, NEW kind \in Pop!Kinds,
         NEW set \in Pop!Arguments(kind), NEW o, PopSound(o.world)
  PROVE  Pop!Noted(kind, set, o) \in
           [list : Pop!Maildrops, fresh : BOOLEAN, asked : SUBSET Messages,
            blind : BOOLEAN]
<1> DEFINE meant == {client.list[i] : i \in set \cap DOMAIN client.list}
           asking == [client EXCEPT !.asked = @ \cup meant,
                                    !.blind = @ \/ (set # {} /\ ~client.fresh)]
<1>1. client \in [list : Pop!Maildrops, fresh : BOOLEAN, asked : SUBSET Messages,
                  blind : BOOLEAN]
  BY DEF Pop!TypeOK
<1>2. meant \subseteq Messages
  BY <1>1, DropsAreFunctions
<1>3. <<>> \in Pop!Maildrops /\ o.world.drop \in Pop!Maildrops
  BY EmptyDrop DEF PopSound, Pop!World
<1>4. asking \in [list : Pop!Maildrops, fresh : BOOLEAN, asked : SUBSET Messages,
                  blind : BOOLEAN]
  <2> HIDE DEF meant
  <2> QED BY <1>1, <1>2
<1>5. Pop!Noted(kind, set, o) \in
        {[client EXCEPT !.list = o.world.drop, !.fresh = TRUE],
         [asking EXCEPT !.list = <<>>, !.fresh = FALSE], asking, client}
  BY DEF Pop!Noted
<1>6. QED
  <2> HIDE DEF asking
  <2> QED BY <1>1, <1>3, <1>4, <1>5

LEMMA PopRunStep ==
  ASSUME Pop!MessagesAssumption, PopIInv, NEW kind \in Pop!Kinds,
         NEW set \in Pop!Arguments(kind), Pop!Run(kind, set)
  PROVE  PopIInv'
<1> DEFINE w == [popWorld EXCEPT !.got = NoMessage]
           meant == {client.list[i] : i \in set \cap DOMAIN client.list}
<1>1. PICK o \in Pop!Main(kind, set, w) :
        /\ popWorld' = o.world
        /\ popLast' = [kind |-> kind, error |-> o.error,
                       index |-> IF kind \in {"header", "message"} THEN set ELSE {}]
        /\ client' = Pop!Noted(kind, set, o)
  BY DEF Pop!Run
<1>2. /\ PopSound(w) /\ w.gone = popWorld.gone /\ w.state = popWorld.state
      /\ w.auth = popWorld.auth /\ w.drop = popWorld.drop /\ w.marked = popWorld.marked
  BY DEF PopIInv, PopSound, Pop!World
<1>3. ListIsValid /\ (~client.blind => Within(w, client.asked))
  BY <1>2 DEF PopIInv, Within, Taken
<1>4. client \in [list : Pop!Maildrops, fresh : BOOLEAN, asked : SUBSET Messages,
                  blind : BOOLEAN]
  BY DEF PopIInv, Pop!TypeOK
<1> HIDE DEF w
<1>5. /\ kind # "delete" => PopFine(w, o, {})
      /\ kind = "delete" => o \in Pop!DeleteMessages(w, set)
      /\ kind = "list" /\ o.error = "none" => o.world.state = "listed" /\ o.world.auth
      /\ kind \in {"header", "message"} /\ o.error = "none" /\ w.state = "listed" =>
           GotFrom(w, o, set)
  BY <1>1, <1>2, PopMainDoes
<1>6. /\ PopSound(o.world) /\ o.error \in Pop!Errors
      /\ kind # "delete" \/ o.error # "none" => Kept(w, o.world, set) \/ Kept(w, o.world, {})
  BY <1>2, <1>5, PopDeleteMessagesDoes DEF PopFine, Kept
<1>7. Pop!TypeOK'
  <2>1. client' \in [list : Pop!Maildrops, fresh : BOOLEAN, asked : SUBSET Messages,
                     blind : BOOLEAN]
    BY <1>1, <1>6, NotedIsClient DEF PopIInv
  <2>2. set \subseteq Pop!Indexes
    BY DEF Pop!Arguments, Pop!Kinds
  <2>3. popLast' \in [kind : Pop!Kinds, index : SUBSET Pop!Indexes, error : Pop!Errors]
    BY <1>1, <1>6, <2>2
  <2>4. popWorld' \in Pop!World /\ popWorld'.marked \subseteq DOMAIN popWorld'.drop
    BY <1>1, <1>6 DEF PopSound
  <2>5. QED
    BY <2>1, <2>3, <2>4 DEF Pop!TypeOK
<1>8. ListIsValid'
  <2>1. CASE kind = "list" /\ o.error = "none"
    <3>1. client' = [client EXCEPT !.list = o.world.drop, !.fresh = TRUE]
      BY <1>1, <2>1 DEF Pop!Noted
    <3>2. client'.list = popWorld'.drop /\ popWorld'.state = "listed"
      BY <1>1, <1>4, <1>5, <2>1, <3>1
    <3>3. QED
      BY <3>2 DEF ListIsValid
  <2>2. CASE kind = "delete" /\ o.error = "none"
    <3>1. ~client'.fresh
      BY <1>1, <1>4, <2>2 DEF Pop!Noted
    <3>2. QED
      BY <3>1 DEF ListIsValid
  <2>3. CASE ~(kind \in {"list", "delete"} /\ o.error = "none")
    <3>1. client'.fresh = client.fresh /\ client'.list = client.list
      BY <1>1, <1>4, <2>3 DEF Pop!Noted
    <3>2. w.state = "listed" =>
            o.world.state = "listed" /\ (o.world.auth => w.auth /\ o.world.drop = w.drop)
      BY <1>6, <2>3 DEF Kept
    <3>3. QED
      BY <1>1, <1>2, <1>3, <3>1, <3>2 DEF ListIsValid
  <2>4. QED
    BY <2>1, <2>2, <2>3
<1>9. ASSUME ~client'.blind PROVE Within(popWorld', client'.asked)
  <2>1. CASE kind = "delete"
    <3>1. client'.asked = client.asked \cup meant /\ ~client.blind
          /\ (set = {} \/ client.fresh)
      BY <1>1, <1>4, <1>9, <2>1 DEF Pop!Noted
    <3>2. set = {} \/ w.state = "listed"
      BY <1>2, <1>3, <3>1 DEF ListIsValid
    <3>3. {w.drop[i] : i \in set \cap DOMAIN w.drop} \subseteq client'.asked
      <4>1. CASE set = {}
        BY <4>1
      <4>2. CASE client.fresh /\ w.auth
        BY <1>2, <1>3, <3>1, <4>2 DEF ListIsValid
      <4>3. CASE ~w.auth
        <5>1. DOMAIN w.drop = {}
          BY <1>2, <4>3, EmptyDrop DEF PopSound
        <5>2. QED
          BY <5>1
      <4>4. QED
        BY <3>1, <4>1, <4>2, <4>3
    <3>4. Within(w, client'.asked)
      BY <1>3, <3>1 DEF Within
    <3>5. QED
      BY <1>1, <1>2, <1>5, <2>1, <3>2, <3>3, <3>4, PopDeleteMessagesDoes
  <2>2. CASE kind # "delete"
    <3>1. client'.asked = client.asked /\ ~client.blind
      BY <1>1, <1>4, <1>9, <2>2 DEF Pop!Noted
    <3>2. Kept(w, o.world, {}) /\ Within(w, client.asked)
      BY <1>3, <1>5, <2>2, <3>1 DEF PopFine
    <3>3. Within(o.world, client.asked)
      BY <3>2, KeptWithin
    <3>4. QED
      BY <1>1, <3>1, <3>3
  <2>3. QED
    BY <2>1, <2>2
<1>10. Pop!IndexIsReference'
  <2>1. SUFFICES ASSUME kind \in {"header", "message"}, o.error = "none", client'.fresh,
                        NEW i \in set
                 PROVE  i \in DOMAIN client'.list /\ popWorld'.got = client'.list[i]
    BY <1>1 DEF Pop!IndexIsReference
  <2>2. client' = client
    BY <1>1, <2>1 DEF Pop!Noted
  <2>3. GotFrom(w, o, set) /\ w.auth /\ w.drop = client.list
    BY <1>2, <1>3, <1>5, <2>1, <2>2 DEF ListIsValid, GotFrom
  <2>4. QED
    BY <1>1, <2>1, <2>2, <2>3 DEF GotFrom
<1>11. QED
  BY <1>1, <1>6, <1>7, <1>8, <1>9, <1>10 DEF PopIInv

\* The network, the mailbox and the server.
LEMMA PopOtherStep ==
  ASSUME Pop!MessagesAssumption, PopIInv,
         \/ Pop!ConnectionDrops \/ Pop!BecomesCalm \/ Pop!Crashed
         \/ \E m \in Messages : Pop!Arrives(m) \/ Pop!Vanishes(m)
         \/ UNCHANGED popVars
  PROVE  PopIInv'
<1>1. popLast' = popLast /\ client' = client
  BY DEF Pop!ConnectionDrops, Pop!BecomesCalm, Pop!Crashed, Pop!vars, Pop!Arrives,
         Pop!Vanishes, popVars
<1>2. ASSUME Kept(popWorld, popWorld', {}), popWorld'.got = popWorld.got
      PROVE  PopIInv'
  <2>1. Pop!TypeOK'
    BY <1>1, <1>2 DEF Kept, PopIInv, PopSound, Pop!TypeOK
  <2>2. ListIsValid'
    BY <1>1, <1>2 DEF Kept, PopIInv, ListIsValid
  <2>3. ~client'.blind => Within(popWorld', client'.asked)
    <3>1. ASSUME Within(popWorld, client.asked) PROVE Within(popWorld', client.asked)
      BY <1>2, <3>1, KeptWithin
    <3>2. QED
      BY <1>1, <3>1 DEF PopIInv
  <2>4. Pop!IndexIsReference'
    BY <1>1, <1>2 DEF PopIInv, Pop!IndexIsReference
  <2>5. QED
    BY <1>2, <2>1, <2>2, <2>3, <2>4 DEF PopIInv, Kept
<1>3. PopSound(popWorld)
  BY DEF PopIInv
<1>4. CASE Pop!ConnectionDrops
  <2>1. popWorld' = Pop!Lost(popWorld)
    BY <1>4 DEF Pop!ConnectionDrops
  <2>2. popWorld'.got = popWorld.got
    BY <1>3, <2>1 DEF Pop!Lost, PopSound, Pop!World
  <2>3. QED
    BY <1>2, <1>3, <2>1, <2>2, PopLostIsKept
<1>5. CASE Pop!BecomesCalm
  BY <1>2, <1>3, <1>5 DEF Pop!BecomesCalm, PopSound, Pop!World, Kept
<1>6. CASE \E m \in Messages : Pop!Arrives(m) \/ Pop!Vanishes(m)
  BY <1>2, <1>3, <1>6 DEF Pop!Arrives, Pop!Vanishes, PopSound, Pop!World, Kept
<1>7. CASE Pop!Crashed \/ UNCHANGED popVars
  BY <1>2, <1>3, <1>7, KeptByItself DEF Pop!Crashed, Pop!vars, popVars
<1>8. QED
  BY <1>4, <1>5, <1>6, <1>7

-----------------------------------------------------------------------------
(* SMTP: what each call does.                                              *)

SmtpSound(w) ==
  /\ w \in Smtp!World
  /\ w.stream = "none" <=> w.state = "disconnected"
  /\ w.live => w.stream = "open"

\* A call in which the server takes no message.
SmtpFine(w, o) ==
  SmtpSound(o.world) /\ o.world.sent = w.sent /\ o.error \in Smtp!Errors

\* Ready for a command.
SmtpOpen(w) == SmtpSound(w) /\ w.state # "disconnected"

\* An outcome of the command that makes w into done.
Asked(w, done, o) ==
  /\ SmtpOpen(o.world) /\ o.error \in {"none", "refused", "connection"}
  /\ o.error = "none" => o.world = done
  /\ o.error = "refused" => o.world = w
  /\ o.world.sent \in {w.sent, done.sent}

LEMMA SmtpAskDoes ==
  ASSUME NEW w, SmtpOpen(w), NEW legal \in BOOLEAN, NEW done, SmtpOpen(done),
         NEW o \in Smtp!Ask(w, legal, done)
  PROVE  Asked(w, done, o)
<1>1. \/ o = Smtp!Outcome(done, "none")
      \/ o = Smtp!Outcome(w, "refused")
      \/ \E v \in {w, done} : o = Smtp!Outcome(Smtp!Lost(v), "connection")
  <2>1. PICK r \in Smtp!Replies(w, legal) :
          o \in CASE r = "none"    -> {Smtp!Outcome(done, r)}
                  [] r = "refused" -> {Smtp!Outcome(w, r)}
                  [] OTHER -> {Smtp!Outcome(Smtp!Lost(v), r) :
                                 v \in IF w.live /\ legal THEN {w, done} ELSE {w}}
    BY DEF Smtp!Ask
  <2>2. r \in {"none", "refused", "connection"}
    BY DEF Smtp!Replies
  <2>3. CASE r = "connection"
    <3>1. PICK v \in IF w.live /\ legal THEN {w, done} ELSE {w} :
            o = Smtp!Outcome(Smtp!Lost(v), r)
      BY <2>1, <2>3
    <3>2. QED
      BY <2>3, <3>1
  <2>4. QED
    BY <2>1, <2>2, <2>3
<1>2. ASSUME NEW v, SmtpOpen(v)
      PROVE  SmtpOpen(Smtp!Lost(v)) /\ Smtp!Lost(v).sent = v.sent
  BY <1>2 DEF SmtpOpen, SmtpSound, Smtp!Lost, Smtp!World
<1>3. QED
  BY <1>1, <1>2 DEF Asked, Smtp!Outcome

LEMMA SmtpMarkedDoes ==
  ASSUME NEW w, SmtpOpen(w), NEW legal \in BOOLEAN, NEW done, SmtpOpen(done),
         NEW o \in Smtp!Marked(Smtp!Ask(w, legal, done))
  PROVE  Asked(w, done, o)
<1>1. PICK p \in Smtp!Ask(w, legal, done) :
        o = IF p.error = "connection"
            THEN Smtp!Outcome([p.world EXCEPT !.drop = TRUE], p.error) ELSE p
  BY DEF Smtp!Marked
<1>2. Asked(w, done, p)
  BY SmtpAskDoes
<1>3. SmtpOpen([p.world EXCEPT !.drop = TRUE])
      /\ [p.world EXCEPT !.drop = TRUE].sent = p.world.sent
  BY <1>2 DEF Asked, SmtpOpen, SmtpSound, Smtp!World
<1>4. QED
  BY <1>1, <1>2, <1>3 DEF Asked, Smtp!Outcome

LEMMA SmtpConnectIsFine ==
  ASSUME NEW w, SmtpSound(w), NEW o \in Smtp!ConnectIfNeeded(w)
  PROVE  SmtpFine(w, o) /\ (o.error = "none" => SmtpOpen(o.world))
<1> DEFINE v == IF w.drop \/ w.stream = "closed"
                THEN [Smtp!Disconnect(w) EXCEPT !.drop = FALSE] ELSE w
<1>1. SmtpSound(v) /\ v.sent = w.sent
  BY DEF SmtpSound, Smtp!World, Smtp!Disconnect, Smtp!Unsetup, Smtp!Lost
<1>2. o \in IF v.state = "disconnected" THEN Smtp!Connect(v) ELSE {Smtp!Outcome(v, "none")}
  BY DEF Smtp!ConnectIfNeeded
<1> HIDE DEF v
<1>3. CASE v.state = "disconnected"
  <2> DEFINE up == [v EXCEPT !.stream = "open", !.live = TRUE, !.state = "connected"]
  <2>1. o = Smtp!Outcome(up, "none") \/ o = Smtp!Outcome(Smtp!Unsetup(v), "connection")
    BY <1>2, <1>3 DEF Smtp!Connect
  <2>2. SmtpOpen(up) /\ up.sent = w.sent
    BY <1>1 DEF SmtpOpen, SmtpSound, Smtp!World
  <2>3. SmtpSound(Smtp!Unsetup(v)) /\ Smtp!Unsetup(v).sent = w.sent
    BY <1>1, <1>3 DEF SmtpSound, Smtp!World, Smtp!Unsetup, Smtp!Lost
  <2> HIDE DEF up
  <2>4. QED
    BY <2>1, <2>2, <2>3 DEF SmtpFine, SmtpOpen, Smtp!Outcome, Smtp!Errors
<1>4. CASE v.state # "disconnected"
  BY <1>1, <1>2, <1>4 DEF SmtpFine, SmtpOpen, Smtp!Outcome, Smtp!Errors
<1>5. QED
  BY <1>3, <1>4

LEMMA SmtpLoginIsFine ==
  ASSUME NEW w, SmtpOpen(w), NEW o \in Smtp!Login(w)
  PROVE  SmtpFine(w, o) /\ (o.error = "none" => SmtpOpen(o.world))
<1> DEFINE done == [w EXCEPT !.auth = TRUE]
<1>1. ASSUME NEW v, SmtpOpen(v), v.sent = w.sent
      PROVE  SmtpOpen([v EXCEPT !.state = "loggedin"])
             /\ [v EXCEPT !.state = "loggedin"].sent = w.sent
  BY <1>1 DEF SmtpOpen, SmtpSound, Smtp!World
<1>2. CASE ~w.cred
  <2>1. o = Smtp!Outcome([w EXCEPT !.state = "loggedin"], "none")
    BY <1>2 DEF Smtp!Login
  <2>2. QED
    BY <1>1, <2>1 DEF SmtpFine, SmtpOpen, Smtp!Outcome, Smtp!Errors
<1>3. CASE w.cred
  <2>1. PICK p \in Smtp!Marked(Smtp!Ask(w, ~w.auth, done)) :
          o = IF p.error = "none"
              THEN Smtp!Outcome([p.world EXCEPT !.state = "loggedin"], "none") ELSE p
    BY <1>3 DEF Smtp!Login
  <2>2. SmtpOpen(done) /\ done.sent = w.sent
    BY DEF SmtpOpen, SmtpSound, Smtp!World
  <2> HIDE DEF done
  <2>3. Asked(w, done, p)
    BY <2>1, <2>2, SmtpMarkedDoes
  <2>4. SmtpOpen(p.world) /\ p.world.sent = w.sent
    BY <2>2, <2>3 DEF Asked
  <2>5. QED
    BY <1>1, <2>1, <2>3, <2>4 DEF Asked, SmtpFine, SmtpOpen, Smtp!Outcome, Smtp!Errors
<1>4. QED
  BY <1>2, <1>3

LEMMA SmtpLoginIfNeededIsFine ==
  ASSUME NEW w, SmtpSound(w), NEW o \in Smtp!LoginIfNeeded(w)
  PROVE  SmtpFine(w, o) /\ (o.error = "none" => SmtpOpen(o.world))
<1>1. PICK p \in Smtp!ConnectIfNeeded(w) :
        o \in IF p.error = "none"
              THEN IF p.world.state = "connected" THEN Smtp!Login(p.world)
                   ELSE {Smtp!Outcome(p.world, "none")}
              ELSE {p}
  BY DEF Smtp!LoginIfNeeded, Smtp!Then
<1>2. SmtpFine(w, p) /\ (p.error = "none" => SmtpOpen(p.world))
  BY SmtpConnectIsFine
<1>3. CASE p.error # "none"
  BY <1>1, <1>2, <1>3
<1>4. CASE p.error = "none" /\ p.world.state = "connected"
  BY <1>1, <1>2, <1>4, SmtpLoginIsFine DEF SmtpFine
<1>5. CASE p.error = "none" /\ p.world.state # "connected"
  BY <1>1, <1>2, <1>5 DEF SmtpFine, Smtp!Outcome, Smtp!Errors
<1>6. QED
  BY <1>3, <1>4, <1>5

-----------------------------------------------------------------------------
(* SMTP: what main() of each operation does.                               *)

LEMMA SmtpMailDoes ==
  ASSUME NEW w, SmtpOpen(w), NEW o \in Smtp!Mail(w)
  PROVE  Asked(w, [w EXCEPT !.mail = TRUE], o)
<1>1. (~w.mail /\ (w.cred => w.auth)) \in BOOLEAN
  BY DEF SmtpOpen, SmtpSound, Smtp!World
<1>2. SmtpOpen([w EXCEPT !.mail = TRUE])
  BY DEF SmtpOpen, SmtpSound, Smtp!World
<1>3. QED
  BY <1>1, <1>2, SmtpMarkedDoes DEF Smtp!Mail

LEMMA SmtpRecipientDoes ==
  ASSUME NEW w, SmtpOpen(w), NEW o \in Smtp!Recipient(w)
  PROVE  Asked(w, w, o)
<1>1. w.mail \in BOOLEAN
  BY DEF SmtpOpen, SmtpSound, Smtp!World
<1>2. QED
  BY <1>1, SmtpMarkedDoes DEF Smtp!Recipient

LEMMA SmtpDataDoes ==
  ASSUME NEW w, SmtpOpen(w), w.sent = 0, NEW o \in Smtp!Data(w)
  PROVE  Asked(w, [w EXCEPT !.mail = FALSE, !.sent = @ + 1], o)
<1>1. w.mail \in BOOLEAN
  BY DEF SmtpOpen, SmtpSound, Smtp!World
<1>2. SmtpOpen([w EXCEPT !.mail = FALSE, !.sent = @ + 1])
  <2>1. [w EXCEPT !.mail = FALSE, !.sent = @ + 1] = [w EXCEPT !.mail = FALSE, !.sent = 1]
    BY DEF SmtpOpen, SmtpSound, Smtp!World
  <2>2. SmtpOpen([w EXCEPT !.mail = FALSE, !.sent = 1])
    <3>1. w \in Smtp!World /\ 1 \in 0..2
      BY DEF SmtpOpen, SmtpSound
    <3>2. [w EXCEPT !.mail = FALSE, !.sent = 1] \in Smtp!World
      BY <3>1 DEF Smtp!World
    <3>3. QED
      BY <3>1, <3>2 DEF SmtpOpen, SmtpSound, Smtp!World
  <2>3. QED
    BY <2>1, <2>2
<1>3. QED
  BY <1>1, <1>2, SmtpMarkedDoes DEF Smtp!Data

\* What an operation that sends reports of the message.
Reported(o) ==
  /\ SmtpSound(o.world) /\ o.error \in Smtp!Errors
  /\ o.world.sent <= 1
  /\ o.error = "none" => o.world.sent = 1
  /\ o.error \in {"refused", "argument"} => o.world.sent = 0

LEMMA SmtpTransactionDoes ==
  ASSUME NEW w, SmtpOpen(w), w.sent = 0,
         NEW o \in Smtp!Then(Smtp!Mail(w),
                             LAMBDA v : Smtp!Then(Smtp!Recipient(v), Smtp!Data))
  PROVE  SmtpOpen(o.world) /\ Reported(o)
<1>1. PICK p \in Smtp!Mail(w) :
        o \in IF p.error = "none" THEN Smtp!Then(Smtp!Recipient(p.world), Smtp!Data)
              ELSE {p}
  BY DEF Smtp!Then
<1>2. SmtpOpen(p.world) /\ p.world.sent = 0 /\ p.error \in {"none", "refused", "connection"}
  <2>1. Asked(w, [w EXCEPT !.mail = TRUE], p)
    BY SmtpMailDoes
  <2>2. [w EXCEPT !.mail = TRUE].sent = 0
    BY DEF SmtpOpen, SmtpSound, Smtp!World
  <2>3. QED
    BY <2>1, <2>2 DEF Asked
<1>3. CASE p.error # "none"
  BY <1>1, <1>2, <1>3 DEF Reported, SmtpOpen, Smtp!Errors
<1>4. CASE p.error = "none"
  <2>1. PICK q \in Smtp!Recipient(p.world) :
          o \in IF q.error = "none" THEN Smtp!Data(q.world) ELSE {q}
    BY <1>1, <1>4 DEF Smtp!Then
  <2>2. SmtpOpen(q.world) /\ q.world.sent = 0
        /\ q.error \in {"none", "refused", "connection"}
    BY <1>2, SmtpRecipientDoes DEF Asked
  <2>3. CASE q.error # "none"
    BY <2>1, <2>2, <2>3 DEF Reported, SmtpOpen, Smtp!Errors
  <2>4. CASE q.error = "none"
    <3> DEFINE done == [q.world EXCEPT !.mail = FALSE, !.sent = @ + 1]
    <3>1. Asked(q.world, done, o)
      BY <2>1, <2>2, <2>4, SmtpDataDoes
    <3>2. done.sent = 1
      BY <2>2 DEF SmtpOpen, SmtpSound, Smtp!World
    <3> HIDE DEF done
    <3>3. QED
      BY <2>2, <3>1, <3>2 DEF Asked, Reported, SmtpOpen, Smtp!Errors
  <2>5. QED
    BY <2>3, <2>4
<1>5. QED
  BY <1>3, <1>4

LEMMA SmtpSendThenQuitDoes ==
  ASSUME NEW w, SmtpOpen(w), w.sent = 0, NEW o \in Smtp!SendThenQuit(w)
  PROVE  Reported(o)
<1>1. PICK p \in Smtp!Then(Smtp!Mail(w),
                           LAMBDA v : Smtp!Then(Smtp!Recipient(v), Smtp!Data)) :
        o = Smtp!Outcome(Smtp!Quit(p.world), p.error)
  BY DEF Smtp!SendThenQuit
<1>2. SmtpOpen(p.world) /\ Reported(p)
  BY SmtpTransactionDoes
<1>3. SmtpSound(Smtp!Quit(p.world)) /\ Smtp!Quit(p.world).sent = p.world.sent
  BY <1>2 DEF SmtpOpen, SmtpSound, Smtp!World, Smtp!Quit, Smtp!Lost
<1>4. QED
  BY <1>1, <1>2, <1>3 DEF Reported, Smtp!Outcome

LEMMA SmtpSendMessageDoes ==
  ASSUME NEW w, SmtpSound(w), w.sent = 0, NEW o \in Smtp!SendMessage(w)
  PROVE  Reported(o)
<1>1. CASE o = Smtp!Outcome(w, "argument")
  BY <1>1 DEF Reported, Smtp!Outcome, Smtp!Errors
<1>2. CASE o \in Smtp!Then(Smtp!LoginIfNeeded(w), Smtp!SendThenQuit)
  <2>1. PICK p \in Smtp!LoginIfNeeded(w) :
          o \in IF p.error = "none" THEN Smtp!SendThenQuit(p.world) ELSE {p}
    BY <1>2 DEF Smtp!Then
  <2>2. SmtpFine(w, p) /\ (p.error = "none" => SmtpOpen(p.world))
    BY SmtpLoginIfNeededIsFine
  <2>3. CASE p.error # "none"
    BY <2>1, <2>2, <2>3 DEF SmtpFine, Reported
  <2>4. CASE p.error = "none"
    BY <2>1, <2>2, <2>4, SmtpSendThenQuitDoes DEF SmtpFine
  <2>5. QED
    BY <2>3, <2>4
<1>3. QED
  BY <1>1, <1>2 DEF Smtp!SendMessage

LEMMA SmtpCheckAccountIsFine ==
  ASSUME NEW w, SmtpSound(w), NEW o \in Smtp!CheckAccount(w)
  PROVE  SmtpFine(w, o)
<1>1. PICK p \in Smtp!LoginIfNeeded(w) :
        o \in IF p.error = "none"
              THEN Smtp!Then(Smtp!Mail(p.world), Smtp!Recipient) ELSE {p}
  BY DEF Smtp!CheckAccount, Smtp!Then
<1>2. SmtpFine(w, p) /\ (p.error = "none" => SmtpOpen(p.world))
  BY SmtpLoginIfNeededIsFine
<1>3. CASE p.error # "none"
  BY <1>1, <1>2, <1>3
<1>4. CASE p.error = "none"
  <2>1. PICK q \in Smtp!Mail(p.world) :
          o \in IF q.error = "none" THEN Smtp!Recipient(q.world) ELSE {q}
    BY <1>1, <1>4 DEF Smtp!Then
  <2>2. SmtpOpen(q.world) /\ q.world.sent = w.sent
        /\ q.error \in {"none", "refused", "connection"}
    <3>1. Asked(p.world, [p.world EXCEPT !.mail = TRUE], q)
      BY <1>2, <1>4, SmtpMailDoes
    <3>2. [p.world EXCEPT !.mail = TRUE].sent = p.world.sent
      BY <1>2 DEF SmtpFine, SmtpSound, Smtp!World
    <3>3. QED
      BY <1>2, <3>1, <3>2 DEF Asked, SmtpFine
  <2>3. CASE q.error # "none"
    BY <2>1, <2>2, <2>3 DEF SmtpFine, SmtpOpen, Smtp!Errors
  <2>4. CASE q.error = "none"
    BY <2>1, <2>2, <2>4, SmtpRecipientDoes DEF Asked, SmtpFine, SmtpOpen, Smtp!Errors
  <2>5. QED
    BY <2>3, <2>4
<1>5. QED
  BY <1>3, <1>4

LEMMA SmtpNoopIsFine ==
  ASSUME NEW w, SmtpSound(w), NEW o \in Smtp!Noop(w)
  PROVE  SmtpFine(w, o)
<1>1. CASE w.stream = "none"
  <2>1. PICK e \in Smtp!Errors : o = Smtp!Outcome(w, e)
    BY <1>1 DEF Smtp!Noop
  <2>2. QED
    BY <2>1 DEF SmtpFine, Smtp!Outcome
<1>2. CASE w.stream # "none"
  <2>1. PICK p \in Smtp!LoginIfNeeded(w) :
          o \in IF p.error = "none"
                THEN {IF q.error = "refused" THEN Smtp!Outcome(q.world, "none") ELSE q :
                        q \in Smtp!Ask(p.world, TRUE, p.world)}
                ELSE {p}
    BY <1>2 DEF Smtp!Noop, Smtp!Then
  <2>2. SmtpFine(w, p) /\ (p.error = "none" => SmtpOpen(p.world))
    BY SmtpLoginIfNeededIsFine
  <2>3. CASE p.error # "none"
    BY <2>1, <2>2, <2>3
  <2>4. CASE p.error = "none"
    <3>1. PICK q \in Smtp!Ask(p.world, TRUE, p.world) :
            o = IF q.error = "refused" THEN Smtp!Outcome(q.world, "none") ELSE q
      BY <2>1, <2>4
    <3>2. Asked(p.world, p.world, q)
      BY <2>2, <2>4, SmtpAskDoes
    <3>3. QED
      BY <2>2, <3>1, <3>2 DEF Asked, SmtpFine, SmtpOpen, Smtp!Outcome, Smtp!Errors
  <2>5. QED
    BY <2>3, <2>4
<1>3. QED
  BY <1>1, <1>2

-----------------------------------------------------------------------------
(* SMTP: the invariant.                                                    *)

SmtpIInv == Smtp!TypeOK /\ Smtp!SentAsReported

LEMMA SmtpInitIInv == Smtp!Init => SmtpIInv
  BY DEF Smtp!Init, SmtpIInv, Smtp!TypeOK, Smtp!SentAsReported, Smtp!World,
         Smtp!Kinds, Smtp!Errors

LEMMA SmtpRunStep ==
  ASSUME SmtpIInv, NEW kind \in Smtp!Kinds, Smtp!Run(kind)
  PROVE  SmtpIInv'
<1> DEFINE w == [smtpWorld EXCEPT !.sent = 0]
<1>1. PICK o \in Smtp!Main(kind, w) :
        smtpWorld' = o.world /\ smtpLast' = [kind |-> kind, error |-> o.error]
  BY DEF Smtp!Run
<1>2. SmtpSound(w) /\ w.sent = 0
  BY DEF SmtpIInv, Smtp!TypeOK, SmtpSound, Smtp!World
<1> HIDE DEF w
<1>3. ASSUME kind # "send" PROVE SmtpFine(w, o)
  <2>1. CASE kind = "check"
    BY <1>1, <1>2, <2>1, SmtpCheckAccountIsFine DEF Smtp!Main
  <2>2. CASE kind = "noop"
    BY <1>1, <1>2, <2>2, SmtpNoopIsFine DEF Smtp!Main
  <2>3. CASE kind = "disconnect"
    <3>1. o = Smtp!Outcome(Smtp!Disconnect(w), "none")
      BY <1>1, <2>3 DEF Smtp!Main
    <3>2. SmtpSound(Smtp!Disconnect(w)) /\ Smtp!Disconnect(w).sent = 0
      BY <1>2 DEF SmtpSound, Smtp!World, Smtp!Disconnect, Smtp!Unsetup, Smtp!Lost
    <3>3. QED
      BY <1>2, <3>1, <3>2 DEF SmtpFine, Smtp!Outcome, Smtp!Errors
  <2>4. QED
    BY <1>3, <2>1, <2>2, <2>3 DEF Smtp!Kinds
<1>4. kind = "send" => Reported(o)
  BY <1>1, <1>2, SmtpSendMessageDoes DEF Smtp!Main
<1>5. SmtpSound(o.world) /\ o.error \in Smtp!Errors
  BY <1>3, <1>4 DEF SmtpFine, Reported
<1>6. Smtp!TypeOK'
  BY <1>1, <1>5 DEF Smtp!TypeOK, SmtpSound
<1>7. Smtp!SentAsReported'
  BY <1>1, <1>2, <1>3, <1>4 DEF Smtp!SentAsReported, SmtpFine, Reported
<1>8. QED
  BY <1>6, <1>7 DEF SmtpIInv

LEMMA SmtpOtherStep ==
  ASSUME SmtpIInv, Smtp!ConnectionDrops \/ Smtp!BecomesCalm \/ UNCHANGED smtpVars
  PROVE  SmtpIInv'
<1>1. CASE Smtp!ConnectionDrops
  BY <1>1 DEF Smtp!ConnectionDrops, Smtp!Lost, SmtpIInv, Smtp!TypeOK, Smtp!World,
              Smtp!SentAsReported
<1>2. CASE Smtp!BecomesCalm
  BY <1>2 DEF Smtp!BecomesCalm, SmtpIInv, Smtp!TypeOK, Smtp!World, Smtp!SentAsReported
<1>3. CASE UNCHANGED smtpVars
  BY <1>3 DEF smtpVars, SmtpIInv, Smtp!TypeOK, Smtp!World, Smtp!SentAsReported
<1>4. QED
  BY <1>1, <1>2, <1>3
=============================================================================
