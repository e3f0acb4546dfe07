-------------------------- MODULE IMAPSessionProofs --------------------------
(***************************************************************************)
(* Proofs about IMAPSession, for any number of folders and any choice of   *)
(* operations, when every reply of the server can be parsed.               *)
(***************************************************************************)
EXTENDS IMAPSession, TLAPS

\* The session is right about the server, and selected only in a folder.
Sound(w) ==
  /\ w \in World
  /\ w.state = "selected" => w.folder # NoFolder
  /\ w.live =>
       /\ w.state # "disconnected"
       /\ w.auth <=> w.state \in {"loggedin", "selected"}
       /\ w.state = "selected" => w.box = w.folder
       /\ w.state # "selected" => w.box = NoFolder

\* An outcome of a call that sends no command to a folder.
Fine(w, o) ==
  /\ Sound(o.world) /\ o.world.hit = w.hit
  /\ o.error \in Errors \cup Fatal

\* The connection is lost, and marked for disconnection.
Dropped(w) == [Lost(w) EXCEPT !.drop = TRUE]

-----------------------------------------------------------------------------
(* What the server does.                                                   *)

LEMMA ExchangeOutcome ==
  ASSUME NEW w, NEW legal \in BOOLEAN, NEW done, NEW refused, NEW lost,
         Unparsable = {}, NEW o \in Exchange(w, legal, done, refused, lost)
  PROVE  \/ o = Outcome(done, "none") /\ legal /\ w.live
         \/ o = Outcome(refused, "refused") /\ w.live
         \/ o = Outcome(lost, "connection")
<1>1. PICK r \in Replies(w, legal) :
        o \in CASE r = "none"       -> {Outcome(done, r)}
                [] r = "refused"    -> {Outcome(refused, r)}
                [] r = "parse"      -> {Outcome(v, r) : v \in {refused} \cup
                                                  (IF legal THEN {done} ELSE {})}
                [] r = "connection" -> {Outcome(lost, r)}
  BY DEF Exchange
<1>2. /\ r \in {"none", "refused", "connection"}
      /\ r = "none" => legal /\ w.live
      /\ r = "refused" => w.live
  BY DEF Replies
<1>3. CASE r = "none"
  BY <1>1, <1>2, <1>3
<1>4. CASE r = "refused"
  BY <1>1, <1>2, <1>4
<1>5. CASE r = "connection"
  BY <1>1, <1>5
<1>6. QED
  BY <1>2, <1>3, <1>4, <1>5

LEMMA SendOutcome ==
  ASSUME NEW w, NEW legal \in BOOLEAN, NEW done, NEW refused,
         Unparsable = {}, NEW o \in Send(w, legal, done, refused)
  PROVE  \/ o = Outcome(done, "none") /\ legal /\ w.live
         \/ o = Outcome(refused, "refused") /\ w.live
         \/ o = Outcome(Dropped(w), "connection")
<1>1. o \in Exchange(w, legal, done, refused, Dropped(w))
  BY DEF Send, Dropped
<1>2. QED
  BY <1>1, ExchangeOutcome

LEMMA LostIsSound ==
  ASSUME NEW w \in World, w.state = "selected" => w.folder # NoFolder
  PROVE  /\ Sound(Dropped(w)) /\ Sound(Lost(w))
         /\ Sound(Unsetup(w))
         /\ Dropped(w).hit = w.hit
         /\ Lost(w).hit = w.hit /\ Unsetup(w).hit = w.hit
         /\ Unsetup(w).state = "disconnected"
  BY DEF Sound, Dropped, Lost, Unsetup, World, States

LEMMA AskIsFine ==
  ASSUME NEW w, Sound(w), NEW legal \in BOOLEAN, Unparsable = {},
         NEW o \in Ask(w, legal)
  PROVE  Fine(w, o) /\ o.error \in Errors /\ (o.error = "none" => o.world = w)
<1>1. o \in Send(w, legal, w, w)
  BY DEF Ask
<1>2. \/ o = Outcome(w, "none") \/ o = Outcome(w, "refused")
      \/ o = Outcome(Dropped(w), "connection")
  BY <1>1, SendOutcome
<1>3. Sound(Dropped(w)) /\ Dropped(w).hit = w.hit
  BY LostIsSound DEF Sound
<1>4. QED
  BY <1>2, <1>3 DEF Fine, Outcome, Errors

-----------------------------------------------------------------------------
(* Connecting and logging in.                                              *)

LEMMA ConnectIsFine ==
  ASSUME NEW w, Sound(w), Unparsable = {}, NEW o \in Connect(w)
  PROVE  Fine(w, o) /\ (o.error = "none" => o.world.state # "disconnected")
<1>1. Sound(Greeted(w)) /\ Greeted(w).hit = w.hit /\ Greeted(w).state = "connected"
  BY DEF Sound, Greeted, World, States
<1>2. Sound(Unsetup(w)) /\ Unsetup(w).hit = w.hit
  BY LostIsSound DEF Sound
<1>3. CASE w.state # "disconnected"
  BY <1>3 DEF Connect, Outcome, Fine, Fatal
<1>4. ASSUME w.state = "disconnected", NEW p \in Ask(Greeted(w), TRUE),
             o = IF p.error = "none" THEN p ELSE Outcome(Unsetup(p.world), p.error)
      PROVE  Fine(w, o) /\ (o.error = "none" => o.world.state # "disconnected")
  <2>1. Fine(Greeted(w), p) /\ (p.error = "none" => p.world = Greeted(w))
    BY <1>1, <1>4, AskIsFine
  <2>2. Sound(Unsetup(p.world)) /\ Unsetup(p.world).hit = w.hit
    BY <1>1, <2>1, LostIsSound DEF Fine, Sound
  <2>3. QED
    BY <1>1, <1>4, <2>1, <2>2 DEF Fine, Outcome
<1>5. ASSUME o = Outcome(Greeted(w), "none") \/ o = Outcome(w, "connection")
      PROVE  Fine(w, o) /\ (o.error = "none" => o.world.state # "disconnected")
  BY <1>1, <1>5 DEF Fine, Outcome, Errors
<1>6. QED
  BY <1>3, <1>4, <1>5 DEF Connect

LEMMA ConnectIfNeededIsFine ==
  ASSUME NEW w, Sound(w), Unparsable = {}, NEW o \in ConnectIfNeeded(w)
  PROVE  Fine(w, o) /\ (o.error = "none" => o.world.state # "disconnected")
<1> DEFINE v == ReconnectDropped(w)
<1>1. Sound(v) /\ v.hit = w.hit
  <2>1. Sound(Unsetup(w)) /\ Unsetup(w).hit = w.hit
    BY LostIsSound DEF Sound
  <2>2. ASSUME NEW u, Sound(u)
        PROVE  Sound([u EXCEPT !.drop = FALSE]) /\ [u EXCEPT !.drop = FALSE].hit = u.hit
    <3> DEFINE d == [u EXCEPT !.drop = FALSE]
    <3>1. /\ d \in World /\ d.state = u.state /\ d.folder = u.folder
          /\ d.live = u.live /\ d.auth = u.auth /\ d.box = u.box /\ d.hit = u.hit
      BY <2>2 DEF World, Sound
    <3> HIDE DEF d
    <3>2. Sound(d) /\ d.hit = u.hit
      BY <2>2, <3>1, Zenon DEF Sound
    <3>3. QED
      BY <3>2 DEF d
  <2>3. QED
    BY <2>1, <2>2, Zenon DEF ReconnectDropped
<1>2. o \in IF v.state = "disconnected" THEN Connect(v) ELSE {Outcome(v, "none")}
  BY DEF ConnectIfNeeded
<1> HIDE DEF v
<1>3. CASE v.state = "disconnected"
  BY <1>1, <1>2, <1>3, ConnectIsFine DEF Fine
<1>4. CASE v.state # "disconnected"
  BY <1>1, <1>2, <1>4 DEF Fine, Outcome, Errors
<1>5. QED
  BY <1>3, <1>4

LEMMA NamespaceIsFine ==
  ASSUME NEW w, Sound(w), Unparsable = {}, NEW o \in Namespace(w)
  PROVE  Fine(w, o) /\ (o.error = "none" => o.world.state = w.state)
<1> DEFINE known == [w EXCEPT !.space = TRUE, !.delim = TRUE]
<1>1. Sound(known) /\ known.hit = w.hit /\ known.state = w.state
  BY DEF Sound, World
<1>2. w.auth \in BOOLEAN
  BY DEF Sound, World
<1>3. o \in Send(w, w.auth, known, w) \cup Exchange(w, w.auth, known, w, Lost(w))
  BY DEF Namespace
<1> HIDE DEF known
<1>4. \/ o = Outcome(known, "none") \/ o = Outcome(w, "refused")
      \/ o = Outcome(Dropped(w), "connection") \/ o = Outcome(Lost(w), "connection")
  BY <1>2, <1>3, SendOutcome, ExchangeOutcome
<1>5. /\ Sound(Dropped(w)) /\ Dropped(w).hit = w.hit
      /\ Sound(Lost(w)) /\ Lost(w).hit = w.hit
  BY LostIsSound DEF Sound
<1>6. QED
  BY <1>1, <1>4, <1>5 DEF Fine, Outcome, Errors

LEMMA ConfigureIsFine ==
  ASSUME NEW w, Sound(w), Unparsable = {}, NEW o \in Configure(w)
  PROVE  Fine(w, o) /\ (o.error = "none" => o.world.state = w.state)
<1>1. PICK p \in Ask(w, TRUE) :
        IF p.error = "none"
        THEN o \in Then(Namespace(p.world), LAMBDA u : Ask(u, TRUE))
        ELSE o = p
  BY DEF Configure, Then
<1>2. Fine(w, p) /\ (p.error = "none" => p.world = w)
  BY AskIsFine
<1>3. CASE p.error = "none"
  <2>1. o \in Then(Namespace(w), LAMBDA u : Ask(u, TRUE))
    BY <1>1, <1>2, <1>3
  <2>2. PICK q \in Namespace(w) :
          IF q.error = "none" THEN o \in Ask(q.world, TRUE) ELSE o = q
    BY <2>1 DEF Then
  <2>3. Fine(w, q) /\ (q.error = "none" => q.world.state = w.state)
    BY NamespaceIsFine
  <2>4. q.error = "none" => Fine(q.world, o) /\ (o.error = "none" => o.world = q.world)
    BY <2>2, <2>3, AskIsFine DEF Fine
  <2>5. QED
    BY <2>2, <2>3, <2>4 DEF Fine
<1>4. CASE p.error # "none"
  BY <1>1, <1>2, <1>4
<1>5. QED
  BY <1>3, <1>4

LEMMA LoginIsFine ==
  ASSUME NEW w, Sound(w), Unparsable = {}, NEW o \in Login(w)
  PROVE  Fine(w, o) /\ (o.error = "none" => o.world.state = "loggedin")
<1>1. CASE w.state # "connected"
  BY <1>1 DEF Login, Fine, Outcome, Fatal
<1>2. CASE w.state = "connected"
  <2> DEFINE v == [w EXCEPT !.auth = TRUE]
             u == [v EXCEPT !.state = "loggedin"]
  <2>1. (~w.auth) \in BOOLEAN
    BY Zenon
  <2>2. PICK p \in Send(w, ~w.auth, v, w) :
          IF p.error = "none"
          THEN o \in Configure([p.world EXCEPT !.state = "loggedin"])
          ELSE o = p
    BY <1>2 DEF Login, Then
  <2>3. Sound(u) /\ u.hit = w.hit /\ u.state = "loggedin"
    BY <1>2 DEF Sound, World, States
  <2> HIDE DEF v
  <2>4. \/ p = Outcome(v, "none") \/ p = Outcome(w, "refused")
        \/ p = Outcome(Dropped(w), "connection")
    BY <2>1, <2>2, SendOutcome
  <2>5. CASE p = Outcome(v, "none")
    <3>1. o \in Configure(u)
      BY <2>2, <2>5 DEF Outcome
    <3> HIDE DEF u
    <3>2. Fine(u, o) /\ (o.error = "none" => o.world.state = u.state)
      BY <2>3, <3>1, ConfigureIsFine
    <3>3. QED
      BY <2>3, <3>2 DEF Fine
  <2>6. CASE p = Outcome(w, "refused") \/ p = Outcome(Dropped(w), "connection")
    <3>1. Sound(Dropped(w)) /\ Dropped(w).hit = w.hit
      BY LostIsSound DEF Sound
    <3>2. QED
      BY <2>2, <2>6, <3>1 DEF Fine, Outcome, Errors
  <2>7. QED
    BY <2>4, <2>5, <2>6
<1>3. QED
  BY <1>1, <1>2

LEMMA LoginIfNeededIsFine ==
  ASSUME NEW w, Sound(w), Unparsable = {}, NEW o \in LoginIfNeeded(w)
  PROVE  /\ Fine(w, o)
         /\ o.error = "none" => o.world.state \in {"loggedin", "selected"}
<1>1. PICK p \in ConnectIfNeeded(w) :
        IF p.error = "none"
        THEN o \in IF p.world.state = "connected" THEN Login(p.world)
                   ELSE {Outcome(p.world, "none")}
        ELSE o = p
  BY DEF LoginIfNeeded, Then
<1>2. Fine(w, p) /\ (p.error = "none" => p.world.state # "disconnected")
  BY ConnectIfNeededIsFine
<1>3. CASE p.error # "none"
  BY <1>1, <1>2, <1>3
<1>4. CASE p.error = "none" /\ p.world.state = "connected"
  <2>1. Fine(p.world, o) /\ (o.error = "none" => o.world.state = "loggedin")
    BY <1>1, <1>2, <1>4, LoginIsFine DEF Fine
  <2>2. QED
    BY <1>2, <2>1 DEF Fine
<1>5. CASE p.error = "none" /\ p.world.state # "connected"
  BY <1>1, <1>2, <1>5 DEF Fine, Outcome, Sound, World, States, Errors
<1>6. QED
  BY <1>3, <1>4, <1>5

-----------------------------------------------------------------------------
(* Selecting a folder.                                                     *)

LEMMA SelectIsFine ==
  ASSUME NEW w, Sound(w), Unparsable = {}, NEW f \in Folders, NEW o \in Select(w, f)
  PROVE  /\ Fine(w, o)
         /\ o.error = "none" => o.world.state = "selected" /\ o.world.folder = f
<1>1. CASE w.state \notin {"loggedin", "selected"}
  BY <1>1 DEF Select, Fine, Outcome, Fatal
<1>2. CASE w.state \in {"loggedin", "selected"}
  <2> DEFINE done == [w EXCEPT !.box = f]
             refused == [w EXCEPT !.box = NoFolder]
             selected == [done EXCEPT !.state = "selected", !.folder = f]
             back == [w EXCEPT !.box = NoFolder, !.state = "loggedin",
                               !.folder = NoFolder]
  <2>1. PICK p \in Send(w, w.auth, done, refused) :
          o = CASE p.error = "none" ->
                     Outcome([p.world EXCEPT !.state = "selected", !.folder = f], "none")
                [] p.error = "refused" -> Outcome(back, "refused")
                [] OTHER -> p
    BY <1>2 DEF Select, SelectThen
  <2>2. w.auth \in BOOLEAN
    BY DEF Sound, World
  <2>3. /\ Sound(back) /\ back.hit = w.hit
        /\ w.live /\ w.auth => Sound(selected)
        /\ selected.hit = w.hit /\ selected.state = "selected" /\ selected.folder = f
    BY <1>2, SessionAssumption DEF Sound, World, States
  <2>4. Sound(Dropped(w)) /\ Dropped(w).hit = w.hit
    BY LostIsSound DEF Sound
  <2> HIDE DEF done, refused, back
  <2>5. \/ p = Outcome(done, "none") /\ w.auth /\ w.live
        \/ p = Outcome(refused, "refused")
        \/ p = Outcome(Dropped(w), "connection")
    BY <2>1, <2>2, SendOutcome
  <2>6. CASE p = Outcome(done, "none") /\ w.auth /\ w.live
    <3>1. o = Outcome(selected, "none")
      BY <2>1, <2>6 DEF Outcome
    <3> HIDE DEF selected
    <3>2. QED
      BY <2>3, <2>6, <3>1 DEF Fine, Outcome, Errors
  <2>7. CASE p = Outcome(refused, "refused")
    <3>1. o = Outcome(back, "refused")
      BY <2>1, <2>7 DEF Outcome
    <3>2. QED
      BY <2>3, <3>1 DEF Fine, Outcome, Errors
  <2>8. CASE p = Outcome(Dropped(w), "connection")
    <3>1. o = p
      BY <2>1, <2>8 DEF Outcome
    <3>2. QED
      BY <2>4, <2>8, <3>1 DEF Fine, Outcome, Errors
  <2>9. QED
    BY <2>5, <2>6, <2>7, <2>8
<1>3. QED
  BY <1>1, <1>2

LEMMA SelectIfNeededIsFine ==
  ASSUME NEW w, Sound(w), Unparsable = {}, NEW f \in Folders,
         NEW o \in SelectIfNeeded(w, f)
  PROVE  /\ Fine(w, o)
         /\ o.error = "none" => o.world.state = "selected" /\ o.world.folder = f
<1>1. PICK p \in LoginIfNeeded(w) :
        IF p.error = "none"
        THEN o \in IF \/ p.world.state = "loggedin"
                      \/ p.world.state = "selected" /\ p.world.folder # f
                   THEN Select(p.world, f) ELSE {Outcome(p.world, "none")}
        ELSE o = p
  BY DEF SelectIfNeeded, Then
<1>2. /\ Fine(w, p)
      /\ p.error = "none" => p.world.state \in {"loggedin", "selected"}
  BY LoginIfNeededIsFine
<1>3. CASE p.error # "none"
  BY <1>1, <1>2, <1>3
<1>4. CASE p.error = "none" /\ (p.world.state = "loggedin" \/ p.world.folder # f)
  <2>1. /\ Fine(p.world, o)
        /\ o.error = "none" => o.world.state = "selected" /\ o.world.folder = f
    BY <1>1, <1>2, <1>4, SelectIsFine DEF Fine
  <2>2. QED
    BY <1>2, <2>1 DEF Fine
<1>5. CASE p.error = "none" /\ p.world.state = "selected" /\ p.world.folder = f
  BY <1>1, <1>2, <1>5 DEF Fine, Outcome, Errors
<1>6. QED
  BY <1>2, <1>3, <1>4, <1>5

-----------------------------------------------------------------------------
(* main() of the operations.                                               *)

LEMMA AskAfterConnect ==
  ASSUME NEW w, Sound(w), Unparsable = {}, NEW o \in AskConnected(w)
  PROVE  Fine(w, o)
<1>1. PICK p \in ConnectIfNeeded(w) :
        IF p.error = "none" THEN o \in Ask(p.world, TRUE) ELSE o = p
  BY DEF AskConnected, Then
<1>2. Fine(w, p)
  BY ConnectIfNeededIsFine
<1>3. p.error = "none" => Fine(p.world, o)
  BY <1>1, <1>2, AskIsFine DEF Fine
<1>4. QED
  BY <1>1, <1>2, <1>3 DEF Fine

LEMMA CheckIsFine ==
  ASSUME NEW w, Sound(w), Unparsable = {}, NEW o \in CheckAccount(w)
  PROVE  Fine(w, o)
<1>1. PICK p \in ConnectIfNeeded(w) :
        IF p.error = "none" THEN o \in Login(p.world) ELSE o = p
  BY DEF CheckAccount, Then
<1>2. Fine(w, p)
  BY ConnectIfNeededIsFine
<1>3. p.error = "none" => Fine(p.world, o)
  BY <1>1, <1>2, LoginIsFine DEF Fine
<1>4. QED
  BY <1>1, <1>2, <1>3 DEF Fine

LEMMA AskLoggedInIsFine ==
  ASSUME NEW w, Sound(w), Unparsable = {}, NEW o \in AskLoggedIn(w)
  PROVE  Fine(w, o)
<1>1. PICK p \in LoginIfNeeded(w) :
        IF p.error = "none" THEN o \in Ask(p.world, p.world.auth) ELSE o = p
  BY DEF AskLoggedIn, Then
<1>2. Fine(w, p)
  BY LoginIfNeededIsFine
<1>3. p.error = "none" => Fine(p.world, o)
  BY <1>1, <1>2, AskIsFine DEF Fine, Sound, World
<1>4. QED
  BY <1>1, <1>2, <1>3 DEF Fine

LEMMA CapabilityIsFine ==
  ASSUME NEW w, Sound(w), Unparsable = {}, NEW o \in Capability(w)
  PROVE  Fine(w, o)
<1>1. PICK p \in LoginIfNeeded(w) :
        IF p.error = "none" THEN o \in AskConnected(p.world) ELSE o = p
  BY DEF Capability, Then
<1>2. Fine(w, p)
  BY LoginIfNeededIsFine
<1>3. p.error = "none" => Fine(p.world, o)
  BY <1>1, <1>2, AskAfterConnect DEF Fine
<1>4. QED
  BY <1>1, <1>2, <1>3 DEF Fine

LEMMA NoopIsFine ==
  ASSUME NEW w, Sound(w), Unparsable = {}, NEW o \in Noop(w)
  PROVE  Fine(w, o)
<1>1. CASE w.state = "disconnected"
  <2>1. PICK e \in Errors : o = Outcome(w, e)
    BY <1>1 DEF Noop
  <2>2. QED
    BY <2>1 DEF Fine, Outcome
<1>2. CASE w.state # "disconnected"
  <2>1. PICK p \in LoginIfNeeded(w) :
          IF p.error = "none"
          THEN o \in {IF q.error = "parse" THEN Outcome(q.world, "none") ELSE q :
                        q \in Exchange(p.world, p.world.auth, p.world, p.world,
                                       Lost(p.world))}
          ELSE o = p
    BY <1>2 DEF Noop, Then
  <2>2. Fine(w, p)
    BY LoginIfNeededIsFine
  <2>3. ASSUME p.error = "none" PROVE Fine(p.world, o)
    <3>1. PICK q \in Exchange(p.world, p.world.auth, p.world, p.world, Lost(p.world)) :
            o = IF q.error = "parse" THEN Outcome(q.world, "none") ELSE q
      BY <2>1, <2>3
    <3>2. \/ q = Outcome(p.world, "none") \/ q = Outcome(p.world, "refused")
          \/ q = Outcome(Lost(p.world), "connection")
      BY <2>2, <3>1, ExchangeOutcome DEF Fine, Sound, World
    <3>3. Sound(Lost(p.world)) /\ Lost(p.world).hit = p.world.hit
      BY <2>2, LostIsSound DEF Fine, Sound
    <3>4. QED
      BY <2>2, <3>1, <3>2, <3>3 DEF Fine, Outcome, Errors
  <2>4. QED
    BY <2>1, <2>2, <2>3 DEF Fine
<1>3. QED
  BY <1>1, <1>2

LEMMA QuotaIsFine ==
  ASSUME NEW w, Sound(w), Unparsable = {}, NEW o \in Quota(w)
  PROVE  Fine(w, o)
<1>1. w.auth \in BOOLEAN
  BY DEF Sound, World
<1>2. CASE w.state = "disconnected"
  BY <1>2 DEF Quota, Fine, Outcome, Fatal
<1>3. CASE w.state # "disconnected"
  BY <1>1, <1>3, AskIsFine DEF Quota
<1>4. QED
  BY <1>2, <1>3

LEMMA DelimiterIsFine ==
  ASSUME NEW w, Sound(w), Unparsable = {}, NEW o \in Delimiter(w)
  PROVE  Fine(w, o)
<1> DEFINE known == [w EXCEPT !.delim = TRUE]
<1>1. CASE w.delim
  BY <1>1 DEF Delimiter, Fine, Outcome, Errors
<1>2. CASE ~w.delim
  <2>1. o \in Send(w, w.auth, known, w) /\ w.auth \in BOOLEAN
    BY <1>2 DEF Delimiter, Sound, World
  <2>2. Sound(known) /\ known.hit = w.hit
    BY DEF Sound, World
  <2> HIDE DEF known
  <2>3. \/ o = Outcome(known, "none") \/ o = Outcome(w, "refused")
        \/ o = Outcome(Dropped(w), "connection")
    BY <2>1, SendOutcome
  <2>4. Sound(Dropped(w)) /\ Dropped(w).hit = w.hit
    BY LostIsSound DEF Sound
  <2>5. QED
    BY <2>2, <2>3, <2>4 DEF Fine, Outcome, Errors
<1>3. QED
  BY <1>1, <1>2

\* What fetchAllFolders() and fetchSubscribedFolders() begin with.
LEMMA WithDelimiter ==
  ASSUME NEW w, Sound(w), Unparsable = {}, NEW p \in LoginIfNeeded(w),
         p.error = "none", NEW q \in Delimiter(p.world)
  PROVE  Fine(w, q)
<1>1. Fine(w, p)
  BY LoginIfNeededIsFine
<1>2. Fine(p.world, q)
  BY <1>1, DelimiterIsFine DEF Fine
<1>3. QED
  BY <1>1, <1>2 DEF Fine

LEMMA FoldersIsFine ==
  ASSUME NEW w, Sound(w), Unparsable = {}, NEW o \in FetchAllFolders(w)
  PROVE  Fine(w, o)
<1> DEFINE List(u) ==
      UNION {IF a.error = "none" THEN {a} \cup Ask(a.world, a.world.auth)
             ELSE {IF b.error = "none" THEN Outcome(b.world, "null") ELSE b :
                     b \in Ask(a.world, a.world.auth)}
             : a \in Ask(u, u.auth)}
<1>1. PICK p \in LoginIfNeeded(w) :
        IF p.error = "none" THEN o \in Then(Delimiter(p.world), LAMBDA u : List(u))
        ELSE o = p
  BY DEF FetchAllFolders, Then
<1>2. ASSUME NEW u, Sound(u), o \in List(u) PROVE Fine(u, o)
  <2>1. PICK a \in Ask(u, u.auth) :
          o \in IF a.error = "none" THEN {a} \cup Ask(a.world, a.world.auth)
                ELSE {IF b.error = "none" THEN Outcome(b.world, "null") ELSE b :
                        b \in Ask(a.world, a.world.auth)}
    BY <1>2
  <2>2. Fine(u, a)
    BY <1>2, AskIsFine DEF Sound, World
  <2>3. \A b \in Ask(a.world, a.world.auth) : Fine(u, b)
    <3>1. \A b \in Ask(a.world, a.world.auth) : Fine(a.world, b)
      BY <2>2, AskIsFine DEF Fine, Sound, World
    <3>2. QED
      BY <2>2, <3>1 DEF Fine
  <2>4. QED
    BY <2>1, <2>2, <2>3 DEF Fine, Outcome, Fatal
<1> HIDE DEF List
<1>3. CASE p.error = "none"
  <2>1. PICK q \in Delimiter(p.world) :
          IF q.error = "none" THEN o \in List(q.world) ELSE o = q
    BY <1>1, <1>3 DEF Then
  <2>2. Fine(w, q)
    BY <1>3, WithDelimiter
  <2>3. q.error = "none" => Fine(q.world, o)
    BY <1>2, <2>1, <2>2 DEF Fine
  <2>4. QED
    BY <2>1, <2>2, <2>3 DEF Fine
<1>4. CASE p.error # "none"
  BY <1>1, <1>4, LoginIfNeededIsFine
<1>5. QED
  BY <1>3, <1>4

LEMMA SubscribedIsFine ==
  ASSUME NEW w, Sound(w), Unparsable = {}, NEW o \in FetchSubscribedFolders(w)
  PROVE  Fine(w, o)
<1>1. PICK p \in LoginIfNeeded(w) :
        IF p.error = "none"
        THEN o \in Then(Delimiter(p.world), LAMBDA u :
                     IF u.space THEN Ask(u, u.auth) ELSE {Outcome(u, "null")})
        ELSE o = p
  BY DEF FetchSubscribedFolders, Then
<1>2. CASE p.error = "none"
  <2>1. PICK q \in Delimiter(p.world) :
          IF q.error = "none"
          THEN o \in IF q.world.space THEN Ask(q.world, q.world.auth)
                     ELSE {Outcome(q.world, "null")}
          ELSE o = q
    BY <1>1, <1>2 DEF Then
  <2>2. Fine(w, q)
    BY <1>2, WithDelimiter
  <2>3. CASE q.error = "none" /\ q.world.space
    <3>1. Fine(q.world, o)
      BY <2>1, <2>2, <2>3, AskIsFine DEF Fine, Sound, World
    <3>2. QED
      BY <2>2, <3>1 DEF Fine
  <2>4. CASE q.error = "none" /\ ~q.world.space
    BY <2>1, <2>2, <2>4 DEF Fine, Outcome, Fatal
  <2>5. CASE q.error # "none"
    BY <2>1, <2>2, <2>5
  <2>6. QED
    BY <2>3, <2>4, <2>5
<1>3. CASE p.error # "none"
  BY <1>1, <1>3, LoginIfNeededIsFine
<1>4. QED
  BY <1>2, <1>3

LEMMA InfoIsFine ==
  ASSUME NEW w, Sound(w), Unparsable = {}, NEW f \in Folders,
         NEW o \in FolderInfo(w, f)
  PROVE  Fine(w, o)
<1>1. PICK p \in LoginIfNeeded(w) :
        IF p.error = "none" THEN o \in Select(p.world, f) ELSE o = p
  BY DEF FolderInfo, Then
<1>2. Fine(w, p)
  BY LoginIfNeededIsFine
<1>3. p.error = "none" => Fine(p.world, o)
  BY <1>1, <1>2, SelectIsFine DEF Fine
<1>4. QED
  BY <1>1, <1>2, <1>3 DEF Fine

LEMMA ManageIsFine ==
  ASSUME NEW w, Sound(w), Unparsable = {}, NEW o \in ManageFolder(w)
  PROVE  Fine(w, o)
<1>1. PICK p \in SelectIfNeeded(w, Inbox) :
        IF p.error = "none" THEN o \in Ask(p.world, p.world.auth) ELSE o = p
  BY DEF ManageFolder, Then
<1>2. Fine(w, p)
  BY SessionAssumption, SelectIfNeededIsFine
<1>3. p.error = "none" => Fine(p.world, o)
  BY <1>1, <1>2, AskIsFine DEF Fine, Sound, World
<1>4. QED
  BY <1>1, <1>2, <1>3 DEF Fine

LEMMA CreateIsFine ==
  ASSUME NEW w, Sound(w), Unparsable = {}, NEW o \in CreateFolder(w)
  PROVE  Fine(w, o)
<1>1. PICK p \in ManageFolder(w) :
        IF p.error = "none" THEN o \in ManageFolder(p.world) ELSE o = p
  BY DEF CreateFolder, Then
<1>2. Fine(w, p)
  BY ManageIsFine
<1>3. p.error = "none" => Fine(p.world, o)
  BY <1>1, <1>2, ManageIsFine DEF Fine
<1>4. QED
  BY <1>1, <1>2, <1>3 DEF Fine

\* A command on messages, sent in the folder the session has selected, is
\* obeyed there, or nowhere and reported as failed.
ObeyedIn(f, w, o) ==
  /\ Sound(o.world) /\ o.error \in Errors \cup Fatal
  /\ o.world.hit \in {w.hit, f}
  /\ o.error = "none" => o.world.hit = f

LEMMA ObeyHitsFolder ==
  ASSUME NEW w, Sound(w), Unparsable = {}, NEW f \in Folders,
         w.state = "selected", w.folder = f, NEW o \in Obey(w)
  PROVE  ObeyedIn(f, w, o)
<1> DEFINE done == [w EXCEPT !.hit = w.box]
           legal == w.box # NoFolder
<1>1. o \in Send(w, legal, done, w) /\ legal \in BOOLEAN
  BY DEF Obey
<1>2. w.live => Sound(done) /\ done.hit = f
  BY DEF Sound, World
<1> HIDE DEF done, legal
<1>3. \/ o = Outcome(done, "none") /\ w.live
      \/ o = Outcome(w, "refused") \/ o = Outcome(Dropped(w), "connection")
  BY <1>1, SendOutcome
<1>4. Sound(Dropped(w)) /\ Dropped(w).hit = w.hit
  BY LostIsSound DEF Sound
<1>5. QED
  BY <1>2, <1>3, <1>4 DEF ObeyedIn, Outcome, Errors

LEMMA MessagesHitFolder ==
  ASSUME NEW w, Sound(w), Unparsable = {}, NEW f \in Folders,
         NEW o \in OnMessages(w, f)
  PROVE  ObeyedIn(f, w, o)
<1>1. PICK p \in SelectIfNeeded(w, f) :
        IF p.error = "none" THEN o \in Obey(p.world) ELSE o = p
  BY DEF OnMessages, Then
<1>2. /\ Fine(w, p)
      /\ p.error = "none" => p.world.state = "selected" /\ p.world.folder = f
  BY SelectIfNeededIsFine
<1>3. p.error = "none" => ObeyedIn(f, p.world, o)
  BY <1>1, <1>2, ObeyHitsFolder DEF Fine
<1>4. QED
  BY <1>1, <1>2, <1>3 DEF Fine, ObeyedIn

\* storeFlags() and storeLabels() report a lost connection as success.
LEMMA StoreHitsFolder ==
  ASSUME NEW w, Sound(w), Unparsable = {}, NEW f \in Folders,
         NEW o \in Store(w, f)
  PROVE  /\ Sound(o.world) /\ o.error \in Errors \cup Fatal
         /\ o.world.hit \in {w.hit, f}
<1>1. PICK p \in SelectIfNeeded(w, f) :
        IF p.error = "none"
        THEN o \in {IF q.error = "connection" THEN Outcome(q.world, "none") ELSE q :
                      q \in Obey(p.world)}
        ELSE o = p
  BY DEF Store, Then
<1>2. /\ Fine(w, p)
      /\ p.error = "none" => p.world.state = "selected" /\ p.world.folder = f
  BY SelectIfNeededIsFine
<1>3. CASE p.error = "none"
  <2>1. PICK q \in Obey(p.world) :
          o = IF q.error = "connection" THEN Outcome(q.world, "none") ELSE q
    BY <1>1, <1>3
  <2>2. ObeyedIn(f, p.world, q)
    BY <1>2, <1>3, ObeyHitsFolder DEF Fine
  <2>3. QED
    BY <1>2, <2>1, <2>2 DEF Fine, ObeyedIn, Outcome, Errors
<1>4. CASE p.error # "none"
  BY <1>1, <1>2, <1>4 DEF Fine
<1>5. QED
  BY <1>3, <1>4

LEMMA MainOutcome ==
  ASSUME NEW w, Sound(w), w.hit = NoFolder, Unparsable = {},
         NEW kind \in AllKinds, NEW f \in Arguments(kind), NEW o \in Main(kind, f, w)
  PROVE  /\ Sound(o.world) /\ o.error \in Errors \cup Fatal
         /\ kind \in {"message", "store"} => o.world.hit \in {NoFolder, f}
         /\ kind = "message" /\ o.error = "none" => o.world.hit = f
<1>1. CASE kind = "message"
  BY <1>1, MessagesHitFolder DEF Main, Arguments, ObeyedIn
<1>2. CASE kind = "store"
  BY <1>2, StoreHitsFolder DEF Main, Arguments
<1>3. CASE kind = "info"
  BY <1>3, InfoIsFine DEF Main, Arguments, Fine
<1>4. CASE kind = "disconnect"
  BY <1>4, LostIsSound DEF Main, Outcome, Errors, Sound
<1>5. CASE kind \in {"check", "connect", "capability", "identity"}
  BY <1>5, CheckIsFine, ConnectIfNeededIsFine, CapabilityIsFine, AskAfterConnect
     DEF Main, Fine
<1>6. CASE kind \in {"namespace", "status", "noop", "quota"}
  BY <1>6, AskLoggedInIsFine, NoopIsFine, QuotaIsFine DEF Main, Fine
<1>7. CASE kind \in {"folders", "subscribed", "manage", "create"}
  BY <1>7, FoldersIsFine, SubscribedIsFine, ManageIsFine, CreateIsFine
     DEF Main, Fine
<1>8. QED
  BY <1>1, <1>2, <1>3, <1>4, <1>5, <1>6, <1>7 DEF AllKinds

-----------------------------------------------------------------------------
(* The theorems.                                                           *)

IInv ==
  /\ Sound(world) /\ CommandHitsItsFolder
  /\ last \in [kind : AllKinds, folder : Folders \cup {NoFolder},
               error : Errors \cup Fatal]

LEMMA InitIInv == Init => IInv
  BY DEF Init, IInv, Sound, World, States, CommandHitsItsFolder, AllKinds, Errors

LEMMA RunStep ==
  ASSUME IInv, Unparsable = {}, NEW kind \in Kinds, NEW f \in Arguments(kind),
         Run(kind, f)
  PROVE  IInv'
<1> DEFINE w == [world EXCEPT !.hit = NoFolder]
<1>1. Sound(w) /\ w.hit = NoFolder
  BY DEF IInv, Sound, World
<1>2. kind \in AllKinds /\ f \in Folders \cup {NoFolder}
  BY SessionAssumption DEF Arguments
<1>3. PICK o \in Main(kind, f, w) :
        /\ world' = o.world
        /\ last' = [kind |-> kind, folder |-> f, error |-> o.error]
  BY DEF Run
<1> HIDE DEF w
<1>4. /\ Sound(o.world) /\ o.error \in Errors \cup Fatal
      /\ kind \in {"message", "store"} => o.world.hit \in {NoFolder, f}
      /\ kind = "message" /\ o.error = "none" => o.world.hit = f
  BY <1>1, <1>2, <1>3, MainOutcome
<1>5. Sound(world')
  BY <1>3, <1>4
<1>6. CommandHitsItsFolder'
  BY <1>3, <1>4 DEF CommandHitsItsFolder
<1>7. QED
  BY <1>2, <1>3, <1>4, <1>5, <1>6 DEF IInv, Sound

LEMMA NextIInv ==
  ASSUME IInv, Unparsable = {}, [Next]_vars
  PROVE  IInv'
<1>1. CASE UNCHANGED vars
  BY <1>1 DEF vars, IInv, Sound, CommandHitsItsFolder
<1>2. ASSUME NEW kind \in Kinds, NEW f \in Arguments(kind), Run(kind, f)
      PROVE  IInv'
  BY <1>2, RunStep
<1>3. CASE ConnectionDrops
  BY <1>3 DEF ConnectionDrops, Lost, IInv, Sound, World, CommandHitsItsFolder
<1>4. CASE BecomesCalm
  BY <1>4 DEF BecomesCalm, IInv, Sound, World, CommandHitsItsFolder
<1>5. QED
  BY <1>1, <1>2, <1>3, <1>4 DEF Next, Crashed

LEMMA SessionInvariant ==
  ASSUME Unparsable = {}
  PROVE  Spec => []IInv
<1>1. IInv /\ [Next]_vars => IInv'
  BY NextIInv
<1>2. QED
  BY <1>1, InitIInv, PTL DEF Spec

\* Type correctness: a session is selected only in a folder.
THEOREM SessionTypeCorrect ==
  ASSUME Unparsable = {}
  PROVE  Spec => []TypeOK
<1>1. IInv => TypeOK
  BY DEF IInv, TypeOK, Sound
<1>2. QED
  BY <1>1, SessionInvariant, PTL

\* loginIfNeeded and selectIfNeeded skip LOGIN and SELECT only where the server
\* agrees that they are done, after any sequence of failures.
THEOREM SessionAgrees ==
  ASSUME Unparsable = {}
  PROVE  Spec => []Agrees
<1>1. IInv => Agrees
  BY DEF IInv, Agrees, Sound
<1>2. QED
  BY <1>1, SessionInvariant, PTL

\* An operation on the messages of a folder is obeyed in that folder or nowhere,
\* and reports success only if it was obeyed (selectIfNeeded, select).
THEOREM FolderIsHit ==
  ASSUME Unparsable = {}
  PROVE  Spec => []CommandHitsItsFolder
<1>1. IInv => CommandHitsItsFolder
  BY DEF IInv
<1>2. QED
  BY <1>1, SessionInvariant, PTL
=============================================================================
