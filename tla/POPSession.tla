----------------------------- MODULE POPSession -----------------------------
(***************************************************************************)
(* mailcore::POPSession: one connection to a POP server, as the worker of  *)
(* its queue drives it.  main() of each asynchronous operation is one      *)
(* step, with a set of outcomes as in IMAPSession.                         *)
(*                                                                         *)
(* A message is named by its index, which the server gives anew when a     *)
(* user logs in, in any order: box is the maildrop, drop the maildrop as   *)
(* this connection sees it, index by index, and marked the indexes it has  *)
(* deleted.  QUIT removes the marked messages; a connection that is lost   *)
(* keeps them all.                                                         *)
(*                                                                         *)
(* Left out: the kind of authentication, TLS, and what is in a message.    *)
(***************************************************************************)
EXTENDS Naturals, FiniteSets, SequencesExt

CONSTANTS Messages, NoMessage

Kinds == {"list", "header", "message", "delete", "check", "noop"}

\* "null": the operation calls a method of NULL.
Errors == {"none", "connection", "refused", "null"}

MessagesAssumption == IsFiniteSet(Messages) /\ NoMessage \notin Messages

Indexes == 1..Cardinality(Messages)

VARIABLES
  world,    \* the session and the server
  last,     \* the operation that ended last: the index it retrieved, its error
  client    \* what the client knows, and what it asked for

vars == <<world, last, client>>

Maildrops == UNION {[1..n -> Messages] : n \in 0..Cardinality(Messages)}

World ==
  [state  : {"disconnected", "connected", "loggedin", "listed"},  \* mState
   object : BOOLEAN,               \* mPop is not NULL
   live   : BOOLEAN,               \* the server is still there
   auth   : BOOLEAN,               \* it has accepted a login
   drop   : Maildrops,
   marked : SUBSET Indexes,
   box    : SUBSET Messages,
   gone   : SUBSET Messages,       \* the messages this session has removed
   got    : Messages \cup {NoMessage},     \* what the operation retrieved
   calm   : BOOLEAN]               \* the server fails no more

Outcome(w, error) == [world |-> w, error |-> error]

\* A sequence of calls: each returns on an error.
Then(outcomes, Rest(_)) ==
  UNION {IF o.error = "none" THEN Rest(o.world) ELSE {o} : o \in outcomes}

-----------------------------------------------------------------------------
(* The server.                                                             *)

Lost(w) == [w EXCEPT !.live = FALSE, !.auth = FALSE, !.drop = <<>>, !.marked = {}]

Replies(w, legal) ==
  IF ~w.live THEN {"connection"}
  ELSE IF w.calm THEN {IF legal THEN "none" ELSE "refused"}
  ELSE {"refused", "connection"} \cup (IF legal THEN {"none"} ELSE {})

Ask(w, legal, done) ==
  {CASE r = "none"       -> Outcome(done, r)
     [] r = "refused"    -> Outcome(w, r)
     [] r = "connection" -> Outcome(Lost(w), r)
   : r \in Replies(w, legal)}

LoggedIn(w, drop) == [w EXCEPT !.auth = TRUE, !.drop = drop, !.marked = {}]

There(w, i) == w.auth /\ i \in DOMAIN w.drop \ w.marked

Committed(w) ==
  LET taken == {w.drop[i] : i \in w.marked}
  IN  [w EXCEPT !.box = @ \ taken, !.gone = @ \cup taken]

-----------------------------------------------------------------------------
(* The session.                                                            *)

DisconnectKeepingState(w) ==                                   \* mutant
  IF ~w.object THEN {w} ELSE {[Lost(Committed(w)) EXCEPT !.object = FALSE]}

\* mailpop3_quit(), whose result is ignored: it may come too late.
Disconnect(w) ==
  LET ended(v) == [Lost(v) EXCEPT !.state = "disconnected", !.object = FALSE]
  IN  IF ~w.object THEN {w}
      ELSE {ended(v) : v \in (IF w.live THEN {Committed(w)} ELSE {})
                             \cup (IF w.live /\ w.calm THEN {} ELSE {w})}

\* connect() after setup(): a failure leaves the object behind.
Connect(w) ==
  {Outcome([w EXCEPT !.object = TRUE, !.live = TRUE, !.state = "connected"],
           "none")}
  \cup (IF w.calm THEN {}
        ELSE {Outcome([w EXCEPT !.object = TRUE], "connection")})

Reconnect(w) ==                                                \* mutant
  IF w.state = "disconnected" \/ ~w.live THEN Connect(w) ELSE {Outcome(w, "none")}

\* Nothing marks a connection as lost: mState stays until disconnect().
ConnectIfNeeded(w) ==
  IF w.state = "disconnected" THEN Connect(w) ELSE {Outcome(w, "none")}

Login(w) ==
  {IF o.error = "none" THEN Outcome([o.world EXCEPT !.state = "loggedin"], "none")
   ELSE o : o \in UNION {Ask(w, ~w.auth, LoggedIn(w, drop)) :
                          drop \in SetToSeqs(w.box)}}

LoginIfNeeded(w) ==
  Then(ConnectIfNeeded(w),
       LAMBDA v : IF v.state = "connected" THEN Login(v) ELSE {Outcome(v, "none")})

FetchMessages(w) ==
  Then(LoginIfNeeded(w),
       LAMBDA v : {IF o.error = "none"
                   THEN Outcome([o.world EXCEPT !.state = "listed"], "none")
                   ELSE o : o \in Ask(v, v.auth, v)})

ListIfNeeded(w) ==
  IF w.state = "listed" THEN {Outcome(w, "none")} ELSE FetchMessages(w)

\* TOP or RETR.
Retrieve(w, i) ==
  Then(ListIfNeeded(w),
       LAMBDA v : Ask(v, There(v, i),
                      IF There(v, i) THEN [v EXCEPT !.got = v.drop[i]] ELSE v))

\* An index too far, as if the server counted from 0.
DeleteNext(w, i) ==                                            \* mutant
  Then(ListIfNeeded(w),
       LAMBDA v : Ask(v, There(v, i),
                      [v EXCEPT !.marked = @ \cup ({i + 1} \cap DOMAIN v.drop)]))

DeleteMessage(w, i) ==
  Then(ListIfNeeded(w),
       LAMBDA v : Ask(v, There(v, i), [v EXCEPT !.marked = @ \cup {i}]))

-----------------------------------------------------------------------------
(* main() of the operations.                                               *)

\* On an error the data is NULL, and main() retains it.
FetchMessage(w, i) ==
  {IF o.error = "none" THEN o ELSE Outcome(o.world, "null") : o \in Retrieve(w, i)}

DeleteEach(outcomes, i) == Then(outcomes, LAMBDA v : DeleteMessage(v, i))

\* The indexes of the set up to each, as far as there is no error.
UpTo(w, set) ==
  LET f[i \in {0} \cup Indexes] ==
        IF i = 0 THEN {Outcome(w, "none")}
        ELSE IF i \in set THEN DeleteEach(f[i - 1], i) ELSE f[i - 1]
  IN  f

\* All of them, and then disconnect().  With no index it is the disconnect
\* operation.
DeleteMessages(w, set) ==
  Then(UpTo(w, set)[Cardinality(Messages)],
       LAMBDA v : {Outcome(u, "none") : u \in Disconnect(v)})

\* Without an object noop() leaves the caller's error code uninitialised.
Noop(w) ==
  IF ~w.object THEN {Outcome(w, e) : e \in Errors \ {"null"}}
  ELSE Then(LoginIfNeeded(w),
            LAMBDA v : {IF o.error = "refused" THEN Outcome(o.world, "none") ELSE o :
                          o \in Ask(v, TRUE, v)})

Main(kind, set, w) ==
  CASE kind = "list"    -> FetchMessages(w)
    [] kind = "header"  -> UNION {Retrieve(w, i) : i \in set}
    [] kind = "message" -> UNION {FetchMessage(w, i) : i \in set}
    [] kind = "delete"  -> DeleteMessages(w, set)
    [] kind = "check"   -> LoginIfNeeded(w)
    [] kind = "noop"    -> Noop(w)

\* The sets of indexes an operation may be created with.
Arguments(kind) ==
  CASE kind \in {"header", "message"} -> {{i} : i \in Indexes}
    [] kind = "delete" -> SUBSET Indexes
    [] OTHER -> {{}}

-----------------------------------------------------------------------------
Init ==
  /\ world = [state |-> "disconnected", object |-> FALSE, live |-> FALSE,
              auth |-> FALSE, drop |-> <<>>, marked |-> {}, box |-> Messages,
              gone |-> {}, got |-> NoMessage, calm |-> FALSE]
  /\ last = [kind |-> "delete", index |-> {}, error |-> "none"]
  /\ client = [list |-> <<>>, fresh |-> FALSE, asked |-> {}, blind |-> FALSE]

\* The client notes what the list says, forgets it when a deletion disconnects,
\* and means by an index the message its list has there.
Noted(kind, set, o) ==
  LET meant == {client.list[i] : i \in set \cap DOMAIN client.list}
      asking == [client EXCEPT !.asked = @ \cup meant,
                               !.blind = @ \/ (set # {} /\ ~client.fresh)]
  IN  CASE kind = "list" /\ o.error = "none" ->
             [client EXCEPT !.list = o.world.drop, !.fresh = TRUE]
        [] kind = "delete" /\ o.error = "none" ->
             [asking EXCEPT !.list = <<>>, !.fresh = FALSE]
        [] kind = "delete" /\ o.error # "none" -> asking
        [] OTHER -> client

Run(kind, set) ==
  /\ last.error # "null"
  /\ \E o \in Main(kind, set, [world EXCEPT !.got = NoMessage]) :
       /\ world' = o.world
       /\ last' = [kind |-> kind, error |-> o.error,
                   index |-> IF kind \in {"header", "message"} THEN set ELSE {}]
       /\ client' = Noted(kind, set, o)

\* The network or the server drops the connection between two operations.
ConnectionDrops ==
  /\ world.live /\ ~world.calm
  /\ world' = Lost(world)
  /\ UNCHANGED <<last, client>>

\* A new message comes; somebody else removes one while nobody is logged in.
Arrives(m) ==
  /\ m \notin world.box \cup world.gone
  /\ world' = [world EXCEPT !.box = @ \cup {m}]
  /\ UNCHANGED <<last, client>>

Vanishes(m) ==
  /\ ~world.auth /\ m \in world.box
  /\ world' = [world EXCEPT !.box = @ \ {m}]
  /\ UNCHANGED <<last, client>>

\* From some time on the server and the network do what they should.
BecomesCalm ==
  /\ ~world.calm
  /\ world' = [world EXCEPT !.calm = TRUE]
  /\ UNCHANGED <<last, client>>

Crashed == last.error = "null" /\ UNCHANGED vars

Next ==
  \/ \E kind \in Kinds : \E set \in Arguments(kind) : Run(kind, set)
  \/ ConnectionDrops \/ BecomesCalm
  \/ \E m \in Messages : Arrives(m) \/ Vanishes(m)
  \/ Crashed

Spec == Init /\ [][Next]_vars

-----------------------------------------------------------------------------
(* Properties.                                                             *)

TypeOK ==
  /\ world \in World
  /\ last \in [kind : Kinds, index : SUBSET Indexes, error : Errors]
  /\ client \in [list : Maildrops, fresh : BOOLEAN, asked : SUBSET Messages,
                 blind : BOOLEAN]
  /\ world.marked \subseteq DOMAIN world.drop

\* "[info index] can be used as reference for a given message in the other
\* operations": until the client disconnects, an index of its list names the
\* same message or nothing, through lost connections and failures, because the
\* session never connects again by itself (connectIfNeeded).
IndexIsReference ==
  /\ last.kind \in {"header", "message"} /\ last.error = "none" /\ client.fresh
  => \A i \in last.index : i \in DOMAIN client.list /\ world.got = client.list[i]

\* Only what the client meant is ever removed from the server, however the
\* deletions, refusals and lost connections fall, if it names no index before
\* it has a list from its present connection.
OnlyAskedIsRemoved == ~client.blind => world.gone \subseteq client.asked

\* What disconnect() resets is enough to begin anew: once the server does what
\* it should, a client that disconnects and lists succeeds, whatever was lost
\* before.
ListSucceeds ==
  [](world.calm => <>(last.error = "null"
                      \/ (last.kind = "list" /\ last.error = "none")))
=============================================================================
