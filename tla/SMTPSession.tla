----------------------------- MODULE SMTPSession -----------------------------
(***************************************************************************)
(* mailcore::SMTPSession: one connection to an SMTP server, as the worker  *)
(* of its queue drives it.  main() of each asynchronous operation is one   *)
(* step, as in IMAPSession: its set of outcomes has every reply the server *)
(* may give to the commands it sends.                                      *)
(*                                                                         *)
(* A send ends with QUIT, sent on its own or along with the message: the   *)
(* engine then closes the stream and the session, still logged in, has to  *)
(* notice when it is next used.                                            *)
(*                                                                         *)
(* Left out: the text of the message and the filtering of its Bcc, the     *)
(* kind of authentication, and the numbers of the refusals.                *)
(***************************************************************************)
EXTENDS Naturals

Kinds == {"check", "send", "noop", "disconnect"}

Errors == {"none", "connection", "refused", "argument"}

VARIABLES
  world,   \* the session and the server
  last     \* the operation that ended last, its error

vars == <<world, last>>

World ==
  [state  : {"disconnected", "connected", "loggedin"},   \* mState
   stream : {"none", "open", "closed"},  \* mSmtp is NULL; mSmtp->stream
   drop   : BOOLEAN,                     \* mShouldDisconnect
   cred   : BOOLEAN,                     \* a username and a password are set
   live   : BOOLEAN,                     \* the server is still there
   auth   : BOOLEAN,                     \* it has accepted a login
   mail   : BOOLEAN,                     \* it is in a mail transaction
   sent   : 0..2,                        \* messages it took in this operation
   calm   : BOOLEAN]                     \* it fails no more

Outcome(w, error) == [world |-> w, error |-> error]

\* A sequence of calls: each returns on an error.
Then(outcomes, Rest(_)) ==
  UNION {IF o.error = "none" THEN Rest(o.world) ELSE {o} : o \in outcomes}

-----------------------------------------------------------------------------
(* The server.  A command that is lost may have been obeyed.               *)

Lost(w) == [w EXCEPT !.live = FALSE, !.auth = FALSE, !.mail = FALSE]

Replies(w, legal) ==
  IF ~w.live THEN {"connection"}
  ELSE IF w.calm THEN {IF legal THEN "none" ELSE "refused"}
  ELSE {"refused", "connection"} \cup (IF legal THEN {"none"} ELSE {})

Ask(w, legal, done) ==
  UNION {CASE r = "none"    -> {Outcome(done, r)}
           [] r = "refused" -> {Outcome(w, r)}
           [] OTHER -> {Outcome(Lost(v), r) : v \in IF w.live /\ legal
                                                    THEN {w, done} ELSE {w}}
         : r \in Replies(w, legal)}

Unmarked(outcomes) == outcomes                                 \* mutant

\* MAILSMTP_ERROR_STREAM sets mShouldDisconnect in every caller but noop().
Marked(outcomes) ==
  {IF o.error = "connection" THEN Outcome([o.world EXCEPT !.drop = TRUE], o.error)
   ELSE o : o \in outcomes}

\* mailsmtp_quit() closes the stream whatever the server says.
Quit(w) == [Lost(w) EXCEPT !.stream = "closed"]

-----------------------------------------------------------------------------
(* The session.                                                            *)

Unsetup(w) == [Lost(w) EXCEPT !.stream = "none"]

\* Without an object there is nothing to do; the state follows the object.
Disconnect(w) ==
  IF w.stream = "none" THEN w ELSE [Unsetup(w) EXCEPT !.state = "disconnected"]

\* Each failure before the last assignment goes to close: unsetup().
Connect(w) ==
  {Outcome([w EXCEPT !.stream = "open", !.live = TRUE, !.state = "connected"],
           "none")}
  \cup (IF w.calm THEN {} ELSE {Outcome(Unsetup(w), "connection")})

IgnoreClosed(w) ==                                             \* mutant
  LET v == IF w.drop THEN [Disconnect(w) EXCEPT !.drop = FALSE] ELSE w
  IN  IF v.state = "disconnected" THEN Connect(v) ELSE {Outcome(v, "none")}

ConnectIfNeeded(w) ==
  LET v == IF w.drop \/ w.stream = "closed"
           THEN [Disconnect(w) EXCEPT !.drop = FALSE] ELSE w
  IN  IF v.state = "disconnected" THEN Connect(v) ELSE {Outcome(v, "none")}

\* Without a username or a password nothing is sent.
Login(w) ==
  IF ~w.cred THEN {Outcome([w EXCEPT !.state = "loggedin"], "none")}
  ELSE {IF o.error = "none"
        THEN Outcome([o.world EXCEPT !.state = "loggedin"], "none") ELSE o
        : o \in Marked(Ask(w, ~w.auth, [w EXCEPT !.auth = TRUE]))}

LoginIfNeeded(w) ==
  Then(ConnectIfNeeded(w),
       LAMBDA v : IF v.state = "connected" THEN Login(v) ELSE {Outcome(v, "none")})

\* MAIL FROM: the server wants the credentials it was promised, and no other
\* transaction under way.
Mail(w) ==
  Marked(Ask(w, ~w.mail /\ (w.cred => w.auth), [w EXCEPT !.mail = TRUE]))

Recipient(w) == Marked(Ask(w, w.mail, w))

\* DATA and the message.
Data(w) ==
  Marked(Ask(w, w.mail, [w EXCEPT !.mail = FALSE, !.sent = @ + 1]))

-----------------------------------------------------------------------------
(* main() of the operations.                                               *)

\* The transaction that MAIL opened is left open.
CheckAccount(w) == Then(LoginIfNeeded(w), LAMBDA v : Then(Mail(v), Recipient))

\* With PIPELINING the commands and QUIT go out together; without, QUIT follows
\* whatever happened.  Its result is ignored.
SendThenQuit(w) ==
  {Outcome(Quit(o.world), o.error) :
     o \in Then(Mail(w), LAMBDA v : Then(Recipient(v), Data))}

SendAgain(w) ==                                                \* mutant
  UNION {IF o.error = "connection" THEN Then(LoginIfNeeded(o.world), SendThenQuit)
         ELSE {o} : o \in Then(LoginIfNeeded(w), SendThenQuit)}

\* No sender or no recipient: an error before anything else.
SendMessage(w) ==
  {Outcome(w, "argument")} \cup Then(LoginIfNeeded(w), SendThenQuit)

\* Without an object noop() leaves the caller's error code uninitialised.
Noop(w) ==
  IF w.stream = "none" THEN {Outcome(w, e) : e \in Errors}
  ELSE Then(LoginIfNeeded(w),
            LAMBDA v : {IF o.error = "refused" THEN Outcome(o.world, "none") ELSE o :
                          o \in Ask(v, TRUE, v)})

Main(kind, w) ==
  CASE kind = "check"      -> CheckAccount(w)
    [] kind = "send"       -> SendMessage(w)
    [] kind = "noop"       -> Noop(w)
    [] kind = "disconnect" -> {Outcome(Disconnect(w), "none")}

-----------------------------------------------------------------------------
Init ==
  /\ \E cred \in BOOLEAN :
       world = [state |-> "disconnected", stream |-> "none", drop |-> FALSE,
                cred |-> cred, live |-> FALSE, auth |-> FALSE, mail |-> FALSE,
                sent |-> 0, calm |-> FALSE]
  /\ last = [kind |-> "disconnect", error |-> "none"]

Run(kind) ==
  \E o \in Main(kind, [world EXCEPT !.sent = 0]) :
    /\ world' = o.world
    /\ last' = [kind |-> kind, error |-> o.error]

\* A message with a sender and recipients.
Send == Run("send") /\ last'.error # "argument"

\* The network or the server drops the connection between two operations.
ConnectionDrops ==
  /\ world.live /\ ~world.calm
  /\ world' = Lost(world)
  /\ UNCHANGED last

\* From some time on the server and the network do what they should.
BecomesCalm ==
  /\ ~world.calm
  /\ world' = [world EXCEPT !.calm = TRUE]
  /\ UNCHANGED last

Next == (\E kind \in Kinds : Run(kind)) \/ ConnectionDrops \/ BecomesCalm

Spec == Init /\ [][Next]_vars

-----------------------------------------------------------------------------
(* Properties.                                                             *)

\* The state follows the object: a session without one is disconnected, and
\* the assertions of a connection hold of it.
TypeOK ==
  /\ world \in World
  /\ last \in [kind : Kinds, error : Errors]
  /\ world.stream = "none" <=> world.state = "disconnected"
  /\ world.live => world.stream = "open"

\* The outcome of sendMessage tells what became of the message: taken once if
\* it reports success, not at all if it reports a refusal, at most once if the
\* connection was lost, and nobody knows.  It never retries by itself.
SentAsReported ==
  /\ world.sent <= 1
  /\ last.kind = "send" /\ last.error = "none" => world.sent = 1
  /\ last.error \in {"refused", "argument"} => world.sent = 0
  /\ last.kind # "send" => world.sent = 0

\* A session heals: when server and network do what they should, and as long as
\* no check of the account leaves a transaction open, a message that is sent
\* again is taken, whatever failed and whatever was closed before.
SendSucceeds ==
  <>[](world.calm /\ last.kind # "check")
    => []<>(last = [kind |-> "send", error |-> "none"])
=============================================================================
