----------------------------- MODULE IMAPSession -----------------------------
(***************************************************************************)
(* mailcore::IMAPSession: one connection to an IMAP server, as the worker  *)
(* of its queue drives it.  main() of each asynchronous operation is one   *)
(* step: only that worker touches the session while it runs.  What can     *)
(* happen inside it, every reply of the server included, is a set of       *)
(* outcomes, each the world after it and the error code reported.          *)
(*                                                                         *)
(* The world is the session and the server's side of the connection: what  *)
(* the server believes is what the session's own state must agree with.    *)
(*                                                                         *)
(* The order in which login() configures the session is kept; COMPRESS and *)
(* ENABLE, whose failures it ignores, are left out.  Automatic             *)
(* configuration is enabled, which is the default and never changed.       *)
(*                                                                         *)
(* A definition marked `mutant' is no part of the specification: it is the *)
(* one below it with a plausible bug, which a property here must notice.   *)
(***************************************************************************)
EXTENDS Naturals

CONSTANTS Folders, NoFolder,
          Inbox,       \* MCSTR("INBOX")
          Unparsable,  \* {"parse"} if a reply may be unreadable, or {}
          Kinds        \* the operations the client starts

AllKinds == {"check", "connect", "capability", "identity", "namespace",
             "noop", "quota", "disconnect", "folders", "subscribed",
             "status", "info", "manage", "create", "message", "store"}

ASSUME SessionAssumption ==
  /\ NoFolder \notin Folders /\ Inbox \in Folders
  /\ Unparsable \subseteq {"parse"}
  /\ Kinds \subseteq AllKinds

VARIABLES
  world,   \* the session and the server
  last     \* the operation that ran last, and the error it reported

vars == <<world, last>>

States == {"disconnected", "connected", "loggedin", "selected"}

Fatal == {"assert", "null"}      \* abort() of MCAssert, call through NULL

Errors == {"none", "connection", "parse", "refused"}

World == [state  : States,
          folder : Folders \cup {NoFolder},  \* mCurrentFolder
          drop   : BOOLEAN,                  \* mShouldDisconnect
          space  : BOOLEAN,                  \* mDefaultNamespace is set
          delim  : BOOLEAN,                  \* mDelimiter is set
          live   : BOOLEAN,                  \* the server is still there
          auth   : BOOLEAN,                  \* it has accepted a login
          box    : Folders \cup {NoFolder},  \* the mailbox it has selected
          hit    : Folders \cup {NoFolder},  \* where it obeyed the operation
          calm   : BOOLEAN]                  \* it fails no more

Outcome(w, error) == [world |-> w, error |-> error]

\* A sequence of calls: each returns on an error.
Then(outcomes, Rest(_)) ==
  UNION {IF o.error = "none" THEN Rest(o.world) ELSE {o} : o \in outcomes}

-----------------------------------------------------------------------------
(* The server.  A command it may accept leads to the world done, a refusal *)
(* to the world refused; a reply that cannot be parsed hides which.  Once  *)
(* the connection is lost every command fails.                             *)

Replies(w, legal) ==
  IF ~w.live THEN {"connection"}
  ELSE IF w.calm THEN {IF legal THEN "none" ELSE "refused"}
  ELSE {"refused", "connection"} \cup Unparsable \cup
       (IF legal THEN {"none"} ELSE {})

Lost(w) == [w EXCEPT !.live = FALSE]

Exchange(w, legal, done, refused, lost) ==
  UNION {CASE r = "none"       -> {Outcome(done, r)}
           [] r = "refused"    -> {Outcome(refused, r)}
           [] r = "parse"      -> {Outcome(v, r) : v \in {refused} \cup
                                                  (IF legal THEN {done} ELSE {})}
           [] r = "connection" -> {Outcome(lost, r)}
         : r \in Replies(w, legal)}

\* MAILIMAP_ERROR_STREAM sets mShouldDisconnect in nearly every caller.
Send(w, legal, done, refused) ==
  Exchange(w, legal, done, refused, [Lost(w) EXCEPT !.drop = TRUE])

Ask(w, legal) == Send(w, legal, w, w)

-----------------------------------------------------------------------------
(* The session.                                                            *)

\* disconnect() and unsetup().  mCurrentFolder keeps its value.
Unsetup(w) == [w EXCEPT !.state = "disconnected", !.live = FALSE,
                        !.auth = FALSE, !.box = NoFolder]

Greeted(w) == [w EXCEPT !.state = "connected", !.live = TRUE,
                        !.auth = FALSE, !.box = NoFolder]

\* connect(): the capabilities come with the greeting or are asked for.
Connect(w) ==
  IF w.state # "disconnected" THEN {Outcome(w, "assert")}
  ELSE {Outcome(Greeted(w), "none")} \cup
       (IF w.calm THEN {} ELSE {Outcome(w, "connection")}) \cup
       {IF o.error = "none" THEN o ELSE Outcome(Unsetup(o.world), o.error) :
          o \in Ask(Greeted(w), TRUE)}

ReconnectDropped(w) ==
  IF w.drop THEN [Unsetup(w) EXCEPT !.drop = FALSE] ELSE w

IgnoreDropped(w) ==                                            \* mutant
  IF w.state = "disconnected" THEN Connect(w) ELSE {Outcome(w, "none")}

ConnectIfNeeded(w) ==
  LET v == ReconnectDropped(w)
  IN  IF v.state = "disconnected" THEN Connect(v) ELSE {Outcome(v, "none")}

\* The folders are listed when the server has no NAMESPACE; a connection lost
\* there is not marked for disconnection.
Namespace(w) ==
  LET known == [w EXCEPT !.space = TRUE, !.delim = TRUE]
  IN  Send(w, w.auth, known, w) \cup Exchange(w, w.auth, known, w, Lost(w))

Configure(w) ==
  Then(Ask(w, TRUE), LAMBDA v : Then(Namespace(v), LAMBDA u : Ask(u, TRUE)))

Login(w) ==
  IF w.state # "connected" THEN {Outcome(w, "assert")}
  ELSE Then(Send(w, ~w.auth, [w EXCEPT !.auth = TRUE], w),
            LAMBDA v : Configure([v EXCEPT !.state = "loggedin"]))

LoginIfNeeded(w) ==
  Then(ConnectIfNeeded(w),
       LAMBDA v : IF v.state = "connected" THEN Login(v) ELSE {Outcome(v, "none")})

\* An error that is not a refusal leaves state and mCurrentFolder alone.
SelectThen(w, f, onRefusal) ==
  {CASE o.error = "none" ->
          Outcome([o.world EXCEPT !.state = "selected", !.folder = f], "none")
     [] o.error = "refused" -> Outcome(onRefusal, "refused")
     [] OTHER -> o
   : o \in Send(w, w.auth, [w EXCEPT !.box = f], [w EXCEPT !.box = NoFolder])}

KeepSelection(w, f) ==                                         \* mutant
  SelectThen(w, f, [w EXCEPT !.box = NoFolder])

ForgetFolder(w, f) ==                                          \* mutant
  SelectThen(w, f, [w EXCEPT !.box = NoFolder, !.folder = NoFolder])

Select(w, f) ==
  IF w.state \notin {"loggedin", "selected"} THEN {Outcome(w, "assert")}
  ELSE SelectThen(w, f, [w EXCEPT !.box = NoFolder, !.state = "loggedin",
                                  !.folder = NoFolder])

SelectOnce(w, f) ==                                            \* mutant
  Then(LoginIfNeeded(w),
       LAMBDA v : IF v.state = "loggedin" THEN Select(v, f)
                  ELSE {Outcome(v, "none")})

\* mCurrentFolder is compared without regard to case.
SelectIfNeeded(w, f) ==
  Then(LoginIfNeeded(w),
       LAMBDA v : IF \/ v.state = "loggedin"
                     \/ v.state = "selected" /\ v.folder # f
                  THEN Select(v, f) ELSE {Outcome(v, "none")})

-----------------------------------------------------------------------------
(* main() of the operations.  Those that differ in nothing but the command *)
(* they send and the result they parse are one kind.                       *)

CheckAccount(w) == Then(ConnectIfNeeded(w), Login)

AskConnected(w) == Then(ConnectIfNeeded(w), LAMBDA v : Ask(v, TRUE))

AskLoggedIn(w) == Then(LoginIfNeeded(w), LAMBDA v : Ask(v, v.auth))

Capability(w) == Then(LoginIfNeeded(w), AskConnected)

\* Without a connection noop() leaves the caller's error code as it was, which
\* is uninitialised.  A reply it cannot parse is no error.
Noop(w) ==
  IF w.state = "disconnected" THEN {Outcome(w, e) : e \in Errors}
  ELSE Then(LoginIfNeeded(w),
            LAMBDA v : {IF o.error = "parse" THEN Outcome(o.world, "none") ELSE o :
                          o \in Exchange(v, v.auth, v, v, Lost(v))})

\* getQuota() does not connect.
Quota(w) ==
  IF w.state = "disconnected" THEN {Outcome(w, "null")} ELSE Ask(w, w.auth)

Delimiter(w) ==
  IF w.delim THEN {Outcome(w, "none")}
  ELSE Send(w, w.auth, [w EXCEPT !.delim = TRUE], w)

\* fetchAllFolders() goes on after an error with a NULL result.  Unless INBOX is
\* there it lists INBOX, and appends to the result what that list returns.
FetchAllFolders(w) ==
  Then(LoginIfNeeded(w), LAMBDA v : Then(Delimiter(v), LAMBDA u :
    UNION {IF o.error = "none" THEN {o} \cup Ask(o.world, o.world.auth)
           ELSE {IF p.error = "none" THEN Outcome(p.world, "null") ELSE p :
                   p \in Ask(o.world, o.world.auth)}
           : o \in Ask(u, u.auth)}))

\* fetchSubscribedFolders() asks for the prefix of defaultNamespace() unchecked.
FetchSubscribedFolders(w) ==
  Then(LoginIfNeeded(w), LAMBDA v : Then(Delimiter(v), LAMBDA u :
    IF u.space THEN Ask(u, u.auth) ELSE {Outcome(u, "null")}))

FolderInfo(w, f) == Then(LoginIfNeeded(w), LAMBDA v : Select(v, f))

\* rename, delete, subscribe, unsubscribe
ManageFolder(w) == Then(SelectIfNeeded(w, Inbox), LAMBDA v : Ask(v, v.auth))

\* A new folder is subscribed to.
CreateFolder(w) == Then(ManageFolder(w), ManageFolder)

\* The server obeys in the mailbox it has selected.
Obey(w) == Send(w, w.box # NoFolder, [w EXCEPT !.hit = w.box], w)

\* append, copy, expunge, fetch, search, render; of the groups of messages a
\* large set is split into, one.
OnMessages(w, f) == Then(SelectIfNeeded(w, f), Obey)

\* storeFlags and storeLabels: the label release sets ErrorNone after all.
Store(w, f) ==
  Then(SelectIfNeeded(w, f),
       LAMBDA v : {IF o.error = "connection" THEN Outcome(o.world, "none") ELSE o :
                     o \in Obey(v)})

Main(kind, f, w) ==
  CASE kind = "check"      -> CheckAccount(w)
    [] kind = "connect"    -> ConnectIfNeeded(w)
    [] kind = "capability" -> Capability(w)
    [] kind = "identity"   -> AskConnected(w)
    [] kind = "namespace"  -> AskLoggedIn(w)
    [] kind = "status"     -> AskLoggedIn(w)
    [] kind = "noop"       -> Noop(w)
    [] kind = "quota"      -> Quota(w)
    [] kind = "disconnect" -> {Outcome(Unsetup(w), "none")}
    [] kind = "folders"    -> FetchAllFolders(w)
    [] kind = "subscribed" -> FetchSubscribedFolders(w)
    [] kind = "info"       -> FolderInfo(w, f)
    [] kind = "manage"     -> ManageFolder(w)
    [] kind = "create"     -> CreateFolder(w)
    [] kind = "message"    -> OnMessages(w, f)
    [] kind = "store"      -> Store(w, f)

-----------------------------------------------------------------------------
Init ==
  /\ world = [state |-> "disconnected", folder |-> NoFolder, drop |-> FALSE,
              space |-> FALSE, delim |-> FALSE, live |-> FALSE,
              auth |-> FALSE, box |-> NoFolder, hit |-> NoFolder,
              calm |-> FALSE]
  /\ last = [kind |-> "disconnect", folder |-> NoFolder, error |-> "none"]

\* The kinds whose client names a folder the model tells from others.
Arguments(kind) ==
  IF kind \in {"info", "message", "store"} THEN Folders ELSE {NoFolder}

Run(kind, f) ==
  /\ last.error \notin Fatal
  /\ \E o \in Main(kind, f, [world EXCEPT !.hit = NoFolder]) :
       /\ world' = o.world
       /\ last' = [kind |-> kind, folder |-> f, error |-> o.error]

\* The network or the server drops the connection between two operations.
ConnectionDrops ==
  /\ world.live /\ ~world.calm
  /\ world' = Lost(world)
  /\ UNCHANGED last

\* From some time on the server and the network do what they should.
BecomesCalm ==
  /\ ~world.calm
  /\ world' = [world EXCEPT !.calm = TRUE]
  /\ UNCHANGED last

Crashed == last.error \in Fatal /\ UNCHANGED vars

Next ==
  \/ \E kind \in Kinds : \E f \in Arguments(kind) : Run(kind, f)
  \/ ConnectionDrops \/ BecomesCalm
  \/ Crashed

Spec == Init /\ [][Next]_vars

\* A client that does not give up on an operation on messages: it starts one
\* again and again, whatever else it starts.
Persistent == \A f \in Folders : WF_vars(Run("message", f))

PersistentSpec == Spec /\ Persistent

-----------------------------------------------------------------------------
(* Properties.                                                             *)

TypeOK ==
  /\ world \in World
  /\ world.state = "selected" => world.folder # NoFolder
  /\ last \in [kind : AllKinds, folder : Folders \cup {NoFolder},
               error : Errors \cup Fatal]

\* What the session believes of the server is true while the connection
\* lives: whether it is logged in, and which mailbox is selected.
\* loginIfNeeded and selectIfNeeded skip LOGIN and SELECT on the strength of it.
Agrees ==
  world.live =>
    /\ world.state # "disconnected"
    /\ world.auth <=> world.state \in {"loggedin", "selected"}
    /\ world.state = "selected" => world.box = world.folder
    /\ world.state # "selected" => world.box = NoFolder

\* An operation on the messages of a folder is never obeyed in another one, and
\* does not report success unless it was obeyed in its own, whatever was
\* selected, refused, lost or reconnected before (selectIfNeeded, select).
CommandHitsItsFolder ==
  /\ last.kind \in {"message", "store"} => world.hit \in {NoFolder, last.folder}
  /\ last.kind = "message" /\ last.error = "none" => world.hit = last.folder

\* "On success error will be nil; on failure error will be set": an operation
\* on messages, storeFlags and storeLabels included, that reports no error was
\* obeyed.
SuccessMeansDone ==
  last.kind \in {"message", "store"} /\ last.error = "none"
    => world.hit = last.folder

\* The assertions on the state hold: setup() and connect() in a disconnected
\* session, login() in a connected one, select() in one that is logged in.
AssertionsHold == last.error # "assert"

\* The session heals: once the server and the network do what they should, an
\* operation that is tried again succeeds, whatever failed before, because a
\* lost connection is marked and replaced (mShouldDisconnect).
RetrySucceeds ==
  \A f \in Folders :
    []((world.calm /\ last.error \notin Fatal)
         => <>(last.error \in Fatal
               \/ last = [kind |-> "message", folder |-> f, error |-> "none"]))
=============================================================================
