-------------------------------- MODULE Inbox --------------------------------
(***************************************************************************)
(* ADZMasterViewController: the list of the newest messages of INBOX,      *)
(* extended a page at a time, against a mailbox that changes while the     *)
(* list is loaded and against a change of account.                         *)
(*                                                                         *)
(* Everything runs on the main thread but the server, which answers an     *)
(* operation in a step before its completion block is called: what the     *)
(* block reads may be stale.  Operations are answered and completed in any *)
(* order.  The user's settings stand for the session made from them.       *)
(*                                                                         *)
(* The listed messages are the array before it is sorted by the date: no   *)
(* step reads a position in it.                                            *)
(*                                                                         *)
(* A definition marked `mutant' is no part of the specification: it is the *)
(* one below it with a plausible bug, which a property here must notice.   *)
(***************************************************************************)
EXTENDS Integers, FiniteSets, SequencesExt

CONSTANTS Accounts, NoAccount,
          Page,          \* messages loaded at a time, 10
          Stored,        \* messages the store has for reading offline
          InitialSizes,  \* sizes of a mailbox at launch
          Changes,       \* bound: arrivals and expunges
          Settings,      \* bound: times an account is set
          Slots          \* bound: operations under way, identified by 1..Slots

ASSUME InboxAssumption ==
  /\ NoAccount \notin Accounts
  /\ Page \in Nat \ {0}
  /\ Stored \in Nat /\ Changes \in Nat /\ Settings \in Nat /\ Slots \in Nat
  /\ InitialSizes \subseteq Nat

VARIABLES
  mailbox,         \* the server's INBOX of each account: uids in order
  uidNext,         \* the next uid of each
  ops,             \* the operation under way in each slot, or NoOp
  session,         \* the account of _imapSession, or NoAccount
  accoutIsValid,
  aryMsgs,
  countOfMsgInServer,
  isLoading,
  imapMsgFetchOp,  \* the slot of the operation it points to, or 0
  loginShown,      \* the account screen is presented
  changes, settings,   \* counters of the bounds
  clean,           \* history: nothing has upset the list since it was started
  undisturbed      \* history: the account was not set while one was in use

server == <<mailbox, uidNext>>
table  == <<accoutIsValid, aryMsgs, countOfMsgInServer>>
bounds == <<changes, settings>>
vars == <<server, ops, session, table, isLoading, imapMsgFetchOp, loginShown,
          bounds, clean, undisturbed>>

Message(a, uid) == [account |-> a, uid |-> uid]

\* Summaries from the store; they are not messages of a session.
StoredMessages == [uid \in 1..Stored |-> Message(NoAccount, uid)]

NoOp == [kind |-> "none"]

\* A range of message numbers, both ends included, and the one that is empty.
Interval(first, last) == [first |-> first, last |-> last]

NoRange == Interval(1, 0)

\* An operation of a session and the answer it will get; `quiet' holds until a
\* message is expunged after the answer.
New(kind, account, number, wanted) ==
  [kind |-> kind, account |-> account, number |-> number, wanted |-> wanted,
   answered |-> FALSE, ok |-> FALSE, count |-> 0, messages |-> <<>>,
   quiet |-> TRUE]

InUse(kinds) == {i \in 1..Slots : ops[i].kind \in kinds}

\* The operation is the only one, its answer still true, and guarded by isLoading.
Alone(i) ==
  /\ ops[i].quiet /\ ops[i].account = session /\ isLoading
  /\ \A j \in 1..Slots : ops[j] = NoOp \/ j = i

Init ==
  /\ \E n \in [Accounts -> InitialSizes] :
       /\ mailbox = [a \in Accounts |-> [k \in 1..n[a] |-> k]]
       /\ uidNext = [a \in Accounts |-> n[a] + 1]
  /\ ops = [i \in 1..Slots |-> NoOp]
  /\ session = NoAccount
  /\ accoutIsValid = FALSE
  /\ aryMsgs = <<>> /\ countOfMsgInServer = 0
  /\ isLoading = FALSE /\ imapMsgFetchOp = 0
  /\ loginShown = TRUE
  /\ changes = 0 /\ settings = 0
  /\ clean = FALSE /\ undisturbed = TRUE

-----------------------------------------------------------------------------
(* The server.                                                             *)

Arrive(a) ==
  /\ changes < Changes
  /\ mailbox' = [mailbox EXCEPT ![a] = Append(@, uidNext[a])]
  /\ uidNext' = [uidNext EXCEPT ![a] = @ + 1]
  /\ changes' = changes + 1
  /\ UNCHANGED <<ops, session, table, isLoading, imapMsgFetchOp, loginShown,
                 settings, clean, undisturbed>>

Expunge(a) ==
  /\ changes < Changes
  /\ \E k \in 1..Len(mailbox[a]) :
       mailbox' = [mailbox EXCEPT ![a] = RemoveAt(@, k)]
  /\ ops' = [i \in 1..Slots |->
               IF ops[i] = NoOp THEN NoOp
               ELSE [ops[i] EXCEPT !.quiet = @ /\ (ops[i].answered => ops[i].account # a)]]
  /\ clean' = (clean /\ session # a)
  /\ changes' = changes + 1
  /\ UNCHANGED <<uidNext, session, table, isLoading, imapMsgFetchOp, loginShown,
                 settings, undisturbed>>

Answer(i) ==
  LET op == ops[i]
      box == mailbox[op.account]
      last == IF op.wanted.last < Len(box) THEN op.wanted.last ELSE Len(box)
  IN  /\ op # NoOp /\ ~op.answered
      /\ \E ok \in BOOLEAN :
           ops' = [ops EXCEPT ![i] =
             [op EXCEPT !.answered = TRUE, !.ok = ok,
                        !.count = IF ok THEN Len(box) ELSE 0,
                        !.messages = IF ok THEN SubSeq(box, op.wanted.first, last)
                                     ELSE <<>>]]
      /\ UNCHANGED <<server, session, table, isLoading, imapMsgFetchOp,
                     loginShown, bounds, clean, undisturbed>>

-----------------------------------------------------------------------------
(* The completion blocks.                                                  *)

Ready(i, kind) == ops[i].kind = kind /\ ops[i].answered

Without(i) == [ops EXCEPT ![i] = NoOp]

\* The slot of the next operation, unless the bound is reached.
NextSlot(before) ==
  {j \in 1..Slots : before[j] = NoOp /\ \A k \in 1..(j - 1) : before[k] # NoOp}

\* loadMsg:, which starts nothing when there is no session.
LoadMsg(before, number) ==
  /\ isLoading' = TRUE
  /\ IF session = NoAccount THEN ops' = before
     ELSE \E j \in NextSlot(before) :
            ops' = [before EXCEPT ![j] = New("info", session, number, NoRange)]

CheckCompleted(i) ==
  /\ Ready(i, "check")
  /\ accoutIsValid' = ops[i].ok
  /\ IF ops[i].ok
     THEN /\ LoadMsg(Without(i), Page)
          /\ UNCHANGED <<session, aryMsgs, clean>>
     ELSE /\ session' = NoAccount
          /\ aryMsgs' = StoredMessages
          /\ clean' = FALSE
          /\ ops' = Without(i)
          /\ UNCHANGED isLoading
  /\ UNCHANGED <<server, countOfMsgInServer, imapMsgFetchOp, loginShown, bounds,
                 undisturbed>>

\* The message numbers a range stands for.  A length below zero wraps: the end
\* is below the beginning, and a server reads the two in either order, or it is
\* the last message; the width of NSUInteger decides.
Numbers(first, length) ==
  LET largest == uidNext[session] + Changes
      end == first + length
  IN  IF length >= 0 THEN {Interval(first, end)}
      ELSE {Interval(first, largest)}
             \cup (IF end >= 1 THEN {Interval(end, first)} ELSE {})

\* The completion block of folderInfoOperation.  An error leaves no info, whose
\* count is 0.  The last message of a range is not part of its length.
InfoCompletes(i, last, loading) ==
  LET count == ops[i].count
      number == IF count < ops[i].number THEN count ELSE ops[i].number
      anew == count # countOfMsgInServer \/ aryMsgs = <<>>
      listed == IF anew THEN 0 ELSE Len(aryMsgs)
  IN  /\ Ready(i, "info")
      /\ countOfMsgInServer' = count
      /\ IF number = 0
         THEN /\ isLoading' = loading
              /\ ops' = Without(i)
              /\ clean' = FALSE
              /\ UNCHANGED <<aryMsgs, imapMsgFetchOp>>
         ELSE /\ aryMsgs' = IF anew THEN <<>> ELSE aryMsgs
              /\ clean' = IF anew THEN Alone(i) ELSE clean
              /\ UNCHANGED isLoading
              /\ IF session = NoAccount
                 THEN ops' = Without(i) /\ imapMsgFetchOp' = 0
                 ELSE \E j \in NextSlot(Without(i)) :
                        /\ imapMsgFetchOp' = j
                        /\ \E wanted \in Numbers(count - number + 1,
                                                number - listed - last) :
                             ops' = [Without(i) EXCEPT ![j] =
                                       New("fetch", session, number, wanted)]
      /\ UNCHANGED <<server, session, accoutIsValid, loginShown, bounds,
                     undisturbed>>

InfoCompletedOneMore(i) ==                                     \* mutant
  InfoCompletes(i, 0, FALSE)

InfoCompletedEarly(i) ==                                       \* mutant
  InfoCompletes(i, 1, isLoading)

InfoCompleted(i) ==
  InfoCompletes(i, 1, FALSE)

\* The messages of an answer.
Listed(op) ==
  [k \in DOMAIN op.messages |-> Message(op.account, op.messages[k])]

\* The completion block of fetchMessagesByNumberOperation.  With an error, or
\* nothing, the list stays.
FetchCompletes(i, pointer) ==
  /\ Ready(i, "fetch")
  /\ ops' = Without(i)
  /\ isLoading' = FALSE
  /\ imapMsgFetchOp' = pointer
  /\ aryMsgs' = Listed(ops[i]) \o aryMsgs
  /\ UNCHANGED <<server, session, accoutIsValid, countOfMsgInServer, loginShown,
                 bounds, clean, undisturbed>>

FetchCompletedPointing(i) ==                                   \* mutant
  FetchCompletes(i, IF ops[i].ok THEN 0 ELSE imapMsgFetchOp)
FetchCompleted(i) == FetchCompletes(i, 0)

-----------------------------------------------------------------------------
(* The user.                                                               *)

\* A cancelled operation never calls its block.
SetAccount ==
  /\ ~loginShown /\ settings < Settings
  /\ loginShown' = TRUE
  /\ ops' = IF imapMsgFetchOp = 0 THEN ops ELSE Without(imapMsgFetchOp)
  /\ imapMsgFetchOp' = 0
  /\ undisturbed' = FALSE
  /\ UNCHANGED <<server, session, table, isLoading, bounds, clean>>

\* accountHasFinishSetting:, and connectToServerWithUsername: at launch, which
\* finds no session either.  Settings that are those of the session are kept.
AccountHasFinishSetting(a) ==
  /\ loginShown /\ settings < Settings
  /\ loginShown' = FALSE
  /\ settings' = settings + 1
  /\ IF a = session THEN UNCHANGED <<ops, session, clean>>
     ELSE /\ session' = a
          /\ clean' = FALSE
          /\ \E j \in NextSlot(ops) :
               ops' = [ops EXCEPT ![j] = New("check", a, 0, NoRange)]
  /\ UNCHANGED <<server, table, isLoading, imapMsgFetchOp, changes, undisturbed>>

\* The row "Load more" is touched.
LoadMore(unless) ==
  /\ ~loginShown /\ ~unless
  /\ Len(aryMsgs) < countOfMsgInServer
  /\ LoadMsg(ops, Len(aryMsgs) + Page)
  /\ UNCHANGED <<server, session, table, imapMsgFetchOp, loginShown, bounds,
                 clean, undisturbed>>

TouchAlways == LoadMore(FALSE)                                 \* mutant
Touch == LoadMore(isLoading)

-----------------------------------------------------------------------------
Completed(i) == CheckCompleted(i) \/ InfoCompleted(i) \/ FetchCompleted(i)

User ==
  \/ SetAccount \/ Touch
  \/ \E a \in Accounts : AccountHasFinishSetting(a)

\* Nothing is under way and the user does nothing.
Rests == (\A i \in 1..Slots : ops[i] = NoOp) /\ UNCHANGED vars

Next ==
  \/ \E a \in Accounts : Arrive(a) \/ Expunge(a)
  \/ \E i \in 1..Slots : Answer(i) \/ Completed(i)
  \/ User
  \/ Rests

Spec == Init /\ [][Next]_vars

\* Operations are answered and their blocks called.
Fairness == \A i \in 1..Slots : WF_vars(Answer(i)) /\ WF_vars(Completed(i))

FairSpec == Spec /\ Fairness

-----------------------------------------------------------------------------
(* Properties.                                                             *)

Kinds == {"check", "info", "fetch"}

Operations ==
  [kind : Kinds, account : Accounts, number : Nat,
   wanted : [first : Nat \ {0}, last : Nat], answered : BOOLEAN, ok : BOOLEAN,
   count : Nat, messages : Seq(Nat), quiet : BOOLEAN]

TypeOK ==
  /\ mailbox \in [Accounts -> Seq(Nat)] /\ uidNext \in [Accounts -> Nat]
  /\ ops \in [1..Slots -> Operations \cup {NoOp}]
  /\ session \in Accounts \cup {NoAccount} /\ accoutIsValid \in BOOLEAN
  /\ aryMsgs \in Seq([account : Accounts \cup {NoAccount}, uid : Nat])
  /\ countOfMsgInServer \in Nat
  /\ isLoading \in BOOLEAN /\ loginShown \in BOOLEAN
  /\ imapMsgFetchOp \in 0..Slots
  /\ imapMsgFetchOp # 0 => ops[imapMsgFetchOp].kind = "fetch"
  /\ changes \in 0..Changes /\ settings \in 0..Settings
  /\ clean \in BOOLEAN /\ undisturbed \in BOOLEAN

\* A list that was started anew while nothing else was under way is, page by
\* page, the newest messages of the mailbox as last counted, none missing and
\* none twice, whatever arrives while it is loaded, until a message is expunged
\* or the account changes (the ranges of loadMsg:).
ListIsNewest ==
  clean =>
    LET listed == Len(aryMsgs)
        newest == (countOfMsgInServer - listed + 1)..countOfMsgInServer
    IN  /\ listed <= countOfMsgInServer
        /\ {aryMsgs[k] : k \in 1..listed} =
             {Message(session, mailbox[session][k]) : k \in newest}

\* isLoading tells whether a load is under way, and there is never more than
\* one, as long as the account screen is not opened.
OneLoadAtATime ==
  undisturbed =>
    /\ Cardinality(InUse({"info", "fetch"})) <= 1
    /\ isLoading <=> InUse({"info", "fetch"}) # {}

\* The activity indicator stops: on every path, of success or error, through the
\* two completion blocks isLoading is reset.
LoadEnds == isLoading ~> (~isLoading \/ ~undisturbed)
=============================================================================
