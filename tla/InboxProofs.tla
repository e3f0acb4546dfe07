----------------------------- MODULE InboxProofs -----------------------------
(***************************************************************************)
(* Proofs about Inbox: its types, that one load is under way at a time and *)
(* that an undisturbed list is the newest messages of the mailbox.         *)
(***************************************************************************)
EXTENDS Inbox, SequenceTheorems, FiniteSetTheorems, TLAPS

-----------------------------------------------------------------------------
(* The inductive invariant.                                                *)

OneAtATime ==
  \A i, j \in 1..Slots : ops[i] # NoOp /\ ops[j] # NoOp => i = j

\* Until the account is set a second time: one operation at a time, guarded by
\* isLoading once the account was checked; nothing is counted without a session.
Guarded ==
  /\ OneAtATime
  /\ isLoading <=> \E i \in 1..Slots : ops[i].kind \in {"info", "fetch"}
  /\ loginShown => session = NoAccount
  /\ session = NoAccount =>
       countOfMsgInServer = 0 /\ \A i \in 1..Slots : ops[i] = NoOp
  /\ \A i \in 1..Slots : ops[i].kind = "check" => countOfMsgInServer = 0

GuardedInv == undisturbed => Guarded

\* What a fetch asks for, and what it was given.
Fetches(op) ==
  /\ op.number <= countOfMsgInServer
  /\ op.wanted.first = countOfMsgInServer - op.number + 1
  /\ op.wanted.last = countOfMsgInServer - Len(aryMsgs)
  /\ op.answered /\ op.ok =>
       /\ Len(op.messages) = op.number - Len(aryMsgs)
       /\ \A k \in 1..Len(op.messages) :
            op.messages[k] = mailbox[session][op.wanted.first + k - 1]
  /\ op.answered /\ ~op.ok => op.messages = <<>>

\* The operation extends the list by the messages that come before it.
Extends(op) ==
  /\ isLoading /\ op.account = session /\ op.kind # "check"
  /\ Len(aryMsgs) < countOfMsgInServer /\ Len(aryMsgs) < op.number
  /\ op.kind = "fetch" => Fetches(op)

\* A list is the newest messages among those counted.
NewestOf(list, account, box, count) ==
  /\ Len(list) <= count
  /\ {list[k] : k \in 1..Len(list)} =
       {Message(account, box[k]) : k \in (count - Len(list) + 1)..count}

Newest == NewestOf(aryMsgs, session, mailbox[session], countOfMsgInServer)

Clean ==
  /\ session \in Accounts
  /\ countOfMsgInServer <= Len(mailbox[session])
  /\ OneAtATime
  /\ \A i \in 1..Slots : ops[i] # NoOp => Extends(ops[i])
  /\ Newest

CleanInv == clean => Clean

\* A mailbox has what an answer counted, until a message is expunged.
CountsInv ==
  \A i \in 1..Slots :
    ops[i] # NoOp /\ ops[i].answered /\ ops[i].quiet =>
      ops[i].count <= Len(mailbox[ops[i].account])

-----------------------------------------------------------------------------
(* Operations and types.                                                   *)

Listable == [account : Accounts \cup {NoAccount}, uid : Nat]

LEMMA NoOpIsNone == NoOp.kind = "none" /\ NoOp \notin Operations
BY DEF NoOp, Operations, Kinds

LEMMA NewIsOperation ==
  ASSUME NEW kind \in Kinds, NEW account \in Accounts, NEW number \in Nat,
         NEW wanted \in [first : Nat \ {0}, last : Nat]
  PROVE  New(kind, account, number, wanted) \in Operations
BY DEF New, Operations

LEMMA NoRangeType == NoRange \in [first : Nat \ {0}, last : Nat]
BY DEF NoRange, Interval

LEMMA TypeInit == Init => TypeOK
<1> SUFFICES ASSUME Init PROVE TypeOK
  OBVIOUS
<1>1. PICK n \in [Accounts -> InitialSizes] :
        /\ mailbox = [a \in Accounts |-> [k \in 1..n[a] |-> k]]
        /\ uidNext = [a \in Accounts |-> n[a] + 1]
  BY DEF Init
<1>2. \A a \in Accounts : n[a] \in Nat
  BY InboxAssumption
<1>3. mailbox \in [Accounts -> Seq(Nat)] /\ uidNext \in [Accounts -> Nat]
  <2>1. \A m \in Nat : [k \in 1..m |-> k] \in Seq(Nat)
    OBVIOUS
  <2> QED BY <1>1, <1>2, <2>1
<1>4. ops \in [1..Slots -> Operations \cup {NoOp}]
  BY DEF Init
<1>5. /\ session \in Accounts \cup {NoAccount} /\ accoutIsValid \in BOOLEAN
      /\ isLoading \in BOOLEAN /\ loginShown \in BOOLEAN
      /\ clean \in BOOLEAN /\ undisturbed \in BOOLEAN
  BY Zenon DEF Init
<1>6. aryMsgs \in Seq([account : Accounts \cup {NoAccount}, uid : Nat])
  BY DEF Init
<1>7. /\ countOfMsgInServer \in Nat /\ imapMsgFetchOp \in 0..Slots
      /\ imapMsgFetchOp # 0 => ops[imapMsgFetchOp].kind = "fetch"
      /\ changes \in 0..Changes /\ settings \in 0..Settings
  BY InboxAssumption DEF Init
<1> QED BY <1>3, <1>4, <1>5, <1>6, <1>7, Zenon DEF TypeOK

SlotsType == [1..Slots -> Operations \cup {NoOp}]

FlagsType ==
  /\ session \in Accounts \cup {NoAccount} /\ accoutIsValid \in BOOLEAN
  /\ isLoading \in BOOLEAN /\ loginShown \in BOOLEAN
  /\ clean \in BOOLEAN /\ undisturbed \in BOOLEAN

PointerType ==
  /\ imapMsgFetchOp \in 0..Slots
  /\ imapMsgFetchOp # 0 => ops[imapMsgFetchOp].kind = "fetch"

ServerType == mailbox \in [Accounts -> Seq(Nat)] /\ uidNext \in [Accounts -> Nat]

CountersType ==
  countOfMsgInServer \in Nat /\ changes \in 0..Changes /\ settings \in 0..Settings

\* The type invariant in the parts that actions change.
LEMMA TypeParts ==
  TypeOK <=> /\ ServerType /\ ops \in SlotsType /\ FlagsType /\ PointerType
             /\ CountersType /\ aryMsgs \in Seq(Listable)
BY Zenon DEF TypeOK, SlotsType, FlagsType, PointerType, ServerType, CountersType,
   Listable

\* Where the next operation goes.
LEMMA NextSlotFree ==
  ASSUME NEW before, NEW j \in NextSlot(before)
  PROVE  j \in 1..Slots /\ before[j] = NoOp
BY DEF NextSlot

LEMMA WithoutType ==
  ASSUME ops \in SlotsType, NEW i \in 1..Slots
  PROVE  /\ Without(i) \in SlotsType /\ Without(i)[i] = NoOp
         /\ \A k \in 1..Slots : k # i => Without(i)[k] = ops[k]
BY DEF SlotsType, Without

\* loadMsg: puts one operation into a free slot, or nothing without a session.
LEMMA LoadMsgDoes ==
  ASSUME NEW before \in SlotsType, NEW number \in Nat,
         session \in Accounts \cup {NoAccount}, LoadMsg(before, number)
  PROVE  /\ isLoading' = TRUE /\ ops' \in SlotsType
         /\ \/ session = NoAccount /\ ops' = before
            \/ /\ session \in Accounts
               /\ \E j \in 1..Slots :
                    /\ before[j] = NoOp
                    /\ ops' = [before EXCEPT ![j] = New("info", session, number, NoRange)]
<1>1. CASE session = NoAccount
  BY <1>1, Zenon DEF LoadMsg
<1>2. CASE session # NoAccount
  <2>1. PICK j \in NextSlot(before) :
          ops' = [before EXCEPT ![j] = New("info", session, number, NoRange)]
    BY <1>2 DEF LoadMsg
  <2>2. j \in 1..Slots /\ before[j] = NoOp
    BY NextSlotFree
  <2>3. New("info", session, number, NoRange) \in Operations
    BY <1>2, NewIsOperation, NoRangeType DEF Kinds
  <2>4. ops' \in SlotsType
    BY <2>1, <2>2, <2>3 DEF SlotsType
  <2> QED BY <1>2, <2>1, <2>2, <2>4, Zenon DEF LoadMsg
<1> QED BY <1>1, <1>2

\* No slot but that of a fetch is pointed to.
LEMMA PointerKept ==
  ASSUME PointerType, imapMsgFetchOp' = imapMsgFetchOp,
         imapMsgFetchOp # 0 =>
           ops'[imapMsgFetchOp].kind = ops[imapMsgFetchOp].kind
  PROVE  PointerType'
BY DEF PointerType

-----------------------------------------------------------------------------
(* Every step keeps the types.                                             *)

LEMMA TypeArrive ==
  ASSUME TypeOK, NEW a \in Accounts, Arrive(a)
  PROVE  TypeOK'
<1>1. mailbox' \in [Accounts -> Seq(Nat)]
  <2>1. Append(mailbox[a], uidNext[a]) \in Seq(Nat)
    BY AppendProperties DEF TypeOK
  <2> QED BY <2>1 DEF Arrive, TypeOK
<1>2. uidNext' \in [Accounts -> Nat]
  BY DEF Arrive, TypeOK
<1>3. CountersType'
  <2>1. /\ changes \in 0..Changes /\ changes < Changes /\ changes' = changes + 1
        /\ Changes \in Nat
    BY InboxAssumption, TypeParts, Zenon DEF Arrive, CountersType
  <2>2. changes' \in 0..Changes
    BY <2>1
  <2> QED BY <2>2, TypeParts, Zenon DEF Arrive, table, CountersType
<1>4. ops' \in SlotsType /\ FlagsType' /\ PointerType' /\ aryMsgs' \in Seq(Listable)
  BY TypeParts, Zenon DEF Arrive, table, FlagsType, PointerType
<1> QED BY <1>1, <1>2, <1>3, <1>4, TypeParts, Zenon DEF TypeOK, ServerType,
        SlotsType, FlagsType, PointerType, CountersType, Listable

\* Removing one of a sequence.
LEMMA RemoveAtType ==
  ASSUME NEW s \in Seq(Nat), NEW k \in 1..Len(s)
  PROVE  RemoveAt(s, k) \in Seq(Nat)
<1>1. SubSeq(s, 1, k - 1) \in Seq(Nat) /\ SubSeq(s, k + 1, Len(s)) \in Seq(Nat)
  BY SubSeqProperties
<1> QED BY <1>1, ConcatProperties DEF RemoveAt

\* What an expunge leaves of the operations.
LEMMA ExpungeKeeps ==
  ASSUME ops \in SlotsType, NEW a \in Accounts, Expunge(a)
  PROVE  /\ ops' \in SlotsType
         /\ \A i \in 1..Slots :
              ops'[i] = IF ops[i] = NoOp THEN NoOp
                        ELSE [ops[i] EXCEPT !.quiet = ops'[i].quiet]
         /\ \A i \in 1..Slots :
              /\ (ops'[i] = NoOp) = (ops[i] = NoOp)
              /\ ops'[i].kind = ops[i].kind
         /\ \A i \in 1..Slots :
              ops[i] # NoOp /\ ops'[i].quiet =>
                ops[i].quiet /\ (ops[i].answered => ops[i].account # a)
<1> DEFINE Upset(op) ==
      [op EXCEPT !.quiet = @ /\ (op.answered => op.account # a)]
<1>1. ops' = [i \in 1..Slots |-> IF ops[i] = NoOp THEN NoOp ELSE Upset(ops[i])]
  BY DEF Expunge
<1>2. \A op \in Operations : /\ Upset(op) \in Operations /\ Upset(op).kind = op.kind
                             /\ Upset(op) = [op EXCEPT !.quiet = Upset(op).quiet]
                             /\ Upset(op).quiet =>
                                  op.quiet /\ (op.answered => op.account # a)
  BY DEF Operations
<1>3. \A i \in 1..Slots : ops[i] # NoOp => ops[i] \in Operations
  BY DEF SlotsType
<1> HIDE DEF Upset
<1>4. ops' \in SlotsType
  BY <1>1, <1>2, <1>3 DEF SlotsType
<1>5. ASSUME NEW i \in 1..Slots
      PROVE  /\ ops'[i] = IF ops[i] = NoOp THEN NoOp
                          ELSE [ops[i] EXCEPT !.quiet = ops'[i].quiet]
             /\ (ops'[i] = NoOp) = (ops[i] = NoOp)
             /\ ops'[i].kind = ops[i].kind
             /\ ops[i] # NoOp /\ ops'[i].quiet =>
                  ops[i].quiet /\ (ops[i].answered => ops[i].account # a)
  <2>1. CASE ops[i] = NoOp
    BY <1>1, <2>1
  <2>2. CASE ops[i] # NoOp
    <3>1. ops'[i] = Upset(ops[i])
      BY <1>1, <2>2
    <3> QED BY <1>2, <1>3, <2>2, <3>1, NoOpIsNone
  <2> QED BY <2>1, <2>2
<1> QED BY <1>4, <1>5

LEMMA TypeExpunge ==
  ASSUME TypeOK, NEW a \in Accounts, Expunge(a)
  PROVE  TypeOK'
<1>1. ServerType'
  <2>1. PICK k \in 1..Len(mailbox[a]) :
          mailbox' = [mailbox EXCEPT ![a] = RemoveAt(mailbox[a], k)]
    BY DEF Expunge
  <2>2. mailbox[a] \in Seq(Nat)
    BY DEF TypeOK
  <2>3. RemoveAt(mailbox[a], k) \in Seq(Nat)
    BY <2>2, RemoveAtType
  <2> QED BY <2>1, <2>3 DEF Expunge, TypeOK, ServerType
<1>2. ops' \in SlotsType /\ PointerType'
  <2>1. imapMsgFetchOp # 0 => imapMsgFetchOp \in 1..Slots
    BY TypeParts DEF PointerType
  <2> QED BY <2>1, TypeParts, ExpungeKeeps, PointerKept DEF Expunge
<1>3. CountersType'
  <2>1. /\ changes \in 0..Changes /\ changes < Changes /\ changes' = changes + 1
        /\ Changes \in Nat
    BY InboxAssumption, TypeParts, Zenon DEF Expunge, CountersType
  <2>2. changes' \in 0..Changes
    BY <2>1
  <2> QED BY <2>2, TypeParts, Zenon DEF Expunge, table, CountersType
<1>4. FlagsType' /\ aryMsgs' \in Seq(Listable)
  <2>1. clean' \in BOOLEAN
    BY Zenon DEF Expunge
  <2> QED BY <2>1, TypeParts, Zenon DEF Expunge, table, FlagsType
<1> QED BY <1>1, <1>2, <1>3, <1>4, TypeParts, Zenon DEF TypeOK, ServerType,
        SlotsType, FlagsType, PointerType, CountersType, Listable

LEMMA TypeJoin ==
  ASSUME ServerType', ops' \in SlotsType, FlagsType', PointerType', CountersType',
         aryMsgs' \in Seq(Listable)
  PROVE  TypeOK'
BY Zenon DEF TypeOK, ServerType, SlotsType, FlagsType, PointerType, CountersType,
   Listable

\* What an answer makes of the operation.
LEMMA AnswerDoes ==
  ASSUME TypeOK, NEW i \in 1..Slots, Answer(i)
  PROVE  /\ ops[i] \in Operations /\ ops' \in SlotsType /\ ~ops[i].answered
         /\ \A k \in 1..Slots : k # i => ops'[k] = ops[k]
         /\ ops'[i] \in Operations
         /\ ops'[i] = [ops[i] EXCEPT !.answered = TRUE, !.ok = ops'[i].ok,
                          !.count = ops'[i].count, !.messages = ops'[i].messages]
         /\ ops'[i].count <= Len(mailbox[ops[i].account])
         /\ ~ops'[i].ok => ops'[i].messages = <<>>
         /\ ops'[i].ok =>
              LET op == ops[i]
                  box == mailbox[op.account]
              IN  ops'[i].messages =
                    SubSeq(box, op.wanted.first,
                           IF op.wanted.last < Len(box) THEN op.wanted.last
                           ELSE Len(box))
<1> DEFINE op == ops[i]
           box == mailbox[op.account]
           last == IF op.wanted.last < Len(box) THEN op.wanted.last ELSE Len(box)
           count(ok) == IF ok THEN Len(box) ELSE 0
           messages(ok) == IF ok THEN SubSeq(box, op.wanted.first, last) ELSE <<>>
           answer(ok) == [op EXCEPT !.answered = TRUE, !.ok = ok,
                                    !.count = count(ok), !.messages = messages(ok)]
<1>1. op \in Operations /\ ~op.answered
  BY DEF Answer, TypeOK
<1>2. PICK ok \in BOOLEAN : ops' = [ops EXCEPT ![i] = answer(ok)]
  BY DEF Answer
<1>3. /\ op.account \in Accounts
      /\ op.wanted.first \in Nat \ {0} /\ op.wanted.last \in Nat
  BY <1>1 DEF Operations
<1>4. box \in Seq(Nat) /\ Len(box) \in Nat /\ last \in Nat /\ last <= Len(box)
  BY <1>3 DEF TypeOK
<1>5. messages(ok) \in Seq(Nat)
  <2>1. \A k \in op.wanted.first .. last : box[k] \in Nat
    <3> HIDE DEF op, box, last
    <3>1. ASSUME NEW k \in op.wanted.first .. last PROVE k \in 1..Len(box)
      BY <1>3, <1>4
    <3> QED BY <1>4, <3>1
  <2> HIDE DEF op, box, last
  <2>2. SubSeq(box, op.wanted.first, last) \in Seq(Nat)
    BY <2>1, <1>3, <1>4, SubSeqProperties
  <2> QED BY <2>2
<1>6. count(ok) \in Nat /\ count(ok) <= Len(box)
  <2> HIDE DEF box
  <2> QED BY <1>4
<1>7. answer(ok) \in Operations
  <2> HIDE DEF op, count, messages
  <2> QED BY <1>1, <1>5, <1>6 DEF Operations
<1>8. ops'[i] = answer(ok) /\ \A k \in 1..Slots : k # i => ops'[k] = ops[k]
  <2> HIDE DEF answer
  <2> QED BY <1>2 DEF TypeOK
<1>9. ops' \in SlotsType
  <2> HIDE DEF answer
  <2> QED BY <1>2, <1>7 DEF TypeOK, SlotsType
<1>10. /\ answer(ok).answered = TRUE /\ answer(ok).ok = ok
       /\ answer(ok).count = count(ok) /\ answer(ok).messages = messages(ok)
  <2> HIDE DEF op, count, messages
  <2> QED BY <1>1 DEF Operations
<1>11. ops'[i] = [op EXCEPT !.answered = TRUE, !.ok = ops'[i].ok,
                      !.count = ops'[i].count, !.messages = ops'[i].messages]
  BY <1>8, <1>10, Zenon
<1>12. ops'[i].count <= Len(box)
  <2> HIDE DEF box, count, answer
  <2> QED BY <1>6, <1>8, <1>10
<1>13. /\ ~ops'[i].ok => ops'[i].messages = <<>>
       /\ ops'[i].ok => ops'[i].messages = SubSeq(box, op.wanted.first, last)
  BY <1>8, <1>10, Zenon
<1> QED BY <1>1, <1>7, <1>8, <1>9, <1>11, <1>12, <1>13, Zenon

\* An answer leaves the operation what it was.
LEMMA AnswerKeeps ==
  ASSUME TypeOK, NEW i \in 1..Slots, Answer(i)
  PROVE  /\ ops'[i].kind = ops[i].kind /\ ops'[i].account = ops[i].account
         /\ ops'[i].number = ops[i].number /\ ops'[i].wanted = ops[i].wanted
         /\ ops'[i].quiet = ops[i].quiet /\ ops'[i].answered = TRUE
<1> DEFINE op == ops[i]
           after == ops'[i]
<1>1. /\ op \in Operations
      /\ after = [op EXCEPT !.answered = TRUE, !.ok = after.ok,
                            !.count = after.count, !.messages = after.messages]
  BY AnswerDoes
<1> HIDE DEF op, after
<1>2. /\ after.kind = op.kind /\ after.account = op.account
      /\ after.number = op.number /\ after.wanted = op.wanted
      /\ after.quiet = op.quiet /\ after.answered = TRUE
  BY <1>1 DEF Operations
<1> QED BY <1>2 DEF op, after

LEMMA TypeAnswer ==
  ASSUME TypeOK, NEW i \in 1..Slots, Answer(i)
  PROVE  TypeOK'
<1>1. ops' \in SlotsType
  BY AnswerDoes
<1>2. PointerType'
  <2>1. \A k \in 1..Slots : ops'[k].kind = ops[k].kind
    <3>1. ops'[i].kind = ops[i].kind
      BY AnswerKeeps
    <3> QED BY <3>1, AnswerDoes
  <2>2. imapMsgFetchOp # 0 => imapMsgFetchOp \in 1..Slots
    BY TypeParts DEF PointerType
  <2> QED BY <2>1, <2>2, TypeParts, PointerKept DEF Answer
<1>3. /\ ServerType' /\ FlagsType' /\ CountersType'
      /\ aryMsgs' \in Seq(Listable)
  BY TypeParts, Zenon DEF Answer, server, table, bounds, ServerType, FlagsType,
     CountersType
<1> QED BY <1>1, <1>2, <1>3, TypeJoin

\* The block of an operation is called with the operation answered.
LEMMA ReadyIsOperation ==
  ASSUME TypeOK, NEW i \in 1..Slots, NEW kind \in Kinds, Ready(i, kind)
  PROVE  ops[i] \in Operations /\ ops[i] # NoOp
BY NoOpIsNone DEF Ready, TypeOK, Kinds, NoOp

\* When an operation of another kind leaves, the pointed one stays.
LEMMA PointedStays ==
  ASSUME TypeOK, NEW i \in 1..Slots, ops[i].kind # "fetch",
         NEW pointed \in 1..Slots, pointed = imapMsgFetchOp
  PROVE  Without(i)[pointed] = ops[pointed] /\ ops[pointed] # NoOp
BY WithoutType, TypeParts DEF PointerType, NoOp

LEMMA TypeCheck ==
  ASSUME TypeOK, NEW i \in 1..Slots, CheckCompleted(i)
  PROVE  TypeOK'
<1>1. ops[i] \in Operations /\ ops[i].kind = "check"
  BY ReadyIsOperation DEF CheckCompleted, Ready, Kinds
<1>2. Without(i) \in SlotsType
  BY WithoutType, TypeParts
<1>3. ServerType' /\ CountersType'
  BY TypeParts, Zenon DEF CheckCompleted, server, bounds, ServerType, CountersType
<1>4. CASE ops[i].ok
  <2>1. LoadMsg(Without(i), Page)
    BY <1>4, Zenon DEF CheckCompleted
  <2>2. Page \in Nat
    BY InboxAssumption
  <2>3. /\ isLoading' = TRUE /\ ops' \in SlotsType
        /\ \/ ops' = Without(i)
           \/ \E j \in 1..Slots :
                /\ Without(i)[j] = NoOp
                /\ ops' = [Without(i) EXCEPT ![j] = New("info", session, Page, NoRange)]
    BY <1>2, <2>1, <2>2, LoadMsgDoes, TypeParts DEF FlagsType
  <2>4. PointerType'
    <3>1. imapMsgFetchOp # 0 => imapMsgFetchOp \in 1..Slots
      BY TypeParts DEF PointerType
    <3>2. imapMsgFetchOp # 0 =>
            /\ Without(i)[imapMsgFetchOp] = ops[imapMsgFetchOp]
            /\ ops[imapMsgFetchOp] # NoOp
      BY <1>1, <3>1, PointedStays
    <3>3. imapMsgFetchOp # 0 => ops'[imapMsgFetchOp] = ops[imapMsgFetchOp]
      BY <1>2, <2>3, <3>1, <3>2 DEF SlotsType
    <3> QED BY <3>3, TypeParts, PointerKept DEF CheckCompleted
  <2>5. FlagsType'
    BY <1>1, <1>4, <2>3, TypeParts, Zenon DEF CheckCompleted, FlagsType
  <2>6. aryMsgs' \in Seq(Listable)
    BY <1>4, TypeParts, Zenon DEF CheckCompleted
  <2> QED BY <1>3, <2>3, <2>4, <2>5, <2>6, TypeJoin
<1>5. CASE ~ops[i].ok
  <2>1. ops' = Without(i)
    BY <1>5, Zenon DEF CheckCompleted
  <2>2. PointerType'
    <3>1. imapMsgFetchOp # 0 => imapMsgFetchOp \in 1..Slots
      BY TypeParts DEF PointerType
    <3>2. imapMsgFetchOp # 0 => Without(i)[imapMsgFetchOp] = ops[imapMsgFetchOp]
      BY <1>1, <3>1, PointedStays
    <3> QED BY <2>1, <3>2, TypeParts, PointerKept DEF CheckCompleted
  <2>3. FlagsType'
    <3>1. ops[i].ok \in BOOLEAN
      BY <1>1 DEF Operations
    <3> QED BY <1>5, <3>1, TypeParts, Zenon DEF CheckCompleted, FlagsType
  <2>4. aryMsgs' \in Seq(Listable)
    <3>1. \A uid \in 1..Stored : Message(NoAccount, uid) \in Listable
      BY InboxAssumption DEF Message, Listable
    <3>2. StoredMessages \in Seq(Listable)
      BY <3>1, InboxAssumption DEF StoredMessages
    <3> QED BY <1>5, <3>2, Zenon DEF CheckCompleted
  <2> QED BY <1>2, <1>3, <2>1, <2>2, <2>3, <2>4, TypeJoin
<1> QED BY <1>4, <1>5

\* How many messages the completion block of a count loads, and whether it
\* starts the list anew.
Loads(i) == IF ops[i].count < ops[i].number THEN ops[i].count ELSE ops[i].number

Anew(i) == ops[i].count # countOfMsgInServer \/ aryMsgs = <<>>

LEMMA NumbersType ==
  ASSUME TypeOK, session \in Accounts, NEW first \in Nat \ {0}, NEW length \in Int
  PROVE  Numbers(first, length) \subseteq [first : Nat \ {0}, last : Nat]
<1>1. uidNext[session] + Changes \in Nat
  BY InboxAssumption DEF TypeOK
<1> QED BY <1>1 DEF Numbers, Interval

\* The completion block of a count.
LEMMA InfoDoes ==
  ASSUME TypeOK, NEW i \in 1..Slots, InfoCompleted(i)
  PROVE  /\ ops[i] \in Operations /\ ops[i].kind = "info" /\ ops[i].answered
         /\ ops' \in SlotsType /\ Loads(i) \in Nat
         /\ Loads(i) <= ops[i].count /\ Loads(i) <= ops[i].number
         /\ countOfMsgInServer' = ops[i].count
         /\ \/ /\ Loads(i) = 0 /\ ops' = Without(i) /\ isLoading' = FALSE
               /\ clean' = FALSE /\ UNCHANGED <<aryMsgs, imapMsgFetchOp>>
            \/ /\ Loads(i) # 0 /\ UNCHANGED isLoading
               /\ aryMsgs' = IF Anew(i) THEN <<>> ELSE aryMsgs
               /\ clean' = IF Anew(i) THEN Alone(i) ELSE clean
               /\ \/ session = NoAccount /\ ops' = Without(i) /\ imapMsgFetchOp' = 0
                  \/ /\ session \in Accounts
                     /\ \E j \in 1..Slots :
                          \E wanted \in Numbers(ops[i].count - Loads(i) + 1,
                                                Loads(i) - Len(aryMsgs') - 1) :
                            /\ Without(i)[j] = NoOp /\ imapMsgFetchOp' = j
                            /\ New("fetch", session, Loads(i), wanted) \in Operations
                            /\ ops' = [Without(i) EXCEPT ![j] =
                                         New("fetch", session, Loads(i), wanted)]
<1>1. /\ ops[i] \in Operations /\ ops[i].kind = "info" /\ ops[i].answered
      /\ countOfMsgInServer' = ops[i].count
  BY ReadyIsOperation, Zenon DEF InfoCompleted, InfoCompletes, Ready, Kinds
<1>2. /\ Loads(i) \in Nat /\ Loads(i) <= ops[i].count
      /\ Loads(i) <= ops[i].number /\ ops[i].count \in Nat
  BY <1>1 DEF Operations, Loads
<1>3. Without(i) \in SlotsType
  BY WithoutType, TypeParts
<1>4. CASE Loads(i) = 0
  <2>1. /\ ops' = Without(i) /\ isLoading' = FALSE
        /\ clean' = FALSE /\ UNCHANGED <<aryMsgs, imapMsgFetchOp>>
    BY <1>4, Zenon DEF InfoCompleted, InfoCompletes, Loads
  <2> QED BY <1>1, <1>2, <1>3, <1>4, <2>1, Zenon
<1>5. CASE Loads(i) # 0
  <2>1. /\ UNCHANGED isLoading
        /\ aryMsgs' = IF Anew(i) THEN <<>> ELSE aryMsgs
        /\ clean' = IF Anew(i) THEN Alone(i) ELSE clean
    BY <1>5, Zenon DEF InfoCompleted, InfoCompletes, Loads, Anew
  <2>2. CASE session = NoAccount
    <3>1. ops' = Without(i) /\ imapMsgFetchOp' = 0
      BY <1>5, <2>2, Zenon DEF InfoCompleted, InfoCompletes, Loads
    <3> QED BY <1>1, <1>2, <1>3, <1>5, <2>1, <2>2, <3>1, Zenon
  <2>3. CASE session # NoAccount
    <3> DEFINE listed == IF Anew(i) THEN 0 ELSE Len(aryMsgs)
               first == ops[i].count - Loads(i) + 1
    <3>1. PICK j \in NextSlot(Without(i)),
               wanted \in Numbers(first, Loads(i) - listed - 1) :
            /\ imapMsgFetchOp' = j
            /\ ops' = [Without(i) EXCEPT ![j] = New("fetch", session, Loads(i), wanted)]
      BY <1>5, <2>3, Zenon DEF InfoCompleted, InfoCompletes, Loads, Anew
    <3>2. session \in Accounts
      BY <2>3 DEF TypeOK
    <3>3. j \in 1..Slots /\ Without(i)[j] = NoOp
      BY NextSlotFree
    <3>4. listed = Len(aryMsgs') /\ listed \in Nat
      BY <2>1 DEF TypeOK
    <3>5. first \in Nat \ {0} /\ Loads(i) - listed - 1 \in Int
      <4> HIDE DEF listed
      <4> QED BY <1>2, <3>4
    <3>6. New("fetch", session, Loads(i), wanted) \in Operations
      <4> HIDE DEF listed, first
      <4>1. wanted \in [first : Nat \ {0}, last : Nat]
        BY <3>1, <3>2, <3>5, NumbersType
      <4> QED BY <1>2, <3>2, <4>1, NewIsOperation DEF Kinds
    <3>7. ops' \in SlotsType
      BY <1>3, <3>1, <3>3, <3>6 DEF SlotsType
    <3>8. wanted \in Numbers(first, Loads(i) - Len(aryMsgs') - 1)
      BY <3>1, <3>4, Zenon
    <3> QED BY <1>1, <1>2, <1>5, <2>1, <3>1, <3>2, <3>3, <3>6, <3>7, <3>8, Zenon
  <2> QED BY <2>2, <2>3
<1> QED BY <1>4, <1>5

LEMMA TypeInfo ==
  ASSUME TypeOK, NEW i \in 1..Slots, InfoCompleted(i)
  PROVE  TypeOK'
<1>1. ServerType' /\ FlagsType'
  <2>1. clean' \in BOOLEAN
    <3>1. Alone(i) \in BOOLEAN
      BY Zenon DEF Alone
    <3> QED BY <3>1, InfoDoes, TypeParts, Zenon DEF FlagsType
  <2>2. isLoading' \in BOOLEAN
    BY InfoDoes, TypeParts, Zenon DEF FlagsType
  <2> QED BY <2>1, <2>2, TypeParts, Zenon DEF InfoCompleted, InfoCompletes, server,
          FlagsType, ServerType
<1>2. CountersType'
  <2>1. countOfMsgInServer' \in Nat
    BY InfoDoes DEF Operations
  <2> QED BY <2>1, TypeParts, Zenon DEF InfoCompleted, InfoCompletes, bounds,
          CountersType
<1>3. ops' \in SlotsType
  BY InfoDoes
<1>4. aryMsgs' \in Seq(Listable)
  <2>1. <<>> \in Seq(Listable)
    OBVIOUS
  <2> QED BY <2>1, InfoDoes, TypeParts, Zenon
<1>5. PointerType'
  <2>1. Without(i) \in SlotsType
    BY WithoutType, TypeParts
  <2>2. CASE imapMsgFetchOp' = imapMsgFetchOp /\ ops' = Without(i)
    <3>1. imapMsgFetchOp # 0 => imapMsgFetchOp \in 1..Slots
      BY TypeParts DEF PointerType
    <3>2. imapMsgFetchOp # 0 => Without(i)[imapMsgFetchOp] = ops[imapMsgFetchOp]
      BY <3>1, PointedStays, InfoDoes
    <3> QED BY <2>2, <3>2, TypeParts, PointerKept
  <2>3. CASE imapMsgFetchOp' = 0
    BY <2>3, InboxAssumption DEF PointerType
  <2>4. ASSUME NEW j \in 1..Slots, NEW number, NEW wanted, imapMsgFetchOp' = j,
               ops' = [Without(i) EXCEPT ![j] = New("fetch", session, number, wanted)]
        PROVE  PointerType'
    <3>1. ops'[j].kind = "fetch"
      BY <2>1, <2>4 DEF SlotsType, New
    <3> QED BY <2>4, <3>1 DEF PointerType
  <2>5. \/ imapMsgFetchOp' = imapMsgFetchOp /\ ops' = Without(i)
        \/ imapMsgFetchOp' = 0
        \/ \E j \in 1..Slots : \E number, wanted :
             /\ imapMsgFetchOp' = j
             /\ ops' = [Without(i) EXCEPT ![j] = New("fetch", session, number, wanted)]
    <3>1. CASE Loads(i) = 0
      BY <3>1, InfoDoes, Zenon
    <3>2. CASE Loads(i) # 0 /\ session = NoAccount
      BY <3>2, InfoDoes, InboxAssumption, Zenon
    <3>3. CASE Loads(i) # 0 /\ session # NoAccount
      <4>1. PICK j \in 1..Slots :
              \E wanted \in Numbers(ops[i].count - Loads(i) + 1,
                                    Loads(i) - Len(aryMsgs') - 1) :
                /\ imapMsgFetchOp' = j
                /\ ops' = [Without(i) EXCEPT ![j] =
                             New("fetch", session, Loads(i), wanted)]
        BY <3>3, InfoDoes, Zenon
      <4> QED BY <4>1, Zenon
    <3> QED BY <3>1, <3>2, <3>3
  <2> QED BY <2>2, <2>3, <2>4, <2>5
<1> QED BY <1>1, <1>2, <1>3, <1>4, <1>5, TypeJoin

\* The completion block of a fetch puts the messages before the others.
LEMMA FetchDoes ==
  ASSUME TypeOK, NEW i \in 1..Slots, FetchCompleted(i)
  PROVE  /\ ops[i] \in Operations /\ ops[i].kind = "fetch" /\ ops[i].answered
         /\ ops' = Without(i) /\ ops' \in SlotsType
         /\ isLoading' = FALSE /\ imapMsgFetchOp' = 0
         /\ Listed(ops[i]) \in Seq(Listable)
         /\ Len(Listed(ops[i])) = Len(ops[i].messages)
         /\ aryMsgs' = Listed(ops[i]) \o aryMsgs
         /\ aryMsgs' \in Seq(Listable)
<1>1. ops[i] \in Operations /\ ops[i].kind = "fetch" /\ ops[i].answered
  BY ReadyIsOperation, Zenon DEF FetchCompleted, FetchCompletes, Ready, Kinds
<1>2. /\ ops' = Without(i) /\ isLoading' = FALSE /\ imapMsgFetchOp' = 0
      /\ aryMsgs' = Listed(ops[i]) \o aryMsgs
  BY Zenon DEF FetchCompleted, FetchCompletes
<1>3. Without(i) \in SlotsType
  BY WithoutType, TypeParts
<1>4. ops[i].messages \in Seq(Nat) /\ ops[i].account \in Accounts
  BY <1>1 DEF Operations
<1>5. Listed(ops[i]) \in Seq(Listable) /\ Len(Listed(ops[i])) = Len(ops[i].messages)
  <2>1. DOMAIN ops[i].messages = 1..Len(ops[i].messages)
    BY <1>4
  <2>2. \A k \in 1..Len(ops[i].messages) :
          Message(ops[i].account, ops[i].messages[k]) \in Listable
    BY <1>4 DEF Message, Listable
  <2> QED BY <1>4, <2>1, <2>2 DEF Listed
<1>6. aryMsgs' \in Seq(Listable)
  BY <1>2, <1>5, TypeParts, ConcatProperties
<1> QED BY <1>1, <1>2, <1>3, <1>5, <1>6, Zenon

LEMMA TypeFetch ==
  ASSUME TypeOK, NEW i \in 1..Slots, FetchCompleted(i)
  PROVE  TypeOK'
<1>1. ServerType' /\ CountersType'
  BY TypeParts, Zenon DEF FetchCompleted, FetchCompletes, server, bounds, ServerType,
     CountersType
<1>2. FlagsType'
  BY FetchDoes, TypeParts, Zenon DEF FetchCompleted, FetchCompletes, FlagsType
<1>3. PointerType'
  <2>1. imapMsgFetchOp' = 0
    BY FetchDoes
  <2> QED BY <2>1, InboxAssumption DEF PointerType
<1> QED BY <1>1, <1>2, <1>3, FetchDoes, TypeJoin

LEMMA TypeSetAccount ==
  ASSUME TypeOK, SetAccount
  PROVE  TypeOK'
<1>1. ops' \in SlotsType
  <2>1. imapMsgFetchOp # 0 => imapMsgFetchOp \in 1..Slots
    BY TypeParts DEF PointerType
  <2> QED BY <2>1, TypeParts, WithoutType DEF SetAccount
<1>2. PointerType'
  BY InboxAssumption DEF SetAccount, PointerType
<1>3. /\ ServerType' /\ FlagsType' /\ CountersType'
      /\ aryMsgs' \in Seq(Listable)
  BY TypeParts, Zenon DEF SetAccount, server, table, bounds, ServerType, FlagsType,
     CountersType
<1> QED BY <1>1, <1>2, <1>3, TypeJoin

\* A new account puts its check into a free slot.
LEMMA FinishDoes ==
  ASSUME TypeOK, NEW a \in Accounts, AccountHasFinishSetting(a)
  PROVE  /\ ops' \in SlotsType
         /\ \/ a = session /\ UNCHANGED <<ops, session, clean>>
            \/ /\ a # session /\ session' = a /\ clean' = FALSE
               /\ \E j \in 1..Slots : \E op \in Operations :
                    /\ ops[j] = NoOp /\ op.kind = "check" /\ op.answered = FALSE
                    /\ op.account = a
                    /\ ops' = [ops EXCEPT ![j] = op]
<1>1. CASE a = session
  BY <1>1, TypeParts, Zenon DEF AccountHasFinishSetting
<1>2. CASE a # session
  <2> DEFINE op == New("check", a, 0, NoRange)
  <2>1. PICK j \in NextSlot(ops) : ops' = [ops EXCEPT ![j] = op]
    BY <1>2 DEF AccountHasFinishSetting
  <2>2. j \in 1..Slots /\ ops[j] = NoOp
    BY NextSlotFree
  <2>3. /\ op \in Operations /\ op.kind = "check" /\ op.answered = FALSE
        /\ op.account = a
    BY NewIsOperation, NoRangeType DEF New, Kinds
  <2> HIDE DEF op
  <2>4. ops' \in SlotsType
    BY <2>1, <2>2, <2>3, TypeParts DEF SlotsType
  <2>5. session' = a /\ clean' = FALSE
    BY <1>2, Zenon DEF AccountHasFinishSetting
  <2> QED BY <1>2, <2>1, <2>2, <2>3, <2>4, <2>5
<1> QED BY <1>1, <1>2

LEMMA TypeFinish ==
  ASSUME TypeOK, NEW a \in Accounts, AccountHasFinishSetting(a)
  PROVE  TypeOK'
<1>1. PointerType'
  <2>1. imapMsgFetchOp # 0 =>
          imapMsgFetchOp \in 1..Slots /\ ops[imapMsgFetchOp] # NoOp
    BY TypeParts DEF PointerType, NoOp
  <2>2. imapMsgFetchOp # 0 => ops'[imapMsgFetchOp] = ops[imapMsgFetchOp]
    <3>1. CASE ops' = ops
      BY <3>1
    <3>2. ASSUME NEW j \in 1..Slots, NEW op, ops[j] = NoOp,
                 ops' = [ops EXCEPT ![j] = op]
          PROVE  imapMsgFetchOp # 0 => ops'[imapMsgFetchOp] = ops[imapMsgFetchOp]
      BY <2>1, <3>2, TypeParts DEF SlotsType
    <3>3. \/ ops' = ops
          \/ \E j \in 1..Slots : \E op : /\ ops[j] = NoOp
                                         /\ ops' = [ops EXCEPT ![j] = op]
      BY FinishDoes, Zenon
    <3> QED BY <3>1, <3>2, <3>3
  <2> QED BY <2>2, TypeParts, PointerKept DEF AccountHasFinishSetting
<1>2. FlagsType'
  <2>1. session' \in Accounts \cup {NoAccount} /\ clean' \in BOOLEAN
    BY FinishDoes, TypeParts, Zenon DEF FlagsType
  <2> QED BY <2>1, TypeParts, Zenon DEF AccountHasFinishSetting, table, FlagsType
<1>3. CountersType'
  <2>1. settings' \in 0..Settings
    BY InboxAssumption, TypeParts DEF AccountHasFinishSetting, CountersType
  <2> QED BY <2>1, TypeParts, Zenon DEF AccountHasFinishSetting, table, CountersType
<1>4. ServerType' /\ aryMsgs' \in Seq(Listable)
  BY TypeParts, Zenon DEF AccountHasFinishSetting, server, table, ServerType
<1> QED BY <1>1, <1>2, <1>3, <1>4, FinishDoes, TypeJoin

\* "Load more" counts again.
LEMMA TouchDoes ==
  ASSUME TypeOK, Touch
  PROVE  /\ ~isLoading /\ isLoading' = TRUE /\ ops' \in SlotsType
         /\ Len(aryMsgs) \in Nat /\ Len(aryMsgs) < countOfMsgInServer
         /\ \/ session = NoAccount /\ ops' = ops
            \/ /\ session \in Accounts
               /\ \E j \in 1..Slots :
                    /\ ops[j] = NoOp
                    /\ ops' = [ops EXCEPT ![j] =
                                 New("info", session, Len(aryMsgs) + Page, NoRange)]
<1>1. /\ ~isLoading /\ Len(aryMsgs) < countOfMsgInServer
      /\ LoadMsg(ops, Len(aryMsgs) + Page)
  BY Zenon DEF Touch, LoadMore
<1>2. Len(aryMsgs) \in Nat /\ Len(aryMsgs) + Page \in Nat
  BY InboxAssumption DEF TypeOK
<1>3. session \in Accounts \cup {NoAccount}
  BY DEF TypeOK
<1> QED BY <1>1, <1>2, <1>3, LoadMsgDoes, TypeParts

LEMMA TypeTouch ==
  ASSUME TypeOK, Touch
  PROVE  TypeOK'
<1>1. PointerType'
  <2>1. imapMsgFetchOp # 0 =>
          imapMsgFetchOp \in 1..Slots /\ ops[imapMsgFetchOp] # NoOp
    BY TypeParts DEF PointerType, NoOp
  <2>2. imapMsgFetchOp # 0 => ops'[imapMsgFetchOp] = ops[imapMsgFetchOp]
    BY <2>1, TouchDoes, TypeParts DEF SlotsType
  <2> QED BY <2>2, TypeParts, PointerKept DEF Touch, LoadMore
<1>2. FlagsType'
  BY TouchDoes, TypeParts, Zenon DEF Touch, LoadMore, table, FlagsType
<1>3. /\ ServerType' /\ CountersType' /\ aryMsgs' \in Seq(Listable)
  BY TypeParts, Zenon DEF Touch, LoadMore, server, table, bounds, ServerType,
     CountersType
<1> QED BY <1>1, <1>2, <1>3, TouchDoes, TypeJoin

LEMMA TypeStutter ==
  ASSUME TypeOK, UNCHANGED vars
  PROVE  TypeOK'
BY Zenon DEF TypeOK, vars, server, table, bounds

LEMMA TypeNext == TypeOK /\ [Next]_vars => TypeOK'
<1> SUFFICES ASSUME TypeOK, [Next]_vars PROVE TypeOK'
  OBVIOUS
<1>1. CASE \E a \in Accounts : Arrive(a) \/ Expunge(a)
  BY <1>1, TypeArrive, TypeExpunge
<1>2. CASE \E i \in 1..Slots : Answer(i) \/ Completed(i)
  BY <1>2, TypeAnswer, TypeCheck, TypeInfo, TypeFetch DEF Completed
<1>3. CASE User
  BY <1>3, TypeSetAccount, TypeTouch, TypeFinish DEF User
<1>4. CASE Rests \/ UNCHANGED vars
  BY <1>4, TypeStutter DEF Rests
<1> QED BY <1>1, <1>2, <1>3, <1>4, Zenon DEF Next

\* In every reachable state the variables have their types, and the pointer to
\* the fetch is to one that is under way, or to nothing.
THEOREM InboxTypeCorrect == Spec => []TypeOK
BY TypeInit, TypeNext, PTL DEF Spec

-----------------------------------------------------------------------------
(* What an answer counted is still in the mailbox.                         *)

LEMMA CountsKept ==
  ASSUME CountsInv, mailbox' = mailbox,
         \A i \in 1..Slots : ops'[i] = ops[i] \/ ops'[i] = NoOp \/ ~ops'[i].answered
  PROVE  CountsInv'
BY DEF CountsInv

\* Removing an operation answers none, and neither does adding one.
LEMMA WithoutAnswers ==
  ASSUME TypeOK, NEW i \in 1..Slots, NEW k \in 1..Slots
  PROVE  Without(i)[k] = ops[k] \/ Without(i)[k] = NoOp
BY WithoutType, TypeParts

LEMMA AddingAnswers ==
  ASSUME NEW before \in SlotsType, NEW j \in 1..Slots, NEW kind, NEW account,
         NEW number, NEW wanted, NEW k \in 1..Slots,
         NEW after, after = [before EXCEPT ![j] = New(kind, account, number, wanted)]
  PROVE  after[k] = before[k] \/ ~after[k].answered
BY DEF SlotsType, New

LEMMA CountsInit == Init => CountsInv
BY DEF Init, CountsInv

LEMMA CountsArrive ==
  ASSUME TypeOK, CountsInv, NEW a \in Accounts, Arrive(a)
  PROVE  CountsInv'
<1>1. \A b \in Accounts : Len(mailbox[b]) <= Len(mailbox'[b])
  <2>1. Len(Append(mailbox[a], uidNext[a])) = Len(mailbox[a]) + 1
    BY AppendProperties DEF TypeOK
  <2>2. \A b \in Accounts : Len(mailbox[b]) \in Nat
    BY DEF TypeOK
  <2> QED BY <2>1, <2>2 DEF Arrive, TypeOK
<1>2. \A b \in Accounts : Len(mailbox[b]) \in Nat /\ Len(mailbox'[b]) \in Nat
  <2>1. mailbox \in [Accounts -> Seq(Nat)] /\ mailbox' \in [Accounts -> Seq(Nat)]
    BY TypeArrive, Zenon DEF TypeOK
  <2> QED BY <2>1
<1>3. ASSUME NEW i \in 1..Slots, ops[i] # NoOp
      PROVE  ops[i].account \in Accounts /\ ops[i].count \in Nat
  BY <1>3 DEF TypeOK, Operations
<1>4. ops' = ops
  BY DEF Arrive
<1> QED BY <1>1, <1>2, <1>3, <1>4 DEF CountsInv

LEMMA CountsExpunge ==
  ASSUME TypeOK, CountsInv, NEW a \in Accounts, Expunge(a)
  PROVE  CountsInv'
<1> SUFFICES ASSUME NEW i \in 1..Slots, ops'[i] # NoOp, ops'[i].answered, ops'[i].quiet
             PROVE  ops'[i].count <= Len(mailbox'[ops'[i].account])
  BY DEF CountsInv
<1>1. ops[i] # NoOp /\ ops[i] \in Operations
  BY ExpungeKeeps DEF TypeOK, SlotsType
<1>2. /\ ops'[i].answered = ops[i].answered /\ ops'[i].count = ops[i].count
      /\ ops'[i].account = ops[i].account
  <2>1. ops'[i] = [ops[i] EXCEPT !.quiet = ops'[i].quiet]
    BY <1>1, ExpungeKeeps, TypeParts
  <2> QED BY <1>1, <2>1 DEF Operations
<1>3. ops[i].quiet /\ ops[i].account # a
  BY <1>1, <1>2, ExpungeKeeps, TypeParts
<1>4. mailbox'[ops[i].account] = mailbox[ops[i].account]
  <2>1. PICK k \in 1..Len(mailbox[a]) :
          mailbox' = [mailbox EXCEPT ![a] = RemoveAt(mailbox[a], k)]
    BY DEF Expunge
  <2> QED BY <1>1, <1>3, <2>1 DEF Operations, TypeOK
<1> QED BY <1>1, <1>2, <1>3, <1>4 DEF CountsInv

LEMMA CountsAnswer ==
  ASSUME TypeOK, CountsInv, NEW i \in 1..Slots, Answer(i)
  PROVE  CountsInv'
<1>1. mailbox' = mailbox
  BY DEF Answer, server
<1>2. ops'[i].account = ops[i].account
  BY AnswerKeeps
<1>3. ops'[i].count <= Len(mailbox[ops'[i].account])
  BY <1>2, AnswerDoes
<1>4. \A k \in 1..Slots : k # i => ops'[k] = ops[k]
  BY AnswerDoes
<1> QED BY <1>1, <1>3, <1>4 DEF CountsInv

LEMMA CountsCompleted ==
  ASSUME TypeOK, CountsInv, NEW i \in 1..Slots, Completed(i)
  PROVE  CountsInv'
<1>1. Without(i) \in SlotsType
  BY WithoutType, TypeParts
<1>2. \/ ops' = Without(i)
      \/ \E j \in 1..Slots : \E kind, account, number, wanted :
           ops' = [Without(i) EXCEPT ![j] = New(kind, account, number, wanted)]
  <2>1. CASE CheckCompleted(i)
    <3>1. CASE ops[i].ok
      <4>1. LoadMsg(Without(i), Page) /\ Page \in Nat
        BY <2>1, <3>1, InboxAssumption, Zenon DEF CheckCompleted
      <4>2. session \in Accounts \cup {NoAccount}
        BY DEF TypeOK
      <4>3. \/ ops' = Without(i)
            \/ \E j \in 1..Slots :
                 ops' = [Without(i) EXCEPT ![j] = New("info", session, Page, NoRange)]
        BY <1>1, <4>1, <4>2, LoadMsgDoes
      <4> QED BY <4>3, Zenon
    <3>2. CASE ~ops[i].ok
      BY <2>1, <3>2, Zenon DEF CheckCompleted
    <3> QED BY <3>1, <3>2
  <2>2. CASE InfoCompleted(i)
    <3>1. CASE ops' = Without(i)
      BY <3>1
    <3>2. CASE ops' # Without(i)
      <4>1. PICK j \in 1..Slots :
              \E wanted \in Numbers(ops[i].count - Loads(i) + 1,
                                    Loads(i) - Len(aryMsgs') - 1) :
                ops' = [Without(i) EXCEPT ![j] =
                          New("fetch", session, Loads(i), wanted)]
        BY <2>2, <3>2, InfoDoes, Zenon
      <4> QED BY <4>1, Zenon
    <3> QED BY <3>1, <3>2
  <2>3. CASE FetchCompleted(i)
    BY <2>3, FetchDoes
  <2> QED BY <2>1, <2>2, <2>3 DEF Completed
<1>3. \A k \in 1..Slots : ops'[k] = ops[k] \/ ops'[k] = NoOp \/ ~ops'[k].answered
  BY <1>1, <1>2, WithoutAnswers, AddingAnswers
<1>4. mailbox' = mailbox
  BY Zenon DEF Completed, CheckCompleted, InfoCompleted, InfoCompletes,
     FetchCompleted, FetchCompletes, server
<1> QED BY <1>3, <1>4, CountsKept

LEMMA CountsUser ==
  ASSUME TypeOK, CountsInv, User
  PROVE  CountsInv'
<1>1. mailbox' = mailbox
  BY Zenon DEF User, SetAccount, Touch, LoadMore, AccountHasFinishSetting, server
<1>2. ASSUME NEW k \in 1..Slots
      PROVE  ops'[k] = ops[k] \/ ops'[k] = NoOp \/ ~ops'[k].answered
  <2>1. CASE SetAccount
    <3>1. imapMsgFetchOp # 0 => imapMsgFetchOp \in 1..Slots
      BY TypeParts DEF PointerType
    <3> QED BY <2>1, <3>1, WithoutAnswers DEF SetAccount
  <2>2. CASE Touch
    BY <2>2, TouchDoes, TypeParts, AddingAnswers
  <2>3. ASSUME NEW a \in Accounts, AccountHasFinishSetting(a)
        PROVE  ops'[k] = ops[k] \/ ~ops'[k].answered
    <3>1. CASE ops' = ops
      BY <3>1
    <3>2. ASSUME NEW j \in 1..Slots, NEW op, op.answered = FALSE,
                 ops' = [ops EXCEPT ![j] = op]
          PROVE  ops'[k] = ops[k] \/ ~ops'[k].answered
      BY <3>2, TypeParts DEF SlotsType
    <3>3. \/ ops' = ops
          \/ \E j \in 1..Slots : \E op : /\ op.answered = FALSE
                                         /\ ops' = [ops EXCEPT ![j] = op]
      BY <2>3, FinishDoes, Zenon
    <3> QED BY <3>1, <3>2, <3>3
  <2> QED BY <2>1, <2>2, <2>3 DEF User
<1> QED BY <1>1, <1>2, CountsKept

LEMMA CountsNext == TypeOK /\ CountsInv /\ [Next]_vars => CountsInv'
<1> SUFFICES ASSUME TypeOK, CountsInv, [Next]_vars PROVE CountsInv'
  OBVIOUS
<1>1. CASE \E a \in Accounts : Arrive(a) \/ Expunge(a)
  BY <1>1, CountsArrive, CountsExpunge
<1>2. CASE \E i \in 1..Slots : Answer(i) \/ Completed(i)
  BY <1>2, CountsAnswer, CountsCompleted
<1>3. CASE User
  BY <1>3, CountsUser
<1>4. CASE Rests \/ UNCHANGED vars
  BY <1>4, Zenon DEF Rests, vars, server, CountsInv
<1> QED BY <1>1, <1>2, <1>3, <1>4, Zenon DEF Next

-----------------------------------------------------------------------------
(* One load at a time.                                                     *)

LEMMA GuardedInit == Init => GuardedInv
<1> SUFFICES ASSUME Init PROVE Guarded
  BY DEF GuardedInv
<1>1. \A i \in 1..Slots : ops[i] = NoOp /\ ops[i].kind = "none"
  BY NoOpIsNone DEF Init
<1> QED BY <1>1 DEF Init, Guarded, OneAtATime

\* Nothing that guards a load changes.
LEMMA GuardedKept ==
  ASSUME Guarded,
         UNCHANGED <<session, isLoading, loginShown, countOfMsgInServer>>,
         \A i \in 1..Slots :
           ops'[i].kind = ops[i].kind /\ (ops'[i] = NoOp) = (ops[i] = NoOp)
  PROVE  Guarded'
BY DEF Guarded, OneAtATime

\* One operation at a time, and it takes the place of another or of none.
LEMMA OneReplaced ==
  ASSUME OneAtATime, ops \in SlotsType, NEW i \in 1..Slots, ops[i] # NoOp
  PROVE  \A k \in 1..Slots : Without(i)[k] = NoOp
BY WithoutType DEF OneAtATime

LEMMA OneAdded ==
  ASSUME NEW before \in SlotsType, \A k \in 1..Slots : before[k] = NoOp,
         NEW j \in 1..Slots, NEW op \in Operations,
         ops' = [before EXCEPT ![j] = op]
  PROVE  /\ OneAtATime' /\ ops'[j] = op
         /\ \A k \in 1..Slots : k # j => ops'[k] = NoOp
BY NoOpIsNone DEF SlotsType, OneAtATime

LEMMA AnswerKind ==
  ASSUME TypeOK, NEW i \in 1..Slots, Answer(i)
  PROVE  ops'[i].kind = ops[i].kind
BY AnswerKeeps

LEMMA GuardedServer ==
  ASSUME TypeOK, Guarded,
         \/ \E a \in Accounts : Arrive(a) \/ Expunge(a)
         \/ \E i \in 1..Slots : Answer(i)
  PROVE  Guarded'
<1>1. ASSUME NEW a \in Accounts, Arrive(a)
      PROVE  Guarded'
  BY <1>1, GuardedKept DEF Arrive, table
<1>2. ASSUME NEW a \in Accounts, Expunge(a)
      PROVE  Guarded'
  BY <1>2, GuardedKept, ExpungeKeeps, TypeParts DEF Expunge, table
<1>3. ASSUME NEW i \in 1..Slots, Answer(i)
      PROVE  Guarded'
  <2>1. /\ ops'[i].kind = ops[i].kind
        /\ ops'[i] # NoOp /\ ops[i] # NoOp
    <3>1. ops[i] \in Operations /\ ops'[i] \in Operations
      BY <1>3, AnswerDoes
    <3> QED BY <1>3, <3>1, AnswerKind, NoOpIsNone
  <2>2. \A k \in 1..Slots : k # i => ops'[k] = ops[k]
    BY <1>3, AnswerDoes
  <2> QED BY <1>3, <2>1, <2>2, GuardedKept DEF Answer, table
<1> QED BY <1>1, <1>2, <1>3

LEMMA GuardedCheck ==
  ASSUME TypeOK, Guarded, NEW i \in 1..Slots, CheckCompleted(i)
  PROVE  Guarded'
<1>1. ops[i] \in Operations /\ ops[i].kind = "check" /\ ops[i] # NoOp
  BY ReadyIsOperation DEF CheckCompleted, Ready, Kinds
<1>2. Without(i) \in SlotsType /\ \A k \in 1..Slots : Without(i)[k] = NoOp
  BY <1>1, OneReplaced, WithoutType, TypeParts DEF Guarded
<1>3. /\ session \in Accounts /\ ~loginShown /\ countOfMsgInServer = 0
      /\ UNCHANGED <<countOfMsgInServer, loginShown>>
  <2>1. session # NoAccount /\ countOfMsgInServer = 0 /\ ~loginShown
    BY <1>1, Zenon DEF Guarded
  <2> QED BY <2>1 DEF TypeOK, CheckCompleted
<1>4. CASE ops[i].ok
  <2>1. LoadMsg(Without(i), Page) /\ Page \in Nat
    BY <1>4, InboxAssumption, Zenon DEF CheckCompleted
  <2>2. session # NoAccount
    BY <1>3, InboxAssumption
  <2>3. isLoading' = TRUE /\ session' = session
    BY <1>4, Zenon DEF CheckCompleted, LoadMsg
  <2>4. PICK j \in 1..Slots :
          ops' = [Without(i) EXCEPT ![j] = New("info", session, Page, NoRange)]
    BY <1>2, <1>3, <2>1, <2>2, LoadMsgDoes
  <2>5. /\ New("info", session, Page, NoRange) \in Operations
        /\ New("info", session, Page, NoRange).kind = "info"
    BY <1>3, <2>1, NewIsOperation, NoRangeType DEF New, Kinds
  <2>6. /\ OneAtATime' /\ ops'[j].kind = "info"
        /\ \A k \in 1..Slots : k # j => ops'[k] = NoOp
    BY <1>2, <2>4, <2>5, OneAdded
  <2>7. \A k \in 1..Slots : ops'[k].kind # "check"
    BY <2>6, NoOpIsNone
  <2> QED BY <1>3, <2>2, <2>3, <2>6, <2>7 DEF Guarded
<1>5. CASE ~ops[i].ok
  <2>1. ops' = Without(i) /\ isLoading' = isLoading
    BY <1>5, Zenon DEF CheckCompleted
  <2>2. \A k \in 1..Slots : ops'[k] = NoOp /\ ops'[k].kind = "none"
    BY <1>2, <2>1, NoOpIsNone
  <2>3. \A k \in 1..Slots : ops[k] # NoOp => k = i
    BY <1>1 DEF Guarded, OneAtATime
  <2>4. \A k \in 1..Slots : ops[k].kind \notin {"info", "fetch"}
    BY <1>1, <2>3, NoOpIsNone
  <2>5. isLoading' = FALSE
    BY <2>1, <2>4, TypeParts, Zenon DEF Guarded, FlagsType
  <2> QED BY <1>3, <2>2, <2>5 DEF Guarded, OneAtATime
<1> QED BY <1>4, <1>5

LEMMA GuardedInfo ==
  ASSUME TypeOK, Guarded, NEW i \in 1..Slots, InfoCompleted(i)
  PROVE  Guarded'
<1>1. ops[i] \in Operations /\ ops[i].kind = "info" /\ ops[i] # NoOp
  BY InfoDoes, NoOpIsNone
<1>2. Without(i) \in SlotsType /\ \A k \in 1..Slots : Without(i)[k] = NoOp
  BY <1>1, OneReplaced, WithoutType, TypeParts DEF Guarded
<1>3. /\ session # NoAccount /\ ~loginShown /\ isLoading
      /\ session' = session /\ loginShown' = loginShown
  <2>1. session # NoAccount /\ ~loginShown
    BY <1>1, Zenon DEF Guarded
  <2>2. isLoading
    BY <1>1 DEF Guarded
  <2> QED BY <2>1, <2>2, Zenon DEF InfoCompleted, InfoCompletes
<1>4. CASE Loads(i) = 0
  <2>1. ops' = Without(i) /\ isLoading' = FALSE
    BY <1>4, InfoDoes, Zenon
  <2>2. \A k \in 1..Slots : ops'[k] = NoOp /\ ops'[k].kind = "none"
    BY <1>2, <2>1, NoOpIsNone
  <2> QED BY <1>3, <2>1, <2>2 DEF Guarded, OneAtATime
<1>5. CASE Loads(i) # 0
  <2>1. PICK j \in 1..Slots :
          \E wanted \in Numbers(ops[i].count - Loads(i) + 1,
                                Loads(i) - Len(aryMsgs') - 1) :
            /\ New("fetch", session, Loads(i), wanted) \in Operations
            /\ ops' = [Without(i) EXCEPT ![j] =
                         New("fetch", session, Loads(i), wanted)]
    BY <1>3, <1>5, InfoDoes, Zenon
  <2>2. PICK wanted \in Numbers(ops[i].count - Loads(i) + 1,
                                Loads(i) - Len(aryMsgs') - 1) :
          /\ New("fetch", session, Loads(i), wanted) \in Operations
          /\ ops' = [Without(i) EXCEPT ![j] =
                       New("fetch", session, Loads(i), wanted)]
    BY <2>1
  <2>3. New("fetch", session, Loads(i), wanted).kind = "fetch"
    BY DEF New
  <2>4. /\ OneAtATime' /\ ops'[j].kind = "fetch"
        /\ \A k \in 1..Slots : k # j => ops'[k] = NoOp
    BY <1>2, <2>2, <2>3, OneAdded
  <2>5. \A k \in 1..Slots : ops'[k].kind # "check"
    BY <2>4, NoOpIsNone
  <2>6. isLoading' = isLoading
    BY <1>5, InfoDoes, Zenon
  <2> QED BY <1>3, <2>4, <2>5, <2>6 DEF Guarded
<1> QED BY <1>4, <1>5

LEMMA GuardedFetch ==
  ASSUME TypeOK, Guarded, NEW i \in 1..Slots, FetchCompleted(i)
  PROVE  Guarded'
<1>1. ops[i] # NoOp
  BY FetchDoes, NoOpIsNone
<1>2. \A k \in 1..Slots : ops'[k] = NoOp /\ ops'[k].kind = "none"
  <2>1. OneAtATime /\ ops \in SlotsType
    BY TypeParts, Zenon DEF Guarded
  <2>2. \A k \in 1..Slots : Without(i)[k] = NoOp
    BY <1>1, <2>1, OneReplaced
  <2>3. ops' = Without(i)
    BY FetchDoes
  <2> QED BY <2>2, <2>3, NoOpIsNone
<1>3. /\ isLoading' = FALSE
      /\ session # NoAccount /\ ~loginShown
      /\ session' = session /\ loginShown' = loginShown
  BY <1>1, Zenon DEF Guarded, FetchCompleted, FetchCompletes
<1> QED BY <1>2, <1>3 DEF Guarded, OneAtATime

LEMMA GuardedTouch ==
  ASSUME TypeOK, Guarded, Touch
  PROVE  Guarded'
<1>1. ~isLoading /\ isLoading' = TRUE /\ countOfMsgInServer # 0
  BY TouchDoes, TypeParts DEF CountersType
<1>2. \A k \in 1..Slots : ops[k] = NoOp
  <2>1. \A k \in 1..Slots : ops[k].kind \notin Kinds
    BY <1>1 DEF Guarded, Kinds
  <2> QED BY <2>1, TypeParts DEF SlotsType, Operations
<1>3. session # NoAccount /\ ~loginShown
  BY <1>1, Zenon DEF Guarded
<1>4. UNCHANGED <<session, loginShown, countOfMsgInServer>>
  BY Zenon DEF Touch, LoadMore, table
<1>5. PICK j \in 1..Slots :
        ops' = [ops EXCEPT ![j] = New("info", session, Len(aryMsgs) + Page, NoRange)]
  BY <1>3, TouchDoes
<1>6. /\ New("info", session, Len(aryMsgs) + Page, NoRange) \in Operations
      /\ New("info", session, Len(aryMsgs) + Page, NoRange).kind = "info"
  <2>1. Len(aryMsgs) + Page \in Nat /\ session \in Accounts
    BY <1>3, TouchDoes, InboxAssumption
  <2> QED BY <2>1, NewIsOperation, NoRangeType DEF New, Kinds
<1>7. /\ OneAtATime' /\ ops'[j].kind = "info"
      /\ \A k \in 1..Slots : k # j => ops'[k] = NoOp
  <2> DEFINE op == New("info", session, Len(aryMsgs) + Page, NoRange)
  <2>1. op \in Operations /\ op.kind = "info" /\ ops' = [ops EXCEPT ![j] = op]
    BY <1>5, <1>6
  <2> HIDE DEF op
  <2>2. ops \in SlotsType
    BY TypeParts, Zenon
  <2> QED BY <1>2, <2>1, <2>2, OneAdded
<1>8. \A k \in 1..Slots : ops'[k].kind # "check"
  BY <1>7, NoOpIsNone
<1> QED BY <1>1, <1>3, <1>4, <1>7, <1>8 DEF Guarded

LEMMA GuardedFinish ==
  ASSUME TypeOK, Guarded, NEW a \in Accounts, AccountHasFinishSetting(a)
  PROVE  Guarded'
<1>1. /\ loginShown /\ session = NoAccount /\ countOfMsgInServer = 0
      /\ \A k \in 1..Slots : ops[k] = NoOp
  BY Zenon DEF AccountHasFinishSetting, Guarded
<1>2. a # session /\ a # NoAccount
  BY <1>1, InboxAssumption
<1>3. session' = a
  BY <1>2, FinishDoes
<1>4. PICK j \in 1..Slots, op \in Operations :
        op.kind = "check" /\ ops' = [ops EXCEPT ![j] = op]
  BY <1>2, FinishDoes
<1>5. /\ OneAtATime' /\ ops'[j].kind = "check"
      /\ \A k \in 1..Slots : k # j => ops'[k] = NoOp
  BY <1>1, <1>4, OneAdded, TypeParts
<1>6. \A k \in 1..Slots : ops'[k].kind \notin {"info", "fetch"}
  BY <1>5, NoOpIsNone
<1>7. /\ loginShown' = FALSE /\ isLoading' = isLoading
      /\ countOfMsgInServer' = countOfMsgInServer
  BY Zenon DEF AccountHasFinishSetting, table
<1>8. isLoading = FALSE
  <2>1. \A k \in 1..Slots : ops[k].kind \notin {"info", "fetch"}
    BY <1>1, NoOpIsNone
  <2> QED BY <2>1, TypeParts, Zenon DEF Guarded, FlagsType
<1> QED BY <1>1, <1>2, <1>3, <1>5, <1>6, <1>7, <1>8 DEF Guarded

\* What was disturbed stays so.
LEMMA UndisturbedFalls ==
  ASSUME [Next]_vars, undisturbed'
  PROVE  undisturbed
<1>1. CASE \E a \in Accounts : Arrive(a) \/ Expunge(a)
  BY <1>1, Zenon DEF Arrive, Expunge
<1>2. CASE \E i \in 1..Slots : Answer(i) \/ Completed(i)
  BY <1>2, Zenon DEF Answer, Completed, CheckCompleted, InfoCompleted,
     InfoCompletes, FetchCompleted, FetchCompletes
<1>3. CASE User
  BY <1>3, Zenon DEF User, SetAccount, Touch, LoadMore, AccountHasFinishSetting
<1>4. CASE Rests \/ UNCHANGED vars
  BY <1>4, Zenon DEF Rests, vars
<1> QED BY <1>1, <1>2, <1>3, <1>4, Zenon DEF Next

LEMMA GuardedNext == TypeOK /\ GuardedInv /\ [Next]_vars => GuardedInv'
<1> SUFFICES ASSUME TypeOK, Guarded, [Next]_vars, undisturbed'
             PROVE  Guarded'
  BY UndisturbedFalls DEF GuardedInv
<1>1. CASE \E a \in Accounts : Arrive(a) \/ Expunge(a)
  BY <1>1, GuardedServer
<1>2. CASE \E i \in 1..Slots : Answer(i) \/ Completed(i)
  BY <1>2, GuardedServer, GuardedCheck, GuardedInfo, GuardedFetch DEF Completed
<1>3. CASE User
  <2>1. ~SetAccount
    BY Zenon DEF SetAccount
  <2> QED BY <1>3, <2>1, GuardedTouch, GuardedFinish DEF User
<1>4. CASE Rests \/ UNCHANGED vars
  BY <1>4, GuardedKept DEF Rests, vars, table
<1> QED BY <1>1, <1>2, <1>3, <1>4, Zenon DEF Next

LEMMA GuardedIsOneLoad == TypeOK /\ GuardedInv => OneLoadAtATime
<1> SUFFICES ASSUME TypeOK, Guarded
             PROVE  /\ Cardinality(InUse({"info", "fetch"})) <= 1
                    /\ isLoading <=> InUse({"info", "fetch"}) # {}
  BY DEF GuardedInv, OneLoadAtATime
<1> DEFINE L == InUse({"info", "fetch"})
<1>1. isLoading <=> L # {}
  BY DEF Guarded, InUse
<1>2. \A i, j \in L : i = j
  <2>1. \A i \in L : i \in 1..Slots /\ ops[i] # NoOp
    BY NoOpIsNone DEF InUse
  <2> QED BY <2>1 DEF Guarded, OneAtATime
<1>3. Cardinality(L) <= 1
  <2> HIDE DEF L
  <2>1. CASE L = {}
    BY <2>1, FS_EmptySet
  <2>2. CASE L # {}
    <3>1. PICK i : i \in L
      BY <2>2
    <3>2. L = {i}
      BY <1>2, <3>1
    <3> QED BY <3>2, FS_Singleton
  <2> QED BY <2>1, <2>2
<1> QED BY <1>1, <1>3

\* As long as the account is not set a second time there is one load under way at
\* most, and isLoading is set exactly while there is.
THEOREM LoadsOneAtATime == Spec => []OneLoadAtATime
<1>1. TypeOK /\ GuardedInv /\ [Next]_vars => (TypeOK /\ GuardedInv)'
  BY TypeNext, GuardedNext
<1> QED BY <1>1, TypeInit, GuardedInit, GuardedIsOneLoad, PTL DEF Spec

-----------------------------------------------------------------------------
(* The list is the newest messages.                                        *)

\* The same operation, but for whether a message was expunged.
Alike(o, p) ==
  /\ o.kind = p.kind /\ o.account = p.account /\ o.number = p.number
  /\ o.wanted = p.wanted /\ o.answered = p.answered /\ o.ok = p.ok
  /\ o.messages = p.messages

LEMMA CleanTypes ==
  ASSUME TypeOK, Clean
  PROVE  /\ session \in Accounts /\ mailbox[session] \in Seq(Nat)
         /\ Len(mailbox[session]) \in Nat /\ countOfMsgInServer \in Nat
         /\ aryMsgs \in Seq(Listable) /\ Len(aryMsgs) \in Nat
         /\ \A i \in 1..Slots : ops[i] # NoOp => ops[i] \in Operations
<1>1. session \in Accounts /\ mailbox \in [Accounts -> Seq(Nat)]
  BY DEF TypeOK, Clean
<1>2. countOfMsgInServer \in Nat /\ aryMsgs \in Seq(Listable)
  BY TypeParts DEF CountersType
<1>3. ops \in SlotsType
  BY TypeParts
<1>4. mailbox[session] \in Seq(Nat) /\ Len(mailbox[session]) \in Nat /\ Len(aryMsgs) \in Nat
  BY <1>1, <1>2
<1>5. \A i \in 1..Slots : ops[i] # NoOp => ops[i] \in Operations
  BY <1>3 DEF SlotsType
<1> QED BY <1>1, <1>2, <1>4, <1>5

\* A fetch keeps what it was given when messages are added to the mailbox.
LEMMA FetchesKept ==
  ASSUME TypeOK, Clean, NEW i \in 1..Slots, ops[i] # NoOp, Fetches(ops[i]),
         Len(aryMsgs) < ops[i].number,
         UNCHANGED <<session, aryMsgs, countOfMsgInServer>>,
         \A k \in 1..Len(mailbox[session]) :
           mailbox'[session][k] = mailbox[session][k],
         Alike(ops'[i], ops[i])
  PROVE  Fetches(ops[i])'
<1> DEFINE op == ops[i]
           listed == Len(aryMsgs)
           count == countOfMsgInServer
<1>1. /\ op.number \in Nat /\ listed \in Nat /\ count \in Nat
      /\ Len(op.messages) \in Nat /\ Len(mailbox[session]) \in Nat
      /\ count <= Len(mailbox[session])
  BY CleanTypes DEF Operations, Clean
<1>2. /\ op.number <= count
      /\ op.wanted.first = count - op.number + 1
      /\ op.wanted.last = count - listed
      /\ op.answered /\ op.ok =>
           /\ Len(op.messages) = op.number - listed
           /\ \A k \in 1..Len(op.messages) :
                op.messages[k] = mailbox[session][op.wanted.first + k - 1]
      /\ op.answered /\ ~op.ok => op.messages = <<>>
  BY DEF Fetches
<1>3. ASSUME op.answered, op.ok, NEW k \in 1..Len(op.messages)
      PROVE  op.messages[k] = mailbox'[session][op.wanted.first + k - 1]
  <2> HIDE DEF op, listed, count
  <2>1. Len(op.messages) = op.number - listed
    BY <1>2, <1>3, Zenon
  <2>2. op.wanted.first + k - 1 \in 1..Len(mailbox[session])
    <3>1. op.number <= count /\ op.wanted.first = count - op.number + 1
      BY <1>2, Zenon
    <3>2. k \in Nat /\ 1 <= k /\ k <= op.number
      BY <1>1, <1>3, <2>1
    <3>3. count - op.number + k \in 1..Len(mailbox[session])
      BY <1>1, <3>1, <3>2
    <3>4. op.wanted.first + k - 1 = count - op.number + k
      BY <1>1, <3>1, <3>2
    <3> QED BY <3>3, <3>4, Zenon
  <2>3. op.messages[k] = mailbox[session][op.wanted.first + k - 1]
    BY <1>2, <1>3, Zenon
  <2> QED BY <2>2, <2>3
<1> QED BY <1>2, <1>3 DEF Fetches, Alike

LEMMA NewestSame ==
  ASSUME NEW list, NEW account, NEW box, NEW other, NEW count \in Nat,
         Len(list) \in Nat, count <= Len(box), Len(box) \in Nat,
         NewestOf(list, account, box, count),
         \A k \in 1..Len(box) : other[k] = box[k]
  PROVE  NewestOf(list, account, other, count)
<1> DEFINE newest == (count - Len(list) + 1)..count
<1>1. Len(list) <= count
  BY Zenon DEF NewestOf
<1>2. \A k \in newest : other[k] = box[k]
  BY <1>1
<1> HIDE DEF newest
<1>3. {Message(account, other[k]) : k \in newest}
        = {Message(account, box[k]) : k \in newest}
  BY <1>2
<1> QED BY <1>1, <1>3, Zenon DEF NewestOf, newest

LEMMA NewestKept ==
  ASSUME TypeOK, Clean, UNCHANGED <<session, aryMsgs, countOfMsgInServer>>,
         \A k \in 1..Len(mailbox[session]) :
           mailbox'[session][k] = mailbox[session][k]
  PROVE  Newest'
<1>1. /\ NewestOf(aryMsgs, session, mailbox[session], countOfMsgInServer)
      /\ countOfMsgInServer <= Len(mailbox[session])
  BY Zenon DEF Clean, Newest
<1>2. NewestOf(aryMsgs, session, mailbox'[session], countOfMsgInServer)
  BY <1>1, CleanTypes, NewestSame
<1> QED BY <1>2 DEF Newest

\* What does not touch the list, nor the messages counted, keeps it.
LEMMA CleanKept ==
  ASSUME TypeOK, Clean,
         UNCHANGED <<session, aryMsgs, countOfMsgInServer, isLoading>>,
         countOfMsgInServer <= Len(mailbox'[session]),
         \A k \in 1..Len(mailbox[session]) :
           mailbox'[session][k] = mailbox[session][k],
         \A i \in 1..Slots :
           ops'[i] = NoOp \/ (ops[i] # NoOp /\ Alike(ops'[i], ops[i]))
  PROVE  Clean'
<1>1. ASSUME NEW i \in 1..Slots, ops'[i] # NoOp
      PROVE  Extends(ops[i])'
  <2>1. ops[i] # NoOp /\ Alike(ops'[i], ops[i]) /\ Extends(ops[i])
    BY <1>1 DEF Clean
  <2>2. ops[i].kind = "fetch" => Fetches(ops[i])'
    BY <2>1, FetchesKept DEF Extends
  <2> QED BY <2>1, <2>2, Zenon DEF Extends, Alike
<1>2. OneAtATime'
  BY DEF Clean, OneAtATime
<1>3. Newest'
  BY NewestKept
<1> QED BY <1>1, <1>2, <1>3 DEF Clean

LEMMA CleanInit == Init => CleanInv
BY Zenon DEF Init, CleanInv

LEMMA CleanArrive ==
  ASSUME TypeOK, Clean, NEW a \in Accounts, Arrive(a)
  PROVE  Clean'
<1>1. /\ mailbox'[session] \in {mailbox[session],
                              Append(mailbox[session], uidNext[session])}
      /\ uidNext[session] \in Nat
  BY CleanTypes DEF Arrive, TypeOK
<1>2. /\ countOfMsgInServer <= Len(mailbox'[session])
      /\ \A k \in 1..Len(mailbox[session]) : mailbox'[session][k] = mailbox[session][k]
  <2>1. /\ countOfMsgInServer <= Len(mailbox[session])
        /\ mailbox[session] \in Seq(Nat)
    BY CleanTypes DEF Clean
  <2>2. CASE mailbox'[session] = mailbox[session]
    BY <2>1, <2>2
  <2>3. CASE mailbox'[session] = Append(mailbox[session], uidNext[session])
    BY <1>1, <2>1, <2>3, CleanTypes, AppendProperties
  <2> QED BY <1>1, <2>2, <2>3
<1>3. /\ ops' = ops
      /\ UNCHANGED <<session, aryMsgs, countOfMsgInServer, isLoading>>
  BY DEF Arrive, table
<1>4. \A i \in 1..Slots : Alike(ops'[i], ops[i])
  BY <1>3, Zenon DEF Alike
<1> QED BY <1>2, <1>3, <1>4, CleanKept

LEMMA CleanExpunge ==
  ASSUME TypeOK, Clean, NEW a \in Accounts, Expunge(a), clean'
  PROVE  Clean'
<1>1. session # a
  BY Zenon DEF Expunge
<1>2. mailbox'[session] = mailbox[session]
  <2>1. PICK k \in 1..Len(mailbox[a]) :
          mailbox' = [mailbox EXCEPT ![a] = RemoveAt(mailbox[a], k)]
    BY DEF Expunge
  <2> QED BY <1>1, <2>1, CleanTypes DEF TypeOK
<1>3. UNCHANGED <<session, aryMsgs, countOfMsgInServer, isLoading>>
  BY DEF Expunge, table
<1>4. ASSUME NEW i \in 1..Slots, ops'[i] # NoOp
      PROVE  ops[i] # NoOp /\ Alike(ops'[i], ops[i])
  <2>1. ops[i] # NoOp
    BY <1>4, ExpungeKeeps, TypeParts
  <2>2. ops'[i] = [ops[i] EXCEPT !.quiet = ops'[i].quiet]
    BY <2>1, ExpungeKeeps, TypeParts
  <2>3. ops[i] \in Operations
    BY <2>1, CleanTypes
  <2> QED BY <2>1, <2>2, <2>3 DEF Operations, Alike
<1>5. countOfMsgInServer <= Len(mailbox'[session])
  BY <1>2 DEF Clean
<1> QED BY <1>2, <1>3, <1>4, <1>5, CleanKept

LEMMA CleanAnswer ==
  ASSUME TypeOK, Clean, NEW i \in 1..Slots, Answer(i)
  PROVE  Clean'
<1> DEFINE op == ops[i]
           box == mailbox[session]
           listed == Len(aryMsgs)
           count == countOfMsgInServer
<1>1. /\ op \in Operations /\ op # NoOp /\ ~op.answered /\ Extends(op)
  BY AnswerDoes, NoOpIsNone DEF Clean
<1>2. UNCHANGED <<mailbox, session, aryMsgs, countOfMsgInServer, isLoading>>
  BY DEF Answer, server, table
<1>3. /\ ops'[i] \in Operations /\ ops'[i] # NoOp
      /\ \A k \in 1..Slots : k # i => ops'[k] = ops[k]
  BY AnswerDoes, NoOpIsNone
<1>4. /\ ops'[i].kind = op.kind /\ ops'[i].account = op.account
      /\ ops'[i].number = op.number /\ ops'[i].wanted = op.wanted
  BY AnswerKeeps
<1>5. ASSUME op.kind = "fetch" PROVE Fetches(ops[i])'
  <2>1. /\ op.number <= count
        /\ op.wanted.first = count - op.number + 1
        /\ op.wanted.last = count - listed
        /\ listed < op.number /\ op.account = session
    BY <1>1, <1>5, Zenon DEF Extends, Fetches
  <2>2. /\ listed \in Nat /\ count \in Nat /\ op.number \in Nat
        /\ box \in Seq(Nat) /\ Len(box) \in Nat /\ count <= Len(box)
    BY <1>1, CleanTypes DEF Operations, Clean
  <2>3. ASSUME ops'[i].ok
        PROVE  /\ Len(ops'[i].messages) = op.number - listed
               /\ \A k \in 1..Len(ops'[i].messages) :
                    ops'[i].messages[k] = box[op.wanted.first + k - 1]
    <3> DEFINE last == IF op.wanted.last < Len(box) THEN op.wanted.last ELSE Len(box)
    <3>1. ops'[i].messages = SubSeq(box, op.wanted.first, last)
      BY <2>1, <2>3, AnswerDoes, Zenon
    <3> HIDE DEF op, box, listed, count
    <3>2. last = count - listed
      <4>1. /\ op.wanted.last = count - listed /\ listed \in Nat /\ count \in Nat
            /\ count <= Len(box) /\ Len(box) \in Nat
        BY <2>1, <2>2, Zenon
      <4> QED BY <4>1
    <3>3. \A k \in op.wanted.first .. last : box[k] \in Nat
      BY <2>1, <2>2, <3>2
    <3> HIDE DEF last
    <3>4. /\ op.wanted.first \in Int /\ last \in Int /\ op.wanted.first <= last
          /\ last - op.wanted.first + 1 = op.number - listed
      <4>1. /\ op.number <= count /\ op.wanted.first = count - op.number + 1
            /\ listed < op.number
        BY <2>1, Zenon
      <4>2. listed \in Nat /\ count \in Nat /\ op.number \in Nat
        BY <2>2, Zenon
      <4> QED BY <3>2, <4>1, <4>2
    <3>5. /\ Len(SubSeq(box, op.wanted.first, last)) = op.number - listed
          /\ \A k \in 1..(op.number - listed) :
               SubSeq(box, op.wanted.first, last)[k] = box[op.wanted.first + k - 1]
      BY <3>3, <3>4, SubSeqProperties
    <3> QED BY <3>1, <3>5, Zenon
  <2>4. ~ops'[i].ok => ops'[i].messages = <<>>
    BY AnswerDoes
  <2>5. ASSUME ops'[i].ok
        PROVE  /\ Len(ops'[i].messages) = ops'[i].number - Len(aryMsgs')
               /\ \A k \in 1..Len(ops'[i].messages) :
                    ops'[i].messages[k] = mailbox'[session'][ops'[i].wanted.first + k - 1]
    <3>1. /\ ops'[i].number = op.number /\ ops'[i].wanted = op.wanted
          /\ aryMsgs' = aryMsgs /\ mailbox'[session'] = mailbox[session]
      BY <1>2, <1>4
    <3> QED BY <2>3, <2>5, <3>1
  <2>6. /\ ops'[i].number <= countOfMsgInServer'
        /\ ops'[i].wanted.first = countOfMsgInServer' - ops'[i].number + 1
        /\ ops'[i].wanted.last = countOfMsgInServer' - Len(aryMsgs')
    BY <1>2, <1>4, <2>1
  <2> QED BY <2>4, <2>5, <2>6, Zenon DEF Fetches
<1>6. Extends(ops[i])'
  BY <1>1, <1>2, <1>4, <1>5, Zenon DEF Extends
<1>7. ASSUME NEW k \in 1..Slots, k # i, ops'[k] # NoOp
      PROVE  Extends(ops[k])'
  <2>1. ops[k] # NoOp
    BY <1>3, <1>7
  <2> QED BY <1>1, <1>7, <2>1 DEF Clean, OneAtATime
<1>8. OneAtATime'
  BY <1>1, <1>3 DEF Clean, OneAtATime
<1>9. Newest'
  BY <1>2, NewestKept
<1> QED BY <1>2, <1>6, <1>7, <1>8, <1>9 DEF Clean

\* While the list is undisturbed no account is being checked.
LEMMA CleanCheck ==
  ASSUME TypeOK, Clean, NEW i \in 1..Slots, CheckCompleted(i)
  PROVE  FALSE
<1>1. ops[i] # NoOp /\ ops[i].kind = "check"
  BY ReadyIsOperation DEF CheckCompleted, Ready, Kinds
<1> QED BY <1>1, Zenon DEF Clean, Extends

\* An empty list is the newest messages, whatever was counted.
LEMMA NoneIsNewest ==
  ASSUME NEW account, NEW box, NEW count \in Nat
  PROVE  NewestOf(<<>>, account, box, count)
<1>1. Len(<<>>) = 0 /\ (1..0) = {} /\ ((count - 0 + 1)..count) = {}
  OBVIOUS
<1>2. Len(<<>>) <= count
  BY <1>1
<1>3. {<<>>[k] : k \in 1..Len(<<>>)} = {}
  BY <1>1
<1>4. {Message(account, box[k]) : k \in (count - Len(<<>>) + 1)..count} = {}
  BY <1>1
<1> QED BY <1>2, <1>3, <1>4, Zenon DEF NewestOf

\* A count starts the list anew, or goes on with one that is right so far.
LEMMA CleanInfo ==
  ASSUME TypeOK, CleanInv, CountsInv, NEW i \in 1..Slots, InfoCompleted(i), clean'
  PROVE  Clean'
<1> DEFINE op == ops[i]
           number == Loads(i)
           listed == Len(aryMsgs')
<1>1. /\ op \in Operations /\ op # NoOp /\ op.kind = "info" /\ op.answered
      /\ countOfMsgInServer' = op.count
      /\ number \in Nat /\ number <= op.count /\ number <= op.number
  BY InfoDoes, NoOpIsNone
<1>2. /\ number # 0 /\ isLoading' = isLoading
      /\ aryMsgs' = IF Anew(i) THEN <<>> ELSE aryMsgs
      /\ clean' = IF Anew(i) THEN Alone(i) ELSE clean
  BY InfoDoes, Zenon
<1>3. mailbox' = mailbox /\ session' = session
  BY Zenon DEF InfoCompleted, InfoCompletes, server
\* In both cases the operation is the only one, and of the session.
<1>4. /\ op.account = session /\ isLoading
      /\ \A k \in 1..Slots : ops[k] = NoOp \/ k = i
      /\ op.count <= Len(mailbox[session])
      /\ listed \in Nat /\ listed < number
      /\ NewestOf(aryMsgs', session, mailbox[session], op.count)
  <2>1. CASE Anew(i)
    <3>1. Alone(i)
      BY <1>2, <2>1, Zenon
    <3>2. /\ op.account = session /\ isLoading /\ op.quiet
          /\ \A k \in 1..Slots : ops[k] = NoOp \/ k = i
      BY <3>1, Zenon DEF Alone
    <3>3. op.count <= Len(mailbox[session])
      BY <1>1, <3>2 DEF CountsInv
    <3>4. aryMsgs' = <<>>
      BY <1>2, <2>1, Zenon
    <3>5. op.count \in Nat
      BY <1>1 DEF Operations
    <3>6. NewestOf(aryMsgs', session, mailbox[session], op.count)
      BY <3>4, <3>5, NoneIsNewest
    <3>7. listed \in Nat /\ listed < number
      BY <1>1, <1>2, <3>4
    <3> QED BY <3>2, <3>3, <3>6, <3>7
  <2>2. CASE ~Anew(i)
    <3>1. Clean /\ aryMsgs' = aryMsgs
      BY <1>2, <2>2, Zenon DEF CleanInv
    <3>2. op.count = countOfMsgInServer
      BY <2>2, Zenon DEF Anew
    <3>3. /\ op.account = session /\ isLoading
          /\ Len(aryMsgs) < countOfMsgInServer /\ Len(aryMsgs) < op.number
      BY <1>1, <3>1, Zenon DEF Clean, Extends
    <3>4. \A k \in 1..Slots : ops[k] = NoOp \/ k = i
      BY <1>1, <3>1 DEF Clean, OneAtATime
    <3>5. listed \in Nat /\ listed < number
      <4>1. Len(aryMsgs) \in Nat
        BY <3>1, CleanTypes
      <4> QED BY <1>1, <3>1, <3>2, <3>3, <4>1 DEF Loads
    <3>6. /\ op.count <= Len(mailbox[session])
          /\ NewestOf(aryMsgs', session, mailbox[session], op.count)
      BY <3>1, <3>2, Zenon DEF Clean, Newest
    <3> QED BY <3>3, <3>4, <3>5, <3>6
  <2> QED BY <2>1, <2>2
<1>5. session \in Accounts /\ session # NoAccount
  BY <1>1, <1>4, InboxAssumption DEF Operations
<1>6. PICK j \in 1..Slots,
           wanted \in Numbers(op.count - number + 1, number - listed - 1) :
        /\ New("fetch", session, number, wanted) \in Operations
        /\ ops' = [Without(i) EXCEPT ![j] = New("fetch", session, number, wanted)]
  <2>1. \E j \in 1..Slots :
          \E wanted \in Numbers(op.count - number + 1, number - listed - 1) :
            /\ New("fetch", session, number, wanted) \in Operations
            /\ ops' = [Without(i) EXCEPT ![j] = New("fetch", session, number, wanted)]
    <3>1. Loads(i) # 0 /\ session # NoAccount
      BY <1>2, <1>5
    <3> QED BY <3>1, InfoDoes, Zenon
  <2> HIDE DEF op, number, listed
  <2> QED BY <2>1
<1>7. wanted.first = op.count - number + 1 /\ wanted.last = op.count - listed
  <2>1. op.count \in Nat
    BY <1>1 DEF Operations
  <2> HIDE DEF op, number, listed
  <2>2. /\ number - listed - 1 >= 0
        /\ (op.count - number + 1) + (number - listed - 1) = op.count - listed
    BY <1>1, <1>4, <2>1
  <2>3. wanted = Interval(op.count - number + 1, op.count - listed)
    BY <1>6, <2>2 DEF Numbers
  <2> QED BY <2>3 DEF Interval
<1>8. Without(i) \in SlotsType /\ \A k \in 1..Slots : Without(i)[k] = NoOp
  BY <1>4, WithoutType, TypeParts
<1>9. /\ OneAtATime' /\ ops'[j] = New("fetch", session, number, wanted)
      /\ \A k \in 1..Slots : k # j => ops'[k] = NoOp
  <2> HIDE DEF number
  <2> QED BY <1>6, <1>8, OneAdded
<1>10. Fetches(ops[j])'
  <2>1. /\ ops'[j].number = number /\ ops'[j].wanted = wanted
        /\ ops'[j].answered = FALSE
    <3> HIDE DEF number
    <3> QED BY <1>9 DEF New
  <2> QED BY <1>1, <1>7, <2>1, Zenon DEF Fetches
<1>11. Extends(ops[j])'
  <2>1. /\ ops'[j].number = number /\ ops'[j].account = session
        /\ ops'[j].kind = "fetch"
    <3> HIDE DEF number
    <3> QED BY <1>9 DEF New
  <2>2. listed < op.count
    <3>1. op.count \in Nat
      BY <1>1 DEF Operations
    <3> HIDE DEF op, number, listed
    <3> QED BY <1>1, <1>4, <3>1
  <2>3. ops'[j].kind # "check"
    BY <2>1
  <2> QED BY <1>1, <1>2, <1>3, <1>4, <1>10, <2>1, <2>2, <2>3, Zenon DEF Extends
<1>12. \A k \in 1..Slots : ops'[k] # NoOp => Extends(ops[k])'
  BY <1>9, <1>11
<1>13. /\ session' \in Accounts /\ Newest'
       /\ countOfMsgInServer' <= Len(mailbox'[session'])
  BY <1>1, <1>3, <1>4, <1>5, Zenon DEF Newest
<1> QED BY <1>9, <1>12, <1>13, Zenon DEF Clean

\* A list that is right, and the messages that come before it.
LEMMA NewestExtended ==
  ASSUME NEW list \in Seq(Listable), NEW page \in Seq(Listable),
         NEW account, NEW box, NEW count \in Nat, NEW number \in Nat,
         NewestOf(list, account, box, count), number <= count,
         Len(list) < number, Len(page) = number - Len(list),
         \A k \in 1..Len(page) : page[k] = Message(account, box[count - number + k])
  PROVE  NewestOf(page \o list, account, box, count)
<1> DEFINE all == page \o list
           m == Len(page)
           n == Len(list)
           Msgs(S) == {Message(account, box[k]) : k \in S}
<1>1. /\ all \in Seq(Listable) /\ Len(all) = m + n
      /\ \A k \in 1..(m + n) : all[k] = IF k <= m THEN page[k] ELSE list[k - m]
  BY ConcatProperties
<1>2. m \in Nat /\ n \in Nat /\ m + n = number /\ n <= count
  OBVIOUS
<1>3. {list[k] : k \in 1..n} = Msgs((count - n + 1)..count)
  BY Zenon DEF NewestOf
<1>4. {all[k] : k \in 1..number} = {page[k] : k \in 1..m} \cup {list[k] : k \in 1..n}
  <2> HIDE DEF all, m, n
  <2>1. \A k \in 1..m : k \in 1..number /\ all[k] = page[k]
    BY <1>1, <1>2
  <2>2. \A k \in 1..n : k + m \in 1..number /\ all[k + m] = list[k]
    BY <1>1, <1>2
  <2>3. \A k \in 1..number : \/ k \in 1..m /\ all[k] = page[k]
                             \/ k - m \in 1..n /\ all[k] = list[k - m]
    BY <1>1, <1>2
  <2>4. {page[k] : k \in 1..m} \subseteq {all[k] : k \in 1..number}
    BY <2>1
  <2>5. {list[k] : k \in 1..n} \subseteq {all[k] : k \in 1..number}
    <3>1. ASSUME NEW k \in 1..n
          PROVE  list[k] \in {all[l] : l \in 1..number}
      BY <2>2
    <3> QED BY <3>1
  <2>6. {all[k] : k \in 1..number}
          \subseteq {page[k] : k \in 1..m} \cup {list[k] : k \in 1..n}
    <3>1. ASSUME NEW k \in 1..number
          PROVE  all[k] \in {page[l] : l \in 1..m} \cup {list[l] : l \in 1..n}
      <4>1. CASE k \in 1..m /\ all[k] = page[k]
        BY <4>1
      <4>2. CASE k - m \in 1..n /\ all[k] = list[k - m]
        BY <4>2
      <4> QED BY <2>3, <4>1, <4>2
    <3> QED BY <3>1
  <2> QED BY <2>4, <2>5, <2>6, Zenon
<1>5. {page[k] : k \in 1..m} = Msgs((count - number + 1)..(count - n))
  <2> HIDE DEF m, n
  <2>1. \A k \in 1..m : /\ page[k] = Message(account, box[count - number + k])
                        /\ count - number + k \in (count - number + 1)..(count - n)
    BY <1>2 DEF m
  <2>2. \A k \in (count - number + 1)..(count - n) :
          /\ k - (count - number) \in 1..m
          /\ count - number + (k - (count - number)) = k
    BY <1>2
  <2>3. \A k \in (count - number + 1)..(count - n) :
          page[k - (count - number)] = Message(account, box[k])
    BY <2>1, <2>2
  <2>4. ASSUME NEW k \in 1..m
        PROVE  page[k] \in Msgs((count - number + 1)..(count - n))
    BY <2>1
  <2>5. ASSUME NEW k \in (count - number + 1)..(count - n)
        PROVE  Message(account, box[k]) \in {page[l] : l \in 1..m}
    BY <2>2, <2>3
  <2> QED BY <2>4, <2>5
<1>6. Msgs((count - number + 1)..(count - n)) \cup Msgs((count - n + 1)..count)
        = Msgs((count - number + 1)..count)
  <2> HIDE DEF m, n
  <2>1. (count - number + 1)..count
          = ((count - number + 1)..(count - n)) \cup ((count - n + 1)..count)
    BY <1>2
  <2> DEFINE A == (count - number + 1)..(count - n)
             B == (count - n + 1)..count
  <2>2. A \cup B = (count - number + 1)..count
    BY <2>1
  <2> HIDE DEF A, B
  <2>3. Msgs(A) \cup Msgs(B) = Msgs(A \cup B)
    OBVIOUS
  <2> HIDE DEF Msgs
  <2> QED BY <2>2, <2>3, Zenon DEF A, B
<1>7. {all[k] : k \in 1..Len(all)} = Msgs((count - Len(all) + 1)..count)
  <2> HIDE DEF all, m, n, Msgs
  <2> QED BY <1>1, <1>2, <1>3, <1>4, <1>5, <1>6
<1>8. Len(all) <= count
  BY <1>1, <1>2
<1> QED BY <1>7, <1>8, Zenon DEF NewestOf

LEMMA CleanFetch ==
  ASSUME TypeOK, Clean, NEW i \in 1..Slots, FetchCompleted(i)
  PROVE  Clean'
<1> DEFINE op == ops[i]
           box == mailbox[session]
           listed == Len(aryMsgs)
           count == countOfMsgInServer
<1>1. /\ op \in Operations /\ op # NoOp /\ op.kind = "fetch" /\ op.answered
      /\ Extends(op)
  BY FetchDoes, NoOpIsNone DEF Clean
<1>2. UNCHANGED <<mailbox, session, countOfMsgInServer>>
  BY DEF FetchCompleted, FetchCompletes, server
<1>3. \A k \in 1..Slots : ops'[k] = NoOp
  <2>1. OneAtATime
    BY DEF Clean
  <2> QED BY <1>1, <2>1, FetchDoes, OneReplaced, TypeParts
<1>4. /\ op.account = session /\ listed < op.number /\ op.number <= count
      /\ op.wanted.first = count - op.number + 1
      /\ op.ok => /\ Len(op.messages) = op.number - listed
                  /\ \A k \in 1..Len(op.messages) :
                       op.messages[k] = box[op.wanted.first + k - 1]
      /\ ~op.ok => op.messages = <<>>
  BY <1>1, Zenon DEF Extends, Fetches
<1>5. /\ listed \in Nat /\ count \in Nat /\ op.number \in Nat
      /\ aryMsgs \in Seq(Listable) /\ op.messages \in Seq(Nat)
  BY <1>1, CleanTypes DEF Operations
<1>6. /\ Listed(op) \in Seq(Listable) /\ Len(Listed(op)) = Len(op.messages)
      /\ aryMsgs' = Listed(op) \o aryMsgs
  BY FetchDoes
<1>7. NewestOf(aryMsgs, session, box, count)
  BY Zenon DEF Clean, Newest
<1>8. NewestOf(aryMsgs', session, box, count)
  <2>1. CASE op.ok
    <3>1. /\ Len(Listed(op)) = op.number - listed
          /\ \A k \in 1..Len(op.messages) :
               op.messages[k] = box[op.wanted.first + k - 1]
      BY <1>4, <1>6, <2>1, Zenon
    <3>2. ASSUME NEW k \in 1..Len(Listed(op))
          PROVE  Listed(op)[k] = Message(session, box[count - op.number + k])
      <4>1. k \in DOMAIN op.messages /\ k \in 1..Len(op.messages)
        BY <1>5, <1>6
      <4>2. Listed(op)[k] = Message(op.account, op.messages[k])
        BY <4>1 DEF Listed
      <4>3. op.wanted.first + k - 1 = count - op.number + k
        <5> HIDE DEF op, count
        <5> QED BY <1>4, <1>5
      <4> QED BY <1>4, <3>1, <4>1, <4>2, <4>3, Zenon
    <3> HIDE DEF op, box, count
    <3> QED BY <1>4, <1>5, <1>6, <1>7, <3>1, <3>2, NewestExtended
  <2>2. CASE ~op.ok
    <3>1. Len(Listed(op)) = 0
      BY <1>4, <1>6, <2>2
    <3>2. Listed(op) = <<>>
      BY <1>6, <3>1
    <3>3. aryMsgs' = aryMsgs
      BY <1>5, <1>6, <3>2, ConcatEmptySeq
    <3> QED BY <1>7, <3>3
  <2> QED BY <2>1, <2>2
<1>9. Newest'
  BY <1>2, <1>8, Zenon DEF Newest
<1>10. OneAtATime'
  BY <1>3 DEF OneAtATime
<1>11. /\ session' \in Accounts /\ countOfMsgInServer' <= Len(mailbox'[session'])
  BY <1>2 DEF Clean
<1> QED BY <1>3, <1>9, <1>10, <1>11, Zenon DEF Clean

LEMMA CleanTouch ==
  ASSUME TypeOK, Clean, Touch
  PROVE  Clean'
<1>1. /\ ~isLoading /\ isLoading' = TRUE
      /\ Len(aryMsgs) \in Nat /\ Len(aryMsgs) < countOfMsgInServer
  BY TouchDoes
<1>2. UNCHANGED <<mailbox, session, aryMsgs, countOfMsgInServer>>
  BY DEF Touch, LoadMore, server, table
<1>3. \A k \in 1..Slots : ops[k] = NoOp
  BY <1>1, Zenon DEF Clean, Extends
<1>4. session \in Accounts /\ session # NoAccount
  BY InboxAssumption DEF Clean
<1>5. PICK j \in 1..Slots :
        ops' = [ops EXCEPT ![j] = New("info", session, Len(aryMsgs) + Page, NoRange)]
  BY <1>4, TouchDoes
<1> DEFINE op == New("info", session, Len(aryMsgs) + Page, NoRange)
<1>6. /\ op \in Operations /\ op.kind = "info" /\ op.account = session
      /\ Len(aryMsgs) < op.number
  <2>1. Len(aryMsgs) + Page \in Nat /\ Len(aryMsgs) < Len(aryMsgs) + Page
    BY <1>1, InboxAssumption
  <2> QED BY <1>4, <2>1, NewIsOperation, NoRangeType DEF New, Kinds
<1>7. /\ OneAtATime' /\ ops'[j] = op
      /\ \A k \in 1..Slots : k # j => ops'[k] = NoOp
  <2> HIDE DEF op
  <2>1. ops' = [ops EXCEPT ![j] = op]
    BY <1>5 DEF op
  <2> QED BY <1>3, <1>6, <2>1, OneAdded, TypeParts
<1>8. Extends(ops[j])'
  <2>1. ops'[j].kind # "check" /\ ops'[j].kind # "fetch"
    BY <1>6, <1>7
  <2> QED BY <1>1, <1>2, <1>6, <1>7, <2>1, Zenon DEF Extends
<1>9. Newest' /\ countOfMsgInServer' <= Len(mailbox'[session'])
  BY <1>2, Zenon DEF Clean, Newest
<1>10. \A k \in 1..Slots : ops'[k] # NoOp => Extends(ops[k])'
  BY <1>7, <1>8
<1> QED BY <1>2, <1>4, <1>7, <1>9, <1>10, Zenon DEF Clean

\* Opening the account screen at most cancels; another account ends the claim.
LEMMA CleanAccount ==
  ASSUME TypeOK, Clean, clean',
         SetAccount \/ \E a \in Accounts : AccountHasFinishSetting(a)
  PROVE  Clean'
<1>1. UNCHANGED <<mailbox, aryMsgs, countOfMsgInServer, isLoading>>
  BY Zenon DEF SetAccount, AccountHasFinishSetting, server, table
<1>2. session' = session /\ \A k \in 1..Slots : ops'[k] = NoOp \/ ops'[k] = ops[k]
  <2>1. CASE SetAccount
    <3>1. imapMsgFetchOp # 0 => imapMsgFetchOp \in 1..Slots
      BY TypeParts DEF PointerType
    <3> QED BY <2>1, <3>1, WithoutAnswers DEF SetAccount
  <2>2. ASSUME NEW a \in Accounts, AccountHasFinishSetting(a)
        PROVE  session' = session /\ ops' = ops
    BY <2>2, FinishDoes, Zenon
  <2> QED BY <2>1, <2>2
<1>3. countOfMsgInServer <= Len(mailbox'[session])
  BY <1>1 DEF Clean
<1>4. \A k \in 1..Slots : ops'[k] = NoOp \/ (ops[k] # NoOp /\ Alike(ops'[k], ops[k]))
  BY <1>2, Zenon DEF Alike
<1> QED BY <1>1, <1>2, <1>3, <1>4, CleanKept

\* Only a count starts the claim.
LEMMA CleanStarts ==
  ASSUME [Next]_vars, clean', ~clean
  PROVE  \E i \in 1..Slots : InfoCompleted(i)
<1>1. CASE \E a \in Accounts : Arrive(a) \/ Expunge(a)
  BY <1>1, Zenon DEF Arrive, Expunge
<1>2. CASE \E i \in 1..Slots : Answer(i) \/ Completed(i)
  BY <1>2, Zenon DEF Answer, Completed, CheckCompleted, FetchCompleted,
     FetchCompletes
<1>3. CASE User
  BY <1>3, Zenon DEF User, SetAccount, Touch, LoadMore, AccountHasFinishSetting
<1>4. CASE Rests \/ UNCHANGED vars
  BY <1>4, Zenon DEF Rests, vars
<1> QED BY <1>1, <1>2, <1>3, <1>4, Zenon DEF Next

LEMMA CleanNext == TypeOK /\ CleanInv /\ CountsInv /\ [Next]_vars => CleanInv'
<1> SUFFICES ASSUME TypeOK, CleanInv, CountsInv, [Next]_vars, clean'
             PROVE  Clean'
  BY DEF CleanInv
<1>1. ASSUME NEW i \in 1..Slots, InfoCompleted(i)
      PROVE  Clean'
  BY <1>1, CleanInfo
<1>2. CASE ~clean
  BY <1>1, <1>2, CleanStarts
<1>3. CASE clean
  <2>1. Clean
    BY <1>3, Zenon DEF CleanInv
  <2>2. CASE \E a \in Accounts : Arrive(a) \/ Expunge(a)
    BY <2>1, <2>2, CleanArrive, CleanExpunge
  <2>3. CASE \E i \in 1..Slots : Answer(i) \/ Completed(i)
    BY <1>1, <2>1, <2>3, CleanAnswer, CleanCheck, CleanFetch DEF Completed
  <2>4. CASE User
    BY <2>1, <2>4, CleanTouch, CleanAccount DEF User
  <2>5. CASE Rests \/ UNCHANGED vars
    <3>1. /\ UNCHANGED <<mailbox, session, aryMsgs, countOfMsgInServer, isLoading>>
          /\ ops' = ops
      BY <2>5 DEF Rests, vars, server, table
    <3>2. \A k \in 1..Slots : Alike(ops'[k], ops[k]) /\ (ops'[k] = NoOp) = (ops[k] = NoOp)
      BY <3>1, Zenon DEF Alike
    <3>3. countOfMsgInServer <= Len(mailbox'[session])
      BY <2>1, <3>1 DEF Clean
    <3> QED BY <2>1, <3>1, <3>2, <3>3, CleanKept
  <2> QED BY <2>2, <2>3, <2>4, <2>5, Zenon DEF Next
<1> QED BY <1>2, <1>3

LEMMA CleanIsNewest == CleanInv => ListIsNewest
BY Zenon DEF CleanInv, Clean, Newest, NewestOf, ListIsNewest

\* A list that was started anew while nothing else was under way is the newest
\* messages of the mailbox, whatever arrives while its pages are loaded, until a
\* message is expunged or the account changes: the ranges of loadMsg: are right.
THEOREM ListIsRight == Spec => []ListIsNewest
<1> DEFINE I == TypeOK /\ CountsInv /\ CleanInv
<1>1. Init => I
  BY TypeInit, CountsInit, CleanInit
<1>2. I /\ [Next]_vars => I'
  BY TypeNext, CountsNext, CleanNext
<1>3. I => ListIsNewest
  BY CleanIsNewest
<1> QED BY <1>1, <1>2, <1>3, PTL DEF Spec

=============================================================================
