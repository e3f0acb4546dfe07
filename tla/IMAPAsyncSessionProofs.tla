----------------------- MODULE IMAPAsyncSessionProofs -----------------------
(***************************************************************************)
(* Proofs about IMAPAsyncSession, for any number of operations, folders    *)
(* and connections.                                                        *)
(***************************************************************************)
EXTENDS IMAPAsyncSession, FiniteSetTheorems, TLAPS

Active == {c \in Connections : thread[c] # "none"}

\* Who keeps the session: the MCOIMAPSession, and each queue with a thread.
Retained == ownerRefs = Bit(SessionObject) + Cardinality(Active)

\* What a connection's flags say of its thread.
Flags ==
  \A c \in Connections :
    /\ queueRunning[c] <=> thread[c] # "none"
    /\ finishing[c] # NoOp => thread[c] = "running"

In(o, q) == \E i \in 1..Len(q) : q[i] = o

Once(q) == \A i, j \in 1..Len(q) : i # j /\ q[i] \in Ops => q[i] # q[j]

\* An operation is in one queue, once, from its start to its completion.
Placed ==
  \A c \in Connections :
    /\ \A o \in Ops :
         In(o, queue[c]) \/ finishing[c] = o =>
           opState[o] \in {"started", "cancelled"} /\ place[o] = c
    /\ Once(queue[c])
    /\ finishing[c] \in Ops => ~In(finishing[c], queue[c])

\* An operation to disconnect never waits for a thread.
DisconnectRuns ==
  \A c \in Connections : In(DisconnectOp, queue[c]) => thread[c] = "running"

\* An operation that exists has a connection; while the client can use the
\* session, so has what is running or will be.
Reached ==
  /\ \A o \in Ops : opState[o] # "new" => place[o] \in Connections
  /\ SessionObject =>
       /\ \A o \in Ops : opState[o] # "new" => place[o] <= opened
       /\ \A c \in Connections : queueRunning[c] \/ autoDisconnect[c] => c <= opened

\* After the session, a pending call is held by an operation that waits.
Orphans ==
  ownerRefs = 0 => \A c \in Connections : autoDisconnect[c] => queue[c] # <<>>

IInv == /\ TypeOK /\ PoolBounded /\ PendingDisconnectMeansIdle /\ Flags
        /\ Retained /\ Placed /\ DisconnectRuns /\ Reached /\ Orphans

\* What the client was told, when mQueueRunning begins FALSE.
Known ==
  SessionObject => /\ poolRunning <=> \E c \in Connections : queueRunning[c]
                   /\ told <=> poolRunning

-----------------------------------------------------------------------------
(* Sets of numbers, lists and counting.                                    *)

LEMMA LeastExists ==
  ASSUME NEW S, S \subseteq Nat, S # {}
  PROVE  Min(S) \in S /\ \A y \in S : Min(S) <= y
<1> DEFINE R == {p \in Nat \X Nat : p[1] < p[2]}
<1>1. IsWellFoundedOn(R, Nat)
  BY NatLessThanWellFounded DEF OpToRel
<1>2. PICK x \in S : \A y \in S : ~ (<<y, x>> \in R)
  <2> HIDE DEF R
  <2> QED BY <1>1, WFMin
<1>3. ASSUME NEW y \in S PROVE x <= y
  <2>1. x \in Nat /\ y \in Nat
    OBVIOUS
  <2>2. ~ (<<y, x>> \in R)
    BY <1>2
  <2>3. ~ (y < x)
    BY <2>1, <2>2
  <2>4. QED
    BY <2>1, <2>3
<1>4. QED
  BY <1>2, <1>3 DEF Min

LEMMA AppendIn ==
  ASSUME NEW S, NEW q \in Seq(S), NEW x \in S
  PROVE  /\ Append(q, x) # <<>>
         /\ \A o : In(o, Append(q, x)) <=> In(o, q) \/ o = x
         /\ Once(q) /\ (x \in Ops => ~In(x, q)) => Once(Append(q, x))
<1> DEFINE r == Append(q, x)
<1>1. /\ r \in Seq(S) /\ Len(r) = Len(q) + 1 /\ Len(q) \in Nat
      /\ \A i \in 1..Len(q) : r[i] = q[i]
      /\ r[Len(q) + 1] = x
  OBVIOUS
<1> HIDE DEF r
<1>2. r # <<>>
  BY <1>1
<1>3. ASSUME NEW o PROVE In(o, r) <=> In(o, q) \/ o = x
  <2>1. 1..Len(r) = (1..Len(q)) \cup {Len(q) + 1}
    BY <1>1
  <2>2. QED
    BY <1>1, <2>1 DEF In
<1>4. ASSUME Once(q), x \in Ops => ~In(x, q)
      PROVE  Once(r)
  <2>1. SUFFICES ASSUME NEW i \in 1..Len(r), NEW j \in 1..Len(r), i # j,
                        r[i] \in Ops
                 PROVE  r[i] # r[j]
    BY DEF Once
  <2>2. CASE i \in 1..Len(q) /\ j \in 1..Len(q)
    BY <1>1, <1>4, <2>1, <2>2 DEF Once
  <2>3. CASE i = Len(q) + 1 /\ j \in 1..Len(q)
    BY <1>1, <1>4, <2>1, <2>3 DEF In
  <2>4. CASE i \in 1..Len(q) /\ j = Len(q) + 1
    BY <1>1, <1>4, <2>1, <2>4 DEF In
  <2>5. QED
    BY <1>1, <2>1, <2>2, <2>3, <2>4
<1>5. QED
  BY <1>2, <1>3, <1>4 DEF r

LEMMA TailIn ==
  ASSUME NEW S, NEW q \in Seq(S), q # <<>>
  PROVE  /\ Head(q) \in S /\ Tail(q) \in Seq(S) /\ In(Head(q), q)
         /\ \A o : In(o, Tail(q)) => In(o, q)
         /\ Once(q) => Once(Tail(q)) /\ (Head(q) \in Ops => ~In(Head(q), Tail(q)))
<1> DEFINE r == Tail(q)
<1>1. /\ r \in Seq(S) /\ Len(r) = Len(q) - 1 /\ Len(q) \in Nat /\ Len(q) > 0
      /\ \A i \in 1..Len(r) : i + 1 \in 1..Len(q) /\ r[i] = q[i + 1]
      /\ Head(q) = q[1] /\ Head(q) \in S
  OBVIOUS
<1> HIDE DEF r
<1>2. In(Head(q), q)
  BY <1>1 DEF In
<1>3. \A o : In(o, r) => In(o, q)
  BY <1>1 DEF In
<1>4. ASSUME Once(q) PROVE Once(r)
  <2>1. SUFFICES ASSUME NEW i \in 1..Len(r), NEW j \in 1..Len(r), i # j,
                        r[i] \in Ops
                 PROVE  r[i] # r[j]
    BY DEF Once
  <2>2. i + 1 \in 1..Len(q) /\ j + 1 \in 1..Len(q) /\ i + 1 # j + 1
    BY <1>1, <2>1
  <2>3. QED
    BY <1>1, <1>4, <2>1, <2>2 DEF Once
<1>5. ASSUME Once(q), Head(q) \in Ops PROVE ~In(Head(q), r)
  <2>1. ASSUME NEW i \in 1..Len(r) PROVE r[i] # Head(q)
    <3>1. i + 1 \in 1..Len(q) /\ 1 \in 1..Len(q) /\ i + 1 # 1
      BY <1>1
    <3>2. QED
      BY <1>1, <1>5, <3>1 DEF Once
  <2>2. QED
    BY <2>1 DEF In
<1>6. QED
  BY <1>1, <1>2, <1>3, <1>4, <1>5 DEF r

LEMMA ActiveIsFinite == IsFiniteSet(Active) /\ Cardinality(Active) \in Nat
<1>1. IsFiniteSet(Connections)
  BY PoolAssumption, FS_Interval DEF Connections
<1>2. Active \in SUBSET Connections
  BY DEF Active
<1>3. QED
  BY <1>1, <1>2, FS_Subset, FS_CardinalityType

\* The number of threads when the thread of one connection starts or stops.
LEMMA CountThreads ==
  ASSUME NEW c \in Connections, NEW life \in {"none", "running", "stopping"},
         TypeOK, thread' = [thread EXCEPT ![c] = life]
  PROVE  /\ thread[c] = "none" /\ life # "none" =>
              Cardinality(Active') = Cardinality(Active) + 1
         /\ thread[c] # "none" /\ life = "none" =>
              Cardinality(Active') = Cardinality(Active) - 1
         /\ (thread[c] = "none" <=> life = "none") =>
              Cardinality(Active') = Cardinality(Active)
<1>1. /\ thread'[c] = life
      /\ \A d \in Connections \ {c} : thread'[d] = thread[d]
  BY DEF TypeOK
<1>2. CASE thread[c] = "none" /\ life # "none"
  <2>1. Active' = Active \cup {c} /\ c \notin Active
    BY <1>1, <1>2 DEF Active
  <2>2. QED
    BY <1>2, <2>1, ActiveIsFinite, FS_AddElement
<1>3. CASE thread[c] # "none" /\ life = "none"
  <2>1. Active' = Active \ {c} /\ c \in Active
    BY <1>1, <1>3 DEF Active
  <2>2. QED
    BY <1>3, <2>1, ActiveIsFinite, FS_RemoveElement
<1>4. CASE thread[c] = "none" <=> life = "none"
  <2>1. Active' = Active
    BY <1>1, <1>4 DEF Active
  <2>2. QED
    BY <1>4, <2>1
<1>5. QED
  BY <1>2, <1>3, <1>4

-----------------------------------------------------------------------------
(* The connection of a new operation.                                      *)

LEMMA AvailableIsWithinLimit ==
  ASSUME TypeOK, PoolBounded
  PROVE  /\ AvailableSession \in 1..(opened + 1)
         /\ MaxConnections # 0 => AvailableSession <= MaxConnections
<1>1. opened \in Nat /\ MaxConnections \in Nat /\ 1..opened \subseteq Connections
  BY PoolAssumption DEF TypeOK, Connections
<1>2. ASSUME opened > 0 PROVE LeastBusy \in 1..opened
  <2> DEFINE lengths == {Len(queue[c]) : c \in 1..opened}
             least == {c \in 1..opened : Len(queue[c]) = Min(lengths)}
  <2>1. \A c \in 1..opened : Len(queue[c]) \in Nat
    BY <1>1 DEF TypeOK
  <2>2. lengths \subseteq Nat /\ Len(queue[1]) \in lengths
    BY <1>1, <1>2, <2>1
  <2>3. Min(lengths) \in lengths
    <3> HIDE DEF lengths
    <3> QED BY <2>2, LeastExists
  <2>4. least \subseteq Nat /\ least # {}
    <3>1. PICK c \in 1..opened : Len(queue[c]) = Min(lengths)
      BY <2>3
    <3>2. c \in least
      BY <3>1
    <3>3. least \subseteq 1..opened
      OBVIOUS
    <3> HIDE DEF least
    <3>4. QED
      BY <1>1, <3>2, <3>3
  <2>5. Min(least) \in least
    <3> HIDE DEF least
    <3> QED BY <2>4, LeastExists
  <2>6. QED
    BY <2>5 DEF LeastBusy
<1>3. CASE opened > 0 /\ (Idle(LeastBusy) \/ (MaxConnections # 0 /\ opened >= MaxConnections))
  <2>1. AvailableSession = LeastBusy
    BY <1>3 DEF AvailableSession, Available
  <2>2. LeastBusy \in 1..opened
    BY <1>2, <1>3
  <2>3. QED
    BY <1>1, <2>1, <2>2 DEF PoolBounded
<1>4. CASE ~ (opened > 0 /\ (Idle(LeastBusy) \/ (MaxConnections # 0 /\ opened >= MaxConnections)))
  <2>1. AvailableSession = opened + 1
    BY <1>4 DEF AvailableSession, Available
  <2>2. MaxConnections # 0 => opened < MaxConnections
    BY <1>1, <1>4
  <2>3. QED
    BY <1>1, <2>1, <2>2
<1>5. QED
  BY <1>3, <1>4

LEMMA ChosenIsWithinLimit ==
  ASSUME TypeOK, PoolBounded, NEW f, NEW urgent
  PROVE  /\ SessionForFolder(f, urgent) \in 1..(opened + 1)
         /\ MaxConnections # 0 => SessionForFolder(f, urgent) <= MaxConnections
<1>1. opened \in Nat /\ MaxConnections \in Nat
  BY PoolAssumption DEF TypeOK
<1> DEFINE matching == {c \in 1..opened : lastFolder[c] # f}
<1>2. ASSUME matching # {}
      PROVE  /\ Min(matching) \in 1..(opened + 1)
             /\ MaxConnections # 0 => Min(matching) <= MaxConnections
  <2>1. matching \subseteq Nat /\ matching \subseteq 1..opened
    BY <1>1
  <2>2. Min(matching) \in matching
    <3> HIDE DEF matching
    <3> QED BY <1>2, <2>1, LeastExists
  <2>3. Min(matching) \in 1..opened
    BY <2>1, <2>2
  <2>4. QED
    BY <1>1, <2>3 DEF PoolBounded
<1>3. \/ SessionForFolder(f, urgent) = AvailableSession
      \/ matching # {} /\ SessionForFolder(f, urgent) = Min(matching)
  BY DEF SessionForFolder, MatchingSessionForFolder
<1> HIDE DEF matching
<1>4. QED
  BY <1>2, <1>3, AvailableIsWithinLimit

LEMMA CreateStep ==
  ASSUME IInv, NEW o \in Ops, NEW f \in Folders \cup {NoFolder}, NEW urgent,
         CreateOperation(o, f, urgent)
  PROVE  IInv'
<1> DEFINE c == SessionForFolder(f, urgent)
<1>1. c \in 1..(opened + 1) /\ (MaxConnections # 0 => c <= MaxConnections)
  BY ChosenIsWithinLimit DEF IInv
<1>2. /\ held /\ opState[o] = "new" /\ c \in Connections
      /\ opened' = IF c > opened THEN c ELSE opened
      /\ lastFolder' \in {lastFolder, [lastFolder EXCEPT ![c] = f]}
      /\ place' = [place EXCEPT ![o] = c]
      /\ opState' = [opState EXCEPT ![o] = "created"]
      /\ UNCHANGED <<queues, connected, autoDisconnect, notify, ownerRefs, held>>
  BY DEF CreateOperation
<1> HIDE DEF c
<1>3. opened \in Nat /\ opened' \in Nat /\ opened <= opened' /\ c <= opened'
      /\ opened' \in 0..ConnectionBound /\ c \in 0..ConnectionBound
  BY <1>1, <1>2, PoolAssumption DEF IInv, TypeOK, Connections
<1>4. TypeOK'
  BY <1>2, <1>3 DEF IInv, TypeOK, queues, notify, Connections
<1>5. PoolBounded'
  BY <1>1, <1>2 DEF IInv, PoolBounded
<1>6. PendingDisconnectMeansIdle' /\ Flags' /\ DisconnectRuns' /\ Orphans'
  BY <1>2 DEF IInv, PendingDisconnectMeansIdle, Flags, DisconnectRuns, Orphans,
              queues, notify, In
<1>7. SessionObject /\ SessionObject'
  BY <1>2 DEF SessionObject
<1>8. Retained'
  BY <1>2, <1>7 DEF IInv, Retained, Active, queues, Bit
<1>9. Placed'
  BY <1>2 DEF IInv, Placed, queues, In, Once, TypeOK
<1>10. Reached'
  BY <1>2, <1>3, <1>7 DEF IInv, Reached, TypeOK, notify, Connections
<1>11. QED
  BY <1>4, <1>5, <1>6, <1>8, <1>9, <1>10 DEF IInv

-----------------------------------------------------------------------------
(* An operation is added.                                                  *)

LEMMA ThreadMeansReference ==
  ASSUME TypeOK, Retained
  PROVE  /\ \A c \in Connections : thread[c] # "none" =>
              ownerRefs >= Bit(SessionObject) + 1
         /\ SessionObject => ownerRefs > 0
<1>1. ASSUME NEW c \in Connections, thread[c] # "none"
      PROVE  Cardinality(Active) > 0
  <2>1. c \in Active
    BY <1>1 DEF Active
  <2>2. QED
    BY <2>1, ActiveIsFinite, FS_EmptySet
<1>2. QED
  BY <1>1, ActiveIsFinite DEF Retained, Bit

LEMMA EnqueueFacts ==
  ASSUME TypeOK, NEW c \in Connections, NEW x \in Ops \cup {DisconnectOp},
         RunOperation(c, x)
  PROVE  /\ autoDisconnect' = [autoDisconnect EXCEPT ![c] = FALSE]
         /\ queue' = [queue EXCEPT ![c] = Append(queue[c], x)]
         /\ thread[c] = "none" =>
              /\ thread' = [thread EXCEPT ![c] = "running"]
              /\ queueRunning' = [queueRunning EXCEPT ![c] = TRUE]
              /\ ownerRefs' = ownerRefs + 1
              /\ RunningStateChanged(\E d \in 1..opened : queueRunning'[d])
         /\ thread[c] # "none" => UNCHANGED <<thread, notify, ownerRefs>>
         /\ queueRunning' \in [Connections -> BOOLEAN]
         /\ poolRunning' \in BOOLEAN /\ told' \in BOOLEAN
<1>1. /\ autoDisconnect' = [autoDisconnect EXCEPT ![c] = FALSE]
      /\ queue' = [queue EXCEPT ![c] = Append(queue[c], x)]
      /\ QueueStarts(c, 1)
  BY DEF RunOperation
<1>2. CASE thread[c] = "none"
  <2>1. /\ thread' = [thread EXCEPT ![c] = "running"]
        /\ queueRunning' = [queueRunning EXCEPT ![c] = TRUE]
        /\ RunningStateChanged(\E d \in 1..opened : queueRunning'[d])
        /\ ownerRefs' = ownerRefs + 1
    BY <1>1, <1>2 DEF QueueStarts, StartsIf
  <2>2. queueRunning' \in [Connections -> BOOLEAN]
    BY <2>1 DEF TypeOK
  <2>3. poolRunning' \in BOOLEAN
    BY <2>1, Zenon DEF RunningStateChanged
  <2>4. told' \in BOOLEAN
    BY <2>1, <2>3, Zenon DEF RunningStateChanged, TypeOK
  <2>5. QED
    BY <1>1, <1>2, <2>1, <2>2, <2>3, <2>4
<1>3. CASE thread[c] # "none"
  <2>1. UNCHANGED <<thread, notify, ownerRefs>>
    BY <1>1, <1>3 DEF QueueStarts, StartsIf
  <2>2. QED
    BY <1>1, <1>3, <2>1 DEF notify, TypeOK
<1>4. QED
  BY <1>2, <1>3

LEMMA EnqueueStep ==
  ASSUME IInv, NEW c \in Connections, NEW x \in Ops \cup {DisconnectOp},
         RunOperation(c, x),
         UNCHANGED <<opened, lastFolder, finishing, connected, held, place>>,
         SessionObject => c <= opened,
         \/ /\ x \in Ops /\ opState[x] = "created" /\ place[x] = c
            /\ opState' = [opState EXCEPT ![x] = "started"]
         \/ /\ x = DisconnectOp /\ autoDisconnect[c]
            /\ opState' = opState
  PROVE  IInv'
<1> USE DEF IInv
<1>1. /\ autoDisconnect' = [autoDisconnect EXCEPT ![c] = FALSE]
      /\ queue' = [queue EXCEPT ![c] = Append(queue[c], x)]
      /\ thread[c] = "none" =>
           /\ thread' = [thread EXCEPT ![c] = "running"]
           /\ queueRunning' = [queueRunning EXCEPT ![c] = TRUE]
           /\ ownerRefs' = ownerRefs + 1
      /\ thread[c] # "none" => UNCHANGED <<thread, queueRunning, ownerRefs>>
      /\ queueRunning' \in [Connections -> BOOLEAN]
      /\ poolRunning' \in BOOLEAN /\ told' \in BOOLEAN
  BY EnqueueFacts DEF notify
<1>2. /\ queue[c] \in Seq(Ops \cup {DisconnectOp})
      /\ Append(queue[c], x) \in Seq(Ops \cup {DisconnectOp})
      /\ queue'[c] = Append(queue[c], x)
      /\ \A d \in Connections \ {c} : queue'[d] = queue[d]
  BY <1>1 DEF TypeOK
<1>3. /\ queue'[c] # <<>>
      /\ \A o : In(o, queue'[c]) <=> In(o, queue[c]) \/ o = x
      /\ Once(queue[c]) /\ (x \in Ops => ~In(x, queue[c])) => Once(queue'[c])
  BY <1>2, AppendIn
<1>4. SessionObject' <=> SessionObject
  BY DEF SessionObject, TypeOK
<1>5. thread' = [thread EXCEPT ![c] =
                   IF thread[c] = "none" THEN "running" ELSE thread[c]]
  BY <1>1 DEF TypeOK
<1>6. Retained' /\ ownerRefs' \in Nat \ {0}
  <2>1. CASE thread[c] = "none"
    <3>1. Cardinality(Active') = Cardinality(Active) + 1
      BY <1>1, <2>1, CountThreads
    <3>2. Bit(SessionObject') = Bit(SessionObject) /\ Bit(SessionObject) \in {0, 1}
      BY <1>4 DEF Bit
    <3>3. ownerRefs' = ownerRefs + 1 /\ ownerRefs \in Nat
      BY <1>1, <2>1 DEF TypeOK
    <3>4. ownerRefs' = Bit(SessionObject') + Cardinality(Active')
      BY <3>1, <3>2, <3>3, ActiveIsFinite DEF Retained
    <3>5. QED
      BY <3>3, <3>4 DEF Retained
  <2>2. CASE thread[c] # "none"
    <3>1. Active' = Active /\ Bit(SessionObject') = Bit(SessionObject)
      BY <1>1, <1>4, <2>2 DEF Active, Bit
    <3>2. ownerRefs > 0
      BY <2>2, ThreadMeansReference DEF Bit, TypeOK
    <3>3. QED
      BY <1>1, <2>2, <3>1, <3>2 DEF Retained, TypeOK
  <2>3. QED
    BY <2>1, <2>2
<1>7. TypeOK'
  <2>1. /\ queue' \in [Connections -> Seq(Ops \cup {DisconnectOp})]
        /\ thread' \in [Connections -> {"none", "running", "stopping"}]
        /\ autoDisconnect' \in [Connections -> BOOLEAN]
    BY <1>1, <1>2, <1>5 DEF TypeOK
  <2>2. opState' \in [Ops -> {"new", "created", "started", "cancelled", "done", "gone"}]
    BY DEF TypeOK
  <2>3. QED
    BY <1>1, <1>6, <2>1, <2>2 DEF TypeOK
<1>8. PoolBounded' /\ PendingDisconnectMeansIdle'
  BY <1>1, <1>5 DEF PoolBounded, PendingDisconnectMeansIdle, TypeOK
<1>9. Flags'
  BY <1>1, <1>5 DEF Flags, TypeOK
<1>10. x \in Ops => ~In(x, queue[c]) /\ finishing[c] # x
  <2>1. x \in Ops => opState[x] = "created"
    BY PoolAssumption
  <2>2. QED
    BY <2>1 DEF Placed
<1>11. Placed'
  <2>1. ASSUME NEW d \in Connections
        PROVE  /\ \A o \in Ops : In(o, queue'[d]) \/ finishing[d] = o =>
                    opState'[o] \in {"started", "cancelled"} /\ place[o] = d
               /\ Once(queue'[d])
               /\ finishing[d] \in Ops => ~In(finishing[d], queue'[d])
    <3>1. CASE d = c
      BY <1>3, <1>10, <3>1, PoolAssumption DEF Placed, TypeOK
    <3>2. CASE d # c
      BY <1>2, <3>2, PoolAssumption DEF Placed, TypeOK
    <3>3. QED
      BY <3>1, <3>2
  <2>2. QED
    BY <2>1 DEF Placed, In, Once
<1>12. DisconnectRuns'
  <2>1. ASSUME NEW d \in Connections, In(DisconnectOp, queue'[d])
        PROVE  thread'[d] = "running"
    <3>1. CASE d # c
      BY <1>2, <1>5, <2>1, <3>1 DEF DisconnectRuns, TypeOK
    <3>2. CASE d = c /\ In(DisconnectOp, queue[c])
      BY <1>5, <3>2 DEF DisconnectRuns, TypeOK
    <3>3. CASE d = c /\ x = DisconnectOp
      BY <1>5, <3>3, PoolAssumption DEF PendingDisconnectMeansIdle, TypeOK
    <3>4. QED
      BY <1>3, <2>1, <3>1, <3>2, <3>3
  <2>2. QED
    BY <2>1 DEF DisconnectRuns, In
<1>13. Reached'
  BY <1>1, <1>4 DEF Reached, TypeOK
<1>14. Orphans'
  BY <1>6 DEF Orphans
<1>15. QED
  BY <1>6, <1>7, <1>8, <1>9, <1>11, <1>12, <1>13, <1>14

LEMMA StartStep ==
  ASSUME IInv, NEW o \in Ops, Start(o)
  PROVE  IInv'
<1>1. place[o] \in Connections /\ SessionObject /\ place[o] <= opened
  BY DEF Start, IInv, Reached, SessionObject
<1>2. QED
  BY <1>1, EnqueueStep DEF Start

LEMMA AutomaticDisconnectStep ==
  ASSUME IInv, NEW c \in Connections, AutomaticDisconnect(c)
  PROVE  IInv'
<1>1. SessionObject => c <= opened
  BY DEF AutomaticDisconnect, IInv, Reached
<1>2. QED
  BY <1>1, EnqueueStep DEF AutomaticDisconnect, client

-----------------------------------------------------------------------------
(* A reference goes.                                                       *)

States == {"new", "created", "started", "cancelled", "done", "gone"}

LEMMA ReleasedFacts ==
  ASSUME IInv, NEW refs \in Nat, NEW pending \in [Connections -> BOOLEAN],
         SessionReleased(refs, pending), UNCHANGED queue
  PROVE  /\ ownerRefs' = refs
         /\ opened' \in 0..ConnectionBound
         /\ autoDisconnect' \in [Connections -> BOOLEAN]
         /\ refs # 0 => opened' = opened
         /\ \A c \in Connections : autoDisconnect'[c] => pending[c]
         /\ PoolBounded' /\ Orphans'
<1>1. /\ ownerRefs' = refs
      /\ refs = 0 => opened' = 0
      /\ refs # 0 => opened' = opened
      /\ refs = 0 => autoDisconnect' =
           [c \in Connections |-> pending[c] /\ ~(queue[c] = <<>>)]
      /\ refs # 0 => autoDisconnect' = pending
  BY DEF SessionReleased, Idle
<1>2. autoDisconnect' \in [Connections -> BOOLEAN]
  BY <1>1
<1>3. \A c \in Connections : autoDisconnect'[c] => pending[c]
  BY <1>1
<1>4. opened' \in 0..ConnectionBound
  BY <1>1, PoolAssumption DEF IInv, TypeOK
<1>5. PoolBounded'
  BY <1>1, PoolAssumption DEF IInv, PoolBounded
<1>6. Orphans'
  BY <1>1 DEF Orphans
<1>7. QED
  BY <1>1, <1>2, <1>3, <1>4, <1>5, <1>6

LEMMA ObjectGoesStep ==
  ASSUME IInv,
         SessionReleased(ownerRefs - Bit(SessionObject /\ ~SessionObject'),
                         autoDisconnect),
         UNCHANGED <<lastFolder, queue, thread, connected, notify, place>>,
         held' \in BOOLEAN, held' => held,
         opState' \in [Ops -> States],
         \A o \in Ops : opState[o] = "new" <=> opState'[o] = "new",
         \A o \in Ops : opState'[o] \in {"created", "started"} =>
                        opState[o] \in {"created", "started"},
         \A o \in Ops, c \in Connections :
            In(o, queue[c]) \/ finishing'[c] = o =>
              \/ opState'[o] = opState[o]
              \/ opState'[o] = "cancelled",
         finishing' \in [Connections -> Ops \cup {DisconnectOp, NoOp}],
         \A c \in Connections : finishing'[c] \in {finishing[c], NoOp}
  PROVE  IInv'
<1> USE DEF IInv
<1> DEFINE refs == ownerRefs - Bit(SessionObject /\ ~SessionObject')
<1>1. SessionObject' => SessionObject
  BY DEF SessionObject
<1>2. /\ Bit(SessionObject) \in {0, 1}
      /\ Bit(SessionObject') = Bit(SessionObject) - Bit(SessionObject /\ ~SessionObject')
      /\ Bit(SessionObject /\ ~SessionObject') \in {0, 1}
      /\ Bit(SessionObject') \in {0, 1}
      /\ SessionObject' => Bit(SessionObject') = 1
  BY <1>1 DEF Bit
<1>3. Active' = Active
  BY DEF Active
<1>4. ownerRefs \in Nat /\ ownerRefs = Bit(SessionObject) + Cardinality(Active)
  BY DEF TypeOK, Retained
<1>5. refs = Bit(SessionObject') + Cardinality(Active) /\ refs \in Nat
  BY <1>2, <1>4, ActiveIsFinite
<1>6. autoDisconnect \in [Connections -> BOOLEAN]
  BY DEF TypeOK
<1>7. SessionReleased(refs, autoDisconnect)
  OBVIOUS
<1> HIDE DEF refs
<1>8. /\ ownerRefs' = refs
      /\ opened' \in 0..ConnectionBound
      /\ autoDisconnect' \in [Connections -> BOOLEAN]
      /\ refs # 0 => opened' = opened
      /\ \A c \in Connections : autoDisconnect'[c] => autoDisconnect[c]
      /\ PoolBounded' /\ Orphans'
  BY <1>5, <1>6, <1>7, ReleasedFacts
<1>9. TypeOK'
  BY <1>5, <1>8 DEF TypeOK, notify, States
<1>10. Retained'
  BY <1>3, <1>5, <1>8 DEF Retained
<1>11. PendingDisconnectMeansIdle' /\ Flags' /\ DisconnectRuns'
  BY <1>8 DEF PendingDisconnectMeansIdle, Flags, DisconnectRuns, In, notify
<1>12. Placed'
  <2>1. ASSUME NEW c \in Connections
        PROVE  /\ \A o \in Ops : In(o, queue[c]) \/ finishing'[c] = o =>
                    opState'[o] \in {"started", "cancelled"} /\ place[o] = c
               /\ Once(queue[c])
               /\ finishing'[c] \in Ops => ~In(finishing'[c], queue[c])
    <3>1. NoOp \notin Ops
      BY PoolAssumption
    <3>2. QED
      BY <3>1 DEF Placed
  <2>2. QED
    BY <2>1 DEF Placed, In, Once
<1>13. Reached'
  <2>1. ASSUME SessionObject' PROVE refs # 0 /\ SessionObject
    <3>1. SessionObject /\ Bit(SessionObject') = 1
      BY <1>1, <1>2, <2>1, Zenon
    <3>2. QED
      BY <1>5, <3>1, ActiveIsFinite
  <2>2. QED
    BY <1>8, <2>1 DEF Reached, notify
<1>14. QED
  BY <1>8, <1>9, <1>10, <1>11, <1>12, <1>13

LEMMA ReleaseSessionStep ==
  ASSUME IInv, ReleaseSession
  PROVE  IInv'
<1>1. /\ held' = FALSE /\ held /\ opState' = opState
      /\ SessionReleased(ownerRefs - Bit(SessionObject /\ ~SessionObject'),
                         autoDisconnect)
      /\ UNCHANGED <<lastFolder, queue, finishing, thread, connected, notify, place>>
  BY DEF ReleaseSession, ReleaseObjects, queues
<1>2. QED
  BY <1>1, ObjectGoesStep DEF IInv, TypeOK, States

LEMMA DiscardStep ==
  ASSUME IInv, NEW o \in Ops, Discard(o) \/ Cancel(o)
  PROVE  IInv'
<1>1. /\ held' = held
      /\ \/ opState[o] = "created" /\ opState' = [opState EXCEPT ![o] = "gone"]
         \/ opState[o] = "started" /\ opState' = [opState EXCEPT ![o] = "cancelled"]
      /\ SessionReleased(ownerRefs - Bit(SessionObject /\ ~SessionObject'),
                         autoDisconnect)
      /\ UNCHANGED <<lastFolder, queue, finishing, thread, connected, notify, place>>
  BY DEF Discard, Cancel, ReleaseObjects, queues
<1>2. \A p \in Ops, c \in Connections : In(p, queue[c]) \/ finishing[c] = p =>
        opState[p] # "created"
  BY DEF IInv, Placed
<1>3. /\ opState' \in [Ops -> States]
      /\ \A p \in Ops : opState[p] = "new" <=> opState'[p] = "new"
      /\ \A p \in Ops : opState'[p] \in {"created", "started"} =>
                        opState[p] \in {"created", "started"}
      /\ \A p \in Ops : opState[p] # "created" =>
           opState'[p] = opState[p] \/ opState'[p] = "cancelled"
  BY <1>1 DEF IInv, TypeOK, States
<1>4. QED
  BY <1>1, <1>2, <1>3, ObjectGoesStep DEF IInv, TypeOK

LEMMA CompletedStep ==
  ASSUME IInv, NEW c \in Connections, OperationCompleted(c)
  PROVE  IInv'
<1> DEFINE o == finishing[c]
<1>1. /\ o # NoOp /\ finishing' = [finishing EXCEPT ![c] = NoOp]
      /\ \/ opState' = opState
         \/ o \in Ops /\ opState[o] = "started" /\ opState' = [opState EXCEPT ![o] = "done"]
      /\ held' = held
      /\ SessionReleased(ownerRefs - Bit(SessionObject /\ ~SessionObject'),
                         autoDisconnect)
      /\ UNCHANGED <<lastFolder, queue, thread, connected, notify, place>>
  BY DEF OperationCompleted
<1>2. /\ finishing' \in [Connections -> Ops \cup {DisconnectOp, NoOp}]
      /\ \A d \in Connections : finishing'[d] \in {finishing[d], NoOp}
      /\ finishing'[c] = NoOp
      /\ \A d \in Connections \ {c} : finishing'[d] = finishing[d]
  BY <1>1 DEF IInv, TypeOK
<1>3. /\ opState' \in [Ops -> States]
      /\ \A p \in Ops : opState[p] = "new" <=> opState'[p] = "new"
      /\ \A p \in Ops : opState'[p] \in {"created", "started"} =>
                        opState[p] \in {"created", "started"}
      /\ \A p \in Ops : p # o => opState'[p] = opState[p]
  BY <1>1 DEF IInv, TypeOK, States
<1>4. ASSUME NEW d \in Connections, o \in Ops
      PROVE  ~In(o, queue[d]) /\ finishing'[d] # o
  BY <1>1, <1>2, <1>4 DEF IInv, Placed
<1> HIDE DEF o
<1>5. \A p \in Ops, d \in Connections :
        In(p, queue[d]) \/ finishing'[d] = p => opState'[p] = opState[p]
  BY <1>3, <1>4
<1>6. QED
  BY <1>1, <1>2, <1>3, <1>5, ObjectGoesStep DEF IInv, TypeOK

-----------------------------------------------------------------------------
(* The worker, and the end of its thread.                                  *)

LEMMA RunHeadStep ==
  ASSUME IInv, NEW c \in Connections, RunHead(c)
  PROVE  IInv'
<1> USE DEF IInv
<1> DEFINE x == Head(queue[c])
<1>1. /\ thread[c] = "running" /\ finishing[c] = NoOp /\ queue[c] # <<>>
      /\ finishing' = [finishing EXCEPT ![c] = x]
      /\ queue' = [queue EXCEPT ![c] = Tail(queue[c])]
      /\ \E up \in BOOLEAN : connected' = [connected EXCEPT ![c] = up]
      /\ UNCHANGED <<opened, lastFolder, thread, autoDisconnect, notify,
                     ownerRefs, client>>
  BY DEF RunHead, Idle
<1>2. /\ x \in Ops \cup {DisconnectOp}
      /\ Tail(queue[c]) \in Seq(Ops \cup {DisconnectOp})
      /\ In(x, queue[c])
      /\ \A o : In(o, Tail(queue[c])) => In(o, queue[c])
      /\ Once(queue[c]) => Once(Tail(queue[c])) /\ (x \in Ops => ~In(x, Tail(queue[c])))
  BY <1>1, TailIn DEF TypeOK
<1> HIDE DEF x
<1>3. /\ queue'[c] = Tail(queue[c]) /\ finishing'[c] = x
      /\ \A d \in Connections \ {c} :
           queue'[d] = queue[d] /\ finishing'[d] = finishing[d]
           /\ connected'[d] = connected[d]
  BY <1>1 DEF TypeOK
<1>4. TypeOK'
  BY <1>1, <1>2 DEF TypeOK, notify, client
<1>5. PoolBounded' /\ PendingDisconnectMeansIdle'
  BY <1>1, <1>3 DEF PoolBounded, PendingDisconnectMeansIdle
<1>6. Flags'
  BY <1>1, <1>3 DEF Flags, notify
<1>7. SessionObject' <=> SessionObject
  BY <1>1 DEF SessionObject, client
<1>8. Retained'
  <2>1. Active' = Active /\ Bit(SessionObject') = Bit(SessionObject)
    BY <1>1, <1>7 DEF Active, Bit
  <2>2. QED
    BY <1>1, <2>1 DEF Retained
<1>9. Placed'
  <2>1. ASSUME NEW d \in Connections
        PROVE  /\ \A o \in Ops : In(o, queue'[d]) \/ finishing'[d] = o =>
                    opState[o] \in {"started", "cancelled"} /\ place[o] = d
               /\ Once(queue'[d])
               /\ finishing'[d] \in Ops => ~In(finishing'[d], queue'[d])
    <3>1. CASE d = c
      BY <1>2, <1>3, <3>1 DEF Placed
    <3>2. CASE d # c
      BY <1>3, <3>2 DEF Placed
    <3>3. QED
      BY <3>1, <3>2
  <2>2. QED
    BY <1>1, <2>1 DEF Placed, In, Once, client
<1>10. DisconnectRuns'
  <2>1. \A d \in Connections : In(DisconnectOp, queue'[d]) => In(DisconnectOp, queue[d])
    BY <1>2, <1>3
  <2>2. QED
    BY <1>1, <2>1 DEF DisconnectRuns, In
<1>11. Reached'
  BY <1>1, <1>7 DEF Reached, notify, client
<1>12. Orphans'
  BY <1>1, <1>3 DEF Orphans, PendingDisconnectMeansIdle
<1>13. QED
  BY <1>4, <1>5, <1>6, <1>8, <1>9, <1>10, <1>11, <1>12

LEMMA DecideToStopStep ==
  ASSUME IInv, NEW c \in Connections, DecideToStop(c)
  PROVE  IInv'
<1> USE DEF IInv
<1>1. /\ thread[c] = "running" /\ finishing[c] = NoOp /\ queue[c] = <<>>
      /\ thread' = [thread EXCEPT ![c] = "stopping"]
      /\ UNCHANGED <<opened, lastFolder, queue, finishing, connected,
                     autoDisconnect, notify, ownerRefs, client>>
  BY DEF DecideToStop, Idle
<1>2. TypeOK'
  BY <1>1 DEF TypeOK, notify, client
<1>3. PoolBounded' /\ PendingDisconnectMeansIdle' /\ Flags' /\ Orphans'
  BY <1>1 DEF PoolBounded, PendingDisconnectMeansIdle, Flags, Orphans, notify,
              TypeOK
<1>4. SessionObject' <=> SessionObject
  BY <1>1 DEF SessionObject, client
<1>5. Retained'
  <2>1. Cardinality(Active') = Cardinality(Active)
    BY <1>1, CountThreads
  <2>2. Bit(SessionObject') = Bit(SessionObject)
    BY <1>4 DEF Bit
  <2>3. QED
    BY <1>1, <2>1, <2>2 DEF Retained
<1>6. Placed'
  BY <1>1 DEF Placed, In, Once, client
<1>7. DisconnectRuns'
  <2>1. ~In(DisconnectOp, queue[c])
    BY <1>1 DEF In
  <2>2. \A d \in Connections \ {c} : thread'[d] = thread[d]
    BY <1>1 DEF TypeOK
  <2>3. \A d \in Connections : In(DisconnectOp, queue'[d]) => thread'[d] = "running"
    BY <1>1, <2>1, <2>2 DEF DisconnectRuns
  <2>4. QED
    BY <2>3 DEF DisconnectRuns, In
<1>8. Reached'
  BY <1>1, <1>4 DEF Reached, notify, client
<1>9. QED
  BY <1>2, <1>3, <1>5, <1>6, <1>7, <1>8

LEMMA StoppedStep ==
  ASSUME IInv, NEW c \in Connections, QueueStoppedRunning(c)
  PROVE  IInv'
<1> USE DEF IInv
<1> DEFINE pending == [autoDisconnect EXCEPT ![c] = IF connected[c] THEN TRUE ELSE @]
<1>1. /\ thread[c] = "stopping"
      /\ thread' = [thread EXCEPT ![c] = "none"]
      /\ queueRunning' = [queueRunning EXCEPT ![c] = FALSE]
      /\ RunningStateChanged(OthersRunning(c))
      /\ SessionReleased(ownerRefs - 1, pending)
      /\ UNCHANGED <<lastFolder, queue, finishing, connected, client>>
  BY DEF QueueStoppedRunning, Stops
<1>2. SessionObject' <=> SessionObject
  BY <1>1 DEF SessionObject, client
<1>3. /\ pending \in [Connections -> BOOLEAN]
      /\ pending[c] => autoDisconnect[c] \/ connected[c]
      /\ \A d \in Connections \ {c} : pending[d] = autoDisconnect[d]
  BY DEF TypeOK
<1> HIDE DEF pending
<1>4. ownerRefs - 1 \in Nat /\ (SessionObject => ownerRefs - 1 # 0)
  <2>1. ownerRefs >= Bit(SessionObject) + 1
    BY <1>1, ThreadMeansReference
  <2>2. CASE SessionObject
    BY <2>1, <2>2 DEF Bit, TypeOK
  <2>3. CASE ~SessionObject
    BY <2>1, <2>3 DEF Bit, TypeOK
  <2>4. QED
    BY <2>2, <2>3
<1>5. /\ ownerRefs' = ownerRefs - 1
      /\ opened' \in 0..ConnectionBound
      /\ autoDisconnect' \in [Connections -> BOOLEAN]
      /\ ownerRefs - 1 # 0 => opened' = opened
      /\ \A d \in Connections : autoDisconnect'[d] => pending[d]
      /\ PoolBounded' /\ Orphans'
  BY <1>1, <1>3, <1>4, ReleasedFacts
<1>6. poolRunning' \in BOOLEAN
  BY <1>1, Zenon DEF RunningStateChanged, OthersRunning
<1>7. told' \in BOOLEAN
  BY <1>1, Zenon DEF RunningStateChanged, OthersRunning, TypeOK
<1>8. TypeOK'
  BY <1>1, <1>4, <1>5, <1>6, <1>7 DEF TypeOK, client
<1>9. PendingDisconnectMeansIdle'
  BY <1>1, <1>3, <1>5 DEF PendingDisconnectMeansIdle, TypeOK
<1>10. Flags'
  BY <1>1 DEF Flags, TypeOK
<1>11. Retained'
  <2>1. Cardinality(Active') = Cardinality(Active) - 1
    BY <1>1, CountThreads
  <2>2. Bit(SessionObject') = Bit(SessionObject) /\ Bit(SessionObject) \in {0, 1}
    BY <1>2 DEF Bit
  <2>3. ownerRefs' = Bit(SessionObject') + Cardinality(Active')
    BY <1>5, <2>1, <2>2, ActiveIsFinite DEF Retained
  <2>4. QED
    BY <2>3 DEF Retained
<1>12. Placed'
  BY <1>1 DEF Placed, In, Once, client
<1>13. DisconnectRuns'
  <2>1. ~In(DisconnectOp, queue[c])
    BY <1>1 DEF DisconnectRuns
  <2>2. \A d \in Connections \ {c} : thread'[d] = thread[d]
    BY <1>1 DEF TypeOK
  <2>3. \A d \in Connections : In(DisconnectOp, queue'[d]) => thread'[d] = "running"
    BY <1>1, <2>1, <2>2 DEF DisconnectRuns
  <2>4. QED
    BY <2>3 DEF DisconnectRuns, In
<1>14. Reached'
  <2>1. queueRunning[c]
    BY <1>1 DEF Flags
  <2>2. \A d \in Connections : queueRunning'[d] \/ autoDisconnect'[d] =>
          queueRunning[d] \/ autoDisconnect[d]
    BY <1>1, <1>3, <1>5, <2>1 DEF TypeOK
  <2>3. QED
    BY <1>1, <1>2, <1>4, <1>5, <2>2 DEF Reached, client
<1>15. QED
  BY <1>5, <1>8, <1>9, <1>10, <1>11, <1>12, <1>13, <1>14

-----------------------------------------------------------------------------
(* The theorems.                                                           *)

LEMMA InitIInv == Init => IInv
<1> SUFFICES ASSUME Init PROVE IInv
  OBVIOUS
<1>1. TypeOK
  <2>1. poolRunning \in BOOLEAN /\ told \in BOOLEAN /\ held \in BOOLEAN
    BY PoolAssumption, Zenon DEF Init
  <2>2. <<>> \in Seq(Ops \cup {DisconnectOp})
    OBVIOUS
  <2>3. QED
    BY <2>1, <2>2, PoolAssumption DEF Init, TypeOK
<1>2. SessionObject
  BY DEF Init, SessionObject
<1>3. Active = {}
  BY DEF Init, Active
<1>4. Retained
  BY <1>2, <1>3, FS_EmptySet DEF Init, Retained, Bit
<1>5. \A c \in Connections : Len(queue[c]) = 0 /\ finishing[c] = NoOp
  BY DEF Init
<1>6. Placed /\ DisconnectRuns
  BY <1>5, PoolAssumption DEF Placed, DisconnectRuns, In, Once
<1>7. PoolBounded /\ PendingDisconnectMeansIdle /\ Flags /\ Reached /\ Orphans
  BY PoolAssumption DEF Init, PoolBounded, PendingDisconnectMeansIdle, Flags,
                        Reached, Orphans
<1>8. QED
  BY <1>1, <1>4, <1>6, <1>7 DEF IInv

LEMMA StutterStep ==
  ASSUME IInv, UNCHANGED vars
  PROVE  IInv'
<1>1. SessionObject' <=> SessionObject
  BY DEF vars, client, SessionObject
<1>2. Retained'
  BY <1>1 DEF IInv, Retained, Active, Bit, vars, queues
<1>3. QED
  BY <1>1, <1>2 DEF IInv, TypeOK, PoolBounded, PendingDisconnectMeansIdle, Flags,
          Placed, DisconnectRuns, Reached, Orphans, In, Once, vars, queues,
          notify, client

LEMMA NextIInv == IInv /\ [Next]_vars => IInv'
<1> SUFFICES ASSUME IInv, [Next]_vars PROVE IInv'
  OBVIOUS
<1>1. CASE UNCHANGED vars
  BY <1>1, StutterStep
<1>2. CASE Client
  BY <1>2, CreateStep, StartStep, DiscardStep, ReleaseSessionStep DEF Client
<1>3. ASSUME NEW c \in Connections, Queue(c)
      PROVE  IInv'
  BY <1>3, RunHeadStep, CompletedStep, DecideToStopStep DEF Queue
<1>4. ASSUME NEW c \in Connections, MainThread(c)
      PROVE  IInv'
  BY <1>4, StoppedStep, AutomaticDisconnectStep DEF MainThread
<1>5. QED
  BY <1>1, <1>2, <1>3, <1>4 DEF Next, Finished

LEMMA PoolInvariant == Spec => []IInv
  BY InitIInv, NextIInv, PTL DEF Spec

\* Type correctness: the reference count of the session never goes below zero
\* (the retains in queueStartRunning and the releases in queueStoppedRunning).
THEOREM PoolTypeCorrect == Spec => []TypeOK
<1>1. IInv => TypeOK
  BY DEF IInv
<1>2. QED
  BY <1>1, PoolInvariant, PTL

\* No more connections than maximumConnections (availableSession), for any
\* number of operations and any limit.
THEOREM PoolWithinLimit == Spec => []PoolBounded
<1>1. IInv => PoolBounded
  BY DEF IInv
<1>2. QED
  BY <1>1, PoolInvariant, PTL

\* "It's safe since no thread is running when this function is called"
\* (tryAutomaticDisconnect).
THEOREM DisconnectIsSafe == Spec => []PendingDisconnectMeansIdle
<1>1. IInv => PendingDisconnectMeansIdle
  BY DEF IInv
<1>2. QED
  BY <1>1, PoolInvariant, PTL

\* A queue that starts or stops calls an owner that exists, unless an operation
\* was cancelled (queueStartRunning, queueStoppedRunning).
THEOREM OwnerIsAlive == Spec => OwnerAliveWhenCalled
<1> DEFINE Called == queueRunning' # queueRunning =>
                       ownerRefs > 0 \/ \E o \in Ops : opState[o] = "cancelled"
<1>1. ASSUME IInv, [Next]_vars PROVE [Called]_vars
  <2> USE <1>1 DEF IInv
  <2>1. ASSUME queueRunning' # queueRunning
        PROVE  \E c \in Connections :
                 \/ QueueStoppedRunning(c) \/ AutomaticDisconnect(c)
                 \/ \E o \in Ops : Start(o)
    BY <2>1 DEF vars, Next, Client, CreateOperation, ReleaseSession, Discard,
            Cancel, ReleaseObjects, Queue, RunHead, OperationCompleted,
            DecideToStop, MainThread, Finished, notify, Start, Reached
  <2>2. ASSUME NEW c \in Connections, QueueStoppedRunning(c)
        PROVE  ownerRefs > 0
    <3>1. thread[c] # "none"
      BY <2>2 DEF QueueStoppedRunning, Stops
    <3>2. QED
      BY <3>1, ThreadMeansReference DEF Bit, TypeOK
  <2>3. ASSUME NEW o \in Ops, Start(o)
        PROVE  ownerRefs > 0
    BY <2>3, ThreadMeansReference DEF Start, SessionObject
  <2>4. ASSUME NEW c \in Connections, AutomaticDisconnect(c), ~(ownerRefs > 0)
        PROVE  \E o \in Ops : opState[o] = "cancelled"
    <3>1. autoDisconnect[c] /\ thread[c] = "none" /\ ownerRefs = 0
      BY <2>4 DEF AutomaticDisconnect, PendingDisconnectMeansIdle, TypeOK
    <3>2. queue[c] # <<>> /\ queue[c] \in Seq(Ops \cup {DisconnectOp})
      BY <3>1 DEF Orphans, TypeOK
    <3>3. PICK o \in Ops \cup {DisconnectOp} : In(o, queue[c])
      BY <3>2, TailIn
    <3>4. o # DisconnectOp
      BY <3>1, <3>3 DEF DisconnectRuns
    <3>5. ~SessionObject
      BY <2>4, ThreadMeansReference
    <3>6. QED
      BY <3>3, <3>4, <3>5 DEF Placed, SessionObject
  <2>5. QED
    BY <2>1, <2>2, <2>3, <2>4
<1>2. QED
  BY <1>1, PoolInvariant, PTL DEF Spec, OwnerAliveWhenCalled

-----------------------------------------------------------------------------
(* What the client knows.                                                  *)

\* The MCOIMAPSession does not come back.
LEMMA ObjectStaysGone ==
  ASSUME IInv, [Next]_vars, SessionObject'
  PROVE  SessionObject
<1> USE DEF IInv, TypeOK
<1>1. CASE UNCHANGED client
  BY <1>1 DEF client, SessionObject
<1>2. CASE ReleaseSession
  BY <1>2 DEF ReleaseSession, ReleaseObjects, SessionObject
<1>3. ASSUME NEW o \in Ops, NEW f, NEW urgent, CreateOperation(o, f, urgent)
      PROVE  SessionObject
  BY <1>3 DEF CreateOperation, SessionObject
<1>4. ASSUME NEW o \in Ops, Start(o) \/ Discard(o) \/ Cancel(o)
      PROVE  SessionObject
  BY <1>4 DEF Start, Discard, Cancel, ReleaseObjects, SessionObject
<1>5. ASSUME NEW c \in Connections, OperationCompleted(c)
      PROVE  SessionObject
  BY <1>5 DEF OperationCompleted, SessionObject
<1>6. ASSUME NEW c \in Connections,
             RunHead(c) \/ DecideToStop(c) \/ QueueStoppedRunning(c)
               \/ AutomaticDisconnect(c)
      PROVE  UNCHANGED client
  BY <1>6 DEF RunHead, DecideToStop, QueueStoppedRunning, Stops,
              AutomaticDisconnect
<1>7. CASE UNCHANGED vars
  BY <1>1, <1>7 DEF vars
<1>8. QED
  BY <1>1, <1>2, <1>3, <1>4, <1>5, <1>6, <1>7
     DEF Next, Client, Queue, MainThread, Finished

\* A change of one connection's flag is told to the client.
LEMMA KnownChange ==
  ASSUME IInv, Known, NEW running \in BOOLEAN, RunningStateChanged(running),
         SessionObject' => SessionObject,
         SessionObject => (running <=> \E c \in Connections : queueRunning'[c])
  PROVE  Known'
<1>1. poolRunning' = running
  BY DEF RunningStateChanged
<1>2. told' = IF poolRunning # running /\ SessionObject THEN running ELSE told
  BY DEF RunningStateChanged
<1>3. poolRunning \in BOOLEAN /\ told \in BOOLEAN
  BY DEF IInv, TypeOK
<1>4. SessionObject => told' = running
  <2>1. SessionObject => told = poolRunning
    BY <1>3, Zenon DEF Known
  <2>2. CASE poolRunning = running
    BY <1>2, <2>1, <2>2
  <2>3. CASE poolRunning # running
    BY <1>2, <2>3
  <2>4. QED
    BY <2>2, <2>3
<1>5. QED
  BY <1>1, <1>4 DEF Known

LEMMA EnqueueIsTold ==
  ASSUME IInv, Known, NEW c \in Connections, NEW x \in Ops \cup {DisconnectOp},
         RunOperation(c, x), UNCHANGED opened, SessionObject => c <= opened,
         SessionObject' => SessionObject
  PROVE  Known'
<1> USE DEF IInv
<1>1. CASE thread[c] = "none"
  <2> DEFINE running == \E d \in 1..opened : queueRunning'[d]
  <2>1. /\ queueRunning' = [queueRunning EXCEPT ![c] = TRUE]
        /\ RunningStateChanged(running)
    BY <1>1, EnqueueFacts
  <2>2. queueRunning'[c]
    BY <2>1 DEF TypeOK
  <2>3. SessionObject => c \in 1..opened
    BY DEF Connections, TypeOK
  <2>4. SessionObject => (running <=> \E d \in Connections : queueRunning'[d])
    BY <2>2, <2>3
  <2>5. running \in BOOLEAN
    BY Zenon
  <2> HIDE DEF running
  <2>6. QED
    BY <2>1, <2>4, <2>5, KnownChange
<1>2. CASE thread[c] # "none"
  BY <1>2, EnqueueFacts DEF Known, notify
<1>3. QED
  BY <1>1, <1>2

LEMMA StoppedIsTold ==
  ASSUME IInv, Known, NEW c \in Connections, QueueStoppedRunning(c),
         SessionObject' => SessionObject
  PROVE  Known'
<1> USE DEF IInv
<1>1. /\ queueRunning' = [queueRunning EXCEPT ![c] = FALSE]
      /\ RunningStateChanged(OthersRunning(c))
  BY DEF QueueStoppedRunning, Stops
<1>2. ~queueRunning'[c] /\ \A d \in Connections \ {c} : queueRunning'[d] = queueRunning[d]
  BY <1>1 DEF TypeOK
<1>3. SessionObject => \A d \in Connections : queueRunning[d] => d \in 1..opened
  BY DEF Reached, Connections, TypeOK
<1>4. 1..opened \subseteq Connections
  BY PoolAssumption DEF TypeOK, Connections
<1>5. SessionObject => (OthersRunning(c) <=> \E d \in Connections : queueRunning'[d])
  BY <1>2, <1>3, <1>4 DEF OthersRunning
<1>6. OthersRunning(c) \in BOOLEAN
  BY Zenon DEF OthersRunning
<1>7. QED
  BY <1>1, <1>5, <1>6, KnownChange

LEMMA KnownStep ==
  ASSUME IInv, Known, [Next]_vars
  PROVE  Known'
<1> USE DEF IInv
<1>1. SessionObject' => SessionObject
  BY ObjectStaysGone
<1>2. CASE UNCHANGED notify
  BY <1>1, <1>2 DEF Known, notify
<1>3. ASSUME NEW o \in Ops, Start(o)
      PROVE  Known'
  <2>1. place[o] \in Connections /\ place[o] <= opened
    BY <1>3 DEF Start, Reached, SessionObject
  <2>2. QED
    BY <1>1, <1>3, <2>1, EnqueueIsTold DEF Start
<1>4. ASSUME NEW c \in Connections, AutomaticDisconnect(c)
      PROVE  Known'
  <2>1. SessionObject => c <= opened
    BY <1>4 DEF AutomaticDisconnect, Reached
  <2>2. QED
    BY <1>1, <1>4, <2>1, EnqueueIsTold DEF AutomaticDisconnect
<1>5. ASSUME NEW c \in Connections, QueueStoppedRunning(c)
      PROVE  Known'
  BY <1>1, <1>5, StoppedIsTold
<1>6. QED
  BY <1>2, <1>3, <1>4, <1>5 DEF vars, Next, Client, CreateOperation,
     ReleaseSession, Discard, Cancel, ReleaseObjects, Queue, RunHead,
     OperationCompleted, DecideToStop, MainThread, Finished

\* When mQueueRunning begins FALSE, the client is told of each start and of
\* each stop, and knows whether the pool runs (operationRunningStateChanged).
THEOREM ClientIsTold ==
  ASSUME InitialQueueRunning \subseteq {FALSE}
  PROVE  Spec => []ClientKnowsRunning
<1>1. Init => Known
  BY DEF Init, Known
<1>2. IInv /\ Known /\ [Next]_vars => Known'
  BY KnownStep
<1>3. Known => ClientKnowsRunning
  BY DEF Known, ClientKnowsRunning
<1>4. QED
  BY <1>1, <1>2, <1>3, PoolInvariant, PTL DEF Spec

-----------------------------------------------------------------------------
(* The use of the queues.                                                  *)

ContractStep(d) == [Contract(d)!Next]_(Contract(d)!vars)

LEMMA AddIsContractStep ==
  ASSUME IInv, NEW c \in Connections, NEW x \in Ops \cup {DisconnectOp},
         RunOperation(c, x), UNCHANGED finishing, NEW d \in Connections
  PROVE  ContractStep(d)
<1> USE DEF IInv, TypeOK
<1>1. /\ queue' = [queue EXCEPT ![c] = Append(queue[c], x)]
      /\ thread[c] = "none" => thread' = [thread EXCEPT ![c] = "running"]
      /\ thread[c] # "none" => thread' = thread
  BY EnqueueFacts
<1>2. CASE d = c
  <2>1. Contract(d)!Add(x)
    BY <1>1, <1>2 DEF Contract!Add
  <2>2. QED
    BY <2>1 DEF ContractStep, Contract!Next
<1>3. CASE d # c
  BY <1>1, <1>3 DEF ContractStep, Contract!vars
<1>4. QED
  BY <1>2, <1>3

LEMMA QueueIsContractStep ==
  ASSUME IInv, NEW c \in Connections, Queue(c) \/ QueueStoppedRunning(c),
         NEW d \in Connections
  PROVE  ContractStep(d)
<1> USE DEF IInv, TypeOK
<1>1. CASE RunHead(c)
  <2>1. d = c => Contract(d)!Run
    BY <1>1 DEF RunHead, Idle, Contract!Run
  <2>2. d # c => UNCHANGED Contract(d)!vars
    BY <1>1 DEF RunHead, Contract!vars
  <2>3. QED
    BY <2>1, <2>2 DEF ContractStep, Contract!Next
<1>2. CASE OperationCompleted(c)
  <2>1. d = c => Contract(d)!CallBack
    BY <1>2 DEF OperationCompleted, Flags, Contract!CallBack
  <2>2. d # c => UNCHANGED Contract(d)!vars
    BY <1>2 DEF OperationCompleted, Contract!vars
  <2>3. QED
    BY <2>1, <2>2 DEF ContractStep, Contract!Next
<1>3. CASE DecideToStop(c)
  <2>1. d = c => Contract(d)!Decide
    BY <1>3 DEF DecideToStop, Idle, Contract!Decide
  <2>2. d # c => UNCHANGED Contract(d)!vars
    BY <1>3 DEF DecideToStop, Contract!vars
  <2>3. QED
    BY <2>1, <2>2 DEF ContractStep, Contract!Next
<1>4. CASE QueueStoppedRunning(c)
  <2>1. d = c => Contract(d)!Stopped
    BY <1>4 DEF QueueStoppedRunning, Stops, Contract!Stopped
  <2>2. d # c => UNCHANGED Contract(d)!vars
    BY <1>4 DEF QueueStoppedRunning, Stops, Contract!vars
  <2>3. QED
    BY <2>1, <2>2 DEF ContractStep, Contract!Next
<1>5. QED
  BY <1>1, <1>2, <1>3, <1>4 DEF Queue

\* Each queue is used, and calls back, as its contract says: the pool and the
\* queue, which implements the contract, fit together (startThread,
\* queueStartRunning and queueStoppedRunning).
THEOREM QueuesFollowContract == Spec => UsesQueueContract
<1>1. Init => QueuesBegin
  BY DEF Init, QueuesBegin, Contract!Init
<1>2. ASSUME IInv, [Next]_vars PROVE \A d \in Connections : ContractStep(d)
  <2> SUFFICES ASSUME NEW d \in Connections PROVE ContractStep(d)
    OBVIOUS
  <2>1. CASE UNCHANGED queues
    BY <2>1 DEF queues, ContractStep, Contract!vars
  <2>2. ASSUME NEW o \in Ops, Start(o)
        PROVE  ContractStep(d)
    <3>1. place[o] \in Connections
      BY <1>2, <2>2 DEF Start, IInv, Reached
    <3>2. QED
      BY <1>2, <2>2, <3>1, AddIsContractStep DEF Start
  <2>3. ASSUME NEW c \in Connections, AutomaticDisconnect(c)
        PROVE  ContractStep(d)
    BY <1>2, <2>3, AddIsContractStep DEF AutomaticDisconnect
  <2>4. ASSUME NEW c \in Connections, Queue(c) \/ QueueStoppedRunning(c)
        PROVE  ContractStep(d)
    BY <1>2, <2>4, QueueIsContractStep
  <2>5. ASSUME NEW o \in Ops, NEW f, NEW urgent,
               CreateOperation(o, f, urgent) \/ Discard(o) \/ Cancel(o)
        PROVE  UNCHANGED queues
    BY <2>5 DEF CreateOperation, Discard, Cancel, ReleaseObjects
  <2>6. ReleaseSession => UNCHANGED queues
    BY DEF ReleaseSession, ReleaseObjects
  <2>7. UNCHANGED vars => UNCHANGED queues
    BY DEF vars
  <2>8. QED
    BY <1>2, <2>1, <2>2, <2>3, <2>4, <2>5, <2>6, <2>7
       DEF Next, Client, MainThread, Finished
<1>3. ASSUME IInv, [Next]_vars
      PROVE  QueuesStep
  BY <1>2, <1>3 DEF QueuesStep, ContractStep
<1>4. QED
  BY <1>1, <1>3, PoolInvariant, PTL DEF Spec, UsesQueueContract

-----------------------------------------------------------------------------
(* What the liveness of the pool rests on: no operation and no open         *)
(* connection is forgotten.                                                 *)

\* An operation that was started is in the queue of its connection, or about to
\* be called back.
StartedIsKept ==
  \A o \in Ops : opState[o] = "started" =>
    In(o, queue[place[o]]) \/ finishing[place[o]] = o

LEMMA HeadOrTail ==
  ASSUME NEW S, NEW q \in Seq(S), q # <<>>, NEW o, In(o, q)
  PROVE  o = Head(q) \/ In(o, Tail(q))
<1> DEFINE r == Tail(q)
<1>1. PICK i \in 1..Len(q) : q[i] = o
  BY DEF In
<1>2. /\ Len(q) \in Nat /\ Len(r) = Len(q) - 1 /\ Head(q) = q[1]
      /\ \A j \in 1..Len(r) : r[j] = q[j + 1]
  OBVIOUS
<1> HIDE DEF r
<1>3. CASE i # 1
  <2>1. i - 1 \in 1..Len(r) /\ (i - 1) + 1 = i
    BY <1>2, <1>3
  <2>2. r[i - 1] = o
    BY <1>1, <1>2, <2>1
  <2>3. QED
    BY <2>1, <2>2 DEF In, r
<1>4. QED
  BY <1>1, <1>2, <1>3

LEMMA EnqueueKeepsStarted ==
  ASSUME IInv, StartedIsKept, NEW c \in Connections, NEW x \in Ops \cup {DisconnectOp},
         RunOperation(c, x), UNCHANGED <<finishing, place>>,
         \A o \in Ops : opState'[o] = "started" =>
                          opState[o] = "started" \/ (o = x /\ place[o] = c)
  PROVE  StartedIsKept'
<1>1. queue \in [Connections -> Seq(Ops \cup {DisconnectOp})]
  BY DEF IInv, TypeOK
<1>2. queue' = [queue EXCEPT ![c] = Append(queue[c], x)]
  BY EnqueueFacts DEF IInv
<1>3. \A o : In(o, Append(queue[c], x)) <=> In(o, queue[c]) \/ o = x
  BY <1>1, AppendIn
<1>4. ASSUME NEW o \in Ops, opState'[o] = "started"
      PROVE  In(o, queue'[place'[o]]) \/ finishing'[place'[o]] = o
  <2>1. CASE o = x /\ place[o] = c
    BY <1>1, <1>2, <1>3, <2>1
  <2>2. CASE opState[o] = "started"
    <3>1. place[o] \in Connections
      BY <2>2 DEF IInv, Reached
    <3>2. In(o, queue[place[o]]) \/ finishing[place[o]] = o
      BY <2>2 DEF StartedIsKept
    <3>3. In(o, queue[place[o]]) => In(o, queue'[place[o]])
      BY <1>1, <1>2, <1>3, <3>1
    <3>4. QED
      BY <3>2, <3>3
  <2>3. QED
    BY <1>4, <2>1, <2>2
<1>5. QED
  BY <1>4 DEF StartedIsKept

LEMMA QueueKeepsStarted ==
  ASSUME IInv, StartedIsKept, NEW c \in Connections, RunHead(c) \/ OperationCompleted(c)
  PROVE  StartedIsKept'
<1>1. /\ queue \in [Connections -> Seq(Ops \cup {DisconnectOp})]
      /\ finishing \in [Connections -> Ops \cup {DisconnectOp, NoOp}]
      /\ opState \in [Ops -> States]
  BY DEF IInv, TypeOK, States
<1>2. CASE RunHead(c)
  <2>1. /\ finishing[c] = NoOp /\ queue[c] # <<>>
        /\ finishing' = [finishing EXCEPT ![c] = Head(queue[c])]
        /\ queue' = [queue EXCEPT ![c] = Tail(queue[c])]
        /\ UNCHANGED <<opState, place>>
    BY <1>2 DEF RunHead, Idle, client
  <2>2. \A o : In(o, queue[c]) => o = Head(queue[c]) \/ In(o, Tail(queue[c]))
    BY <1>1, <2>1, HeadOrTail
  <2>3. ASSUME NEW o \in Ops, opState[o] = "started"
        PROVE  In(o, queue'[place[o]]) \/ finishing'[place[o]] = o
    <3>1. place[o] \in Connections
      BY <2>3 DEF IInv, Reached
    <3>2. In(o, queue[place[o]]) \/ finishing[place[o]] = o
      BY <2>3 DEF StartedIsKept
    <3>3. CASE place[o] = c
      <4>1. finishing[c] # o
        BY <2>1, PoolAssumption
      <4>2. QED
        BY <1>1, <2>1, <2>2, <3>2, <3>3, <4>1
    <3>4. CASE place[o] # c
      BY <1>1, <2>1, <3>1, <3>2, <3>4
    <3>5. QED
      BY <3>3, <3>4
  <2>4. QED
    BY <2>1, <2>3 DEF StartedIsKept
<1>3. CASE OperationCompleted(c)
  <2> DEFINE x == finishing[c]
  <2>1. /\ finishing' = [finishing EXCEPT ![c] = NoOp]
        /\ opState' = IF x \in Ops /\ opState[x] = "started"
                      THEN [opState EXCEPT ![x] = "done"] ELSE opState
        /\ UNCHANGED <<queue, place>>
    BY <1>3 DEF OperationCompleted
  <2>2. \A o \in Ops : opState'[o] = "started" => opState[o] = "started" /\ o # x
    BY <1>1, <2>1
  <2>3. \A d \in Connections : finishing'[d] = finishing[d] \/ finishing[d] = x
    BY <1>1, <2>1
  <2> HIDE DEF x
  <2>4. \A o \in Ops : opState[o] = "started" => place[o] \in Connections
    BY DEF IInv, Reached
  <2>5. QED
    BY <2>1, <2>2, <2>3, <2>4 DEF StartedIsKept
<1>4. QED
  BY <1>2, <1>3

LEMMA ClientKeepsStarted ==
  ASSUME IInv, StartedIsKept, Client
  PROVE  StartedIsKept'
<1> USE DEF IInv, TypeOK
<1>1. ASSUME NEW o \in Ops, NEW f, NEW urgent, CreateOperation(o, f, urgent)
      PROVE  StartedIsKept'
  <2>1. /\ UNCHANGED <<queue, finishing>>
        /\ opState' = [opState EXCEPT ![o] = "created"]
        /\ \A p \in Ops \ {o} : place'[p] = place[p]
    BY <1>1 DEF CreateOperation, queues
  <2>2. \A p \in Ops : opState'[p] = "started" => p # o /\ opState[p] = "started"
    BY <2>1
  <2>3. QED
    BY <2>1, <2>2 DEF StartedIsKept
<1>2. ASSUME NEW o \in Ops, Start(o)
      PROVE  StartedIsKept'
  <2>1. /\ opState' = [opState EXCEPT ![o] = "started"]
        /\ RunOperation(place[o], o) /\ UNCHANGED <<finishing, place>>
    BY <1>2 DEF Start
  <2>2. place[o] \in Connections
    BY <1>2 DEF Start, Reached
  <2>3. \A p \in Ops : opState'[p] = "started" => opState[p] = "started" \/ p = o
    BY <2>1
  <2>4. QED
    BY <2>1, <2>2, <2>3, EnqueueKeepsStarted
<1>3. CASE ReleaseSession \/ \E o \in Ops : Discard(o) \/ Cancel(o)
  <2>1. /\ UNCHANGED <<queue, finishing, place>>
        /\ \A o \in Ops : opState'[o] = "started" => opState[o] = "started"
    BY <1>3 DEF ReleaseSession, Discard, Cancel, ReleaseObjects, queues
  <2>2. QED
    BY <2>1 DEF StartedIsKept
<1>4. QED
  BY <1>1, <1>2, <1>3 DEF Client

LEMMA StartedIsKeptStep ==
  ASSUME IInv, StartedIsKept, [Next]_vars
  PROVE  StartedIsKept'
<1>1. ASSUME UNCHANGED <<queue, finishing, opState, place>> PROVE StartedIsKept'
  BY <1>1 DEF StartedIsKept
<1>2. ASSUME NEW c \in Connections, DecideToStop(c) \/ QueueStoppedRunning(c)
      PROVE  StartedIsKept'
  BY <1>1, <1>2 DEF DecideToStop, QueueStoppedRunning, Stops, client
<1>3. ASSUME NEW c \in Connections, AutomaticDisconnect(c)
      PROVE  StartedIsKept'
  BY <1>3, EnqueueKeepsStarted DEF AutomaticDisconnect, client
<1>4. CASE UNCHANGED vars
  BY <1>1, <1>4 DEF vars, queues, client
<1>5. QED
  BY <1>2, <1>3, <1>4, QueueKeepsStarted, ClientKeepsStarted
     DEF Next, Queue, MainThread, Finished

\* No operation falls between the pool and its queues, whatever mix of
\* connections, cancels and releases of the session: until its callback it is in
\* the queue of its connection, or being finished (runOperation,
\* _operationCompleted).  If it waits it waits for a thread.
THEOREM StartedIsInItsQueue == Spec => []StartedIsKept
<1>1. Init => StartedIsKept
  BY DEF Init, StartedIsKept
<1>2. QED
  BY <1>1, StartedIsKeptStep, PoolInvariant, PTL DEF Spec

\* A connection that is open without a thread has its disconnection pending,
\* unless the session was destroyed; while the client can use the session, it is
\* one of mSessions.
OpenWillClose ==
  \A c \in Connections : connected[c] =>
    /\ thread[c] = "none" => autoDisconnect[c] \/ opened = 0
    /\ SessionObject => c <= opened

LEMMA ReleasedKeepsClosing ==
  ASSUME IInv, OpenWillClose, NEW refs \in Nat, SessionReleased(refs, autoDisconnect),
         SessionObject' => SessionObject /\ refs # 0, UNCHANGED <<connected, thread>>
  PROVE  OpenWillClose'
<1>1. CASE refs = 0
  BY <1>1 DEF SessionReleased, OpenWillClose
<1>2. CASE refs # 0
  BY <1>2 DEF SessionReleased, OpenWillClose
<1>3. QED
  BY <1>1, <1>2

LEMMA ObjectGoesKeepsClosing ==
  ASSUME IInv, OpenWillClose, SessionObject' => SessionObject,
         SessionReleased(ownerRefs - Bit(SessionObject /\ ~SessionObject'),
                         autoDisconnect),
         UNCHANGED <<connected, thread>>
  PROVE  OpenWillClose'
<1> DEFINE refs == ownerRefs - Bit(SessionObject /\ ~SessionObject')
<1>1. ownerRefs \in Nat /\ (SessionObject => ownerRefs > 0)
  BY ThreadMeansReference DEF IInv, TypeOK
<1>2. refs \in Nat
  BY <1>1 DEF Bit
<1>3. SessionObject' => refs # 0
  BY <1>1 DEF Bit
<1>4. SessionReleased(refs, autoDisconnect)
  OBVIOUS
<1> HIDE DEF refs
<1>5. QED
  BY <1>2, <1>3, <1>4, ReleasedKeepsClosing

LEMMA EnqueueKeepsClosing ==
  ASSUME IInv, OpenWillClose, SessionObject' => SessionObject,
         NEW c \in Connections, NEW x \in Ops \cup {DisconnectOp},
         RunOperation(c, x), UNCHANGED <<opened, connected>>
  PROVE  OpenWillClose'
<1> USE DEF IInv, TypeOK
<1>1. autoDisconnect' = [autoDisconnect EXCEPT ![c] = FALSE]
  BY EnqueueFacts
<1>2. thread' = [thread EXCEPT ![c] = "running"] \/ (thread' = thread /\ thread[c] # "none")
  BY EnqueueFacts
<1>3. /\ thread'[c] # "none"
      /\ \A d \in Connections \ {c} : /\ thread'[d] = thread[d]
                                      /\ autoDisconnect'[d] = autoDisconnect[d]
  BY <1>1, <1>2
<1>4. QED
  BY <1>3 DEF OpenWillClose

LEMMA StoppedKeepsClosing ==
  ASSUME IInv, OpenWillClose, SessionObject' => SessionObject,
         NEW c \in Connections, QueueStoppedRunning(c)
  PROVE  OpenWillClose'
<1> USE DEF IInv, TypeOK
<1> DEFINE pending == [autoDisconnect EXCEPT ![c] = IF connected[c] THEN TRUE ELSE @]
<1>1. /\ thread[c] = "stopping" /\ thread' = [thread EXCEPT ![c] = "none"]
      /\ SessionReleased(ownerRefs - 1, pending) /\ UNCHANGED connected
  BY DEF QueueStoppedRunning, Stops
<1>2. /\ connected[c] => pending[c]
      /\ \A d \in Connections \ {c} : /\ pending[d] <=> autoDisconnect[d]
                                      /\ thread'[d] = thread[d]
  BY <1>1
<1> HIDE DEF pending
<1>3. SessionObject => ownerRefs - 1 # 0
  BY <1>1, ThreadMeansReference DEF Bit
<1>4. CASE ownerRefs - 1 = 0
  <2>1. opened' = 0
    BY <1>1, <1>4 DEF SessionReleased
  <2>2. QED
    BY <1>3, <1>4, <2>1 DEF OpenWillClose
<1>5. CASE ownerRefs - 1 # 0
  <2>1. opened' = opened /\ autoDisconnect' = pending
    BY <1>1, <1>5 DEF SessionReleased
  <2>2. QED
    BY <1>1, <1>2, <2>1 DEF OpenWillClose
<1>6. QED
  BY <1>4, <1>5

LEMMA OpenWillCloseStep ==
  ASSUME IInv, OpenWillClose, [Next]_vars
  PROVE  OpenWillClose'
<1> USE DEF IInv, TypeOK
<1>1. SessionObject' => SessionObject
  BY ObjectStaysGone
<1>2. ASSUME NEW o \in Ops, NEW f, NEW urgent, CreateOperation(o, f, urgent)
      PROVE  OpenWillClose'
  <2>1. /\ SessionObject /\ opened' >= opened
        /\ UNCHANGED <<connected, thread, autoDisconnect>>
    BY <1>2 DEF CreateOperation, SessionObject, queues, Connections
  <2>2. \A c \in Connections : connected[c] => c <= opened /\ c > 0
    BY <2>1 DEF OpenWillClose, Connections
  <2>3. opened' \in Nat /\ \A c \in Connections : c \in Nat
    BY <1>2 DEF CreateOperation, Connections
  <2>4. QED
    BY <2>1, <2>2, <2>3 DEF OpenWillClose
<1>3. ASSUME NEW o \in Ops, Start(o)
      PROVE  OpenWillClose'
  <2>1. place[o] \in Connections
    BY <1>3 DEF Start, Reached
  <2>2. QED
    BY <1>1, <1>3, <2>1, EnqueueKeepsClosing DEF Start
<1>4. CASE ReleaseSession \/ \E o \in Ops : Discard(o) \/ Cancel(o)
  BY <1>1, <1>4, ObjectGoesKeepsClosing
     DEF ReleaseSession, Discard, Cancel, ReleaseObjects, queues
<1>5. ASSUME NEW c \in Connections, RunHead(c)
      PROVE  OpenWillClose'
  <2>1. /\ thread[c] = "running" /\ UNCHANGED <<opened, thread, autoDisconnect>>
        /\ \A d \in Connections \ {c} : connected'[d] = connected[d]
    BY <1>5 DEF RunHead
  <2>2. SessionObject => c <= opened
    BY <2>1 DEF Flags, Reached
  <2>3. QED
    BY <1>1, <2>1, <2>2 DEF OpenWillClose
<1>6. ASSUME NEW c \in Connections, OperationCompleted(c)
      PROVE  OpenWillClose'
  BY <1>1, <1>6, ObjectGoesKeepsClosing DEF OperationCompleted
<1>7. ASSUME NEW c \in Connections, DecideToStop(c)
      PROVE  OpenWillClose'
  BY <1>1, <1>7 DEF DecideToStop, OpenWillClose
<1>8. ASSUME NEW c \in Connections, AutomaticDisconnect(c)
      PROVE  OpenWillClose'
  BY <1>1, <1>8, EnqueueKeepsClosing DEF AutomaticDisconnect
<1>9. CASE UNCHANGED vars
  BY <1>1, <1>9 DEF vars, queues, OpenWillClose
<1>10. QED
  BY <1>1, <1>2, <1>3, <1>4, <1>5, <1>6, <1>7, <1>8, <1>9, StoppedKeepsClosing
     DEF Next, Client, Queue, MainThread, Finished

\* No connection is left open for nobody: what its operations did to it, when its
\* queue stops or while it rests, the disconnection is pending
\* (queueStoppedRunning, tryAutomaticDisconnect).  IdleConnectionCloses rests on it.
THEOREM OpenConnectionWillClose == Spec => []OpenWillClose
<1>1. Init => OpenWillClose
  BY DEF Init, OpenWillClose
<1>2. QED
  BY <1>1, OpenWillCloseStep, PoolInvariant, PTL DEF Spec
=============================================================================
