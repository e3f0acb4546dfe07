-------------------------- MODULE IMAPAsyncSession --------------------------
(***************************************************************************)
(* mailcore::IMAPAsyncSession and its IMAPAsyncConnections: the pool of    *)
(* connections that IMAP operations are spread over, the notification of   *)
(* the client when the pool starts and stops running, the disconnection of *)
(* an idle connection after 30 seconds, and who keeps the session alive.   *)
(*                                                                         *)
(* Everything here but the step of a worker runs on the main thread, one   *)
(* call at a time.  The queue of a connection is the one of QueueContract: *)
(* startThread and the queueStartRunning it calls belong to the step that  *)
(* adds the first operation.  A connection is its position in mSessions.   *)
(*                                                                         *)
(* A definition marked `mutant' is no part of the specification: it is the *)
(* one below it with a plausible bug, which a property here must notice.   *)
(***************************************************************************)
EXTENDS Naturals, Sequences, FiniteSetsExt

CONSTANTS Ops,                 \* the operations the client creates
          Cancellable,         \* the ones it may cancel
          NoOp,
          DisconnectOp,        \* an IMAPDisconnectOperation
          Folders, NoFolder,
          MaxConnections,      \* mMaximumConnections, 0 for no limit
          ConnectionBound,     \* bound: connections the model has room for
          AllowsFolderConcurrentAccess,
          InitialQueueRunning  \* what mQueueRunning may hold before it is set

ASSUME PoolAssumption ==
  /\ NoOp \notin Ops /\ DisconnectOp \notin Ops /\ DisconnectOp # NoOp
  /\ Cancellable \subseteq Ops
  /\ NoFolder \notin Folders
  /\ MaxConnections \in Nat /\ ConnectionBound \in Nat
  /\ MaxConnections <= ConnectionBound
  /\ AllowsFolderConcurrentAccess \in BOOLEAN
  /\ InitialQueueRunning \subseteq BOOLEAN

Connections == 1..ConnectionBound

VARIABLES
  opened,          \* length of mSessions
  lastFolder,      \* mLastFolder of each connection
  queue,           \* mOperations of its queue
  finishing,       \* its operation between the removal and the callback
  thread,          \* "none", "running", "stopping"
  connected,       \* its IMAPSession is not in STATE_DISCONNECTED
  autoDisconnect,  \* tryAutomaticDisconnectAfterDelay is pending
  queueRunning,    \* mQueueRunning of each connection
  poolRunning,     \* mQueueRunning of the session
  told,            \* the client's view, from the change callbacks
  ownerRefs,       \* mCounter of the session
  held,            \* the client holds the MCOIMAPSession
  opState,         \* life of the client's operation object
  place            \* mSession of each operation

queues == <<queue, finishing, thread>>
client == <<held, opState, place>>
notify == <<queueRunning, poolRunning, told>>
vars == <<opened, lastFolder, queues, connected, autoDisconnect, notify,
          ownerRefs, client>>

Bit(b) == IF b THEN 1 ELSE 0

\* The MCOIMAPSession is retained by the client and by its operation objects,
\* which retain themselves from start to the completion or the cancel.
SessionObject == held \/ \E o \in Ops : opState[o] \in {"created", "started"}

Init ==
  /\ opened = 0
  /\ lastFolder = [c \in Connections |-> NoFolder]
  /\ queue = [c \in Connections |-> <<>>]
  /\ finishing = [c \in Connections |-> NoOp]
  /\ thread = [c \in Connections |-> "none"]
  /\ connected = [c \in Connections |-> FALSE]
  /\ autoDisconnect = [c \in Connections |-> FALSE]
  /\ queueRunning = [c \in Connections |-> FALSE]
  /\ poolRunning \in InitialQueueRunning /\ told = FALSE
  /\ ownerRefs = 1 /\ held = TRUE
  /\ opState = [o \in Ops |-> "new"]
  /\ place = [o \in Ops |-> 0]

-----------------------------------------------------------------------------
(* Choosing a connection, when the operation is created.                   *)

Idle(c) == queue[c] = <<>>                         \* operationsCount() == 0

\* The first connection with the fewest operations in its list.
LeastBusy ==
  LET fewest == Min({Len(queue[c]) : c \in 1..opened})
  IN  Min({c \in 1..opened : Len(queue[c]) = fewest})

Available(full) ==
  IF opened > 0 /\ (Idle(LeastBusy) \/ full) THEN LeastBusy ELSE opened + 1

AvailableBeyondLimit ==                                        \* mutant
  Available(MaxConnections # 0 /\ opened > MaxConnections)
AvailableSession == Available(MaxConnections # 0 /\ opened >= MaxConnections)

\* lastFolder()->compare(folder) is not zero for a different folder.
MatchingSessionForFolder(f) ==
  LET matching == {c \in 1..opened : lastFolder[c] # f}
  IN  IF matching # {} THEN Min(matching) ELSE AvailableSession

SessionForFolder(f, urgent) ==
  IF \/ f = NoFolder
     \/ /\ urgent /\ AllowsFolderConcurrentAccess
        /\ AvailableSession > opened \/ Idle(AvailableSession)
  THEN AvailableSession
  ELSE MatchingSessionForFolder(f)

CreateOperation(o, f, urgent) ==
  LET c == SessionForFolder(f, urgent)
  IN  /\ held /\ opState[o] = "new"
      /\ c \in Connections
      /\ opened' = IF c > opened THEN c ELSE opened
      /\ lastFolder' = IF f = NoFolder THEN lastFolder
                       ELSE [lastFolder EXCEPT ![c] = f]
      /\ place' = [place EXCEPT ![o] = c]
      /\ opState' = [opState EXCEPT ![o] = "created"]
      /\ UNCHANGED <<queues, connected, autoDisconnect, notify, ownerRefs, held>>

-----------------------------------------------------------------------------
(* The callbacks of a queue.                                               *)

\* operationRunningStateChanged, after queueRunning has changed.  Without a
\* MCOIMAPSession there is no callback to call.
RunningStateChanged(isRunning) ==
  /\ poolRunning' = isRunning
  /\ told' = IF poolRunning # isRunning /\ SessionObject THEN isRunning ELSE told

StartsIf(c, starts, retains) ==
  IF starts
  THEN /\ thread' = [thread EXCEPT ![c] = "running"]
       /\ queueRunning' = [queueRunning EXCEPT ![c] = TRUE]
       /\ RunningStateChanged(\E d \in 1..opened : queueRunning'[d])
       /\ ownerRefs' = ownerRefs + retains
  ELSE UNCHANGED <<thread, notify, ownerRefs>>

QueueStartsWhileStopping(c, retains) ==                        \* mutant
  StartsIf(c, thread[c] # "running", retains)
QueueStarts(c, retains) == StartsIf(c, thread[c] = "none", retains)

\* IMAPAsyncConnection::runOperation
EnqueueKeepingTimer(c, x) ==                                   \* mutant
  /\ UNCHANGED autoDisconnect
  /\ queue' = [queue EXCEPT ![c] = Append(@, x)]
  /\ QueueStarts(c, 1)

EnqueueUnretained(c, x) ==                                     \* mutant
  /\ autoDisconnect' = [autoDisconnect EXCEPT ![c] = FALSE]
  /\ queue' = [queue EXCEPT ![c] = Append(@, x)]
  /\ QueueStarts(c, 0)

RunOperation(c, x) ==
  /\ autoDisconnect' = [autoDisconnect EXCEPT ![c] = FALSE]
  /\ queue' = [queue EXCEPT ![c] = Append(@, x)]
  /\ QueueStarts(c, 1)

\* ~IMAPAsyncSession when its last reference goes: the connections go with it,
\* and their pending calls, except those that a waiting operation retains.
SessionReleased(refs, pending) ==
  /\ ownerRefs' = refs
  /\ opened' = IF refs = 0 THEN 0 ELSE opened
  /\ autoDisconnect' =
       IF refs = 0 THEN [c \in Connections |-> pending[c] /\ ~Idle(c)] ELSE pending

-----------------------------------------------------------------------------
(* The client, on the main thread.                                         *)

Start(o) ==
  /\ opState[o] = "created"
  /\ opState' = [opState EXCEPT ![o] = "started"]
  /\ RunOperation(place[o], o)
  /\ UNCHANGED <<opened, lastFolder, finishing, connected, held, place>>

\* The client lets go of the session (~o: of an operation): nothing else may
\* hold the MCOIMAPSession, whose dealloc releases the session.
ReleaseObjects(heldAfter, opStateAfter) ==
  /\ held' = heldAfter /\ opState' = opStateAfter
  /\ SessionReleased(ownerRefs - Bit(SessionObject /\ ~SessionObject'),
                     autoDisconnect)
  /\ UNCHANGED <<lastFolder, queues, connected, notify, place>>

ReleaseSession == held /\ ReleaseObjects(FALSE, opState)

Discard(o) ==
  /\ opState[o] = "created"
  /\ ReleaseObjects(held, [opState EXCEPT ![o] = "gone"])

Cancel(o) ==
  /\ o \in Cancellable /\ opState[o] = "started"
  /\ ReleaseObjects(held, [opState EXCEPT ![o] = "cancelled"])

-----------------------------------------------------------------------------
(* The queue of a connection.                                              *)

\* main() and the removal of the head.  An operation may connect, find itself
\* disconnected, or leave the connection as it is.
RunHead(c) ==
  /\ thread[c] = "running" /\ finishing[c] = NoOp /\ ~Idle(c)
  /\ finishing' = [finishing EXCEPT ![c] = Head(queue[c])]
  /\ queue' = [queue EXCEPT ![c] = Tail(@)]
  /\ \E up \in IF Head(queue[c]) = DisconnectOp THEN {FALSE} ELSE BOOLEAN :
       connected' = [connected EXCEPT ![c] = up]
  /\ UNCHANGED <<opened, lastFolder, thread, autoDisconnect, notify, ownerRefs,
                 client>>

\* _operationCompleted: the operation object releases itself.
OperationCompleted(c) ==
  LET o == finishing[c]
      completes == o \in Ops /\ opState[o] = "started"
  IN  /\ o # NoOp
      /\ finishing' = [finishing EXCEPT ![c] = NoOp]
      /\ opState' = IF completes THEN [opState EXCEPT ![o] = "done"] ELSE opState
      /\ UNCHANGED held
      /\ SessionReleased(ownerRefs - Bit(SessionObject /\ ~SessionObject'),
                         autoDisconnect)
      /\ UNCHANGED <<lastFolder, queue, thread, connected, notify, place>>

DecideToStop(c) ==
  /\ thread[c] = "running" /\ finishing[c] = NoOp /\ Idle(c)
  /\ thread' = [thread EXCEPT ![c] = "stopping"]
  /\ UNCHANGED <<opened, lastFolder, queue, finishing, connected, autoDisconnect,
                 notify, ownerRefs, client>>

\* stoppedOnMainThread and queueStoppedRunning: the flag, the delayed call, the
\* client, the retains, in this order.
Stops(c, arms, isRunning) ==
  /\ thread[c] = "stopping"
  /\ thread' = [thread EXCEPT ![c] = "none"]
  /\ queueRunning' = [queueRunning EXCEPT ![c] = FALSE]
  /\ RunningStateChanged(isRunning)
  /\ SessionReleased(ownerRefs - 1,
       [autoDisconnect EXCEPT ![c] = IF connected[c] THEN arms ELSE @])
  /\ UNCHANGED <<lastFolder, queue, finishing, connected, client>>

OthersRunning(c) == \E d \in 1..opened \ {c} : queueRunning[d]

StopsForAll(c) == Stops(c, TRUE, FALSE)                        \* mutant
StopsArmingIdle(c) == Stops(c, Idle(c), OthersRunning(c))      \* mutant
QueueStoppedRunning(c) == Stops(c, TRUE, OthersRunning(c))

DisconnectAtOnce(c) ==                                         \* mutant
  /\ autoDisconnect[c]
  /\ autoDisconnect' = [autoDisconnect EXCEPT ![c] = FALSE]
  /\ connected' = [connected EXCEPT ![c] = FALSE]
  /\ UNCHANGED <<opened, lastFolder, queues, notify, ownerRefs, client>>

\* The run loop removes the pending call before it makes it.
AutomaticDisconnect(c) ==
  /\ autoDisconnect[c]
  /\ RunOperation(c, DisconnectOp)
  /\ UNCHANGED <<opened, lastFolder, finishing, connected, client>>

-----------------------------------------------------------------------------
Client ==
  \/ \E o \in Ops :
       \/ \E f \in Folders \cup {NoFolder}, urgent \in BOOLEAN :
            CreateOperation(o, f, urgent)
       \/ Start(o) \/ Discard(o) \/ Cancel(o)
  \/ ReleaseSession

Queue(c) == RunHead(c) \/ OperationCompleted(c) \/ DecideToStop(c)

MainThread(c) == QueueStoppedRunning(c) \/ AutomaticDisconnect(c)

Quiescent ==
  /\ ~held /\ \A o \in Ops : opState[o] # "created"
  /\ \A c \in Connections : thread[c] = "none" /\ ~autoDisconnect[c]

Finished == Quiescent /\ UNCHANGED vars

Next ==
  \/ Client
  \/ \E c \in Connections : Queue(c) \/ MainThread(c)
  \/ Finished

Spec == Init /\ [][Next]_vars

\* Workers run, main() returns, the run loop serves posted calls and timers.
Fairness ==
  \A c \in Connections :
    /\ WF_vars(Queue(c))
    /\ WF_vars(QueueStoppedRunning(c)) /\ WF_vars(AutomaticDisconnect(c))

FairSpec == Spec /\ Fairness

-----------------------------------------------------------------------------
(* Properties.                                                             *)

TypeOK ==
  /\ opened \in 0..ConnectionBound
  /\ lastFolder \in [Connections -> Folders \cup {NoFolder}]
  /\ queue \in [Connections -> Seq(Ops \cup {DisconnectOp})]
  /\ finishing \in [Connections -> Ops \cup {DisconnectOp, NoOp}]
  /\ thread \in [Connections -> {"none", "running", "stopping"}]
  /\ connected \in [Connections -> BOOLEAN]
  /\ autoDisconnect \in [Connections -> BOOLEAN]
  /\ queueRunning \in [Connections -> BOOLEAN]
  /\ poolRunning \in BOOLEAN /\ told \in BOOLEAN
  /\ ownerRefs \in Nat /\ held \in BOOLEAN
  /\ opState \in [Ops -> {"new", "created", "started", "cancelled", "done", "gone"}]
  /\ place \in [Ops -> 0..ConnectionBound]

\* A session never has more connections than maximumConnections, whatever mix
\* of urgent, plain and folderless operations is created (availableSession).
PoolBounded == MaxConnections # 0 => opened <= MaxConnections

\* "It's safe since no thread is running when this function is called": as long
\* as the delayed call is pending no thread uses the connection, so that the
\* disconnection never cuts into the operations of a batch, and the connection
\* it will close is open (runOperation, tryAutomaticDisconnect).
PendingDisconnectMeansIdle ==
  \A c \in Connections : autoDisconnect[c] => thread[c] = "none" /\ connected[c]

\* The change callback is called when operations start and when they stop
\* running, once each: the client that follows it knows whether the pool runs
\* (operationRunningStateChanged).
ClientKnowsRunning ==
  SessionObject => (told <=> \E c \in Connections : queueRunning[c])

\* A queue calls its owner when it starts and when it stops; the owner has not
\* been destroyed by then, whenever a client that cancels nothing lets go of
\* the session and of its operations (the retains in queueStartRunning).
OwnerAliveWhenCalled ==
  [][queueRunning' # queueRunning =>
       ownerRefs > 0 \/ \E o \in Ops : opState[o] = "cancelled"]_vars

\* Two operations for one folder are never under way on two connections when
\* the session does not allow concurrent access to a folder.
OneConnectionPerFolder ==
  \A c, d \in 1..opened :
    /\ ~AllowsFolderConcurrentAccess /\ c # d
    /\ queueRunning[c] /\ queueRunning[d]
    => lastFolder[c] # lastFolder[d] \/ lastFolder[c] = NoFolder

\* An operation that was added while the thread was stopping waits for nobody
\* else to add one, if the connection is open: the delayed disconnection starts
\* a thread, which runs it first (tryAutomaticDisconnect, runOperation).
LostOperationIsRevived ==
  \A o \in Ops :
    (opState[o] = "started" /\ autoDisconnect[place[o]])
      ~> opState[o] # "started"

\* A connection nobody uses any more is closed, unless the session was
\* destroyed: whatever the operations did to it, the pending call is set again.
IdleConnectionCloses ==
  \A c \in Connections : []<>(~connected[c] \/ ownerRefs = 0)

\* The contract of the queue of a connection.
Contract(c) ==
  INSTANCE QueueContract WITH
    Ops <- Ops \cup {DisconnectOp}, list <- queue[c],
    finishing <- finishing[c], thread <- thread[c]

QueuesBegin == \A c \in Connections : Contract(c)!Init

QueuesStep ==
  \A c \in Connections : [Contract(c)!Next]_(Contract(c)!vars)

\* Each queue is used, and makes its calls, as the contract says that
\* OperationQueue implements (startThread, queueStartRunning and
\* queueStoppedRunning): the conjunction of Contract(c)!Spec for every c, in
\* the form TLC evaluates.
UsesQueueContract == QueuesBegin /\ [][QueuesStep]_vars
=============================================================================
