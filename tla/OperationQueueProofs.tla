------------------------ MODULE OperationQueueProofs ------------------------
(***************************************************************************)
(* Proofs about OperationQueue, for any set of operations and any number   *)
(* of thread identities.  IInv is inductive; what the runs check follows.  *)
(***************************************************************************)
EXTENDS OperationQueue, TLAPS

\* mStarted makes the thread inside runOperations the only one.
LEMMA OthersNotRunning ==
  ASSUME AtMostOneWorker, NEW t \in Threads, Running(t)
  PROVE  \A u \in Threads \ {t} : pc[u] = "none"
  BY DEF AtMostOneWorker, Running

LEMMA InitIInv == Init => IInv
<1> SUFFICES ASSUME Init PROVE IInv
  OBVIOUS
<1> USE DEF Init
<1>1. TypeOK
  <2>1. /\ quitting \in BOOLEAN /\ started \in BOOLEAN
        /\ armed \in BOOLEAN /\ ownerHolds \in BOOLEAN
        /\ needsCheck \in [Threads -> BOOLEAN]
    BY Zenon
  <2>2. QED
    BY <2>1 DEF TypeOK, WorkerPc, MainPc
<1>2. \A t \in Threads : pc[t] = "none"
  OBVIOUS
<1>3. /\ NoNullOperation /\ AtMostOneWorker /\ HeadIsRunning
      /\ StartedMeansRunning
  BY <1>2 DEF NoNullOperation, AtMostOneWorker, HeadIsRunning,
              StartedMeansRunning, HasHead, Running
<1>4. RetainedEnough
  BY <1>2 DEF RetainedEnough, Retains, Bit
<1>5. TokensMatch
  BY <1>2 DEF TokensMatch, QuitRequested, HasHead, Bit
<1>6. QED
  BY <1>1, <1>3, <1>4, <1>5 DEF IInv

-----------------------------------------------------------------------------
(* What the main thread does on behalf of a worker.                        *)

LEMMA MainThreadStep ==
  ASSUME IInv, NEW t \in Threads, MainThread(t)
  PROVE  IInv'
<1> USE DEF IInv, TypeOK, WorkerPc, MainPc, Running, locked, sems, worker, timer,
            client
<1>1. CASE StartThread(t)
  <2>1. \A u \in Threads : pc[u] = "none" /\ (u # t => pc'[u] = "none")
    BY <1>1 DEF StartThread, CreateThread, StartedMeansRunning
  <2>2. pc'[t] = "start"
    BY <1>1 DEF StartThread, CreateThread
  <2>3. TypeOK'
    <3>1. quitting' \in BOOLEAN /\ started' \in BOOLEAN
      BY <1>1, Zenon DEF StartThread, CreateThread
    <3>2. QED
      BY <1>1, <3>1 DEF StartThread, CreateThread
  <2>4. NoNullOperation' /\ AtMostOneWorker' /\ HeadIsRunning'
    BY <2>1, <2>2 DEF NoNullOperation, AtMostOneWorker, HeadIsRunning, HasHead
  <2>5. RetainedEnough'
    BY <1>1, <2>1, <2>2 DEF StartThread, CreateThread, RetainedEnough, Retains, Bit
  <2>6. StartedMeansRunning'
    BY <1>1, <2>1, <2>2 DEF StartThread, CreateThread, StartedMeansRunning
  <2>7. TokensMatch'
    <3>1. ~QuitRequested /\ ~QuitRequested'
      BY <1>1, <2>1 DEF StartThread, CreateThread, QuitRequested, Committed
    <3>2. QED
      BY <1>1, <2>1, <2>2, <3>1 DEF StartThread, CreateThread, TokensMatch, HasHead, Bit
  <2>8. QED
    BY <2>3, <2>4, <2>5, <2>6, <2>7
<1>2. CASE BeforeMain(t)
  BY <1>2 DEF BeforeMain, NoNullOperation, AtMostOneWorker, RetainedEnough,
              Retains, HeadIsRunning, HasHead, StartedMeansRunning, TokensMatch,
              QuitRequested, Committed, Bit
<1>3. CASE CallbackOnMainThread(t)
  <2>1. op[t] \in Ops
    BY <1>3, OpsAssumption DEF CallbackOnMainThread, Callback, HeadIsRunning
  <2>2. TypeOK'
    BY <1>3, <2>1 DEF CallbackOnMainThread, Callback
  <2>3. QED
    BY <1>3, <2>2 DEF CallbackOnMainThread, Callback, NoNullOperation, AtMostOneWorker,
              RetainedEnough, Retains, HeadIsRunning, HasHead,
              StartedMeansRunning, TokensMatch, QuitRequested, Committed, Bit
<1>4. CASE StoppedOnMainThread(t)
  <2>1. \A u \in Threads : pc'[u] = "none" /\ (u # t => pc[u] = "none")
    BY <1>4, OthersNotRunning DEF StoppedOnMainThread
  <2>2. pc[t] = "stopping" /\ started /\ quitting
    BY <1>4 DEF StoppedOnMainThread, StartedMeansRunning
  <2>3. TypeOK' /\ RetainedEnough'
    <3>1. Retains' = Retains - 2 /\ Retains' \in Nat
      BY <1>4, <2>1, <2>2 DEF StoppedOnMainThread, Retains, Bit
    <3>2. refs' \in Nat /\ RetainedEnough'
      BY <1>4, <3>1 DEF StoppedOnMainThread, RetainedEnough, Retains, Bit
    <3>3. started' \in BOOLEAN
      BY <1>4, Zenon DEF StoppedOnMainThread
    <3>4. QED
      BY <1>4, <3>2, <3>3 DEF StoppedOnMainThread
  <2>4. NoNullOperation' /\ AtMostOneWorker' /\ HeadIsRunning'
    BY <2>1 DEF NoNullOperation, AtMostOneWorker, HeadIsRunning, HasHead
  <2>5. StartedMeansRunning'
    BY <1>4, <2>1, <2>2 DEF StoppedOnMainThread, StartedMeansRunning
  <2>6. TokensMatch'
    <3>1. ~QuitRequested /\ ~QuitRequested'
      BY <1>4, <2>1, <2>2 DEF StoppedOnMainThread, QuitRequested, Committed
    <3>2. QED
      BY <1>4, <2>1, <2>2, <3>1 DEF StoppedOnMainThread, TokensMatch, HasHead, Bit
  <2>7. QED
    BY <2>3, <2>4, <2>5, <2>6
<1>5. QED
  BY <1>1, <1>2, <1>3, <1>4 DEF MainThread
-----------------------------------------------------------------------------
(* What the worker does.                                                   *)

LEMMA WorkerStep ==
  ASSUME IInv, NEW t \in Threads, RunOperations(t)
  PROVE  IInv'
<1> USE DEF IInv, TypeOK, WorkerPc, MainPc, Running, locked, sems, worker, timer,
            client
<1>1. CASE SignalStart(t)
  BY <1>1 DEF SignalStart, EnterLoop, NoNullOperation, AtMostOneWorker, RetainedEnough,
              Retains, HeadIsRunning, HasHead, StartedMeansRunning, TokensMatch,
              QuitRequested, Committed, Bit
<1>2. CASE TakeToken(t)
  BY <1>2 DEF TakeToken, NoNullOperation, AtMostOneWorker, RetainedEnough,
              Retains, HeadIsRunning, HasHead, StartedMeansRunning, TokensMatch,
              QuitRequested, Committed, Bit
<1>3. CASE ReadHead(t)
  <2>1. \A u \in Threads \ {t} : pc[u] = "none" /\ pc'[u] = "none"
    BY <1>3, OthersNotRunning DEF ReadHead, Read
  <2>2. pc[t] = "read" /\ started
    BY <1>3 DEF ReadHead, Read, StartedMeansRunning
  <2>3. TypeOK'
    BY <1>3 DEF ReadHead, Read
  <2>4. operations = <<>> => quitting /\ operationSem = 0 /\ mainPc # "append"
    BY <2>1, <2>2 DEF TokensMatch, QuitRequested, Bit
  <2>5. pc'[t] = IF operations # <<>> THEN "before" ELSE "stop"
    BY <1>3, <2>4 DEF ReadHead, Read
  <2>6. NoNullOperation' /\ AtMostOneWorker'
    BY <2>1, <2>5 DEF NoNullOperation, AtMostOneWorker
  <2>7. RetainedEnough'
    BY <1>3, <2>1, <2>2, <2>5 DEF ReadHead, Read, RetainedEnough, Retains, Bit
  <2>8. HeadIsRunning'
    BY <1>3, <2>1, <2>5 DEF ReadHead, Read, HeadIsRunning, HasHead
  <2>9. StartedMeansRunning'
    BY <1>3, <2>1, <2>2, <2>4, <2>5 DEF ReadHead, Read, StartedMeansRunning
  <2>10. TokensMatch'
    <3>1. CASE operations = <<>>
      BY <1>3, <2>1, <2>4, <2>5, <3>1
         DEF ReadHead, Read, TokensMatch, QuitRequested, Committed, HasHead, Bit
    <3>2. CASE operations # <<>>
      BY <1>3, <2>1, <2>2, <2>5, <3>2
         DEF ReadHead, Read, TokensMatch, QuitRequested, Committed, HasHead, Bit
    <3>3. QED
      BY <3>1, <3>2
  <2>11. QED
    BY <2>3, <2>6, <2>7, <2>8, <2>9, <2>10
<1>4. CASE PostStopped(t)
  BY <1>4 DEF PostStopped, NoNullOperation, AtMostOneWorker, RetainedEnough,
              Retains, HeadIsRunning, HasHead, StartedMeansRunning, TokensMatch,
              QuitRequested, Committed, Bit
<1>5. CASE RunMain(t)
  BY <1>5 DEF RunMain, NoNullOperation, AtMostOneWorker, RetainedEnough,
              Retains, HeadIsRunning, HasHead, StartedMeansRunning, TokensMatch,
              QuitRequested, Committed, Bit
<1>6. CASE RemoveHead(t)
  <2>1. \A u \in Threads \ {t} : pc[u] = "none" /\ pc'[u] = "none"
    BY <1>6, OthersNotRunning DEF RemoveHead
  <2>2. pc[t] = "remove" /\ pc'[t] = "finished" /\ started
    BY <1>6 DEF RemoveHead, StartedMeansRunning
  <2>3. operations # <<>> /\ op[t] \in Ops
    BY <2>2 DEF HeadIsRunning, HasHead
  <2>4. operations' \in Seq(Ops) /\ Len(operations') = Len(operations) - 1
    BY <1>6, <2>3 DEF RemoveHead
  <2>5. TypeOK'
    <3>1. needsCheck' \in [Threads -> BOOLEAN]
      BY <1>6, Zenon DEF RemoveHead
    <3>2. QED
      BY <1>6, <2>4, <3>1 DEF RemoveHead
  <2>6. NoNullOperation' /\ AtMostOneWorker'
    BY <2>1, <2>2 DEF NoNullOperation, AtMostOneWorker
  <2>7. RetainedEnough'
    BY <1>6, <2>1, <2>2 DEF RemoveHead, RetainedEnough, Retains, Bit
  <2>8. HeadIsRunning'
    BY <1>6, <2>1, <2>2, <2>3, OpsAssumption DEF RemoveHead, HeadIsRunning, HasHead
  <2>9. StartedMeansRunning'
    BY <1>6, <2>1, <2>2 DEF RemoveHead, StartedMeansRunning
  <2>10. TokensMatch'
    <3>1. QuitRequested' <=> QuitRequested
      BY <1>6, <2>1, <2>2 DEF RemoveHead, QuitRequested, Committed
    <3>2. QED
      BY <1>6, <2>1, <2>2, <2>4, <3>1 DEF RemoveHead, TokensMatch, HasHead, Bit
  <2>11. QED
    BY <2>5, <2>6, <2>7, <2>8, <2>9, <2>10
<1>7. CASE TestCancelled(t)
  BY <1>7 DEF TestCancelled, NoNullOperation, AtMostOneWorker, RetainedEnough,
              Retains, HeadIsRunning, HasHead, StartedMeansRunning, TokensMatch,
              QuitRequested, Committed, Bit
<1>8. CASE PostCheckRunning(t)
  BY <1>8 DEF PostCheckRunning, PostCheck, NoNullOperation, AtMostOneWorker, RetainedEnough,
              Retains, HeadIsRunning, HasHead, StartedMeansRunning, TokensMatch,
              QuitRequested, Committed, Bit
<1>9. QED
  BY <1>1, <1>2, <1>3, <1>4, <1>5, <1>6, <1>7, <1>8 DEF RunOperations
-----------------------------------------------------------------------------
(* What the run loop does for no worker in particular.                     *)

LEMMA RunLoopStep ==
  ASSUME IInv, RunLoop
  PROVE  IInv'
<1> USE DEF IInv, TypeOK, WorkerPc, MainPc, Running, locked, sems, worker, timer,
            client
<1>1. CASE SignalOperation
  BY <1>1 DEF SignalOperation, NoNullOperation, AtMostOneWorker, RetainedEnough,
              Retains, HeadIsRunning, HasHead, StartedMeansRunning, TokensMatch,
              QuitRequested, Committed, Bit
<1>2. CASE AlreadyStarted
  BY <1>2 DEF AlreadyStarted, NoNullOperation, AtMostOneWorker, RetainedEnough,
              Retains, HeadIsRunning, HasHead, StartedMeansRunning, TokensMatch,
              QuitRequested, Committed, Bit
<1>3. CASE ThreadHasStarted
  BY <1>3 DEF ThreadHasStarted, NoNullOperation, AtMostOneWorker, RetainedEnough,
              Retains, HeadIsRunning, HasHead, StartedMeansRunning, TokensMatch,
              QuitRequested, Committed, Bit
<1>4. CASE CheckRunningOnMainThread
  <2>1. TypeOK'
    <3>1. armed' \in BOOLEAN
      BY <1>4, Zenon DEF CheckRunningOnMainThread
    <3>2. QED
      BY <1>4, <3>1 DEF CheckRunningOnMainThread
  <2>2. RetainedEnough'
    BY <1>4 DEF CheckRunningOnMainThread, RetainedEnough, Retains, Bit
  <2>3. StartedMeansRunning'
    BY <1>4 DEF CheckRunningOnMainThread, StartedMeansRunning
  <2>4. QED
    BY <1>4, <2>1, <2>2, <2>3
       DEF CheckRunningOnMainThread, NoNullOperation, AtMostOneWorker,
           HeadIsRunning, HasHead, TokensMatch, QuitRequested, Committed, Bit
<1>5. CASE CheckRunningAfterDelay
  <2>1. TypeOK' /\ RetainedEnough'
    <3>1. armed' \in BOOLEAN /\ quitting' \in BOOLEAN
      BY <1>5, Zenon DEF CheckRunningAfterDelay, DelayedCheck
    <3>2. refs' \in Nat /\ RetainedEnough'
      BY <1>5 DEF CheckRunningAfterDelay, DelayedCheck, RetainedEnough, Retains, Bit
    <3>3. QED
      BY <1>5, <3>1, <3>2 DEF CheckRunningAfterDelay, DelayedCheck, Bit
  <2>2. NoNullOperation' /\ AtMostOneWorker' /\ HeadIsRunning'
    BY <1>5 DEF CheckRunningAfterDelay, DelayedCheck, NoNullOperation, AtMostOneWorker,
                HeadIsRunning, HasHead
  <2>3. StartedMeansRunning'
    BY <1>5 DEF CheckRunningAfterDelay, DelayedCheck, StartedMeansRunning
  <2>4. TokensMatch'
    <3>1. CASE ~quitting /\ operations = <<>>
      \* The worker there is has not decided to stop: the token is for it.
      <4>1. PICK t \in Threads : Running(t)
        BY <1>5, <3>1 DEF CheckRunningAfterDelay, DelayedCheck, StartedMeansRunning
      <4>2. Committed(t) /\ Committed(t)'
        BY <1>5, <3>1, <4>1
           DEF CheckRunningAfterDelay, DelayedCheck, StartedMeansRunning, Committed
      <4>3. ~QuitRequested /\ QuitRequested'
        BY <1>5, <3>1, <4>2 DEF CheckRunningAfterDelay, DelayedCheck, QuitRequested
      <4>4. QED
        BY <1>5, <3>1, <4>3 DEF CheckRunningAfterDelay, DelayedCheck, TokensMatch, HasHead, Bit
    <3>2. CASE ~(~quitting /\ operations = <<>>)
      BY <1>5, <3>2 DEF CheckRunningAfterDelay, DelayedCheck, TokensMatch, QuitRequested,
                        Committed, HasHead, Bit
    <3>3. QED
      BY <3>1, <3>2
  <2>5. QED
    BY <2>1, <2>2, <2>3, <2>4
<1>6. QED
  BY <1>1, <1>2, <1>3, <1>4, <1>5 DEF RunLoop

-----------------------------------------------------------------------------
(* What a client does on the main thread.                                  *)

LEMMA ClientStep ==
  ASSUME IInv, Client
  PROVE  IInv'
<1> USE DEF IInv, TypeOK, WorkerPc, MainPc, Running, locked, sems, worker, timer,
            client
<1>1. ASSUME NEW o \in Ops, AddOperation(o)
      PROVE  IInv'
  <2>1. /\ operations' \in Seq(Ops) /\ operations' # <<>>
        /\ Len(operations') = Len(operations) + 1
        /\ operations # <<>> => Head(operations') = Head(operations)
    BY <1>1 DEF AddOperation
  <2>2. TypeOK'
    BY <1>1, <2>1 DEF AddOperation
  <2>3. HeadIsRunning'
    BY <1>1, <2>1 DEF AddOperation, HeadIsRunning, HasHead
  <2>4. TokensMatch'
    BY <1>1, <2>1 DEF AddOperation, TokensMatch, QuitRequested, Committed,
                      HasHead, Bit
  <2>5. QED
    BY <1>1, <2>2, <2>3, <2>4
       DEF AddOperation, NoNullOperation, AtMostOneWorker, RetainedEnough,
           Retains, StartedMeansRunning, Bit
<1>2. ASSUME NEW o \in Ops, Cancel(o)
      PROVE  IInv'
  BY <1>2 DEF Cancel, NoNullOperation, AtMostOneWorker, RetainedEnough,
              Retains, HeadIsRunning, HasHead, StartedMeansRunning, TokensMatch,
              QuitRequested, Committed, Bit
<1>3. CASE OwnerRelease
  <2>1. ownerHolds' \in BOOLEAN
    BY <1>3, Zenon DEF OwnerRelease
  <2>2. refs' \in Nat /\ RetainedEnough'
    BY <1>3 DEF OwnerRelease, RetainedEnough, Retains, Bit
  <2>3. TypeOK'
    BY <1>3, <2>1, <2>2 DEF OwnerRelease
  <2>4. QED
    BY <1>3, <2>2, <2>3
       DEF OwnerRelease, NoNullOperation, AtMostOneWorker, HeadIsRunning, HasHead,
           StartedMeansRunning, TokensMatch, QuitRequested, Committed, Bit
<1>4. QED
  BY <1>1, <1>2, <1>3 DEF Client

-----------------------------------------------------------------------------
LEMMA StutterStep == ASSUME IInv, UNCHANGED vars PROVE IInv'
  BY DEF vars, IInv, TypeOK, WorkerPc, MainPc, Running, locked, sems, worker,
         timer, client, NoNullOperation, AtMostOneWorker, RetainedEnough,
         Retains, HeadIsRunning, HasHead, StartedMeansRunning, TokensMatch,
         QuitRequested, Committed, Bit

\* The hand-shake between addOperation, the delayed check and runOperations: the
\* semaphore tokens match the list and the request to quit, mStarted matches the
\* thread, and the retains cover every use of the queue, in every state.
THEOREM HandshakeInvariant == Spec => []IInv
<1>1. IInv /\ [Next]_vars => IInv'
  BY MainThreadStep, WorkerStep, RunLoopStep, ClientStep, StutterStep
     DEF Next, Finished
<1>2. QED
  BY InitIInv, <1>1, PTL DEF Spec

\* The variables of the queue keep their types: no counter falls below zero, so
\* Object::release never meets its "release too much" assertion.
THEOREM TypeCorrect == Spec => []TypeOK
<1>1. IInv => TypeOK
  BY DEF IInv
<1>2. QED
  BY HandshakeInvariant, <1>1, PTL

\* runOperations never calls a method of a NULL operation.
THEOREM WorkerHasOperation == Spec => []NoNullOperation
<1>1. IInv => NoNullOperation
  BY DEF IInv
<1>2. QED
  BY HandshakeInvariant, <1>1, PTL

\* Two threads never run the operations of one queue.
THEOREM SingleWorker == Spec => []AtMostOneWorker
<1>1. IInv => AtMostOneWorker
  BY DEF IInv
<1>2. QED
  BY HandshakeInvariant, <1>1, PTL

\* The queue outlives its thread, its posted calls and its delayed call.
THEOREM QueueOutlivesUse == Spec => []UseNeedsReference
<1>1. IInv => UseNeedsReference
  <2> SUFFICES ASSUME IInv PROVE UseNeedsReference
    OBVIOUS
  <2>1. (\E t \in Threads : Running(t)) => started
    BY DEF IInv, StartedMeansRunning
  <2>2. QED
    BY <2>1 DEF IInv, TypeOK, RetainedEnough, Retains, Bit, UseNeedsReference
<1>2. QED
  BY HandshakeInvariant, <1>1, PTL

-----------------------------------------------------------------------------
(* The refinement of SerialExecutor.                                       *)

\* The operation in progress is the one of the thread that is busy.
LEMMA CurrentOfBusy ==
  ASSUME IInv
  PROVE  /\ \A t \in Busy : Current = op[t] /\ Busy = {t}
         /\ Busy = {} => Current = NoOp
<1>1. ASSUME NEW t \in Busy PROVE Busy = {t}
  BY DEF IInv, AtMostOneWorker, Running, Busy
<1>2. ASSUME NEW t \in Busy PROVE Current = op[t]
  BY <1>1 DEF Current
<1>3. QED
  BY <1>1, <1>2 DEF Current

\* While no operation is in progress nothing is taken from the list.
LEMMA WaitingOfIdle ==
  ASSUME Busy = {}
  PROVE  Waiting = operations
  BY DEF Busy, Waiting, HasHead

\* A step that leaves each thread on its side of the life of an operation, and
\* the operation itself, changes nothing of the executor.
LEMMA SameProgress ==
  ASSUME UNCHANGED <<operations, op, cancelled, added, delivered>>,
         Busy' = Busy,
         \A t \in Threads : HasHead(t)' <=> HasHead(t)
  PROVE  UNCHANGED Executor!vars
<1>1. Waiting' = Waiting
  BY DEF Waiting
<1>2. Current' = Current
  BY DEF Current
<1>3. QED
  BY <1>1, <1>2 DEF Executor!vars

LEMMA RefineWorker ==
  ASSUME IInv, IInv', NEW t \in Threads, RunOperations(t)
  PROVE  [Executor!Next]_Executor!vars
<1> USE DEF IInv, TypeOK, WorkerPc, Running, locked, sems, worker, timer, client
<1>1. CASE SignalStart(t) \/ TakeToken(t) \/ PostStopped(t) \/ RunMain(t)
            \/ PostCheckRunning(t)
  BY <1>1, SameProgress
     DEF SignalStart, EnterLoop, TakeToken, PostStopped, RunMain,
         PostCheckRunning, PostCheck, Busy, HasHead
<1>2. CASE ReadHead(t)
  <2>1. \A u \in Threads \ {t} : pc[u] = "none" /\ pc'[u] = "none"
    BY <1>2, OthersNotRunning DEF ReadHead, Read
  <2>2. Busy = {} /\ Current = NoOp /\ Waiting = operations
    BY <1>2, <2>1, CurrentOfBusy, WaitingOfIdle DEF ReadHead, Read, Busy
  <2>3. CASE operations = <<>>
    <3>1. pc'[t] = "stop"
      BY <1>2, <2>3 DEF ReadHead, Read, NoNullOperation
    <3>2. Busy' = {} /\ Waiting' = operations'
      BY <2>1, <3>1 DEF Busy, Waiting, HasHead
    <3>3. Current' = NoOp
      BY <3>2 DEF Current
    <3>4. QED
      BY <1>2, <2>2, <3>2, <3>3 DEF ReadHead, Read, Executor!vars
  <2>4. CASE operations # <<>>
    <3>1. pc'[t] = "before" /\ op'[t] = Head(operations)
      BY <1>2, <2>4 DEF ReadHead, Read
    <3>2. t \in Busy' /\ HasHead(t)'
      BY <3>1 DEF Busy, HasHead
    <3>3. Current' = Head(operations)
      <4>1. Busy' = {t}
        BY <2>1, <3>2 DEF Busy
      <4>2. QED
        BY <3>1, <4>1 DEF Current
    <3>4. Waiting' = Tail(operations)
      BY <1>2, <3>2 DEF ReadHead, Read, Waiting
    <3>5. Executor!Begin
      BY <1>2, <2>2, <2>4, <3>3, <3>4 DEF ReadHead, Read, Executor!Begin
    <3>6. QED
      BY <3>5 DEF Executor!Next
  <2>5. QED
    BY <2>3, <2>4
<1>3. CASE RemoveHead(t)
  <2>1. Busy' = Busy
    BY <1>3 DEF RemoveHead, Busy
  <2>2. Current' = Current
    BY <1>3, <2>1 DEF RemoveHead, Current
  <2>3. \A u \in Threads \ {t} : pc[u] = "none" /\ pc'[u] = "none"
    BY <1>3, OthersNotRunning DEF RemoveHead
  <2>4. Waiting = Tail(operations)
    BY <1>3 DEF RemoveHead, Waiting, HasHead
  <2>5. Waiting' = Tail(operations)
    BY <1>3, <2>3 DEF RemoveHead, Waiting, HasHead
  <2>6. QED
    BY <1>3, <2>2, <2>4, <2>5 DEF RemoveHead, Executor!vars
<1>4. CASE TestCancelled(t)
  <2>1. t \in Busy /\ Current = op[t]
    BY <1>4, CurrentOfBusy DEF TestCancelled, Busy
  <2>2. Waiting' = Waiting
    BY <1>4 DEF TestCancelled, Waiting, HasHead
  <2>3. CASE op[t] \in cancelled
    <3>1. \A u \in Threads : u \notin Busy'
      BY <1>4, <2>1, <2>3, CurrentOfBusy DEF TestCancelled, Busy
    <3>2. Busy' = {}
      BY <3>1 DEF Busy
    <3>3. Current' = NoOp
      BY <3>2 DEF Current
    <3>4. Executor!Drop
      BY <1>4, <2>1, <2>2, <2>3, <3>3 DEF TestCancelled, Executor!Drop
    <3>5. QED
      BY <3>4 DEF Executor!Next
  <2>4. CASE op[t] \notin cancelled
    BY <1>4, <2>4, SameProgress DEF TestCancelled, Busy, HasHead
  <2>5. QED
    BY <2>3, <2>4
<1>5. QED
  BY <1>1, <1>2, <1>3, <1>4 DEF RunOperations

LEMMA RefineMainThread ==
  ASSUME IInv, IInv', NEW t \in Threads, MainThread(t)
  PROVE  [Executor!Next]_Executor!vars
<1> USE DEF IInv, TypeOK, WorkerPc, Running, locked, sems, worker, timer, client
<1>1. CASE StartThread(t) \/ BeforeMain(t) \/ StoppedOnMainThread(t)
  BY <1>1, SameProgress
     DEF StartThread, CreateThread, BeforeMain, StoppedOnMainThread, Busy, HasHead
<1>2. CASE CallbackOnMainThread(t)
  <2>1. t \in Busy /\ Current = op[t]
    BY <1>2, CurrentOfBusy DEF CallbackOnMainThread, Callback, Busy
  <2>2. op[t] \in Ops
    BY <1>2, OpsAssumption DEF CallbackOnMainThread, Callback, HeadIsRunning
  <2>3. Waiting' = Waiting
    BY <1>2 DEF CallbackOnMainThread, Callback, Waiting, HasHead
  <2>4. \A u \in Threads : u \notin Busy'
    BY <1>2, <2>1, CurrentOfBusy DEF CallbackOnMainThread, Callback, Busy
  <2>5. Current' = NoOp
    <3>1. Busy' = {}
      BY <2>4 DEF Busy
    <3>2. QED
      BY <3>1 DEF Current
  <2>6. CASE op[t] \in cancelled
    <3>1. Executor!Drop
      BY <1>2, <2>1, <2>3, <2>5, <2>6
         DEF CallbackOnMainThread, Callback, Executor!Drop
    <3>2. QED
      BY <3>1 DEF Executor!Next
  <2>7. CASE op[t] \notin cancelled
    <3>1. Executor!Deliver
      BY <1>2, <2>1, <2>2, <2>3, <2>5, <2>7
         DEF CallbackOnMainThread, Callback, Executor!Deliver
    <3>2. QED
      BY <3>1 DEF Executor!Next
  <2>8. QED
    BY <2>6, <2>7
<1>3. QED
  BY <1>1, <1>2 DEF MainThread

LEMMA RefineRunLoop ==
  ASSUME RunLoop
  PROVE  [Executor!Next]_Executor!vars
<1>1. UNCHANGED <<operations, pc, op, cancelled, added, delivered>>
  BY DEF RunLoop, SignalOperation, AlreadyStarted, ThreadHasStarted,
         CheckRunningOnMainThread, CheckRunningAfterDelay, DelayedCheck,
         locked, sems, worker, client
<1>2. QED
  BY <1>1, SameProgress DEF Busy, HasHead

LEMMA RefineClient ==
  ASSUME IInv, Client
  PROVE  [Executor!Next]_Executor!vars
<1> USE DEF worker, client, locked
<1>1. ASSUME NEW o \in Ops, AddOperation(o)
      PROVE  Executor!Add(o)
  <2>1. Current' = Current
    BY <1>1 DEF AddOperation, Current, Busy
  <2>2. Waiting' = Append(Waiting, o)
    <3>1. operations # <<>> => Tail(Append(operations, o)) = Append(Tail(operations), o)
      BY DEF IInv, TypeOK
    <3>2. QED
      BY <1>1, <3>1 DEF AddOperation, Waiting, HasHead, IInv, HeadIsRunning
  <2>3. \A i \in 1..Len(added) : added[i] # o
    BY <1>1 DEF AddOperation, Elements
  <2>4. QED
    BY <1>1, <2>1, <2>2, <2>3 DEF AddOperation, Executor!Add
<1>2. ASSUME NEW o \in Ops, Cancel(o)
      PROVE  Executor!Cancel(o)
  BY <1>2 DEF Cancel, Executor!Cancel, Waiting, Current, Busy, HasHead
<1>3. CASE OwnerRelease
  BY <1>3, SameProgress DEF OwnerRelease, Busy, HasHead
<1>4. QED
  BY <1>1, <1>2, <1>3 DEF Client, Executor!Next

\* Clients may rely on the serial executor: operations run one at a time and in
\* the order they were added, each is called back at most once, none after it
\* was cancelled on the main thread.
THEOREM Refinement == Spec => ImplementsSerialExecutor
<1>1. Init => Executor!Init
  BY DEF Init, Executor!Init, Waiting, Current, Busy, HasHead
<1>2. IInv /\ IInv' /\ [Next]_vars => [Executor!Next]_Executor!vars
  <2>1. ASSUME UNCHANGED vars PROVE UNCHANGED Executor!vars
    BY <2>1 DEF vars, locked, worker, client, Executor!vars, Waiting, Current,
                Busy, HasHead
  <2>2. QED
    BY <2>1, RefineWorker, RefineMainThread, RefineRunLoop, RefineClient
       DEF Next, Finished
<1>3. QED
  BY HandshakeInvariant, <1>1, <1>2, PTL
     DEF Spec, ImplementsSerialExecutor, Executor!Spec

-----------------------------------------------------------------------------
(* The queue implements the contract that IMAPAsyncSession is built on.    *)
(* Why a thread that starts finds an operation.                            *)

\* From the append to the test of mStarted, the operation is in the list or a
\* thread that can have taken it has not been reported as stopped.
StartHasWork == mainPc \in {"append", "start"} => operations # <<>> \/ started

LEMMA StartHasWorkStep ==
  ASSUME IInv, StartHasWork, [Next]_vars
  PROVE  StartHasWork'
<1> USE DEF StartHasWork, locked, sems, worker, timer, client
<1>1. CASE UNCHANGED vars
  BY <1>1 DEF vars
<1>2. ASSUME NEW t \in Threads, MainThread(t)
      PROVE  StartHasWork'
  BY <1>2 DEF MainThread, StartThread, CreateThread, BeforeMain,
              CallbackOnMainThread, Callback, StoppedOnMainThread
<1>3. ASSUME NEW t \in Threads, RunOperations(t)
      PROVE  StartHasWork'
  <2>1. started
    BY <1>3 DEF IInv, StartedMeansRunning, Running, RunOperations, SignalStart,
                EnterLoop, TakeToken, ReadHead, Read, PostStopped, RunMain,
                RemoveHead, TestCancelled, PostCheckRunning, PostCheck
  <2>2. UNCHANGED started
    BY <1>3 DEF RunOperations, SignalStart, EnterLoop, TakeToken, ReadHead, Read,
                PostStopped, RunMain, RemoveHead, TestCancelled,
                PostCheckRunning, PostCheck
  <2>3. QED
    BY <2>1, <2>2
<1>4. CASE RunLoop
  BY <1>4 DEF RunLoop, SignalOperation, AlreadyStarted, ThreadHasStarted,
              CheckRunningOnMainThread, CheckRunningAfterDelay, DelayedCheck
<1>5. CASE Client
  <2>1. ASSUME NEW o \in Ops, AddOperation(o) PROVE operations' # <<>>
    BY <2>1 DEF AddOperation, IInv, TypeOK
  <2>2. QED
    BY <1>5, <2>1 DEF Client, Cancel, OwnerRelease
<1>6. QED
  BY <1>1, <1>2, <1>3, <1>4, <1>5 DEF Next, Finished

-----------------------------------------------------------------------------
(* The contract's view when at most the thread t exists.                   *)

LifeAt(p) == IF p \in {"stop", "stopping"} THEN "stopping"
             ELSE IF p = "none" THEN "none" ELSE "running"

FinishingAt(p, o) == IF p \in {"finished", "callback"} THEN o ELSE NoOp

LEMMA View ==
  ASSUME NEW t \in Threads, \A u \in Threads \ {t} : pc[u] = "none"
  PROVE  ThreadLife = LifeAt(pc[t]) /\ Finishing = FinishingAt(pc[t], op[t])
<1>1. ThreadLife = LifeAt(pc[t])
  BY DEF ThreadLife, LifeAt, Running
<1>2. CASE pc[t] \in {"finished", "callback"}
  <2>1. {u \in Threads : pc[u] \in {"finished", "callback"}} = {t}
    BY <1>2
  <2>2. QED
    BY <1>1, <1>2, <2>1 DEF Finishing, FinishingAt
<1>3. CASE pc[t] \notin {"finished", "callback"}
  <2>1. {u \in Threads : pc[u] \in {"finished", "callback"}} = {}
    BY <1>3
  <2>2. QED
    BY <1>1, <1>3, <2>1 DEF Finishing, FinishingAt
<1>4. QED
  BY <1>2, <1>3

LEMMA NextView ==
  ASSUME NEW t \in Threads, \A u \in Threads \ {t} : pc'[u] = "none"
  PROVE  ThreadLife' = LifeAt(pc'[t]) /\ Finishing' = FinishingAt(pc'[t], op'[t])
<1>1. ThreadLife' = LifeAt(pc'[t])
  BY DEF ThreadLife, LifeAt, Running
<1>2. CASE pc'[t] \in {"finished", "callback"}
  <2>1. {u \in Threads : pc'[u] \in {"finished", "callback"}} = {t}
    BY <1>2
  <2>2. QED
    BY <1>1, <1>2, <2>1 DEF Finishing, FinishingAt
<1>3. CASE pc'[t] \notin {"finished", "callback"}
  <2>1. {u \in Threads : pc'[u] \in {"finished", "callback"}} = {}
    BY <1>3
  <2>2. QED
    BY <1>1, <1>3, <2>1 DEF Finishing, FinishingAt
<1>4. QED
  BY <1>2, <1>3

LEMMA SameView ==
  ASSUME UNCHANGED <<operations, pc, op>>
  PROVE  UNCHANGED Contract!vars
<1>1. ThreadLife' = ThreadLife
  BY DEF ThreadLife, Running
<1>2. Finishing' = Finishing
  BY DEF Finishing
<1>3. QED
  BY <1>1, <1>2 DEF Contract!vars

-----------------------------------------------------------------------------
(* Steps.                                                                  *)

LEMMA ContractWorker ==
  ASSUME IInv, IInv', NEW t \in Threads, RunOperations(t)
  PROVE  [Contract!Next]_Contract!vars
<1> USE DEF IInv, TypeOK, WorkerPc, Running, locked, LifeAt, FinishingAt
<1>1. /\ \A u \in Threads \ {t} : pc[u] = "none" /\ pc'[u] = "none"
      /\ pc[t] \in WorkerPc \ {"none"} /\ op[t] \in Ops \cup {NoOp}
  <2>1. Running(t)
    BY DEF RunOperations, SignalStart, EnterLoop, TakeToken, ReadHead, Read,
           PostStopped, RunMain, RemoveHead, TestCancelled, PostCheckRunning,
           PostCheck
  <2>2. \A u \in Threads \ {t} : pc'[u] = pc[u]
    BY DEF RunOperations, SignalStart, EnterLoop, TakeToken, ReadHead, Read,
           PostStopped, RunMain, RemoveHead, TestCancelled, PostCheckRunning,
           PostCheck
  <2>3. QED
    BY <2>1, <2>2, OthersNotRunning
<1>2. /\ ThreadLife = LifeAt(pc[t]) /\ Finishing = FinishingAt(pc[t], op[t])
      /\ ThreadLife' = LifeAt(pc'[t]) /\ Finishing' = FinishingAt(pc'[t], op'[t])
  BY <1>1, View, NextView
<1>3. CASE SignalStart(t) \/ TakeToken(t) \/ PostStopped(t) \/ RunMain(t)
            \/ PostCheckRunning(t)
  BY <1>2, <1>3 DEF SignalStart, EnterLoop, TakeToken, PostStopped, RunMain,
                    PostCheckRunning, PostCheck, Contract!vars
<1>4. CASE ReadHead(t)
  <2>1. CASE operations = <<>>
    <3>1. pc'[t] = "stop"
      BY <1>4, <2>1 DEF ReadHead, Read, NoNullOperation
    <3>2. Contract!Decide
      BY <1>2, <1>4, <2>1, <3>1 DEF ReadHead, Read, Contract!Decide
    <3>3. QED
      BY <3>2 DEF Contract!Next
  <2>2. CASE operations # <<>>
    BY <1>2, <1>4, <2>2 DEF ReadHead, Read, Contract!vars
  <2>3. QED
    BY <2>1, <2>2
<1>5. CASE RemoveHead(t)
  <2>1. operations # <<>> /\ op[t] = Head(operations)
    BY <1>5 DEF RemoveHead, HeadIsRunning, HasHead
  <2>2. Contract!Run
    BY <1>2, <1>5, <2>1 DEF RemoveHead, Contract!Run
  <2>3. QED
    BY <2>2 DEF Contract!Next
<1>6. CASE TestCancelled(t)
  <2>1. op[t] # NoOp
    BY <1>6 DEF TestCancelled, HeadIsRunning
  <2>2. CASE op[t] \in cancelled
    <3>1. Contract!CallBack
      BY <1>2, <1>6, <2>1, <2>2 DEF TestCancelled, Contract!CallBack
    <3>2. QED
      BY <3>1 DEF Contract!Next
  <2>3. CASE op[t] \notin cancelled
    BY <1>2, <1>6, <2>3 DEF TestCancelled, Contract!vars
  <2>4. QED
    BY <2>2, <2>3
<1>7. QED
  BY <1>3, <1>4, <1>5, <1>6 DEF RunOperations

LEMMA ContractMainThread ==
  ASSUME IInv, StartHasWork, NEW t \in Threads, MainThread(t)
  PROVE  [Contract!Next]_Contract!vars
<1> USE DEF IInv, TypeOK, WorkerPc, Running, locked, LifeAt, FinishingAt
<1>1. CASE StartThread(t)
  <2>1. \A u \in Threads : pc[u] = "none" /\ (u # t => pc'[u] = "none")
    BY <1>1 DEF StartThread, CreateThread, StartedMeansRunning
  <2>2. pc'[t] = "start" /\ operations # <<>> /\ operations' = operations
    BY <1>1 DEF StartThread, CreateThread, StartHasWork
  <2>3. Contract!Start
    BY <2>1, <2>2, View, NextView DEF Contract!Start
  <2>4. QED
    BY <2>3 DEF Contract!Next
<1>2. CASE BeforeMain(t)
  <2>1. \A u \in Threads \ {t} : pc[u] = "none" /\ pc'[u] = "none"
    BY <1>2, OthersNotRunning DEF BeforeMain
  <2>2. QED
    BY <1>2, <2>1, View, NextView DEF BeforeMain, Contract!vars
<1>3. CASE CallbackOnMainThread(t)
  <2>1. \A u \in Threads \ {t} : pc[u] = "none" /\ pc'[u] = "none"
    BY <1>3, OthersNotRunning DEF CallbackOnMainThread, Callback
  <2>2. op[t] # NoOp
    BY <1>3 DEF CallbackOnMainThread, Callback, HeadIsRunning
  <2>3. Contract!CallBack
    BY <1>3, <2>1, <2>2, View, NextView
       DEF CallbackOnMainThread, Callback, Contract!CallBack
  <2>4. QED
    BY <2>3 DEF Contract!Next
<1>4. CASE StoppedOnMainThread(t)
  <2>1. \A u \in Threads \ {t} : pc[u] = "none" /\ pc'[u] = "none"
    BY <1>4, OthersNotRunning DEF StoppedOnMainThread
  <2>2. Contract!Stopped
    BY <1>4, <2>1, View, NextView DEF StoppedOnMainThread, Contract!Stopped
  <2>3. QED
    BY <2>2 DEF Contract!Next
<1>5. QED
  BY <1>1, <1>2, <1>3, <1>4 DEF MainThread

LEMMA ContractClient ==
  ASSUME IInv, Client
  PROVE  [Contract!Next]_Contract!vars
<1>1. ASSUME NEW o \in Ops, AddOperation(o)
      PROVE  Contract!Add(o)
  <2>1. ThreadLife' = ThreadLife /\ Finishing' = Finishing
    BY <1>1 DEF AddOperation, worker, ThreadLife, Finishing, Running
  <2>2. QED
    BY <1>1, <2>1 DEF AddOperation, Contract!Add
<1>2. CASE OwnerRelease \/ \E o \in Ops : Cancel(o)
  BY <1>2, SameView DEF OwnerRelease, Cancel, locked, worker
<1>3. QED
  BY <1>1, <1>2 DEF Client, Contract!Next

\* The owner of a queue, IMAPAsyncConnection, may rely on the contract: the
\* count of operations, queueStartRunning and queueStoppedRunning follow one
\* thread, which begins with work and ends with an empty list when it decides.
THEOREM ContractHolds == Spec => ImplementsQueueContract
<1>1. Init => Contract!Init /\ StartHasWork
  BY DEF Init, Contract!Init, ThreadLife, Finishing, Running, StartHasWork
<1>2. IInv /\ StartHasWork /\ [Next]_vars => StartHasWork'
  BY StartHasWorkStep
<1>3. IInv /\ IInv' /\ StartHasWork /\ [Next]_vars => [Contract!Next]_Contract!vars
  <2>1. ASSUME RunLoop \/ UNCHANGED vars PROVE UNCHANGED Contract!vars
    BY <2>1, SameView
       DEF RunLoop, SignalOperation, AlreadyStarted, ThreadHasStarted,
           CheckRunningOnMainThread, CheckRunningAfterDelay, DelayedCheck,
           vars, locked, worker
  <2>2. QED
    BY <2>1, ContractWorker, ContractMainThread, ContractClient DEF Next, Finished
<1>4. QED
  BY HandshakeInvariant, <1>1, <1>2, <1>3, PTL
     DEF Spec, ImplementsQueueContract, Contract!Spec
-----------------------------------------------------------------------------
(* What the liveness of the queue rests on: nobody waits for something that *)
(* nobody will do.                                                          *)

\* The token of mStartSem is for the main thread that waits in startThread.
StartPaired ==
  startSem + Bit(\E t \in Threads : pc[t] = "start") = Bit(mainPc = "starting")

\* The token of mStopSem is there when stoppedOnMainThread comes for it.
StopPaired == stopSem = Bit(\E t \in Threads : pc[t] = "stopping")

\* A thread whose list is empty will be told to quit: a check is posted or
\* armed, or the thread is on its way from the removal that emptied the list to
\* posting it.
EmptyIsTold ==
  operations = <<>> /\ ~quitting =>
    \A t \in Threads :
      Running(t) =>
        \/ checks > 0 \/ armed
        \/ pc[t] \in {"finished", "callback", "needs"} /\ needsCheck[t]

Paired == StartPaired /\ StopPaired /\ EmptyIsTold

LEMMA PairedMainThread ==
  ASSUME IInv, StartHasWork, Paired, NEW t \in Threads, MainThread(t)
  PROVE  Paired'
<1> USE DEF IInv, TypeOK, WorkerPc, MainPc, Running, Paired, locked, sems, worker,
            timer, client
<1>1. CASE StartThread(t)
  <2>1. \A u \in Threads : pc[u] = "none" /\ (u # t => pc'[u] = "none")
    BY <1>1 DEF StartThread, CreateThread, StartedMeansRunning
  <2>2. /\ pc'[t] = "start" /\ mainPc = "start" /\ mainPc' = "starting"
        /\ operations # <<>> /\ operations' = operations
        /\ UNCHANGED <<startSem, stopSem>>
    BY <1>1 DEF StartThread, CreateThread, StartHasWork
  <2>3. StartPaired' /\ StopPaired'
    BY <2>1, <2>2 DEF StartPaired, StopPaired, Bit
  <2>4. EmptyIsTold'
    BY <2>2 DEF EmptyIsTold
  <2>5. QED
    BY <2>3, <2>4
<1>2. CASE BeforeMain(t)
  <2>1. operations # <<>>
    BY <1>2 DEF BeforeMain, HeadIsRunning, HasHead
  <2>2. StartPaired' /\ StopPaired'
    BY <1>2 DEF BeforeMain, StartPaired, StopPaired, Bit
  <2>3. QED
    BY <1>2, <2>1, <2>2 DEF BeforeMain, EmptyIsTold
<1>3. CASE CallbackOnMainThread(t)
  <2>1. StartPaired' /\ StopPaired'
    BY <1>3 DEF CallbackOnMainThread, Callback, StartPaired, StopPaired, Bit
  <2>2. EmptyIsTold'
    BY <1>3 DEF CallbackOnMainThread, Callback, EmptyIsTold
  <2>3. QED
    BY <2>1, <2>2
<1>4. CASE StoppedOnMainThread(t)
  <2>1. \A u \in Threads : pc'[u] = "none" /\ (u # t => pc[u] = "none")
    BY <1>4, OthersNotRunning DEF StoppedOnMainThread
  <2>2. pc[t] = "stopping" /\ stopSem' = stopSem - 1 /\ UNCHANGED <<startSem, mainPc>>
    BY <1>4 DEF StoppedOnMainThread
  <2>3. StartPaired' /\ StopPaired'
    BY <2>1, <2>2 DEF StartPaired, StopPaired, Bit
  <2>4. QED
    BY <2>1, <2>3 DEF EmptyIsTold
<1>5. QED
  BY <1>1, <1>2, <1>3, <1>4 DEF MainThread

LEMMA PairedWorker ==
  ASSUME IInv, Paired, NEW t \in Threads, RunOperations(t)
  PROVE  Paired'
<1> USE DEF IInv, TypeOK, WorkerPc, MainPc, Running, Paired, locked, sems, worker,
            timer, client
<1>1. Running(t)
  BY DEF RunOperations, SignalStart, EnterLoop, TakeToken, ReadHead, Read, PostStopped,
         RunMain, RemoveHead, TestCancelled, PostCheckRunning, PostCheck
<1>2. /\ \A u \in Threads \ {t} : pc[u] = "none" /\ pc'[u] = "none"
      /\ UNCHANGED <<mainPc, quitting, armed>>
  <2>1. \A u \in Threads \ {t} : pc'[u] = pc[u]
    BY DEF RunOperations, SignalStart, EnterLoop, TakeToken, ReadHead, Read,
           PostStopped, RunMain, RemoveHead, TestCancelled, PostCheckRunning, PostCheck
  <2>2. UNCHANGED <<mainPc, quitting, armed>>
    BY DEF RunOperations, SignalStart, EnterLoop, TakeToken, ReadHead, Read,
           PostStopped, RunMain, RemoveHead, TestCancelled, PostCheckRunning, PostCheck
  <2>3. QED
    BY <1>1, <2>1, <2>2, OthersNotRunning
<1>3. CASE SignalStart(t)
  <2>1. /\ pc[t] = "start" /\ pc'[t] = "wait" /\ startSem' = startSem + 1
        /\ UNCHANGED <<stopSem, operations, checks>>
    BY <1>3 DEF SignalStart, EnterLoop
  <2>2. StartPaired' /\ StopPaired'
    BY <1>2, <2>1 DEF StartPaired, StopPaired, Bit
  <2>3. QED
    BY <1>2, <2>1, <2>2 DEF EmptyIsTold
<1>4. CASE TakeToken(t) \/ RunMain(t)
  <2>1. /\ pc[t] \in {"wait", "main"} /\ pc'[t] \in {"read", "remove"}
        /\ UNCHANGED <<startSem, stopSem, operations, checks>>
    BY <1>4 DEF TakeToken, RunMain
  <2>2. StartPaired' /\ StopPaired'
    BY <1>2, <2>1 DEF StartPaired, StopPaired, Bit
  <2>3. QED
    BY <1>2, <2>1, <2>2 DEF EmptyIsTold
<1>5. CASE ReadHead(t)
  <2>1. /\ pc[t] = "read" /\ pc'[t] \in {"stop", "before", "crash"}
        /\ UNCHANGED <<startSem, stopSem, operations, checks>>
    BY <1>5 DEF ReadHead, Read
  <2>2. StartPaired' /\ StopPaired'
    BY <1>2, <2>1 DEF StartPaired, StopPaired, Bit
  <2>3. QED
    BY <1>2, <2>1, <2>2 DEF EmptyIsTold
<1>6. CASE PostStopped(t)
  <2>1. /\ pc[t] = "stop" /\ pc'[t] = "stopping" /\ stopSem' = stopSem + 1
        /\ UNCHANGED <<startSem, operations, checks>>
    BY <1>6 DEF PostStopped
  <2>2. StartPaired' /\ StopPaired'
    BY <1>2, <2>1 DEF StartPaired, StopPaired, Bit
  <2>3. QED
    BY <1>2, <2>1, <2>2 DEF EmptyIsTold
<1>7. CASE RemoveHead(t)
  <2>1. /\ pc[t] = "remove" /\ pc'[t] = "finished" /\ operations # <<>>
        /\ operations' = Tail(operations)
        /\ needsCheck'[t] = (Len(operations) = 1)
        /\ UNCHANGED <<startSem, stopSem, checks>>
    BY <1>7 DEF RemoveHead, HeadIsRunning, HasHead
  <2>2. StartPaired' /\ StopPaired'
    BY <1>2, <2>1 DEF StartPaired, StopPaired, Bit
  <2>3. operations' = <<>> => needsCheck'[t]
    <3>1. ASSUME operations' = <<>> PROVE Len(operations) = 1
      <4>1. Len(operations') = Len(operations) - 1
        BY <2>1
      <4>2. QED
        BY <3>1, <4>1
    <3>2. QED
      BY <2>1, <3>1, Zenon
  <2>4. QED
    BY <1>2, <2>1, <2>2, <2>3 DEF EmptyIsTold
<1>8. CASE TestCancelled(t)
  <2>1. /\ pc[t] = "finished" /\ pc'[t] \in {"needs", "callback"}
        /\ UNCHANGED <<startSem, stopSem, operations, checks, needsCheck>>
    BY <1>8 DEF TestCancelled
  <2>2. StartPaired' /\ StopPaired'
    BY <1>2, <2>1 DEF StartPaired, StopPaired, Bit
  <2>3. QED
    BY <1>2, <2>1, <2>2 DEF EmptyIsTold
<1>9. CASE PostCheckRunning(t)
  <2>1. /\ pc[t] = "needs" /\ pc'[t] = "wait"
        /\ checks' = checks + Bit(needsCheck[t])
        /\ UNCHANGED <<startSem, stopSem, operations>>
    BY <1>9 DEF PostCheckRunning, PostCheck
  <2>2. StartPaired' /\ StopPaired'
    BY <1>2, <2>1 DEF StartPaired, StopPaired, Bit
  <2>3. checks > 0 \/ needsCheck[t] => checks' > 0
    BY <2>1 DEF Bit
  <2>4. QED
    BY <1>2, <2>1, <2>2, <2>3 DEF EmptyIsTold
<1>10. QED
  BY <1>3, <1>4, <1>5, <1>6, <1>7, <1>8, <1>9 DEF RunOperations

LEMMA PairedRunLoop ==
  ASSUME IInv, Paired, RunLoop
  PROVE  Paired'
<1> USE DEF IInv, TypeOK, MainPc, Running, Paired, locked, sems, worker, timer, client
<1>1. CASE SignalOperation \/ AlreadyStarted
  <2>1. /\ mainPc # "starting" /\ mainPc' # "starting"
        /\ UNCHANGED <<startSem, stopSem, operations, quitting, pc, needsCheck, checks,
                       armed>>
    BY <1>1 DEF SignalOperation, AlreadyStarted
  <2>2. QED
    BY <2>1 DEF StartPaired, StopPaired, EmptyIsTold, Bit
<1>2. CASE ThreadHasStarted
  <2>1. /\ mainPc = "starting" /\ mainPc' = "idle" /\ startSem > 0
        /\ startSem' = startSem - 1
        /\ UNCHANGED <<stopSem, operations, quitting, pc, needsCheck, checks, armed>>
    BY <1>2 DEF ThreadHasStarted
  <2>2. QED
    BY <2>1 DEF StartPaired, StopPaired, EmptyIsTold, Bit
<1>3. CASE CheckRunningOnMainThread
  <2>1. /\ armed'
        /\ UNCHANGED <<startSem, stopSem, operations, quitting, pc, needsCheck, mainPc>>
    BY <1>3 DEF CheckRunningOnMainThread
  <2>2. QED
    BY <2>1 DEF StartPaired, StopPaired, EmptyIsTold
<1>4. CASE CheckRunningAfterDelay
  <2>1. /\ operations = <<>> => quitting'
        /\ UNCHANGED <<startSem, stopSem, operations, pc, mainPc>>
    BY <1>4 DEF CheckRunningAfterDelay, DelayedCheck
  <2>2. QED
    BY <2>1 DEF StartPaired, StopPaired, EmptyIsTold
<1>5. QED
  BY <1>1, <1>2, <1>3, <1>4 DEF RunLoop

LEMMA PairedClient ==
  ASSUME IInv, Paired, Client
  PROVE  Paired'
<1>1. ASSUME NEW o \in Ops, AddOperation(o) PROVE Paired'
  <2>1. operations' # <<>>
    <3>1. operations \in Seq(Ops) /\ operations' = Append(operations, o)
      BY <1>1 DEF AddOperation, IInv, TypeOK
    <3>2. Len(operations) \in Nat /\ Len(operations') = Len(operations) + 1
      BY <3>1
    <3>3. QED
      BY <3>2
  <2>2. /\ mainPc # "starting" /\ mainPc' # "starting"
        /\ UNCHANGED <<startSem, stopSem, pc>>
    BY <1>1 DEF AddOperation, sems, worker
  <2>3. QED
    BY <2>1, <2>2 DEF Paired, StartPaired, StopPaired, EmptyIsTold, Bit
<1>2. CASE OwnerRelease \/ \E o \in Ops : Cancel(o)
  <2>1. UNCHANGED <<startSem, stopSem, operations, quitting, pc, needsCheck, mainPc,
                    checks, armed>>
    BY <1>2 DEF OwnerRelease, Cancel, locked, sems, worker, timer
  <2>2. QED
    BY <2>1 DEF Paired, StartPaired, StopPaired, EmptyIsTold, Running
<1>3. QED
  BY <1>1, <1>2 DEF Client

\* Who waits is met: the main thread in startThread by a thread that has yet to
\* signal, or has; stoppedOnMainThread by the token of the thread it was posted
\* by; and a thread that finds no token in mOperationSem by addOperation, which
\* is about to raise it, or, its list being empty, by a check to come.
WaitsAreMet ==
  /\ mainPc = "starting" => startSem > 0 \/ \E t \in Threads : pc[t] = "start"
  /\ \A t \in Threads : pc[t] = "stopping" => stopSem > 0
  /\ \A t \in Threads :
       pc[t] = "wait" /\ operationSem = 0 =>
         \/ mainPc = "append"
         \/ operations = <<>> /\ (checks > 0 \/ armed)

LEMMA PairedIsMet == IInv /\ Paired => WaitsAreMet
<1> SUFFICES ASSUME IInv, Paired PROVE WaitsAreMet
  OBVIOUS
<1> USE DEF IInv, TypeOK
<1>1. mainPc = "starting" => startSem > 0 \/ \E t \in Threads : pc[t] = "start"
  BY DEF Paired, StartPaired, Bit
<1>2. \A t \in Threads : pc[t] = "stopping" => stopSem > 0
  BY DEF Paired, StopPaired, Bit
<1>3. ASSUME NEW t \in Threads, pc[t] = "wait", operationSem = 0, mainPc # "append"
      PROVE  operations = <<>> /\ (checks > 0 \/ armed)
  <2>1. \A u \in Threads \ {t} : pc[u] = "none"
    BY <1>3, OthersNotRunning DEF Running
  <2>2. ~\E u \in Threads : pc[u] = "read" \/ HasHead(u)
    BY <1>3, <2>1 DEF HasHead
  <2>3. 0 = Len(operations) + Bit(QuitRequested)
    BY <1>3, <2>2 DEF TokensMatch, Bit
  <2>4. operations = <<>> /\ ~QuitRequested
    BY <2>3 DEF Bit
  <2>5. ~quitting
    BY <1>3, <2>4 DEF QuitRequested, Committed, WorkerPc
  <2>6. QED
    BY <1>3, <2>4, <2>5 DEF Paired, EmptyIsTold, Running
<1>4. QED
  BY <1>1, <1>2, <1>3 DEF WaitsAreMet

\* No wake-up is lost between addOperation, the delayed checks, the worker and
\* the calls it posts: what MainThreadReturns, WorkerEnds and
\* CommittedOperationFinishes rest on, for any number of operations.
THEOREM NoLostWakeUp == Spec => []WaitsAreMet
<1>1. Init => Paired /\ StartHasWork
  BY DEF Init, Paired, StartPaired, StopPaired, EmptyIsTold, StartHasWork, Running, Bit
<1>2. IInv /\ StartHasWork /\ [Next]_vars => StartHasWork'
  BY StartHasWorkStep
<1>3. IInv /\ StartHasWork /\ Paired /\ [Next]_vars => Paired'
  <2>1. ASSUME Paired, UNCHANGED vars PROVE Paired'
    BY <2>1 DEF vars, locked, sems, worker, timer, Paired, StartPaired, StopPaired,
                EmptyIsTold, Running
  <2>2. QED
    BY <2>1, PairedMainThread, PairedWorker, PairedRunLoop, PairedClient
       DEF Next, Finished
<1>4. QED
  BY HandshakeInvariant, PairedIsMet, <1>1, <1>2, <1>3, PTL DEF Spec
-----------------------------------------------------------------------------
(* What the serial executor, and so the queue, guarantees of each operation. *)

\* How many operations have begun, those finished included.
Begun == Len(added) - Len(Waiting)

\* The operations that have begun are the first that were added; the others
\* wait in that order.
InOrder ==
  /\ Waiting \in Seq(Ops) /\ Len(Waiting) <= Len(added)
  /\ \A i \in 1..Len(Waiting) : Waiting[i] = added[Begun + i]
  /\ Current # NoOp => Begun > 0 /\ Current = added[Begun]
  /\ \A p, q \in 1..Len(added) : added[p] = added[q] => p = q

\* Those called back have begun and do not run any more.
CalledHaveRun ==
  \A i \in 1..Len(delivered) :
    \E p \in 1..Begun : delivered[i] = added[p] /\ (Current # NoOp => p < Begun)

\* Callbacks come in the order in which the operations were added, and for each
\* operation at most once.
CalledInOrder ==
  \A i, j \in 1..Len(delivered), p, q \in 1..Len(added) :
    i < j /\ delivered[i] = added[p] /\ delivered[j] = added[q] => p < q

\* What has begun runs, was called back or was cancelled.
BegunIsAccounted ==
  \A p \in 1..Begun :
    \/ Current # NoOp /\ p = Begun
    \/ added[p] \in Elements(delivered) \/ added[p] \in cancelled

Serial == InOrder /\ CalledHaveRun /\ CalledInOrder /\ BegunIsAccounted

Histories == added \in Seq(Ops) /\ delivered \in Seq(Ops) /\ cancelled \subseteq Ops

LEMMA SerialAdd ==
  ASSUME Histories, Serial, NEW o \in Ops, Executor!Add(o)
  PROVE  Serial'
<1> USE DEF Histories
<1>1. /\ Len(added) \in Nat /\ Len(Waiting) \in Nat /\ Len(delivered) \in Nat
      /\ Waiting \in Seq(Ops) /\ Len(Waiting) <= Len(added)
      /\ Begun = Len(added) - Len(Waiting) /\ Begun \in Nat
  BY DEF Serial, InOrder, Begun
<1>2. /\ added' = Append(added, o) /\ Waiting' = Append(Waiting, o)
      /\ \A p \in 1..Len(added) : added[p] # o
      /\ Current' = Current /\ cancelled' = cancelled /\ delivered' = delivered
  BY DEF Executor!Add
<1>3. /\ Len(added') = Len(added) + 1 /\ Len(Waiting') = Len(Waiting) + 1
      /\ Begun' = Begun
      /\ \A p \in 1..Len(added) : added'[p] = added[p]
      /\ added'[Len(added) + 1] = o
      /\ \A i \in 1..Len(Waiting) : Waiting'[i] = Waiting[i]
      /\ Waiting'[Len(Waiting) + 1] = o
      /\ Waiting' \in Seq(Ops)
  <2>1. /\ Len(added') = Len(added) + 1 /\ added'[Len(added) + 1] = o
        /\ \A p \in 1..Len(added) : added'[p] = added[p]
    BY <1>1, <1>2
  <2>2. /\ Len(Waiting') = Len(Waiting) + 1 /\ Waiting'[Len(Waiting) + 1] = o
        /\ \A i \in 1..Len(Waiting) : Waiting'[i] = Waiting[i]
        /\ Waiting' \in Seq(Ops)
    BY <1>1, <1>2
  <2>3. Begun' = Begun
    BY <1>1, <2>1, <2>2 DEF Begun
  <2>4. QED
    BY <2>1, <2>2, <2>3
<1> HIDE DEF Histories
<1>4. InOrder'
  <2>1. ASSUME NEW i \in 1..Len(Waiting') PROVE Waiting'[i] = added'[Begun' + i]
    <3>1. CASE i = Len(Waiting) + 1
      BY <1>1, <1>3, <3>1
    <3>2. CASE i # Len(Waiting) + 1
      <4>1. i \in 1..Len(Waiting) /\ Begun + i \in 1..Len(added)
        BY <1>1, <1>3, <3>2
      <4>2. Waiting[i] = added[Begun + i]
        BY <4>1 DEF Serial, InOrder
      <4>3. QED
        BY <1>3, <4>1, <4>2
    <3>3. QED
      BY <3>1, <3>2
  <2>2. Current' # NoOp => Begun' > 0 /\ Current' = added'[Begun']
    <3>1. Current # NoOp => Begun > 0 /\ Current = added[Begun]
      BY DEF Serial, InOrder
    <3>2. Begun > 0 => Begun \in 1..Len(added)
      BY <1>1
    <3>3. QED
      BY <1>2, <1>3, <3>1, <3>2
  <2>3. ASSUME NEW p \in 1..Len(added'), NEW q \in 1..Len(added'), added'[p] = added'[q]
        PROVE  p = q
    <3>1. /\ p \in 1..Len(added) \/ p = Len(added) + 1
          /\ q \in 1..Len(added) \/ q = Len(added) + 1
      BY <1>1, <1>3
    <3>2. p \in 1..Len(added) /\ q \in 1..Len(added) => p = q
      BY <1>3, <2>3 DEF Serial, InOrder
    <3>3. QED
      BY <1>2, <1>3, <2>3, <3>1, <3>2
  <2>4. Len(Waiting') <= Len(added')
    BY <1>1, <1>3
  <2>5. QED
    BY <1>3, <2>1, <2>2, <2>3, <2>4 DEF InOrder
<1>5. \A p \in 1..Begun : p \in 1..Len(added) /\ added'[p] = added[p]
  BY <1>1, <1>3
<1>6. CalledHaveRun'
  <2>1. ASSUME NEW i \in 1..Len(delivered')
        PROVE  \E p \in 1..Begun' :
                 delivered'[i] = added'[p] /\ (Current' # NoOp => p < Begun')
    <3>1. PICK p \in 1..Begun : delivered[i] = added[p] /\ (Current # NoOp => p < Begun)
      BY <1>2 DEF Serial, CalledHaveRun
    <3>2. QED
      BY <1>2, <1>3, <1>5, <3>1
  <2>2. QED
    BY <2>1 DEF CalledHaveRun
<1>7. CalledInOrder'
  <2>1. ASSUME NEW i \in 1..Len(delivered), NEW p \in 1..Len(added'),
               delivered[i] = added'[p]
        PROVE  p \in 1..Len(added) /\ delivered[i] = added[p]
    <3>1. PICK r \in 1..Begun : delivered[i] = added[r]
      BY DEF Serial, CalledHaveRun
    <3>2. p # Len(added) + 1
      BY <1>2, <1>3, <1>5, <2>1, <3>1
    <3>3. p \in 1..Len(added)
      BY <1>1, <1>3, <3>2
    <3>4. QED
      BY <1>3, <2>1, <3>3
  <2>2. ASSUME NEW i \in 1..Len(delivered), NEW j \in 1..Len(delivered),
               NEW p \in 1..Len(added'), NEW q \in 1..Len(added'),
               i < j, delivered[i] = added'[p], delivered[j] = added'[q]
        PROVE  p < q
    <3>1. p \in 1..Len(added) /\ delivered[i] = added[p]
      BY <2>1, <2>2
    <3>2. q \in 1..Len(added) /\ delivered[j] = added[q]
      BY <2>1, <2>2
    <3>3. QED
      BY <2>2, <3>1, <3>2 DEF Serial, CalledInOrder
  <2>3. QED
    BY <1>2, <2>2 DEF CalledInOrder
<1>8. BegunIsAccounted'
  <2>1. Elements(delivered') = Elements(delivered)
    BY <1>2
  <2>2. QED
    BY <1>2, <1>3, <1>5, <2>1 DEF Serial, BegunIsAccounted
<1>9. QED
  BY <1>4, <1>6, <1>7, <1>8 DEF Serial

LEMMA SerialBegin ==
  ASSUME Histories, Serial, Executor!Begin
  PROVE  Serial'
<1>1. /\ Len(added) \in Nat /\ Len(Waiting) \in Nat
      /\ Waiting \in Seq(Ops) /\ Len(Waiting) <= Len(added)
      /\ Begun = Len(added) - Len(Waiting) /\ Begun \in Nat
  BY DEF Serial, InOrder, Begun, Histories
<1>2. /\ Current = NoOp /\ Waiting # <<>>
      /\ Current' = Head(Waiting) /\ Waiting' = Tail(Waiting)
      /\ added' = added /\ cancelled' = cancelled /\ delivered' = delivered
  BY DEF Executor!Begin
<1>3. /\ Len(Waiting') = Len(Waiting) - 1 /\ Waiting' \in Seq(Ops)
      /\ \A i \in 1..Len(Waiting') : Waiting'[i] = Waiting[i + 1]
      /\ Current' = Waiting[1] /\ Len(Waiting) >= 1
  BY <1>1, <1>2
<1>4. Begun' = Begun + 1 /\ Begun' \in 1..Len(added)
  BY <1>1, <1>2, <1>3 DEF Begun
<1>5. InOrder'
  <2>1. ASSUME NEW i \in 1..Len(Waiting') PROVE Waiting'[i] = added'[Begun' + i]
    <3>1. i + 1 \in 1..Len(Waiting) /\ Begun + (i + 1) = Begun' + i
      BY <1>1, <1>3, <1>4
    <3>2. Waiting[i + 1] = added[Begun + (i + 1)]
      BY <3>1 DEF Serial, InOrder
    <3>3. QED
      BY <1>2, <1>3, <3>1, <3>2
  <2>2. Current' = added'[Begun'] /\ Begun' > 0
    <3>1. 1 \in 1..Len(Waiting)
      BY <1>1, <1>3
    <3>2. Waiting[1] = added[Begun + 1]
      BY <3>1 DEF Serial, InOrder
    <3>3. QED
      BY <1>1, <1>2, <1>3, <1>4, <3>2
  <2>3. Len(Waiting') <= Len(added')
    BY <1>1, <1>2, <1>3
  <2>4. \A p, q \in 1..Len(added') : added'[p] = added'[q] => p = q
    BY <1>2 DEF Serial, InOrder
  <2>5. QED
    BY <1>3, <2>1, <2>2, <2>3, <2>4 DEF InOrder
<1>6. CalledHaveRun'
  <2>1. ASSUME NEW i \in 1..Len(delivered')
        PROVE  \E p \in 1..Begun' :
                 delivered'[i] = added'[p] /\ (Current' # NoOp => p < Begun')
    <3>1. PICK p \in 1..Begun : delivered[i] = added[p]
      BY <1>2 DEF Serial, CalledHaveRun
    <3>2. p \in 1..Begun' /\ p < Begun'
      BY <1>1, <1>4
    <3>3. QED
      BY <1>2, <3>1, <3>2
  <2>2. QED
    BY <2>1 DEF CalledHaveRun
<1>7. CalledInOrder'
  BY <1>2 DEF Serial, CalledInOrder
<1>8. BegunIsAccounted'
  <2>1. Elements(delivered') = Elements(delivered)
    BY <1>2
  <2>2. Current' # NoOp
    <3>1. Waiting[1] \in Ops
      BY <1>1, <1>3
    <3>2. QED
      BY <1>3, <3>1, OpsAssumption
  <2>3. \A p \in 1..Begun' : p = Begun' \/ p \in 1..Begun
    BY <1>1, <1>4
  <2>4. \A p \in 1..Begun : added[p] \in Elements(delivered) \/ added[p] \in cancelled
    BY <1>2 DEF Serial, BegunIsAccounted
  <2>5. QED
    BY <1>2, <2>1, <2>2, <2>3, <2>4 DEF BegunIsAccounted
<1>9. QED
  BY <1>5, <1>6, <1>7, <1>8 DEF Serial

\* The operation that runs ends, called back or not.
LEMMA SerialEnd ==
  ASSUME Histories, Serial, Executor!Deliver \/ Executor!Drop
  PROVE  Serial'
<1>1. /\ Current # NoOp /\ Current' = NoOp
      /\ added' = added /\ Waiting' = Waiting /\ cancelled' = cancelled
      /\ \/ delivered' = delivered /\ Current \in cancelled
         \/ delivered' = Append(delivered, Current)
  BY OpsAssumption DEF Executor!Deliver, Executor!Drop, Histories
<1>2. Begun' = Begun
  BY <1>1 DEF Begun
<1>3. /\ Len(added) \in Nat /\ Len(delivered) \in Nat /\ Begun \in 1..Len(added)
      /\ Current = added[Begun]
  <2>1. Len(added) \in Nat /\ Len(delivered) \in Nat /\ Len(Waiting) \in Nat
    BY DEF Histories, Serial, InOrder
  <2>2. Begun > 0 /\ Current = added[Begun]
    BY <1>1 DEF Serial, InOrder
  <2>3. QED
    BY <2>1, <2>2 DEF Begun
<1>4. InOrder'
  BY <1>1, <1>2 DEF Serial, InOrder
<1>5. \A i \in 1..Len(delivered) :
        \E p \in 1..Begun : delivered[i] = added[p] /\ p < Begun
  BY <1>1 DEF Serial, CalledHaveRun
<1>6. CASE delivered' = delivered /\ Current \in cancelled
  <2>1. CalledHaveRun' /\ CalledInOrder'
    BY <1>1, <1>2, <1>6, <1>5 DEF Serial, CalledHaveRun, CalledInOrder
  <2>2. \A p \in 1..Begun : added[p] \in Elements(delivered) \/ added[p] \in cancelled
    BY <1>3, <1>6 DEF Serial, BegunIsAccounted
  <2>3. BegunIsAccounted'
    BY <1>1, <1>2, <1>6, <2>2 DEF BegunIsAccounted, Elements
  <2>4. QED
    BY <1>4, <2>1, <2>3 DEF Serial
<1>7. CASE delivered' = Append(delivered, Current)
  <2>1. /\ Len(delivered') = Len(delivered) + 1
        /\ \A i \in 1..Len(delivered) : delivered'[i] = delivered[i]
        /\ delivered'[Len(delivered) + 1] = Current
    BY <1>3, <1>7 DEF Histories
  <2>2. \A i \in 1..Len(delivered') : i \in 1..Len(delivered) \/ i = Len(delivered) + 1
    BY <1>3, <2>1
  <2>3. CalledHaveRun'
    <3>1. ASSUME NEW i \in 1..Len(delivered')
          PROVE  \E p \in 1..Begun : delivered'[i] = added[p]
      <4>1. CASE i \in 1..Len(delivered)
        BY <1>5, <2>1, <4>1
      <4>2. CASE i = Len(delivered) + 1
        <5>1. Begun \in 1..Begun
          BY <1>3
        <5>2. QED
          BY <1>3, <2>1, <4>2, <5>1
      <4>3. QED
        BY <2>2, <4>1, <4>2
    <3>2. QED
      BY <1>1, <1>2, <3>1 DEF CalledHaveRun
  <2>4. CalledInOrder'
    <3>1. ASSUME NEW i \in 1..Len(delivered'), NEW j \in 1..Len(delivered'),
                 NEW p \in 1..Len(added), NEW q \in 1..Len(added),
                 i < j, delivered'[i] = added[p], delivered'[j] = added[q]
          PROVE  p < q
      <4>1. i \in 1..Len(delivered)
        BY <1>3, <2>1, <3>1
      <4>2. delivered[i] = added[p]
        BY <2>1, <3>1, <4>1
      <4>3. CASE j \in 1..Len(delivered)
        <5>1. delivered[j] = added[q]
          BY <2>1, <3>1, <4>3
        <5>2. QED
          BY <3>1, <4>1, <4>2, <4>3, <5>1 DEF Serial, CalledInOrder
      <4>4. CASE j = Len(delivered) + 1
        <5>1. PICK r \in 1..Begun : delivered[i] = added[r] /\ r < Begun
          BY <1>5, <4>1
        <5>2. r \in 1..Len(added)
          BY <1>3
        <5>3. \A k, l \in 1..Len(added) : added[k] = added[l] => k = l
          BY DEF Serial, InOrder
        <5>4. p = r
          BY <4>2, <5>1, <5>2, <5>3
        <5>5. q = Begun
          BY <1>3, <2>1, <3>1, <4>4, <5>3
        <5>6. QED
          BY <5>1, <5>4, <5>5
      <4>5. QED
        BY <2>2, <4>3, <4>4
    <3>2. QED
      BY <1>1, <3>1 DEF CalledInOrder
  <2>5. BegunIsAccounted'
    <3>1. /\ Elements(delivered) \subseteq Elements(delivered')
          /\ added[Begun] \in Elements(delivered')
      <4>1. Len(delivered) + 1 \in 1..Len(delivered')
            /\ \A i \in 1..Len(delivered) : i \in 1..Len(delivered')
        BY <1>3, <2>1
      <4>2. QED
        BY <1>3, <2>1, <4>1 DEF Elements
    <3>2. ASSUME NEW p \in 1..Begun
          PROVE  added[p] \in Elements(delivered') \/ added[p] \in cancelled
      BY <3>1 DEF Serial, BegunIsAccounted
    <3>3. QED
      BY <1>1, <1>2, <3>2 DEF BegunIsAccounted
  <2>6. QED
    BY <1>4, <2>3, <2>4, <2>5 DEF Serial
<1>8. QED
  BY <1>1, <1>6, <1>7

LEMMA SerialStep ==
  ASSUME Histories, Serial, [Executor!Next]_Executor!vars
  PROVE  Serial'
<1>1. CASE UNCHANGED Executor!vars
  <2>1. UNCHANGED <<Waiting, Current, cancelled, added, delivered>>
    BY <1>1 DEF Executor!vars
  <2>2. Begun' = Begun /\ Elements(delivered') = Elements(delivered)
    BY <2>1 DEF Begun
  <2>3. InOrder' /\ CalledHaveRun'
    BY <2>1, <2>2 DEF Serial, InOrder, CalledHaveRun
  <2>4. CalledInOrder' /\ BegunIsAccounted'
    BY <2>1, <2>2 DEF Serial, CalledInOrder, BegunIsAccounted
  <2>5. QED
    BY <2>3, <2>4 DEF Serial
<1>2. ASSUME NEW o \in Ops, Executor!Cancel(o) PROVE Serial'
  <2>1. /\ UNCHANGED <<Waiting, Current, added, delivered>>
        /\ cancelled \subseteq cancelled'
    BY <1>2 DEF Executor!Cancel
  <2>2. Begun' = Begun /\ Elements(delivered') = Elements(delivered)
    BY <2>1 DEF Begun
  <2>3. InOrder' /\ CalledHaveRun'
    BY <2>1, <2>2 DEF Serial, InOrder, CalledHaveRun
  <2>4. CalledInOrder' /\ BegunIsAccounted'
    BY <2>1, <2>2 DEF Serial, CalledInOrder, BegunIsAccounted
  <2>5. QED
    BY <2>3, <2>4 DEF Serial
<1>3. QED
  BY <1>1, <1>2, SerialAdd, SerialBegin, SerialEnd DEF Executor!Next

\* Nothing that was added is lost: it is in the list, between its removal and its
\* callback, called back or cancelled.
NoneIsLost ==
  \A o \in Elements(added) :
    \/ o \in Elements(operations)
    \/ \E t \in Threads : pc[t] \in {"finished", "callback"} /\ op[t] = o
    \/ o \in Elements(delivered) \/ o \in cancelled

LEMMA WaitingIsListed ==
  ASSUME TypeOK
  PROVE  Elements(Waiting) \subseteq Elements(operations)
<1>1. CASE Waiting = operations
  BY <1>1
<1>2. CASE \E t \in Threads : HasHead(t)
  <2>1. Waiting = Tail(operations)
    BY <1>2 DEF Waiting
  <2>2. CASE operations = <<>>
    <3>1. Len(Tail(operations)) = 0
      BY <2>2
    <3>2. Elements(Waiting) = {}
      BY <2>1, <3>1 DEF Elements
    <3>3. QED
      BY <3>2
  <2>3. CASE operations # <<>>
    <3>1. /\ Len(operations) \in Nat /\ Len(Waiting) = Len(operations) - 1
          /\ \A i \in 1..Len(Waiting) : Waiting[i] = operations[i + 1]
      BY <2>1, <2>3 DEF TypeOK
    <3>2. \A i \in 1..Len(Waiting) : i + 1 \in 1..Len(operations)
      BY <3>1
    <3>3. QED
      BY <3>1, <3>2 DEF Elements
  <2>4. QED
    BY <2>2, <2>3
<1>3. QED
  BY <1>1, <1>2 DEF Waiting

LEMMA SerialLosesNone ==
  ASSUME IInv, Serial
  PROVE  NoneIsLost
<1>1. SUFFICES ASSUME NEW p \in 1..Len(added)
               PROVE  LET o == added[p]
                      IN  \/ o \in Elements(operations)
                          \/ \E t \in Threads : /\ pc[t] \in {"finished", "callback"}
                                                /\ op[t] = o
                          \/ o \in Elements(delivered) \/ o \in cancelled
  BY DEF NoneIsLost, Elements
<1>2. /\ Len(added) \in Nat /\ Len(Waiting) \in Nat /\ Begun = Len(added) - Len(Waiting)
      /\ Begun \in Nat
  BY DEF IInv, TypeOK, Serial, InOrder, Begun
<1>3. CASE p \in 1..Begun /\ ~(Current # NoOp /\ p = Begun)
  BY <1>3 DEF Serial, BegunIsAccounted
<1>4. CASE Current # NoOp /\ p = Begun
  <2>1. Current = added[p]
    BY <1>4 DEF Serial, InOrder
  <2>2. PICK t \in Threads : t \in Busy /\ Current = op[t]
    <3>1. Busy # {}
      BY <1>4 DEF Current
    <3>2. PICK t \in Threads : t \in Busy
      BY <3>1 DEF Busy
    <3>3. Current = op[t]
      BY <3>2, CurrentOfBusy DEF IInv
    <3>4. QED
      BY <3>2, <3>3
  <2>3. CASE HasHead(t)
    <3>1. operations # <<>> /\ op[t] = Head(operations)
      BY <2>3 DEF IInv, HeadIsRunning
    <3>2. 1 \in 1..Len(operations) /\ Head(operations) = operations[1]
      BY <3>1 DEF IInv, TypeOK
    <3>3. QED
      BY <2>1, <2>2, <3>1, <3>2 DEF Elements
  <2>4. CASE ~HasHead(t)
    BY <2>1, <2>2, <2>4 DEF Busy, HasHead
  <2>5. QED
    BY <2>3, <2>4
<1>5. CASE p \notin 1..Begun
  <2>1. p - Begun \in 1..Len(Waiting) /\ Begun + (p - Begun) = p
    BY <1>2, <1>5
  <2>2. Waiting[p - Begun] = added[p]
    BY <2>1 DEF Serial, InOrder
  <2>3. added[p] \in Elements(Waiting)
    BY <2>1, <2>2 DEF Elements
  <2>4. QED
    BY <2>3, WaitingIsListed DEF IInv
<1>6. QED
  BY <1>3, <1>4, <1>5

LEMMA SerialInvariant == Spec => []Serial
<1>1. Init => Serial
  <2>1. ASSUME Init PROVE /\ added = <<>> /\ delivered = <<>> /\ Waiting = <<>>
                          /\ Current = NoOp /\ Begun = 0
    BY <2>1 DEF Init, Waiting, Current, Busy, HasHead, Begun
  <2>2. QED
    BY <2>1 DEF Serial, InOrder, CalledHaveRun, CalledInOrder, BegunIsAccounted
<1>2. Histories /\ Serial /\ [Executor!Next]_Executor!vars => Serial'
  BY SerialStep
<1>3. IInv => Histories
  BY DEF IInv, TypeOK, Histories
<1>4. QED
  BY HandshakeInvariant, Refinement, <1>1, <1>2, <1>3, PTL
     DEF Spec, ImplementsSerialExecutor, Executor!Spec

\* What is called back was added and has run; callbacks come in the order of
\* addOperation and at most once, whatever races between adding, cancelling and
\* the end of the thread.  It is a theorem of the executor that Refinement carries
\* to the queue.
THEOREM CallbacksInOrder == Spec => [](CalledHaveRun /\ CalledInOrder)
<1>1. Serial => CalledHaveRun /\ CalledInOrder
  BY DEF Serial
<1>2. QED
  BY SerialInvariant, <1>1, PTL

\* An operation never disappears: until its callback or a cancel it is in the list
\* or in the hands of the worker, also while one thread ends and the next begins.
\* What EveryOperationFinishes lacks is a thread to run it, not the operation.
THEOREM NothingIsLost == Spec => []NoneIsLost
<1>1. IInv /\ Serial => NoneIsLost
  BY SerialLosesNone
<1>2. QED
  BY HandshakeInvariant, SerialInvariant, <1>1, PTL
=============================================================================
