--------------------------- MODULE OperationQueue ---------------------------
(***************************************************************************)
(* mailcore::OperationQueue: the serial queue every asynchronous mail      *)
(* operation runs on.  The main thread adds operations and runs callbacks; *)
(* a worker thread is created when there is work and is asked to quit one  *)
(* second after the queue became empty.                                    *)
(*                                                                         *)
(* The two sides meet at a mutex (operations, quitting), at three counting *)
(* semaphores, and at the main thread's run loop.  A main thread call the  *)
(* worker waits for is enabled while the worker is at the program point    *)
(* that posted it.  The calls of checkRunningOnMainThread are posted       *)
(* without waiting: `checks' counts them, which is the whole run loop      *)
(* queue, because they are alike and a worker that posted the call of      *)
(* stoppedOnMainThread posts nothing after it.                             *)
(*                                                                         *)
(* A definition marked `mutant' is no part of the specification: it is the *)
(* one below it with a plausible bug, which a property here must notice.   *)
(***************************************************************************)
EXTENDS Naturals, Sequences, FiniteSets

CONSTANTS Ops,      \* the operations clients add, each at most once
          NoOp,     \* the NULL operation
          Threads   \* identities for the pthreads startThread creates

ASSUME OpsAssumption == NoOp \notin Ops

VARIABLES
  operations,    \* mOperations
  quitting,      \* mQuitting
  operationSem,  \* mOperationSem
  startSem,      \* mStartSem
  stopSem,       \* mStopSem
  started,       \* mStarted, of the main thread only
  refs,          \* mCounter of the queue object
  pc,            \* where each thread is in runOperations
  op,            \* its local variable op
  needsCheck,    \* its local variable needsCheckRunning
  mainPc,        \* where the main thread is in addOperation
  checks,        \* posted calls of checkRunningOnMainThread
  armed,         \* the delayed call of checkRunningAfterDelay is pending
  ownerHolds,    \* the owner has not released the queue
  cancelled,     \* operations whose mCancelled is set
  added,         \* history: operations in the order they were added
  delivered      \* history: operations whose callback ran, in that order

locked  == <<operations, quitting>>
sems    == <<operationSem, startSem, stopSem>>
worker  == <<pc, op, needsCheck>>
timer   == <<checks, armed>>
client  == <<ownerHolds, cancelled, added>>
vars == <<locked, sems, started, refs, worker, mainPc, timer, client, delivered>>

WorkerPc == {"none",       \* no such thread
             "start",      \* about to raise mStartSem
             "wait",       \* in mailsem_down(mOperationSem)
             "read",       \* about to look at the list under the lock
             "before",     \* waits for beforeMain on the main thread
             "main",       \* in op->main()
             "remove",     \* about to remove the head under the lock
             "finished",   \* about to test isCancelled
             "callback",   \* waits for callbackOnMainThread
             "needs",      \* about to test needsCheckRunning
             "stop",       \* decided to stop
             "stopping",   \* waits for stoppedOnMainThread
             "crash"}      \* called a method of the NULL operation

MainPc == {"idle", "append", "start", "starting"}

Bit(b) == IF b THEN 1 ELSE 0

Elements(s) == {s[i] : i \in 1..Len(s)}

Running(t) == pc[t] # "none"

\* The head of the list is the operation this thread runs.
HasHead(t) == pc[t] \in {"before", "main", "remove"}

(***************************************************************************)
(* The constructor.  Its caller holds the only reference.                  *)
(***************************************************************************)
Init ==
  /\ operations = <<>> /\ quitting = FALSE
  /\ operationSem = 0 /\ startSem = 0 /\ stopSem = 0
  /\ started = FALSE
  /\ refs = 1 /\ ownerHolds = TRUE
  /\ pc = [t \in Threads |-> "none"]
  /\ op = [t \in Threads |-> NoOp]
  /\ needsCheck = [t \in Threads |-> FALSE]
  /\ mainPc = "idle"
  /\ checks = 0 /\ armed = FALSE
  /\ cancelled = {} /\ added = <<>> /\ delivered = <<>>

-----------------------------------------------------------------------------
(* The main thread.  addOperation takes four steps; the other calls run to *)
(* their end before the run loop takes the next one.                       *)

AddOperation(o) ==
  /\ mainPc = "idle" /\ ownerHolds
  /\ o \notin Elements(added)
  /\ operations' = Append(operations, o)
  /\ added' = Append(added, o)
  /\ mainPc' = "append"
  /\ UNCHANGED <<quitting, sems, started, refs, worker, timer,
                 ownerHolds, cancelled, delivered>>

SignalOperation ==
  /\ mainPc = "append"
  /\ operationSem' = operationSem + 1
  /\ mainPc' = "start"
  /\ UNCHANGED <<locked, startSem, stopSem, started, refs, worker, timer,
                 client, delivered>>

AlreadyStarted ==
  /\ mainPc = "start" /\ started
  /\ mainPc' = "idle"
  /\ UNCHANGED <<locked, sems, started, refs, worker, timer, client, delivered>>

CreateThread(t, quit) ==
  /\ mainPc = "start" /\ pc[t] = "none"
  /\ refs' = refs + 1                                              \* (3)
  /\ quitting' = quit
  /\ started' = TRUE
  /\ pc' = [pc EXCEPT ![t] = "start"]
  /\ mainPc' = "starting"
  /\ UNCHANGED <<operations, sems, op, needsCheck, timer, client, delivered>>

StartThreadAlways(t) == CreateThread(t, FALSE)                \* mutant
StartThreadQuitting(t) == ~started /\ CreateThread(t, quitting) \* mutant
StartThread(t) == ~started /\ CreateThread(t, FALSE)

ThreadHasStarted ==
  /\ mainPc = "starting" /\ startSem > 0
  /\ startSem' = startSem - 1
  /\ mainPc' = "idle"
  /\ UNCHANGED <<locked, operationSem, stopSem, started, refs, worker, timer,
                 client, delivered>>

BeforeMain(t) ==
  /\ mainPc = "idle" /\ pc[t] = "before"
  /\ pc' = [pc EXCEPT ![t] = "main"]
  /\ UNCHANGED <<locked, sems, started, refs, op, needsCheck, mainPc, timer,
                 client, delivered>>

Callback(t, call) ==
  /\ mainPc = "idle" /\ pc[t] = "callback"
  /\ delivered' = IF call THEN Append(delivered, op[t]) ELSE delivered
  /\ pc' = [pc EXCEPT ![t] = "needs"]
  /\ UNCHANGED <<locked, sems, started, refs, op, needsCheck, mainPc, timer,
                 client>>

CallbackUnconditionally(t) == Callback(t, TRUE)               \* mutant
CallbackOnMainThread(t) == Callback(t, op[t] \notin cancelled)

\* The delayed call that is cancelled here takes its retain (1) with it.
CheckRunningOnMainThread ==
  /\ mainPc = "idle" /\ checks > 0
  /\ checks' = checks - 1
  /\ armed' = TRUE
  /\ UNCHANGED <<locked, sems, started, refs, worker, mainPc, client, delivered>>

DelayedCheck(quit) ==
  /\ mainPc = "idle" /\ armed
  /\ armed' = FALSE
  /\ operationSem' = operationSem + Bit(quit)
  /\ quitting' = (quitting \/ quit)
  /\ refs' = refs - 1                                              \* (1)
  /\ UNCHANGED <<operations, startSem, stopSem, started, worker, mainPc, checks,
                 client, delivered>>

QuitAgainAfterDelay == DelayedCheck(operations = <<>>)        \* mutant
CheckRunningAfterDelay == DelayedCheck(~quitting /\ operations = <<>>)

StoppedOnMainThread(t) ==
  /\ mainPc = "idle" /\ pc[t] = "stopping"
  /\ checks = 0                          \* posted before this call
  /\ stopSem > 0
  /\ stopSem' = stopSem - 1
  /\ started' = FALSE
  /\ refs' = refs - 2                                              \* (2), (3)
  /\ pc' = [pc EXCEPT ![t] = "none"]
  /\ UNCHANGED <<locked, operationSem, startSem, op, needsCheck, mainPc, timer,
                 client, delivered>>

\* Operation::cancel, called by a client on the main thread.
Cancel(o) ==
  /\ mainPc = "idle"
  /\ cancelled' = cancelled \cup {o}
  /\ UNCHANGED <<locked, sems, started, refs, worker, mainPc, timer,
                 ownerHolds, added, delivered>>

\* The destructor of the object that created the queue.
OwnerRelease ==
  /\ mainPc = "idle" /\ ownerHolds
  /\ ownerHolds' = FALSE
  /\ refs' = refs - 1
  /\ UNCHANGED <<locked, sems, started, worker, mainPc, timer, cancelled, added,
                 delivered>>

-----------------------------------------------------------------------------
(* The worker: the program points of runOperations.                        *)

EnterLoop(t, tokens) ==
  /\ pc[t] = "start"
  /\ startSem' = startSem + tokens
  /\ pc' = [pc EXCEPT ![t] = "wait"]
  /\ UNCHANGED <<locked, operationSem, stopSem, started, refs, op, needsCheck,
                 mainPc, timer, client, delivered>>

StartUnsignalled(t) == EnterLoop(t, 0)                        \* mutant
SignalStart(t) == EnterLoop(t, 1)

TakeToken(t) ==
  /\ pc[t] = "wait" /\ operationSem > 0
  /\ operationSem' = operationSem - 1
  /\ pc' = [pc EXCEPT ![t] = "read"]
  /\ UNCHANGED <<locked, startSem, stopSem, started, refs, op, needsCheck,
                 mainPc, timer, client, delivered>>

Read(t, stop) ==
  /\ pc[t] = "read"
  /\ op' = [op EXCEPT ![t] = IF operations = <<>> THEN NoOp ELSE Head(operations)]
  /\ needsCheck' = [needsCheck EXCEPT ![t] = FALSE]
  /\ pc' = [pc EXCEPT ![t] = IF stop THEN "stop"
                             ELSE IF operations # <<>> THEN "before" ELSE "crash"]
  /\ UNCHANGED <<locked, sems, started, refs, mainPc, timer, client, delivered>>

StopWhenQuitting(t) == Read(t, quitting)                      \* mutant
ReadHead(t) == Read(t, operations = <<>> /\ quitting)

PostStopped(t) ==
  /\ pc[t] = "stop"
  /\ stopSem' = stopSem + 1
  /\ refs' = refs + 1                                              \* (2)
  /\ pc' = [pc EXCEPT ![t] = "stopping"]
  /\ UNCHANGED <<locked, operationSem, startSem, started, op, needsCheck, mainPc,
                 timer, client, delivered>>

RunMain(t) ==
  /\ pc[t] = "main"
  /\ pc' = [pc EXCEPT ![t] = "remove"]
  /\ UNCHANGED <<locked, sems, started, refs, op, needsCheck, mainPc, timer,
                 client, delivered>>

RemoveHead(t) ==
  /\ pc[t] = "remove"
  /\ operations' = Tail(operations)
  /\ needsCheck' = [needsCheck EXCEPT ![t] = Len(operations) = 1]
  /\ pc' = [pc EXCEPT ![t] = "finished"]
  /\ UNCHANGED <<quitting, sems, started, refs, op, mainPc, timer, client,
                 delivered>>

TestCancelled(t) ==
  /\ pc[t] = "finished"
  /\ pc' = [pc EXCEPT ![t] = IF op[t] \in cancelled THEN "needs" ELSE "callback"]
  /\ UNCHANGED <<locked, sems, started, refs, op, needsCheck, mainPc, timer,
                 client, delivered>>

PostCheck(t, retains) ==
  /\ pc[t] = "needs"
  /\ refs' = refs + retains                                        \* (1)
  /\ checks' = checks + Bit(needsCheck[t])
  /\ pc' = [pc EXCEPT ![t] = "wait"]
  /\ UNCHANGED <<locked, sems, started, op, needsCheck, mainPc, armed, client,
                 delivered>>

PostCheckUnretained(t) == PostCheck(t, 0)                     \* mutant
PostCheckRunning(t) == PostCheck(t, Bit(needsCheck[t]))

-----------------------------------------------------------------------------
MainThread(t) ==
  \/ StartThread(t) \/ BeforeMain(t)
  \/ CallbackOnMainThread(t) \/ StoppedOnMainThread(t)

RunLoop ==
  \/ SignalOperation \/ AlreadyStarted \/ ThreadHasStarted
  \/ CheckRunningOnMainThread \/ CheckRunningAfterDelay

RunOperations(t) ==
  \/ SignalStart(t) \/ TakeToken(t) \/ ReadHead(t) \/ PostStopped(t)
  \/ RunMain(t) \/ RemoveHead(t) \/ TestCancelled(t) \/ PostCheckRunning(t)

Client ==
  \/ \E o \in Ops : AddOperation(o) \/ Cancel(o)
  \/ OwnerRelease

\* The client is done and nothing is running, posted or armed.
Quiescent ==
  /\ mainPc = "idle" /\ ~ownerHolds
  /\ checks = 0 /\ ~armed
  /\ \A t \in Threads : ~Running(t)

Finished == Quiescent /\ UNCHANGED vars

Next ==
  \/ \E t \in Threads : MainThread(t) \/ RunOperations(t)
  \/ RunLoop
  \/ Client
  \/ Finished

Spec == Init /\ [][Next]_vars

(***************************************************************************)
(* Threads are scheduled, op->main() returns, the run loop serves every    *)
(* source and timer.  A client need not do anything.                       *)
(***************************************************************************)
Fairness ==
  /\ \A t \in Threads : WF_vars(MainThread(t)) /\ WF_vars(RunOperations(t))
  /\ WF_vars(SignalOperation \/ AlreadyStarted \/ ThreadHasStarted)
  /\ WF_vars(CheckRunningOnMainThread)
  /\ WF_vars(CheckRunningAfterDelay)

FairSpec == Spec /\ Fairness

-----------------------------------------------------------------------------
(* Properties.                                                             *)

TypeOK ==
  /\ operations \in Seq(Ops) /\ quitting \in BOOLEAN
  /\ operationSem \in Nat /\ startSem \in Nat /\ stopSem \in Nat
  /\ started \in BOOLEAN /\ refs \in Nat
  /\ pc \in [Threads -> WorkerPc]
  /\ op \in [Threads -> Ops \cup {NoOp}]
  /\ needsCheck \in [Threads -> BOOLEAN]
  /\ mainPc \in MainPc
  /\ checks \in Nat /\ armed \in BOOLEAN
  /\ ownerHolds \in BOOLEAN /\ cancelled \subseteq Ops
  /\ added \in Seq(Ops) /\ delivered \in Seq(Ops)

\* The worker never calls a method of the NULL operation: each token it takes
\* from mOperationSem stands for an operation or for the request to quit
\* (runOperations, the test of op and quitting after mailsem_down).
NoNullOperation == \A t \in Threads : pc[t] # "crash"

\* Two threads are never inside runOperations of one queue: mStarted, read and
\* written on the main thread, follows the life of the thread (startThread,
\* stoppedOnMainThread).
AtMostOneWorker == \A t, u \in Threads : Running(t) /\ Running(u) => t = u

\* As long as a thread runs, a main thread call is posted or the delayed call
\* is pending, the queue object has not been destroyed, although its owner may
\* release it at any time (the retains (1), (2) and (3)).
UseNeedsReference ==
  (checks > 0 \/ armed \/ \E t \in Threads : Running(t)) => refs > 0

\* The releases still to come, as the numbers in the comments of
\* MCOperationQueue.cc pair them with retains.
Retains ==
  Bit(ownerHolds) + checks + Bit(armed) + Bit(started)
    + Bit(\E t \in Threads : pc[t] = "stopping")

\* The run loop never blocks in addOperation or in stoppedOnMainThread for a
\* token the worker has yet to be allowed to produce: what the main thread
\* waits for while it is not serving the run loop, the worker raises on its own.
MainThreadReturns == mainPc # "idle" ~> mainPc = "idle"

\* The queue is idle or on its way to be: the worker is told to quit and the
\* thread ends, whatever races between the delayed checks and addOperation.
WorkerEnds == <>[](\A t \in Threads : ~Running(t))

\* The queue implements the serial executor: one operation at a time, in the
\* order of addOperation, called back at most once, and not after a cancel on
\* the main thread even when the worker has already seen it uncancelled.
Busy == {t \in Threads :
           pc[t] \in {"before", "main", "remove", "finished", "callback"}}

Waiting == IF \E t \in Threads : HasHead(t) THEN Tail(operations) ELSE operations

Current == IF Busy = {} THEN NoOp ELSE op[CHOOSE t \in Busy : TRUE]

Executor == INSTANCE SerialExecutor WITH waiting <- Waiting, current <- Current

ImplementsSerialExecutor == Executor!Spec

\* The queue implements the contract its owner relies on: the operations it
\* counts, and a thread whose start and end are reported on the main thread.
Finishing == LET done == {t \in Threads : pc[t] \in {"finished", "callback"}}
             IN  IF done = {} THEN NoOp ELSE op[CHOOSE t \in done : TRUE]

ThreadLife ==
  IF \E t \in Threads : pc[t] \in {"stop", "stopping"} THEN "stopping"
  ELSE IF \E t \in Threads : Running(t) THEN "running" ELSE "none"

Contract == INSTANCE QueueContract WITH
  list <- operations, finishing <- Finishing, thread <- ThreadLife

ImplementsQueueContract == Contract!Spec

\* An operation in the list of a worker that has not decided to stop is run:
\* it leaves the list, and unless it is cancelled its callback is called.
Committed(t) == pc[t] \in WorkerPc \ {"none", "stop", "stopping"}

CommittedOperationFinishes ==
  \A o \in Ops :
    (o \in Elements(operations) /\ \E t \in Threads : Committed(t))
      ~> /\ o \notin Elements(operations)
         /\ o \in Elements(delivered) \/ o \in cancelled

\* "completionBlock: Called when the operation is finished": an operation that
\* was added and not cancelled is called back, unless the queue is released.
EveryOperationFinishes ==
  \A o \in Ops :
    o \in Elements(added)
      ~> (o \in Elements(delivered) \/ o \in cancelled \/ ~ownerHolds)

-----------------------------------------------------------------------------
(* The inductive invariant.                                                *)

\* The request to quit is in the semaphore or in the worker's hands.
QuitRequested ==
  quitting /\ \E t \in Threads : Committed(t)

\* mOperationSem counts the operations in the list that the worker has not
\* begun, the one addOperation has not signalled yet excepted, and the request
\* to quit.  A worker at "read" holds the token it has not matched yet.
TokensMatch ==
  operationSem + Bit(\E t \in Threads : pc[t] = "read" \/ HasHead(t))
      + Bit(mainPc = "append")
    = Len(operations) + Bit(QuitRequested)

\* Nothing is released that was not retained; a retain may be left over.
RetainedEnough == refs >= Retains

\* What a thread runs is the head of the list until it removes it.
HeadIsRunning ==
  \A t \in Threads :
    /\ HasHead(t) => operations # <<>> /\ op[t] = Head(operations)
    /\ pc[t] \in {"finished", "callback"} => op[t] # NoOp

\* mStarted follows the thread, a worker that stops was told to, and a delayed
\* check outlives the worker it was meant for only while mQuitting is set.
StartedMeansRunning ==
  /\ started <=> \E t \in Threads : Running(t)
  /\ \A t \in Threads : pc[t] \in {"stop", "stopping"} => quitting
  /\ armed \/ checks > 0 => started \/ quitting

IInv ==
  /\ TypeOK
  /\ NoNullOperation
  /\ AtMostOneWorker
  /\ RetainedEnough
  /\ HeadIsRunning
  /\ StartedMeansRunning
  /\ TokensMatch
=============================================================================
