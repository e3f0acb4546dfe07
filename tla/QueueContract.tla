---------------------------- MODULE QueueContract ----------------------------
(***************************************************************************)
(* What the object that owns an OperationQueue sees of it: the operations  *)
(* that mOperations counts, the one that left the list and has yet to be   *)
(* called back, and the life of the thread between the calls of            *)
(* queueStartRunning and queueStoppedRunning.  OperationQueue implements   *)
(* it; IMAPAsyncSession is built on it.                                    *)
(***************************************************************************)
EXTENDS Sequences

CONSTANTS Ops, NoOp

VARIABLES
  list,       \* mOperations
  finishing,  \* the operation between its removal and its callback, or NoOp
  thread      \* "none", "running" or "stopping"

vars == <<list, finishing, thread>>

Init == list = <<>> /\ finishing = NoOp /\ thread = "none"

\* addOperation.  The thread may be created in the same step of the main thread.
Add(o) ==
  /\ list' = Append(list, o)
  /\ thread' \in IF thread = "none" THEN {"none", "running"} ELSE {thread}
  /\ UNCHANGED finishing

Start ==
  /\ thread = "none" /\ list # <<>>
  /\ thread' = "running"
  /\ UNCHANGED <<list, finishing>>

Run ==
  /\ thread = "running" /\ finishing = NoOp /\ list # <<>>
  /\ finishing' = Head(list)
  /\ list' = Tail(list)
  /\ UNCHANGED thread

CallBack ==
  /\ thread = "running" /\ finishing # NoOp
  /\ finishing' = NoOp
  /\ UNCHANGED <<list, thread>>

\* The worker decides to stop on an empty list; what is added from here to
\* Stopped waits for the next thread.
Decide ==
  /\ thread = "running" /\ finishing = NoOp /\ list = <<>>
  /\ thread' = "stopping"
  /\ UNCHANGED <<list, finishing>>

Stopped ==
  /\ thread = "stopping"
  /\ thread' = "none"
  /\ UNCHANGED <<list, finishing>>

Next ==
  \/ \E o \in Ops : Add(o)
  \/ Start \/ Run \/ CallBack \/ Decide \/ Stopped

Spec == Init /\ [][Next]_vars
=============================================================================
