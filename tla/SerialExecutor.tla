--------------------------- MODULE SerialExecutor ---------------------------
(***************************************************************************)
(* What a client of mailcore::OperationQueue may rely on: operations run   *)
(* one at a time in the order they were added, each is called back at most *)
(* once and in that order, and never after it was cancelled.               *)
(***************************************************************************)
EXTENDS Sequences, Naturals

CONSTANTS Ops, NoOp

VARIABLES
  waiting,    \* operations added and not begun
  current,    \* the operation that runs, or NoOp
  cancelled,
  added,      \* operations ever added, in order
  delivered   \* operations called back, in order

vars == <<waiting, current, cancelled, added, delivered>>

Init ==
  /\ waiting = <<>> /\ current = NoOp
  /\ cancelled = {} /\ added = <<>> /\ delivered = <<>>

Add(o) ==
  /\ \A i \in 1..Len(added) : added[i] # o
  /\ added' = Append(added, o)
  /\ waiting' = Append(waiting, o)
  /\ UNCHANGED <<current, cancelled, delivered>>

Cancel(o) ==
  /\ cancelled' = cancelled \cup {o}
  /\ UNCHANGED <<waiting, current, added, delivered>>

Begin ==
  /\ current = NoOp /\ waiting # <<>>
  /\ current' = Head(waiting)
  /\ waiting' = Tail(waiting)
  /\ UNCHANGED <<cancelled, added, delivered>>

Deliver ==
  /\ current \in Ops \ cancelled
  /\ delivered' = Append(delivered, current)
  /\ current' = NoOp
  /\ UNCHANGED <<waiting, cancelled, added>>

Drop ==
  /\ current \in cancelled
  /\ current' = NoOp
  /\ UNCHANGED <<waiting, cancelled, added, delivered>>

Next ==
  \/ \E o \in Ops : Add(o) \/ Cancel(o)
  \/ Begin \/ Deliver \/ Drop

Spec == Init /\ [][Next]_vars
=============================================================================
