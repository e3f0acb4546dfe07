------------------------------ MODULE IMAPIdle ------------------------------
(***************************************************************************)
(* IMAP IDLE on one connection: mailcore::IMAPIdleOperation on the worker  *)
(* of the connection's queue, the part of mailcore::IMAPSession it uses,   *)
(* and the main thread, which sets the stream up for IDLE, takes it down   *)
(* and interrupts the wait.  The two threads share mCanIdle, the object    *)
(* and its stream; mIdleLock guards them, and what is done under it is one *)
(* step.  performMethodOnMainThread waits, so the main thread's steps of   *)
(* an operation are steps of `at' like the worker's.                       *)
(*                                                                         *)
(* The stream's IDLE pipe belongs to libetpan: armed when the stream is    *)
(* set up, notified by an interruption, which the wait then finds whenever *)
(* it came.                                                                *)
(*                                                                         *)
(* Left out: the order of the queue, the selected folder, and the commands *)
(* that the operation sends before IDLE, of which only failure is told.    *)
(***************************************************************************)
EXTENDS Naturals

CONSTANTS Ops, None

VARIABLES
  state,     \* the operations
  at,        \* where main() of the operation that runs is
  current,   \* that operation
  setup,     \* mSetupSuccess of each: never reset
  imap,      \* mImap: NULL, without a stream, with one
  canIdle,   \* mCanIdle
  drop,      \* mShouldDisconnect
  pipe,      \* the stream's IDLE pipe
  asked,     \* operations interrupted after they were set up
  how        \* how the last wait of each ended

vars == <<state, at, current, setup, imap, canIdle, drop, pipe, asked, how>>

Ends == {"none", "interrupted", "data", "timeout", "error"}

Init ==
  /\ state = [o \in Ops |-> "created"]
  /\ at = "rest" /\ current = None
  /\ setup = [o \in Ops |-> FALSE]
  /\ imap = "none" /\ canIdle = TRUE /\ drop = FALSE
  /\ pipe = "none"
  /\ asked = {} /\ how = [o \in Ops |-> "none"]

-----------------------------------------------------------------------------
(* The session.                                                            *)

KeepCanIdle ==                                                 \* mutant
  imap' = "none" /\ pipe' = "none" /\ UNCHANGED canIdle

\* unsetup(): the object and the flag go together, under the lock.
Unsetup == imap' = "none" /\ pipe' = "none" /\ canIdle' = FALSE

\* Another operation of the connection, when nothing else runs: disconnect.
AutomaticDisconnect ==
  /\ at = "rest" /\ imap # "none"
  /\ Unsetup
  /\ UNCHANGED <<state, at, current, setup, drop, asked, how>>

\* connectIfNeeded(): a connection that failed is closed first.
Reconnect ==
  /\ at = "select" /\ drop
  /\ Unsetup /\ drop' = FALSE
  /\ UNCHANGED <<state, at, current, setup, asked, how>>

\* setup() makes an object that has no stream.
Setup ==
  /\ at = "select" /\ ~drop /\ imap = "none"
  /\ imap' = "connecting" /\ at' = "connect"
  /\ UNCHANGED <<state, current, setup, canIdle, drop, pipe, asked, how>>

ConnectFails ==
  /\ at \in {"connect", "capability"}
  /\ Unsetup /\ at' = "complete"
  /\ UNCHANGED <<state, current, setup, drop, asked, how>>

Connect ==
  /\ at = "connect"
  /\ imap' = "open" /\ at' = "capability"
  /\ UNCHANGED <<state, current, setup, canIdle, drop, pipe, asked, how>>

\* A server that knows IDLE sets the flag; none ever clears it.
Capability ==
  /\ at = "capability"
  /\ at' = "select" /\ (canIdle' = TRUE \/ UNCHANGED canIdle)
  /\ UNCHANGED <<state, current, setup, imap, drop, pipe, asked, how>>

\* selectIfNeeded(): a failed login or select may have lost the connection.
Select ==
  /\ at = "select" /\ ~drop /\ imap = "open"
  /\ \/ at' = "prepare" /\ UNCHANGED drop
     \/ at' = "complete" /\ drop' \in BOOLEAN
  /\ UNCHANGED <<state, current, setup, imap, canIdle, pipe, asked, how>>

RearmedEnter ==                                                \* mutant
  /\ at = "enter"
  /\ at' = "wait" /\ pipe' = "armed"
  /\ UNCHANGED <<state, current, setup, imap, canIdle, drop, asked, how>>

\* idle(), as far as the wait: an error, a message newer than lastKnownUID, or
\* news that came with the reply to IDLE leave it out.
Enter ==
  /\ at = "enter"
  /\ \/ at' \in {"wait", "leave", "unprepare"} /\ UNCHANGED drop
     \/ at' = "unprepare" /\ drop' = TRUE
  /\ UNCHANGED <<state, current, setup, imap, canIdle, pipe, asked, how>>

WaitInterrupted ==
  /\ at = "wait" /\ pipe = "notified"
  /\ at' = "leave" /\ how' = [how EXCEPT ![current] = "interrupted"]
  /\ UNCHANGED <<state, current, setup, imap, canIdle, drop, pipe, asked>>

WaitEnds(r) ==
  /\ at = "wait"
  /\ how' = [how EXCEPT ![current] = r]
  /\ at' = IF r = "error" THEN "unprepare" ELSE "leave"
  /\ drop' = (r = "error")
  /\ UNCHANGED <<state, current, setup, imap, canIdle, pipe, asked>>

\* mailimap_idle_done(), and its errors.
Leave ==
  /\ at = "leave"
  /\ at' = "unprepare" /\ drop' \in BOOLEAN
  /\ UNCHANGED <<state, current, setup, imap, canIdle, pipe, asked, how>>

-----------------------------------------------------------------------------
(* The operation.                                                          *)

Start(o) ==
  /\ state[o] = "created"
  /\ state' = [state EXCEPT ![o] = "queued"]
  /\ UNCHANGED <<at, current, setup, imap, canIdle, drop, pipe, asked, how>>

\* The queue begins an operation when the callback of the last has returned.
Begin(o) ==
  /\ at = "rest" /\ state[o] = "queued"
  /\ state' = [state EXCEPT ![o] = "running"]
  /\ at' = "select" /\ current' = o
  /\ UNCHANGED <<setup, imap, canIdle, drop, pipe, asked, how>>

\* Main thread: prepare(), setupIdle().
Prepare ==
  /\ at = "prepare"
  /\ setup' = [setup EXCEPT ![current] = canIdle]
  /\ pipe' = IF canIdle THEN "armed" ELSE pipe
  /\ at' = IF canIdle THEN "enter" ELSE "complete"
  /\ UNCHANGED <<state, current, imap, canIdle, drop, asked, how>>

KeepPipe ==                                                    \* mutant
  /\ at = "unprepare" /\ at' = "complete"
  /\ UNCHANGED <<state, current, setup, imap, canIdle, drop, pipe, asked, how>>

\* Main thread: unprepare(), unsetupIdle().
Unprepare ==
  /\ at = "unprepare" /\ at' = "complete"
  /\ pipe' = IF setup[current] /\ canIdle THEN "none" ELSE pipe
  /\ UNCHANGED <<state, current, setup, imap, canIdle, drop, asked, how>>

\* The client is told, and drops the operation.
Complete ==
  /\ at = "complete"
  /\ state' = [state EXCEPT ![current] = "done"]
  /\ at' = "rest" /\ current' = None
  /\ UNCHANGED <<setup, imap, canIdle, drop, pipe, asked, how>>

InterruptAny(o) ==                                             \* mutant
  /\ state[o] \in {"queued", "running"}
  /\ pipe' = IF canIdle /\ pipe = "armed" THEN "notified" ELSE pipe
  /\ asked' = asked \cup {o}
  /\ UNCHANGED <<state, at, current, setup, imap, canIdle, drop, how>>

\* Main thread: interruptIdle(), of an operation the client still holds.
\* Before prepare() it does nothing at all.
Interrupt(o) ==
  /\ state[o] \in {"queued", "running"} /\ setup[o]
  /\ pipe' = IF canIdle /\ pipe = "armed" THEN "notified" ELSE pipe
  /\ asked' = asked \cup {o}
  /\ UNCHANGED <<state, at, current, setup, imap, canIdle, drop, how>>

-----------------------------------------------------------------------------
\* What the two threads do without waiting for the server's news.
Thread ==
  \/ \E o \in Ops : Begin(o)
  \/ Reconnect \/ Setup \/ ConnectFails \/ Connect \/ Capability \/ Select
  \/ Prepare \/ Enter \/ WaitInterrupted \/ Leave \/ Unprepare \/ Complete

Finished == (\A o \in Ops : state[o] = "done") /\ UNCHANGED vars

Next ==
  \/ Thread \/ Finished
  \/ \E r \in {"data", "timeout", "error"} : WaitEnds(r)
  \/ \E o \in Ops : Start(o) \/ Interrupt(o)
  \/ AutomaticDisconnect

Spec == Init /\ [][Next]_vars

-----------------------------------------------------------------------------
(* Properties.                                                             *)

\* A pipe is there from setupIdle() to unsetupIdle(), and no longer.
TypeOK ==
  /\ state \in [Ops -> {"created", "queued", "running", "done"}]
  /\ at \in {"rest", "select", "connect", "capability", "prepare", "enter",
             "wait", "leave", "unprepare", "complete"}
  /\ current \in Ops \cup {None}
  /\ setup \in [Ops -> BOOLEAN]
  /\ imap \in {"none", "connecting", "open"}
  /\ canIdle \in BOOLEAN /\ drop \in BOOLEAN
  /\ pipe \in {"none", "armed", "notified"}
  /\ asked \subseteq Ops /\ how \in [Ops -> Ends]
  /\ pipe # "none" <=> at \in {"enter", "wait", "leave", "unprepare"}

\* Where the main thread may use the stream, there is one: setupIdle(),
\* unsetupIdle() and interruptIdle() only look at mCanIdle, which begins TRUE
\* with no object, while the worker closes and opens connections.
IdleStreamExists ==
  /\ at = "prepare" /\ canIdle => imap = "open"
  /\ canIdle /\ (\E o \in Ops : setup[o]) => imap = "open"

\* A wait that is interrupted was interrupted by the client of its operation,
\* although all the operations of a connection share its stream.
InterruptIsOwn == \A o \in Ops : how[o] = "interrupted" => o \in asked

\* interruptIdle() of an operation that was set up ends it, whether the wait
\* has begun or not and whatever the server does.
InterruptEndsIdle == \A o \in Ops : o \in asked ~> state[o] = "done"
=============================================================================
