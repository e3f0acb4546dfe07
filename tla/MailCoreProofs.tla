--------------------------- MODULE MailCoreProofs ---------------------------
(***************************************************************************)
(* Proofs about MCMailCore: IDLE, for any number of operations, the set of *)
(* indexes, and then the parts together.  Each part has an invariant of    *)
(* its own, which its steps keep and the others leave alone.               *)
(***************************************************************************)
EXTENDS MailSessionProofs

-----------------------------------------------------------------------------
(* IDLE.                                                                   *)

Armed == {"enter", "wait", "leave", "unprepare"}

\* One operation runs, and it alone is set up among those not completed.
OneRuns ==
  /\ at # "rest" => current \in Ops /\ state[current] = "running"
  /\ at = "rest" => current = None
  /\ \A o \in Ops :
       /\ state[o] = "running" => at # "rest" /\ o = current
       /\ setup[o] => state[o] \in {"running", "done"}
       /\ setup[o] /\ state[o] = "running" => at \in Armed \cup {"complete"}

\* What the steps of the worker know of the connection.
HasStream ==
  /\ at = "connect" => imap = "connecting"
  /\ at \in {"capability", "prepare"} => imap = "open"
  /\ at \in Armed => imap = "open" /\ canIdle /\ setup[current]

\* A notified pipe was notified for the operation that runs.
NotifiedIsOwn == pipe = "notified" => at \in Armed /\ current \in asked

IdleIInv == Idle!TypeOK /\ OneRuns /\ HasStream /\ Idle!IdleStreamExists /\ NotifiedIsOwn
          /\ Idle!InterruptIsOwn

LEMMA IdleInitIInv == Idle!Init => IdleIInv
  BY DEF Idle!Init, IdleIInv, Idle!TypeOK, OneRuns, HasStream, Idle!IdleStreamExists, NotifiedIsOwn,
         Idle!InterruptIsOwn, Idle!Ends, Armed

-----------------------------------------------------------------------------
(* The steps that open and close the connection.                           *)

LEMMA IdleConnectionStep ==
  ASSUME IdleIInv,
         \/ Idle!AutomaticDisconnect \/ Idle!Reconnect \/ Idle!Setup \/ Idle!ConnectFails
         \/ Idle!Connect \/ Idle!Capability \/ Idle!Select
  PROVE  IdleIInv'
<1> USE DEF IdleIInv, Armed
<1>1. CASE Idle!AutomaticDisconnect
  BY <1>1 DEF Idle!AutomaticDisconnect, Idle!Unsetup, Idle!TypeOK, OneRuns, HasStream,
         Idle!IdleStreamExists, NotifiedIsOwn, Idle!InterruptIsOwn
<1>2. CASE Idle!Reconnect
  BY <1>2 DEF Idle!Reconnect, Idle!Unsetup, Idle!TypeOK, OneRuns, HasStream,
         Idle!IdleStreamExists, NotifiedIsOwn, Idle!InterruptIsOwn
<1>3. CASE Idle!Setup
  BY <1>3 DEF Idle!Setup, Idle!TypeOK, OneRuns, HasStream,
         Idle!IdleStreamExists, NotifiedIsOwn, Idle!InterruptIsOwn
<1>4. CASE Idle!ConnectFails
  BY <1>4 DEF Idle!ConnectFails, Idle!Unsetup, Idle!TypeOK, OneRuns, HasStream,
         Idle!IdleStreamExists, NotifiedIsOwn, Idle!InterruptIsOwn
<1>5. CASE Idle!Connect
  BY <1>5 DEF Idle!Connect, Idle!TypeOK, OneRuns, HasStream,
         Idle!IdleStreamExists, NotifiedIsOwn, Idle!InterruptIsOwn
<1>6. CASE Idle!Capability
  BY <1>6 DEF Idle!Capability, Idle!TypeOK, OneRuns, HasStream,
         Idle!IdleStreamExists, NotifiedIsOwn, Idle!InterruptIsOwn
<1>7. CASE Idle!Select
  BY <1>7 DEF Idle!Select, Idle!TypeOK, OneRuns, HasStream,
         Idle!IdleStreamExists, NotifiedIsOwn, Idle!InterruptIsOwn
<1>8. QED
  BY <1>1, <1>2, <1>3, <1>4, <1>5, <1>6, <1>7

-----------------------------------------------------------------------------
(* The steps of an operation that has the stream.                          *)

LEMMA IdleWaitStep ==
  ASSUME IdleIInv,
         \/ Idle!Enter \/ Idle!WaitInterrupted \/ Idle!Leave
         \/ \E r \in {"data", "timeout", "error"} : Idle!WaitEnds(r)
  PROVE  IdleIInv'
<1> USE DEF IdleIInv, Armed
<1>1. CASE Idle!Enter
  BY <1>1 DEF Idle!Enter, Idle!TypeOK, OneRuns, HasStream, Idle!IdleStreamExists,
         NotifiedIsOwn, Idle!InterruptIsOwn, Idle!Ends
<1>2. CASE Idle!WaitInterrupted
  BY <1>2 DEF Idle!WaitInterrupted, Idle!TypeOK, OneRuns, HasStream, Idle!IdleStreamExists,
         NotifiedIsOwn, Idle!InterruptIsOwn, Idle!Ends
<1>3. CASE Idle!Leave
  BY <1>3 DEF Idle!Leave, Idle!TypeOK, OneRuns, HasStream, Idle!IdleStreamExists,
         NotifiedIsOwn, Idle!InterruptIsOwn, Idle!Ends
<1>4. ASSUME NEW r \in {"data", "timeout", "error"}, Idle!WaitEnds(r)
      PROVE  IdleIInv'
  BY <1>4 DEF Idle!WaitEnds, Idle!TypeOK, OneRuns, HasStream, Idle!IdleStreamExists,
         NotifiedIsOwn, Idle!InterruptIsOwn, Idle!Ends
<1>5. QED
  BY <1>1, <1>2, <1>3, <1>4

-----------------------------------------------------------------------------
(* The operations, and the main thread.                                    *)

LEMMA IdleOperationStep ==
  ASSUME IdleIInv, NEW o \in Ops, Idle!Start(o) \/ Idle!Begin(o) \/ Idle!Interrupt(o)
  PROVE  IdleIInv'
<1> USE DEF IdleIInv, Armed
<1>1. CASE Idle!Start(o)
  BY <1>1 DEF Idle!Start, Idle!TypeOK, OneRuns, HasStream, Idle!IdleStreamExists,
         NotifiedIsOwn, Idle!InterruptIsOwn
<1>2. CASE Idle!Begin(o)
  BY <1>2 DEF Idle!Begin, Idle!TypeOK, OneRuns, HasStream, Idle!IdleStreamExists,
         NotifiedIsOwn, Idle!InterruptIsOwn
<1>3. CASE Idle!Interrupt(o)
  BY <1>3 DEF Idle!Interrupt, Idle!TypeOK, OneRuns, HasStream, Idle!IdleStreamExists,
         NotifiedIsOwn, Idle!InterruptIsOwn
<1>4. QED
  BY <1>1, <1>2, <1>3

LEMMA IdleMainThreadStep ==
  ASSUME IdleIInv, Idle!Prepare \/ Idle!Unprepare \/ Idle!Complete
  PROVE  IdleIInv'
<1> USE DEF IdleIInv, Armed
<1>1. CASE Idle!Prepare
  BY <1>1 DEF Idle!Prepare, Idle!TypeOK, OneRuns, HasStream, Idle!IdleStreamExists,
         NotifiedIsOwn, Idle!InterruptIsOwn
<1>2. CASE Idle!Unprepare
  BY <1>2 DEF Idle!Unprepare, Idle!TypeOK, OneRuns, HasStream, Idle!IdleStreamExists,
         NotifiedIsOwn, Idle!InterruptIsOwn
<1>3. CASE Idle!Complete
  BY <1>3 DEF Idle!Complete, Idle!TypeOK, OneRuns, HasStream, Idle!IdleStreamExists,
         NotifiedIsOwn, Idle!InterruptIsOwn
<1>4. QED
  BY <1>1, <1>2, <1>3

-----------------------------------------------------------------------------
LEMMA IdleNextIInv == IdleIInv /\ [Idle!Next]_(Idle!vars) => IdleIInv'
<1> SUFFICES ASSUME IdleIInv, [Idle!Next]_(Idle!vars) PROVE IdleIInv'
  OBVIOUS
<1>1. CASE Idle!Thread
  BY <1>1, IdleConnectionStep, IdleWaitStep, IdleOperationStep, IdleMainThreadStep DEF Idle!Thread
<1>2. CASE \E r \in {"data", "timeout", "error"} : Idle!WaitEnds(r)
  BY <1>2, IdleWaitStep
<1>3. CASE (\E o \in Ops : Idle!Start(o) \/ Idle!Interrupt(o)) \/ Idle!AutomaticDisconnect
  BY <1>3, IdleOperationStep, IdleConnectionStep
<1>4. CASE UNCHANGED Idle!vars
  BY <1>4 DEF Idle!vars, IdleIInv, Armed, Idle!TypeOK, OneRuns, HasStream, Idle!IdleStreamExists,
         NotifiedIsOwn, Idle!InterruptIsOwn
<1>5. QED
  BY <1>1, <1>2, <1>3, <1>4 DEF Idle!Next, Idle!Finished

-----------------------------------------------------------------------------
(* The set of indexes.                                                     *)

\* Whatever is asked of it, the array holds ranges; kept with care, in order and
\* apart, and with the members in them.
SetIInv ==
  /\ ranges \in Seq(ProperRanges)
  /\ members \subseteq Indexes
  /\ Careful => Apart(ranges) /\ Covered(ranges) = members

\* The ranges a caller makes.
LEMMA ArgumentsAreProper ==
  /\ \A r \in Arguments : /\ r \in ProperRanges
                           /\ RangeRightBound(r) # UINT64_MAX - 1
  /\ \A i \in Named : RangeMake(i, 0) \in Arguments
<1>1. UINT64_MAX \in Nat /\ UINT64_MAX > 1
  BY WidthAssumption
<1>2. ASSUME NEW r \in Arguments
      PROVE  r \in ProperRanges /\ RangeRightBound(r) # UINT64_MAX - 1
  <2>1. r \in ProperRanges
    BY <1>1 DEF Arguments, Named, ProperRanges, Indexes
  <2>2. /\ r.length = UINT64_MAX => RangeRightBound(r) = UINT64_MAX
        /\ r.length # UINT64_MAX => RangeRightBound(r) = r.location + r.length
    BY <1>1, <2>1, ProperRangesAreProper, RightBound
  <2>3. QED
    BY <1>1, <2>1, <2>2 DEF Arguments, Named
<1>3. ASSUME NEW i \in Named PROVE RangeMake(i, 0) \in Arguments
  BY <1>1 DEF RangeMake, Arguments, Named
<1>4. QED
  BY <1>2, <1>3

LEMMA SetInitIInv == Init => SetIInv
<1> SUFFICES ASSUME Init PROVE SetIInv
  OBVIOUS
<1>1. ranges = <<>> /\ members = {} /\ DOMAIN <<>> = {}
  BY DEF Init
<1>2. Apart(<<>>) /\ Covered(<<>>) = {}
  BY <1>1 DEF Apart, Covered
<1>3. QED
  BY <1>1, <1>2 DEF SetIInv

LEMMA SetRangeStep ==
  ASSUME SetIInv, NEW r \in Arguments, AddRange(r) \/ RemoveRange(r) \/ IntersectsRange(r)
  PROVE  SetIInv'
<1>1. UINT64_MAX \in Nat /\ UINT64_MAX > 1
  BY WidthAssumption
<1>2. r \in ProperRanges /\ RangeRightBound(r) # UINT64_MAX - 1
  BY ArgumentsAreProper
<1>3. /\ ranges \in Seq(ProperRanges) /\ members \subseteq Indexes
      /\ Careful => Apart(ranges) /\ Covered(ranges) = members
      /\ Span(r) \subseteq Indexes
  BY DEF SetIInv, Span
<1>4. Allowed(r) /\ Careful => BeginsClear(ranges, r)
  BY DEF Allowed, BeginsInside, BeginsClear
<1>5. CASE AddRange(r)
  <2>1. Allowed(r) /\ ranges' = Added(ranges, r) /\ members' = members \cup Span(r)
    BY <1>5 DEF AddRange
  <2>2. /\ Added(ranges, r) \in Seq(ProperRanges)
        /\ Apart(ranges) /\ BeginsClear(ranges, r) =>
             /\ Apart(Added(ranges, r))
             /\ Covered(Added(ranges, r)) = Covered(ranges) \cup Span(r)
    BY <1>1, <1>2, <1>3, AddedIs
  <2>3. QED
    BY <1>3, <1>4, <2>1, <2>2 DEF SetIInv
<1>6. CASE RemoveRange(r)
  <2>1. Allowed(r) /\ ranges' = Removed(ranges, r) /\ members' = members \ Span(r)
    BY <1>6 DEF RemoveRange
  <2>2. /\ Removed(ranges, r) \in Seq(ProperRanges)
        /\ Apart(ranges) /\ BeginsClear(ranges, r) =>
             /\ Apart(Removed(ranges, r))
             /\ Covered(Removed(ranges, r)) = Covered(ranges) \ Span(r)
    BY <1>1, <1>2, <1>3, RemovedIs
  <2>3. QED
    BY <1>3, <1>4, <2>1, <2>2 DEF SetIInv
<1>7. CASE IntersectsRange(r)
  <2>1. /\ Careful => r.length = UINT64_MAX /\ r.location > 0
        /\ ranges' = Intersected(ranges, r) /\ members' = members \cap Span(r)
    BY <1>7 DEF IntersectsRange
  <2>2. /\ Intersected(ranges, r) \in Seq(ProperRanges)
        /\ Apart(ranges) /\ r.length = UINT64_MAX /\ r.location > 0 =>
             /\ Apart(Intersected(ranges, r))
             /\ Covered(Intersected(ranges, r)) = Covered(ranges) \cap Span(r)
    BY <1>1, <1>2, <1>3, IntersectedIs
  <2>3. QED
    BY <1>3, <2>1, <2>2 DEF SetIInv
<1>8. QED
  BY <1>5, <1>6, <1>7

LEMMA SetNextIInv == SetIInv /\ [Next]_vars => SetIInv'
<1> SUFFICES ASSUME SetIInv, [Next]_vars PROVE SetIInv'
  OBVIOUS
<1>1. CASE \E r \in Arguments : AddRange(r) \/ RemoveRange(r) \/ IntersectsRange(r)
  BY <1>1, SetRangeStep
<1>2. CASE \E i \in Named : AddIndex(i) \/ RemoveIndex(i)
  BY <1>2, ArgumentsAreProper, SetRangeStep DEF AddIndex, RemoveIndex
<1>3. CASE RemoveAllIndexes
  <2>1. Init'
    BY <1>3 DEF RemoveAllIndexes, Init
  <2>2. ranges' = <<>> /\ members' = {} /\ DOMAIN <<>> = {}
    BY <1>3 DEF RemoveAllIndexes
  <2>3. Apart(<<>>) /\ Covered(<<>>) = {}
    BY <2>2 DEF Apart, Covered
  <2>4. QED
    BY <2>2, <2>3 DEF SetIInv
<1>4. CASE UNCHANGED vars
  BY <1>4 DEF vars, SetIInv
<1>5. QED
  BY <1>1, <1>2, <1>3, <1>4 DEF Next

\* Of an array kept with care every question has the answer of the set.
LEMMA SetRepresents == SetIInv => TypeOK /\ (Careful => Represents)
<1> SUFFICES ASSUME SetIInv PROVE TypeOK /\ (Careful => Represents)
  OBVIOUS
<1>1. UINT64_MAX \in Nat
  BY WidthAssumption
<1>2. /\ ranges \in Seq(ProperRanges) /\ members \subseteq Indexes
      /\ Careful => Apart(ranges) /\ Covered(ranges) = members
  BY DEF SetIInv
<1>3. TypeOK
  <2> DEFINE T == [location : Indexes, length : 0..UINT64_MAX]
  <2>1. \A r \in ProperRanges : r \in T
    BY DEF ProperRanges
  <2> HIDE DEF T
  <2>2. ranges \in Seq(T)
    BY <1>2, <2>1
  <2>3. QED
    BY <1>2, <2>2 DEF TypeOK, T
<1>4. ASSUME Careful PROVE Represents
  <2>1. Apart(ranges) /\ Covered(ranges) = members
    BY <1>2, <1>4
  <2>2. \A i \in Indexes : ContainsIndex(ranges, i) <=> i \in members
    BY <1>1, <1>2, <2>1, ContainsIs
  <2>3. Bounded(ranges) => Count(ranges) = Cardinality(members)
    BY <1>1, <1>2, <2>1, CountIs
  <2>4. QED
    BY <2>1, <2>2, <2>3 DEF Represents, Apart, Covered, Bounded
<1>5. QED
  BY <1>3, <1>4

-----------------------------------------------------------------------------
(* The parts together.                                                     *)

MailIInv == PopIInv /\ SmtpIInv /\ IdleIInv /\ SetIInv

LEMMA MailInitIInv == MailInit => MailIInv
  BY MailAssumption, PopInitIInv, SmtpInitIInv, IdleInitIInv, SetInitIInv
     DEF MailInit, MailIInv

LEMMA MailNextIInv == MailIInv /\ [MailNext]_all => MailIInv'
<1> SUFFICES ASSUME MailIInv, [MailNext]_all PROVE MailIInv'
  OBVIOUS
<1>1. PopIInv /\ SmtpIInv /\ IdleIInv /\ SetIInv
  BY DEF MailIInv
<1>2. ASSUME UNCHANGED popVars PROVE PopIInv'
  BY <1>1, <1>2, MailAssumption, PopOtherStep
<1>3. ASSUME UNCHANGED smtpVars PROVE SmtpIInv'
  BY <1>1, <1>3, SmtpOtherStep
<1>4. ASSUME UNCHANGED idleVars PROVE IdleIInv'
  BY <1>1, <1>4, IdleNextIInv DEF idleVars, Idle!vars
<1>5. ASSUME UNCHANGED setVars PROVE SetIInv'
  BY <1>1, <1>5, SetNextIInv DEF setVars
<1>6. CASE PopAlone /\ Pop!Next
  <2>1. PopIInv'
    BY <1>1, <1>6, MailAssumption, PopRunStep, PopOtherStep DEF Pop!Next
  <2>2. QED
    BY <1>3, <1>4, <1>5, <1>6, <2>1 DEF PopAlone, MailIInv
<1>7. CASE SmtpAlone /\ Smtp!Next
  <2>1. SmtpIInv'
    BY <1>1, <1>7, SmtpRunStep, SmtpOtherStep DEF Smtp!Next
  <2>2. QED
    BY <1>2, <1>4, <1>5, <1>7, <2>1 DEF SmtpAlone, MailIInv
<1>8. CASE IdleAlone /\ Idle!Next
  <2>1. IdleIInv'
    BY <1>1, <1>8, IdleNextIInv
  <2>2. QED
    BY <1>2, <1>3, <1>5, <1>8, <2>1 DEF IdleAlone, MailIInv
<1>9. CASE SetAlone /\ Next
  <2>1. SetIInv'
    BY <1>1, <1>9, SetNextIInv
  <2>2. QED
    BY <1>2, <1>3, <1>4, <1>9, <2>1 DEF SetAlone, MailIInv
<1>10. CASE UNCHANGED all
  BY <1>2, <1>3, <1>4, <1>5, <1>10 DEF all, MailIInv
<1>11. QED
  BY <1>6, <1>7, <1>8, <1>9, <1>10 DEF MailNext

LEMMA MailInvariance == MailSpec => []MailIInv
  BY MailInitIInv, MailNextIInv, PTL DEF MailSpec

\* Whatever the parts do, each variable keeps to its values; the array, even of a
\* careless caller, never holds a range without an index in it.
THEOREM MailTypeCorrect == MailSpec => []MailTypeOK
<1>1. MailIInv => MailTypeOK
  BY SetRepresents DEF MailIInv, PopIInv, SmtpIInv, IdleIInv, MailTypeOK
<1>2. QED
  BY <1>1, MailInvariance, PTL

\* However many connections are lost, and whatever the server refuses, an index
\* of the client's list names the message it named, or nothing
\* (connectIfNeeded, listIfNeeded).
THEOREM IndexesStayValid == MailSpec => []IndexIsReference
<1>1. MailIInv => IndexIsReference
  BY DEF MailIInv, PopIInv, IndexIsReference
<1>2. QED
  BY <1>1, MailInvariance, PTL

\* Whatever the size of the maildrop, however its messages are numbered, and
\* wherever a deletion stops half way (POPDeleteMessagesOperation::main,
\* disconnect).
THEOREM RemovedWasAsked == MailSpec => []OnlyAskedIsRemoved
<1>1. MailIInv => OnlyAskedIsRemoved
  BY DEF MailIInv, PopIInv, Within, OnlyAskedIsRemoved, Pop!OnlyAskedIsRemoved
<1>2. QED
  BY <1>1, MailInvariance, PTL

\* No message is taken twice, and none that is refused is taken
\* (SMTPSession::sendMessage).
THEOREM ReportIsTrue == MailSpec => []SentAsReported
<1>1. MailIInv => SentAsReported
  BY DEF MailIInv, SmtpIInv, SentAsReported
<1>2. QED
  BY <1>1, MailInvariance, PTL

\* However many operations there are, the main thread never uses a stream that
\* is not there (setupIdle, interruptIdle, unsetupIdle).
THEOREM IdleStreamSafe == MailSpec => []IdleStreamExists
<1>1. MailIInv => IdleStreamExists
  BY DEF MailIInv, IdleIInv, IdleStreamExists
<1>2. QED
  BY <1>1, MailInvariance, PTL

\* However many operations share the stream, none ends the wait of another
\* (interruptIdle).
THEOREM InterruptionIsOwn == MailSpec => []InterruptIsOwn
<1>1. MailIInv => InterruptIsOwn
  BY DEF MailIInv, IdleIInv, InterruptIsOwn
<1>2. QED
  BY <1>1, MailInvariance, PTL

\* Whatever the width of the integers, and however long a careful caller goes on
\* adding, removing and cutting off (addRange, removeRange, intersectsRange).
THEOREM ArrayIsSet == MailSpec => [](Careful => Represents)
<1>1. MailIInv => (Careful => Represents)
  BY SetRepresents DEF MailIInv
<1>2. QED
  BY <1>1, MailInvariance, PTL

\* A careful caller finds nothing left of what it removed: the exception the code
\* makes is the careless one's (removeRange).
THEOREM RemovalIsComplete == ASSUME Careful PROVE MailSpec => RemovedIsGone
<1>1. ASSUME MailIInv', NEW r \in Arguments, RemoveRange(r), NEW i \in Span(r)
      PROVE  ~ContainsIndex(ranges', i)
  <2>1. UINT64_MAX \in Nat /\ i \in Indexes
    BY WidthAssumption DEF Span
  <2>2. ranges' \in Seq(ProperRanges) /\ Apart(ranges') /\ Covered(ranges') = members'
    BY <1>1 DEF MailIInv, SetIInv, Apart, Covered
  <2>3. i \notin members'
    BY <1>1 DEF RemoveRange
  <2>4. ContainsIndex(ranges', i) <=> i \in Covered(ranges')
    BY <2>1, <2>2, ContainsIs
  <2>5. QED
    BY <2>2, <2>3, <2>4
<1>2. MailIInv' => [\A r \in Arguments :
                     RemoveRange(r) => \A i \in Span(r) : ~ContainsIndex(ranges', i)]_vars
  BY <1>1
<1>3. QED
  BY <1>2, MailInvariance, PTL DEF RemovedIsGone

-----------------------------------------------------------------------------
(* What InterruptEndsIdle rests on.                                        *)

\* Only what is set up is interrupted, and until the wait has begun the pipe
\* keeps an interruption, which the wait then finds.
InterruptIsKept ==
  /\ \A o \in asked : setup[o]
  /\ current \in asked /\ at \in {"enter", "wait"} => pipe = "notified"

LEMMA IdleKeepsInterrupt ==
  ASSUME IdleIInv, InterruptIsKept, [Idle!Next]_idleVars
  PROVE  InterruptIsKept'
<1> USE DEF IdleIInv, Idle!TypeOK
<1>1. CASE \/ Idle!AutomaticDisconnect \/ Idle!Reconnect \/ Idle!Setup
           \/ Idle!ConnectFails \/ Idle!Connect \/ Idle!Capability \/ Idle!Select
  BY <1>1 DEF Idle!AutomaticDisconnect, Idle!Reconnect, Idle!Setup, Idle!ConnectFails,
              Idle!Connect, Idle!Capability, Idle!Select, Idle!Unsetup, InterruptIsKept
<1>2. CASE \/ Idle!Enter \/ Idle!WaitInterrupted \/ Idle!Leave
           \/ \E r \in {"data", "timeout", "error"} : Idle!WaitEnds(r)
  BY <1>2 DEF Idle!Enter, Idle!WaitInterrupted, Idle!Leave, Idle!WaitEnds, InterruptIsKept
<1>3. CASE Idle!Prepare
  <2>1. current \in Ops /\ state[current] = "running" /\ at = "prepare"
    BY <1>3 DEF Idle!Prepare, OneRuns
  <2>2. ~setup[current]
    BY <2>1 DEF OneRuns, Armed
  <2>3. current \notin asked
    BY <2>2 DEF InterruptIsKept
  <2>4. asked' = asked /\ current' = current /\ \A o \in asked : setup'[o] = setup[o]
    BY <1>3, <2>3 DEF Idle!Prepare
  <2>5. QED
    BY <2>3, <2>4 DEF InterruptIsKept
<1>4. CASE Idle!Unprepare \/ Idle!Complete
  BY <1>4 DEF Idle!Unprepare, Idle!Complete, InterruptIsKept
<1>5. ASSUME NEW o \in Ops, Idle!Start(o) \/ Idle!Begin(o)
      PROVE  InterruptIsKept'
  BY <1>5 DEF Idle!Start, Idle!Begin, InterruptIsKept
<1>6. ASSUME NEW o \in Ops, Idle!Interrupt(o)
      PROVE  InterruptIsKept'
  <2>1. /\ setup[o] /\ asked' = asked \cup {o} /\ UNCHANGED <<at, current, setup>>
        /\ pipe' = IF canIdle /\ pipe = "armed" THEN "notified" ELSE pipe
    BY <1>6 DEF Idle!Interrupt
  <2>2. at \in {"enter", "wait"} => canIdle /\ pipe \in {"armed", "notified"}
    BY DEF HasStream, Armed
  <2>3. QED
    BY <2>1, <2>2 DEF InterruptIsKept
<1>7. CASE UNCHANGED idleVars
  BY <1>7 DEF idleVars, InterruptIsKept
<1>8. QED
  BY <1>1, <1>2, <1>3, <1>4, <1>5, <1>6, <1>7
     DEF Idle!Next, Idle!Thread, Idle!Finished, Idle!vars, idleVars

\* An interruption is never lost, in whichever of the steps between setupIdle()
\* and the end of the wait it comes, and however many operations there are
\* (interruptIdle, mailstream_setup_idle).
THEOREM InterruptionIsKept == MailSpec => []InterruptIsKept
<1>1. MailInit => InterruptIsKept
  BY DEF MailInit, Idle!Init, InterruptIsKept
<1>2. MailIInv /\ InterruptIsKept /\ [MailNext]_all => InterruptIsKept'
  <2> SUFFICES ASSUME MailIInv, InterruptIsKept, [MailNext]_all PROVE InterruptIsKept'
    OBVIOUS
  <2>1. [Idle!Next]_idleVars
    BY DEF MailNext, PopAlone, SmtpAlone, IdleAlone, SetAlone, all
  <2>2. QED
    BY <2>1, IdleKeepsInterrupt DEF MailIInv
<1>3. QED
  BY <1>1, <1>2, MailInvariance, PTL DEF MailSpec
=============================================================================
