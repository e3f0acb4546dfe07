------------------------------ MODULE IndexSet ------------------------------
(***************************************************************************)
(* mailcore::IndexSet: a set of numbers kept as an array of ranges, under  *)
(* every sequence of calls.  members is what the calls, as MCOIndexSet.h   *)
(* describes them, make of a set of numbers.                               *)
(***************************************************************************)
EXTENDS Ranges, FiniteSets

CONSTANT Careful   \* the calls keep to what the code gets right

VARIABLES
  ranges,   \* mRanges, mCount
  members

vars == <<ranges, members>>

\* The ranges a caller may make.  The last index is named by none: without it
\* what has no end would keep a range that is empty.
Named == 0..UINT64_MAX - 2

Arguments ==
  {r \in [location : Named, length : 0..UINT64_MAX] :
     r.length = UINT64_MAX \/ r.location + r.length \in Named}

\* The code loses or keeps too much when a range added or removed begins
\* inside one that is there.
BeginsInside(r) ==
  \E i \in DOMAIN ranges :
    ranges[i].location < r.location /\ r.location <= RangeRightBound(ranges[i])

Allowed(r) == Careful => ~BeginsInside(r)

Init == ranges = <<>> /\ members = {}

AddRange(r) ==
  /\ Allowed(r)
  /\ ranges' = Added(ranges, r)
  /\ members' = members \cup Span(r)

AddIndex(i) == AddRange(RangeMake(i, 0))

RemoveRange(r) ==
  /\ Allowed(r)
  /\ ranges' = Removed(ranges, r)
  /\ members' = members \ Span(r)

RemoveIndex(i) == RemoveRange(RangeMake(i, 0))

\* A careful caller cuts off the beginning only: the last number of a range
\* that ends is removed with what follows it, and 0 wraps.
IntersectsRange(r) ==
  /\ Careful => r.length = UINT64_MAX /\ r.location > 0
  /\ ranges' = Intersected(ranges, r)
  /\ members' = members \cap Span(r)

RemoveAllIndexes == ranges' = <<>> /\ members' = {}

Next ==
  \/ \E r \in Arguments : AddRange(r) \/ RemoveRange(r) \/ IntersectsRange(r)
  \/ \E i \in Named : AddIndex(i) \/ RemoveIndex(i)
  \/ RemoveAllIndexes

Spec == Init /\ [][Next]_vars

-----------------------------------------------------------------------------
(* Properties.                                                             *)

TypeOK ==
  /\ ranges \in Seq([location : Indexes, length : 0..UINT64_MAX])
  /\ members \subseteq Indexes

\* The array stands for the set: in order and without overlap, holding the
\* members and nothing else, as containsIndex finds by halving and count adds up
\* unless a range has no end, whatever was added, removed and cut off before, if
\* nothing added or removed began inside a range (addRange, removeRange).
Represents ==
  /\ \A i, j \in DOMAIN ranges :
       i < j => RangeRightBound(ranges[i]) < ranges[j].location
  /\ UNION {Span(ranges[i]) : i \in DOMAIN ranges} = members
  /\ \A i \in Indexes : ContainsIndex(ranges, i) <=> i \in members
  /\ (\A i \in DOMAIN ranges : RangeRightBound(ranges[i]) # UINT64_MAX)
       => Count(ranges) = Cardinality(members)

\* "Removes a range of integers from the index set": none of them is left.
RemovedIsGone ==
  [][\A r \in Arguments :
       RemoveRange(r) => \A i \in Span(r) : ~ContainsIndex(ranges', i)]_vars
=============================================================================
