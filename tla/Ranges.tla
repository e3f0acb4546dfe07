------------------------------- MODULE Ranges -------------------------------
(***************************************************************************)
(* mailcore::Range and the array of ranges inside a mailcore::IndexSet, as *)
(* values: what each method makes of the array it finds.  A range holds    *)
(* the numbers from location to location + length, both included.  Length  *)
(* UINT64_MAX means without end, location UINT64_MAX means empty;          *)
(* UINT64_MAX itself is no index.                                          *)
(*                                                                         *)
(* Sequences begin at 1 where the array begins at 0.  The second binary    *)
(* search, rightRangeIndexForIndex, has no caller and is left out.         *)
(*                                                                         *)
(* A definition marked `mutant' is no part of the specification: it is the *)
(* one below it with a plausible bug, which a property must notice.        *)
(***************************************************************************)
EXTENDS Integers, SequencesExt

CONSTANT UINT64_MAX

ASSUME WidthAssumption == UINT64_MAX \in Nat /\ UINT64_MAX > 1

Indexes == 0..UINT64_MAX - 1

RangeMake(location, length) == [location |-> location, length |-> length]

RangeEmpty == RangeMake(UINT64_MAX, 0)

Larger(a, b)  == IF a > b THEN a ELSE b
Smaller(a, b) == IF a < b THEN a ELSE b

Wrapped(n) == n % (UINT64_MAX + 1)                    \* a uint64_t

RangeRightBound(r) ==
  IF r.length = UINT64_MAX THEN UINT64_MAX ELSE Wrapped(r.location + r.length)

\* The range from left to right, without end if right is UINT64_MAX.
Between(left, right) ==
  RangeMake(left, IF right = UINT64_MAX THEN UINT64_MAX ELSE right - left)

RangeIntersection(r1, r2) ==
  IF \/ RangeRightBound(r2) < r1.location
     \/ RangeRightBound(r1) < r2.location
  THEN RangeEmpty
  ELSE Between(Larger(r1.location, r2.location),
               Smaller(RangeRightBound(r1), RangeRightBound(r2)))

RangeHasIntersection(r1, r2) == RangeIntersection(r1, r2).location # UINT64_MAX

\* The one or two pieces added to the result never touch.
RangeRemoveRange(r1, r2) ==
  LET cut    == RangeIntersection(r1, r2)
      right1 == RangeRightBound(r1)
      right2 == RangeRightBound(cut)
      before == IF cut.location > r1.location
                THEN <<RangeMake(r1.location, cut.location - r1.location - 1)>>
                ELSE <<>>
      after  == IF right2 < right1 THEN <<Between(right2 + 1, right1)>> ELSE <<>>
  IN  IF RangeHasIntersection(r1, r2) THEN before \o after ELSE <<r1>>

\* Only called with ranges that intersect.
RangeUnion(r1, r2) ==
  Between(Smaller(r1.location, r2.location),
          Larger(RangeRightBound(r1), RangeRightBound(r2)))

\* The numbers a range stands for: what the operations must agree with.
Span(r) == {i \in Indexes : r.location <= i /\ i <= RangeRightBound(r)}

-----------------------------------------------------------------------------
(* The searches.  They halve the array, which need not be in order.        *)

\* leftRangeIndexForIndex: the first range that begins at idx or later.
LeftRangeIndex(s, idx) ==
  LET search[part \in (DOMAIN s) \X (DOMAIN s)] ==
        LET l == part[1]
            r == part[2]
            middle == (l + r) \div 2
        IN  IF l = r THEN (IF idx <= s[l].location THEN l ELSE l + 1)
            ELSE IF idx <= s[middle].location THEN search[<<l, middle>>]
            ELSE search[<<middle + 1, r>>]
  IN  IF s = <<>> THEN 1 ELSE search[<<1, Len(s)>>]

\* containsIndex, by rangeIndexForIndex.
ContainsIndex(s, idx) ==
  LET holds(k) == s[k].location <= idx /\ idx <= RangeRightBound(s[k])
      search[part \in (DOMAIN s) \X (DOMAIN s)] ==
        LET l == part[1]
            r == part[2]
            middle == (l + r) \div 2
        IN  IF holds(middle) THEN TRUE
            ELSE IF l = r THEN FALSE
            ELSE IF idx < s[middle].location THEN search[<<l, middle>>]
            ELSE search[<<middle + 1, r>>]
  IN  s # <<>> /\ search[<<1, Len(s)>>]

-----------------------------------------------------------------------------
(* Adding.                                                                 *)

\* The ranges from k to m, replaced by the ranges of t.
Replace(s, k, m, t) == SubSeq(s, 1, k - 1) \o t \o SubSeq(s, m + 1, Len(s))

\* The last of the ranges from k on that r meets without a gap; k - 1 if none.
LastMet(s, k, r) ==
  CHOOSE m \in k - 1..Len(s) :
    /\ \A i \in k..m : RangeHasIntersection(s[i], r)
    /\ m < Len(s) => ~RangeHasIntersection(s[m + 1], r)

MergeRanges(s, k) ==
  LET right == LastMet(s, k, s[k])
  IN  IF right <= k THEN s
      ELSE Replace(s, k, right, <<RangeUnion(s[k], s[right])>>)

TryToMergeAdjacentRanges(s, k) ==
  LET right == RangeRightBound(s[k])
      joined == RangeMake(s[k].location,
                          RangeRightBound(s[k + 1]) - s[k].location)
  IN  IF right = UINT64_MAX \/ right + 1 # s[k + 1].location THEN s
      ELSE Replace(s, k, k + 1, <<joined>>)

\* After a merge on the left the last line looks one range too far: a number
\* that closes a gap leaves two ranges side by side.
MergeAround(s, k) ==
  LET left == IF k > 1 THEN TryToMergeAdjacentRanges(s, k - 1) ELSE s
  IN  IF k < Len(left) THEN TryToMergeAdjacentRanges(left, k) ELSE left

AddedUnmerged(s, r) ==                                         \* mutant
  LET k == LeftRangeIndex(s, r.location)
  IN  MergeAround(Replace(s, k, k - 1, <<r>>), k)

Added(s, r) ==
  LET k == LeftRangeIndex(s, r.location)
  IN  MergeAround(MergeRanges(Replace(s, k, k - 1, <<r>>), k), k)

-----------------------------------------------------------------------------
(* Removing.                                                               *)

\* From the first range that begins in r, as far as they meet r.  The ranges
\* emptied are removed together with all that stand between them.
Removed(s, r) ==
  LET k == LeftRangeIndex(s, r.location)
      m == LastMet(s, k, r)
      rest == [i \in 1..m - k + 1 |-> RangeRemoveRange(s[k + i - 1], r)]
      gone == {i \in DOMAIN rest : rest[i] = <<>>}
      kept == [i \in DOMAIN rest |->
                 IF \E a, b \in gone : a <= i /\ i <= b THEN <<>> ELSE rest[i]]
  IN  Replace(s, k, m, FlattenSeq(kept))

\* intersectsRange: what lies before r, then what lies after it.  The second
\* call begins at the last number of r, and the length wraps if r begins at 0.
Intersected(s, r) ==
  LET low == Removed(s, RangeMake(0, Wrapped(r.location - 1)))
  IN  IF RangeRightBound(r) = UINT64_MAX THEN low
      ELSE Removed(low, RangeMake(RangeRightBound(r), UINT64_MAX))

\* count(): total += length + 1.
Count(s) == FoldLeft(LAMBDA n, r : n + r.length + 1, 0, s)
=============================================================================
