---------------------------- MODULE RangesProofs ----------------------------
(***************************************************************************)
(* What the operations on ranges, and on an array of ranges, do to the     *)
(* numbers these stand for, whatever the width of the integers and the     *)
(* length of the array.                                                    *)
(*                                                                         *)
(* A loop of the code is a function that calls itself.  What it computes   *)
(* is found from the equation alone: some function satisfies it (so CHOOSE *)
(* finds one), and if its value were wrong somewhere, it would be wrong at *)
(* a place before which all is right (LeastBad).                           *)
(***************************************************************************)
EXTENDS Ranges, FiniteSetTheorems, NaturalsInduction, TLAPS

\* A range with an index in it: its end is an index, or UINT64_MAX for no end.
Proper(r) ==
  /\ r \in [location : Nat, length : Nat]
  /\ r.location < UINT64_MAX
  /\ r.length = UINT64_MAX \/ r.location + r.length <= UINT64_MAX

\* A sum that fits does not wrap.
LEMMA Fits ==
  ASSUME NEW n \in Nat, UINT64_MAX \in Nat, n <= UINT64_MAX
  PROVE  Wrapped(n) = n
  BY DEF Wrapped

\* Of a range with an index in it the end is not before the beginning.
LEMMA RightBound ==
  ASSUME UINT64_MAX \in Nat, NEW r, Proper(r)
  PROVE  /\ RangeRightBound(r) \in Nat
         /\ r.location <= RangeRightBound(r) /\ RangeRightBound(r) <= UINT64_MAX
         /\ r.length = UINT64_MAX => RangeRightBound(r) = UINT64_MAX
         /\ r.length # UINT64_MAX => RangeRightBound(r) = r.location + r.length
<1>1. r.length \in Nat /\ r.location \in Nat
  BY DEF Proper
<1>2. CASE r.length = UINT64_MAX
  BY <1>1, <1>2 DEF RangeRightBound, Proper
<1>3. CASE r.length # UINT64_MAX
  <2>1. Wrapped(r.location + r.length) = r.location + r.length
    BY <1>1, <1>3, Fits DEF Proper
  <2>2. QED
    BY <1>1, <1>3, <2>1 DEF RangeRightBound, Proper
<1>4. QED
  BY <1>2, <1>3

\* From left to right, and proper unless it would begin at UINT64_MAX.
LEMMA BetweenIsRange ==
  ASSUME UINT64_MAX \in Nat, NEW left \in Nat, NEW right \in Nat,
         left <= right, right <= UINT64_MAX, left < UINT64_MAX
  PROVE  /\ Proper(Between(left, right))
         /\ Between(left, right).location = left
         /\ RangeRightBound(Between(left, right)) = right
<1>1. CASE right = UINT64_MAX
  BY <1>1 DEF Between, RangeMake, RangeRightBound, Proper
<1>2. CASE right # UINT64_MAX
  <2>1. Wrapped(left + (right - left)) = right
    BY Fits
  <2>2. /\ Between(left, right) = RangeMake(left, right - left)
        /\ right - left # UINT64_MAX /\ right - left \in Nat
    BY <1>2 DEF Between
  <2>3. QED
    BY <1>2, <2>1, <2>2 DEF RangeMake, RangeRightBound, Proper
<1>3. QED
  BY <1>1, <1>2

\* RangeEmpty holds no index.
LEMMA EmptyIsEmpty ==
  ASSUME UINT64_MAX \in Nat
  PROVE  Span(RangeEmpty) = {} /\ RangeEmpty.location = UINT64_MAX
<1>1. RangeEmpty.location = UINT64_MAX
  BY DEF RangeEmpty, RangeMake
<1>2. \A i \in Indexes : ~(UINT64_MAX <= i)
  BY DEF Indexes
<1>3. QED
  BY <1>1, <1>2 DEF Span

\* The bounds of an intersection that is not empty.
LEMMA Cut ==
  ASSUME UINT64_MAX \in Nat, NEW a, NEW b, Proper(a), Proper(b),
         RangeRightBound(b) >= a.location, RangeRightBound(a) >= b.location
  PROVE  /\ Proper(RangeIntersection(a, b))
         /\ RangeIntersection(a, b).location = Larger(a.location, b.location)
         /\ RangeRightBound(RangeIntersection(a, b))
              = Smaller(RangeRightBound(a), RangeRightBound(b))
<1> DEFINE left == Larger(a.location, b.location)
           right == Smaller(RangeRightBound(a), RangeRightBound(b))
<1>1. /\ a.location \in Nat /\ b.location \in Nat
      /\ a.location < UINT64_MAX /\ b.location < UINT64_MAX
  BY DEF Proper
<1>2. /\ left \in Nat /\ right \in Nat
      /\ left <= right /\ right <= UINT64_MAX /\ left < UINT64_MAX
  BY <1>1, RightBound DEF Larger, Smaller
<1>3. RangeIntersection(a, b) = Between(left, right)
  BY <1>1, RightBound DEF RangeIntersection
<1> HIDE DEF left, right
<1>4. QED
  BY <1>2, <1>3, BetweenIsRange DEF left, right

\* RangeIntersection is the intersection.
THEOREM IntersectionIsExact ==
  ASSUME UINT64_MAX \in Nat, NEW a, NEW b, Proper(a), Proper(b)
  PROVE  Span(RangeIntersection(a, b)) = Span(a) \cap Span(b)
<1>1. /\ a.location \in Nat /\ b.location \in Nat
      /\ RangeRightBound(a) \in Nat /\ RangeRightBound(b) \in Nat
  BY RightBound DEF Proper
<1>2. CASE RangeRightBound(b) < a.location \/ RangeRightBound(a) < b.location
  <2>1. Span(a) \cap Span(b) = {}
    BY <1>1, <1>2 DEF Span, Indexes
  <2>2. RangeIntersection(a, b) = RangeEmpty
    BY <1>2 DEF RangeIntersection
  <2>3. QED
    BY <2>1, <2>2, EmptyIsEmpty
<1>3. CASE ~(RangeRightBound(b) < a.location \/ RangeRightBound(a) < b.location)
  <2>1. /\ RangeIntersection(a, b).location = Larger(a.location, b.location)
        /\ RangeRightBound(RangeIntersection(a, b))
             = Smaller(RangeRightBound(a), RangeRightBound(b))
    BY <1>1, <1>3, Cut
  <2>2. \A i \in Indexes :
          /\ Larger(a.location, b.location) <= i
               <=> a.location <= i /\ b.location <= i
          /\ i <= Smaller(RangeRightBound(a), RangeRightBound(b))
               <=> i <= RangeRightBound(a) /\ i <= RangeRightBound(b)
    BY <1>1 DEF Larger, Smaller, Indexes
  <2>3. QED
    BY <2>1, <2>2 DEF Span
<1>4. QED
  BY <1>2, <1>3

\* Two ranges intersect if they have a number in common: the loops that merge
\* and remove go by this test (RangeHasIntersection).
THEOREM HasIntersectionIsExact ==
  ASSUME UINT64_MAX \in Nat, NEW a, NEW b, Proper(a), Proper(b)
  PROVE  RangeHasIntersection(a, b) <=> Span(a) \cap Span(b) # {}
<1>1. /\ a.location \in Nat /\ b.location \in Nat
      /\ a.location < UINT64_MAX /\ b.location < UINT64_MAX
      /\ RangeRightBound(a) \in Nat /\ RangeRightBound(b) \in Nat
      /\ a.location <= RangeRightBound(a) /\ b.location <= RangeRightBound(b)
  BY RightBound DEF Proper
<1>2. CASE RangeRightBound(b) < a.location \/ RangeRightBound(a) < b.location
  <2>1. RangeIntersection(a, b) = RangeEmpty
    BY <1>2 DEF RangeIntersection
  <2>2. ~RangeHasIntersection(a, b) /\ Span(a) \cap Span(b) = {}
    BY <2>1, IntersectionIsExact, EmptyIsEmpty DEF RangeHasIntersection
  <2>3. QED
    BY <2>2
<1>3. CASE ~(RangeRightBound(b) < a.location \/ RangeRightBound(a) < b.location)
  <2>1. RangeIntersection(a, b).location = Larger(a.location, b.location)
    BY <1>1, <1>3, Cut
  <2>2. /\ Larger(a.location, b.location) \in Indexes
        /\ Larger(a.location, b.location) # UINT64_MAX
    BY <1>1 DEF Larger, Indexes
  <2>3. Larger(a.location, b.location) \in Span(a) \cap Span(b)
    BY <1>1, <1>3, <2>2 DEF Larger, Span
  <2>4. QED
    BY <2>1, <2>2, <2>3 DEF RangeHasIntersection
<1>4. QED
  BY <1>2, <1>3

\* RangeUnion of ranges that intersect, which is how mergeRanges calls it, holds
\* the numbers of both and no other.
THEOREM UnionIsExact ==
  ASSUME UINT64_MAX \in Nat, NEW a, NEW b, Proper(a), Proper(b),
         RangeHasIntersection(a, b)
  PROVE  /\ Proper(RangeUnion(a, b))
         /\ RangeUnion(a, b).location = Smaller(a.location, b.location)
         /\ RangeRightBound(RangeUnion(a, b))
              = Larger(RangeRightBound(a), RangeRightBound(b))
         /\ Span(RangeUnion(a, b)) = Span(a) \cup Span(b)
<1> DEFINE left == Smaller(a.location, b.location)
           right == Larger(RangeRightBound(a), RangeRightBound(b))
<1>1. /\ a.location \in Nat /\ b.location \in Nat
      /\ a.location < UINT64_MAX /\ b.location < UINT64_MAX
      /\ RangeRightBound(a) \in Nat /\ RangeRightBound(b) \in Nat
      /\ a.location <= RangeRightBound(a) /\ b.location <= RangeRightBound(b)
      /\ RangeRightBound(a) <= UINT64_MAX /\ RangeRightBound(b) <= UINT64_MAX
  BY RightBound DEF Proper
<1>2. a.location <= RangeRightBound(b) /\ b.location <= RangeRightBound(a)
  <2>1. PICK i \in Indexes : i \in Span(a) /\ i \in Span(b)
    BY HasIntersectionIsExact DEF Span
  <2>2. QED
    BY <1>1, <2>1 DEF Span, Indexes
<1>3. /\ left \in Nat /\ right \in Nat /\ left <= right
      /\ right <= UINT64_MAX /\ left < UINT64_MAX
  BY <1>1 DEF Smaller, Larger
<1>4. \A i \in Indexes :
        left <= i /\ i <= right
          <=> \/ a.location <= i /\ i <= RangeRightBound(a)
              \/ b.location <= i /\ i <= RangeRightBound(b)
  BY <1>1, <1>2 DEF Smaller, Larger, Indexes
<1>5. RangeUnion(a, b) = Between(left, right)
  BY DEF RangeUnion
<1> HIDE DEF left, right
<1>6. /\ Proper(RangeUnion(a, b))
      /\ RangeUnion(a, b).location = left
      /\ RangeRightBound(RangeUnion(a, b)) = right
  BY <1>3, <1>5, BetweenIsRange
<1>7. QED
  BY <1>4, <1>6 DEF Span, left, right

\* What RangeRemoveRange leaves of a range: the pieces before and after, which
\* hold what was not removed, in order and apart.
THEOREM RemovalIsExact ==
  ASSUME UINT64_MAX \in Nat, NEW a, NEW b, Proper(a), Proper(b)
  PROVE  LET pieces == RangeRemoveRange(a, b)
         IN  /\ UNION {Span(pieces[i]) : i \in DOMAIN pieces} = Span(a) \ Span(b)
             /\ \A i, j \in DOMAIN pieces :
                  i < j => RangeRightBound(pieces[i]) < pieces[j].location
<1> DEFINE cut    == RangeIntersection(a, b)
           right1 == RangeRightBound(a)
           right2 == RangeRightBound(cut)
           low    == RangeMake(a.location, cut.location - a.location - 1)
           high   == Between(right2 + 1, right1)
           before == IF cut.location > a.location THEN <<low>> ELSE <<>>
           after  == IF right2 < right1 THEN <<high>> ELSE <<>>
           pieces == RangeRemoveRange(a, b)
<1> SUFFICES /\ UNION {Span(pieces[i]) : i \in DOMAIN pieces} = Span(a) \ Span(b)
             /\ \A i, j \in DOMAIN pieces :
                  i < j => RangeRightBound(pieces[i]) < pieces[j].location
  OBVIOUS
<1>1. CASE ~RangeHasIntersection(a, b)
  <2>1. pieces = <<a>> /\ Span(a) \cap Span(b) = {}
    BY <1>1, HasIntersectionIsExact DEF RangeRemoveRange
  <2>2. DOMAIN pieces = {1} /\ pieces[1] = a
    BY <2>1
  <2> HIDE DEF pieces
  <2>3. QED
    BY <2>1, <2>2
<1>2. CASE RangeHasIntersection(a, b)
  <2>1. /\ a.location \in Nat /\ b.location \in Nat
        /\ a.location < UINT64_MAX /\ b.location < UINT64_MAX
        /\ right1 \in Nat /\ RangeRightBound(b) \in Nat
        /\ a.location <= right1 /\ right1 <= UINT64_MAX
    BY RightBound DEF Proper
  <2>2. a.location <= RangeRightBound(b) /\ b.location <= right1
    <3>1. PICK i \in Indexes : i \in Span(a) /\ i \in Span(b)
      BY <1>2, HasIntersectionIsExact DEF Span
    <3>2. QED
      BY <2>1, <3>1 DEF Span, Indexes
  <2>3. /\ cut.location = Larger(a.location, b.location)
        /\ right2 = Smaller(right1, RangeRightBound(b))
        /\ Span(cut) = Span(a) \cap Span(b)
    BY <2>1, <2>2, Cut, IntersectionIsExact
  <2>4. /\ cut.location \in Nat /\ right2 \in Nat
        /\ a.location <= cut.location /\ cut.location <= right2
        /\ right2 <= right1 /\ cut.location < UINT64_MAX
    BY <2>1, <2>2, <2>3, RightBound DEF Larger, Smaller
  <2>5. ASSUME cut.location > a.location
        PROVE  /\ low.location = a.location
               /\ RangeRightBound(low) = cut.location - 1
    <3>1. Wrapped(a.location + (cut.location - a.location - 1))
            = cut.location - 1
      BY <2>1, <2>4, <2>5, Fits
    <3>2. QED
      BY <2>1, <2>4, <2>5, <3>1 DEF RangeMake, RangeRightBound
  <2>6. ASSUME right2 < right1
        PROVE  /\ high.location = right2 + 1
               /\ RangeRightBound(high) = right1
    <3>1. CASE right1 = UINT64_MAX
      BY <3>1 DEF Between, RangeMake, RangeRightBound
    <3>2. CASE right1 # UINT64_MAX
      BY <2>1, <2>4, <2>6, <3>2, BetweenIsRange
    <3>3. QED
      BY <3>1, <3>2
  <2>7. pieces = before \o after
    BY <1>2 DEF RangeRemoveRange
  <2> HIDE DEF cut, right1, right2, low, high, pieces
  <2>8. \A i \in Indexes :
          i \in Span(a) \ Span(b)
            <=> \/ cut.location > a.location /\ i \in Span(low)
                \/ right2 < right1 /\ i \in Span(high)
    <3> SUFFICES ASSUME NEW i \in Indexes
                 PROVE  i \in Span(a) \ Span(b)
                          <=> \/ cut.location > a.location /\ i \in Span(low)
                              \/ right2 < right1 /\ i \in Span(high)
      OBVIOUS
    <3>1. i \in Span(a) \ Span(b) <=> i \in Span(a) /\ ~(i \in Span(cut))
      BY <2>3
    <3>2. i \in Nat
      BY DEF Indexes
    <3>3. i \in Span(cut) <=> cut.location <= i /\ i <= right2
      BY DEF Span, right2
    <3>4. i \in Span(a) <=> a.location <= i /\ i <= right1
      BY DEF Span, right1
    <3>5. cut.location > a.location =>
            (i \in Span(low) <=> a.location <= i /\ i <= cut.location - 1)
      BY <2>5 DEF Span
    <3>6. right2 < right1 =>
            (i \in Span(high) <=> right2 + 1 <= i /\ i <= right1)
      BY <2>6 DEF Span
    <3>7. QED
      BY <2>1, <2>4, <3>1, <3>2, <3>3, <3>4, <3>5, <3>6
  <2>9. CASE cut.location > a.location /\ right2 < right1
    <3>1. DOMAIN pieces = {1, 2} /\ pieces[1] = low /\ pieces[2] = high
      BY <2>7, <2>9
    <3>2. RangeRightBound(low) < high.location
      BY <2>1, <2>4, <2>5, <2>6, <2>9
    <3>3. UNION {Span(pieces[i]) : i \in DOMAIN pieces} = Span(low) \cup Span(high)
      BY <3>1
    <3>4. Span(low) \cup Span(high) = Span(a) \ Span(b)
      BY <2>8, <2>9 DEF Span
    <3>5. QED
      BY <3>1, <3>2, <3>3, <3>4
  <2>10. CASE cut.location > a.location /\ ~(right2 < right1)
    <3>1. DOMAIN pieces = {1} /\ pieces[1] = low
      BY <2>7, <2>10
    <3>2. Span(low) = Span(a) \ Span(b)
      BY <2>8, <2>10 DEF Span
    <3>3. QED
      BY <3>1, <3>2
  <2>11. CASE ~(cut.location > a.location) /\ right2 < right1
    <3>1. DOMAIN pieces = {1} /\ pieces[1] = high
      BY <2>7, <2>11
    <3>2. Span(high) = Span(a) \ Span(b)
      BY <2>8, <2>11 DEF Span
    <3>3. QED
      BY <3>1, <3>2
  <2>12. CASE ~(cut.location > a.location) /\ ~(right2 < right1)
    <3>1. DOMAIN pieces = {}
      BY <2>7, <2>12
    <3>2. Span(a) \ Span(b) = {}
      BY <2>8, <2>12 DEF Span
    <3>3. QED
      BY <3>1, <3>2
  <2>13. QED
    BY <2>9, <2>10, <2>11, <2>12
<1>3. QED
  BY <1>1, <1>2

-----------------------------------------------------------------------------
(* The searches.                                                           *)

\* Of a set of numbers that are not all good, one is the least that is not.
LEMMA LeastBad ==
  ASSUME NEW bad \in SUBSET Nat, bad # {}
  PROVE  \E n \in bad : \A m \in Nat : m < n => m \notin bad
<1> DEFINE R == {p \in Nat \X Nat : p[1] < p[2]}
<1>1. IsWellFoundedOn(R, Nat)
  BY NatLessThanWellFounded DEF OpToRel
<1>2. PICK n \in bad : \A m \in bad : ~(<<m, n>> \in R)
  <2> HIDE DEF R
  <2> QED BY <1>1, WFMin
<1>3. \A m \in bad : ~(m < n)
  BY <1>2
<1>4. QED
  BY <1>3

\* The middle lies in the part, and in the lower half of it.
LEMMA Middle ==
  ASSUME NEW l \in Nat, NEW r \in Nat
  PROVE  /\ (l + r) \div 2 \in Nat
         /\ l < r => l <= (l + r) \div 2 /\ (l + r) \div 2 < r
         /\ l > r => r <= (l + r) \div 2 /\ (l + r) \div 2 < l
         /\ l = r => (l + r) \div 2 = l
  OBVIOUS

\* A search by halving: stop tells where it ends, and with which answer; lower,
\* which half it goes on in.
Halving(g, n, stop, answer, lower) ==
  g = [p \in (1..n) \X (1..n) |->
         IF stop[p] THEN answer[p]
         ELSE IF lower[p] THEN g[<<p[1], (p[1] + p[2]) \div 2>>]
         ELSE g[<<(p[1] + p[2]) \div 2 + 1, p[2]>>]]

\* The same, as long as the part that is left holds no more than m + 1.
HalvingTo(g, m, n, stop, answer, lower) ==
  \A l, r \in 1..n :
    r - l < m =>
      g[<<l, r>>] = IF stop[<<l, r>>] THEN answer[<<l, r>>]
                ELSE IF lower[<<l, r>>] THEN g[<<l, (l + r) \div 2>>]
                ELSE g[<<(l + r) \div 2 + 1, r>>]

\* Every such search has an answer, in every part.  A part that is none is never
\* searched; the definition must only not contradict itself there.
LEMMA SearchExists ==
  ASSUME NEW n \in Nat, NEW none,
         NEW stop \in [(1..n) \X (1..n) -> BOOLEAN], NEW answer,
         NEW lower \in [(1..n) \X (1..n) -> BOOLEAN],
         \A l \in 1..n : stop[<<l, l>>],
         \A l, r \in 1..n : l > r /\ stop[<<l, r>>] => answer[<<l, r>>] = none
  PROVE  \E g : Halving(g, n, stop, answer, lower)
<1> DEFINE D == (1..n) \X (1..n)
           To(g, m) == HalvingTo(g, m, n, stop, answer, lower)
           bad == {m \in Nat : ~\E g : To(g, m) /\ DOMAIN g = D}
<1>1. ASSUME NEW l \in 1..n, NEW r \in 1..n, ~stop[<<l, r>>]
      PROVE  /\ (l + r) \div 2 \in 1..n /\ (l + r) \div 2 + 1 \in 1..n
             /\ l # r
             /\ l < r => /\ (l + r) \div 2 - l < r - l /\ r - ((l + r) \div 2 + 1) < r - l
             /\ l > r => /\ (l + r) \div 2 - l < 0 /\ r - ((l + r) \div 2 + 1) < 0
  <2>1. l # r /\ l \in Nat /\ r \in Nat /\ l <= n /\ r <= n /\ 1 <= l /\ 1 <= r
    BY <1>1
  <2>2. QED
    BY <2>1, Middle
<1>2. bad = {}
  <2>1. SUFFICES ASSUME bad # {} PROVE FALSE
    OBVIOUS
  <2>2. PICK m \in bad : \A i \in Nat : i < m => i \notin bad
    BY <2>1, LeastBad
  <2>3. m \in Nat
    OBVIOUS
  <2>4. CASE m = 0
    <3> DEFINE g == [p \in D |-> none]
    <3>1. \A l, r \in 1..n : g[<<l, r>>] = none
      OBVIOUS
    <3>2. DOMAIN g = D
      OBVIOUS
    <3> HIDE DEF g
    <3>3. ASSUME NEW l \in 1..n, NEW r \in 1..n, r - l < 0
          PROVE  g[<<l, r>>] = IF stop[<<l, r>>] THEN answer[<<l, r>>]
                           ELSE IF lower[<<l, r>>] THEN g[<<l, (l + r) \div 2>>]
                           ELSE g[<<(l + r) \div 2 + 1, r>>]
      <4>1. l > r
        BY <3>3
      <4>2. CASE stop[<<l, r>>]
        BY <3>1, <4>1, <4>2
      <4>3. CASE ~stop[<<l, r>>]
        BY <1>1, <3>1, <4>3
      <4>4. QED
        BY <4>2, <4>3
    <3>4. To(g, m)
      BY <2>4, <3>3 DEF HalvingTo
    <3>5. QED
      BY <2>2, <3>2, <3>4
  <2>5. CASE m # 0
    <3>1. m - 1 \in Nat /\ m - 1 < m
      BY <2>3, <2>5
    <3>2. PICK f : To(f, m - 1) /\ DOMAIN f = D
      BY <2>2, <3>1
    <3> DEFINE g == [p \in D |->
                       IF p[2] - p[1] < m - 1 THEN f[p]
                       ELSE IF stop[p] THEN answer[p]
                       ELSE IF lower[p] THEN f[<<p[1], (p[1] + p[2]) \div 2>>]
                       ELSE f[<<(p[1] + p[2]) \div 2 + 1, p[2]>>]]
    <3>3. /\ DOMAIN g = D
          /\ \A l, r \in 1..n :
               g[<<l, r>>] = IF r - l < m - 1 THEN f[<<l, r>>]
                         ELSE IF stop[<<l, r>>] THEN answer[<<l, r>>]
                         ELSE IF lower[<<l, r>>] THEN f[<<l, (l + r) \div 2>>]
                         ELSE f[<<(l + r) \div 2 + 1, r>>]
      OBVIOUS
    <3> HIDE DEF g
    <3>4. ASSUME NEW l \in 1..n, NEW r \in 1..n, r - l < m
          PROVE  g[<<l, r>>] = IF stop[<<l, r>>] THEN answer[<<l, r>>]
                           ELSE IF lower[<<l, r>>] THEN g[<<l, (l + r) \div 2>>]
                           ELSE g[<<(l + r) \div 2 + 1, r>>]
      <4> HIDE DEF bad
      <4>1. CASE stop[<<l, r>>]
        <5>1. CASE r - l < m - 1
          <6>1. g[<<l, r>>] = f[<<l, r>>]
            BY <3>3, <5>1
          <6>2. f[<<l, r>>] = answer[<<l, r>>]
            BY <3>2, <4>1, <5>1 DEF HalvingTo
          <6>3. QED
            BY <4>1, <6>1, <6>2, Zenon
        <5>2. CASE ~(r - l < m - 1)
          BY <3>3, <4>1, <5>2
        <5>3. QED
          BY <5>1, <5>2
      <4>2. CASE ~stop[<<l, r>>]
        <5> DEFINE k == (l + r) \div 2
        <5>1. k \in 1..n /\ k + 1 \in 1..n
          BY <1>1, <4>2
        <5>2. k - l < m - 1 /\ r - (k + 1) < m - 1
          <6>1. /\ l # r
                /\ l < r => k - l < r - l /\ r - (k + 1) < r - l
                /\ l > r => k - l < 0 /\ r - (k + 1) < 0
            BY <1>1, <4>2, Zenon
          <6> HIDE DEF k
          <6>2. k \in Nat /\ l \in Nat /\ r \in Nat /\ m \in Nat /\ m # 0
            BY <2>3, <2>5, <5>1
          <6>3. CASE l < r
            BY <3>4, <6>1, <6>2, <6>3
          <6>4. CASE l > r
            BY <6>1, <6>2, <6>4
          <6>5. QED
            BY <6>1, <6>2, <6>3, <6>4
        <5> HIDE DEF k
        <5>3. g[<<l, k>>] = f[<<l, k>>] /\ g[<<k + 1, r>>] = f[<<k + 1, r>>]
          BY <3>3, <5>1, <5>2
        <5>4. g[<<l, r>>] = IF lower[<<l, r>>] THEN f[<<l, k>>] ELSE f[<<k + 1, r>>]
          <6>1. CASE r - l < m - 1
            BY <3>2, <3>3, <4>2, <6>1 DEF HalvingTo, k
          <6>2. CASE ~(r - l < m - 1)
            BY <3>3, <4>2, <6>2 DEF k
          <6>3. QED
            BY <6>1, <6>2
        <5>5. QED
          BY <4>2, <5>3, <5>4 DEF k
      <4>3. QED
        BY <4>1, <4>2
    <3>5. To(g, m)
      BY <3>4 DEF HalvingTo
    <3>6. QED
      BY <2>2, <3>3, <3>5
  <2>6. QED
    BY <2>4, <2>5
<1>3. PICK g : To(g, n) /\ DOMAIN g = D
  BY <1>2
<1> DEFINE h == [p \in D |-> g[p]]
<1>4. \A l, r \in 1..n : h[<<l, r>>] = g[<<l, r>>]
  OBVIOUS
<1>5. ASSUME NEW p \in D
      PROVE  h[p] = IF stop[p] THEN answer[p]
                    ELSE IF lower[p] THEN h[<<p[1], (p[1] + p[2]) \div 2>>]
                    ELSE h[<<(p[1] + p[2]) \div 2 + 1, p[2]>>]
  <2>1. PICK l \in 1..n, r \in 1..n : p = <<l, r>>
    OBVIOUS
  <2>2. r - l < n
    OBVIOUS
  <2> DEFINE k == (l + r) \div 2
  <2>3. h[p] = IF stop[p] THEN answer[p]
               ELSE IF lower[p] THEN g[<<l, k>>] ELSE g[<<k + 1, r>>]
    BY <1>3, <1>4, <2>1, <2>2 DEF HalvingTo
  <2>4. ~stop[p] => k \in 1..n /\ k + 1 \in 1..n
    BY <1>1, <2>1
  <2> HIDE DEF h, k
  <2>5. ~stop[p] => h[<<l, k>>] = g[<<l, k>>] /\ h[<<k + 1, r>>] = g[<<k + 1, r>>]
    BY <1>4, <2>4
  <2>6. p[1] = l /\ p[2] = r
    BY <2>1
  <2>7. QED
    BY <2>3, <2>5, <2>6 DEF k
<1>6. h = [p \in D |->
             IF stop[p] THEN answer[p]
             ELSE IF lower[p] THEN h[<<p[1], (p[1] + p[2]) \div 2>>]
             ELSE h[<<(p[1] + p[2]) \div 2 + 1, p[2]>>]]
  BY <1>5
<1>7. QED
  BY <1>6 DEF Halving

\* A part is right[part] if its answer in one place is, and that of the half
\* searched.
RightByHalves(n, stop, answer, lower, right) ==
  /\ \A l, r \in 1..n :
       l <= r /\ stop[<<l, r>>] => answer[<<l, r>>] \in right[<<l, r>>]
  /\ \A l, r, k \in 1..n :
       l <= k /\ k < r /\ k = (l + r) \div 2 /\ ~stop[<<l, r>>] =>
         IF lower[<<l, r>>] THEN right[<<l, k>>] \subseteq right[<<l, r>>]
         ELSE right[<<k + 1, r>>] \subseteq right[<<l, r>>]

\* So is the whole.
LEMMA SearchFinds ==
  ASSUME NEW n \in Nat, n # 0, NEW stop, NEW answer, NEW lower,
         \A l \in 1..n : stop[<<l, l>>],
         NEW right, RightByHalves(n, stop, answer, lower, right),
         NEW g, Halving(g, n, stop, answer, lower)
  PROVE  g[<<1, n>>] \in right[<<1, n>>]
<1> DEFINE bad == {m \in Nat : \E l, r \in 1..n :
                     l <= r /\ m = r - l /\ g[<<l, r>>] \notin right[<<l, r>>]}
<1>2. ASSUME NEW l \in 1..n, NEW r \in 1..n
      PROVE  g[<<l, r>>] = IF stop[<<l, r>>] THEN answer[<<l, r>>]
                           ELSE IF lower[<<l, r>>] THEN g[<<l, (l + r) \div 2>>]
                           ELSE g[<<(l + r) \div 2 + 1, r>>]
  BY DEF Halving
<1>3. ASSUME NEW l \in 1..n, NEW r \in 1..n, l <= r, r - l \notin bad
      PROVE  g[<<l, r>>] \in right[<<l, r>>]
  <2>1. r - l \in Nat
    BY <1>3
  <2>2. QED
    BY <1>3, <2>1
<1>4. SUFFICES ASSUME bad # {} PROVE FALSE
  <2>1. CASE bad = {}
    <3>1. 1 \in 1..n /\ n \in 1..n /\ 1 <= n
      OBVIOUS
    <3> HIDE DEF bad
    <3>2. QED
      BY <1>3, <2>1, <3>1
  <2>2. QED
    BY <2>1
<1>5. PICK m \in bad : \A i \in Nat : i < m => i \notin bad
  BY <1>4, LeastBad
<1>6. PICK l \in 1..n, r \in 1..n :
        l <= r /\ m = r - l /\ g[<<l, r>>] \notin right[<<l, r>>]
  OBVIOUS
<1> HIDE DEF bad
<1>7. CASE stop[<<l, r>>]
  BY <1>2, <1>6, <1>7 DEF RightByHalves
<1>8. CASE ~stop[<<l, r>>]
  <2>1. l < r
    <3>1. l # r
      BY <1>8
    <3>2. QED
      BY <1>6, <3>1
  <2> DEFINE k == (l + r) \div 2
  <2>2. k \in 1..n /\ k + 1 \in 1..n /\ l <= k /\ k < r
    BY <2>1, Middle
  <2>3. k - l \in Nat /\ k - l < m /\ r - (k + 1) \in Nat /\ r - (k + 1) < m
    BY <1>6, <2>2
  <2>4. g[<<l, r>>] = IF lower[<<l, r>>] THEN g[<<l, k>>] ELSE g[<<k + 1, r>>]
    BY <1>2, <1>8
  <2>5. IF lower[<<l, r>>] THEN right[<<l, k>>] \subseteq right[<<l, r>>]
        ELSE right[<<k + 1, r>>] \subseteq right[<<l, r>>]
    BY <1>8, <2>2 DEF RightByHalves
  <2> HIDE DEF k
  <2>6. k - l \notin bad /\ r - (k + 1) \notin bad
    BY <1>5, <2>3
  <2>7. l <= k /\ k + 1 <= r
    BY <2>2
  <2>8. g[<<l, k>>] \in right[<<l, k>>] /\ g[<<k + 1, r>>] \in right[<<k + 1, r>>]
    BY <1>3, <2>2, <2>6, <2>7
  <2>9. QED
    BY <1>6, <2>4, <2>5, <2>8
<1>9. QED
  BY <1>7, <1>8

\* The ranges an array may hold.
ProperRanges ==
  {r \in [location : Indexes, length : 0..UINT64_MAX] :
     r.length = UINT64_MAX \/ r.location + r.length <= UINT64_MAX}

\* The set and the predicate say the same.
LEMMA ProperRangesAreProper ==
  ASSUME UINT64_MAX \in Nat
  PROVE  \A r : r \in ProperRanges <=> Proper(r)
  BY DEF ProperRanges, Proper, Indexes

\* In order by where they begin.
InOrder(s) == \A i, j \in DOMAIN s : i < j => s[i].location <= s[j].location

\* The places for idx among the ranges from l to r.
LeftPlaces(s, idx, l, r) ==
  {k \in l..r + 1 :
     InOrder(s) => \A i \in l..r : /\ i < k => s[i].location < idx
                                   /\ k <= i => idx <= s[i].location}

\* A place found in the right half is a place in the whole part.
LEMMA LeftPlaceOfHalf ==
  ASSUME NEW s, NEW n \in Nat, DOMAIN s = 1..n,
         \A i \in 1..n : s[i].location \in Nat, NEW idx \in Nat,
         NEW l \in 1..n, NEW r \in 1..n, NEW k \in 1..n, l <= k, k < r
  PROVE  /\ idx <= s[k].location => LeftPlaces(s, idx, l, k) \subseteq LeftPlaces(s, idx, l, r)
         /\ s[k].location < idx => LeftPlaces(s, idx, k + 1, r) \subseteq LeftPlaces(s, idx, l, r)
<1>1. ASSUME idx <= s[k].location, NEW m \in LeftPlaces(s, idx, l, k)
      PROVE  m \in LeftPlaces(s, idx, l, r)
  <2>1. m \in l..k + 1 /\ m \in l..r + 1
    BY <1>1 DEF LeftPlaces
  <2>2. ASSUME InOrder(s), NEW i \in l..r
        PROVE  (i < m => s[i].location < idx) /\ (m <= i => idx <= s[i].location)
    <3>1. CASE i <= k
      BY <1>1, <2>2, <3>1 DEF LeftPlaces
    <3>2. CASE i > k
      <4>1. s[k].location <= s[i].location
        BY <2>2, <3>2 DEF InOrder
      <4>2. ~(i < m)
        BY <2>1, <3>2
      <4>3. i \in 1..n
        OBVIOUS
      <4>4. QED
        BY <1>1, <4>1, <4>2, <4>3
    <3>3. QED
      BY <3>1, <3>2
  <2>3. QED
    BY <2>1, <2>2 DEF LeftPlaces
<1>2. ASSUME s[k].location < idx, NEW m \in LeftPlaces(s, idx, k + 1, r)
      PROVE  m \in LeftPlaces(s, idx, l, r)
  <2>1. m \in k + 1..r + 1 /\ m \in l..r + 1
    BY <1>2 DEF LeftPlaces
  <2>2. ASSUME InOrder(s), NEW i \in l..r
        PROVE  (i < m => s[i].location < idx) /\ (m <= i => idx <= s[i].location)
    <3>1. CASE i > k
      BY <1>2, <2>2, <3>1 DEF LeftPlaces
    <3>2. CASE i <= k
      <4>1. i = k \/ s[i].location <= s[k].location
        BY <2>2, <3>2 DEF InOrder
      <4>2. ~(m <= i)
        BY <2>1, <3>2
      <4>3. i \in 1..n
        OBVIOUS
      <4>4. QED
        BY <1>2, <4>1, <4>2, <4>3
    <3>3. QED
      BY <3>1, <3>2
  <2>3. QED
    BY <2>1, <2>2 DEF LeftPlaces
<1>3. QED
  BY <1>1, <1>2

\* leftRangeIndexForIndex as the code has it.
LEMMA LeftSearch ==
  ASSUME NEW s, NEW idx
  PROVE  LET D == (DOMAIN s) \X (DOMAIN s)
         IN  LeftRangeIndex(s, idx) =
               IF s = <<>> THEN 1
               ELSE (CHOOSE g : g = [p \in D |->
                       IF p[1] = p[2] THEN (IF idx <= s[p[1]].location THEN p[1] ELSE p[1] + 1)
                       ELSE IF idx <= s[(p[1] + p[2]) \div 2].location
                            THEN g[<<p[1], (p[1] + p[2]) \div 2>>]
                       ELSE g[<<(p[1] + p[2]) \div 2 + 1, p[2]>>]])[<<1, Len(s)>>]
  BY Zenon DEF LeftRangeIndex

\* It finds a place, in an array that is not empty.
LEMMA LeftSearchFinds ==
  ASSUME NEW s, NEW n \in Nat, n # 0, DOMAIN s = 1..n, Len(s) = n, s # <<>>,
         \A i \in 1..n : s[i].location \in Nat, NEW idx \in Nat
  PROVE  LeftRangeIndex(s, idx) \in LeftPlaces(s, idx, 1, n)
<1> DEFINE D == (1..n) \X (1..n)
           stop == [p \in D |-> p[1] = p[2]]
           answer == [p \in D |-> IF idx <= s[p[1]].location THEN p[1] ELSE p[1] + 1]
           lower == [p \in D |-> idx <= s[(p[1] + p[2]) \div 2].location]
           right == [p \in D |-> LeftPlaces(s, idx, p[1], p[2])]
<1>1. \A i \in 1..n : s[i].location \in Nat
  OBVIOUS
<1>2. (DOMAIN s) \X (DOMAIN s) = D
  BY Zenon
<1>3. \A p \in D :
        /\ stop[p] <=> p[1] = p[2]
        /\ answer[p] = IF idx <= s[p[1]].location THEN p[1] ELSE p[1] + 1
        /\ lower[p] <=> idx <= s[(p[1] + p[2]) \div 2].location
  OBVIOUS
<1>4. \A l, r \in 1..n :
        /\ stop[<<l, r>>] <=> l = r
        /\ answer[<<l, r>>] = IF idx <= s[l].location THEN l ELSE l + 1
        /\ lower[<<l, r>>] <=> idx <= s[(l + r) \div 2].location
        /\ right[<<l, r>>] = LeftPlaces(s, idx, l, r)
  OBVIOUS
<1>5. stop \in [D -> BOOLEAN] /\ lower \in [D -> BOOLEAN]
  OBVIOUS
<1> HIDE DEF stop, answer, lower, right
<1>6. RightByHalves(n, stop, answer, lower, right)
  <2>1. ASSUME NEW l \in 1..n PROVE answer[<<l, l>>] \in right[<<l, l>>]
    <3>1. /\ answer[<<l, l>>] = IF idx <= s[l].location THEN l ELSE l + 1
          /\ right[<<l, l>>] = LeftPlaces(s, idx, l, l)
      BY <1>4
    <3>2. s[l].location \in Nat /\ l \in Nat
      BY <1>1
    <3>3. answer[<<l, l>>] \in LeftPlaces(s, idx, l, l)
      BY <3>1, <3>2 DEF LeftPlaces
    <3>4. QED
      BY <3>1, <3>3
  <2>2. ASSUME NEW l \in 1..n, NEW r \in 1..n, NEW k \in 1..n,
               l <= k, k < r, k = (l + r) \div 2
        PROVE  IF lower[<<l, r>>] THEN right[<<l, k>>] \subseteq right[<<l, r>>]
               ELSE right[<<k + 1, r>>] \subseteq right[<<l, r>>]
    <3>1. lower[<<l, r>>] <=> idx <= s[k].location
      BY <1>4, <2>2
    <3>2. k + 1 \in 1..n /\ s[k].location \in Nat
      BY <1>1, <2>2
    <3>3. /\ right[<<l, r>>] = LeftPlaces(s, idx, l, r)
          /\ right[<<l, k>>] = LeftPlaces(s, idx, l, k)
          /\ right[<<k + 1, r>>] = LeftPlaces(s, idx, k + 1, r)
      BY <1>4, <3>2
    <3>4. /\ idx <= s[k].location => right[<<l, k>>] \subseteq right[<<l, r>>]
          /\ s[k].location < idx => right[<<k + 1, r>>] \subseteq right[<<l, r>>]
      <4>1. /\ idx <= s[k].location
                 => LeftPlaces(s, idx, l, k) \subseteq LeftPlaces(s, idx, l, r)
            /\ s[k].location < idx
                 => LeftPlaces(s, idx, k + 1, r) \subseteq LeftPlaces(s, idx, l, r)
        <5>1. l <= k /\ k < r
          BY <2>2
        <5>2. QED
          BY <1>1, <5>1, LeftPlaceOfHalf
      <4>2. QED
        BY <3>3, <4>1, Zenon
    <3>5. lower[<<l, r>>] \/ s[k].location < idx
      BY <3>1, <3>2
    <3>6. QED
      BY <3>1, <3>4, <3>5, Zenon
  <2>3. QED
    BY <1>4, <2>1, <2>2 DEF RightByHalves
<1>7. (CHOOSE g : Halving(g, n, stop, answer, lower))[<<1, n>>] \in right[<<1, n>>]
  <2> DEFINE g == CHOOSE f : Halving(f, n, stop, answer, lower)
  <2>1. \A l \in 1..n : stop[<<l, l>>]
    BY <1>4
  <2>2. ASSUME NEW l \in 1..n, NEW r \in 1..n, l > r PROVE ~stop[<<l, r>>]
    <3>1. l # r
      BY <2>2
    <3>2. QED
      BY <1>4, <3>1
  <2>3. Halving(g, n, stop, answer, lower)
    BY <1>5, <2>1, <2>2, SearchExists
  <2> HIDE DEF g, D
  <2>4. g[<<1, n>>] \in right[<<1, n>>]
    BY <1>6, <2>1, <2>3, SearchFinds
  <2>5. QED
    BY <2>4 DEF g
<1>8. ASSUME NEW g
      PROVE  g = [p \in D |->
               IF p[1] = p[2] THEN (IF idx <= s[p[1]].location THEN p[1] ELSE p[1] + 1)
               ELSE IF idx <= s[(p[1] + p[2]) \div 2].location
                    THEN g[<<p[1], (p[1] + p[2]) \div 2>>]
               ELSE g[<<(p[1] + p[2]) \div 2 + 1, p[2]>>]]
             <=> Halving(g, n, stop, answer, lower)
  <2> HIDE DEF D
  <2>1. \A p \in D :
          (IF p[1] = p[2] THEN (IF idx <= s[p[1]].location THEN p[1] ELSE p[1] + 1)
           ELSE IF idx <= s[(p[1] + p[2]) \div 2].location
                THEN g[<<p[1], (p[1] + p[2]) \div 2>>]
           ELSE g[<<(p[1] + p[2]) \div 2 + 1, p[2]>>])
          = IF stop[p] THEN answer[p]
            ELSE IF lower[p] THEN g[<<p[1], (p[1] + p[2]) \div 2>>]
            ELSE g[<<(p[1] + p[2]) \div 2 + 1, p[2]>>]
    BY <1>3
  <2>2. Halving(g, n, stop, answer, lower) <=>
          g = [p \in D |-> IF stop[p] THEN answer[p]
                           ELSE IF lower[p] THEN g[<<p[1], (p[1] + p[2]) \div 2>>]
                           ELSE g[<<(p[1] + p[2]) \div 2 + 1, p[2]>>]]
    BY Zenon DEF Halving, D
  <2>3. QED
    BY <2>1, <2>2
<1>9. LeftRangeIndex(s, idx) = (CHOOSE g : Halving(g, n, stop, answer, lower))[<<1, n>>]
  <2> DEFINE Eq(g) == g = [p \in D |->
               IF p[1] = p[2] THEN (IF idx <= s[p[1]].location THEN p[1] ELSE p[1] + 1)
               ELSE IF idx <= s[(p[1] + p[2]) \div 2].location
                    THEN g[<<p[1], (p[1] + p[2]) \div 2>>]
               ELSE g[<<(p[1] + p[2]) \div 2 + 1, p[2]>>]]
  <2>1. LeftRangeIndex(s, idx) = (CHOOSE g : Eq(g))[<<1, n>>]
    BY <1>2, LeftSearch, Zenon
  <2>2. \A g : Eq(g) <=> Halving(g, n, stop, answer, lower)
    BY <1>8
  <2> HIDE DEF Eq
  <2>3. (CHOOSE g : Eq(g)) = CHOOSE g : Halving(g, n, stop, answer, lower)
    BY <2>2
  <2>4. QED
    BY <2>1, <2>3
<1>10. QED
  BY <1>1, <1>4, <1>7, <1>9

\* The number of the first range that begins at idx or later, if they are in order.
LEMMA LeftRangeIndexIs ==
  ASSUME UINT64_MAX \in Nat, NEW s \in Seq(ProperRanges), NEW idx \in Nat
  PROVE  LeftRangeIndex(s, idx) \in LeftPlaces(s, idx, 1, Len(s))
<1>1. CASE s = <<>>
  <2>1. LeftRangeIndex(s, idx) = 1
    BY <1>1, LeftSearch, Zenon
  <2>2. Len(s) = 0
    BY <1>1
  <2>3. QED
    BY <2>1, <2>2 DEF LeftPlaces
<1>2. CASE s # <<>>
  <2>1. /\ Len(s) \in Nat /\ Len(s) # 0 /\ DOMAIN s = 1..Len(s)
        /\ \A i \in 1..Len(s) : s[i].location \in Nat
    BY <1>2 DEF ProperRanges, Indexes
  <2>2. QED
    BY <1>2, <2>1, LeftSearchFinds
<1>3. QED
  BY <1>1, <1>2

\* In order, and no two with a number in common.
Apart(s) == \A i, j \in DOMAIN s : i < j => RangeRightBound(s[i]) < s[j].location

Holds(r, idx) == r.location <= idx /\ idx <= RangeRightBound(r)

\* If the middle range does not hold idx, only one half can.
LEMMA HalfThatHolds ==
  ASSUME NEW s, NEW n \in Nat, DOMAIN s = 1..n, Apart(s),
         \A i \in 1..n : s[i].location \in Nat /\ RangeRightBound(s[i]) \in Nat
                           /\ s[i].location <= RangeRightBound(s[i]),
         NEW idx \in Nat,
         NEW l \in 1..n, NEW r \in 1..n, NEW k \in 1..n, l <= k, k < r, ~Holds(s[k], idx)
  PROVE  IF idx < s[k].location
         THEN (\E i \in l..r : Holds(s[i], idx)) <=> \E i \in l..k : Holds(s[i], idx)
         ELSE (\E i \in l..r : Holds(s[i], idx)) <=> \E i \in k + 1..r : Holds(s[i], idx)
<1>1. ASSUME idx < s[k].location, NEW i \in l..r, Holds(s[i], idx) PROVE i \in l..k
  <2>1. i \in 1..n /\ i \in Nat /\ k \in Nat
    OBVIOUS
  <2>2. CASE k < i
    <3>1. RangeRightBound(s[k]) < s[i].location
      BY <2>1, <2>2 DEF Apart
    <3>2. QED
      BY <1>1, <2>1, <3>1 DEF Holds
  <2>3. QED
    BY <2>1, <2>2
<1>2. ASSUME ~(idx < s[k].location), NEW i \in l..r, Holds(s[i], idx) PROVE i \in k + 1..r
  <2>1. i \in 1..n /\ i \in Nat /\ k \in Nat
    OBVIOUS
  <2>2. RangeRightBound(s[k]) < idx
    BY <1>2 DEF Holds
  <2>3. CASE i < k
    <3>1. RangeRightBound(s[i]) < s[k].location
      BY <2>1, <2>3 DEF Apart
    <3>2. QED
      BY <1>2, <2>1, <2>2, <3>1 DEF Holds
  <2>4. CASE i = k
    BY <1>2, <2>4
  <2>5. QED
    BY <2>1, <2>3, <2>4
<1>3. l..k \subseteq l..r /\ k + 1..r \subseteq l..r
  OBVIOUS
<1>4. QED
  BY <1>1, <1>2, <1>3, Zenon

\* containsIndex as the code has it.
LEMMA ContainsSearch ==
  ASSUME NEW s, NEW idx
  PROVE  LET D == (DOMAIN s) \X (DOMAIN s)
         IN  ContainsIndex(s, idx) <=>
               /\ s # <<>>
               /\ (CHOOSE g : g = [p \in D |->
                     IF Holds(s[(p[1] + p[2]) \div 2], idx) THEN TRUE
                     ELSE IF p[1] = p[2] THEN FALSE
                     ELSE IF idx < s[(p[1] + p[2]) \div 2].location
                          THEN g[<<p[1], (p[1] + p[2]) \div 2>>]
                     ELSE g[<<(p[1] + p[2]) \div 2 + 1, p[2]>>]])[<<1, Len(s)>>]
  BY Zenon DEF ContainsIndex, Holds

\* It finds a range that holds idx, if there is one.
LEMMA ContainsSearchFinds ==
  ASSUME NEW s, NEW n \in Nat, n # 0, DOMAIN s = 1..n, Len(s) = n, s # <<>>, Apart(s),
         \A i \in 1..n : s[i].location \in Nat /\ RangeRightBound(s[i]) \in Nat
                           /\ s[i].location <= RangeRightBound(s[i]),
         NEW idx \in Nat
  PROVE  ContainsIndex(s, idx) <=> \E i \in 1..n : Holds(s[i], idx)
<1> DEFINE D == (1..n) \X (1..n)
           stop == [p \in D |-> Holds(s[(p[1] + p[2]) \div 2], idx) \/ p[1] = p[2]]
           answer == [p \in D |-> IF Holds(s[(p[1] + p[2]) \div 2], idx) THEN TRUE ELSE FALSE]
           lower == [p \in D |-> idx < s[(p[1] + p[2]) \div 2].location]
           right == [p \in D |-> {\E i \in p[1]..p[2] : Holds(s[i], idx)}]
<1>1. (DOMAIN s) \X (DOMAIN s) = D
  BY Zenon
<1>2. \A p \in D :
        /\ stop[p] <=> Holds(s[(p[1] + p[2]) \div 2], idx) \/ p[1] = p[2]
        /\ answer[p] = IF Holds(s[(p[1] + p[2]) \div 2], idx) THEN TRUE ELSE FALSE
        /\ lower[p] <=> idx < s[(p[1] + p[2]) \div 2].location
  BY Zenon
<1>3. ASSUME NEW l \in 1..n, NEW r \in 1..n
      PROVE  /\ stop[<<l, r>>] <=> Holds(s[(l + r) \div 2], idx) \/ l = r
             /\ answer[<<l, r>>] = IF Holds(s[(l + r) \div 2], idx) THEN TRUE ELSE FALSE
             /\ lower[<<l, r>>] <=> idx < s[(l + r) \div 2].location
             /\ right[<<l, r>>] = {\E i \in l..r : Holds(s[i], idx)}
  <2>1. <<l, r>> \in D /\ <<l, r>>[1] = l /\ <<l, r>>[2] = r
    OBVIOUS
  <2> HIDE DEF D
  <2>2. QED
    BY <2>1, Zenon
<1>4. stop \in [D -> BOOLEAN] /\ lower \in [D -> BOOLEAN]
  OBVIOUS
<1> HIDE DEF stop, answer, lower, right
<1>5. RightByHalves(n, stop, answer, lower, right)
  <2>1. ASSUME NEW l \in 1..n, NEW r \in 1..n, l <= r, stop[<<l, r>>]
        PROVE  answer[<<l, r>>] \in right[<<l, r>>]
    <3> DEFINE k == (l + r) \div 2
    <3>1. k \in l..r
      <4>1. l < r \/ l = r
        BY <2>1
      <4>2. QED
        BY <4>1, Middle
    <3>2. l = r => l..r = {l} /\ k = l
      BY Middle
    <3> HIDE DEF k
    <3>3. Holds(s[k], idx) <=> \E i \in l..r : Holds(s[i], idx)
      <4>1. Holds(s[k], idx) \/ l = r
        BY <1>3, <2>1, Zenon DEF k
      <4>2. QED
        BY <3>1, <3>2, <4>1, Zenon
    <3>4. /\ answer[<<l, r>>] = IF Holds(s[k], idx) THEN TRUE ELSE FALSE
          /\ right[<<l, r>>] = {\E i \in l..r : Holds(s[i], idx)}
      BY <1>3, Zenon DEF k
    <3>5. QED
      BY <3>3, <3>4, Zenon
  <2>2. ASSUME NEW l \in 1..n, NEW r \in 1..n, NEW k \in 1..n,
               l <= k, k < r, k = (l + r) \div 2, ~stop[<<l, r>>]
        PROVE  IF lower[<<l, r>>] THEN right[<<l, k>>] \subseteq right[<<l, r>>]
               ELSE right[<<k + 1, r>>] \subseteq right[<<l, r>>]
    <3>1. ~Holds(s[k], idx) /\ (lower[<<l, r>>] <=> idx < s[k].location)
      BY <1>3, <2>2, Zenon
    <3>2. k + 1 \in 1..n
      BY <2>2
    <3>3. /\ right[<<l, r>>] = {\E i \in l..r : Holds(s[i], idx)}
          /\ right[<<l, k>>] = {\E i \in l..k : Holds(s[i], idx)}
          /\ right[<<k + 1, r>>] = {\E i \in k + 1..r : Holds(s[i], idx)}
      BY <1>3, <3>2, Zenon
    <3>4. IF idx < s[k].location
          THEN (\E i \in l..r : Holds(s[i], idx)) <=> \E i \in l..k : Holds(s[i], idx)
          ELSE (\E i \in l..r : Holds(s[i], idx)) <=> \E i \in k + 1..r : Holds(s[i], idx)
      <4>1. l <= k /\ k < r
        BY <2>2
      <4>2. QED
        BY <3>1, <4>1, HalfThatHolds, Zenon
    <3>5. QED
      BY <3>1, <3>3, <3>4, Zenon
  <2>3. QED
    BY <2>1, <2>2 DEF RightByHalves
<1>6. (CHOOSE g : Halving(g, n, stop, answer, lower))[<<1, n>>] \in right[<<1, n>>]
  <2> DEFINE g == CHOOSE f : Halving(f, n, stop, answer, lower)
  <2>1. \A l \in 1..n : stop[<<l, l>>]
    BY <1>3, Zenon
  <2>2. \A l, r \in 1..n : l > r /\ stop[<<l, r>>] => answer[<<l, r>>] = TRUE
    <3> SUFFICES ASSUME NEW l \in 1..n, NEW r \in 1..n, l > r, stop[<<l, r>>]
                 PROVE  answer[<<l, r>>] = TRUE
      BY Zenon
    <3>1. l # r
      OBVIOUS
    <3>2. QED
      BY <1>3, <3>1, Zenon
  <2>3. Halving(g, n, stop, answer, lower)
    BY <1>4, <2>1, <2>2, SearchExists
  <2> HIDE DEF g, D
  <2>4. g[<<1, n>>] \in right[<<1, n>>]
    BY <1>5, <2>1, <2>3, SearchFinds
  <2>5. QED
    BY <2>4 DEF g
<1>7. ASSUME NEW g
      PROVE  g = [p \in (DOMAIN s) \X (DOMAIN s) |->
               IF Holds(s[(p[1] + p[2]) \div 2], idx) THEN TRUE
               ELSE IF p[1] = p[2] THEN FALSE
               ELSE IF idx < s[(p[1] + p[2]) \div 2].location
                    THEN g[<<p[1], (p[1] + p[2]) \div 2>>]
               ELSE g[<<(p[1] + p[2]) \div 2 + 1, p[2]>>]]
             <=> Halving(g, n, stop, answer, lower)
  <2> HIDE DEF D
  <2>1. ASSUME NEW p \in D
        PROVE
          (IF Holds(s[(p[1] + p[2]) \div 2], idx) THEN TRUE
           ELSE IF p[1] = p[2] THEN FALSE
           ELSE IF idx < s[(p[1] + p[2]) \div 2].location
                THEN g[<<p[1], (p[1] + p[2]) \div 2>>]
           ELSE g[<<(p[1] + p[2]) \div 2 + 1, p[2]>>])
          = IF stop[p] THEN answer[p]
            ELSE IF lower[p] THEN g[<<p[1], (p[1] + p[2]) \div 2>>]
            ELSE g[<<(p[1] + p[2]) \div 2 + 1, p[2]>>]
    BY <1>2, Zenon
  <2>2. Halving(g, n, stop, answer, lower) <=>
          g = [p \in D |-> IF stop[p] THEN answer[p]
                           ELSE IF lower[p] THEN g[<<p[1], (p[1] + p[2]) \div 2>>]
                           ELSE g[<<(p[1] + p[2]) \div 2 + 1, p[2]>>]]
    BY Zenon DEF Halving, D
  <2>3. (DOMAIN s) \X (DOMAIN s) = D
    BY <1>1 DEF D
  <2>4. [p \in D |->
           IF Holds(s[(p[1] + p[2]) \div 2], idx) THEN TRUE
           ELSE IF p[1] = p[2] THEN FALSE
           ELSE IF idx < s[(p[1] + p[2]) \div 2].location
                THEN g[<<p[1], (p[1] + p[2]) \div 2>>]
           ELSE g[<<(p[1] + p[2]) \div 2 + 1, p[2]>>]]
        = [p \in D |-> IF stop[p] THEN answer[p]
                       ELSE IF lower[p] THEN g[<<p[1], (p[1] + p[2]) \div 2>>]
                       ELSE g[<<(p[1] + p[2]) \div 2 + 1, p[2]>>]]
    BY <2>1, Zenon
  <2>5. QED
    BY <2>2, <2>3, <2>4, Zenon
<1>8. ContainsIndex(s, idx) <=> (CHOOSE g : Halving(g, n, stop, answer, lower))[<<1, n>>]
  <2> DEFINE Eq(g) == g = [p \in (DOMAIN s) \X (DOMAIN s) |->
               IF Holds(s[(p[1] + p[2]) \div 2], idx) THEN TRUE
               ELSE IF p[1] = p[2] THEN FALSE
               ELSE IF idx < s[(p[1] + p[2]) \div 2].location
                    THEN g[<<p[1], (p[1] + p[2]) \div 2>>]
               ELSE g[<<(p[1] + p[2]) \div 2 + 1, p[2]>>]]
  <2>1. ContainsIndex(s, idx) <=> (CHOOSE g : Eq(g))[<<1, n>>]
    BY ContainsSearch, Zenon
  <2>2. \A g : Eq(g) <=> Halving(g, n, stop, answer, lower)
    BY <1>7, Zenon
  <2> HIDE DEF Eq
  <2>3. (CHOOSE g : Eq(g)) = CHOOSE g : Halving(g, n, stop, answer, lower)
    BY <2>2
  <2>4. QED
    BY <2>1, <2>3
<1>9. right[<<1, n>>] = {\E i \in 1..n : Holds(s[i], idx)}
  <2>1. 1 \in 1..n /\ n \in 1..n
    OBVIOUS
  <2>2. QED
    BY <1>3, <2>1, Zenon
<1>10. QED
  BY <1>6, <1>8, <1>9, Zenon

-----------------------------------------------------------------------------
(* A part of the array replaced.                                           *)

\* The numbers in the array.
Covered(s) == UNION {Span(s[i]) : i \in DOMAIN s}

\* c is a followed by b.
Joined(S, a, b, c) ==
  /\ c \in Seq(S) /\ Len(c) = Len(a) + Len(b)
  /\ \A i \in 1..Len(a) : c[i] = a[i]
  /\ \A i \in 1..Len(b) : c[Len(a) + i] = b[i]

\* What \o does.
LEMMA ConcatIs ==
  ASSUME NEW S, NEW a \in Seq(S), NEW b \in Seq(S) PROVE Joined(S, a, b, a \o b)
  BY DEF Joined

\* R is s with t for the elements from k to m.
Replaced(S, s, k, m, t, R) ==
  /\ R \in Seq(S)
  /\ Len(R) = (k - 1) + Len(t) + (Len(s) - m)
  /\ \A i \in 1..k - 1 : R[i] = s[i]
  /\ \A i \in 1..Len(t) : R[k - 1 + i] = t[i]
  /\ \A i \in m + 1..Len(s) : R[k - 1 + Len(t) + (i - m)] = s[i]

\* What Replace does.
LEMMA ReplaceIs ==
  ASSUME NEW S, NEW s \in Seq(S), NEW t \in Seq(S),
         NEW k \in 1..Len(s) + 1, NEW m \in k - 1..Len(s)
  PROVE  Replaced(S, s, k, m, t, Replace(s, k, m, t))
<1> DEFINE a == SubSeq(s, 1, k - 1)
           b == SubSeq(s, m + 1, Len(s))
           c == a \o t
           R == c \o b
<1>1. /\ Len(s) \in Nat /\ k \in Nat /\ m \in Nat /\ Len(t) \in Nat
      /\ k - 1 <= Len(s) /\ m <= Len(s) /\ k - 1 <= m /\ 1 <= k
  OBVIOUS
<1>2. a \in Seq(S) /\ Len(a) = k - 1 /\ \A i \in 1..k - 1 : a[i] = s[i]
  BY <1>1
<1>3. b \in Seq(S) /\ Len(b) = Len(s) - m /\ \A i \in 1..Len(s) - m : b[i] = s[m + i]
  BY <1>1
<1>4. Replace(s, k, m, t) = R
  BY DEF Replace
<1> HIDE DEF a, b
<1>5. Joined(S, a, t, c)
  BY <1>2, ConcatIs, Zenon
<1> HIDE DEF c
<1>6. Joined(S, c, b, R)
  <2>1. c \in Seq(S)
    BY <1>5 DEF Joined
  <2>2. QED
    BY <1>3, <2>1, ConcatIs, Zenon
<1> HIDE DEF R
<1>7. R \in Seq(S) /\ Len(R) = (k - 1) + Len(t) + (Len(s) - m) /\ Len(c) = k - 1 + Len(t)
  BY <1>1, <1>2, <1>3, <1>5, <1>6 DEF Joined
<1>8. ASSUME NEW i \in m + 1..Len(s)
      PROVE  R[k - 1 + Len(t) + (i - m)] = s[i]
  <2>1. i - m \in 1..Len(b) /\ m + (i - m) = i /\ i - m \in 1..Len(s) - m
    BY <1>1, <1>3
  <2>2. R[Len(c) + (i - m)] = b[i - m]
    BY <1>6, <2>1 DEF Joined
  <2>3. b[i - m] = s[i]
    BY <1>3, <2>1
  <2>4. QED
    BY <1>1, <1>7, <2>2, <2>3
<1>9. ASSUME NEW i \in 1..k - 1 PROVE R[i] = s[i]
  <2>1. i \in 1..Len(a) /\ i \in 1..Len(c)
    BY <1>1, <1>2, <1>7
  <2>2. R[i] = c[i] /\ c[i] = a[i] /\ a[i] = s[i]
    BY <1>2, <1>5, <1>6, <2>1 DEF Joined
  <2>3. QED
    BY <2>2
<1>10. ASSUME NEW i \in 1..Len(t) PROVE R[k - 1 + i] = t[i]
  <2>1. k - 1 + i \in 1..Len(c)
    BY <1>1, <1>7
  <2>2. R[k - 1 + i] = c[k - 1 + i]
    BY <1>6, <2>1 DEF Joined
  <2>3. c[Len(a) + i] = t[i]
    BY <1>5 DEF Joined
  <2>4. QED
    BY <1>2, <2>2, <2>3
<1>11. QED
  BY <1>4, <1>7, <1>8, <1>9, <1>10 DEF Replaced

\* Where an element of the result comes from.
LEMMA ReplaceFrom ==
  ASSUME NEW S, NEW s \in Seq(S), NEW t \in Seq(S),
         NEW k \in 1..Len(s) + 1, NEW m \in k - 1..Len(s),
         NEW i \in DOMAIN Replace(s, k, m, t)
  PROVE  \/ i < k /\ i \in DOMAIN s /\ Replace(s, k, m, t)[i] = s[i]
         \/ /\ k <= i /\ i < k + Len(t) /\ i - k + 1 \in DOMAIN t
            /\ Replace(s, k, m, t)[i] = t[i - k + 1]
         \/ /\ k + Len(t) <= i /\ i - k + 1 - Len(t) + m \in m + 1..Len(s)
            /\ Replace(s, k, m, t)[i] = s[i - k + 1 - Len(t) + m]
<1> DEFINE R == Replace(s, k, m, t)
<1>1. Replaced(S, s, k, m, t, R)
  BY ReplaceIs, Zenon
<1> HIDE DEF R
<1>2. /\ Len(s) \in Nat /\ k \in Nat /\ m \in Nat /\ Len(t) \in Nat
      /\ k - 1 <= Len(s) /\ m <= Len(s) /\ k - 1 <= m /\ 1 <= k
      /\ DOMAIN s = 1..Len(s) /\ DOMAIN t = 1..Len(t)
  OBVIOUS
<1>3. i \in Nat /\ 1 <= i /\ i <= (k - 1) + Len(t) + (Len(s) - m)
  <2>1. i \in 1..Len(R)
    BY <1>1 DEF R, Replaced
  <2>2. QED
    BY <1>1, <1>2, <2>1 DEF Replaced
<1>4. CASE i < k
  BY <1>1, <1>2, <1>3, <1>4 DEF R, Replaced
<1>5. CASE k <= i /\ i < k + Len(t)
  <2>1. i - k + 1 \in 1..Len(t) /\ k - 1 + (i - k + 1) = i
    BY <1>2, <1>3, <1>5
  <2>2. QED
    BY <1>1, <1>2, <1>5, <2>1 DEF R, Replaced
<1>6. CASE k + Len(t) <= i
  <2> DEFINE j == i - k + 1 - Len(t) + m
  <2>1. j \in m + 1..Len(s) /\ k - 1 + Len(t) + (j - m) = i
    BY <1>2, <1>3, <1>6
  <2> HIDE DEF j
  <2>2. R[i] = s[j]
    BY <1>1, <2>1 DEF Replaced
  <2>3. QED
    BY <1>6, <2>1, <2>2 DEF R, j
<1>7. QED
  BY <1>2, <1>3, <1>4, <1>5, <1>6

\* The numbers in the array outside the part from k to m.
Outside(s, k, m) == UNION {Span(s[i]) : i \in {j \in DOMAIN s : j < k \/ m < j}}

\* The numbers of the part go, those of t come.
LEMMA ReplaceCovers ==
  ASSUME NEW S, NEW s \in Seq(S), NEW t \in Seq(S),
         NEW k \in 1..Len(s) + 1, NEW m \in k - 1..Len(s)
  PROVE  Covered(Replace(s, k, m, t)) = Outside(s, k, m) \cup Covered(t)
<1> DEFINE R == Replace(s, k, m, t)
           rest == {i \in DOMAIN s : i < k \/ m < i}
<1>1. /\ Len(s) \in Nat /\ k \in Nat /\ m \in Nat /\ Len(t) \in Nat
      /\ k - 1 <= Len(s) /\ m <= Len(s) /\ k - 1 <= m /\ 1 <= k
      /\ DOMAIN s = 1..Len(s) /\ DOMAIN t = 1..Len(t)
  OBVIOUS
<1>2. Replaced(S, s, k, m, t, R)
  BY ReplaceIs, Zenon
<1> HIDE DEF R
<1>3. DOMAIN R = 1..(k - 1) + Len(t) + (Len(s) - m)
  BY <1>2 DEF Replaced
<1>4. ASSUME NEW i \in DOMAIN R
      PROVE  \/ \E j \in rest : R[i] = s[j]
             \/ \E j \in DOMAIN t : R[i] = t[j]
  <2>1. m + 1..Len(s) \subseteq rest
    BY <1>1
  <2>2. QED
    BY <2>1, ReplaceFrom DEF R
<1>5. ASSUME NEW j \in rest PROVE \E i \in DOMAIN R : R[i] = s[j]
  <2>1. CASE j < k
    <3>1. j \in 1..k - 1 /\ j \in DOMAIN R
      BY <1>1, <1>3, <2>1
    <3>2. R[j] = s[j]
      BY <1>2, <3>1 DEF Replaced
    <3>3. QED
      BY <3>1, <3>2
  <2>2. CASE m < j
    <3>1. j \in m + 1..Len(s) /\ k - 1 + Len(t) + (j - m) \in DOMAIN R
      BY <1>1, <1>3, <2>2
    <3>2. R[k - 1 + Len(t) + (j - m)] = s[j]
      BY <1>2, <3>1 DEF Replaced
    <3>3. QED
      BY <3>1, <3>2
  <2>3. QED
    BY <2>1, <2>2
<1>6. ASSUME NEW j \in DOMAIN t PROVE \E i \in DOMAIN R : R[i] = t[j]
  <2>1. j \in 1..Len(t) /\ k - 1 + j \in DOMAIN R
    BY <1>1, <1>3
  <2>2. R[k - 1 + j] = t[j]
    BY <1>2, <2>1 DEF Replaced
  <2>3. QED
    BY <2>1, <2>2
<1> HIDE DEF rest
<1>7. Covered(R) = (UNION {Span(s[i]) : i \in rest}) \cup Covered(t)
  <2>1. ASSUME NEW x \in Covered(R)
        PROVE  x \in (UNION {Span(s[i]) : i \in rest}) \cup Covered(t)
    BY <1>4 DEF Covered
  <2>2. ASSUME NEW x \in UNION {Span(s[i]) : i \in rest} PROVE x \in Covered(R)
    BY <1>5 DEF Covered
  <2>3. ASSUME NEW x \in Covered(t) PROVE x \in Covered(R)
    BY <1>6 DEF Covered
  <2>4. QED
    BY <2>1, <2>2, <2>3
<1>8. QED
  BY <1>7 DEF R, rest, Outside

\* What takes the place of a part fits in it if it begins after what is before
\* the part and ends before what is behind it.
LEMMA ReplaceApart ==
  ASSUME NEW S, NEW s \in Seq(S), NEW t \in Seq(S),
         NEW k \in 1..Len(s) + 1, NEW m \in k - 1..Len(s), Apart(t),
         \A i, j \in DOMAIN s : i < j /\ (i < k \/ m < i) /\ (j < k \/ m < j)
           => RangeRightBound(s[i]) < s[j].location,
         \A i \in DOMAIN s, j \in DOMAIN t :
           /\ i < k => RangeRightBound(s[i]) < t[j].location
           /\ m < i => RangeRightBound(t[j]) < s[i].location
  PROVE  Apart(Replace(s, k, m, t))
<1> DEFINE R == Replace(s, k, m, t)
<1>1. SUFFICES ASSUME NEW i \in DOMAIN R, NEW j \in DOMAIN R, i < j
               PROVE  RangeRightBound(R[i]) < R[j].location
  BY Zenon DEF Apart
<1>2. /\ Len(s) \in Nat /\ k \in Nat /\ m \in Nat /\ Len(t) \in Nat
      /\ k - 1 <= Len(s) /\ m <= Len(s) /\ k - 1 <= m /\ 1 <= k
      /\ DOMAIN s = 1..Len(s) /\ DOMAIN t = 1..Len(t)
  OBVIOUS
<1>3. i \in Nat /\ j \in Nat
  <2>1. DOMAIN R = 1..(k - 1) + Len(t) + (Len(s) - m)
    BY ReplaceIs DEF Replaced
  <2>2. QED
    BY <1>2, <2>1
<1> HIDE DEF R
<1> DEFINE from(x) == x - k + 1 - Len(t) + m
<1>4. ASSUME NEW x \in DOMAIN R
      PROVE  \/ x < k /\ x \in DOMAIN s /\ R[x] = s[x]
             \/ /\ k <= x /\ x < k + Len(t) /\ x - k + 1 \in DOMAIN t
                /\ R[x] = t[x - k + 1]
             \/ /\ k + Len(t) <= x /\ from(x) \in m + 1..Len(s)
                /\ R[x] = s[from(x)]
  BY ReplaceFrom DEF R
<1>5. CASE j < k
  <2>1. j \in DOMAIN s /\ R[j] = s[j] /\ i < k
    BY <1>1, <1>2, <1>3, <1>4, <1>5
  <2>2. i \in DOMAIN s /\ R[i] = s[i]
    BY <1>2, <1>3, <1>4, <2>1
  <2>3. QED
    BY <1>1, <1>5, <2>1, <2>2
<1>6. CASE k <= j /\ j < k + Len(t)
  <2>1. j - k + 1 \in DOMAIN t /\ R[j] = t[j - k + 1] /\ i < k + Len(t)
    BY <1>1, <1>2, <1>3, <1>4, <1>6
  <2>2. CASE i < k
    <3>1. i \in DOMAIN s /\ R[i] = s[i]
      BY <1>2, <1>3, <1>4, <2>2
    <3>2. QED
      BY <2>1, <2>2, <3>1
  <2>3. CASE ~(i < k)
    <3>1. i - k + 1 \in DOMAIN t /\ R[i] = t[i - k + 1]
      BY <1>2, <1>3, <1>4, <2>1, <2>3
    <3>2. i - k + 1 < j - k + 1
      BY <1>1, <1>2, <1>3
    <3>3. QED
      BY <2>1, <3>1, <3>2 DEF Apart
  <2>4. QED
    BY <2>2, <2>3
<1>7. CASE k + Len(t) <= j
  <2>1. from(j) \in m + 1..Len(s) /\ R[j] = s[from(j)]
    <3> HIDE DEF from
    <3>1. ~(j < k) /\ ~(j < k + Len(t))
      BY <1>2, <1>3, <1>7
    <3>2. QED
      BY <1>4, <3>1, Zenon
  <2>2. from(j) \in DOMAIN s /\ m < from(j)
    BY <1>2, <2>1
  <2>3. CASE i < k
    <3>1. i \in DOMAIN s /\ R[i] = s[i]
      BY <1>2, <1>3, <1>4, <2>3
    <3>2. i < from(j)
      BY <1>2, <1>3, <2>2, <2>3
    <3> HIDE DEF from
    <3>3. QED
      BY <2>1, <2>2, <2>3, <3>1, <3>2
  <2>4. CASE k <= i /\ i < k + Len(t)
    <3>1. i - k + 1 \in DOMAIN t /\ R[i] = t[i - k + 1]
      BY <1>2, <1>3, <1>4, <2>4
    <3> HIDE DEF from
    <3>2. QED
      BY <2>1, <2>2, <3>1
  <2>5. CASE k + Len(t) <= i
    <3>1. from(i) \in m + 1..Len(s) /\ R[i] = s[from(i)]
      <4> HIDE DEF from
      <4>1. ~(i < k) /\ ~(i < k + Len(t))
        BY <1>2, <1>3, <2>5
      <4>2. QED
        BY <1>4, <4>1, Zenon
    <3>2. from(i) \in DOMAIN s /\ m < from(i) /\ from(i) < from(j)
      BY <1>1, <1>2, <1>3, <3>1
    <3> HIDE DEF from
    <3>3. QED
      BY <2>1, <2>2, <3>1, <3>2
  <2>6. QED
    BY <1>2, <1>3, <2>3, <2>4, <2>5
<1>8. QED
  BY <1>2, <1>3, <1>5, <1>6, <1>7

-----------------------------------------------------------------------------
(* Adding.                                                                 *)

\* The loops stop at the first range that r does not meet.
LEMMA LastMetIs ==
  ASSUME NEW s, NEW n \in Nat, Len(s) = n, NEW k \in 1..n + 1, NEW r
  PROVE  /\ LastMet(s, k, r) \in k - 1..n
         /\ \A i \in k..LastMet(s, k, r) : RangeHasIntersection(s[i], r)
         /\ LastMet(s, k, r) < n => ~RangeHasIntersection(s[LastMet(s, k, r) + 1], r)
<1> DEFINE ends == {m \in k - 1..n : m = n \/ ~RangeHasIntersection(s[m + 1], r)}
<1>1. n \in ends /\ ends \in SUBSET Nat
  OBVIOUS
<1>2. PICK m \in ends : \A i \in Nat : i < m => i \notin ends
  <2> HIDE DEF ends
  <2> QED BY <1>1, LeastBad
<1>3. m \in k - 1..n /\ (m < n => ~RangeHasIntersection(s[m + 1], r))
  OBVIOUS
<1>4. ASSUME NEW i \in k..m PROVE RangeHasIntersection(s[i], r)
  <2>1. i - 1 \in Nat /\ i - 1 < m /\ i - 1 \in k - 1..n /\ i - 1 # n /\ (i - 1) + 1 = i
    BY <1>3
  <2>2. i - 1 \notin ends
    BY <1>2, <2>1
  <2>3. QED
    BY <2>1, <2>2
<1>5. QED
  <2> DEFINE Is(x) == /\ \A i \in k..x : RangeHasIntersection(s[i], r)
                      /\ x < n => ~RangeHasIntersection(s[x + 1], r)
  <2>1. LastMet(s, k, r) = CHOOSE x \in k - 1..n : Is(x)
    BY DEF LastMet
  <2>2. \E x \in k - 1..n : Is(x)
    BY <1>3, <1>4
  <2> HIDE DEF Is
  <2>3. LastMet(s, k, r) \in k - 1..n /\ Is(LastMet(s, k, r))
    BY <2>1, <2>2, Zenon
  <2>4. QED
    BY <2>3 DEF Is

\* A range and its numbers.
LEMMA ProperRange ==
  ASSUME UINT64_MAX \in Nat, NEW r \in ProperRanges
  PROVE  /\ Proper(r) /\ r.location \in Nat /\ r.location < UINT64_MAX
         /\ RangeRightBound(r) \in Nat /\ r.location <= RangeRightBound(r)
         /\ RangeRightBound(r) <= UINT64_MAX
<1>1. Proper(r)
  BY ProperRangesAreProper
<1>2. r.location \in Nat /\ r.location < UINT64_MAX
  BY <1>1 DEF Proper
<1>3. QED
  BY <1>1, <1>2, RightBound

\* Ranges side by side become one (tryToMergeAdjacentRanges).
LEMMA JoinedIsUnion ==
  ASSUME UINT64_MAX \in Nat, NEW a \in ProperRanges, NEW b \in ProperRanges,
         RangeRightBound(a) + 1 = b.location
  PROVE  LET joined == RangeMake(a.location, RangeRightBound(b) - a.location)
         IN  /\ joined \in ProperRanges
             /\ joined.location = a.location
             /\ RangeRightBound(joined) = RangeRightBound(b)
             /\ Span(joined) = Span(a) \cup Span(b)
<1> DEFINE left == a.location
           right == RangeRightBound(b)
           joined == RangeMake(left, right - left)
<1>1. /\ left \in Nat /\ right \in Nat /\ left < right /\ right <= UINT64_MAX
      /\ left < UINT64_MAX /\ left <= RangeRightBound(a) /\ RangeRightBound(a) \in Nat
      /\ b.location \in Nat /\ b.location <= right
  BY ProperRange
<1> HIDE DEF right, left
<1>2. joined = [location |-> left, length |-> right - left]
  BY DEF RangeMake
<1>3. joined.location = left /\ joined.length = right - left
  BY <1>2
<1>4. joined \in ProperRanges
  <2>1. left \in Indexes /\ right - left \in 0..UINT64_MAX /\ left + (right - left) = right
    BY <1>1 DEF Indexes
  <2>2. joined \in [location : Indexes, length : 0..UINT64_MAX]
    BY <1>2, <2>1
  <2>3. joined.location + joined.length <= UINT64_MAX
    BY <1>1, <1>3, <2>1
  <2> HIDE DEF joined
  <2>4. QED
    BY <2>2, <2>3 DEF ProperRanges
<1>5. RangeRightBound(joined) = right
  <2>1. CASE right - left = UINT64_MAX
    BY <1>1, <1>3, <2>1 DEF RangeRightBound
  <2>2. CASE right - left # UINT64_MAX
    <3>1. left + (right - left) = right /\ Wrapped(right) = right
      BY <1>1, Fits
    <3>2. RangeRightBound(joined) = Wrapped(joined.location + joined.length)
      BY <1>3, <2>2 DEF RangeRightBound
    <3>3. QED
      BY <1>3, <3>1, <3>2
  <2>3. QED
    BY <2>1, <2>2
<1> HIDE DEF joined
<1>6. ASSUME NEW i \in Indexes
      PROVE  i \in Span(joined) <=> i \in Span(a) \/ i \in Span(b)
  <2>1. i \in Nat
    BY DEF Indexes
  <2>2. i \in Span(joined) <=> left <= i /\ i <= right
    BY <1>3, <1>5 DEF Span
  <2>3. i \in Span(a) <=> left <= i /\ i <= RangeRightBound(a)
    BY DEF Span, left
  <2>4. i \in Span(b) <=> RangeRightBound(a) + 1 <= i /\ i <= right
    BY DEF Span, right
  <2>5. QED
    BY <1>1, <2>1, <2>2, <2>3, <2>4
<1>7. Span(joined) = Span(a) \cup Span(b)
  BY <1>6 DEF Span
<1>8. QED
  BY <1>3, <1>4, <1>5, <1>7 DEF joined, left, right

\* Two neighbours are joined if no number lies between them: the array holds
\* what it held.
LEMMA AdjacentIs ==
  ASSUME UINT64_MAX \in Nat, NEW s \in Seq(ProperRanges), NEW k \in 1..Len(s) - 1
  PROVE  LET t == TryToMergeAdjacentRanges(s, k)
         IN  /\ t \in Seq(ProperRanges)
             /\ Apart(s) => Apart(t) /\ Covered(t) = Covered(s)
<1> DEFINE a == s[k]
           b == s[k + 1]
           joined == RangeMake(a.location, RangeRightBound(b) - a.location)
           t == TryToMergeAdjacentRanges(s, k)
<1>1. /\ k \in DOMAIN s /\ k + 1 \in DOMAIN s /\ DOMAIN s = 1..Len(s) /\ Len(s) \in Nat
      /\ a \in ProperRanges /\ b \in ProperRanges
  OBVIOUS
<1>2. CASE RangeRightBound(a) = UINT64_MAX \/ RangeRightBound(a) + 1 # b.location
  BY <1>2 DEF TryToMergeAdjacentRanges
<1>3. CASE ~(RangeRightBound(a) = UINT64_MAX \/ RangeRightBound(a) + 1 # b.location)
  <2>1. t = Replace(s, k, k + 1, <<joined>>)
    BY <1>3 DEF TryToMergeAdjacentRanges
  <2>2. /\ joined \in ProperRanges
        /\ joined.location = a.location
        /\ RangeRightBound(joined) = RangeRightBound(b)
        /\ Span(joined) = Span(a) \cup Span(b)
    BY <1>1, <1>3, JoinedIsUnion
  <2> HIDE DEF joined, t
  <2>3. <<joined>> \in Seq(ProperRanges) /\ DOMAIN <<joined>> = {1} /\ <<joined>>[1] = joined
    BY <2>2
  <2>4. k \in 1..Len(s) + 1 /\ k + 1 \in k - 1..Len(s)
    BY <1>1
  <2>5. t \in Seq(ProperRanges)
    BY <2>1, <2>3, <2>4, ReplaceIs DEF Replaced
  <2>6. ASSUME Apart(s) PROVE Apart(t)
    <3>1. Apart(<<joined>>)
      BY <2>3 DEF Apart
    <3>2. \A i, j \in DOMAIN s : i < j => RangeRightBound(s[i]) < s[j].location
      BY <2>6 DEF Apart
    <3>3. \A i \in DOMAIN s, j \in {1} :
            /\ i < k => RangeRightBound(s[i]) < <<joined>>[j].location
            /\ k + 1 < i => RangeRightBound(<<joined>>[j]) < s[i].location
      BY <1>1, <2>2, <2>3, <3>2
    <3>4. QED
      BY <2>1, <2>3, <2>4, <3>1, <3>2, <3>3, ReplaceApart
  <2>7. Covered(t) = Covered(s)
    <3>1. Covered(t) = Outside(s, k, k + 1) \cup Covered(<<joined>>)
      <4> DEFINE u == <<joined>>
                 last == k + 1
      <4>1. /\ u \in Seq(ProperRanges) /\ t = Replace(s, k, last, u)
            /\ k \in 1..Len(s) + 1 /\ last \in k - 1..Len(s)
        BY <2>1, <2>3, <2>4, Zenon
      <4> HIDE DEF u, last
      <4>2. Covered(Replace(s, k, last, u)) = Outside(s, k, last) \cup Covered(u)
        BY <4>1, ReplaceCovers
      <4>3. QED
        BY <4>1, <4>2, Zenon DEF u, last
    <3>2. Covered(<<joined>>) = Span(s[k]) \cup Span(s[k + 1])
      BY <2>2, <2>3 DEF Covered
    <3>3. {i \in DOMAIN s : i < k \/ k + 1 < i} \cup {k, k + 1} = DOMAIN s
      BY <1>1
    <3>4. QED
      BY <3>1, <3>2, <3>3 DEF Covered, Outside
  <2>8. QED
    BY <2>5, <2>6, <2>7 DEF t
<1>4. QED
  BY <1>2, <1>3

\* In order and apart, but for what the range k meets after it.
Placed(s, k) ==
  /\ \A i, j \in DOMAIN s \ {k} : i < j => RangeRightBound(s[i]) < s[j].location
  /\ \A i \in DOMAIN s : i < k => RangeRightBound(s[i]) < s[k].location
  /\ \A i \in DOMAIN s : k < i => s[k].location <= s[i].location

\* Ranges that do not meet, the second not before the first.
LEMMA NotMet ==
  ASSUME UINT64_MAX \in Nat, NEW a \in ProperRanges, NEW b \in ProperRanges,
         b.location <= a.location, ~RangeHasIntersection(a, b)
  PROVE  RangeRightBound(b) < a.location
<1>1. /\ a.location \in Nat /\ b.location \in Nat /\ RangeRightBound(a) \in Nat
      /\ RangeRightBound(b) \in Nat /\ a.location < UINT64_MAX
      /\ a.location <= RangeRightBound(a) /\ Proper(a) /\ Proper(b)
  BY ProperRange
<1>2. CASE RangeRightBound(b) >= a.location
  <2>1. a.location \in Indexes /\ a.location \in Span(a) /\ a.location \in Span(b)
    BY <1>1, <1>2 DEF Span, Indexes
  <2>2. QED
    BY <1>1, <2>1, HasIntersectionIsExact
<1>3. QED
  BY <1>1, <1>2

\* Of two ranges that meet, each begins before the other ends.
LEMMA Met ==
  ASSUME UINT64_MAX \in Nat, NEW a \in ProperRanges, NEW b \in ProperRanges,
         RangeHasIntersection(a, b)
  PROVE  a.location <= RangeRightBound(b) /\ b.location <= RangeRightBound(a)
<1>1. /\ a.location \in Nat /\ b.location \in Nat /\ RangeRightBound(a) \in Nat
      /\ RangeRightBound(b) \in Nat /\ Proper(a) /\ Proper(b)
  BY ProperRange
<1>2. PICK i \in Indexes : i \in Span(a) /\ i \in Span(b)
  BY <1>1, HasIntersectionIsExact DEF Span
<1>3. QED
  BY <1>1, <1>2 DEF Span, Indexes

\* mergeRanges begins with the range added, which meets itself.
LEMMA RangeMeetsItself ==
  ASSUME UINT64_MAX \in Nat, NEW a \in ProperRanges PROVE RangeHasIntersection(a, a)
<1>1. a.location \in Span(a) /\ Proper(a)
  BY ProperRange DEF Span, Indexes
<1>2. QED
  BY <1>1, HasIntersectionIsExact

\* mergeRanges joins the range added with those it meets after it.
LEMMA MergeIs ==
  ASSUME UINT64_MAX \in Nat, NEW s \in Seq(ProperRanges), NEW k \in 1..Len(s)
  PROVE  LET t == MergeRanges(s, k)
         IN  /\ t \in Seq(ProperRanges) /\ k \in 1..Len(t)
             /\ Placed(s, k) => Apart(t) /\ Covered(t) = Covered(s)
<1> DEFINE m == LastMet(s, k, s[k])
           joined == RangeUnion(s[k], s[m])
           t == MergeRanges(s, k)
<1>1. /\ k \in DOMAIN s /\ DOMAIN s = 1..Len(s) /\ Len(s) \in Nat /\ k \in Nat /\ 1 <= k
      /\ \A i \in DOMAIN s : s[i] \in ProperRanges
  OBVIOUS
<1>2. /\ m \in k - 1..Len(s)
      /\ \A i \in k..m : RangeHasIntersection(s[i], s[k])
      /\ m < Len(s) => ~RangeHasIntersection(s[m + 1], s[k])
  BY <1>1, LastMetIs
<1> HIDE DEF m
<1>3. k <= m
  <2>1. CASE m = k - 1
    <3>1. m + 1 = k /\ m < Len(s)
      BY <1>1, <2>1
    <3>2. QED
      BY <1>1, <1>2, <3>1, RangeMeetsItself
  <2>2. QED
    BY <1>1, <1>2, <2>1
<1>4. m \in DOMAIN s /\ m \in Nat /\ m <= Len(s)
  BY <1>1, <1>2, <1>3
<1>5. ASSUME \A i \in DOMAIN s : k < i => s[k].location <= s[i].location, m < Len(s)
      PROVE  RangeRightBound(s[k]) < s[m + 1].location
  <2>1. m + 1 \in DOMAIN s /\ k < m + 1
    BY <1>1, <1>3, <1>4, <1>5
  <2>2. QED
    BY <1>1, <1>2, <1>5, <2>1, NotMet
<1>6. CASE m <= k
  <2>1. t = s /\ m = k
    BY <1>1, <1>3, <1>4, <1>6 DEF MergeRanges, m
  <2>2. ASSUME Placed(s, k) PROVE Apart(s)
    <3>1. ASSUME NEW i \in DOMAIN s, k < i PROVE RangeRightBound(s[k]) < s[i].location
      <4>1. m < Len(s) /\ k + 1 \in DOMAIN s /\ i \in Nat
        BY <1>1, <2>1, <3>1
      <4>2. RangeRightBound(s[k]) < s[k + 1].location
        BY <1>5, <2>1, <2>2, <4>1 DEF Placed
      <4>3. i = k + 1 \/ RangeRightBound(s[k + 1]) < s[i].location
        <5>1. i = k + 1 \/ k + 1 < i
          BY <1>1, <3>1, <4>1
        <5>2. k + 1 \in DOMAIN s \ {k} /\ i \in DOMAIN s \ {k}
          BY <1>1, <3>1, <4>1
        <5>3. QED
          BY <2>2, <5>1, <5>2 DEF Placed
      <4>4. s[k + 1] \in ProperRanges /\ s[k] \in ProperRanges /\ s[i] \in ProperRanges
        BY <1>1, <4>1
      <4>5. QED
        BY <4>2, <4>3, <4>4, ProperRange
    <3>2. QED
      BY <2>2, <3>1 DEF Placed, Apart
  <2>3. QED
    BY <2>1, <2>2
<1>7. CASE k < m
  <2>1. t = Replace(s, k, m, <<joined>>)
    BY <1>1, <1>4, <1>7 DEF MergeRanges, m
  <2>2. /\ joined \in ProperRanges
        /\ joined.location = Smaller(s[k].location, s[m].location)
        /\ RangeRightBound(joined) = Larger(RangeRightBound(s[k]), RangeRightBound(s[m]))
        /\ Span(joined) = Span(s[k]) \cup Span(s[m])
    <3>1. Proper(s[k]) /\ Proper(s[m])
      BY <1>1, <1>4, ProperRange
    <3>2. RangeHasIntersection(s[k], s[m])
      <4>1. RangeHasIntersection(s[m], s[k])
        BY <1>2, <1>3, <1>4
      <4>2. QED
        BY <3>1, <4>1, HasIntersectionIsExact
    <3>3. QED
      BY <3>1, <3>2, UnionIsExact, ProperRangesAreProper
  <2>3. <<joined>> \in Seq(ProperRanges) /\ DOMAIN <<joined>> = {1} /\ <<joined>>[1] = joined
        /\ Len(<<joined>>) = 1
    BY <2>2
  <2> HIDE DEF joined, t
  <2>4. k \in 1..Len(s) + 1 /\ m \in k - 1..Len(s)
    BY <1>1, <1>2
  <2>5. t \in Seq(ProperRanges) /\ k \in 1..Len(t)
    <3>1. Replaced(ProperRanges, s, k, m, <<joined>>, t)
      BY <2>1, <2>3, <2>4, ReplaceIs
    <3>2. QED
      BY <1>1, <1>4, <2>3, <3>1 DEF Replaced
  <2>6. ASSUME Placed(s, k) PROVE Apart(t) /\ Covered(t) = Covered(s)
    <3>1. ASSUME NEW i \in DOMAIN s
          PROVE  /\ s[i].location \in Nat /\ RangeRightBound(s[i]) \in Nat
                 /\ s[i].location <= RangeRightBound(s[i])
      BY <1>1, ProperRange
    <3>2. s[k].location <= s[m].location
      BY <1>4, <1>7, <2>6 DEF Placed
    <3>3. joined.location = s[k].location
      BY <1>1, <1>4, <2>2, <3>1, <3>2 DEF Smaller
    <3>4. ASSUME NEW i \in DOMAIN s, m < i
          PROVE  RangeRightBound(joined) < s[i].location
      <4>1. m < Len(s) /\ m + 1 \in DOMAIN s /\ i \in Nat /\ m + 1 <= i
        BY <1>1, <1>4, <3>4
      <4>2. RangeRightBound(s[k]) < s[m + 1].location
        BY <1>5, <2>6, <4>1 DEF Placed
      <4>3. s[m + 1].location <= s[i].location
        <5>1. CASE m + 1 = i
          BY <3>1, <5>1
        <5>2. CASE m + 1 < i
          <6>1. m + 1 \in DOMAIN s \ {k} /\ i \in DOMAIN s \ {k}
            BY <1>1, <1>4, <1>7, <3>4, <4>1
          <6>2. RangeRightBound(s[m + 1]) < s[i].location
            BY <2>6, <5>2, <6>1 DEF Placed
          <6>3. QED
            BY <3>1, <4>1, <6>2
        <5>3. QED
          BY <1>4, <4>1, <5>1, <5>2
      <4>4. RangeRightBound(s[m]) < s[i].location
        <5>1. m \in DOMAIN s \ {k} /\ i \in DOMAIN s \ {k}
          BY <1>1, <1>4, <1>7, <3>4
        <5>2. QED
          BY <2>6, <3>4, <5>1 DEF Placed
      <4>5. RangeRightBound(s[k]) < s[i].location
        BY <1>1, <3>1, <4>1, <4>2, <4>3
      <4>6. QED
        BY <2>2, <4>4, <4>5 DEF Larger
    <3>5. Apart(t)
      <4>1. Apart(<<joined>>)
        BY <2>3 DEF Apart
      <4>2. \A i, j \in DOMAIN s : i < j /\ (i < k \/ m < i) /\ (j < k \/ m < j)
              => RangeRightBound(s[i]) < s[j].location
        <5>1. \A i \in DOMAIN s : (i < k \/ m < i) => i \in DOMAIN s \ {k}
          BY <1>1, <1>4, <1>7
        <5>2. QED
          BY <2>6, <5>1 DEF Placed
      <4>3. \A i \in DOMAIN s, j \in DOMAIN <<joined>> :
              /\ i < k => RangeRightBound(s[i]) < <<joined>>[j].location
              /\ m < i => RangeRightBound(<<joined>>[j]) < s[i].location
        BY <2>3, <2>6, <3>3, <3>4 DEF Placed
      <4>4. QED
        BY <2>1, <2>3, <2>4, <4>1, <4>2, <4>3, ReplaceApart
    <3>6. Covered(t) = Outside(s, k, m) \cup Covered(<<joined>>)
      <4> DEFINE u == <<joined>>
                 last == m
      <4>1. /\ u \in Seq(ProperRanges) /\ t = Replace(s, k, last, u)
            /\ k \in 1..Len(s) + 1 /\ last \in k - 1..Len(s)
        BY <2>1, <2>3, <2>4, Zenon
      <4> HIDE DEF u, last
      <4>2. Covered(Replace(s, k, last, u)) = Outside(s, k, last) \cup Covered(u)
        BY <4>1, ReplaceCovers
      <4>3. QED
        BY <4>1, <4>2, Zenon DEF u, last
    <3>7. Covered(<<joined>>) = Span(s[k]) \cup Span(s[m])
      BY <2>2, <2>3 DEF Covered
    <3>8. ASSUME NEW i \in DOMAIN s, k <= i, i <= m
          PROVE  Span(s[i]) \subseteq Span(s[k]) \cup Span(s[m])
      <4>1. CASE i = k \/ i = m
        BY <4>1
      <4>2. CASE i # k /\ i # m
        <5>1. k < i /\ i < m /\ i \in DOMAIN s \ {k} /\ m \in DOMAIN s \ {k}
          BY <1>1, <1>4, <1>7, <3>8, <4>2
        <5>2. s[k].location <= s[i].location /\ RangeRightBound(s[i]) < s[m].location
          BY <2>6, <5>1 DEF Placed
        <5>3. s[m].location <= RangeRightBound(s[k])
          BY <1>1, <1>2, <1>3, <1>4, Met
        <5>4. \A x \in Indexes : x \in Span(s[i]) => x \in Span(s[k])
          BY <1>1, <1>4, <3>1, <5>2, <5>3 DEF Span, Indexes
        <5>5. QED
          BY <5>4 DEF Span
      <4>3. QED
        BY <4>1, <4>2
    <3>9. Covered(s) \subseteq Covered(t)
      <4>1. ASSUME NEW i \in DOMAIN s PROVE Span(s[i]) \subseteq Covered(t)
        <5>1. CASE i < k \/ m < i
          BY <3>6, <5>1 DEF Outside
        <5>2. CASE ~(i < k \/ m < i)
          <6>1. k <= i /\ i <= m
            BY <1>1, <1>4, <5>2
          <6>2. QED
            BY <3>6, <3>7, <3>8, <6>1
        <5>3. QED
          BY <5>1, <5>2
      <4>2. QED
        BY <4>1 DEF Covered
    <3>10. Covered(t) \subseteq Covered(s)
      BY <1>1, <1>4, <3>6, <3>7 DEF Outside, Covered
    <3>11. QED
      BY <3>5, <3>9, <3>10
  <2>7. QED
    BY <2>5, <2>6 DEF t
<1>8. QED
  BY <1>1, <1>4, <1>6, <1>7

\* No range has r begin inside it.
BeginsClear(s, r) ==
  \A i \in DOMAIN s : ~(s[i].location < r.location /\ r.location <= RangeRightBound(s[i]))

\* Where r goes: what is before it begins and ends before it.
LEMMA LeftIs ==
  ASSUME UINT64_MAX \in Nat, NEW s \in Seq(ProperRanges), NEW r \in ProperRanges
  PROVE  LET k == LeftRangeIndex(s, r.location)
         IN  /\ k \in 1..Len(s) + 1
             /\ Apart(s) /\ BeginsClear(s, r) =>
                  \A i \in DOMAIN s :
                    /\ i < k => RangeRightBound(s[i]) < r.location
                    /\ k <= i => r.location <= s[i].location
<1> DEFINE k == LeftRangeIndex(s, r.location)
<1>1. r.location \in Nat
  BY ProperRange
<1>2. k \in LeftPlaces(s, r.location, 1, Len(s))
  BY <1>1, LeftRangeIndexIs
<1> HIDE DEF k
<1>3. k \in 1..Len(s) + 1 /\ DOMAIN s = 1..Len(s) /\ \A i \in DOMAIN s : s[i] \in ProperRanges
  BY <1>2 DEF LeftPlaces
<1>4. ASSUME Apart(s), BeginsClear(s, r), NEW i \in DOMAIN s
      PROVE  /\ i < k => RangeRightBound(s[i]) < r.location
             /\ k <= i => r.location <= s[i].location
  <2>1. \A j \in DOMAIN s : /\ s[j].location \in Nat /\ RangeRightBound(s[j]) \in Nat
                            /\ s[j].location <= RangeRightBound(s[j])
    BY <1>3, ProperRange
  <2>2. InOrder(s)
    BY <1>4, <2>1 DEF InOrder, Apart
  <2>3. (i < k => s[i].location < r.location) /\ (k <= i => r.location <= s[i].location)
    BY <1>2, <1>3, <2>2 DEF LeftPlaces
  <2>4. QED
    BY <1>1, <1>4, <2>1, <2>3 DEF BeginsClear
<1>5. QED
  BY <1>3, <1>4 DEF k

\* The range put in its place, before anything is merged.
LEMMA InsertedIs ==
  ASSUME UINT64_MAX \in Nat, NEW s \in Seq(ProperRanges), NEW r \in ProperRanges,
         NEW k \in 1..Len(s) + 1
  PROVE  LET t == Replace(s, k, k - 1, <<r>>)
         IN  /\ t \in Seq(ProperRanges) /\ k \in 1..Len(t)
             /\ Covered(t) = Covered(s) \cup Span(r)
             /\ Apart(s) /\ (\A i \in DOMAIN s :
                               /\ i < k => RangeRightBound(s[i]) < r.location
                               /\ k <= i => r.location <= s[i].location)
                  => Placed(t, k)
<1> DEFINE t == Replace(s, k, k - 1, <<r>>)
<1>1. /\ <<r>> \in Seq(ProperRanges) /\ DOMAIN <<r>> = {1} /\ <<r>>[1] = r /\ Len(<<r>>) = 1
      /\ k - 1 \in k - 1..Len(s) /\ k \in Nat /\ DOMAIN s = 1..Len(s) /\ Len(s) \in Nat
      /\ 1 <= k /\ k <= Len(s) + 1
  OBVIOUS
<1>2. Replaced(ProperRanges, s, k, k - 1, <<r>>, t)
  BY <1>1, ReplaceIs
<1>3. Covered(t) = Outside(s, k, k - 1) \cup Covered(<<r>>)
  <2> DEFINE u == <<r>>
             m == k - 1
  <2>1. u \in Seq(ProperRanges) /\ m \in k - 1..Len(s)
    BY <1>1, Zenon
  <2> HIDE DEF u, m
  <2>2. Covered(Replace(s, k, m, u)) = Outside(s, k, m) \cup Covered(u)
    BY <1>1, <2>1, ReplaceCovers
  <2>3. QED
    BY <2>2, Zenon DEF u, m
<1> HIDE DEF t
<1>4. t \in Seq(ProperRanges) /\ Len(t) = Len(s) + 1 /\ k \in 1..Len(t) /\ DOMAIN t = 1..Len(t)
  BY <1>1, <1>2 DEF Replaced
<1>5. Covered(t) = Covered(s) \cup Span(r)
  <2>1. {j \in DOMAIN s : j < k \/ k - 1 < j} = DOMAIN s
    BY <1>1
  <2>2. Covered(<<r>>) = Span(r)
    BY <1>1 DEF Covered
  <2>3. Outside(s, k, k - 1) = Covered(s)
    BY <2>1, Zenon DEF Covered, Outside
  <2>4. QED
    BY <1>3, <2>2, <2>3, Zenon
<1>6. ASSUME Apart(s),
             \A i \in DOMAIN s : /\ i < k => RangeRightBound(s[i]) < r.location
                                 /\ k <= i => r.location <= s[i].location
      PROVE  Placed(t, k)
  <2>1. t[k] = r
    <3>1. t[k - 1 + 1] = <<r>>[1]
      BY <1>1, <1>2 DEF Replaced
    <3>2. QED
      BY <1>1, <3>1
  <2> DEFINE old(i) == IF i < k THEN i ELSE i - 1
  <2>2. ASSUME NEW i \in DOMAIN t, i # k PROVE old(i) \in DOMAIN s /\ t[i] = s[old(i)]
    <3>1. CASE i < k
      BY <1>1, <1>2, <1>4, <3>1 DEF Replaced
    <3>2. CASE k < i
      <4>1. i - 1 \in k - 1 + 1..Len(s) /\ i - 1 \in DOMAIN s
        BY <1>1, <1>4, <3>2
      <4>2. t[k - 1 + Len(<<r>>) + ((i - 1) - (k - 1))] = s[i - 1]
        BY <1>2, <4>1 DEF Replaced
      <4>3. k - 1 + Len(<<r>>) + ((i - 1) - (k - 1)) = i
        BY <1>1, <1>4
      <4>4. QED
        BY <1>1, <1>4, <3>2, <4>1, <4>2, <4>3
    <3>3. QED
      BY <1>1, <1>4, <2>2, <3>1, <3>2
  <2>3. ASSUME NEW i \in DOMAIN t \ {k}, NEW j \in DOMAIN t \ {k}, i < j
        PROVE  RangeRightBound(t[i]) < t[j].location
    <3>1. old(i) < old(j)
      BY <1>1, <1>4, <2>3
    <3>2. old(i) \in DOMAIN s /\ old(j) \in DOMAIN s /\ t[i] = s[old(i)] /\ t[j] = s[old(j)]
      BY <2>2
    <3> HIDE DEF old
    <3>3. QED
      BY <1>6, <3>1, <3>2 DEF Apart
  <2>4. ASSUME NEW i \in DOMAIN t, i < k PROVE RangeRightBound(t[i]) < t[k].location
    BY <1>1, <1>4, <1>6, <2>1, <2>2, <2>4
  <2>5. ASSUME NEW i \in DOMAIN t, k < i PROVE t[k].location <= t[i].location
    <3>1. i # k /\ old(i) = i - 1 /\ k <= i - 1
      BY <1>1, <1>4, <2>5
    <3>2. i - 1 \in DOMAIN s /\ t[i] = s[i - 1]
      BY <2>2, <3>1
    <3>3. QED
      BY <1>6, <2>1, <3>1, <3>2
  <2>6. QED
    BY <2>3, <2>4, <2>5 DEF Placed
<1>7. QED
  BY <1>4, <1>5, <1>6 DEF t

\* Joining neighbours on both sides changes no number.
LEMMA MergeAroundIs ==
  ASSUME UINT64_MAX \in Nat, NEW s \in Seq(ProperRanges), NEW k \in 1..Len(s)
  PROVE  LET t == MergeAround(s, k)
         IN  /\ t \in Seq(ProperRanges)
             /\ Apart(s) => Apart(t) /\ Covered(t) = Covered(s)
<1> DEFINE left == IF k > 1 THEN TryToMergeAdjacentRanges(s, k - 1) ELSE s
<1>1. left \in Seq(ProperRanges) /\ (Apart(s) => Apart(left) /\ Covered(left) = Covered(s))
  <2>1. CASE k > 1
    <3>1. k - 1 \in 1..Len(s) - 1
      BY <2>1
    <3>2. QED
      BY <2>1, <3>1, AdjacentIs
  <2>2. CASE ~(k > 1)
    BY <2>2
  <2>3. QED
    BY <2>1, <2>2
<1>2. MergeAround(s, k) = IF k < Len(left) THEN TryToMergeAdjacentRanges(left, k) ELSE left
  BY DEF MergeAround
<1> HIDE DEF left
<1>3. CASE k < Len(left)
  <2>1. k \in 1..Len(left) - 1
    BY <1>1, <1>3
  <2>2. QED
    BY <1>1, <1>2, <1>3, <2>1, AdjacentIs
<1>4. CASE ~(k < Len(left))
  BY <1>1, <1>2, <1>4
<1>5. QED
  BY <1>3, <1>4

\* What addRange makes of the array: ranges again, whatever was there; and if the
\* ranges were in order and apart and r begins inside none, they still are, and
\* hold r besides what they held.
THEOREM AddedIs ==
  ASSUME UINT64_MAX \in Nat, NEW s \in Seq(ProperRanges), NEW r \in ProperRanges
  PROVE  /\ Added(s, r) \in Seq(ProperRanges)
         /\ Apart(s) /\ BeginsClear(s, r) =>
              /\ Apart(Added(s, r))
              /\ Covered(Added(s, r)) = Covered(s) \cup Span(r)
<1> DEFINE k == LeftRangeIndex(s, r.location)
           t == Replace(s, k, k - 1, <<r>>)
           u == MergeRanges(t, k)
<1>1. /\ k \in 1..Len(s) + 1
      /\ Apart(s) /\ BeginsClear(s, r) =>
           \A i \in DOMAIN s : /\ i < k => RangeRightBound(s[i]) < r.location
                               /\ k <= i => r.location <= s[i].location
  BY LeftIs
<1>2. Added(s, r) = MergeAround(u, k)
  BY DEF Added
<1> HIDE DEF k
<1>3. /\ t \in Seq(ProperRanges) /\ k \in 1..Len(t)
      /\ Covered(t) = Covered(s) \cup Span(r)
      /\ Apart(s) /\ BeginsClear(s, r) => Placed(t, k)
  BY <1>1, InsertedIs
<1> HIDE DEF t
<1>4. /\ u \in Seq(ProperRanges) /\ k \in 1..Len(u)
      /\ Placed(t, k) => Apart(u) /\ Covered(u) = Covered(t)
  BY <1>3, MergeIs
<1> HIDE DEF u
<1>5. /\ MergeAround(u, k) \in Seq(ProperRanges)
      /\ Apart(u) => Apart(MergeAround(u, k)) /\ Covered(MergeAround(u, k)) = Covered(u)
  BY <1>4, MergeAroundIs
<1>6. QED
  BY <1>2, <1>3, <1>4, <1>5

-----------------------------------------------------------------------------
(* Removing.                                                               *)

\* The sequences of q one after the other, as far as the n-th.
Flattens(f, n, q) == f = [i \in 1..n |-> IF i = 1 THEN q[i] ELSE f[i - 1] \o q[i]]

\* There is such a function, however many sequences there are.
LEMMA FlattensExists ==
  ASSUME NEW q PROVE \A n \in Nat : \E f : Flattens(f, n, q)
<1> DEFINE bad == {n \in Nat : ~\E f : Flattens(f, n, q)}
<1>1. SUFFICES ASSUME bad # {} PROVE FALSE
  OBVIOUS
<1>2. PICK n \in bad : \A m \in Nat : m < n => m \notin bad
  BY <1>1, LeastBad
<1>3. CASE n = 0
  <2> DEFINE f == [i \in 1..0 |-> q[i]]
  <2>1. Flattens(f, 0, q)
    BY DEF Flattens
  <2>2. QED
    BY <1>2, <1>3, <2>1
<1>4. CASE n # 0
  <2>1. n \in Nat /\ n - 1 \in Nat /\ n - 1 < n
    BY <1>2, <1>4
  <2>2. PICK g : Flattens(g, n - 1, q)
    BY <1>2, <2>1
  <2> DEFINE f == [i \in 1..n |-> IF i < n THEN g[i]
                                  ELSE IF i = 1 THEN q[i] ELSE g[i - 1] \o q[i]]
  <2>3. ASSUME NEW i \in 1..n
        PROVE  f[i] = IF i = 1 THEN q[i] ELSE f[i - 1] \o q[i]
    <3>1. i = 1 \/ f[i - 1] = g[i - 1]
      BY <2>1
    <3>2. CASE i < n
      <4>1. i \in 1..(n - 1)
        BY <2>1, <3>2
      <4>2. g[i] = IF i = 1 THEN q[i] ELSE g[i - 1] \o q[i]
        BY <2>2, <4>1 DEF Flattens
      <4>3. f[i] = g[i]
        BY <3>2
      <4> HIDE DEF f
      <4>4. QED
        BY <3>1, <4>2, <4>3
    <3>3. CASE i = n
      <4>1. f[i] = IF i = 1 THEN q[i] ELSE g[i - 1] \o q[i]
        BY <2>1, <3>3
      <4> HIDE DEF f
      <4>2. QED
        BY <3>1, <4>1
    <3>4. QED
      BY <2>1, <3>2, <3>3
  <2>4. f = [i \in 1..n |-> IF i = 1 THEN q[i] ELSE f[i - 1] \o q[i]]
    BY <2>3
  <2>5. QED
    BY <1>2, <2>4 DEF Flattens
<1>5. QED
  BY <1>3, <1>4

\* FlattenSeq gives a sequence of the same elements: if all are empty but the
\* last one, that one.
LEMMA FlattenIs ==
  ASSUME NEW S, NEW n \in Nat, NEW q \in [1..n -> Seq(S)]
  PROVE  /\ FlattenSeq(q) \in Seq(S)
         /\ (\A i \in 1..n : i < n => q[i] = <<>>)
              => FlattenSeq(q) = IF n = 0 THEN <<>> ELSE q[n]
<1>1. q \in Seq(Seq(S)) /\ Len(q) = n /\ DOMAIN q = 1..n
  OBVIOUS
<1>2. CASE n = 0
  <2>1. q = <<>>
    BY <1>1, <1>2
  <2>2. FlattenSeq(q) = q
    BY <1>1, <1>2 DEF FlattenSeq
  <2>3. FlattenSeq(q) = <<>> /\ <<>> \in Seq(S)
    BY <2>1, <2>2
  <2>4. QED
    BY <1>2, <2>3, Zenon
<1>3. CASE n # 0
  <2> DEFINE f == CHOOSE g : Flattens(g, n, q)
  <2>1. Flattens(f, n, q)
    BY FlattensExists
  <2>2. FlattenSeq(q) = f[n]
    BY <1>1, <1>3 DEF FlattenSeq, Flattens
  <2> HIDE DEF f
  <2>3. ASSUME NEW i \in 1..n
        PROVE  f[i] = IF i = 1 THEN q[i] ELSE f[i - 1] \o q[i]
    BY <2>1 DEF Flattens
  <2> DEFINE empty == \A i \in 1..n : i < n => q[i] = <<>>
             Good(i) == f[i] \in Seq(S) /\ (empty => f[i] = q[i])
             bad == {i \in Nat : i \in 1..n /\ ~Good(i)}
  <2>4. bad = {}
    <3>1. SUFFICES ASSUME bad # {} PROVE FALSE
      OBVIOUS
    <3>2. PICK i \in bad : \A j \in Nat : j < i => j \notin bad
      BY <3>1, LeastBad
    <3>3. i \in 1..n /\ ~Good(i)
      OBVIOUS
    <3>4. CASE i = 1
      BY <2>3, <3>3, <3>4
    <3>5. CASE i # 1
      <4>1. i - 1 \in 1..n /\ i - 1 \in Nat /\ i - 1 < i /\ i - 1 < n
        BY <3>3, <3>5
      <4>2. Good(i - 1)
        BY <3>2, <4>1
      <4>3. f[i] = f[i - 1] \o q[i] /\ q[i] \in Seq(S)
        BY <2>3, <3>3, <3>5
      <4>4. f[i] \in Seq(S)
        BY <4>2, <4>3
      <4>5. ASSUME empty PROVE f[i] = q[i]
        <5>1. f[i - 1] = <<>>
          BY <4>1, <4>2, <4>5
        <5>2. QED
          BY <4>3, <5>1
      <4>6. QED
        BY <3>3, <4>4, <4>5
    <3>6. QED
      BY <3>4, <3>5
  <2>5. Good(n)
    <3>1. n \in 1..n
      BY <1>3
    <3> HIDE DEF Good
    <3>2. QED
      BY <2>4, <3>1
  <2>6. QED
    BY <1>3, <2>2, <2>5
<1>4. QED
  BY <1>2, <1>3

\* What is left of a range is one or two ranges, or none; if r begins first, at
\* most what lies after it.
LEMMA PiecesAre ==
  ASSUME UINT64_MAX \in Nat, NEW a \in ProperRanges, NEW r \in ProperRanges,
         RangeRightBound(r) # UINT64_MAX - 1
  PROVE  /\ RangeRemoveRange(a, r) \in Seq(ProperRanges)
         /\ RangeHasIntersection(a, r) /\ r.location <= a.location =>
              IF RangeRightBound(r) < RangeRightBound(a)
              THEN \E p \in ProperRanges :
                     /\ RangeRemoveRange(a, r) = <<p>>
                     /\ p.location = RangeRightBound(r) + 1
                     /\ RangeRightBound(p) = RangeRightBound(a)
              ELSE RangeRemoveRange(a, r) = <<>>
<1> DEFINE cut    == RangeIntersection(a, r)
           right1 == RangeRightBound(a)
           right2 == RangeRightBound(cut)
           low    == RangeMake(a.location, cut.location - a.location - 1)
           high   == Between(right2 + 1, right1)
           before == IF cut.location > a.location THEN <<low>> ELSE <<>>
           after  == IF right2 < right1 THEN <<high>> ELSE <<>>
           pieces == RangeRemoveRange(a, r)
<1>1. CASE ~RangeHasIntersection(a, r)
  BY <1>1 DEF RangeRemoveRange
<1>2. CASE RangeHasIntersection(a, r)
  <2>1. /\ a.location \in Nat /\ r.location \in Nat
        /\ a.location < UINT64_MAX /\ r.location < UINT64_MAX
        /\ right1 \in Nat /\ RangeRightBound(r) \in Nat
        /\ a.location <= right1 /\ right1 <= UINT64_MAX
        /\ RangeRightBound(r) <= UINT64_MAX
        /\ Proper(a) /\ Proper(r)
        /\ a.location <= RangeRightBound(r) /\ r.location <= right1
    BY <1>2, ProperRange, Met
  <2>2. /\ cut.location = Larger(a.location, r.location)
        /\ right2 = Smaller(right1, RangeRightBound(r))
    BY <2>1, Cut
  <2>3. pieces = before \o after
    BY <1>2 DEF RangeRemoveRange
  <2> HIDE DEF cut, right1, right2, pieces
  <2>4. /\ cut.location \in Nat /\ cut.location < UINT64_MAX
        /\ (cut.location > a.location <=> r.location > a.location)
        /\ (right2 < right1 <=> RangeRightBound(r) < right1)
        /\ (right2 < right1 => right2 = RangeRightBound(r))
    BY <2>1, <2>2 DEF Larger, Smaller
  <2>5. ASSUME cut.location > a.location PROVE low \in ProperRanges
    <3>1. /\ low.location = a.location /\ low.length = cut.location - a.location - 1
          /\ low = [location |-> a.location, length |-> cut.location - a.location - 1]
      BY DEF RangeMake
    <3>2. /\ a.location \in Indexes /\ cut.location - a.location - 1 \in 0..UINT64_MAX
          /\ a.location + (cut.location - a.location - 1) <= UINT64_MAX
      BY <2>1, <2>4, <2>5 DEF Indexes
    <3> HIDE DEF low
    <3>3. low \in [location : Indexes, length : 0..UINT64_MAX]
      BY <3>1, <3>2
    <3>4. QED
      BY <3>1, <3>2, <3>3 DEF ProperRanges
  <2>6. ASSUME right2 < right1
        PROVE  /\ high \in ProperRanges /\ high.location = RangeRightBound(r) + 1
               /\ RangeRightBound(high) = right1
    <3>1. right2 + 1 \in Nat /\ right2 + 1 <= right1 /\ right2 + 1 < UINT64_MAX
      BY <2>1, <2>4, <2>6
    <3>2. Proper(high) /\ high.location = right2 + 1 /\ RangeRightBound(high) = right1
      BY <2>1, <3>1, BetweenIsRange
    <3>3. QED
      BY <2>4, <2>6, <3>2, ProperRangesAreProper
  <2> HIDE DEF low, high
  <2>7. before \in Seq(ProperRanges) /\ after \in Seq(ProperRanges)
    BY <2>5, <2>6
  <2>8. ASSUME r.location <= a.location
        PROVE  pieces = IF RangeRightBound(r) < right1 THEN <<high>> ELSE <<>>
    <3>1. before = <<>>
      BY <2>1, <2>4, <2>8
    <3>2. pieces = after
      BY <2>3, <2>7, <3>1
    <3>3. QED
      BY <2>4, <3>2
  <2>9. pieces \in Seq(ProperRanges)
    BY <2>3, <2>7
  <2>10. QED
    BY <2>4, <2>6, <2>8, <2>9 DEF pieces, right1
<1>3. QED
  BY <1>1, <1>2

\* What a removal puts in the place of the ranges that r meets from k on.
Remains(s, k, m, r) ==
  LET rest == [i \in 1..m - k + 1 |-> RangeRemoveRange(s[k + i - 1], r)]
      gone == {i \in DOMAIN rest : rest[i] = <<>>}
  IN  [i \in DOMAIN rest |->
         IF \E a, b \in gone : a <= i /\ i <= b THEN <<>> ELSE rest[i]]

\* Ranges again, whatever the ranges were; one at most, if r begins first and
\* they are in order.
LEMMA RemainsAre ==
  ASSUME UINT64_MAX \in Nat, NEW s \in Seq(ProperRanges), NEW r \in ProperRanges,
         RangeRightBound(r) # UINT64_MAX - 1,
         NEW k \in 1..Len(s) + 1, NEW m \in k - 1..Len(s)
  PROVE  LET t == FlattenSeq(Remains(s, k, m, r))
         IN  /\ t \in Seq(ProperRanges)
             /\ /\ Apart(s)
                /\ \A i \in k..m : /\ RangeHasIntersection(s[i], r)
                                   /\ r.location <= s[i].location
                => IF k <= m /\ RangeRightBound(r) < RangeRightBound(s[m])
                   THEN \E p \in ProperRanges :
                          /\ t = <<p>>
                          /\ p.location = RangeRightBound(r) + 1
                          /\ RangeRightBound(p) = RangeRightBound(s[m])
                   ELSE t = <<>>
<1> DEFINE n == m - k + 1
           rest == [i \in 1..n |-> RangeRemoveRange(s[k + i - 1], r)]
           gone == {i \in DOMAIN rest : rest[i] = <<>>}
           kept == [i \in DOMAIN rest |->
                      IF \E a, b \in gone : a <= i /\ i <= b THEN <<>> ELSE rest[i]]
<1>1. /\ Len(s) \in Nat /\ DOMAIN s = 1..Len(s) /\ k \in Nat /\ m \in Nat /\ 1 <= k
      /\ k <= m + 1 /\ m <= Len(s)
      /\ \A i \in DOMAIN s : s[i] \in ProperRanges
  OBVIOUS
<1>2. Remains(s, k, m, r) = kept
  BY DEF Remains
<1>3. n \in Nat /\ (n # 0 <=> k <= m)
  BY <1>1
<1>4. ASSUME NEW i \in 1..n PROVE k + i - 1 \in k..m /\ k + i - 1 \in DOMAIN s
  BY <1>1
<1>5. DOMAIN rest = 1..n /\ \A i \in 1..n : rest[i] = RangeRemoveRange(s[k + i - 1], r)
  OBVIOUS
<1> HIDE DEF rest
<1>6. ASSUME NEW i \in 1..n PROVE rest[i] \in Seq(ProperRanges)
  BY <1>1, <1>4, <1>5, PiecesAre
<1> HIDE DEF n
<1>7. /\ DOMAIN kept = 1..n
      /\ \A i \in 1..n : kept[i] = IF \E a, b \in gone : a <= i /\ i <= b THEN <<>> ELSE rest[i]
  BY <1>5
<1>8. \A i \in 1..n : kept[i] \in Seq(ProperRanges) /\ (rest[i] = <<>> => kept[i] = <<>>)
  <2> HIDE DEF kept, gone
  <2>1. \A i \in 1..n : kept[i] = <<>> \/ kept[i] = rest[i]
    BY <1>7
  <2>2. <<>> \in Seq(ProperRanges)
    OBVIOUS
  <2>3. QED
    BY <1>6, <2>1, <2>2
<1>9. kept \in [1..n -> Seq(ProperRanges)]
  <2>1. kept = [i \in 1..n |-> kept[i]]
    BY <1>5
  <2> HIDE DEF kept
  <2>2. QED
    BY <1>8, <2>1
<1>10. ASSUME n # 0, rest[n] # <<>> PROVE kept[n] = rest[n]
  <2>1. gone \subseteq 1..n /\ n \notin gone /\ n \in 1..n
    BY <1>3, <1>5, <1>10
  <2>2. ~\E a, b \in gone : a <= n /\ n <= b
    <3> HIDE DEF gone
    <3> QED BY <1>3, <2>1
  <2>3. QED
    BY <1>7, <2>1, <2>2
<1> HIDE DEF kept, gone
<1> DEFINE t == FlattenSeq(kept)
<1>11. /\ t \in Seq(ProperRanges)
       /\ (\A i \in 1..n : i < n => kept[i] = <<>>)
            => t = IF n = 0 THEN <<>> ELSE kept[n]
  BY <1>3, <1>9, FlattenIs
<1> HIDE DEF t
<1>12. ASSUME Apart(s), \A i \in k..m : /\ RangeHasIntersection(s[i], r)
                                        /\ r.location <= s[i].location
       PROVE  IF k <= m /\ RangeRightBound(r) < RangeRightBound(s[m])
              THEN \E p \in ProperRanges :
                     /\ t = <<p>>
                     /\ p.location = RangeRightBound(r) + 1
                     /\ RangeRightBound(p) = RangeRightBound(s[m])
              ELSE t = <<>>
  <2>1. ASSUME NEW i \in 1..n
        PROVE  IF RangeRightBound(r) < RangeRightBound(s[k + i - 1])
               THEN \E p \in ProperRanges :
                      /\ rest[i] = <<p>>
                      /\ p.location = RangeRightBound(r) + 1
                      /\ RangeRightBound(p) = RangeRightBound(s[k + i - 1])
               ELSE rest[i] = <<>>
    <3>1. k + i - 1 \in k..m /\ k + i - 1 \in DOMAIN s
      BY <1>4 DEF n
    <3>2. rest[i] = RangeRemoveRange(s[k + i - 1], r)
      BY <1>5
    <3>3. RangeHasIntersection(s[k + i - 1], r) /\ r.location <= s[k + i - 1].location
      BY <1>12, <3>1
    <3>4. s[k + i - 1] \in ProperRanges
      BY <1>1, <3>1
    <3>5. QED
      BY <3>2, <3>3, <3>4, PiecesAre
  <2>2. ASSUME NEW i \in 1..n, i < n PROVE rest[i] = <<>>
    <3> DEFINE j == k + i - 1
    <3>1. j \in DOMAIN s /\ m \in DOMAIN s /\ j < m /\ m \in k..m
      BY <1>1, <1>4, <2>2 DEF n
    <3> HIDE DEF j
    <3>2. RangeRightBound(s[j]) < s[m].location
      BY <1>12, <3>1 DEF Apart
    <3>3. s[m].location <= RangeRightBound(r)
      BY <1>1, <1>12, <3>1, Met
    <3>4. /\ RangeRightBound(s[j]) \in Nat /\ RangeRightBound(r) \in Nat
          /\ s[m].location \in Nat
      BY <1>1, <3>1, ProperRange
    <3>5. ~(RangeRightBound(r) < RangeRightBound(s[j]))
      BY <3>2, <3>3, <3>4
    <3>6. QED
      BY <2>1, <3>5 DEF j
  <2>3. t = IF n = 0 THEN <<>> ELSE kept[n]
    BY <1>8, <1>11, <2>2
  <2>4. CASE n = 0
    BY <1>3, <2>3, <2>4
  <2>5. CASE n # 0
    <3>1. n \in 1..n /\ k + n - 1 = m /\ k <= m
      BY <1>1, <1>3, <2>5 DEF n
    <3>2. CASE RangeRightBound(r) < RangeRightBound(s[m])
      <4>1. PICK p \in ProperRanges :
              /\ rest[n] = <<p>>
              /\ p.location = RangeRightBound(r) + 1
              /\ RangeRightBound(p) = RangeRightBound(s[m])
        BY <2>1, <3>1, <3>2
      <4>2. t = <<p>>
        BY <1>10, <2>3, <2>5, <4>1
      <4>3. QED
        BY <3>1, <3>2, <4>1, <4>2
    <3>3. CASE ~(RangeRightBound(r) < RangeRightBound(s[m]))
      BY <1>8, <2>1, <2>3, <2>5, <3>1, <3>3
    <3>4. QED
      BY <3>2, <3>3
  <2>6. QED
    BY <2>4, <2>5
<1>13. QED
  BY <1>2, <1>11, <1>12 DEF t

\* What removeRange makes of the array: ranges again, whatever was there; and if
\* the ranges were in order and apart and r begins inside none, they still are,
\* and hold what they held without r.
THEOREM RemovedIs ==
  ASSUME UINT64_MAX \in Nat, NEW s \in Seq(ProperRanges), NEW r \in ProperRanges,
         RangeRightBound(r) # UINT64_MAX - 1
  PROVE  /\ Removed(s, r) \in Seq(ProperRanges)
         /\ Apart(s) /\ BeginsClear(s, r) =>
              /\ Apart(Removed(s, r))
              /\ Covered(Removed(s, r)) = Covered(s) \ Span(r)
<1> DEFINE k == LeftRangeIndex(s, r.location)
           m == LastMet(s, k, r)
           t == FlattenSeq(Remains(s, k, m, r))
           R == Removed(s, r)
<1>1. /\ k \in 1..Len(s) + 1
      /\ Apart(s) /\ BeginsClear(s, r) =>
           \A i \in DOMAIN s : /\ i < k => RangeRightBound(s[i]) < r.location
                               /\ k <= i => r.location <= s[i].location
  BY LeftIs
<1>2. R = Replace(s, k, m, t)
  BY DEF Removed, Remains
<1> HIDE DEF k
<1>3. /\ Len(s) \in Nat /\ DOMAIN s = 1..Len(s) /\ k \in Nat /\ 1 <= k
      /\ \A i \in DOMAIN s : s[i] \in ProperRanges
  BY <1>1
<1>4. /\ m \in k - 1..Len(s)
      /\ \A i \in k..m : RangeHasIntersection(s[i], r)
      /\ m < Len(s) => ~RangeHasIntersection(s[m + 1], r)
  BY <1>1, <1>3, LastMetIs
<1> HIDE DEF m
<1>5. m \in Nat /\ m <= Len(s) /\ k - 1 <= m
  BY <1>3, <1>4
<1>6. t \in Seq(ProperRanges)
  BY <1>1, <1>4, RemainsAre
<1>7. ASSUME Apart(s), BeginsClear(s, r)
      PROVE  /\ \A i \in DOMAIN s : i < k => RangeRightBound(s[i]) < r.location
             /\ \A i \in DOMAIN s : k <= i => r.location <= s[i].location
             /\ IF k <= m /\ RangeRightBound(r) < RangeRightBound(s[m])
                THEN \E p \in ProperRanges :
                       /\ t = <<p>>
                       /\ p.location = RangeRightBound(r) + 1
                       /\ RangeRightBound(p) = RangeRightBound(s[m])
                ELSE t = <<>>
  <2>1. \A i \in DOMAIN s : /\ i < k => RangeRightBound(s[i]) < r.location
                            /\ k <= i => r.location <= s[i].location
    BY <1>1, <1>7
  <2>2. \A i \in k..m : i \in DOMAIN s /\ k <= i
    BY <1>3, <1>5
  <2>3. \A i \in k..m : RangeHasIntersection(s[i], r) /\ r.location <= s[i].location
    BY <1>4, <2>1, <2>2
  <2>4. QED
    BY <1>1, <1>4, <1>7, <2>1, <2>3, RemainsAre
<1> HIDE DEF t, R
<1>8. R \in Seq(ProperRanges)
  BY <1>1, <1>2, <1>4, <1>6, ReplaceIs DEF Replaced
<1>9. ASSUME Apart(s), BeginsClear(s, r)
      PROVE  Apart(R) /\ Covered(R) = Covered(s) \ Span(r)
  <2>1. /\ r.location \in Nat /\ RangeRightBound(r) \in Nat
        /\ \A i \in DOMAIN s : /\ s[i].location \in Nat /\ RangeRightBound(s[i]) \in Nat
                               /\ s[i].location <= RangeRightBound(s[i])
    BY <1>3, ProperRange
  <2>2. ASSUME NEW i \in DOMAIN s, NEW j \in DOMAIN s, i < j
        PROVE  RangeRightBound(s[i]) < s[j].location
    BY <1>9, <2>2 DEF Apart
  <2>3. ASSUME NEW i \in DOMAIN s, m < i
        PROVE  RangeRightBound(r) < s[i].location
    <3>1. m < Len(s) /\ m + 1 \in DOMAIN s /\ i \in Nat /\ (m + 1 = i \/ m + 1 < i) /\ k <= m + 1
      BY <1>3, <1>5, <2>3
    <3>2. RangeRightBound(r) < s[m + 1].location
      BY <1>3, <1>4, <1>7, <1>9, <3>1, NotMet
    <3>3. m + 1 = i \/ RangeRightBound(s[m + 1]) < s[i].location
      BY <2>2, <3>1
    <3>4. QED
      BY <2>1, <3>1, <3>2, <3>3
  <2>4. Apart(t)
    <3>1. CASE t = <<>>
      BY <3>1 DEF Apart
    <3>2. ASSUME NEW p, t = <<p>> PROVE Apart(t)
      <4>1. DOMAIN t = {1}
        BY <3>2
      <4>2. QED
        BY <4>1 DEF Apart
    <3>3. QED
      BY <1>7, <1>9, <3>1, <3>2
  <2>5. ASSUME NEW j \in DOMAIN t
        PROVE  /\ k <= m /\ m \in DOMAIN s
               /\ RangeRightBound(r) < RangeRightBound(s[m])
               /\ t[j].location = RangeRightBound(r) + 1
               /\ RangeRightBound(t[j]) = RangeRightBound(s[m])
               /\ t = <<t[j]>>
    <3>1. t # <<>>
      BY <2>5
    <3>2. k <= m /\ RangeRightBound(r) < RangeRightBound(s[m])
      BY <1>7, <1>9, <3>1
    <3>3. PICK p \in ProperRanges : /\ t = <<p>>
                                    /\ p.location = RangeRightBound(r) + 1
                                    /\ RangeRightBound(p) = RangeRightBound(s[m])
      BY <1>7, <1>9, <3>2
    <3>4. t[j] = p
      BY <3>3
    <3>5. m \in DOMAIN s
      BY <1>3, <1>5, <3>2
    <3>6. QED
      BY <3>2, <3>3, <3>4, <3>5
  <2>6. ASSUME NEW i \in DOMAIN s, NEW j \in DOMAIN t
        PROVE  /\ i < k => RangeRightBound(s[i]) < t[j].location
               /\ m < i => RangeRightBound(t[j]) < s[i].location
    <3>1. /\ m \in DOMAIN s /\ t[j].location = RangeRightBound(r) + 1
          /\ RangeRightBound(t[j]) = RangeRightBound(s[m])
      BY <2>5
    <3>2. ASSUME i < k PROVE RangeRightBound(s[i]) < t[j].location
      <4>1. RangeRightBound(s[i]) < r.location /\ r.location <= RangeRightBound(r)
        BY <1>7, <1>9, <3>2, ProperRange
      <4>2. QED
        BY <2>1, <3>1, <4>1
    <3>3. ASSUME m < i PROVE RangeRightBound(t[j]) < s[i].location
      BY <2>2, <3>1, <3>3
    <3>4. QED
      BY <3>2, <3>3
  <2>7. Apart(R)
    BY <1>1, <1>2, <1>4, <1>6, <2>2, <2>4, <2>6, ReplaceApart
  <2>8. Covered(R) = Outside(s, k, m) \cup Covered(t)
    BY <1>1, <1>2, <1>4, <1>6, ReplaceCovers
  <2>9. ASSUME NEW i \in DOMAIN s, i < k \/ m < i
        PROVE  \A x \in Span(s[i]) : x \notin Span(r)
    <3>1. RangeRightBound(s[i]) < r.location \/ RangeRightBound(r) < s[i].location
      BY <1>7, <1>9, <2>3, <2>9
    <3>2. QED
      BY <2>1, <3>1 DEF Span, Indexes
  <2>10. ASSUME NEW i \in DOMAIN s, k <= i, i <= m, NEW x \in Span(s[i])
         PROVE  x \in Covered(t) <=> x \notin Span(r)
    <3>1. x \in Indexes /\ x \in Nat /\ s[i].location <= x /\ x <= RangeRightBound(s[i])
          /\ r.location <= s[i].location
      BY <1>7, <1>9, <2>10 DEF Span, Indexes
    <3>2. x \in Span(r) <=> x <= RangeRightBound(r)
      BY <2>1, <3>1 DEF Span
    <3>3. ASSUME x \in Covered(t) PROVE ~(x <= RangeRightBound(r))
      <4>1. PICK j \in DOMAIN t : x \in Span(t[j])
        BY <3>3 DEF Covered
      <4>2. RangeRightBound(r) + 1 <= x
        BY <2>5, <4>1 DEF Span
      <4>3. QED
        BY <2>1, <3>1, <4>2
    <3>4. ASSUME ~(x <= RangeRightBound(r)) PROVE x \in Covered(t)
      <4>1. m \in DOMAIN s /\ k <= m /\ m \in k..m /\ i \in Nat
        BY <1>3, <1>5, <2>10
      <4>2. i = m
        <5>1. CASE i < m
          <6>1. RangeRightBound(s[i]) < s[m].location
            BY <2>2, <4>1, <5>1
          <6>2. s[m].location <= RangeRightBound(r)
            BY <1>3, <1>4, <4>1, Met
          <6>3. QED
            BY <2>1, <3>1, <3>4, <4>1, <6>1, <6>2
        <5>2. QED
          BY <1>5, <2>10, <4>1, <5>1
      <4>3. RangeRightBound(r) < RangeRightBound(s[m])
        BY <2>1, <3>1, <3>4, <4>1, <4>2
      <4>4. PICK p \in ProperRanges : /\ t = <<p>>
                                      /\ p.location = RangeRightBound(r) + 1
                                      /\ RangeRightBound(p) = RangeRightBound(s[m])
        BY <1>7, <1>9, <4>1, <4>3
      <4>5. x \in Span(p)
        BY <2>1, <3>1, <3>4, <4>2, <4>4 DEF Span
      <4>6. 1 \in DOMAIN t /\ t[1] = p
        BY <4>4
      <4>7. QED
        BY <4>5, <4>6 DEF Covered
    <3>5. QED
      BY <3>2, <3>3, <3>4
  <2>11. ASSUME NEW x \in Covered(s), x \notin Span(r) PROVE x \in Covered(R)
    <3>1. PICK i \in DOMAIN s : x \in Span(s[i])
      BY DEF Covered
    <3>2. CASE i < k \/ m < i
      BY <2>8, <3>1, <3>2 DEF Outside
    <3>3. CASE ~(i < k \/ m < i)
      <4>1. k <= i /\ i <= m
        BY <1>3, <1>5, <3>3
      <4>2. QED
        BY <2>8, <2>10, <2>11, <3>1, <4>1
    <3>4. QED
      BY <3>2, <3>3
  <2>12. ASSUME NEW x \in Covered(R) PROVE x \in Covered(s) /\ x \notin Span(r)
    <3>1. CASE x \in Outside(s, k, m)
      <4>1. PICK i \in DOMAIN s : (i < k \/ m < i) /\ x \in Span(s[i])
        BY <3>1 DEF Outside
      <4>2. QED
        BY <2>9, <4>1 DEF Covered
    <3>2. CASE x \in Covered(t)
      <4>1. PICK j \in DOMAIN t : x \in Span(t[j])
        BY <3>2 DEF Covered
      <4>2. /\ k <= m /\ m \in DOMAIN s
            /\ t[j].location = RangeRightBound(r) + 1
            /\ RangeRightBound(t[j]) = RangeRightBound(s[m])
        BY <2>5
      <4>3. /\ x \in Indexes /\ x \in Nat
            /\ RangeRightBound(r) + 1 <= x /\ x <= RangeRightBound(s[m])
        BY <4>1, <4>2 DEF Span, Indexes
      <4>4. s[m].location <= RangeRightBound(r)
        <5>1. m \in k..m
          BY <1>3, <1>5, <4>2
        <5>2. QED
          BY <1>3, <1>4, <4>2, <5>1, Met
      <4>5. s[m].location <= x /\ ~(x <= RangeRightBound(r))
        BY <2>1, <4>2, <4>3, <4>4
      <4>6. QED
        BY <4>2, <4>3, <4>5 DEF Covered, Span
    <3>3. QED
      BY <2>8, <3>1, <3>2
  <2>13. QED
    BY <2>7, <2>11, <2>12
<1>10. QED
  BY <1>8, <1>9 DEF R

\* What the searches make of a range that lies inside another: the first that
\* begins at or after it is the next one, which does not meet it, and nothing is
\* removed, whatever the width and however long the array (removeRange).
THEOREM InsideIsKept ==
  ASSUME UINT64_MAX \in Nat, NEW s \in Seq(ProperRanges), NEW r \in ProperRanges,
         Apart(s), NEW i \in DOMAIN s,
         s[i].location < r.location, RangeRightBound(r) <= RangeRightBound(s[i])
  PROVE  Removed(s, r) = s
<1> DEFINE k == LeftRangeIndex(s, r.location)
           m == LastMet(s, k, r)
           q == Remains(s, k, m, r)
<1>1. /\ r.location \in Nat /\ RangeRightBound(r) \in Nat /\ r.location <= RangeRightBound(r)
      /\ \A j \in DOMAIN s : /\ s[j] \in ProperRanges
                             /\ s[j].location \in Nat /\ RangeRightBound(s[j]) \in Nat
                             /\ s[j].location <= RangeRightBound(s[j])
  BY ProperRange
<1>2. DOMAIN s = 1..Len(s) /\ Len(s) \in Nat /\ i \in Nat
  OBVIOUS
<1>3. /\ k \in 1..Len(s) + 1
      /\ \A j \in DOMAIN s : /\ j < k => s[j].location < r.location
                             /\ k <= j => r.location <= s[j].location
  <2>1. k \in LeftPlaces(s, r.location, 1, Len(s))
    BY <1>1, LeftRangeIndexIs
  <2>2. InOrder(s)
    BY <1>1 DEF InOrder, Apart
  <2> HIDE DEF k
  <2>3. QED
    BY <1>2, <2>1, <2>2 DEF LeftPlaces
<1>4. Removed(s, r) = Replace(s, k, m, FlattenSeq(q))
  BY DEF Removed, Remains
<1> HIDE DEF k
<1>5. i < k /\ k \in Nat
  BY <1>1, <1>2, <1>3
<1>6. m = k - 1
  <2>1. /\ m \in k - 1..Len(s)
        /\ \A j \in k..m : RangeHasIntersection(s[j], r)
    BY <1>2, <1>3, LastMetIs
  <2> HIDE DEF m
  <2>2. ASSUME k <= m PROVE FALSE
    <3>1. k \in DOMAIN s /\ RangeHasIntersection(s[k], r) /\ s[k] \in ProperRanges
      BY <1>1, <1>2, <1>3, <1>5, <2>1, <2>2
    <3>2. s[k].location <= RangeRightBound(r)
      BY <3>1, Met
    <3>3. RangeRightBound(s[i]) < s[k].location
      BY <1>5, <3>1 DEF Apart
    <3>4. QED
      BY <1>1, <3>1, <3>2, <3>3
  <2>3. QED
    BY <1>5, <2>1, <2>2
<1>7. FlattenSeq(q) = <<>>
  <2>1. DOMAIN q = 1..0
    <3>1. m - k + 1 = 0
      BY <1>5, <1>6
    <3> HIDE DEF m
    <3>2. QED
      BY <3>1 DEF Remains
  <2>2. q \in [1..0 -> Seq(ProperRanges)]
    <3>1. q = [j \in DOMAIN q |-> q[j]]
      BY Zenon DEF Remains
    <3> HIDE DEF q
    <3>2. QED
      BY <2>1, <3>1
  <2> HIDE DEF q
  <2>3. 0 \in Nat /\ \A j \in 1..0 : j < 0 => q[j] = <<>>
    OBVIOUS
  <2>4. FlattenSeq(q) = IF 0 = 0 THEN <<>> ELSE q[0]
    BY <2>2, <2>3, FlattenIs, Zenon
  <2>5. QED
    BY <2>4
<1> HIDE DEF m, q
<1>8. Replace(s, k, k - 1, <<>>) = s
  <2> DEFINE R == Replace(s, k, k - 1, <<>>)
  <2>1. <<>> \in Seq(ProperRanges) /\ Len(<<>>) = 0 /\ k - 1 \in k - 1..Len(s)
    BY <1>2, <1>3, <1>5
  <2>2. Replaced(ProperRanges, s, k, k - 1, <<>>, R)
    BY <1>3, <2>1, ReplaceIs
  <2> HIDE DEF R
  <2>3. R \in Seq(ProperRanges) /\ Len(R) = Len(s)
    BY <1>2, <1>5, <2>1, <2>2 DEF Replaced
  <2>4. ASSUME NEW j \in 1..Len(s) PROVE R[j] = s[j]
    <3>1. CASE j \in 1..k - 1
      BY <2>2, <3>1 DEF Replaced
    <3>2. CASE j \notin 1..k - 1
      <4>1. j \in (k - 1) + 1..Len(s) /\ k - 1 + 0 + (j - (k - 1)) = j
        BY <1>2, <1>5, <3>2
      <4>2. R[k - 1 + Len(<<>>) + (j - (k - 1))] = s[j]
        BY <2>2, <4>1 DEF Replaced
      <4>3. QED
        BY <2>1, <4>1, <4>2
    <3>3. QED
      BY <3>1, <3>2
  <2>5. R = s
    BY <2>3, <2>4
  <2>6. QED
    BY <2>5 DEF R
<1>9. QED
  BY <1>4, <1>6, <1>7, <1>8

-----------------------------------------------------------------------------
(* How many there are.                                                     *)

\* The sum as count() forms it, from the last range on.
Sums(g, s) ==
  g = [S \in SUBSET (DOMAIN s) |->
         IF S = {} THEN 0 ELSE g[S \ {Max(S)}] + s[Max(S)].length + 1]

\* count() as the code has it.
LEMMA CountSum ==
  ASSUME NEW s PROVE Count(s) = (CHOOSE g : Sums(g, s))[DOMAIN s]
  BY Zenon DEF Count, FoldLeft, MapThenFoldSet, Sums

\* A set of places that is not empty has a last one.
LEMMA MaxIs ==
  ASSUME NEW n \in Nat, NEW S \in SUBSET (1..n), S # {} PROVE Max(S) \in S
<1> DEFINE below == {n - x : x \in S}
<1>1. below \in SUBSET Nat /\ below # {}
  <2>1. \A x \in S : n - x \in Nat
    OBVIOUS
  <2>2. QED
    BY <2>1
<1>2. PICK d \in below : \A m \in Nat : m < d => m \notin below
  BY <1>1, LeastBad
<1>3. PICK x \in S : d = n - x
  OBVIOUS
<1>4. ASSUME NEW y \in S PROVE x >= y
  <2>1. n - y \in below /\ n - y \in Nat /\ x \in Nat /\ y \in Nat
    OBVIOUS
  <2> HIDE DEF below
  <2>2. ~(n - y < d)
    BY <1>2, <2>1
  <2>3. QED
    BY <1>3, <2>1, <2>2
<1>5. QED
  BY <1>4 DEF Max

\* The numbers in the ranges of which the places are given.
Part(s, S) == UNION {Span(s[i]) : i \in S}

\* No range is without end.
Bounded(s) == \A i \in DOMAIN s : RangeRightBound(s[i]) # UINT64_MAX

\* A range that ends holds length + 1 indexes.
LEMMA SpanCount ==
  ASSUME UINT64_MAX \in Nat, NEW r \in ProperRanges, RangeRightBound(r) # UINT64_MAX
  PROVE  IsFiniteSet(Span(r)) /\ Cardinality(Span(r)) = r.length + 1
<1>1. /\ r.location \in Nat /\ r.length \in Nat
      /\ RangeRightBound(r) = r.location + r.length
      /\ RangeRightBound(r) < UINT64_MAX
  BY ProperRangesAreProper, RightBound DEF ProperRanges, Indexes
<1>2. Span(r) = r.location..r.location + r.length
  BY <1>1 DEF Span, Indexes
<1>3. /\ r.location \in Int /\ r.location + r.length \in Int
      /\ ~(r.location > r.location + r.length)
      /\ r.location + r.length - r.location + 1 = r.length + 1
  BY <1>1
<1> DEFINE b == r.location + r.length
<1>4. Span(r) = r.location..b /\ r.location \in Int /\ b \in Int
      /\ ~(r.location > b) /\ b - r.location + 1 = r.length + 1
  BY <1>1, <1>2, <1>3
<1> HIDE DEF b
<1>5. QED
  BY <1>4, FS_Interval, Zenon

\* One range more, and nothing is counted twice.
LEMMA PartGrows ==
  ASSUME UINT64_MAX \in Nat, NEW s \in Seq(ProperRanges), Apart(s), Bounded(s),
         NEW S \in SUBSET (DOMAIN s), NEW m \in S, IsFiniteSet(Part(s, S \ {m}))
  PROVE  /\ IsFiniteSet(Part(s, S))
         /\ Cardinality(Part(s, S)) = Cardinality(Part(s, S \ {m})) + s[m].length + 1
<1>1. s[m] \in ProperRanges /\ m \in DOMAIN s
  OBVIOUS
<1>2. IsFiniteSet(Span(s[m])) /\ Cardinality(Span(s[m])) = s[m].length + 1
  BY <1>1, SpanCount DEF Bounded
<1>3. Part(s, S) = Part(s, S \ {m}) \cup Span(s[m])
  BY DEF Part
<1>4. Part(s, S \ {m}) \cap Span(s[m]) = {}
  <2>1. ASSUME NEW i \in S, i # m, NEW x \in Span(s[i]), x \in Span(s[m]) PROVE FALSE
    <3>1. i \in DOMAIN s /\ i \in Nat /\ m \in Nat /\ s[i] \in ProperRanges
      OBVIOUS
    <3>2. /\ x \in Nat
          /\ s[i].location <= x /\ x <= RangeRightBound(s[i])
          /\ s[m].location <= x /\ x <= RangeRightBound(s[m])
      BY <2>1 DEF Span, Indexes
    <3>3. /\ s[i].location \in Nat /\ RangeRightBound(s[i]) \in Nat
          /\ s[m].location \in Nat /\ RangeRightBound(s[m]) \in Nat
      BY <1>1, <3>1, ProperRange
    <3>4. i < m \/ m < i
      BY <2>1, <3>1
    <3>5. RangeRightBound(s[i]) < s[m].location \/ RangeRightBound(s[m]) < s[i].location
      BY <1>1, <3>1, <3>4 DEF Apart
    <3>6. QED
      BY <3>2, <3>3, <3>5
  <2>2. QED
    BY <2>1 DEF Part
<1>5. /\ IsFiniteSet(Part(s, S))
      /\ Cardinality(Part(s, S)) = Cardinality(Part(s, S \ {m})) + (s[m].length + 1)
  <2>1. Cardinality({}) = 0
    BY FS_EmptySet
  <2>2. Cardinality(Part(s, S \ {m})) \in Nat /\ Cardinality(Span(s[m])) \in Nat
    BY <1>2, FS_CardinalityType
  <2>3. /\ IsFiniteSet(Part(s, S))
        /\ Cardinality(Part(s, S))
             = Cardinality(Part(s, S \ {m})) + Cardinality(Span(s[m])) - 0
    <3> DEFINE A == Part(s, S \ {m})
               B == Span(s[m])
    <3>1. IsFiniteSet(A) /\ IsFiniteSet(B) /\ A \cap B = {} /\ Part(s, S) = A \cup B
      BY <1>2, <1>3, <1>4
    <3> HIDE DEF A, B
    <3>2. /\ IsFiniteSet(A \cup B)
          /\ Cardinality(A \cup B) = Cardinality(A) + Cardinality(B) - Cardinality(A \cap B)
      BY <3>1, FS_Union, Zenon
    <3>3. QED
      BY <2>1, <3>1, <3>2, Zenon DEF A, B
  <2>4. QED
    BY <1>2, <2>2, <2>3
<1>6. Cardinality(Part(s, S \ {m})) \in Nat /\ s[m].length \in Nat
  BY <1>1, FS_CardinalityType DEF ProperRanges
<1>7. QED
  BY <1>5, <1>6

\* There are finitely many indexes.
LEMMA PartIsFinite ==
  ASSUME UINT64_MAX \in Nat, NEW s, NEW S \in SUBSET (DOMAIN s)
  PROVE  IsFiniteSet(Part(s, S))
<1>1. Part(s, S) \subseteq 0..UINT64_MAX - 1
  BY DEF Part, Span, Indexes
<1>2. IsFiniteSet(0..UINT64_MAX - 1)
  BY FS_Interval
<1>3. QED
  BY <1>1, <1>2, FS_Subset

\* The sum is the number of indexes in the array.
LEMMA CountIs ==
  ASSUME UINT64_MAX \in Nat, NEW s \in Seq(ProperRanges), Apart(s), Bounded(s)
  PROVE  Count(s) = Cardinality(Covered(s))
<1> DEFINE D == SUBSET (DOMAIN s)
           h == [S \in D |-> Cardinality(Part(s, S))]
           g == CHOOSE f : Sums(f, s)
<1>1. DOMAIN s = 1..Len(s) /\ Len(s) \in Nat /\ IsFiniteSet(DOMAIN s)
  BY FS_Interval
<1>2. ASSUME NEW S \in D, S # {}
      PROVE  /\ Max(S) \in S /\ S \ {Max(S)} \in D
             /\ Cardinality(Part(s, S))
                  = Cardinality(Part(s, S \ {Max(S)})) + s[Max(S)].length + 1
  <2>1. Max(S) \in S
    BY <1>1, <1>2, MaxIs
  <2>2. IsFiniteSet(Part(s, S \ {Max(S)}))
    BY PartIsFinite
  <2>3. QED
    BY <2>1, <2>2, PartGrows
<1>3. Part(s, {}) = {} /\ Cardinality(Part(s, {})) = 0
  BY FS_EmptySet DEF Part
<1>4. Sums(h, s)
  <2>1. ASSUME NEW S \in D
        PROVE  h[S] = IF S = {} THEN 0 ELSE h[S \ {Max(S)}] + s[Max(S)].length + 1
    <3>1. CASE S = {}
      BY <1>3, <3>1
    <3>2. CASE S # {}
      BY <1>2, <3>2
    <3>3. QED
      BY <3>1, <3>2
  <2>2. h = [S \in D |-> IF S = {} THEN 0 ELSE h[S \ {Max(S)}] + s[Max(S)].length + 1]
    BY <2>1
  <2>3. QED
    BY <2>2 DEF Sums
<1>5. Sums(g, s)
  BY <1>4
<1> HIDE DEF g
<1>6. ASSUME NEW S \in D
      PROVE  g[S] = IF S = {} THEN 0 ELSE g[S \ {Max(S)}] + s[Max(S)].length + 1
  BY <1>5 DEF Sums
<1> DEFINE bad == {n \in Nat : \E S \in D : /\ Cardinality(S) = n
                                           /\ g[S] # Cardinality(Part(s, S))}
<1>7. bad = {}
  <2>1. SUFFICES ASSUME bad # {} PROVE FALSE
    OBVIOUS
  <2>2. PICK n \in bad : \A i \in Nat : i < n => i \notin bad
    BY <2>1, LeastBad
  <2>3. PICK S \in D : Cardinality(S) = n /\ g[S] # Cardinality(Part(s, S))
    OBVIOUS
  <2>4. S # {}
    BY <1>3, <1>6, <2>3
  <2> DEFINE T == S \ {Max(S)}
  <2>5. T \in D /\ Max(S) \in S
    BY <1>2, <2>4
  <2>6. Cardinality(T) \in Nat /\ Cardinality(T) < n
    <3>1. IsFiniteSet(S) /\ IsFiniteSet(T)
      BY <1>1, <2>5, FS_Subset
    <3>2. Cardinality(T) = Cardinality(S) - 1 /\ Cardinality(S) \in Nat /\ Cardinality(T) \in Nat
      BY <2>5, <3>1, FS_RemoveElement, FS_CardinalityType
    <3>3. QED
      BY <2>3, <3>2
  <2>7. g[T] = Cardinality(Part(s, T))
    BY <2>2, <2>5, <2>6
  <2>8. QED
    BY <1>2, <1>6, <2>3, <2>4, <2>7
<1>8. ASSUME NEW S \in D PROVE g[S] = Cardinality(Part(s, S))
  <2>1. Cardinality(S) \in Nat
    BY <1>1, FS_Subset, FS_CardinalityType
  <2>2. QED
    BY <1>7, <2>1
<1>9. Part(s, DOMAIN s) = Covered(s)
  BY DEF Part, Covered
<1>10. Count(s) = g[DOMAIN s]
  BY CountSum DEF g
<1>11. QED
  BY <1>8, <1>9, <1>10

-----------------------------------------------------------------------------
(* Cutting off, and looking up.                                           *)

\* A range made of a location and a length that fit.
LEMMA ProperMade ==
  ASSUME UINT64_MAX \in Nat, NEW location \in Indexes, NEW length \in 0..UINT64_MAX,
         length = UINT64_MAX \/ location + length <= UINT64_MAX
  PROVE  /\ RangeMake(location, length) \in ProperRanges
         /\ RangeMake(location, length).location = location
         /\ RangeRightBound(RangeMake(location, length)) =
              IF length = UINT64_MAX THEN UINT64_MAX ELSE location + length
<1>1. RangeMake(location, length) \in ProperRanges
  BY DEF RangeMake, ProperRanges
<1>2. RangeMake(location, length).location = location
  BY DEF RangeMake
<1>3. RangeMake(location, length).length = length
  BY DEF RangeMake
<1>4. length = UINT64_MAX \/ Wrapped(location + length) = location + length
  BY Fits DEF Indexes
<1>5. QED
  BY <1>1, <1>2, <1>3, <1>4 DEF RangeRightBound

\* What intersectsRange makes of the array: ranges again; and if they were in
\* order and apart and r begins after 0 and has no end, they still are, and hold
\* what they held of r.
THEOREM IntersectedIs ==
  ASSUME UINT64_MAX \in Nat, UINT64_MAX > 1,
         NEW s \in Seq(ProperRanges), NEW r \in ProperRanges
  PROVE  /\ Intersected(s, r) \in Seq(ProperRanges)
         /\ Apart(s) /\ r.length = UINT64_MAX /\ r.location > 0 =>
              /\ Apart(Intersected(s, r))
              /\ Covered(Intersected(s, r)) = Covered(s) \cap Span(r)
<1> DEFINE a == RangeMake(0, Wrapped(r.location - 1))
           b == RangeMake(RangeRightBound(r), UINT64_MAX)
           low == Removed(s, a)
<1>1. /\ r.location \in Nat /\ r.location < UINT64_MAX
      /\ RangeRightBound(r) \in Nat /\ RangeRightBound(r) <= UINT64_MAX
  BY ProperRange DEF ProperRanges, Indexes
<1>2. Wrapped(r.location - 1) = IF r.location = 0 THEN UINT64_MAX ELSE r.location - 1
  <2>1. CASE r.location = 0
    <3>1. (-1) % (UINT64_MAX + 1) = UINT64_MAX
      OBVIOUS
    <3>2. QED
      BY <2>1, <3>1 DEF Wrapped
  <2>2. CASE r.location # 0
    BY <1>1, <2>2, Fits
  <2>3. QED
    BY <2>1, <2>2
<1>3. /\ a \in ProperRanges /\ a.location = 0
      /\ RangeRightBound(a) = IF r.location = 0 THEN UINT64_MAX ELSE r.location - 1
  <2>1. 0 \in Indexes /\ Wrapped(r.location - 1) \in 0..UINT64_MAX
    BY <1>1, <1>2 DEF Indexes
  <2>2. 0 + Wrapped(r.location - 1) <= UINT64_MAX
    BY <2>1
  <2>3. /\ a \in ProperRanges /\ a.location = 0
        /\ RangeRightBound(a) = IF Wrapped(r.location - 1) = UINT64_MAX THEN UINT64_MAX
                                ELSE 0 + Wrapped(r.location - 1)
    BY <2>1, <2>2, ProperMade
  <2>4. QED
    BY <1>1, <1>2, <2>3
<1>4. ASSUME RangeRightBound(r) # UINT64_MAX
      PROVE  b \in ProperRanges /\ RangeRightBound(b) = UINT64_MAX
  <2>1. RangeRightBound(r) \in Indexes /\ UINT64_MAX \in 0..UINT64_MAX
    BY <1>1, <1>4 DEF Indexes
  <2>2. QED
    BY <2>1, ProperMade
<1>5. Intersected(s, r) = IF RangeRightBound(r) = UINT64_MAX THEN low ELSE Removed(low, b)
  BY DEF Intersected
<1>6. RangeRightBound(a) # UINT64_MAX - 1 /\ UINT64_MAX # UINT64_MAX - 1
  BY <1>1, <1>3
<1>7. BeginsClear(s, a)
  <2>1. ASSUME NEW i \in DOMAIN s PROVE ~(s[i].location < 0)
    BY DEF ProperRanges, Indexes
  <2>2. QED
    BY <1>3, <2>1 DEF BeginsClear
<1> HIDE DEF a, b
<1>8. /\ low \in Seq(ProperRanges)
      /\ Apart(s) => Apart(low) /\ Covered(low) = Covered(s) \ Span(a)
  BY <1>3, <1>6, <1>7, RemovedIs
<1> HIDE DEF low
<1>9. RangeRightBound(r) # UINT64_MAX => Removed(low, b) \in Seq(ProperRanges)
  BY <1>4, <1>6, <1>8, RemovedIs
<1>10. ASSUME r.length = UINT64_MAX, r.location > 0
       PROVE  RangeRightBound(r) = UINT64_MAX /\ Covered(s) \ Span(a) = Covered(s) \cap Span(r)
  <2>1. RangeRightBound(r) = UINT64_MAX
    BY <1>10 DEF RangeRightBound
  <2>2. ASSUME NEW x \in Indexes PROVE x \in Span(a) <=> x \notin Span(r)
    <3>1. x \in Nat /\ x < UINT64_MAX
      BY DEF Indexes
    <3>2. x \in Span(a) <=> x <= r.location - 1
      BY <1>1, <1>3, <1>10, <3>1 DEF Span
    <3>3. x \in Span(r) <=> r.location <= x
      BY <2>1, <3>1 DEF Span
    <3>4. QED
      BY <1>1, <3>1, <3>2, <3>3
  <2>3. Covered(s) \subseteq Indexes
    BY DEF Covered, Span
  <2>4. QED
    BY <2>1, <2>2, <2>3
<1>11. QED
  BY <1>5, <1>8, <1>9, <1>10

\* The array holds an index if a range in it does, as the halving finds.
LEMMA ContainsIs ==
  ASSUME UINT64_MAX \in Nat, NEW s \in Seq(ProperRanges), Apart(s), NEW i \in Indexes
  PROVE  ContainsIndex(s, i) <=> i \in Covered(s)
<1>1. i \in Nat
  BY DEF Indexes
<1>2. i \in Covered(s) <=> \E k \in DOMAIN s : Holds(s[k], i)
  BY DEF Covered, Span, Holds
<1>3. CASE s = <<>>
  <2>1. ~ContainsIndex(s, i)
    BY <1>3, ContainsSearch, Zenon
  <2>2. DOMAIN s = {}
    BY <1>3
  <2>3. QED
    BY <1>2, <2>1, <2>2
<1>4. CASE s # <<>>
  <2>1. /\ Len(s) \in Nat /\ Len(s) # 0 /\ DOMAIN s = 1..Len(s)
        /\ \A k \in 1..Len(s) : s[k] \in ProperRanges
    BY <1>4
  <2>2. \A k \in 1..Len(s) : /\ s[k].location \in Nat /\ RangeRightBound(s[k]) \in Nat
                             /\ s[k].location <= RangeRightBound(s[k])
    BY <2>1, ProperRange
  <2>3. ContainsIndex(s, i) <=> \E k \in 1..Len(s) : Holds(s[k], i)
    BY <1>1, <1>4, <2>1, <2>2, ContainsSearchFinds
  <2>4. QED
    BY <1>2, <2>1, <2>3
<1>5. QED
  BY <1>3, <1>4
=============================================================================
