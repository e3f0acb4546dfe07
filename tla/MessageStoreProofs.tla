------------------------- MODULE MessageStoreProofs -------------------------
(***************************************************************************)
(* Proofs about MessageStore, for any set of uids, any way in which uids   *)
(* occur in each other, and any of the bounds.                             *)
(***************************************************************************)
EXTENDS MessageStore, TLAPS

LEMMA InitIInv == Init => IInv
<1> SUFFICES ASSUME Init PROVE IInv
  OBVIOUS
<1> USE DEF Init, Empty, Stored
<1>1. TypeOK
  <2>1. uidsInserted \in BOOLEAN /\ calm \in BOOLEAN
    BY Zenon
  <2>2. QED
    BY <2>1 DEF TypeOK
<1>2. CompleteIsSaved /\ DiskConsistent /\ CacheCoherent /\ ListedAsFetched
  BY DEF CompleteIsSaved, DiskConsistent, CacheCoherent, ListedAsFetched
<1>3. QED
  BY <1>1, <1>2 DEF IInv

\* The objects in memory decide what is complete and what is stored.
LEMMA SameContext ==
  ASSUME IInv, UNCHANGED <<context, disk>>
  PROVE  CompleteIsSaved' /\ DiskConsistent' /\ ListedAsFetched'
  BY DEF IInv, CompleteIsSaved, DiskConsistent, ListedAsFetched, Complete, Stored,
         context, Of

-----------------------------------------------------------------------------
(* Searches.                                                               *)

\* A search for text adds to the cache at most uids whose text is there.
LEMMA CacheTextStep ==
  ASSUME IInv, NEW us \in SUBSET Uids, CacheText(us),
         \A u \in us : Of(texts, u) # {}, texts' = texts
  PROVE  /\ CacheCoherent'
         /\ dicCached' \subseteq Uids
         /\ cachedText' \subseteq dicCached' /\ cachedHtml' \subseteq dicCached'
<1>1. CASE Cardinality(dicCached) > CacheLimit
  BY <1>1 DEF CacheText, Trimmed, CacheCoherent, Of
<1>2. CASE ~(Cardinality(dicCached) > CacheLimit)
  BY <1>2 DEF CacheText, Trimmed, CacheCoherent, Of, IInv, TypeOK
<1>3. QED
  BY <1>1, <1>2

LEMMA SetPlaintextStep ==
  ASSUME IInv, NEW x \in Objects, SetPlaintext(x)
  PROVE  /\ textOps' \in [Objects -> Nat]
         /\ \A y \in Objects : textOps'[y] > 0 => y = x \/ textOps[y] > 0
  BY DEF SetPlaintext, IInv, TypeOK

LEMMA SearchPlaintextStep ==
  ASSUME IInv, NEW u \in Uids, SearchPlaintext(u)
  PROVE  IInv'
<1>1. CASE SearchCache(u)
  <2>1. TypeOK' /\ CacheCoherent'
    BY <1>1 DEF SearchCache, RemoveEntries, IInv, TypeOK, CacheCoherent, context, Of
  <2>2. QED
    BY <1>1, <2>1, SameContext DEF SearchCache, IInv
<1>2. CASE SearchListed(u)
  <2>1. UNCHANGED <<context, htmlOps, disk, calm>>
    BY <1>2 DEF SearchListed
  <2>2. PICK us \in SUBSET {u} : CacheText(us) /\ \A v \in us : Of(texts, v) # {}
    BY <1>2 DEF SearchListed
  <2>3. /\ textOps' \in [Objects -> Nat]
        /\ \A x \in Objects : textOps'[x] > 0 => x \in summaries
    <3>1. CASE UNCHANGED textOps
      BY <3>1 DEF IInv, TypeOK
    <3>2. CASE \E x \in Of(summaries \ texts, u) : SetPlaintext(x)
      <4>1. PICK x \in Objects : x \in summaries /\ SetPlaintext(x)
        BY <3>2 DEF Of, IInv, TypeOK
      <4>2. QED
        BY <4>1, SetPlaintextStep DEF IInv, TypeOK
    <3>3. QED
      BY <1>2, <3>1, <3>2 DEF SearchListed
  <2>4. /\ CacheCoherent'
        /\ dicCached' \subseteq Uids
        /\ cachedText' \subseteq dicCached' /\ cachedHtml' \subseteq dicCached'
    BY <2>1, <2>2, CacheTextStep DEF context
  <2>5. TypeOK'
    BY <2>1, <2>3, <2>4 DEF IInv, TypeOK, context
  <2>6. QED
    BY <2>1, <2>4, <2>5, SameContext DEF IInv
<1>3. CASE InsertSummary(u)
  <2>1. PICK x \in Fresh(summaries, u) :
          SetPlaintext(x) /\ summaries' = summaries \cup {x}
    BY <1>3 DEF InsertSummary, InsertAs
  <2>2. x \in Objects /\ x \notin summaries
    BY <2>1 DEF Fresh
  <2>3. /\ uidsInserted' = TRUE /\ CacheText({})
        /\ UNCHANGED <<texts, htmls, bodies, htmlOps, szUids, disk, calm>>
    BY <1>3 DEF InsertSummary, InsertAs
  <2>4. /\ CacheCoherent'
        /\ dicCached' \subseteq Uids
        /\ cachedText' \subseteq dicCached' /\ cachedHtml' \subseteq dicCached'
    BY <2>3, CacheTextStep
  <2>5. TypeOK'
    <3>1. uidsInserted' \in BOOLEAN
      BY <2>3, Zenon
    <3>2. QED
      BY <2>1, <2>2, <2>3, <2>4, <3>1, SetPlaintextStep DEF IInv, TypeOK
  <2>6. ~Complete'
    BY <2>1, <2>2, <2>3 DEF Complete, IInv, TypeOK
  <2>7. CompleteIsSaved' /\ DiskConsistent' /\ ListedAsFetched'
    BY <2>1, <2>3, <2>6 DEF IInv, CompleteIsSaved, DiskConsistent, ListedAsFetched, Of
  <2>8. QED
    BY <2>4, <2>5, <2>7 DEF IInv
<1>4. QED
  BY <1>1, <1>2, <1>3 DEF SearchPlaintext

LEMMA SearchHtmlStep ==
  ASSUME IInv, NEW u \in Uids, SearchHtml(u)
  PROVE  IInv'
<1>1. CASE FoundHtml(u)
  <2>1. TypeOK' /\ CacheCoherent'
    BY <1>1 DEF FoundHtml, IInv, TypeOK, CacheCoherent, context, Of
  <2>2. QED
    BY <1>1, <2>1, SameContext DEF FoundHtml, IInv
<1>2. CASE InsertHtml(u)
  <2>1. PICK x \in Fresh(htmls, u) :
          htmls' = htmls \cup {x} /\ htmlOps' = htmlOps \cup {x}
    BY <1>2 DEF InsertHtml
  <2>2. x \in Objects /\ x \notin htmls
    BY <2>1 DEF Fresh
  <2>3. UNCHANGED <<summaries, texts, bodies, uidsInserted, szUids, textOps, cache,
                    disk, calm>>
    BY <1>2 DEF InsertHtml
  <2>4. TypeOK' /\ CacheCoherent'
    BY <2>1, <2>2, <2>3 DEF IInv, TypeOK, CacheCoherent, cache, Of
  <2>5. ~Complete'
    BY <2>1, <2>2, <2>3 DEF Complete, IInv, TypeOK
  <2>6. CompleteIsSaved' /\ DiskConsistent' /\ ListedAsFetched'
    BY <2>3, <2>5 DEF IInv, CompleteIsSaved, DiskConsistent, ListedAsFetched, Of
  <2>7. QED
    BY <2>4, <2>6 DEF IInv
<1>3. QED
  BY <1>1, <1>2 DEF SearchHtml

-----------------------------------------------------------------------------
(* Completions.                                                            *)

\* A save keeps the disk consistent: it is refused as long as an object has no
\* text, and when none is left the string names exactly the objects.
LEMMA SaveStep ==
  ASSUME IInv, TypeOK', ListedAsFetched', disk' = (IF Complete' THEN Stored' ELSE disk)
  PROVE  CompleteIsSaved' /\ DiskConsistent'
<1>1. CASE Complete'
  <2>1. texts' = summaries' /\ disk' = Stored'
    BY <1>1 DEF Complete
  <2>2. szUids' = {Uid(x) : x \in summaries'}
    <3>1. \A v \in szUids' : \E x \in summaries' : Uid(x) = v
      BY DEF ListedAsFetched, Of
    <3>2. \A x \in summaries' : Uid(x) \in szUids'
      BY <2>1 DEF ListedAsFetched
    <3>3. QED
      BY <3>1, <3>2
  <2>3. QED
    BY <2>1, <2>2 DEF CompleteIsSaved, DiskConsistent, Stored
<1>2. CASE ~Complete'
  BY <1>2 DEF CompleteIsSaved, DiskConsistent, IInv
<1>3. QED
  BY <1>1, <1>2

LEMMA PlaintextStep ==
  ASSUME IInv, NEW x \in Objects, NEW ok \in BOOLEAN, Plaintext(x, ok)
  PROVE  IInv'
<1>1. /\ textOps[x] > 0 /\ x \in summaries
      /\ textOps' = [textOps EXCEPT ![x] = @ - 1]
      /\ texts' = IF ok THEN texts \cup {x} ELSE texts \ {x}
      /\ szUids' = szUids \cup {Uid(x)}
      /\ dicCached' = dicCached \cup {Uid(x)}
      /\ cachedText' = IF ok THEN cachedText \cup {Uid(x)} ELSE cachedText \ {Uid(x)}
      /\ cachedHtml' = cachedHtml \ {Uid(x)}
      /\ UNCHANGED <<summaries, htmls, bodies, uidsInserted, htmlOps, calm>>
      /\ disk' = (IF Complete' THEN Stored' ELSE disk)
  BY DEF Plaintext, TextArrives, CachedText, Save, IInv, TypeOK
<1>2. Uid(x) \in Uids
  BY DEF Objects, Uid
<1>3. disk' \in [summaries : SUBSET Objects, htmls : SUBSET Objects,
                 szUids : SUBSET Uids]
  BY <1>1, <1>2 DEF Stored, IInv, TypeOK
<1>4. textOps' \in [Objects -> Nat]
      /\ \A y \in Objects : textOps'[y] > 0 => textOps[y] > 0
  BY <1>1 DEF IInv, TypeOK
<1>5. TypeOK'
  BY <1>1, <1>2, <1>3, <1>4 DEF IInv, TypeOK
<1>6. CacheCoherent'
  BY <1>1 DEF IInv, CacheCoherent, Of
<1>7. ListedAsFetched'
  BY <1>1 DEF IInv, ListedAsFetched, Of
<1>8. QED
  BY <1>1, <1>5, <1>6, <1>7, SaveStep DEF IInv

LEMMA HtmlFromServerStep ==
  ASSUME IInv, NEW x \in Objects, NEW ok \in BOOLEAN, HtmlFromServer(x, ok)
  PROVE  IInv'
<1>1. /\ x \in htmlOps
      /\ htmlOps' = htmlOps \ {x}
      /\ bodies' = IF ok THEN bodies \cup {x} ELSE bodies
      /\ cachedHtml' = IF ok THEN cachedHtml \cup ({Uid(x)} \cap dicCached)
                       ELSE cachedHtml \ {Uid(x)}
      /\ UNCHANGED <<summaries, texts, htmls, uidsInserted, szUids, textOps,
                     dicCached, cachedText, calm>>
      /\ disk' = (IF Complete' THEN Stored' ELSE disk)
  BY DEF HtmlFromServer, Save
<1>2. TypeOK'
  BY <1>1 DEF Stored, IInv, TypeOK
<1>3. CacheCoherent' /\ ListedAsFetched'
  BY <1>1 DEF IInv, CacheCoherent, ListedAsFetched, Of
<1>4. QED
  BY <1>1, <1>2, <1>3, SaveStep DEF IInv

-----------------------------------------------------------------------------
(* Restarts, and the theorems.                                             *)

LEMMA RestartStep ==
  ASSUME IInv, Restart
  PROVE  IInv'
<1> USE DEF Restart, IInv, TypeOK
<1>1. uidsInserted' \in BOOLEAN
  BY Zenon
<1>2. TypeOK'
  BY <1>1
<1>3. CompleteIsSaved'
  BY DEF CompleteIsSaved, Stored
<1>4. DiskConsistent' /\ CacheCoherent' /\ ListedAsFetched'
  BY DEF DiskConsistent, CacheCoherent, ListedAsFetched, Of
<1>5. QED
  BY <1>2, <1>3, <1>4

\* IInv is inductive: what is written is right because a text and its place in
\* the string of uids change together, and because nothing incomplete is saved.
THEOREM StoreInvariant == Spec => []IInv
<1>1. IInv /\ [Next]_vars => IInv'
  <2> SUFFICES ASSUME IInv, [Next]_vars PROVE IInv'
    OBVIOUS
  <2>1. CASE \E u \in Uids : SearchPlaintext(u) \/ SearchHtml(u)
    BY <2>1, SearchPlaintextStep, SearchHtmlStep
  <2>2. CASE \E x \in Objects, ok \in BOOLEAN : Plaintext(x, ok) \/ HtmlFromServer(x, ok)
    BY <2>2, PlaintextStep, HtmlFromServerStep
  <2>3. CASE Restart
    BY <2>3, RestartStep
  <2>4. CASE BecomesCalm
    <3>1. TypeOK' /\ CacheCoherent'
      BY <2>4 DEF BecomesCalm, IInv, TypeOK, CacheCoherent, context, cache, Of
    <3>2. QED
      BY <2>4, <3>1, SameContext DEF BecomesCalm, IInv
  <2>5. CASE UNCHANGED vars
    <3>1. TypeOK' /\ CacheCoherent'
      BY <2>5 DEF vars, IInv, TypeOK, CacheCoherent, context, cache, Of
    <3>2. QED
      BY <2>5, <3>1, SameContext DEF vars, IInv
  <2>6. QED
    BY <2>1, <2>2, <2>3, <2>4, <2>5 DEF Next
<1>2. QED
  BY InitIInv, <1>1, PTL DEF Spec

\* The sets of objects, texts, fetches under way and cache entries stay within
\* each other: a fetch always completes into an object that exists.
THEOREM StoreTypeCorrect == Spec => []TypeOK
<1>1. IInv => TypeOK
  BY DEF IInv
<1>2. QED
  BY StoreInvariant, <1>1, PTL

\* Whenever no object lacks an attribute, memory is on disk: the completion that
\* filled the last gap also saved, whatever order the fetches ended in.
THEOREM EverythingSaved == Spec => []CompleteIsSaved
<1>1. IInv => CompleteIsSaved
  BY DEF IInv
<1>2. QED
  BY StoreInvariant, <1>1, PTL

\* At every moment, and so whenever the process ends, the list of uids on disk
\* names exactly the messages on disk.
THEOREM RestartFindsConsistent == Spec => []DiskConsistent
<1>1. IInv => DiskConsistent
  BY DEF IInv
<1>2. QED
  BY StoreInvariant, <1>1, PTL

\* The cache never answers with a text that no object holds any more.
THEOREM CacheAnswersTruly == Spec => []CacheCoherent
<1>1. IInv => CacheCoherent
  BY DEF IInv
<1>2. QED
  BY StoreInvariant, <1>1, PTL

-----------------------------------------------------------------------------
(* An object without a text is still found.                                *)

\* A fetch is under way for it, or its uid is listed, so that a search takes it
\* up again instead of inserting another object.
Retrievable == \A x \in summaries \ texts : textOps[x] > 0 \/ Uid(x) \in szUids

LEMMA SearchKeepsRetrievable ==
  ASSUME IInv, Retrievable, NEW u \in Uids, SearchPlaintext(u)
  PROVE  Retrievable'
<1> USE DEF Retrievable
<1>1. /\ UNCHANGED <<texts, szUids>>
      /\ \A x \in Objects : textOps'[x] >= textOps[x]
      /\ \A x \in summaries' \ summaries : textOps'[x] > 0
  <2>1. ASSUME NEW x \in Objects, SetPlaintext(x)
        PROVE  \A y \in Objects : textOps'[y] = textOps[y] + (IF y = x THEN 1 ELSE 0)
    BY <2>1 DEF SetPlaintext, IInv, TypeOK
  <2>2. textOps \in [Objects -> Nat] /\ summaries \subseteq Objects
    BY DEF IInv, TypeOK
  <2>3. CASE SearchCache(u)
    BY <2>2, <2>3 DEF SearchCache, context
  <2>4. CASE SearchListed(u)
    <3>1. UNCHANGED context
      BY <2>4 DEF SearchListed
    <3>2. UNCHANGED textOps \/ \E x \in Objects : SetPlaintext(x)
      BY <2>2, <2>4 DEF SearchListed, Of
    <3>3. \A y \in Objects : textOps'[y] >= textOps[y]
      BY <2>1, <2>2, <3>2
    <3>4. QED
      BY <3>1, <3>3 DEF context
  <2>5. CASE InsertSummary(u)
    <3>1. PICK x \in Objects : SetPlaintext(x) /\ summaries' = summaries \cup {x}
      BY <2>5 DEF InsertSummary, InsertAs, Fresh
    <3>2. \A y \in Objects : textOps'[y] = textOps[y] + (IF y = x THEN 1 ELSE 0)
      BY <2>1, <3>1
    <3>3. UNCHANGED <<texts, szUids>>
      BY <2>5 DEF InsertSummary, InsertAs
    <3>4. QED
      BY <2>2, <3>1, <3>2, <3>3
  <2>6. QED
    BY <2>3, <2>4, <2>5 DEF SearchPlaintext
<1>2. textOps \in [Objects -> Nat] /\ summaries \subseteq Objects
  BY DEF IInv, TypeOK
<1>3. textOps' \in [Objects -> Nat] /\ summaries' \subseteq Objects
  BY SearchPlaintextStep DEF IInv, TypeOK
<1>4. QED
  BY <1>1, <1>2, <1>3

LEMMA CompletionKeepsRetrievable ==
  ASSUME IInv, Retrievable, NEW x \in Objects, NEW ok \in BOOLEAN, Plaintext(x, ok)
  PROVE  Retrievable'
<1>1. /\ textOps' = [textOps EXCEPT ![x] = @ - 1]
      /\ texts' = IF ok THEN texts \cup {x} ELSE texts \ {x}
      /\ szUids' = szUids \cup {Uid(x)}
      /\ summaries' = summaries
  BY DEF Plaintext, TextArrives
<1>2. textOps \in [Objects -> Nat] /\ summaries \subseteq Objects
  BY DEF IInv, TypeOK
<1>3. ASSUME NEW y \in summaries' \ texts' PROVE textOps'[y] > 0 \/ Uid(y) \in szUids'
  <2>1. CASE y = x
    BY <1>1, <2>1
  <2>2. CASE y # x
    <3>1. y \in summaries \ texts /\ textOps'[y] = textOps[y]
      BY <1>1, <1>2, <1>3, <2>2
    <3>2. QED
      BY <1>1, <3>1 DEF Retrievable
  <2>3. QED
    BY <2>1, <2>2
<1>4. QED
  BY <1>3 DEF Retrievable

\* A message whose text did not arrive, or is about to, is never lost sight of:
\* no object stays without text, fetch and place in the string, whatever fails
\* and wherever the process ends (searchPlaintextOfMsg:, setPlaintext:summary:).
THEOREM TextIsRetrievable == Spec => []Retrievable
<1>1. Init => Retrievable
  BY DEF Init, Retrievable
<1>2. IInv /\ Retrievable /\ [Next]_vars => Retrievable'
  <2> SUFFICES ASSUME IInv, Retrievable, [Next]_vars PROVE Retrievable'
    OBVIOUS
  <2>1. ASSUME UNCHANGED <<summaries, texts, szUids, textOps>> PROVE Retrievable'
    BY <2>1 DEF Retrievable
  <2>2. ASSUME NEW u \in Uids, SearchHtml(u) PROVE Retrievable'
    BY <2>1, <2>2 DEF SearchHtml, FoundHtml, InsertHtml, context
  <2>3. ASSUME NEW x \in Objects, NEW ok \in BOOLEAN, HtmlFromServer(x, ok)
        PROVE  Retrievable'
    BY <2>1, <2>3 DEF HtmlFromServer
  <2>4. CASE Restart
    BY <2>4 DEF Restart, Retrievable
  <2>5. CASE BecomesCalm \/ UNCHANGED vars
    BY <2>1, <2>5 DEF BecomesCalm, vars, context
  <2>6. QED
    BY <2>2, <2>3, <2>4, <2>5, SearchKeepsRetrievable, CompletionKeepsRetrievable DEF Next
<1>3. QED
  BY <1>1, <1>2, StoreInvariant, PTL DEF Spec
=============================================================================
