---------------------------- MODULE MessageStore ----------------------------
(***************************************************************************)
(* ADZStoreMsgToCoreData: the text and the HTML of messages, kept in Core  *)
(* Data for reading without a connection, with a cache before it and the   *)
(* server behind it.  Everything runs on the main thread: a search is one  *)
(* step, the completion of a fetch another, in any order.                  *)
(*                                                                         *)
(* An object is named by the uid it was inserted for and a number that     *)
(* tells duplicates apart.  The subject and the date of a message are      *)
(* present.  The string of all uids is the set of uids in it: what is      *)
(* looked up in it is a substring, which Occurs models.                    *)
(*                                                                         *)
(* Core Data: a fetch request finds inserted objects, saved or not, in no  *)
(* order; a save validates them all, and writes all or nothing.            *)
(*                                                                         *)
(* A definition marked `mutant' is no part of the specification: it is the *)
(* one below it with a plausible bug, which a property here must notice.   *)
(***************************************************************************)
EXTENDS Naturals, FiniteSets, Functions

CONSTANTS Uids,
          Occurs,      \* <<u, v>>: the digits of u occur in those of v
          CacheLimit,  \* entries beyond which the cache is emptied, 10
          Copies,      \* bound: SUMMARY objects for one uid
          HtmlCopies,  \* bound: HTML objects for one uid
          OpsBound     \* bound: fetches of text under way for one uid

ASSUME StoreAssumption ==
  /\ Occurs \subseteq Uids \X Uids
  /\ \A u \in Uids : <<u, u>> \in Occurs
  /\ CacheLimit \in Nat /\ OpsBound \in Nat
  /\ Copies \in Nat /\ HtmlCopies \in 0..Copies

Objects == Uids \X (1..Copies)

Uid(x) == x[1]

VARIABLES
  summaries,     \* SUMMARY objects
  texts,         \* those whose szPlaintext is not nil
  textOps,       \* fetches of plain text under way, for each
  htmls,         \* HTML objects
  bodies,        \* those whose szHtml is not nil
  htmlOps,       \* those whose HTML is being fetched
  uidsInserted,  \* the UIDS object exists
  szUids,        \* the uids in its string; none while it is nil
  dicCached,     \* uids with an entry in the cache
  cachedText,    \* entries with a szPlaintext
  cachedHtml,    \* entries with a szHtml
  disk,          \* what the last successful save wrote
  calm           \* from here on fetches succeed

context == <<summaries, texts, htmls, bodies, uidsInserted, szUids>>
cache   == <<dicCached, cachedText, cachedHtml>>
vars == <<context, textOps, htmlOps, cache, disk, calm>>

Empty == [summaries |-> {}, htmls |-> {}, szUids |-> {}]

Init ==
  /\ summaries = {} /\ texts = {} /\ textOps = [x \in Objects |-> 0]
  /\ htmls = {} /\ bodies = {} /\ htmlOps = {}
  /\ uidsInserted = FALSE /\ szUids = {}
  /\ dicCached = {} /\ cachedText = {} /\ cachedHtml = {}
  /\ disk = Empty
  /\ calm = FALSE

Of(objects, u) == {x \in objects : Uid(x) = u}

\* The object of the next insertion, unless the bound is reached.
Fresh(objects, u) ==
  {x \in Objects \ objects :
     Uid(x) = u /\ \A k \in 1..(x[2] - 1) : <<u, k>> \in objects}

Listed(u) == \E v \in szUids : <<u, v>> \in Occurs

-----------------------------------------------------------------------------
(* Core Data.                                                              *)

\* Every attribute of an entity the store uses is mandatory.
Complete ==
  texts = summaries /\ bodies = htmls /\ (uidsInserted => szUids # {})

Stored == [summaries |-> summaries, htmls |-> htmls, szUids |-> szUids]

Save == disk' = IF Complete' THEN Stored' ELSE disk

-----------------------------------------------------------------------------
(* searchPlaintextOfMsg:, called for every cell that comes on screen.      *)

\* The getter dicCached empties a cache that has grown too large.
Trimmed(entries) == IF Cardinality(dicCached) > CacheLimit THEN {} ELSE entries

CacheText(us) ==
  /\ dicCached' = Trimmed(dicCached) \cup us
  /\ cachedText' = Trimmed(cachedText) \cup us
  /\ cachedHtml' = Trimmed(cachedHtml)

RemoveEntries(us) ==
  /\ dicCached' = dicCached \ us
  /\ cachedText' = cachedText \ us
  /\ cachedHtml' = cachedHtml \ us

InCache(u) == u \in Trimmed(dicCached)

SearchCacheKeeping(u) ==                                       \* mutant
  InCache(u) /\ UNCHANGED vars

\* An entry without text is removed; the next search fetches again.
SearchCache(u) ==
  /\ InCache(u)
  /\ RemoveEntries({u} \ cachedText)
  /\ UNCHANGED <<context, textOps, htmlOps, disk, calm>>

SetPlaintext(x) ==
  /\ SumFunctionOnSet(textOps, Of(Objects, Uid(x))) < OpsBound
  /\ textOps' = [textOps EXCEPT ![x] = @ + 1]

\* With no object the uid is left in the string: the copy without it is dropped.
SearchListed(u) ==
  /\ ~InCache(u) /\ Listed(u)
  /\ \/ /\ Of(summaries, u) = {}
        /\ CacheText({}) /\ UNCHANGED textOps
     \/ /\ Of(texts, u) # {}
        /\ CacheText({u}) /\ UNCHANGED textOps
     \/ \E x \in Of(summaries \ texts, u) :
          CacheText({}) /\ SetPlaintext(x)
  /\ UNCHANGED <<context, htmlOps, disk, calm>>

\* The first search inserts the UIDS object as well.
InsertAs(u, managed) ==
  /\ ~InCache(u) /\ ~Listed(u)
  /\ \E x \in Fresh(summaries, u) :
       /\ SetPlaintext(x)
       /\ summaries' = IF managed THEN summaries \cup {x} ELSE summaries
  /\ uidsInserted' = TRUE
  /\ CacheText({})
  /\ UNCHANGED <<texts, htmls, bodies, htmlOps, szUids, disk, calm>>

InsertUnmanaged(u) == InsertAs(u, FALSE)                       \* mutant
InsertSummary(u) == InsertAs(u, TRUE)

SearchPlaintext(u) == SearchCache(u) \/ SearchListed(u) \/ InsertSummary(u)

\* The completion of setPlaintext:summary:.  A failed fetch has no text, and
\* its uid is listed none the less.
TextArrives(x, ok, cached) ==
  /\ textOps[x] > 0
  /\ calm => ok
  /\ textOps' = [textOps EXCEPT ![x] = @ - 1]
  /\ texts' = IF ok THEN texts \cup {x} ELSE texts \ {x}
  /\ szUids' = szUids \cup {Uid(x)}
  /\ dicCached' = dicCached \cup {Uid(x)}
  /\ cachedText' = cached
  /\ cachedHtml' = cachedHtml \ {Uid(x)}
  /\ UNCHANGED <<summaries, htmls, bodies, uidsInserted, htmlOps, calm>>

CachedText(x, ok) ==
  IF ok THEN cachedText \cup {Uid(x)} ELSE cachedText \ {Uid(x)}

PlaintextUnsaved(x, ok) ==                                     \* mutant
  TextArrives(x, ok, CachedText(x, ok)) /\ UNCHANGED disk

PlaintextSavedFirst(x, ok) ==                                  \* mutant
  /\ TextArrives(x, ok, CachedText(x, ok))
  /\ disk' = IF Complete' THEN [Stored' EXCEPT !.szUids = szUids] ELSE disk

PlaintextKeepsEntry(x, ok) ==                                  \* mutant
  TextArrives(x, ok, IF ok THEN CachedText(x, ok) ELSE cachedText) /\ Save

Plaintext(x, ok) == TextArrives(x, ok, CachedText(x, ok)) /\ Save

-----------------------------------------------------------------------------
(* searchHtmlOfMsg:, called when a message whose cell was shown is opened. *)

FoundHtml(u) ==
  /\ Of(bodies, u) # {}
  /\ cachedHtml' = cachedHtml \cup ({u} \cap dicCached)
  /\ UNCHANGED <<context, textOps, htmlOps, dicCached, cachedText, disk, calm>>

\* Also when a fetch has failed, or is under way, for another object.
InsertHtml(u) ==
  /\ \/ Of(htmls, u) = {}
     \/ Of(htmls \ bodies, u) # {}
  /\ \E x \in Fresh(htmls, u) :
       /\ x[2] <= HtmlCopies
       /\ htmls' = htmls \cup {x}
       /\ htmlOps' = htmlOps \cup {x}
  /\ UNCHANGED <<summaries, texts, bodies, uidsInserted, szUids, textOps, cache,
                 disk, calm>>

SearchHtml(u) ==
  /\ Of(summaries, u) # {} /\ u \notin cachedHtml
  /\ FoundHtml(u) \/ InsertHtml(u)

\* The completion of setHtmlFromServer:html:.
HtmlFromServer(x, ok) ==
  /\ x \in htmlOps
  /\ calm => ok
  /\ htmlOps' = htmlOps \ {x}
  /\ bodies' = IF ok THEN bodies \cup {x} ELSE bodies
  /\ cachedHtml' = IF ok THEN cachedHtml \cup ({Uid(x)} \cap dicCached)
                   ELSE cachedHtml \ {Uid(x)}
  /\ UNCHANGED <<summaries, texts, htmls, uidsInserted, szUids, textOps,
                 dicCached, cachedText, calm>>
  /\ Save

-----------------------------------------------------------------------------
\* The process ends; the next one finds what is on disk.
Restart ==
  /\ summaries' = disk.summaries /\ texts' = disk.summaries
  /\ htmls' = disk.htmls /\ bodies' = disk.htmls
  /\ szUids' = disk.szUids /\ uidsInserted' = (disk.szUids # {})
  /\ textOps' = [x \in Objects |-> 0] /\ htmlOps' = {}
  /\ dicCached' = {} /\ cachedText' = {} /\ cachedHtml' = {}
  /\ UNCHANGED <<disk, calm>>

\* From some time on the process stays up and the server answers.
BecomesCalm ==
  /\ ~calm
  /\ calm' = TRUE
  /\ UNCHANGED <<context, textOps, htmlOps, cache, disk>>

Next ==
  \/ \E u \in Uids : SearchPlaintext(u) \/ SearchHtml(u)
  \/ \E x \in Objects, ok \in BOOLEAN : Plaintext(x, ok) \/ HtmlFromServer(x, ok)
  \/ ~calm /\ Restart
  \/ BecomesCalm

Spec == Init /\ [][Next]_vars

\* Fetches complete, and the cells of the table come on screen again.
Fairness ==
  /\ \A u \in Uids : WF_vars(SearchPlaintext(u))
  /\ \A x \in Objects : WF_vars(\E ok \in BOOLEAN : Plaintext(x, ok))

FairSpec == Spec /\ Fairness

-----------------------------------------------------------------------------
(* Properties.                                                             *)

TypeOK ==
  /\ summaries \subseteq Objects /\ texts \subseteq summaries
  /\ textOps \in [Objects -> Nat]
  /\ \A x \in Objects : textOps[x] > 0 => x \in summaries
  /\ bodies \subseteq htmls /\ htmlOps \subseteq htmls \ bodies
  /\ htmls \subseteq Objects
  /\ uidsInserted \in BOOLEAN /\ szUids \subseteq Uids
  /\ dicCached \subseteq Uids
  /\ cachedText \subseteq dicCached /\ cachedHtml \subseteq dicCached
  /\ disk \in [summaries : SUBSET Objects, htmls : SUBSET Objects,
               szUids : SUBSET Uids]
  /\ calm \in BOOLEAN

\* A save that validation refuses is made up for: when no object lacks an
\* attribute, everything in memory is on disk, in whatever order the fetches
\* that completed them ended (the two calls of save:).
CompleteIsSaved == Complete => disk = Stored

\* What a restart finds is consistent at every moment: the list of uids names
\* exactly the messages whose text is stored, so that a search after the restart
\* neither misses one nor inserts it twice.
DiskConsistent == disk.szUids = {Uid(x) : x \in disk.summaries}

\* The cache answers with the text of a message only while an object holds it,
\* though a later fetch may fail and take the text of the object away.
CacheCoherent == \A u \in cachedText : Of(texts, u) # {}

\* A message whose text failed to arrive is fetched again when it is shown
\* again: once fetches succeed its text is there.  This needs the removal of the
\* empty cache entry and the object with no text to be taken up again, and that
\* the uid does not occur in another one.
TextComes ==
  \A u \in Uids :
    (\A v \in Uids \ {u} : <<u, v>> \notin Occurs)
      => (calm ~> Of(texts, u) # {})

\* "to retain the mail content in a sandbox-like file system": when nothing is
\* being fetched, the texts that have been fetched are on disk.
ContentRetained ==
  (htmlOps = {} /\ \A x \in Objects : textOps[x] = 0)
    => texts \subseteq disk.summaries
-----------------------------------------------------------------------------
(* The inductive invariant.                                                *)

\* A uid is in the string as soon as its text has come, and only if there is an
\* object for it: when every object has its text, the string names the objects.
ListedAsFetched ==
  /\ \A x \in texts : Uid(x) \in szUids
  /\ \A u \in szUids : Of(summaries, u) # {}

IInv ==
  /\ TypeOK
  /\ CompleteIsSaved
  /\ DiskConsistent
  /\ CacheCoherent
  /\ ListedAsFetched
=============================================================================
