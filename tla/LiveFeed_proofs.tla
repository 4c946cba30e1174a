-------------------------- MODULE LiveFeed_proofs --------------------------
(***************************************************************************)
(* Proofs about LiveFeed: its type invariant, and that a tab which has     *)
(* never chosen a language skips nothing between its cursor and the newest *)
(* row there was when it opened, for any sizes of page, hidden rows and    *)
(* numbers of requests on their way.                                       *)
(*                                                                         *)
(* Two things carry it.  About the server: what a page shows is closed     *)
(* upwards below its cursor, so no row between two cursors is in neither   *)
(* page (PageHoldsItsRange).  About the tab: a page that is on its way was *)
(* asked for below rows the list already held, and was read from a table   *)
(* with every row that is still there (FeedInv), however late it answers.  *)
(***************************************************************************)
EXTENDS LiveFeed, LeastElements, FiniteSetTheorems

\* What a request may be.
RequestOK(q) ==
    /\ q.table \subseteq 1..MaxRow
    /\ q.edition \in {"all", "ne", "en"}
    /\ q.from \in Nat
    /\ q.limit \in Nat \ {0}

\* The rows between a row and the newest one of the opening that are still there
\* and that no pass leaves out.
StillThere(from) == {r \in from..Opening : r \notin pruned /\ r \notin Hidden}

\* A request was read from a table that had every row that is still there.
FlyingOK ==
    \A q \in flying :
        /\ RequestOK(q)
        /\ q.from <= arrived
        /\ q.table \subseteq 1..arrived
        /\ (1..Opening) \ pruned \subseteq q.table
        /\ q.kind \in {"poll", "reset", "page"}
        /\ q.kind = "page" => q.from # Null

\* Before the first choice of a language no reset is on its way, and a page was
\* asked for below rows that the list holds.
PagesLieBelowTheList ==
    edition = "all" =>
        \A q \in flying :
            /\ q.edition = "all" /\ q.kind # "reset"
            /\ q.kind = "page" => StillThere(q.from) \subseteq list

FeedInv ==
    /\ FeedTypeOK
    /\ FlyingOK
    /\ PagesLieBelowTheList
    /\ NothingIsSkipped

-----------------------------------------------------------------------------
(* What the server answers *)

\* Places are natural numbers, up to twice the number of rows.
LEMMA PlaceTypes ==
    ASSUME NEW e, NEW r \in 1..MaxRow
    PROVE  Place(e, r) \in 0..(2 * MaxRow) /\ MaxRow \in Nat
  BY LiveFeedAssumption DEF Place

\* The rows that come before a row are finitely many.
LEMMA RowsBefore ==
    ASSUME NEW e, NEW rows \in SUBSET (1..MaxRow), NEW r
    PROVE  /\ IsFiniteSet({s \in rows : Place(e, s) > Place(e, r)})
           /\ Cardinality({s \in rows : Place(e, s) > Place(e, r)}) \in Nat
<1>1. IsFiniteSet(1..MaxRow)
  BY FS_Interval, LiveFeedAssumption
<1>2. {s \in rows : Place(e, s) > Place(e, r)} \subseteq 1..MaxRow
  OBVIOUS
<1> QED BY <1>1, <1>2, FS_Subset, FS_CardinalityType

\* The first rows of some that are not empty are not empty: the very first is there.
LEMMA FirstOfSome ==
    ASSUME NEW e, NEW rows \in SUBSET (1..MaxRow), rows # {}, NEW limit \in Nat \ {0}
    PROVE  FirstOf(e, rows, limit) # {}
<1> DEFINE f == [r \in rows |-> Place(e, r)]
<1>1. \A r \in rows : f[r] \in 0..(2 * MaxRow) /\ f[r] = Place(e, r)
  BY PlaceTypes
<1>2. 2 * MaxRow \in Nat
  BY LiveFeedAssumption
<1>3. PICK r \in rows : \A s \in rows : f[s] <= f[r]
  <2> HIDE DEF f
  <2> QED BY <1>1, <1>2, MostMeasured
<1>4. {s \in rows : Place(e, s) > Place(e, r)} = {}
  <2> SUFFICES ASSUME NEW s \in rows, Place(e, s) > Place(e, r) PROVE FALSE
    OBVIOUS
  <2>1. Place(e, s) <= Place(e, r) /\ Place(e, s) \in Int /\ Place(e, r) \in Int
    BY <1>1, <1>2, <1>3
  <2> QED BY <2>1
<1>5. Cardinality({s \in rows : Place(e, s) > Place(e, r)}) = 0
  BY <1>4, FS_EmptySet
<1> QED BY <1>5 DEF FirstOf

\* A row that comes before one of the first is one of the first.
LEMMA FirstIsClosedUpwards ==
    ASSUME NEW e, NEW rows \in SUBSET (1..MaxRow), NEW limit \in Nat,
           NEW n \in FirstOf(e, rows, limit), NEW r \in rows, Place(e, r) >= Place(e, n)
    PROVE  r \in FirstOf(e, rows, limit)
<1> DEFINE above(x) == {s \in rows : Place(e, s) > Place(e, x)}
<1>1. n \in rows /\ Cardinality(above(n)) < limit
  BY DEF FirstOf
<1>2. above(r) \subseteq above(n)
  <2> SUFFICES ASSUME NEW s \in rows, Place(e, s) > Place(e, r)
               PROVE  Place(e, s) > Place(e, n)
    OBVIOUS
  <2>1. Place(e, s) \in Int /\ Place(e, r) \in Int /\ Place(e, n) \in Int
    BY <1>1, PlaceTypes
  <2> QED BY <2>1
<1>3. IsFiniteSet(above(n)) /\ Cardinality(above(n)) \in Nat /\ Cardinality(above(r)) \in Nat
  BY RowsBefore
<1>4. Cardinality(above(r)) <= Cardinality(above(n))
  BY <1>2, <1>3, FS_Subset
<1>5. Cardinality(above(r)) < limit
  <2> HIDE DEF above
  <2> QED BY <1>1, <1>3, <1>4
<1> QED BY <1>5 DEF FirstOf

\* The last of some rows is one of them, and none comes after it.
LEMMA LastIsLast ==
    ASSUME NEW e, NEW rows \in SUBSET (1..MaxRow), rows # {}
    PROVE  LastOf(e, rows) \in rows /\ \A s \in rows : Place(e, s) >= Place(e, LastOf(e, rows))
<1> DEFINE f == [r \in rows |-> Place(e, r)]
<1>1. \A r \in rows : f[r] \in Nat /\ f[r] = Place(e, r)
  BY PlaceTypes
<1>2. PICK r \in rows : \A s \in rows : f[r] <= f[s]
  <2> HIDE DEF f
  <2> QED BY <1>1, LeastMeasured
<1>3. \A s \in rows : Place(e, s) >= Place(e, r)
  BY <1>1, <1>2
<1> QED BY <1>3 DEF LastOf

\* What is read, passed on, put on the page and shown was in the table.
LEMMA ShownWasThere ==
    ASSUME NEW q, RequestOK(q)
    PROVE  /\ \A e : Select(q, e) \subseteq q.table
           /\ Fetched(q) \subseteq q.table /\ Passed(Fetched(q)) \subseteq Fetched(q)
           /\ Page(q) \subseteq Passed(Fetched(q)) /\ Cut(q) \subseteq q.table
<1>1. \A e, rows, limit : FirstOf(e, rows, limit) \subseteq rows
  BY DEF FirstOf
<1>2. \A e : Select(q, e) \subseteq q.table
  BY <1>1 DEF Select
<1>3. Fetched(q) \subseteq q.table /\ Passed(Fetched(q)) \subseteq Fetched(q)
  BY <1>2 DEF Fetched, Passed
<1>4. Page(q) \subseteq Passed(Fetched(q))
  BY <1>1 DEF Page
<1>5. \A e, page, behind : Illustrated(e, page, behind) \subseteq page \cup behind
  BY <1>1 DEF Illustrated
<1>6. Cut(q) \subseteq q.table
  BY <1>3, <1>4, <1>5 DEF Cut
<1> QED BY <1>2, <1>3, <1>4, <1>6

\* A query that did not run dry read something, and shows something.
LEMMA PageIsNotEmpty ==
    ASSUME NEW q, RequestOK(q), ~Exhausted(q)
    PROVE  /\ Passed(Fetched(q)) # {} /\ Page(q) # {} /\ Cut(q) # {}
           /\ q.limit * Headroom \in Nat \ {0}
<1>1. q.limit * Headroom \in Nat \ {0}
  BY LiveFeedAssumption DEF RequestOK
<1>2. Select(q, q.edition) # {}
  <2> SUFFICES ASSUME Select(q, q.edition) = {} PROVE FALSE
    OBVIOUS
  <2>1. Cardinality(Select(q, q.edition)) = 0
    BY FS_EmptySet
  <2> QED BY <1>1, <2>1 DEF Exhausted
<1>3. Passed(Fetched(q)) # {}
  BY <1>2 DEF Fetched, Passed
<1>4. Passed(Fetched(q)) \in SUBSET (1..MaxRow) /\ q.limit \in Nat \ {0}
  BY ShownWasThere DEF RequestOK
<1>5. Page(q) # {}
  BY <1>3, <1>4, FirstOfSome DEF Page
<1>6. Cut(q) # {}
  <2> DEFINE behind == Passed(Fetched(q)) \ Page(q)
  <2>1. behind \ Bare # {} => FirstOf(q.edition, behind \ Bare, 1) # {}
    <3>1. behind \ Bare \in SUBSET (1..MaxRow) /\ 1 \in Nat \ {0}
      BY <1>4
    <3> QED BY <3>1, FirstOfSome
  <2>2. Illustrated(q.edition, Page(q), behind) # {}
    <3> HIDE DEF behind
    <3> QED BY <1>5, <2>1 DEF Illustrated
  <2> QED BY <1>5, <2>2 DEF Cut
<1> QED BY <1>1, <1>3, <1>5, <1>6

\* The next page starts below a row that was shown, or there is none.
LEMMA CursorWasShown ==
    ASSUME NEW q, RequestOK(q)
    PROVE  NextCursor(q) = Null \/ NextCursor(q) \in Cut(q)
<1> SUFFICES ASSUME ~Exhausted(q) PROVE PageEnd(q) \in Cut(q)
  BY DEF NextCursor
<1>1. Cut(q) # {} /\ Cut(q) \in SUBSET (1..MaxRow)
  BY PageIsNotEmpty, ShownWasThere DEF RequestOK
<1>2. LastOf(q.edition, Cut(q)) \in Cut(q)
  BY <1>1, LastIsLast
<1> QED BY <1>2 DEF PageEnd

\* Between its two cursors a page in no particular language shows every row there
\* is, but those that the passes leave out.
LEMMA PageHoldsItsRange ==
    ASSUME NEW q, RequestOK(q), q.edition = "all", NextCursor(q) # Null,
           NEW r \in q.table, r \notin Hidden,
           q.from = Null \/ r < q.from, r >= NextCursor(q)
    PROVE  r \in Cut(q)
<1> DEFINE n == LastOf("all", Page(q))
           rows == {s \in q.table \cap InEdition("all") : q.from = Null \/ s < q.from}
<1>1. ~Exhausted(q)
  BY DEF NextCursor
<1>2. /\ Page(q) # {} /\ Page(q) \in SUBSET (1..MaxRow)
      /\ Passed(Fetched(q)) \in SUBSET (1..MaxRow)
      /\ q.limit * Headroom \in Nat /\ q.limit \in Nat
  BY <1>1, PageIsNotEmpty, ShownWasThere DEF RequestOK
<1>3. n \in Page(q)
  BY <1>2, LastIsLast
<1>4. Cut(q) = Page(q) /\ NextCursor(q) = n
  BY <1>1, <1>3 DEF Cut, NextCursor, PageEnd
<1> HIDE DEF n
<1>5. n \in Passed(Fetched(q)) /\ n \in Fetched(q)
  BY <1>3, ShownWasThere
<1>6. Fetched(q) = FirstOf("all", rows, q.limit * Headroom)
  BY DEF Fetched, Select
<1>7. rows \in SUBSET (1..MaxRow) /\ r \in rows /\ r \in 1..MaxRow /\ n \in 1..MaxRow
  BY <1>2, <1>3 DEF InEdition, RequestOK
<1>8. Place("all", r) >= Place("all", n)
  BY <1>4, <1>7, LiveFeedAssumption DEF Place, InEdition
<1>9. r \in Fetched(q)
  <2> HIDE DEF rows
  <2> QED BY <1>2, <1>5, <1>6, <1>7, <1>8, FirstIsClosedUpwards
<1>10. r \in Passed(Fetched(q))
  BY <1>9 DEF Passed
<1>11. r \in Page(q)
  BY <1>2, <1>3, <1>8, <1>10, FirstIsClosedUpwards DEF Page
<1> QED BY <1>4, <1>11

-----------------------------------------------------------------------------
(* What the tab makes of it *)

\* The sizes of the pages, and where the table began.
LEMMA FeedSizes ==
    /\ MaxRow \in Nat /\ Opening \in Nat \ {0} /\ Opening <= MaxRow
    /\ FirstSize \in Nat \ {0} /\ PollSize \in Nat \ {0} /\ PageSize \in Nat \ {0}
    /\ {MaxSwitches, MaxLost} \subseteq Nat
    /\ "all" \notin Editions /\ Editions \subseteq {"ne", "en"}
  BY LiveFeedAssumption

\* A request that is made now is read from what is there now.
LEMMA AskedNow ==
    ASSUME FeedTypeOK, NEW kind, NEW e \in {"all", "ne", "en"}, NEW from \in 0..arrived,
           NEW limit \in Nat \ {0}, NEW q, q = Request(kind, e, from, limit)
    PROVE  /\ RequestOK(q)
           /\ q.table \subseteq 1..arrived /\ (1..Opening) \ pruned \subseteq q.table
           /\ q.kind = kind /\ q.edition = e /\ q.from = from
<1>1. arrived \in Nat /\ Opening <= arrived /\ arrived <= MaxRow /\ MaxRow \in Nat
      /\ Opening \in Nat
  BY FeedSizes DEF FeedTypeOK
<1>2. (1..arrived) \ pruned \subseteq 1..MaxRow
      /\ (1..Opening) \ pruned \subseteq (1..arrived) \ pruned
  BY <1>1
<1> QED BY <1>1, <1>2 DEF Request, RequestOK

\* The first page, which the tab is opened with and refreshed with.
FirstPage == Request("first", "all", Null, FirstSize)

\* What comes back is rows that had arrived, and a cursor among them.
LEMMA AnswerTypes ==
    ASSUME FeedTypeOK, NEW q, RequestOK(q), q.table \subseteq 1..arrived
    PROVE  Cut(q) \subseteq 1..arrived /\ NextCursor(q) \in 0..arrived
<1>1. Cut(q) \subseteq 1..arrived
  BY ShownWasThere
<1>2. arrived \in Nat
  BY FeedSizes DEF FeedTypeOK
<1> QED BY <1>1, <1>2, CursorWasShown DEF Null

\* So does the first page.
LEMMA FirstPageTypes ==
    ASSUME FeedTypeOK
    PROVE  /\ RequestOK(FirstPage) /\ (1..Opening) \ pruned \subseteq FirstPage.table
           /\ FirstPage.edition = "all" /\ FirstPage.from = Null
           /\ Cut(FirstPage) \subseteq 1..arrived /\ NextCursor(FirstPage) \in 0..arrived
<1>1. 0 \in 0..arrived
  BY FeedSizes DEF FeedTypeOK
<1>2. /\ RequestOK(FirstPage) /\ (1..Opening) \ pruned \subseteq FirstPage.table
      /\ FirstPage.edition = "all" /\ FirstPage.from = Null
      /\ FirstPage.table \subseteq 1..arrived
  BY <1>1, AskedNow, FeedSizes DEF FirstPage, Null, Request
<1> QED BY <1>2, AnswerTypes

\* Every action keeps the types of the tab, while the requests keep theirs.
LEMMA FeedTypeStep ==
    ASSUME FeedTypeOK, FlyingOK, [FeedNext]_feedVars
    PROVE  FeedTypeOK'
<1> USE DEF FeedTypeOK, feedBounds, paging
<1>0. /\ arrived \in Nat /\ MaxRow \in Nat /\ Opening \in Nat /\ Opening <= arrived
      /\ arrived <= MaxRow /\ MaxSwitches \in Nat /\ MaxLost \in Nat
      /\ \A q \in flying : q.table \subseteq 1..arrived /\ q.from \in 0..arrived
      /\ edition \in {"all", "ne", "en"}
  BY FeedSizes
<1>1. ASSUME NEW kind, NEW e \in {"all", "ne", "en"}, NEW from \in 0..arrived,
             NEW limit \in Nat \ {0}, Send(Request(kind, e, from, limit))
      PROVE  \A q \in flying' : q.table \subseteq 1..arrived /\ q.from \in 0..arrived
  BY <1>0, <1>1, AskedNow DEF Send, Request
<1>2. CASE CheckForNews
  <2>1. Null \in 0..arrived
    BY <1>0 DEF Null
  <2>2. \A q \in flying' : q.table \subseteq 1..arrived /\ q.from \in 0..arrived
    BY <1>0, <1>1, <1>2, <2>1, FeedSizes DEF CheckForNews
  <2> QED BY <1>2, <2>2 DEF CheckForNews
<1>3. CASE SwitchLanguage
  <2>1. PICK e \in Editions \ {edition} :
            edition' = e /\ Send(Request("reset", e, Null, PollSize))
    BY <1>3 DEF SwitchLanguage
  <2>2. e \in {"all", "ne", "en"} /\ Null \in 0..arrived
    BY <1>0, FeedSizes DEF Null
  <2>3. \A q \in flying' : q.table \subseteq 1..arrived /\ q.from \in 0..arrived
    BY <1>1, <2>1, <2>2, FeedSizes
  <2>4. switches' \in 0..MaxSwitches
    BY <1>0, <1>3 DEF SwitchLanguage
  <2> QED BY <1>3, <2>1, <2>3, <2>4 DEF SwitchLanguage
<1>4. CASE LoadMore
  <2>1. \A q \in flying' : q.table \subseteq 1..arrived /\ q.from \in 0..arrived
    BY <1>0, <1>1, <1>4, FeedSizes DEF LoadMore
  <2> QED BY <1>4, <2>1 DEF LoadMore
<1>5. CASE Refresh
  <2>1. /\ list' = list \cup Cut(FirstPage) /\ moreInFlight' = FALSE
        /\ feedCursor' = IF feedCursor = Null THEN NextCursor(FirstPage) ELSE feedCursor
        /\ hasMore' = (hasMore \/ NextCursor(FirstPage) # Null)
        /\ UNCHANGED <<arrived, pruned, edition, flying, feedBounds>>
    BY <1>5 DEF Refresh, FirstPage
  <2>2. Cut(FirstPage) \subseteq 1..arrived /\ NextCursor(FirstPage) \in 0..arrived
    BY FirstPageTypes
  <2>3. hasMore' \in BOOLEAN /\ (hasMore' => feedCursor' # Null)
    BY <2>1
  <2> QED BY <2>1, <2>2, <2>3
<1>6. ASSUME NEW q \in flying, AnswerArrives(q) PROVE FeedTypeOK'
  <2>1. Cut(q) \subseteq 1..arrived /\ NextCursor(q) \in 0..arrived
    BY AnswerTypes DEF FlyingOK
  <2>2. UNCHANGED <<arrived, pruned, edition, switches, lost>> /\ flying' \subseteq flying
    BY <1>6 DEF AnswerArrives
  <2>3. CASE PollAnswers(q)
    BY <2>1, <2>2, <2>3 DEF PollAnswers
  <2>4. CASE ResetAnswers(q)
    <3>1. hasMore' \in BOOLEAN /\ (hasMore' => feedCursor' # Null)
      BY <2>4 DEF ResetAnswers
    <3> QED BY <2>1, <2>2, <2>4, <3>1 DEF ResetAnswers
  <2>5. CASE PageAnswers(q)
    <3>1. hasMore' \in BOOLEAN /\ (hasMore' => feedCursor' # Null)
      BY <2>5 DEF PageAnswers, MoreBelow
    <3> QED BY <2>1, <2>2, <2>5, <3>1 DEF PageAnswers
  <2> QED BY <1>6, <2>3, <2>4, <2>5 DEF AnswerArrives
<1>7. ASSUME NEW q \in flying, RequestFails(q) PROVE FeedTypeOK'
  <2>1. lost' \in 0..MaxLost
    BY <1>0, <1>7 DEF RequestFails
  <2>2. moreInFlight' \in BOOLEAN
    BY <1>7 DEF RequestFails
  <2> QED BY <1>7, <2>1, <2>2 DEF RequestFails
<1>8. CASE Arrive
  <2>1. arrived' \in Opening..MaxRow /\ 1..arrived \subseteq 1..arrived'
        /\ 0..arrived \subseteq 0..arrived'
    BY <1>0, <1>8 DEF Arrive
  <2> QED BY <1>8, <2>1 DEF Arrive
<1>9. CASE PruneRow
  BY <1>9 DEF PruneRow
<1>10. CASE UNCHANGED feedVars
  BY <1>10 DEF feedVars
<1> QED BY <1>2, <1>3, <1>4, <1>5, <1>6, <1>7, <1>8, <1>9, <1>10 DEF FeedNext

\* Every action keeps what is known of the requests on their way.
LEMMA FlyingStep ==
    ASSUME FeedTypeOK, FlyingOK, [FeedNext]_feedVars
    PROVE  FlyingOK'
<1> USE DEF feedBounds, paging
<1>0. /\ 0 \in 0..arrived /\ feedCursor \in 0..arrived /\ edition \in {"all", "ne", "en"}
      /\ \A n \in 0..arrived : n <= arrived
  BY FeedSizes DEF FeedTypeOK
<1>1. ASSUME NEW kind \in {"poll", "reset", "page"}, NEW e \in {"all", "ne", "en"},
             NEW from \in 0..arrived, NEW limit \in Nat \ {0},
             kind = "page" => from # Null,
             Send(Request(kind, e, from, limit)), UNCHANGED <<arrived, pruned>>
      PROVE  FlyingOK'
  <2> DEFINE new == Request(kind, e, from, limit)
  <2>1. /\ RequestOK(new) /\ new.table \subseteq 1..arrived
        /\ (1..Opening) \ pruned \subseteq new.table
        /\ new.kind = kind /\ new.from = from
    BY AskedNow DEF Request
  <2>2. flying' = flying \cup {new}
    BY <1>1 DEF Send
  <2> HIDE DEF new
  <2> QED BY <1>0, <1>1, <2>1, <2>2 DEF FlyingOK, RequestOK
<1>2. ASSUME flying' \subseteq flying, UNCHANGED <<arrived, pruned>> PROVE FlyingOK'
  BY <1>2 DEF FlyingOK, RequestOK
<1>3. CASE CheckForNews
  BY <1>0, <1>1, <1>3, FeedSizes DEF CheckForNews, Null
<1>4. CASE SwitchLanguage
  <2>1. PICK e \in Editions : Send(Request("reset", e, Null, PollSize))
    BY <1>4 DEF SwitchLanguage
  <2> QED BY <1>0, <1>1, <1>4, <2>1, FeedSizes DEF SwitchLanguage, Null
<1>5. CASE LoadMore
  <2>1. feedCursor # Null
    BY <1>5 DEF LoadMore, FeedTypeOK
  <2> QED BY <1>0, <1>1, <1>5, <2>1, FeedSizes DEF LoadMore
<1>6. CASE Refresh
  BY <1>2, <1>6 DEF Refresh
<1>7. ASSUME NEW q \in flying, AnswerArrives(q) \/ RequestFails(q) PROVE FlyingOK'
  BY <1>2, <1>7 DEF AnswerArrives, RequestFails
<1>8. CASE Arrive
  <2>1. arrived \in Nat /\ arrived' = arrived + 1 /\ pruned' = pruned /\ flying' = flying
    BY <1>8, FeedSizes DEF Arrive, FeedTypeOK
  <2>2. \A q \in flying : q.from \in Nat
    BY DEF FlyingOK, RequestOK
  <2> QED BY <2>1, <2>2 DEF FlyingOK, RequestOK
<1>9. CASE PruneRow
  BY <1>9 DEF PruneRow, FlyingOK, RequestOK
<1>10. CASE UNCHANGED feedVars
  BY <1>2, <1>10 DEF feedVars
<1> QED BY <1>3, <1>4, <1>5, <1>6, <1>7, <1>8, <1>9, <1>10 DEF FeedNext

\* What is still there is no more than it was, and a list that grows goes on
\* holding it.
LEMMA StillHeld ==
    ASSUME pruned \subseteq pruned', list \subseteq list', NEW from, StillThere(from) \subseteq list
    PROVE  StillThere(from)' \subseteq list'
  BY DEF StillThere

\* The rows above the next cursor are in the answer, or above the cursor before it.
LEMMA RangesMeet ==
    ASSUME FeedTypeOK, NEW q, RequestOK(q), q.edition = "all",
           (1..Opening) \ pruned \subseteq q.table, NextCursor(q) # Null
    PROVE  StillThere(NextCursor(q)) \subseteq
              Cut(q) \cup IF q.from = Null THEN {} ELSE StillThere(q.from)
<1> SUFFICES ASSUME NEW r \in StillThere(NextCursor(q)), r \notin Cut(q)
             PROVE  q.from # Null /\ r \in StillThere(q.from)
  OBVIOUS
<1>1. NextCursor(q) \in Nat \ {0} /\ q.from \in Nat /\ Opening \in Nat
  <2>1. NextCursor(q) \in q.table
    BY CursorWasShown, ShownWasThere
  <2> QED BY <2>1, FeedSizes DEF RequestOK
<1>2. r \in q.table /\ r \notin Hidden /\ r >= NextCursor(q) /\ r \in 1..Opening /\ r \notin pruned
  BY <1>1 DEF StillThere
<1>3. ~(q.from = Null \/ r < q.from)
  BY <1>2, PageHoldsItsRange
<1> QED BY <1>1, <1>2, <1>3 DEF StillThere

\* Every action keeps the tab whole.
LEMMA FeedStep ==
    ASSUME FeedInv, [FeedNext]_feedVars
    PROVE  FeedInv'
<1> USE DEF feedBounds, paging
<1>1. FeedTypeOK' /\ FlyingOK' /\ FeedTypeOK /\ FlyingOK
  BY FeedTypeStep, FlyingStep DEF FeedInv
<1> SUFFICES ASSUME edition' = "all" PROVE PagesLieBelowTheList' /\ NothingIsSkipped'
  BY <1>1 DEF FeedInv, PagesLieBelowTheList, NothingIsSkipped
<1> DEFINE Pages == \A q \in flying : /\ q.edition = "all" /\ q.kind # "reset"
                                      /\ q.kind = "page" => StillThere(q.from) \subseteq list
           Whole == feedCursor # Null => StillThere(feedCursor) \subseteq list
<1>2. Whole' => NothingIsSkipped'
  BY DEF NothingIsSkipped, StillThere
<1>3. Pages' => PagesLieBelowTheList'
  BY DEF PagesLieBelowTheList
<1>4. edition = "all" => Pages /\ Whole
  BY DEF FeedInv, PagesLieBelowTheList, NothingIsSkipped, StillThere
<1>5. ASSUME edition = "all", flying' \subseteq flying, pruned \subseteq pruned', list \subseteq list'
      PROVE  Pages'
  BY <1>4, <1>5, StillHeld
<1>6. ASSUME edition = "all", UNCHANGED feedCursor, pruned \subseteq pruned', list \subseteq list'
      PROVE  Whole'
  <2>1. ASSUME feedCursor # Null PROVE StillThere(feedCursor)' \subseteq list'
    <3>1. PICK from : from = feedCursor
      OBVIOUS
    <3>2. StillThere(from)' \subseteq list'
      BY <1>4, <1>6, <2>1, <3>1, StillHeld
    <3> QED BY <1>6, <3>1, <3>2 DEF StillThere
  <2> QED BY <1>6, <2>1
<1> HIDE DEF Pages, Whole
<1>7. CASE CheckForNews \/ LoadMore
  <2>1. edition = "all" /\ UNCHANGED <<arrived, pruned, list, feedCursor>>
    BY <1>7 DEF CheckForNews, LoadMore
  <2>2. Whole'
    BY <1>6, <2>1
  <2>3. PICK q : /\ flying' = flying \cup {q} /\ q.edition = "all" /\ q.kind # "reset"
                 /\ q.kind = "page" => q.from = feedCursor /\ feedCursor # Null
    <3>1. CASE CheckForNews
      <4>1. PICK q : q = Request("poll", edition, Null, PollSize)
        OBVIOUS
      <4>2. flying' = flying \cup {q}
        BY <3>1, <4>1 DEF CheckForNews, Send
      <4> QED BY <2>1, <4>1, <4>2 DEF Request
    <3>2. CASE LoadMore
      <4>1. feedCursor # Null
        BY <1>1, <3>2 DEF LoadMore, FeedTypeOK
      <4>2. PICK q : q = Request("page", edition, feedCursor, PageSize)
        OBVIOUS
      <4>3. flying' = flying \cup {q}
        BY <3>2, <4>2 DEF LoadMore, Send
      <4> QED BY <2>1, <4>1, <4>2, <4>3 DEF Request
    <3> QED BY <1>7, <3>1, <3>2
  <2>4. q.kind = "page" => StillThere(q.from) \subseteq list
    BY <1>4, <2>1, <2>3 DEF Whole
  <2>5. Pages'
    <3>1. \A x \in flying : /\ x.edition = "all" /\ x.kind # "reset"
                            /\ x.kind = "page" => StillThere(x.from) \subseteq list
      BY <1>4, <2>1 DEF Pages
    <3> QED BY <2>1, <2>3, <2>4, <3>1 DEF Pages, StillThere
  <2> QED BY <1>2, <1>3, <2>2, <2>5
<1>8. ASSUME SwitchLanguage PROVE FALSE
  BY <1>8, FeedSizes DEF SwitchLanguage
<1>9. CASE Refresh
  <2>1. /\ edition = "all" /\ list' = list \cup Cut(FirstPage)
        /\ feedCursor' = IF feedCursor = Null THEN NextCursor(FirstPage) ELSE feedCursor
        /\ UNCHANGED <<arrived, pruned, flying>>
    BY <1>9 DEF Refresh, FirstPage
  <2>2. Pages'
    BY <1>5, <2>1
  <2>3. CASE feedCursor = Null
    <3>1. PICK from : from = feedCursor'
      OBVIOUS
    <3>2. from = NextCursor(FirstPage)
      BY <2>1, <2>3, <3>1
    <3>3. from # Null => StillThere(from) \subseteq Cut(FirstPage)
      BY <1>1, <3>2, FirstPageTypes, RangesMeet
    <3>4. from # Null => StillThere(from)' \subseteq list'
      BY <2>1, <3>3 DEF StillThere
    <3> QED BY <1>2, <1>3, <2>2, <3>1, <3>4 DEF Whole, StillThere
  <2>4. CASE feedCursor # Null
    BY <1>2, <1>3, <1>6, <2>1, <2>2, <2>4
  <2> QED BY <2>3, <2>4
<1>10. ASSUME NEW q \in flying, AnswerArrives(q)
       PROVE  PagesLieBelowTheList' /\ NothingIsSkipped'
  <2>1. edition = "all" /\ UNCHANGED <<arrived, pruned>> /\ flying' \subseteq flying
    BY <1>10 DEF AnswerArrives
  <2>2. /\ q.edition = "all" /\ q.kind # "reset"
        /\ q.kind = "page" => StillThere(q.from) \subseteq list
    BY <1>4, <2>1 DEF Pages
  <2>3. list' = list \cup Cut(q)
    BY <1>10, <2>2 DEF AnswerArrives, PollAnswers, ResetAnswers, PageAnswers
  <2>4. Pages'
    BY <1>5, <2>1, <2>3
  <2>5. CASE PollAnswers(q)
    BY <1>2, <1>3, <1>6, <2>1, <2>3, <2>4, <2>5 DEF PollAnswers
  <2>6. CASE PageAnswers(q)
    <3>1. PICK from : from = NextCursor(q)
      OBVIOUS
    <3>2. feedCursor' = from /\ q.kind = "page"
      BY <2>6, <3>1 DEF PageAnswers
    <3>3. from # Null => StillThere(from) \subseteq Cut(q) \cup StillThere(q.from)
      <4>1. RequestOK(q) /\ (1..Opening) \ pruned \subseteq q.table /\ q.from # Null
        BY <1>1, <3>2 DEF FlyingOK
      <4> QED BY <1>1, <2>2, <3>1, <4>1, RangesMeet
    <3>4. from # Null => StillThere(from)' \subseteq list'
      BY <2>1, <2>2, <2>3, <3>2, <3>3 DEF StillThere
    <3> QED BY <1>2, <1>3, <2>4, <3>2, <3>4 DEF Whole, StillThere
  <2> QED BY <1>10, <2>2, <2>5, <2>6 DEF AnswerArrives, ResetAnswers
<1>11. ASSUME NEW q \in flying, RequestFails(q)
       PROVE  PagesLieBelowTheList' /\ NothingIsSkipped'
  BY <1>2, <1>3, <1>5, <1>6, <1>11 DEF RequestFails
<1>12. CASE Arrive \/ PruneRow
  <2>1. /\ edition = "all" /\ UNCHANGED <<list, feedCursor, flying>>
        /\ pruned \subseteq pruned'
    BY <1>12 DEF Arrive, PruneRow
  <2> QED BY <1>2, <1>3, <1>5, <1>6, <2>1
<1>13. CASE UNCHANGED feedVars
  <2>1. edition = "all" /\ UNCHANGED <<list, feedCursor, flying, pruned>>
    BY <1>13 DEF feedVars
  <2> QED BY <1>2, <1>3, <1>5, <1>6, <2>1
<1> QED BY <1>7, <1>8, <1>9, <1>10, <1>11, <1>12, <1>13 DEF FeedNext

\* The tab opens on the first page, with nothing on its way.
LEMMA FeedStarts ==
    ASSUME FeedInit
    PROVE  FeedInv
<1>1. /\ arrived = Opening /\ pruned = {} /\ edition = "all" /\ flying = {}
      /\ list = Cut(FirstPage) /\ feedCursor = NextCursor(FirstPage)
      /\ hasMore = (feedCursor # Null) /\ moreInFlight = FALSE
      /\ switches = 0 /\ lost = 0
  BY DEF FeedInit, FirstPage
<1>2. /\ FirstPage.table = 1..Opening /\ FirstPage.edition = "all" /\ FirstPage.from = Null
      /\ RequestOK(FirstPage)
  <2>1. (1..arrived) \ pruned = 1..Opening /\ 1..Opening \subseteq 1..MaxRow
    BY <1>1, FeedSizes
  <2> QED BY <2>1, FeedSizes DEF FirstPage, Request, RequestOK, Null
<1>3. Cut(FirstPage) \subseteq 1..Opening /\ NextCursor(FirstPage) \in 0..Opening
  BY <1>2, ShownWasThere, CursorWasShown, FeedSizes DEF Null
<1>4. FeedTypeOK
  <2>1. hasMore \in BOOLEAN /\ (hasMore => feedCursor # Null)
    BY <1>1
  <2>2. arrived \in Opening..MaxRow /\ 0 \in 0..MaxSwitches /\ 0 \in 0..MaxLost
    BY <1>1, FeedSizes
  <2> QED BY <1>1, <1>3, <2>1, <2>2 DEF FeedTypeOK
<1>5. NothingIsSkipped
  <2> SUFFICES ASSUME NEW from, from = NextCursor(FirstPage), from # Null
               PROVE  StillThere(from) \subseteq list
    BY <1>1 DEF NothingIsSkipped, StillThere
  <2>1. (1..Opening) \ pruned \subseteq FirstPage.table
    BY <1>2
  <2> QED BY <1>1, <1>2, <1>4, <2>1, RangesMeet
<1> QED BY <1>1, <1>4, <1>5 DEF FeedInv, FlyingOK, PagesLieBelowTheList

\* What the tab holds keeps its type: there is a button only while there is a row to
\* load below, for any sizes of page and numbers of requests on their way.
THEOREM FeedTypeCorrect == FeedSpec => []FeedTypeOK
<1>1. FeedInv => FeedTypeOK
  BY DEF FeedInv
<1> QED BY <1>1, FeedStarts, FeedStep, PTL DEF FeedSpec

\* No row between the tab's cursor and the newest row of the opening is skipped,
\* however the reader scrolls, requests are lost and rows come and go.
THEOREM TheTabSkipsNothing == FeedSpec => []NothingIsSkipped
<1>1. FeedInv => NothingIsSkipped
  BY DEF FeedInv
<1> QED BY <1>1, FeedStarts, FeedStep, PTL DEF FeedSpec
=============================================================================
