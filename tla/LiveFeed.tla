------------------------------ MODULE LiveFeed ------------------------------
(***************************************************************************)
(* A reader's tab on the live feed: components/LiveArticleFeed.tsx keeps a *)
(* list and a cursor, asks /api/live-news for the top of the feed, for the *)
(* page below its cursor and for another edition, and is handed the first  *)
(* page anew by the header's refresh.  Requests answer in any order, while *)
(* the worker stores rows and the prune takes them.                        *)
(*                                                                         *)
(* Rows are numbered in the order of arrival, which is the order the query *)
(* cuts pages in (lib/news.ts) and the one the cursor addresses            *)
(* (lib/feed-cursor.ts).  The order of display is left out.                *)
(***************************************************************************)
EXTENDS Integers, FiniteSets

CONSTANTS
    MaxRow,        \* bound: the rows that ever arrive are 1..MaxRow
    Opening,       \* how many had arrived when the page is opened
    Nepali,        \* the rows in Nepali; the others are in English
    Editions,      \* bound: the languages the reader changes to, of "ne" and "en"
    Hidden,        \* the rows the passes over a page leave out
    Bare,          \* the rows that have a film or a moving picture, and no still one
    FirstSize,     \* the limit of the page's first rows
    PollSize,      \* the limit of a poll
    PageSize,      \* MORE_PAGE_SIZE
    Headroom,      \* DEDUP_HEADROOM
    MaxFlying,     \* bound: the requests of each kind on their way at one time
    MaxSwitches,   \* bound: how often the reader changes the language
    MaxLost,       \* bound: the requests that fail
    Aging          \* bound: the rows that are old enough to be pruned some day

ASSUME LiveFeedAssumption ==
    /\ {MaxRow, Opening, FirstSize, PollSize, PageSize, Headroom} \subseteq Nat \ {0}
    /\ MaxFlying \in [{"poll", "reset", "page"} -> Nat]
    /\ {MaxSwitches, MaxLost} \subseteq Nat
    /\ Opening <= MaxRow
    /\ Editions \subseteq {"ne", "en"}
    /\ Nepali \cup Hidden \cup Bare \cup Aging \subseteq 1..MaxRow

Null == 0   \* no cursor

VARIABLES
    arrived,         \* rows 1..arrived have been stored
    pruned,          \* those that are gone again
    list,            \* the rows the tab holds
    edition,         \* the language: "all" until the reader has chosen one
    feedCursor,      \* the row the next page lies below
    hasMore,         \* whether there is a button, and a sentinel to scroll to
    moreInFlight,    \* the guard against two loads at once
    flying,          \* the requests on their way
    switches,        \* how often the language was changed
    lost             \* how many requests were lost

feedVars == <<arrived, pruned, list, edition, feedCursor, hasMore, moreInFlight, flying,
              switches, lost>>

feedBounds == <<switches, lost>>
paging == <<feedCursor, hasMore>>

-----------------------------------------------------------------------------
\* The server's side: getLatestArticles.  A request carries what the table held
\* when it was read; the answer may take any time.

Request(kind, e, from, limit) ==
    [kind |-> kind, edition |-> e, from |-> from, limit |-> limit, table |-> (1..arrived) \ pruned]

InEdition(e) == {r \in 1..MaxRow : e = "all" \/ (r \in Nepali <=> e = "ne")}

OtherEdition(e) == IF e = "ne" THEN "en" ELSE "ne"

\* Rows come in the order of arrival, newest first, and those that top up a thin
\* edition after its own.
Place(e, r) == IF r \in InEdition(e) THEN r + MaxRow ELSE r

\* The first `limit` rows of some, and the last of all.
FirstOf(e, rows, limit) ==
    {r \in rows : Cardinality({s \in rows : Place(e, s) > Place(e, r)}) < limit}

LastOf(e, rows) == CHOOSE r \in rows : \A s \in rows : Place(e, s) >= Place(e, r)

\* The rows of an edition below the cursor, more of them than the page will show.
Select(q, e) ==
    FirstOf(e, {r \in q.table \cap InEdition(e) : q.from = Null \/ r < q.from}, q.limit * Headroom)

\* What the query reads: a thin edition is topped up from the other.
Fetched(q) ==
    LET rows == Select(q, q.edition)
    IN  IF q.edition # "all" /\ 2 * Cardinality(rows) < q.limit
        THEN rows \cup Select(q, OtherEdition(q.edition))
        ELSE rows

\* The passes over them: copies, repeated pictures and empty cards go, unless
\* nothing would be left.
Passed(rows) == IF rows \subseteq Hidden THEN rows ELSE rows \ Hidden

\* preferIllustrated: the first row on the page that has no still picture gives its
\* place to the first one behind the page that has.  The passes before it leave no row
\* without anything to show, so it takes a row with a film or a moving picture only.
Illustrated(e, page, behind) ==
    IF page \cap Bare = {} \/ behind \subseteq Bare THEN page
    ELSE (page \ FirstOf(e, page \cap Bare, 1)) \cup FirstOf(e, behind \ Bare, 1)

\* The page: the first rows that are left, and how it is cut.  Only the query for one
\* language calls preferIllustrated.
Page(q) == FirstOf(q.edition, Passed(Fetched(q)), q.limit)

Cut(q) ==
    IF q.edition = "all" THEN Page(q)
    ELSE Illustrated(q.edition, Page(q), Passed(Fetched(q)) \ Page(q))

\* The database had fewer rows than were asked for.
Exhausted(q) == Cardinality(Select(q, q.edition)) < q.limit * Headroom

\* A slip in NextCursor: anchored on the last row that was read.
FetchedEnd(q) == IF Exhausted(q) THEN Null ELSE LastOf(q.edition, Fetched(q))

\* The row in the last place of the page: a row put forward for its picture has
\* the place of the one it replaced.
PageEnd(q) ==
    LET last == LastOf(q.edition, Page(q))
    IN  IF last \in Cut(q) THEN last ELSE LastOf(q.edition, Cut(q))

\* nextCursorFor: the end of the page, or none when the query ran dry.
NextCursor(q) == IF Exhausted(q) THEN Null ELSE PageEnd(q)

-----------------------------------------------------------------------------
\* The tab.

FeedInit ==
    /\ arrived = Opening
    /\ pruned = {}
    /\ edition = "all"
    /\ list = Cut(Request("first", "all", Null, FirstSize))
    /\ feedCursor = NextCursor(Request("first", "all", Null, FirstSize))
    /\ hasMore = (feedCursor # Null)
    /\ moreInFlight = FALSE
    /\ flying = {}
    /\ switches = 0
    /\ lost = 0

Send(request) ==
    /\ Cardinality({q \in flying : q.kind = request.kind}) < MaxFlying[request.kind]
    /\ flying' = flying \cup {request}

\* The ten-second poll, the tab that comes to the front and the header's tick:
\* check() without a reset.
CheckForNews ==
    /\ Send(Request("poll", edition, Null, PollSize))
    /\ UNCHANGED <<arrived, pruned, list, edition, paging, moreInFlight, feedBounds>>

\* The reader's language arrives from the header or from an earlier visit, and
\* check() is asked for a reset.
SwitchLanguage ==
    /\ switches < MaxSwitches
    /\ \E e \in Editions \ {edition} :
         /\ edition' = e
         /\ Send(Request("reset", e, Null, PollSize))
    /\ switches' = switches + 1
    /\ UNCHANGED <<arrived, pruned, list, paging, moreInFlight, lost>>

\* loadMore, by the button or the sentinel.
LoadMore ==
    /\ hasMore
    /\ ~moreInFlight
    /\ moreInFlight' = TRUE
    /\ Send(Request("page", edition, feedCursor, PageSize))
    /\ UNCHANGED <<arrived, pruned, list, edition, paging, feedBounds>>

\* A slip in PollAnswers: what arrives is queued and never shown.
LeftPending(q) ==
    /\ q.kind = "poll"
    /\ UNCHANGED <<list, paging, moreInFlight>>

\* A poll answers: its rows join the list.
PollAnswers(q) ==
    /\ q.kind = "poll"
    /\ list' = list \cup Cut(q)
    /\ UNCHANGED <<paging, moreInFlight>>

\* A reset answers: the list is what the answer holds, and paging goes on below.
ResetAnswers(q) ==
    /\ q.kind = "reset"
    /\ list' = Cut(q)
    /\ feedCursor' = NextCursor(q)
    /\ hasMore' = (feedCursor' # Null)
    /\ UNCHANGED moreInFlight

\* There is more below a page that has a cursor of its own and is not empty.
MoreBelow(q) == NextCursor(q) \notin {Null, q.from} /\ Cut(q) # {}

\* A page answers, and the archive may end with it.
PageAnswers(q) ==
    /\ q.kind = "page"
    /\ list' = list \cup Cut(q)
    /\ feedCursor' = NextCursor(q)
    /\ hasMore' = MoreBelow(q)
    /\ moreInFlight' = FALSE

AnswerArrives(q) ==
    /\ PollAnswers(q) \/ ResetAnswers(q) \/ PageAnswers(q)
    /\ flying' = flying \ {q}
    /\ UNCHANGED <<arrived, pruned, edition, feedBounds>>

\* No answer, or an error: everything stays as it is, and a page may be asked
\* for again.
RequestFails(q) ==
    /\ lost < MaxLost
    /\ lost' = lost + 1
    /\ flying' = flying \ {q}
    /\ moreInFlight' = IF q.kind = "page" THEN FALSE ELSE moreInFlight
    /\ UNCHANGED <<arrived, pruned, list, edition, paging, switches>>

\* The header's refresh renders the first page again, in every language: its rows
\* join the list, the guard is lifted, and its cursor is taken if there is none.
Refresh ==
    LET first == Request("first", "all", Null, FirstSize)
    IN  /\ list' = list \cup Cut(first)
        /\ moreInFlight' = FALSE
        /\ feedCursor' = IF feedCursor = Null THEN NextCursor(first) ELSE feedCursor
        /\ hasMore' = (hasMore \/ NextCursor(first) # Null)
        /\ UNCHANGED <<arrived, pruned, edition, flying, feedBounds>>

\* The worker stores a row, and the prune takes one.
Arrive ==
    /\ arrived < MaxRow
    /\ arrived' = arrived + 1
    /\ UNCHANGED <<pruned, list, edition, paging, moreInFlight, flying, feedBounds>>

PruneRow ==
    /\ \E r \in (Aging \cap 1..arrived) \ pruned : pruned' = pruned \cup {r}
    /\ UNCHANGED <<arrived, list, edition, paging, moreInFlight, flying, feedBounds>>

FeedNext ==
    \/ CheckForNews \/ SwitchLanguage \/ LoadMore \/ Refresh
    \/ \E q \in flying : AnswerArrives(q) \/ RequestFails(q)
    \/ Arrive \/ PruneRow

\* The timer polls, and every poll comes to an end.
FeedFairness ==
    /\ WF_flying(Send(Request("poll", edition, Null, PollSize)))
    /\ WF_flying(\E q \in flying : q.kind = "poll" /\ flying' = flying \ {q})

FeedSpec == FeedInit /\ [][FeedNext]_feedVars /\ FeedFairness

-----------------------------------------------------------------------------
\* The tab's state is of its type, and there is a button only while there is a
\* cursor to load below.
FeedTypeOK ==
    /\ arrived \in Opening..MaxRow
    /\ pruned \subseteq Aging \cap 1..arrived
    /\ list \subseteq 1..arrived
    /\ edition \in {"all"} \cup Editions
    /\ feedCursor \in 0..arrived
    /\ {hasMore, moreInFlight} \subseteq BOOLEAN
    /\ hasMore => feedCursor # Null
    /\ \A q \in flying : q.table \subseteq 1..arrived /\ q.from \in 0..arrived
    /\ switches \in 0..MaxSwitches /\ lost \in 0..MaxLost

\* "If they disagree, the reader silently loses stories": a tab that has never
\* chosen a language holds every row between its cursor and the newest row there
\* was when it opened, whatever arrived, was pruned, lost, answered late or was
\* loaded twice meanwhile.
NothingIsSkipped ==
    edition = "all" /\ feedCursor # Null =>
      \A r \in (feedCursor..Opening) \ (pruned \cup Hidden) : r \in list

\* A row that arrives while the tab is open reaches the list, in the edition the
\* reader has chosen, if the poll's window holds all that arrive.
NewsReachesTheReader ==
    \A r \in (Opening + 1 .. MaxRow) \ (Hidden \cup Bare) :
      arrived >= r ~> r \in list \/ r \in pruned \/ r \notin InEdition(edition)
=============================================================================
