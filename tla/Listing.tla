------------------------------ MODULE Listing ------------------------------
(***************************************************************************)
(* HtmlListingAdapter of sources/html_listing.py between a listing page    *)
(* and the articles the pipeline goes on with: parse() collects the cards, *)
(* verify_normalized() hands a batch of them to verify_entries(), which    *)
(* probes the first few links and drops what is no article.  The cards are *)
(* numbered in the order of the page; the probes of a window run at the    *)
(* same time, and each asks the page, the reader and ourselves in turn.    *)
(***************************************************************************)
EXTENDS Naturals, FiniteSets

CONSTANTS
    MaxFound,     \* bound: the cards of the longest page
    ListingCap,   \* LISTING_PAGE_LIMIT or the per-outlet cap, the smaller one
    Batch,        \* how many articles verify_normalized takes
    ProbeWindow        \* max_checks of verify_entries

ASSUME ListingAssumption == {MaxFound, ListingCap, Batch, ProbeWindow} \subseteq Nat \ {0}

\* What a link's page turns out to be, asked directly, through the reader and
\* by ourselves.  A shell has text and names no story; a body names one, but in
\* no tag; "other" is a page that holds no article.
ByPage == {"silent", "home", "missing", "refuses", "shell", "story"}
ByReader == {"silent", "short", "shell", "body", "story"}
ByUs == {"silent", "other", "story"}

ProbeAnswer == [page : ByPage, reader : ByReader, us : ByUs]
NotProbed == [page |-> "unasked", reader |-> "unasked", us |-> "unasked"]

VARIABLES
    cards,     \* how many cards the listing has
    answers,   \* per card in the window, what its probe came to
    kept,      \* the cards the pipeline goes on with
    progress   \* what the poll is doing with the listing

listingVars == <<cards, answers, kept, progress>>

AtMost(n, limit) == IF n < limit THEN n ELSE limit

ListingInit ==
    /\ cards = 0
    /\ answers = [c \in 1..AtMost(ProbeWindow, ListingCap) |-> NotProbed]
    /\ kept = {}
    /\ progress = "idle"

\* parse: the cards up to the cap; a page with none fails the poll.
ReadListing ==
    /\ progress = "idle"
    /\ \E found \in 0..MaxFound :
         /\ cards' = AtMost(found, ListingCap)
         /\ progress' = IF found = 0 THEN "refused" ELSE "probing"
    /\ kept' = {}
    /\ UNCHANGED answers

\* The cards verify_normalized passes on, and those verify_entries probes.
InBatch == 1..AtMost(cards, Batch)
Probed == 1..AtMost(cards, AtMost(Batch, ProbeWindow))

ProbeCard(c) ==
    /\ progress = "probing"
    /\ c \in Probed
    /\ answers[c] = NotProbed
    /\ answers' \in {[answers EXCEPT ![c] = a] : a \in ProbeAnswer}
    /\ UNCHANGED <<cards, kept, progress>>

\* A slip in Verdict: a page the busy reader could not show is broken.
BusyReaderIsBroken(a) ==
    CASE a.page = "story"  -> "article"
      [] a.page \in {"refuses", "shell"} /\ a.reader \in {"body", "story"} -> "article"
      [] a.page = "silent" -> "unknown"
      [] OTHER             -> "broken"

\* What a refused page is taken for: through the reader, or through ourselves,
\* whose view of it proves nothing but a story.
RefusedVerdict(a) ==
    CASE a.reader = "story"                       -> "article"
      [] a.reader = "silent" /\ a.us = "story"    -> "article"
      [] a.reader = "silent"                      -> "unknown"
      [] OTHER                                    -> "broken"

\* What a shell is taken for once it has been rendered.
ShellVerdict(a) ==
    CASE a.reader \in {"body", "story"}           -> "article"
      [] a.reader = "silent" /\ a.us = "story"    -> "article"
      [] a.reader = "silent" /\ a.us = "silent"   -> "unknown"
      [] a.reader = "short"                       -> "unknown"
      [] OTHER                                    -> "broken"

\* probe: what one link is taken for.
Verdict(a) ==
    CASE a.page = "silent"              -> "unknown"
      [] a.page \in {"home", "missing"} -> "broken"
      [] a.page = "story"               -> "article"
      [] a.page = "refuses"             -> RefusedVerdict(a)
      [] a.page = "shell"               -> ShellVerdict(a)

Broken == {c \in Probed : Verdict(answers[c]) = "broken"}

\* More than half of the window broken refuses the outlet; otherwise what is
\* not broken is kept, and of the batch what was not probed.  What is past the
\* batch is not.
Decide ==
    /\ progress = "probing"
    /\ \A c \in Probed : answers[c] # NotProbed
    /\ IF 2 * Cardinality(Broken) > Cardinality(Probed)
       THEN progress' = "refused" /\ UNCHANGED kept
       ELSE progress' = "stored" /\ kept' = InBatch \ Broken
    /\ UNCHANGED <<cards, answers>>

\* The next poll reads the page anew.
NextListing ==
    /\ progress \in {"stored", "refused"}
    /\ progress' = "idle"
    /\ answers' = [c \in DOMAIN answers |-> NotProbed]
    /\ cards' = 0
    /\ kept' = {}

ListingNext ==
    \/ ReadListing \/ Decide \/ NextListing
    \/ \E c \in Probed : ProbeCard(c)

ListingSpec == ListingInit /\ [][ListingNext]_listingVars

-----------------------------------------------------------------------------
\* The cards and their answers are of their types.
ListingTypeOK ==
    /\ cards \in 0..ListingCap
    /\ answers \in [1..AtMost(ProbeWindow, ListingCap) -> ProbeAnswer \cup {NotProbed}]
    /\ kept \subseteq 1..ListingCap
    /\ progress \in {"idle", "probing", "stored", "refused"}

\* The link was not read: it could not be reached; it was refused and the reader
\* was silent, whatever our own view of it showed; or it was a shell, and neither
\* the reader nor we got anything.  A shell that our own read is served, too, while
\* the reader is silent is not of this kind: verify_entries counts it as broken, and
\* a window of them refuses the outlet.
Unread(a) ==
    \/ a.page = "silent"
    \/ a.page = "refuses" /\ a.reader = "silent"
    \/ a.page = "shell" /\ a.reader = "silent" /\ a.us = "silent"

\* What was not read is not held against an outlet: such a card is kept beside
\* those that were, and an outlet is refused only when more than half of the links
\* that were probed are not of that kind.
UnreadIsNotBroken ==
    /\ progress = "stored" => \A c \in Probed : Unread(answers[c]) => c \in kept
    /\ progress = "refused" /\ cards > 0 =>
         2 * Cardinality({c \in Probed : ~Unread(answers[c])}) > Cardinality(Probed)
=============================================================================
