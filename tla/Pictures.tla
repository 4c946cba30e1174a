------------------------------ MODULE Pictures ------------------------------
(***************************************************************************)
(* The picture a story is shown with: the image columns of `articles` and  *)
(* image_verified_at, the record that the picture was confirmed against    *)
(* the story's own page.                                                   *)
(*                                                                         *)
(* Many hands write them: the polls of the worker and of the cron job,     *)
(* the three repair passes at the end of a poll, the daily workflow that   *)
(* runs refresh_images, fix_wrong_images and                               *)
(* repair_headlines_and_pictures one after the other, a search that brings *)
(* a story back, the prune and a purge.  None of them holds a lock: each   *)
(* reads a row, asks an outlet, and writes.                                *)
(*                                                                         *)
(* A picture is one of: one the story's own page offers, the feed's        *)
(* thumbnail, a malformed address an older build stored, or none.          *)
(***************************************************************************)
EXTENDS Naturals, FiniteSets

CONSTANTS
    Story,       \* the stories, numbered in the order they were published
    Poller,      \* the processes that poll: the worker and the cron job
    ArchiveAge,  \* ARCHIVE_AFTER_HOURS in ticks
    Retention,   \* retention_hours in ticks
    RunLimit     \* the workflow's limit: how many rows a script may list

ASSUME PicturesAssumption ==
    /\ Story \subseteq Nat
    /\ ArchiveAge \in Nat
    /\ RunLimit \in Nat \ {0}
    /\ Retention \in Nat \ {0}

Picture == {"own", "feed", "malformed", "none"}
NoRow == [picture |-> "none", confirmed |-> FALSE, back |-> FALSE, there |-> FALSE]
Row == [picture : Picture, confirmed : BOOLEAN, back : BOOLEAN, there : BOOLEAN]

\* What a reader of a page comes away with.
Finding == {"own", "feed", "none", "unreadable"}
Phase == {"idle", "refresh", "fix", "rewrite"}

VARIABLES
    kept,    \* the breaking and featured rows, which the prune spares
    age,     \* ticks since the story was published, at most Retention
    page,    \* what the story's page does: offers a picture that loads, offers none, refuses
    row,     \* the story's row in `articles`
    client,  \* per poller: media_client is not open, open, or left
    at,      \* per poller and story: _process_one's progress
    search,  \* per story: resurrect's progress
    phase,   \* the script the daily workflow is running
    seen,    \* the rows it listed, NoRow for those it did not or has done
    found    \* what it found on the page of the row it is at

picturesVars == <<kept, age, page, row, client, at, search, phase, seen, found>>

NewRow(picture, confirmed, back) ==
    [picture |-> picture, confirmed |-> confirmed, back |-> back, there |-> TRUE]

Archive(s) == age[s] >= ArchiveAge
Expired(s) == age[s] >= Retention

\* Rows an older build left behind carry a picture nobody confirmed.
PicturesInit ==
    /\ kept = {}
    /\ age \in [Story -> {0, Retention}]
    /\ \A s, t \in Story : s < t => age[t] <= age[s]
    /\ page = [s \in Story |-> "offers"]
    /\ row \in [Story -> {NoRow} \cup {NewRow(p, FALSE, FALSE) : p \in Picture}]
    /\ client = [p \in Poller |-> "none"]
    /\ at = [p \in Poller |-> [s \in Story |-> "idle"]]
    /\ search = [s \in Story |-> "idle"]
    /\ phase = "idle"
    /\ seen = [s \in Story |-> NoRow]
    /\ found = [s \in Story |-> "unread"]

-----------------------------------------------------------------------------
\* Reading a page and proving a picture.

\* extract_from_article never raises: a refused page, an error and a request
\* through a client that has been left all read as an empty page.
PageThrough(open, s) == IF open THEN page[s] ELSE "refuses"

\* resolve_live_image over the page's own candidates, in the order of
\* candidate_images: the first that loads.
OwnPictureOf(p) ==
    CASE p = "offers"  -> "own"
      [] p = "nothing" -> "none"
      [] p = "refuses" -> "unreadable"

\* The same with the feed's thumbnail behind the page's candidates.
WithTheFeed(p) == IF p = "offers" THEN {"own"} ELSE {"feed", "none"}

\* A slip in Confirmable: whatever loads is the story's.
WhateverLoads(picture) == picture

\* verify_media_images: a picture that is not the page's own is taken away.
Confirmable(picture) == IF picture = "own" THEN "own" ELSE "none"

-----------------------------------------------------------------------------
\* A poll.

StartPoll(p) ==
    /\ client[p] = "none"
    /\ client' = [client EXCEPT ![p] = "open"]
    /\ UNCHANGED <<kept, age, page, row, at, search, phase, seen, found>>

\* The prune of a pass: rows past their age go, whoever brought them; breaking
\* and featured rows stay.  An id a script holds then names nothing.
Prune ==
    LET gone == {s \in Story : row[s].there /\ Expired(s) /\ s \notin kept}
    IN  /\ gone # {}
        /\ row' = [s \in Story |-> IF s \in gone THEN NoRow ELSE row[s]]
        /\ seen' = [s \in Story |-> IF s \in gone THEN NoRow ELSE seen[s]]
        /\ found' = [s \in Story |-> IF s \in gone THEN "unread" ELSE found[s]]
        /\ UNCHANGED <<kept, age, page, client, at, search, phase>>

\* The duplicate test: a story that has a row is not looked at again.
CheckStory(p, s) ==
    /\ client[p] = "open"
    /\ at[p][s] = "idle"
    /\ ~row[s].there
    /\ at' = [at EXCEPT ![p][s] = "new"]
    /\ UNCHANGED <<kept, age, page, row, client, search, phase, seen, found>>

\* Its page is read unless the story is archive, and the picture proven.
LookAtPage(p, s) ==
    /\ at[p][s] = "new"
    /\ \E picture \in WithTheFeed(IF Archive(s) THEN "refuses" ELSE page[s]) :
         at' = [at EXCEPT ![p][s] = Confirmable(picture)]
    /\ UNCHANGED <<kept, age, page, row, client, search, phase, seen, found>>

\* The picture that was proven goes with its marker, and no picture with none.
\* store_article upserts on the slug, which carries the date: a row written
\* meanwhile by another poll of the day is overwritten, any other one stands
\* behind the unique content_hash.
StoreStory(p, s) ==
    /\ at[p][s] \notin {"idle", "new"}
    /\ \/ /\ ~row[s].back
          /\ row' = [row EXCEPT ![s] = NewRow(at[p][s], at[p][s] # "none", FALSE)]
       \/ /\ row[s].there
          /\ UNCHANGED row
    /\ at' = [at EXCEPT ![p][s] = "idle"]
    /\ UNCHANGED <<kept, age, page, client, search, phase, seen, found>>

\* The entries are done: the client's context is left.
LeaveClient(p) ==
    /\ client[p] = "open"
    /\ \A s \in Story : at[p][s] = "idle"
    /\ client' = [client EXCEPT ![p] = "left"]
    /\ UNCHANGED <<kept, age, page, row, at, search, phase, seen, found>>

\* The rows the three repair passes ask for: no picture, a malformed one, one
\* that was never confirmed.
Bare(s) == row[s].there /\ row[s].picture = "none"
Malformed(s) == row[s].there /\ row[s].picture = "malformed"
Unvisited(s) == row[s].there /\ ~row[s].confirmed
Repairable == {s \in Story : ~Expired(s) /\ (Bare(s) \/ Malformed(s) \/ Unvisited(s))}

Repaired(s, p) ==
    IF OwnPictureOf(p) = "own" THEN NewRow("own", TRUE, row[s].back) ELSE row[s]

\* The repair passes run last, with the client that has just been left.  How
\* many rows a poll they take does not matter to passes that read no page.
Sweep(p) ==
    /\ client[p] = "left"
    /\ row' = [s \in Story |->
                 IF s \in Repairable
                 THEN Repaired(s, PageThrough(client[p] = "open", s))
                 ELSE row[s]]
    /\ client' = [client EXCEPT ![p] = "none"]
    /\ UNCHANGED <<kept, age, page, at, search, phase, seen, found>>

\* The process dies, or its pass is cut off.
PollDies(p) ==
    /\ client[p] # "none"
    /\ client' = [client EXCEPT ![p] = "none"]
    /\ at' = [at EXCEPT ![p] = [s \in Story |-> "idle"]]
    /\ UNCHANGED <<kept, age, page, row, search, phase, seen, found>>

-----------------------------------------------------------------------------
\* A search that comes up short brings a story back.

FindAgain(s) ==
    /\ search[s] = "idle"
    /\ ~row[s].there
    /\ search' = [search EXCEPT ![s] = "new"]
    /\ UNCHANGED <<kept, age, page, row, client, at, phase, seen, found>>

\* The page's pictures, and behind them the feed's thumbnail.
LookAgain(s) ==
    /\ search[s] = "new"
    /\ \E picture \in WithTheFeed(page[s]) : search' = [search EXCEPT ![s] = picture]
    /\ UNCHANGED <<kept, age, page, row, client, at, phase, seen, found>>

\* Whatever loaded is stored, and marked as confirmed.  A row that is there
\* by now keeps its place, behind the unique content_hash.
BringBack(s) ==
    /\ search[s] \in {"own", "feed", "none"}
    /\ row' = IF row[s].there
              THEN row
              ELSE [row EXCEPT ![s] = NewRow(search[s], search[s] # "none", TRUE)]
    /\ search' = [search EXCEPT ![s] = "idle"]
    /\ UNCHANGED <<kept, age, page, client, at, phase, seen, found>>

-----------------------------------------------------------------------------
\* The daily workflow: three scripts, each over the rows it lists first.

AfterPhase(ph) ==
    CASE ph = "idle"    -> "refresh"
      [] ph = "refresh" -> "fix"
      [] ph = "fix"     -> "rewrite"
      [] ph = "rewrite" -> "idle"

Pictured == {s \in Story : row[s].there /\ row[s].picture # "none"}
Unconfirmed == {s \in Pictured : ~row[s].confirmed}

\* A slip in Listed: the oldest come first.
OldestListed(S) == {s \in S : Cardinality({t \in S : t < s}) < RunLimit}

\* order("published_at", desc) and limit: the newest rows of those asked for.
Listed(S) == {s \in S : Cardinality({t \in S : s < t}) < RunLimit}

\* The rows a script may list: refresh takes unconfirmed pictures; fix takes
\* pictures of any kind and goes on with the malformed ones among them and those
\* that are on two stories; rewrite takes rows whose headline is a card.  Which
\* pictures are shared and which headlines are cards is left open.
Listings(ph) ==
    CASE ph = "refresh" -> {Listed(Unconfirmed)}
      [] ph = "fix"     -> {S \in SUBSET Listed(Pictured) :
                              \A s \in Listed(Pictured) : row[s].picture = "malformed" => s \in S}
      [] ph = "rewrite" -> {S \in SUBSET {s \in Story : row[s].there} : Cardinality(S) <= RunLimit}
      [] ph = "idle"    -> {{}}

AllDone == \A s \in Story : ~seen[s].there

\* The script at hand has done its rows: the next one lists its own.
NextScript ==
    /\ AllDone
    /\ phase' = AfterPhase(phase)
    /\ \E listed \in Listings(phase') :
         seen' = [s \in Story |-> IF s \in listed THEN row[s] ELSE NoRow]
    /\ UNCHANGED <<kept, age, page, row, client, at, search, found>>

\* Its query fails although there are rows to list: it ends, having done none.
ScriptCannotList ==
    /\ AllDone
    /\ phase' = AfterPhase(phase)
    /\ {} \notin Listings(phase')
    /\ UNCHANGED <<kept, age, page, row, client, at, search, seen, found>>

\* The job's thirty minutes are over, or its runner is gone: no script after
\* this one runs.  Past the last row of the last script nothing is cut.
WorkflowCut ==
    /\ phase # "idle"
    /\ ~(phase = "rewrite" /\ AllDone)
    /\ phase' = "idle"
    /\ seen' = [s \in Story |-> NoRow]
    /\ found' = [s \in Story |-> "unread"]
    /\ UNCHANGED <<kept, age, page, row, client, at, search>>

\* What a script comes away with: only rewrite asks the reader a second time
\* for a page that could not be read.
Readings(s) ==
    IF phase = "rewrite" /\ page[s] = "refuses"
    THEN {"offers", "nothing", "refuses"}
    ELSE {page[s]}

\* It reads the page of a row, the newest of those left.  A page that cannot be
\* read ends the row.
ScriptReads(s) ==
    /\ seen[s].there
    /\ \A t \in Story : s < t => ~seen[t].there
    /\ found[s] = "unread"
    /\ \E p \in Readings(s) :
         IF OwnPictureOf(p) = "unreadable"
         THEN seen' = [seen EXCEPT ![s] = NoRow] /\ UNCHANGED found
         ELSE found' = [found EXCEPT ![s] = OwnPictureOf(p)] /\ UNCHANGED seen
    /\ UNCHANGED <<kept, age, page, row, client, at, search, phase>>

\* What the script makes of a row, from what it saw of it when it listed it.
\* refresh confirms what it proved; fix swaps a picture, or clears the marker
\* of one the page does not offer; rewrite confirms where no marker was.
Verdict(s) ==
    LET proven == NewRow("own", TRUE, row[s].back)
    IN  CASE phase = "refresh" /\ found[s] = "own" -> proven
          [] phase = "fix" /\ found[s] = "own" /\ seen[s].picture # "own" -> proven
          [] phase = "fix" /\ found[s] = "none" /\ seen[s].confirmed ->
                 [row[s] EXCEPT !.confirmed = FALSE]
          [] phase = "rewrite" /\ found[s] = "own" /\ ~seen[s].confirmed -> proven
          [] OTHER -> row[s]

DoneWith(s) ==
    /\ seen' = [seen EXCEPT ![s] = NoRow]
    /\ found' = [found EXCEPT ![s] = "unread"]

\* And writes it, where there is something to write.
ScriptWrites(s) ==
    /\ found[s] # "unread"
    /\ row' = [row EXCEPT ![s] = Verdict(s)]
    /\ DoneWith(s)
    /\ UNCHANGED <<kept, age, page, client, at, search, phase>>

\* The write is refused: the row stays as it is, and the script goes on.
ScriptFails(s) ==
    /\ found[s] # "unread"
    /\ Verdict(s) # row[s]
    /\ DoneWith(s)
    /\ UNCHANGED <<kept, age, page, row, client, at, search, phase>>

-----------------------------------------------------------------------------
\* The surroundings: time, the editors, the outlets and the CDNs, migration 0028.

Age ==
    /\ \E s \in Story : ~Expired(s)
    /\ age' = [s \in Story |-> IF Expired(s) THEN age[s] ELSE age[s] + 1]
    /\ UNCHANGED <<kept, page, row, client, at, search, phase, seen, found>>

\* An editor marks a row as breaking or featured, or takes that back.
Feature(s) ==
    /\ row[s].there
    /\ kept' = IF s \in kept THEN kept \ {s} ELSE kept \cup {s}
    /\ UNCHANGED <<age, page, row, client, at, search, phase, seen, found>>

PageChanges(s) ==
    /\ \E p \in {"offers", "nothing", "refuses"} \ {page[s]} : page' = [page EXCEPT ![s] = p]
    /\ UNCHANGED <<kept, age, row, client, at, search, phase, seen, found>>

Purge ==
    /\ \E s \in Story : Malformed(s)
    /\ row' = [s \in Story |-> IF Malformed(s) THEN NewRow("none", FALSE, row[s].back) ELSE row[s]]
    /\ UNCHANGED <<kept, age, page, client, at, search, phase, seen, found>>

PollStep(p) ==
    \/ StartPoll(p) \/ LeaveClient(p) \/ Sweep(p)
    \/ \E s \in Story : CheckStory(p, s) \/ LookAtPage(p, s) \/ StoreStory(p, s)

ScriptStep == NextScript \/ \E s \in Story : ScriptReads(s) \/ ScriptWrites(s)

PicturesNext ==
    \/ \E p \in Poller : PollStep(p) \/ PollDies(p)
    \/ \E s \in Story : FindAgain(s) \/ LookAgain(s) \/ BringBack(s) \/ PageChanges(s) \/ Feature(s)
    \/ ScriptStep \/ ScriptCannotList \/ WorkflowCut
    \/ \E s \in Story : ScriptFails(s)
    \/ Prune \/ Age \/ Purge

\* The polls go on by timer and the workflow by its schedule, both bounded by
\* timeouts; a script goes through its rows until it is cut.
PicturesFairness ==
    /\ \A p \in Poller : WF_picturesVars(PollStep(p))
    /\ WF_picturesVars(NextScript)
    /\ \A s \in Story : WF_picturesVars(ScriptReads(s) \/ ScriptWrites(s))
    /\ WF_picturesVars(Prune)

PicturesSpec == PicturesInit /\ [][PicturesNext]_picturesVars /\ PicturesFairness

-----------------------------------------------------------------------------
\* The rows, the clients and what the scripts hold are of their types.
PicturesTypeOK ==
    /\ kept \subseteq Story
    /\ age \in [Story -> 0..Retention]
    /\ page \in [Story -> {"offers", "nothing", "refuses"}]
    /\ row \in [Story -> Row]
    /\ client \in [Poller -> {"none", "open", "left"}]
    /\ at \in [Poller -> [Story -> {"idle", "new", "own", "none"}]]
    /\ search \in [Story -> {"idle", "new", "own", "feed", "none"}]
    /\ phase \in Phase
    /\ seen \in [Story -> Row]
    /\ found \in [Story -> {"unread", "own", "none"}]

\* image_verified_at means what its comments say, however the polls, the
\* scripts and the purge overlap: a confirmed picture is one of the story's own
\* page.  Rows a search brought back are left out: they are stored as
\* confirmed with whatever picture the share page had.
ConfirmedUnlessBroughtBack ==
    \A s \in Story : row[s].confirmed /\ ~row[s].back => row[s].picture = "own"

\* Something went wrong in the workflow.
Upset == ScriptCannotList \/ WorkflowCut \/ \E s \in Story : ScriptFails(s)

\* A picture that is hidden because nobody confirmed it is not hidden for ever,
\* once the workflow is no longer cut, refused or left without an answer: a row
\* that stays and has a picture, whose page goes on offering one, gets its marker
\* if fewer newer pictures are hidden than a run has room for, whatever the rows
\* ahead of it come to and whatever polls and searches do meanwhile.
HiddenPictureIsRefreshed ==
    \A s \in Story :
      ( /\ <>[](s \in Pictured /\ page[s] = "offers")
        /\ <>[](Cardinality({t \in Story : s < t /\ t \in Unconfirmed}) < RunLimit)
        /\ <>[][~Upset]_picturesVars )
      => []<>(row[s].confirmed)

\* A story stored bare gets its picture while its page offers one, because the
\* repair pass "will come back for it" (ingestion.py): at the end of every poll
\* that gets there, as long as the story is young enough for the pass.
BareRowIsRepaired ==
    \A s \in Story :
      ( /\ []((row[s].there => page[s] = "offers") /\ ~Expired(s))
        /\ \E p \in Poller : []<><<Sweep(p)>>_picturesVars )
      => (row[s].there /\ row[s].picture = "none" ~> ~row[s].there \/ row[s].picture = "own")
=============================================================================
