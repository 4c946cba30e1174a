# Verification of the news magazine: ingestion pipeline and live feed

This directory holds TLA+ models of the program in `src/news-magazine`, the TLC
configurations that model-check them on small instances, and TLAPS proofs of the
theorems that matter most. Everything is translated from the code; where a comment or a
document of the repository says something else, the difference is a finding.

## 1. The system

A Python service polls about thirty Nepali news outlets and a few video providers, finds
out which entries tell a story that is already stored, and writes rows to a Postgres
database (Supabase) that a Next.js site reads. Two pollers run at once: a long-lived
worker (`app/worker.py`, an APScheduler loop plus a FastAPI application in a thread), and
a GitHub Actions job that starts `scripts/sync_once.py` every few minutes. They share
nothing but the database. There is no lock, no queue and no transaction that spans two
calls: correctness rests on unique indexes, on idempotent writes, on single-threaded
event loops, and on the next poll repairing what this one left undone.

| Component | State it keeps | Operations | Talks to |
|---|---|---|---|
| Source scheduler (`workers/scheduler.py`) | APScheduler job store (one interval job per source, one retry job while it backs off), failure counts, DNS failure counts | start, run of a job, back off, resume, disable, refresh of the registry | `sources` table, pipeline |
| Article budget (`ingestion.py` `CycleBudget`) | start of the window, what is spent in it | reserve | every poll of the process, on two event loops |
| Reels pass (`scheduler.py` `_sync_reels*`, `services/reels`) | last run of each provider, key cooldowns | a pass over the providers, timeout | providers, `reels` table |
| Ingest pipeline (`ingestion.py` `run_source_sync`, `dedup.py`) | per poll: in-run verdicts; the entries' tasks | duplicate test, store, link, bump, bind, prune | outlets, `articles`, `article_sources` |
| Pictures (`sources/media.py`, repair passes, `scripts/refresh_images.py`) | `image_verified_at`, image columns | prove, repair, refresh, purge | outlets, `articles` |
| Retention and storage guard (`0007`, `storage_guard.py`) | the tables' sizes | prune by age, by count, emergency prune | all tables |
| Search resurrection (`search_resurrect.py`) | archived rows | bring back, verify | `articles`, search API |
| Source adapters (`generic_rss.py`, `html_listing.py`) | none between polls | fetch through the tiers, probe a listing's links | outlets, politeness, readers |
| Politeness (`sources/base.py`) and readers (`reader_proxy.py`, `local_reader.py`) | robots cache and last request per host, each behind a lock; the reader's pace and its lock, one per loop | may fetch, wait, ask | outlets, reader service |
| Reels providers (`services/reels/providers.py`, `keys.py`) | key cooldowns, rotation of the terms, counts of a pass | fetch with a key, ask the terms, mix, choose a rendition | Commons, Pexels, Pixabay, ... |
| Almanac (`panchang.py`, `rashifal.py`) | one row a day | fetch, fall back, store | `daily_*` tables |
| Cron pass (`sync_once.py`, `ingest.yml`) | none between passes | reels, almanac, guard, due sources, notification | all of the above |
| Web: live feed (`LiveArticleFeed.tsx`, `lib/news.ts`, `api/live-news`) | the tab's list, cursor, edition and guards | poll, load more, change of language, refresh | `articles` |
| Web: reels page, likes | the reader's place, likes | load, like | `reels` |
| Web: admin sign-in | counters in `admin_login_attempts` or in memory, session cookie | check, record, clear | database |
| Web: notifications | subscriptions, service worker cache | subscribe, push, click | push services |

What is hard here, and why a unit test hardly reaches it:

* **Scheduling.** A source can have an interval job and a retry job, both of which run the
  same coroutine, while a third one re-reads the table and replaces jobs. Correctness is
  about orders: does any of them lose a job, keep a dead one, or run the same outlet twice?
* **Check-then-act over awaits.** A verdict is taken from the database and acted on several
  calls later, while another entry, another poll and another process do the same.
* **Lost answers.** `db_call` retries on a dead socket; the write may have been done.
* **Prunes.** A row can disappear between the verdict that named it and the link to it.
* **Restarts.** Counters, in-run verdicts, provider memories and jobs die with the process.
* **Limits.** A budget that is measured and then taken; a cap that is divided fairly.
* **Two event loops.** `asyncio.Lock` belongs to the loop that first waits for it; a manual
  sync runs on uvicorn's loop and meets the worker's polls at the same locks.
* **Many hands on one row.** Polls, repair passes, three scripts, a search, a purge and the
  prune write the same picture columns, each from what it read some calls ago.
* **Answers out of order.** A tab has polls, pages, resets and refreshes on their way at once.

`PROJECT.json` lists every hazard with its line and the properties that would catch it.

## 2. The modules

| Module | Models | Kind |
|---|---|---|
| `Scheduler` | `workers/scheduler.py` without reels and almanac | component |
| `FetchBudget` | `CycleBudget` and the caps of `run_source_sync` | component |
| `Outlets` | robots.txt, request budget, reader and the tiers of `fetch()` | component |
| `Listing` | what `verify_normalized` and `verify_entries` keep of a listing | component |
| `ReelsPass` | `_sync_reels`, `_sync_reels_body` | component |
| `KeyPool` | `KeyPool` and the calls of `_get_json` | component |
| `Commons` | a pass of `WikimediaSource` and `apply_language_mix` | component |
| `Renditions` | `_best_video_url`, `commons_poster_width`, `_pick_rendition`, `_pick_variant` | component |
| `LiveFeed` | a reader's tab, `/api/live-news` and the query behind it | component |
| `FetchCaps` | the eight above from `FetchBudget` on, side by side | composition |
| `Catalogue` | what the two article tables promise | abstract specification |
| `Ingest` | duplicate test, store, link, count; refines `Catalogue` | component |
| `Pictures` | the image columns, `image_verified_at` and everybody who writes them | component |
| `StorageGuard` | `run_storage_guard` beside arrivals and the TTL prune | component |
| `Almanac` | `sync_panchang` in two processes, over midnight | component |
| `Magazine` | the three above side by side | composition |
| `Scheduler_proofs`, `Ingest_proofs`, `Outlets_proofs`, `LiveFeed_proofs` | theorems about the module of that name | proofs |
| `Reels_proofs` | theorems about `ReelsPass`, `KeyPool`, `Commons`, `Renditions` | proofs |
| `Magazine_proofs` | theorems about `Pictures`, `StorageGuard`, `Almanac` and their composition | proofs |
| `FetchCaps_proofs` | theorems about `FetchBudget`, `Listing` and the composition `FetchCaps` | proofs |
| `LeastElements` | least and greatest elements of sets of numbers, for the proofs | lemmas |
| `MC*` | instances for TLC | model checking |

### Scheduler

One source has two job slots (`job`, `retry`) with the ticks until they fire, and one phase
per kind of job in `run`, because APScheduler's `max_instances` counts per job id. A step
is what the loop does between two awaits: `FireInterval` and `FireRetry` are the scheduler
starting or skipping a firing, `Resume` is `_resume_after_backoff` up to its call of
`_sync_one`, and `ReadFails`, `ReadInactive`, `ReadActive`, `SyncOk`, `BackOff`, `Break`,
`Disable` are the ways through `_sync_one`. `WakeRefresh`, `ReadSources`,
`ReadSourcesFails` and `ApplyRefresh` are the refresh loop; `snapshot` is what it read
before its await. The environment flips the row, the host and the database at any time and
restarts the process. `streak` is a ghost: the true number of DNS failures since the last
success. A job is assumed to fire when it is due; `misfire_grace_time` (a loop blocked for
two minutes) is not modelled. A sync of this module is one step that succeeds or fails:
what happens inside it is `Ingest`.

### FetchBudget, ReelsPass, FetchCaps

`Enter`, `Measure` and `Grant` are `reserve()` between its three calls into C, which is
where another thread may be let in; `LoopFree` keeps the other polls of the same loop out. A
poll whose list is empty does not touch the budget.

A reels pass goes through `Order`. `Ask` sends a request with the fair share as its limit,
`Answer` takes at most that many clips, `SkipTooSoon` and `SkipSpent` are the two
`continue`s, `Timeout` is `wait_for` giving up, `Redeploy` the death of the process.
Local steps take no time; time passes only while a request is in flight or between passes.
`sinceRun` is `_reels_last_run`, which every cron pass forgets; `sinceAsk` is a ghost that
remembers across processes.

`FetchCaps` puts the two side by side with the six components of fetching described below.
They share no state, so a behaviour exercises one side and leaves the others where they
started: nothing is lost and the product is not explored.

### Ingest and Catalogue

An entry (`Item`) is a URL with its wording; `StoryOf` says which entries the duplicate
tests take for one story. `at[p][i]` is how far `_process_one` is with entry `i` in poller
`p`, `carries` the id it holds, `known` the `Deduplicator`'s memory. A step is what one
entry does between two answers of the database. `CheckLocal`, `Ask`, `Remember` are
`Deduplicator.check`; `StoreNew` and `StoreAgain` are `store_article`, which recovers the
id by slug or by hash when the row is there; `Own` is the primary link and
`bind_article_id`; `Claim` and `Bump` are the link and the counter of a duplicate. The
`...Fails` actions are calls that were given up **and** calls that were carried out but
whose answer was lost, which is why `BumpFails` may count twice and `ClaimFails` may leave
a link that nobody counted. `ScanFails` is the dictionary that changes size under the
iteration of another thread. `Prune` and `Crash` may come at any point.

`Catalogue` is what a reader of the tables may rely on: ids are published once, a URL is
attached to one row at a time and an outlet once per row, a tally only rises and never past
what the attached URLs account for, and a row goes together with its links. `Ingest`
refines it (`IsACatalogue`) with `retired` and `tally` read off `gen`, `rows` and `count`.

### Outlets and Listing

A poll (`Fetcher`) goes through robots.txt and the tiers of its adapter. `tier` says which
of them it is at and `stage` how far it is there: coming, queued at the lock, holding it,
asked. `ahead[p]` are the polls that stand before `p` at its lock. The locks of robots.txt
and of the host belong to the first loop that had to wait for them (`bound`):
`QueueForLasting` turns a poll of another loop away with an error, which the adapter takes
for a failed tier. The reader's lock is replaced when another loop asks for it, so
`QueueForReader` sees only the polls of its own loop. `TakeLock` computes the pause and
`OutletsTick` lets it pass; `AskPublisher` and `AskReader` are the requests, and
`PublisherAnswers` and `TierAnswers` decide which tier is next.

`Listing` collects cards (`ReadListing`), probes the first few (`ProbeCard`, each with any
answers of the page, the reader and ourselves), and `Decide` keeps what `verify_entries`
keeps or refuses the outlet. Pages are verdicts; their parsing is not modelled. `Unread`
says when nobody could tell anything of a link: no answer at all, a refusal the reader did
not help with, or a shell of which neither the reader nor we got anything. A shell that our
own read is served a second time is not of that kind: the code counts it as broken.

### KeyPool, Commons and Renditions

`KeyPool` counts each key's cooldown down and lets it run out in the middle of a call;
`fresh` is a ghost, the keys that have been usable since the call began and have not been
asked. `BuildPool` is the new pool of every pass.

`Commons` follows a pass through its asks. `Asked` is the order (a round over the rotated
terms, the Nepali group last, then the deep pages), `Throttled` and `Busy` are the two
kinds of waiting, `SkipTerm`, `AskFails` and `PageArrives` the outcomes, `Mixed` the
dealing of the places. Clips are counted. `idle` is what the catalogue says of the source's
last row, and a source that has stored nothing new for `IdleLimit` is *dry*: its pass has
one round of asks and no deep pages, however full the pages are. A process starts with a
rotation of its own (`NewProcess`).

`Renditions` is pure: one step chooses a file and a poster for every clip of up to
`MaxFiles` files, and the properties compare the choice with everything passed over.

### Pictures, StorageGuard, Almanac and Magazine

A story has a page, which offers a picture, offers none or refuses; it changes
(`PageChanges`). A row has a picture of one of four kinds, the marker, and the ghost `back`
(stored by a search). Polls go `StartPoll`, `CheckStory`, `LookAtPage`, `StoreStory`,
`LeaveClient`, `Sweep`, where `Sweep` is the three repair passes with a client that was
already left, so that each page reads as refusing. The workflow's three scripts are phases:
`NextScript` lists the rows the script asks for, the newest first and no more than
`RunLimit`; `ScriptReads` reads the page of the newest that is left, `ScriptWrites` writes
the verdict on the row as it is by then. A row that cannot be read or proven is passed over
and stays as it was. `ScriptCannotList` is a script whose query fails, `ScriptFails` a write
that is refused, `WorkflowCut` the thirty minutes that end the whole job. The row limits of
the repair passes of a poll are left out, for those passes read no page. A search
(`FindAgain`, `LookAgain`, `BringBack`), the prune, an editor's flag and the purge come in
between.

In `StorageGuard` a story is the instant it was published. `PruneByAge` and `CapReels` are
the tables' own deletes, `CountArticles`, `ReadCut` and `DeleteOlder` the three calls of
the emergency. Each call may be refused; `GuardDies` is the workflow's timeout.

In `Almanac` a day's horoscopes are the day's number. A pass looks at the ages of the rows
(`Look`), reads today's pages and stores them, then walks the days ahead, page by page.
`marker` is what the worker remembers and the cron job does not. `calm` is the moment from
which nothing fails any more, for the liveness properties.

`Magazine` and `FetchCaps` let one side move in each behaviour and leave the others where
they started. The sides share the database or the process, and none of the state that is
modelled, with one exception that is named in `Magazine`: the guard's emergency may delete
an article before it expires. `Pictures` has two sides. On `PicturesSide` every hand works on
the `Current` stories; on `BacklogSide` polls and searches rest, and the workflow is faced with
more stories than a run has room for.

### LiveFeed

Rows are numbered by arrival. `Request` carries what the table held when the server read
it, and `Cut` is the page `getLatestArticles` makes of that: `Fetched` over-fetches
`Headroom` times the limit and tops a thin edition up, `Passed` drops the rows that
`Hidden` stands for (copies, repeated pictures, cards with nothing to show) unless none
would be left, `Illustrated` is `preferIllustrated`, which the query for one language calls
and which finds only rows with a film or a moving picture to replace (`Bare`), for those with
nothing are gone by then, and `NextCursor` is `nextCursorFor`.
The tab sends polls, resets and pages (`flying`), and each may answer in any order
(`AnswerArrives`) or fail (`RequestFails`). `Refresh` is the effect that takes the server's
first page over anew every fifteen seconds. `mergeArticles` joins rows by id, a union here; the
order they are shown in, the rotation and the NEW badge are left out. A retry after a stall is not reachable: the
cursor of a page lies strictly below the cursor it was asked with.

## 3. The runs

| Run | Instance | Shows |
|---|---|---|
| `scheduler` | one source, one restart, backoff cap of 6, refresh every 3, threshold 2 | types, the breaker is earned, an active source is polled for ever, an inactive one is let go, a dead host ends disabled |
| `scheduler_backoff` | the same | **violation**: a refresh re-adds the paused job |
| `scheduler_one_sync` | the same | **violation**: retry and interval run overlap |
| `fetch_caps` | three polls on one loop and two rows of a host on one or two; a listing of up to five links; three providers, the dear one in the middle, worker and cron, a pass timeout that healthy answers can use up; three keys; three Commons terms; clips of two files; six rows of the feed, one of which arrives late, one is pruned, one hidden, one bare, with pages of two, one change of language and one failure | caps and budgets hold, nobody is starved, passes end, providers are asked again; robots.txt is read once, hosts and the reader are paced, every fetch ends; a link nobody could tell anything of costs a listing nothing; no usable key is passed over; every term is reached, its deep pages come round while its source is not dry, no place is wasted; the rendition and the poster are the best of their kind; no row above a tab's cursor is skipped and every new row reaches its list |
| `budget_two_loops` | one of the polls on uvicorn's loop | **violation**: the cap is overspent |
| `reels_min_poll` | one redeploy | **violation**: the dear provider is asked too soon |
| `ingest` | two pollers, four entries of two outlets and two stories, one fault, one prune | the count is bounded, every carried story ends up covered, the tables are a catalogue |
| `ingest_one_row` | the worker alone, one entry per outlet | **violation**: one story becomes two rows |
| `ingest_count` | both pollers, one entry | **violation**: one outlet is counted twice |
| `magazine` | one story under two pollers, the scripts, a search and the purge; two stories in the backlog of a workflow that has room for one; three stories and two tables under the guard; two days and two processes of the almanac | a marker means what it says, a hidden picture gets its marker if fewer newer ones are hidden than a run has room for; the guard never takes the newest story and its tables do not depend on each other; the week ahead is whole and today gets its own horoscope |
| `pictures_repair` | the pictures' side alone | **violation**: the repair passes of a poll repair nothing |
| `almanac_copies` | one day and the one ahead | **violation**: today's horoscopes are stored for tomorrow |

**Bounds and why they are enough.** The sources of the scheduler share nothing but the
database and the refresh, so one source with a free environment sees every order of its own
jobs; its failure counter is capped at the value beyond which the delay no longer changes. The
budget needs three polls because the cap must be exhausted by two and met by a third; its
clock runs long enough for two windows. Three providers let the dear one have a neighbour
on either side. The pass timeout (3) is what three answers of the longest kind (1 each) add
up to: slow but healthy providers use the pass up, and the last of them may be cut off, while
two of them always leave it time.
At a host's locks two polls are enough for a queue, a foreign loop and a lock that turns
one away; the theorems hold for any number. Three keys with a cooldown of one tick let a
key come back while a call is still going round. Three terms, the Nepali one in the middle
and a budget of four asks make the rotation decide who gets a deep page. Clips of two files
give every pair to choose from: the choice is by pairwise comparison.
For `ingest`, a fault or a prune in every place of every interleaving is what finds
mistakes; a second prune or fault multiplies the states without reaching a new place,
because each repairs by the same path: the next poll. The feeds are the four assignments
that put two entries of one story into one poll, into two polls of one poller and into
two pollers, and an unrelated story beside them. `MaxGen` exceeds `MaxPruned`, so a row
that was pruned can always be stored again. Stories share no picture columns, so
one story sees every hand; two pollers are there because both write the row. What stories
do share is the place in a script's list, which is why the backlog's side of `magazine` has
two of them and a `RunLimit` of 1, the smallest list for which one row is behind another. Polls
and searches rest there: they touch no row but the one they store, and what they do to it is
the other side's subject. Three stories
are the fewest for which a cut has something on either side after an arrival, and two
tables the fewest for one to shield the other. Two days are the fewest with a midnight. A walk
is due after two ticks and today's row stale after one, so that there is a time at which one is
due and the other is not, as in the code (six hours and one). `LastDay` also
bounds what is published: today's horoscopes and tomorrow's on the first day, the second
day's own on the second.
The tab's six rows are the fewest for which a first page, a page below it and a last one
differ, with a row that is hidden and one that gives its place away; the pages are small
because the rule depends only on how the limit, the headroom and what is left compare.

`CHECK_DEADLOCK FALSE` appears where the bounded clock or the last day stops (`FetchCaps`,
`Magazine`, `Pictures`, `Almanac`); the scheduler and ingestion are checked for deadlock.

**Fairness.** Weak fairness of each job's steps, of the refresh, of time and of each
poller's entries. The code justifies it: every database call and every fetch has a timeout
and a bounded number of retries, APScheduler fires what is due, asyncio resumes what is
ready, a pass is bounded by `wait_for`, and the pollers poll again by timer. A queue at an
`asyncio.Lock` is first come, first served, which `ahead` models, so weak fairness of
each fetch is enough. The scripts run daily, the guard in every cron pass and the almanac by
timer. In the tab, the ten-second timer polls and every poll ends, by an answer or by an
error; pages, switches and refreshes are assumed of nobody. Nothing is
assumed of hosts, providers, admins, prunes, crashes or restarts; liveness that depends on
them says so in its premise (`<>[](active[s] /\ dbUp) => ...`, `<>calm`, `<>steady`).
`DeepPagesGoRound` has three: the term's own searches are answered with full pages, the
source is not dry, and no pass is cut short and no process started over. The second is a real
restriction, not a convenience: a source whose pages are full of clips that are stored already
is dry in the steady state, gets no deep page until its newest pages bring something new, and
each dry pass uses up a turn of the rotation. `HiddenIsRefreshed` wants the row and its
page to stay, fewer newer hidden rows than a run has room for, and from some day on a workflow
that is not cut off and whose queries and writes are answered; whatever the pages of the other
rows do, it holds. A hung provider is covered by never letting it answer. `ReelsKeepAsking`
promises nothing to a provider behind a hung one, or behind so many slow ones that the pass can
be over before its turn, because the code does not: the pass is cut off at the same provider
every time. Failures of the tab are bounded by `MaxLost`; with failures
for ever no list is fresh.

## 4. The proofs

Every invariant and every action property of the passing runs, and the refinement of
`Catalogue`, is proved by TLAPS for all values of the constants that satisfy the stated
assumptions. What follows is the argument of each; the proofs' own comments have the rest.

**Scheduler** (`Scheduler_proofs`). `TypeCorrect` and `BreakerIsEarned`. The breaker's
invariant is strengthened to `DnsCountHonest`: the counter never exceeds the streak unless
the streak has reached the threshold. The counter may forget (a disable, a restart) but
never counts a failure that did not happen, and only a success lowers the streak, which
lowers the counter in the same step.

**Ingest and Catalogue** (`Ingest_proofs`). `IngestTypeCorrect`, `CountStaysBounded` and
`IngestImplementsCatalogue`. The bound on the counter is not inductive: between a link and
its increment the link is there and the count is not. The proof keeps a ledger
(`LedgerInv`): for each row, the count is at most one plus `Attempts` times the links that
are *settled*, those with no increment outstanding; an outstanding increment belongs to a
link of its own; and an id is given out once. The refinement takes each action to one
of the catalogue's or to none: what stores an entry publishes a row (`StoredIsPublished`,
because its id is new), `Own` and `Claim` attach (`LinkedIsAttached`), an increment is a
tally (`CountedIsTallied`, where the ledger *after* the step gives the bound) or hits a
row that is gone, a prune retires. A request that fails may have done its work, so
the failures map to the same steps. Crashes, polls and lookups are stutters.

**Outlets** (`Outlets_proofs`). `OutletsTypeCorrect`, `RobotsAreAskedOnce`,
`HostStaysPaced` and `OneLoopPacesTheReader`, for any number of polls and loops. The first
three rest on `InTurn`: of two polls at one lasting lock one stands behind the other, and
whoever holds it stands behind nobody; a poll the lock turned away was never in the queue.
On top of it `OnceSoFar` says that robots.txt was asked for at most once, and not yet while
it is neither read nor on its way, and `HolderWaits` that what has passed since the last
request and what the holder still sleeps for add up to the interval. The reader's lock is
replaced whenever another loop asks for it, so its invariants (`ReaderInTurn`,
`ReaderWaits`) are about behaviours with one loop, as is the property: with two loops
the reader is not paced, which section 5 names.

**Reels** (`Reels_proofs`).
* `PassStaysInsideItsCap` and `NobodyIsStarvedByTheCap`, from two lemmas on the ceiling
  division: a share never exceeds what is left, and if there was a clip for every provider
  still to be asked, then there is one for every provider after this one.
* `NoKeyIsPassedOver`. "Every key was tried" says nothing about the way there, so the
  invariant measures it: `FreshComeNearer` says that the distance of an untried key from
  the cursor plus the requests made is less than the number of keys. Each request moves the
  cursor on and never past an untried key, so the sum does not grow, and after as many
  requests as there are keys none can be left. Keys that cool, come back and are tried
  twice do not matter to it.
* `EveryTermHasItsAsk` and `PlacesAreDealtOut`. The rotation and the grouping only
  reorder the terms (`GroupedHasEveryTerm`: the number of terms asked before a term differs
  from term to term, so every turn is somebody's), hence a round over the order asks
  everybody. `AsksAreInTurn` is what a pass keeps meanwhile: the turns before its position
  have had their newest page, and there were no more requests than turns, so a budget of
  one round is not used up before the round is.
* `CardsAreHeardAndSharp`, `NoPreviewIsServed` and `NoPosterIsAnUpscale`, for any heights,
  rungs and files. Each step of a preference keeps what it prefers, or all if there
  is none, so a step keeps something whenever there was something; the last step takes a
  least or a greatest height, which exists. `ChoiceStands` carries the choice over the
  step, and excludes that the original is served where the rule had a file.

**LiveFeed** (`LiveFeed_proofs`). `FeedTypeCorrect` and `TheTabSkipsNothing`, for any page
sizes, hidden rows and requests on their way. About the server, `PageHoldsItsRange`: a
page shows every row between its cursor and where it was asked from that is not hidden.
About the tab, `PagesLieBelowTheList`: a page that is on its way was asked for below rows
the list holds, and was read from a table with every row that is still there, so its answer
joins the list without a gap however late it comes (`RangesMeet`).

**Pictures, guard, almanac** (`Magazine_proofs`).
* `PicturesTypeCorrect` and `MarkerMeansWhatItSays`. Every hand leaves behind a *sound*
  row: one whose marker, unless a search stored it, goes with a picture of the page.
  What a script saw when it listed a row may be anything by the time it writes; its
  verdict is sound on any sound row, which is the lemma that carries the proof.
* `GuardTypeCorrect` and `GuardSparesTheNewest`. The cut is read in one call and used in a
  later one, with arrivals and prunes between. `CutIsOfTheShelf` says that the story at the
  cut is still there or has expired; a delete strictly below it spares the newest.
* `AlmanacTypeCorrect`. A pass keeps the day it began on while midnights go by. `InRoom`:
  that day had dawned, and the walk has gone no further from it than `Ahead` days; so it
  never writes a day for which there is no row, though that is no longer the week ahead.

**Listing, budget, compositions** (`FetchCaps_proofs`).
* `UnreadLinksAreSpared`. `DecisionStands`: what was decided is what the answers say,
  until the next poll. A link nobody could tell anything of is not a broken one
  (`UnreadVerdict`), and a refusal needs more than half of the probes broken. It does not
  say that a silent reader can never cost an outlet its poll: that is false, as section 5
  notes, for a page whose shell our own read is served again.
* `BudgetTypeCorrect`, and `CapHoldsOnOneLoop` under `OneLoop` (all polls on one loop). The
  invariant says that a poll that has measured holds a remaining amount that is still the
  truth, because no other poll of its loop can be inside `reserve()`. Without `OneLoop` the
  theorem is false; `budget_two_loops` is the counterexample.
* `CapsTypeCorrect`, `SidesKeepTheirWord` and `CapHoldsBesides`; `MagazineTypeCorrect` and
  `MagazineKeepsItsWord` in `Magazine_proofs`. A step of a composition is a step of one
  side and a stutter of the others, so the conjunction of the sides' invariants is
  inductive, and what each side promises alone it promises beside the others.

**Assumptions.** Each module names its own (`SchedulerAssumption`, `IngestAssumption`, ...),
TLC evaluates them in every run, and they say that limits are natural numbers, lists are
not empty and the like. Two deserve a word. `RenditionsAssumption` wants the floor not to
lie above the preferred height (`providers.py:304,327`) and the rungs to be positive;
`CommonsAssumption` wants terms to ask for and fewer places for one group than there are. `OneLoop` and
`AllOnOneLoop` are no assumptions but premises of the theorems they appear in, and false
in production while a manual sync runs.

**Only model-checked.** Liveness under fairness is out of the prover's reach:
`ActiveIsPolled`, `InactiveIsLetGo`, `DeadHostIsDisabled`, `ReelsPassesEnd`,
`ReelsKeepAsking`, `FetchesEnd`, `DeepPagesGoRound`, `FeedIsFresh`, `StoryStaysCovered`,
`HiddenIsRefreshed`, `OldRowsGo`, `DaysAheadAreWhole` and `TodaysHoroscope` stay with TLC.
Induction over data is out of reach, too, as a schema; the theorem of the library that every
set in a well-founded order has a minimal element is first-order, though, and
`LeastElements` draws from it what the choices of `Renditions` and `LiveFeed` need. No
module declares a RECURSIVE operator.

## 5. What the code does differently from what it says

Shown by runs that are expected to fail:

1. `scheduler_backoff`: "Backoff now pauses the interval job and resumes it when the retry
   fires" (`scheduler.py:28`). The refresh puts the job back after at most five minutes,
   and clears the failure count, so backoff never grows past the refresh interval.
2. `scheduler_one_sync`: "never two syncs of one source at once" (`scheduler.py:356`).
3. `budget_two_loops`: "atomic with respect to every other coroutine in this process"
   (`ingestion.py:2252`), and no lock so that it works "in more than one loop".
4. `reels_min_poll`: "a provider that was just polled should not be polled again on the
   other side of a redeploy" (`scheduler.py:454`).
5. `ingest_one_row`: `bind_article_id` is said to close the gap between two outlets of one
   pass (`dedup.py:395`); each outlet has a deduplicator of its own.
6. `ingest_count`: the created/exists answer "keeps `source_count` honest"
   (`ingestion.py:1538`); a second poller can create the primary link first.
7. `pictures_repair`: "the repair pass will come back for it" (`ingestion.py:713`). The
   passes run with a client whose context was left at `ingestion.py:2932`, read nothing and
   repair nothing.
8. `almanac_copies`: "a day whose horoscope is identical to today's has not been published,
   and its horoscopes are removed rather than stored" (`panchang.py:1440`). A walk that
   starts while today's row is fresh has no horoscopes of today to compare with.

Noticed while reading, without a run of their own. In the ingestion service:

* Every registry refresh re-adds each interval job with a first run within 30 seconds, so
  an interval longer than five minutes is polled every five minutes.
* `worker._boot` retries when `start()` raises, but `refresh_jobs` swallows the error, so
  the retry is never taken.
* A per-article failure is counted as `rejected`, never in `result.errors`.
* A database that goes away in the middle of a sync is counted against the source.
* `db_call` says that its operations are idempotent; the increment is not.
* The DNS counter is "consecutive" but a failure of another kind does not reset it.
* A provider that hangs starves the ones after it in every pass.
* The id of a story is bound under its page's headline, while the feed's headline is what
  was remembered.
* `check_local` iterates a dictionary that another executor thread may be changing.
* `storage_guard.py:266` says that the emergency keeps breaking and featured rows; its delete
  (300-305) has no such filter. `pg_database_size` does not shrink with a delete, so the
  pressure that called for one emergency calls for the next. `_delete_beyond_cap` orders with
  `ascending=True`, an argument the client library does not take.
* A row brought back by a search is stored as verified with whatever picture the share page
  had (`search_resurrect.py:531`), which is why `ConfirmedUnlessBroughtBack` leaves it out.
* `refresh_stale_images` says the marker "is written HERE and nowhere else";
  the store, the other passes, the scripts, a search and the purge write it too.
* `html_listing.py:630` and `:888` say that what lies past the probe window is kept, but
  `verify_normalized` passes only the first forty articles on (966). A 500 on a probe counts
  as a broken link.
* "A window the reader could not read at all can never raise" (`html_listing.py:846`). A page
  that is a client-rendered shell is read a second time by ourselves when the reader has no
  quota (791-801); the same shell comes back and counts as broken, and most of a window of
  them drops the outlet. `Listing` has these steps; `UnreadIsNotBroken` does not speak of them.
* `refresh_images.py:2` says "re-resolve the artwork of every row the marker has not visited". A
  run takes the newest `limit` of them (119-120; 120 rows in `refresh-images.yml:132`). Those
  it cannot prove are the newest again the next day, and once there are `limit` of them the
  rows behind are never visited, which is why `HiddenIsRefreshed` counts the newer hidden rows.
* The reader's pace is kept per event loop only (`reader_proxy.py:151`), and its comment
  counts one request every second and a half where the constant says 3.1 seconds.
* A page of the local tier does not go through `wait()`. A later page of a feed that robots.txt
  refuses, or the publisher refuses and no tier can read, fails the whole fetch, the pages
  that were read before it included.
* Nepali terms of Commons never get a deep page as long as the others fill the budget
  (`providers.py:1613`); `COMMONS_MAX_REQUESTS_PER_PASS` counts asks, not the requests their
  retries send; a word in both groups is counted twice against `len(failed_terms)`; a band
  that starts again at 0 asks its first page again; `_reels_pass` starts at 0 in every cron
  process, so there the rotation does not turn.
* The master file "when the ladder tops out low" cannot be chosen once a transcode exists
  (`providers.py:2398-2416`), and the last resort ignores the size limit.
* Key pools are built anew in every pass although the documents call the cooldown a long
  timer: a first key that is over its quota is asked once a pass. A first key that is
  *rejected* blocks its provider: the call ends without trying the next.
* A failure of `stored_panchang_days` returns an empty list, which reads as "nothing stored".
  `_last_stored_signs_bs` keeps the worker from correcting horoscopes it has stored once.

In the live feed:

* "The client walks the cursor and can reach every row the database holds" (`route.ts:52`).
  `nextCursorFor` takes a query that came back short for the end, but the page shows `limit` of
  up to five times as many rows: of 119 that remain, a page of 24 shows the first and leaves
  95 without a cursor to reach them by. `LiveFeed` has this end of the archive, which is why
  `NothingIsSkipped` speaks of a tab that has a cursor.
* The server's cursor "is only adopted while this tab has not paged past the first page
  itself" (`LiveArticleFeed.tsx:395`). A tab at the end of the archive has no cursor and
  adopts it at the next refresh, so the reader walks the archive again.
* A language switch must not leave "the cursor pointing into the edition the reader just
  navigated away from" (`LiveArticleFeed.tsx:511`). The unfiltered refresh and a late page
  of the former edition put it there, which is why `NothingIsSkipped` speaks of a tab that
  has never chosen a language.
* `preferIllustrated` says "no story is ever discarded for want of a picture"; the row whose
  place is given away is above the cursor and on no later page (`news.ts:602-604`).
* `mergeArticles` says a story "keeps the copy it arrived with"; if anything in the batch is
  new, the fresh copy of every story replaces the old one.
* The refresh lifts the guard against two loads at once, so the same page may be on its way
  twice. Two quick changes of language may answer in the other order, and the list is then
  the former edition until the next reset.
* `dropRepeatedImages` is described as taking a picture away; it takes the row.
* `news-rotate` has a listener and is dispatched by nobody.

## 6. Not modelled

* **Parsing, sanitising, categorising, summarising, title normalisation**: heuristics over
  strings without state; a model would be the code again. They appear as the verdicts the
  modelled parts act on (a page "offers", a link is "broken", two entries tell one story).
* **Paging and filters of Pexels, Pixabay, YouTube and Vimeo**, and the rows a reels pass
  writes: Commons is the provider with a budget, a rotation and a mix of its own; the
  others ask one page after the other.
* **The later pages of a feed**: each goes through robots.txt and the host's pace again, as a
  poll of its own does in `Outlets`.
* **Retention**: the SQL row cap and the pruning of source errors are one statement each.
* **Cron pass**: the due filter and the self-dispatch of the workflow; GitHub's concurrency
  group makes passes exclusive, which `StorageGuard` and `Almanac` take over.
* **Health API, sync logs, analytics**: read by people only.
* **Notifications, admin sign-in, likes**: one statement behind a unique key or a session
  library; access control is not the subject of this project.
* **Pages, layout, search and translation of the site**: rendering and read-only queries.
* **Display order, rotation and badge** of the live feed: the order on the screen changes
  nothing of what the list holds. One change of language is explored, to the edition the
  late row belongs to.
