------------------------------ MODULE Outlets ------------------------------
(***************************************************************************)
(* How the polls of one process read one publisher's host: RobotsChecker   *)
(* and RateLimiter of sources/base.py, the fetch() of the two adapters and *)
(* the tiers behind it, sources/reader_proxy.py and local_reader.py.       *)
(*                                                                         *)
(* robots.txt, the request budget and the reader's pace are shared by all  *)
(* polls, each behind an asyncio.Lock.  Such a lock belongs to no event    *)
(* loop until a coroutine has to wait for it; from then on it raises on    *)
(* whoever would wait from another loop.  A manual sync runs on uvicorn's  *)
(* loop, in a thread of its own, so two loops may meet at these locks.     *)
(* The reader's lock is replaced instead when another loop comes to it.    *)
(*                                                                         *)
(* Times are ticks; what has passed since a request is counted up to the   *)
(* longest interval anyone asks about.                                     *)
(***************************************************************************)
EXTENDS Integers, Sequences

CONSTANTS
    Fetcher,         \* polls of rows of the host
    KindOf,          \* the adapter: "feed", "paged" (a WordPress feed, asked with a query) or "listing"
    EventLoop,       \* the event loops
    LoopsOf,         \* the ways the polls may be spread over the loops
    RowInterval,     \* 60 / rate_limit_per_minute
    CrawlDelay,      \* what the host's robots.txt may ask for
    ReaderInterval   \* READER_MIN_INTERVAL_SECONDS

ASSUME OutletsAssumption ==
    /\ KindOf \in [Fetcher -> {"feed", "paged", "listing"}]
    /\ LoopsOf \subseteq [Fetcher -> EventLoop]
    /\ "none" \notin EventLoop
    /\ RowInterval \in Nat
    /\ CrawlDelay \in Nat
    /\ ReaderInterval \in Nat

LongerOf(a, b) == IF a > b THEN a ELSE b
Longest == LongerOf(ReaderInterval, LongerOf(RowInterval, CrawlDelay))

Lock == {"robots", "host", "reader"}
Tier == {"publisher", "bare", "reader", "local"}

VARIABLES
    loopOf,       \* the loop each poll runs on
    tier,         \* what a poll is at: not fetching, robots.txt, or a tier
    stage,        \* and how far: coming to the lock, queued, holding it, or asked
    ahead,        \* the polls queued before it
    pause,        \* what it has to sleep for still, holding the lock
    fallbacks,    \* the tiers it would try next
    robots,       \* RobotsChecker._cache: not read, or what it asks for
    downloads,    \* how often robots.txt was asked for
    bound,        \* the loop each lasting lock is bound to
    readerLoop,   \* _reader_lock_loop
    onReader,     \* the polls at _reader_lock as it is now
    sinceHost,    \* RateLimiter._last_call, as the time since
    wasSlow,      \* a crawl delay was known when that request went out
    sinceReader   \* _reader_last_call, as the time since

outletsVars == <<loopOf, tier, stage, ahead, pause, fallbacks, robots, downloads,
                 bound, readerLoop, onReader, sinceHost, wasSlow, sinceReader>>

readerLock == <<readerLoop, onReader>>
timing == <<sinceHost, wasSlow, sinceReader>>

OutletsInit ==
    /\ loopOf \in LoopsOf
    /\ tier = [p \in Fetcher |-> "out"]
    /\ stage = [p \in Fetcher |-> "idle"]
    /\ ahead = [p \in Fetcher |-> {}]
    /\ pause = [p \in Fetcher |-> 0]
    /\ fallbacks = [p \in Fetcher |-> <<>>]
    /\ robots = "unread"
    /\ downloads = 0
    /\ bound = [k \in {"robots", "host"} |-> "none"]
    /\ readerLoop = "none"
    /\ onReader = {}
    /\ sinceHost = Longest
    /\ wasSlow = FALSE
    /\ sinceReader = Longest

-----------------------------------------------------------------------------
\* Moving a poll along.

\* A poll goes to a tier; the local one has no lock.
GoTo(p, t) ==
    /\ tier' = [tier EXCEPT ![p] = t]
    /\ stage' = [stage EXCEPT ![p] = CASE t = "out" -> "idle" [] t = "local" -> "asked" [] OTHER -> "coming"]

\* A slip in Release: the lock is not given back.
NeverReleased(p) == UNCHANGED ahead

\* Leaving a lock: whoever was queued behind has one less ahead.
Release(p) == ahead' = [q \in Fetcher |-> ahead[q] \ {p}]

\* The next tier, or the end of the poll when there is none.
TryNext(p) ==
    /\ GoTo(p, IF fallbacks[p] = <<>> THEN "out" ELSE Head(fallbacks[p]))
    /\ fallbacks' = [fallbacks EXCEPT ![p] = IF @ = <<>> THEN <<>> ELSE Tail(@)]

LockOf(t) == CASE t \in {"publisher", "bare"} -> "host" [] OTHER -> t

\* Those at the lock of a tier: queued for it or holding it, which the poll that
\* downloads robots.txt does until the answer is there.
AtLock(t) ==
    {q \in Fetcher : /\ LockOf(tier[q]) = LockOf(t)
                    /\ \/ stage[q] \in {"queued", "holding"}
                       \/ tier[q] = "robots" /\ stage[q] = "asked"}

-----------------------------------------------------------------------------
\* One poll.

\* fetch(): robots.txt is read once per process; a poll it shuts out ends here.
BeginFetch(p) ==
    /\ tier[p] = "out"
    /\ robots # "shut"
    /\ GoTo(p, IF robots = "unread" THEN "robots" ELSE "publisher")
    /\ UNCHANGED <<loopOf, ahead, pause, fallbacks, robots, downloads, bound, readerLock, timing>>

\* Waiting for a lasting lock: a lock somebody has to wait for is bound to that
\* loop.  From another loop it raises: the poll fails, or, at the bare feed,
\* where the exception is swallowed, goes on to the next tier.
QueueForLasting(p) ==
    LET lock == LockOf(tier[p])
    IN  /\ stage[p] = "coming"
        /\ lock \in {"robots", "host"}
        /\ IF AtLock(tier[p]) # {} /\ bound[lock] \notin {"none", loopOf[p]}
           THEN /\ IF tier[p] = "bare" THEN TryNext(p) ELSE GoTo(p, "out") /\ UNCHANGED fallbacks
                /\ UNCHANGED <<ahead, bound>>
           ELSE /\ stage' = [stage EXCEPT ![p] = "queued"]
                /\ ahead' = [ahead EXCEPT ![p] = AtLock(tier[p])]
                /\ bound' = IF AtLock(tier[p]) = {} THEN bound ELSE [bound EXCEPT ![lock] = loopOf[p]]
                /\ UNCHANGED <<tier, fallbacks>>
        /\ UNCHANGED <<loopOf, pause, robots, downloads, readerLock, timing>>

\* A slip in ReaderQueue: the lock is rebuilt on every call.
NobodyAhead(p) == {}

\* _reader_lock_for_this_loop: who is at the lock a poll comes to.  It is a new
\* lock, and nobody is, when the last poll to come was of another loop.
ReaderQueue(p) == IF readerLoop = loopOf[p] THEN onReader ELSE {}

QueueForReader(p) ==
    /\ stage[p] = "coming"
    /\ tier[p] = "reader"
    /\ stage' = [stage EXCEPT ![p] = "queued"]
    /\ ahead' = [ahead EXCEPT ![p] = ReaderQueue(p)]
    /\ readerLoop' = loopOf[p]
    /\ onReader' = ReaderQueue(p) \cup {p}
    /\ UNCHANGED <<loopOf, tier, pause, fallbacks, robots, downloads, bound, timing>>

\* A slip in Interval: the row's own rate outvotes the robots.txt.
OwnRate == RowInterval

\* RateLimiter.interval: the crawl delay is a floor.
Interval == IF robots = "slow" THEN LongerOf(RowInterval, CrawlDelay) ELSE RowInterval

\* The pause before the next request, from what has passed since the last.
PauseFor(t) ==
    CASE LockOf(t) = "host" -> LongerOf(0, Interval - sinceHost)
      [] t = "reader"       -> LongerOf(0, ReaderInterval - sinceReader)
      [] OTHER              -> 0

\* The lock is free for the first in its queue, which reads the time once.
TakeLock(p) ==
    /\ stage[p] = "queued"
    /\ ahead[p] = {}
    /\ stage' = [stage EXCEPT ![p] = "holding"]
    /\ pause' = [pause EXCEPT ![p] = PauseFor(tier[p])]
    /\ UNCHANGED <<loopOf, tier, ahead, fallbacks, robots, downloads, bound, readerLock, timing>>

\* A slip in StillUnread: the cache is not looked at again inside the lock.
NeverLooksAgain == TRUE

\* The second look at the cache, with the lock held.
StillUnread == robots = "unread"

\* With the lock held the cache is looked at again, and robots.txt is asked for
\* if nobody has read it meanwhile.
LookAgain(p) ==
    /\ tier[p] = "robots"
    /\ stage[p] = "holding"
    /\ IF StillUnread
       THEN /\ stage' = [stage EXCEPT ![p] = "asked"]
            /\ downloads' = downloads + 1
            /\ UNCHANGED <<tier, ahead>>
       ELSE /\ GoTo(p, IF robots = "shut" THEN "out" ELSE "publisher")
            /\ Release(p)
            /\ UNCHANGED downloads
    /\ UNCHANGED <<loopOf, pause, fallbacks, robots, bound, readerLock, timing>>

\* robots.txt arrives; whatever is no 200, or never comes, reads as no rules, for
\* life.
RobotsArrive(p) ==
    /\ tier[p] = "robots"
    /\ stage[p] = "asked"
    /\ robots' \in {"open", "slow", "shut"}
    /\ GoTo(p, IF robots' = "shut" THEN "out" ELSE "publisher")
    /\ Release(p)
    /\ UNCHANGED <<loopOf, pause, fallbacks, downloads, bound, readerLock, timing>>

\* The pause is over: the time is noted, the lock given back, the request sent.
AskPublisher(p) ==
    /\ tier[p] \in {"publisher", "bare"}
    /\ stage[p] = "holding"
    /\ pause[p] = 0
    /\ sinceHost' = 0
    /\ wasSlow' = (robots = "slow")
    /\ stage' = [stage EXCEPT ![p] = "asked"]
    /\ Release(p)
    /\ UNCHANGED <<loopOf, tier, pause, fallbacks, robots, downloads, bound, readerLock, sinceReader>>

AskReader(p) ==
    /\ tier[p] = "reader"
    /\ stage[p] = "holding"
    /\ pause[p] = 0
    /\ sinceReader' = 0
    /\ stage' = [stage EXCEPT ![p] = "asked"]
    /\ onReader' = onReader \ {p}
    /\ Release(p)
    /\ UNCHANGED <<loopOf, tier, pause, fallbacks, robots, downloads, bound, readerLoop, sinceHost, wasSlow>>

\* What is tried when the publisher refuses.  A feed asked with a query is
\* asked without it first, and both forms go to the reader and to ourselves.
Behind(kind) ==
    IF kind = "paged" THEN <<"bare", "reader", "reader", "local", "local">> ELSE <<"reader", "local">>

\* The publisher answers: with what the adapter can read; with something final
\* (for a feed an empty page or no answer, for a listing a page that is gone);
\* with a body that is no feed, which is sought elsewhere; or it refuses.
PublisherAnswers(p) ==
    /\ tier[p] = "publisher"
    /\ stage[p] = "asked"
    /\ \/ GoTo(p, "out") /\ UNCHANGED fallbacks
       \/ \E rest \in {Behind(KindOf[p]), <<"reader", "local">>} :
            /\ GoTo(p, Head(rest))
            /\ fallbacks' = [fallbacks EXCEPT ![p] = Tail(rest)]
    /\ UNCHANGED <<loopOf, ahead, pause, robots, downloads, bound, readerLock, timing>>

\* A tier behind it answers, or does not.  None of them raises.
TierAnswers(p) ==
    /\ tier[p] \in {"bare", "reader", "local"}
    /\ stage[p] = "asked"
    /\ \/ GoTo(p, "out") /\ fallbacks' = [fallbacks EXCEPT ![p] = <<>>]
       \/ TryNext(p)
    /\ UNCHANGED <<loopOf, ahead, pause, robots, downloads, bound, readerLock, timing>>

OutletsTick ==
    /\ sinceHost' = IF sinceHost < Longest THEN sinceHost + 1 ELSE sinceHost
    /\ sinceReader' = IF sinceReader < Longest THEN sinceReader + 1 ELSE sinceReader
    /\ pause' = [p \in Fetcher |-> LongerOf(0, pause[p] - 1)]
    /\ UNCHANGED <<loopOf, tier, stage, ahead, fallbacks, robots, downloads, bound, readerLock, wasSlow>>

FetchStep(p) ==
    \/ QueueForLasting(p) \/ QueueForReader(p) \/ TakeLock(p)
    \/ LookAgain(p) \/ RobotsArrive(p)
    \/ AskPublisher(p) \/ AskReader(p) \/ PublisherAnswers(p) \/ TierAnswers(p)

OutletsNext == OutletsTick \/ \E p \in Fetcher : BeginFetch(p) \/ FetchStep(p)

\* Both loops run, and every request has a timeout.
OutletsFairness ==
    /\ WF_outletsVars(OutletsTick)
    /\ \A p \in Fetcher : WF_outletsVars(FetchStep(p))

OutletsSpec == OutletsInit /\ [][OutletsNext]_outletsVars /\ OutletsFairness

-----------------------------------------------------------------------------
\* The locks, the queues and the clocks are of their types.
OutletsTypeOK ==
    /\ loopOf \in LoopsOf
    /\ tier \in [Fetcher -> Tier \cup {"out", "robots"}]
    /\ stage \in [Fetcher -> {"idle", "coming", "queued", "holding", "asked"}]
    /\ ahead \in [Fetcher -> SUBSET Fetcher]
    /\ pause \in [Fetcher -> 0..Longest]
    /\ fallbacks \in [Fetcher -> Seq(Tier)]
    /\ robots \in {"unread", "open", "slow", "shut"}
    /\ downloads \in Nat
    /\ bound \in [{"robots", "host"} -> EventLoop \cup {"none"}]
    /\ readerLoop \in EventLoop \cup {"none"}
    /\ onReader \subseteq Fetcher
    /\ sinceHost \in 0..Longest
    /\ wasSlow \in BOOLEAN
    /\ sinceReader \in 0..Longest

\* "A polite client asks once": however the polls of a host meet, on one loop
\* or on two, and though some fail at the lock, its robots.txt is asked for at
\* most once in the life of the process.
RobotsAskedOnce == downloads <= 1

\* Two requests that go through the host's budget are never closer than the
\* row's interval, nor than the crawl delay once that was known, though a lock
\* may turn away a poll of another loop.
HostIsPaced ==
    [][\A p \in Fetcher :
         AskPublisher(p) => /\ sinceHost >= RowInterval
                            /\ wasSlow => sinceHost >= CrawlDelay]_outletsVars

\* The reader is asked at its own pace as long as one loop asks it.
ReaderIsPacedOnOneLoop ==
    [][\A p \in Fetcher :
         AskReader(p) /\ (\A q \in Fetcher : loopOf[q] = loopOf[p])
           => sinceReader >= ReaderInterval]_outletsVars

\* No lock, refusal or foreign loop holds a poll for ever.
EveryFetchEnds == \A p \in Fetcher : tier[p] # "out" ~> tier[p] = "out"
=============================================================================
