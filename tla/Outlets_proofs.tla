--------------------------- MODULE Outlets_proofs ---------------------------
(***************************************************************************)
(* Proofs about Outlets: its type invariant, that robots.txt is asked for  *)
(* at most once, and that two requests through the host's budget keep      *)
(* their distance, for any number of polls of any kind, spread over any    *)
(* number of event loops, and for any intervals; and that two requests to  *)
(* the reader keep theirs as long as one loop makes them.                  *)
(*                                                                         *)
(* The argument is that the two lasting locks exclude: of two polls at one *)
(* of them, one is queued behind the other, and whoever holds it is behind *)
(* nobody.  A poll the lock turned away was never in the queue.  The       *)
(* reader's lock excludes only the polls of its loop: its invariant speaks *)
(* of behaviours with one loop, and of no other.                           *)
(***************************************************************************)
EXTENDS Outlets, TLAPS

AskedForRobots(p) == tier[p] = "robots" /\ stage[p] = "asked"

\* A poll is at its tier's lock from the queue until it gives the lock back.
InLock(p) == stage[p] \in {"queued", "holding"} \/ AskedForRobots(p)

SameLock(p, q) == LockOf(tier[p]) = LockOf(tier[q]) /\ LockOf(tier[p]) \in {"robots", "host"}

\* Of two polls at one lasting lock, one is behind the other.
InTurn ==
    \A p, q \in Fetcher :
      p # q /\ InLock(p) /\ InLock(q) /\ SameLock(p, q) => p \in ahead[q] \/ q \in ahead[p]

\* Whoever holds a lock is behind nobody.
HolderIsFirst == \A p \in Fetcher : stage[p] = "holding" \/ AskedForRobots(p) => ahead[p] = {}

\* robots.txt is on its way only while nobody has read it.
AskedWhileUnread == \A p \in Fetcher : AskedForRobots(p) => robots = "unread"

\* It was asked for once at most, and not yet if it is neither read nor on its way.
OnceSoFar ==
    /\ downloads <= 1
    /\ robots = "unread" /\ (\A p \in Fetcher : ~AskedForRobots(p)) => downloads = 0

SlowIsKnown == wasSlow => robots = "slow"

\* What has passed since the last request and what the holder still sleeps for
\* add up to the distance.
HolderWaits ==
    \A p \in Fetcher :
      LockOf(tier[p]) = "host" /\ stage[p] = "holding" =>
        /\ sinceHost + pause[p] >= RowInterval
        /\ (wasSlow => sinceHost + pause[p] >= CrawlDelay)

Turns == InTurn /\ HolderIsFirst
OutletsInv ==
    OutletsTypeOK /\ Turns /\ AskedWhileUnread /\ OnceSoFar /\ SlowIsKnown /\ HolderWaits

-----------------------------------------------------------------------------
\* The longest interval is as long as each of them.
LEMMA LongestIsLongest ==
    /\ Longest \in Nat
    /\ Longest >= RowInterval /\ Longest >= CrawlDelay /\ Longest >= ReaderInterval
  BY OutletsAssumption DEF Longest, LongerOf

\* Where a poll is that was sent to a tier, and where the others are.
LEMMA GoingTo ==
    ASSUME OutletsTypeOK, NEW p \in Fetcher, NEW t, GoTo(p, t)
    PROVE  /\ tier'[p] = t
           /\ stage'[p] \in {"idle", "asked", "coming"}
           /\ stage'[p] = "asked" => t = "local"
           /\ \A q \in Fetcher \ {p} : tier'[q] = tier[q] /\ stage'[q] = stage[q]
           /\ ~InLock(p)'
           /\ stage' \in [Fetcher -> {"idle", "coming", "queued", "holding", "asked"}]
           /\ t \in Tier \cup {"out", "robots"} => tier' \in [Fetcher -> Tier \cup {"out", "robots"}]
<1>1. stage'[p] \in {"idle", "asked", "coming"} /\ (stage'[p] = "asked" => t = "local") /\ tier'[p] = t
  BY DEF GoTo, OutletsTypeOK
<1>2. \A q \in Fetcher \ {p} : tier'[q] = tier[q] /\ stage'[q] = stage[q]
  BY DEF GoTo, OutletsTypeOK
<1>3. ~InLock(p)'
  BY <1>1 DEF InLock, AskedForRobots
<1>4. stage' \in [Fetcher -> {"idle", "coming", "queued", "holding", "asked"}]
  BY DEF GoTo, OutletsTypeOK
<1>5. t \in Tier \cup {"out", "robots"} => tier' \in [Fetcher -> Tier \cup {"out", "robots"}]
  BY DEF GoTo, OutletsTypeOK
<1> QED BY <1>1, <1>2, <1>3, <1>4, <1>5

\* The next tier is one, and so are the rest.
LEMMA NextTier ==
    ASSUME OutletsTypeOK, NEW p \in Fetcher, TryNext(p)
    PROVE  /\ \E t \in Tier \cup {"out"} : GoTo(p, t)
           /\ fallbacks' \in [Fetcher -> Seq(Tier)]
<1>1. fallbacks[p] \in Seq(Tier)
  BY DEF OutletsTypeOK
<1>2. CASE fallbacks[p] = <<>>
  BY <1>1, <1>2 DEF TryNext, OutletsTypeOK
<1>3. CASE fallbacks[p] # <<>>
  <2>1. Head(fallbacks[p]) \in Tier /\ Tail(fallbacks[p]) \in Seq(Tier)
    BY <1>1, <1>3
  <2>2. GoTo(p, Head(fallbacks[p])) /\ fallbacks' = [fallbacks EXCEPT ![p] = Tail(fallbacks[p])]
    BY <1>3 DEF TryNext
  <2> QED BY <2>1, <2>2 DEF OutletsTypeOK
<1> QED BY <1>2, <1>3

\* A poll that ends up outside the locks, and that others are at most let past,
\* leaves the turns as they are.
LEMMA LeavingKeepsTurns ==
    ASSUME Turns, NEW p \in Fetcher, ~InLock(p)',
           \A q \in Fetcher \ {p} :
             /\ tier'[q] = tier[q] /\ stage'[q] = stage[q]
             /\ ahead[q] \ {p} \subseteq ahead'[q] /\ ahead'[q] \subseteq ahead[q]
    PROVE  Turns'
<1>1. InTurn'
  <2> SUFFICES ASSUME NEW q \in Fetcher, NEW r \in Fetcher, q # r,
                      InLock(q)', InLock(r)', SameLock(q, r)'
               PROVE  (q \in ahead[r] \/ r \in ahead[q])'
    BY DEF InTurn
  <2>1. q # p /\ r # p
    OBVIOUS
  <2>2. InLock(q) /\ InLock(r) /\ SameLock(q, r)
    BY <2>1 DEF InLock, AskedForRobots, SameLock
  <2> QED BY <2>1, <2>2 DEF Turns, InTurn
<1>2. HolderIsFirst'
  <2> SUFFICES ASSUME NEW q \in Fetcher, (stage[q] = "holding" \/ AskedForRobots(q))'
               PROVE  (ahead[q] = {})'
    BY DEF HolderIsFirst
  <2>1. q # p
    BY DEF InLock
  <2> QED BY <2>1 DEF Turns, HolderIsFirst, AskedForRobots
<1> QED BY <1>1, <1>2 DEF Turns

\* Giving a lock back lets the others past, and nobody else.
LEMMA Releasing ==
    ASSUME OutletsTypeOK, NEW p \in Fetcher, Release(p)
    PROVE  /\ ahead' \in [Fetcher -> SUBSET Fetcher]
           /\ \A q \in Fetcher : ahead'[q] = ahead[q] \ {p}
  BY DEF Release, OutletsTypeOK

\* The two lasting locks serve the polls one at a time, in their order.
LEMMA TurnsAreKept ==
    ASSUME OutletsTypeOK, Turns, [OutletsNext]_outletsVars PROVE Turns'
<1>1. CASE OutletsTick
  BY <1>1 DEF OutletsTick, Turns, InTurn, HolderIsFirst, InLock, AskedForRobots, SameLock
<1>2. ASSUME NEW p \in Fetcher, BeginFetch(p) PROVE Turns'
  <2>1. \E t : GoTo(p, t)
    BY <1>2 DEF BeginFetch
  <2>2. UNCHANGED ahead
    BY <1>2 DEF BeginFetch
  <2> QED BY <2>1, <2>2, GoingTo, LeavingKeepsTurns
<1>3. ASSUME NEW p \in Fetcher, QueueForLasting(p) PROVE Turns'
  <2>1. CASE UNCHANGED ahead /\ (TryNext(p) \/ GoTo(p, "out"))
    <3>1. \E t : GoTo(p, t)
      BY <2>1 DEF TryNext
    <3> QED BY <2>1, <3>1, GoingTo, LeavingKeepsTurns
  <2>2. CASE /\ stage' = [stage EXCEPT ![p] = "queued"]
             /\ ahead' = [ahead EXCEPT ![p] = AtLock(tier[p])]
             /\ UNCHANGED tier
    <3>1. /\ stage'[p] = "queued" /\ ahead'[p] = AtLock(tier[p])
          /\ \A q \in Fetcher \ {p} : stage'[q] = stage[q] /\ ahead'[q] = ahead[q]
      BY <2>2 DEF OutletsTypeOK
    <3>2. \A q \in Fetcher \ {p} : InLock(q) /\ LockOf(tier[q]) = LockOf(tier[p]) => q \in AtLock(tier[p])
      BY DEF InLock, AskedForRobots, AtLock
    <3>3. InTurn'
      <4> SUFFICES ASSUME NEW q \in Fetcher, NEW r \in Fetcher, q # r,
                          InLock(q)', InLock(r)', SameLock(q, r)'
                   PROVE  (q \in ahead[r] \/ r \in ahead[q])'
        BY DEF InTurn
      <4>1. SameLock(q, r)
        BY <2>2 DEF SameLock
      <4>2. CASE q # p /\ r # p
        <5>1. InLock(q) /\ InLock(r)
          BY <2>2, <3>1, <4>2 DEF InLock, AskedForRobots
        <5> QED BY <3>1, <4>1, <4>2, <5>1 DEF Turns, InTurn
      <4>3. CASE q = p
        <5>1. InLock(r)
          BY <2>2, <3>1, <4>3 DEF InLock, AskedForRobots
        <5> QED BY <3>1, <3>2, <4>1, <4>3, <5>1 DEF SameLock
      <4>4. CASE r = p
        <5>1. InLock(q)
          BY <2>2, <3>1, <4>4 DEF InLock, AskedForRobots
        <5> QED BY <3>1, <3>2, <4>1, <4>4, <5>1 DEF SameLock
      <4> QED BY <4>2, <4>3, <4>4
    <3>4. HolderIsFirst'
      BY <2>2, <3>1 DEF Turns, HolderIsFirst, AskedForRobots
    <3> QED BY <3>3, <3>4 DEF Turns
  <2> QED BY <1>3, <2>1, <2>2 DEF QueueForLasting
<1>4. ASSUME NEW p \in Fetcher, QueueForReader(p) PROVE Turns'
  <2>1. /\ tier[p] = "reader" /\ UNCHANGED tier /\ stage'[p] = "queued"
        /\ \A q \in Fetcher \ {p} : stage'[q] = stage[q] /\ ahead'[q] = ahead[q]
    BY <1>4 DEF QueueForReader, OutletsTypeOK
  <2>2. LockOf(tier[p]) \notin {"robots", "host"}
    BY <2>1 DEF LockOf
  <2>3. InTurn'
    BY <2>1, <2>2 DEF Turns, InTurn, InLock, AskedForRobots, SameLock
  <2>4. HolderIsFirst'
    BY <2>1 DEF Turns, HolderIsFirst, AskedForRobots
  <2> QED BY <2>3, <2>4 DEF Turns
<1>5. ASSUME NEW p \in Fetcher, TakeLock(p) PROVE Turns'
  <2>1. /\ UNCHANGED <<tier, ahead>> /\ stage[p] = "queued" /\ ahead[p] = {} /\ stage'[p] = "holding"
        /\ \A q \in Fetcher \ {p} : stage'[q] = stage[q]
    BY <1>5 DEF TakeLock, OutletsTypeOK
  <2> QED BY <2>1 DEF Turns, InTurn, HolderIsFirst, InLock, AskedForRobots, SameLock
<1>6. ASSUME NEW p \in Fetcher, LookAgain(p) PROVE Turns'
  <2>1. CASE UNCHANGED <<tier, ahead>> /\ stage' = [stage EXCEPT ![p] = "asked"]
    <3>1. /\ stage[p] = "holding" /\ tier[p] = "robots" /\ stage'[p] = "asked"
          /\ \A q \in Fetcher \ {p} : stage'[q] = stage[q]
      BY <1>6, <2>1 DEF LookAgain, OutletsTypeOK
    <3> QED BY <2>1, <3>1 DEF Turns, InTurn, HolderIsFirst, InLock, AskedForRobots, SameLock
  <2>2. CASE (\E t : GoTo(p, t)) /\ Release(p)
    BY <2>2, GoingTo, Releasing, LeavingKeepsTurns
  <2> QED BY <1>6, <2>1, <2>2 DEF LookAgain
<1>7. ASSUME NEW p \in Fetcher, RobotsArrive(p) PROVE Turns'
  <2>1. (\E t : GoTo(p, t)) /\ Release(p)
    BY <1>7 DEF RobotsArrive
  <2> QED BY <2>1, GoingTo, Releasing, LeavingKeepsTurns
<1>8. ASSUME NEW p \in Fetcher, AskPublisher(p) \/ AskReader(p) PROVE Turns'
  <2>1. /\ tier[p] \in {"publisher", "bare", "reader"} /\ UNCHANGED tier /\ Release(p)
        /\ stage' = [stage EXCEPT ![p] = "asked"]
    BY <1>8 DEF AskPublisher, AskReader
  <2>2. stage'[p] = "asked" /\ \A q \in Fetcher \ {p} : stage'[q] = stage[q]
    BY <2>1 DEF OutletsTypeOK
  <2>3. ~InLock(p)'
    BY <2>1, <2>2 DEF InLock, AskedForRobots
  <2> QED BY <2>1, <2>2, <2>3, Releasing, LeavingKeepsTurns
<1>9. ASSUME NEW p \in Fetcher, PublisherAnswers(p) \/ TierAnswers(p) PROVE Turns'
  <2>1. (\E t : GoTo(p, t)) /\ UNCHANGED ahead
    BY <1>9 DEF PublisherAnswers, TierAnswers, TryNext
  <2> QED BY <2>1, GoingTo, LeavingKeepsTurns
<1>10. CASE UNCHANGED outletsVars
  BY <1>10 DEF outletsVars, Turns, InTurn, HolderIsFirst, InLock, AskedForRobots, SameLock
<1> QED
  BY <1>1, <1>2, <1>3, <1>4, <1>5, <1>6, <1>7, <1>8, <1>9, <1>10 DEF OutletsNext, FetchStep

-----------------------------------------------------------------------------
\* A pause is no longer than the longest interval.
LEMMA PausesAreBounded ==
    ASSUME OutletsTypeOK, NEW t
    PROVE  /\ Interval \in 0..Longest
           /\ PauseFor(t) \in 0..Longest
           /\ LockOf(t) = "host" => sinceHost + PauseFor(t) >= Interval
<1>1. Interval \in 0..Longest
  BY OutletsAssumption, LongestIsLongest DEF Interval, LongerOf
<1>2. sinceHost \in 0..Longest /\ sinceReader \in 0..Longest /\ Longest \in Nat
      /\ ReaderInterval \in 0..Longest
  BY OutletsAssumption, LongestIsLongest DEF OutletsTypeOK
<1>3. LongerOf(0, Interval - sinceHost) \in 0..Longest /\ sinceHost + LongerOf(0, Interval - sinceHost) >= Interval
  BY <1>1, <1>2 DEF LongerOf
<1>4. LongerOf(0, ReaderInterval - sinceReader) \in 0..Longest
  BY <1>2 DEF LongerOf
<1>5. CASE LockOf(t) = "host"
  <2>1. PauseFor(t) = LongerOf(0, Interval - sinceHost)
    BY <1>5 DEF PauseFor, LockOf
  <2> QED BY <1>1, <1>3, <1>5, <2>1
<1>6. CASE LockOf(t) # "host" /\ t = "reader"
  BY <1>1, <1>4, <1>6 DEF PauseFor
<1>7. CASE LockOf(t) # "host" /\ t # "reader"
  BY <1>1, <1>2, <1>7 DEF PauseFor
<1> QED BY <1>5, <1>6, <1>7

\* The tiers a refusal leads to.
LEMMA TiersBehind ==
    ASSUME NEW kind
    PROVE  \A rest \in {Behind(kind), <<"reader", "local">>} :
             Head(rest) \in Tier /\ Tail(rest) \in Seq(Tier)
<1>1. \A rest \in Seq(Tier) : rest # <<>> => Head(rest) \in Tier /\ Tail(rest) \in Seq(Tier)
  OBVIOUS
<1>2. <<"reader", "local">> \in Seq(Tier) /\ <<"reader", "local">> # <<>>
  BY DEF Tier
<1>3. /\ <<"bare", "reader", "reader", "local", "local">> \in Seq(Tier)
      /\ <<"bare", "reader", "reader", "local", "local">> # <<>>
  BY DEF Tier
<1>4. Behind(kind) \in Seq(Tier) /\ Behind(kind) # <<>>
  BY <1>2, <1>3 DEF Behind
<1> QED BY <1>1, <1>2, <1>4

\* The locks, the queues and the clocks keep their types under every step.
LEMMA OutletsTypesAreKept ==
    ASSUME OutletsTypeOK, [OutletsNext]_outletsVars PROVE OutletsTypeOK'
<1> USE OutletsAssumption DEF readerLock, timing
<1>1. CASE OutletsTick
  <2>1. sinceHost' \in 0..Longest /\ sinceReader' \in 0..Longest
    BY <1>1, LongestIsLongest DEF OutletsTick, OutletsTypeOK
  <2>2. \A p \in Fetcher : LongerOf(0, pause[p] - 1) \in 0..Longest
    BY LongestIsLongest DEF LongerOf, OutletsTypeOK
  <2>3. pause' \in [Fetcher -> 0..Longest]
    BY <1>1, <2>2 DEF OutletsTick
  <2> QED BY <1>1, <2>1, <2>3 DEF OutletsTick, OutletsTypeOK
<1>2. ASSUME NEW p \in Fetcher, BeginFetch(p) PROVE OutletsTypeOK'
  <2>1. \E t \in Tier \cup {"out", "robots"} : GoTo(p, t)
    BY <1>2 DEF BeginFetch, Tier
  <2> QED BY <1>2, <2>1, GoingTo DEF BeginFetch, OutletsTypeOK
<1>3. ASSUME NEW p \in Fetcher, QueueForLasting(p) PROVE OutletsTypeOK'
  <2>1. UNCHANGED <<loopOf, pause, robots, downloads, readerLoop, onReader, sinceHost, wasSlow, sinceReader>>
    BY <1>3 DEF QueueForLasting
  <2>2. CASE (TryNext(p) \/ (GoTo(p, "out") /\ UNCHANGED fallbacks)) /\ UNCHANGED <<ahead, bound>>
    <3>1. /\ \E t \in Tier \cup {"out", "robots"} : GoTo(p, t)
          /\ fallbacks' \in [Fetcher -> Seq(Tier)]
      BY <2>2, NextTier DEF OutletsTypeOK
    <3> QED BY <2>1, <2>2, <3>1, GoingTo DEF OutletsTypeOK
  <2>3. CASE /\ stage' = [stage EXCEPT ![p] = "queued"]
             /\ ahead' = [ahead EXCEPT ![p] = AtLock(tier[p])]
             /\ bound' = bound \/ bound' = [bound EXCEPT ![LockOf(tier[p])] = loopOf[p]]
             /\ UNCHANGED <<tier, fallbacks>>
    <3>1. ahead' \in [Fetcher -> SUBSET Fetcher]
      BY <2>3 DEF OutletsTypeOK, AtLock
    <3>2. loopOf[p] \in EventLoop
      BY DEF OutletsTypeOK
    <3>3. bound' \in [{"robots", "host"} -> EventLoop \cup {"none"}]
      BY <2>3, <3>2 DEF OutletsTypeOK
    <3>4. stage' \in [Fetcher -> {"idle", "coming", "queued", "holding", "asked"}]
      BY <2>3 DEF OutletsTypeOK
    <3> QED BY <2>1, <2>3, <3>1, <3>3, <3>4 DEF OutletsTypeOK
  <2> QED BY <1>3, <2>2, <2>3 DEF QueueForLasting
<1>4. ASSUME NEW p \in Fetcher, QueueForReader(p) PROVE OutletsTypeOK'
  <2>1. ReaderQueue(p) \subseteq Fetcher /\ loopOf[p] \in EventLoop
    BY DEF ReaderQueue, OutletsTypeOK
  <2> QED BY <1>4, <2>1 DEF QueueForReader, OutletsTypeOK
<1>5. ASSUME NEW p \in Fetcher, TakeLock(p) PROVE OutletsTypeOK'
  BY <1>5, PausesAreBounded DEF TakeLock, OutletsTypeOK
<1>6. ASSUME NEW p \in Fetcher, LookAgain(p) PROVE OutletsTypeOK'
  <2>1. CASE StillUnread
    <3>1. stage' = [stage EXCEPT ![p] = "asked"] /\ downloads' = downloads + 1 /\ UNCHANGED <<tier, ahead>>
      BY <1>6, <2>1 DEF LookAgain
    <3>2. UNCHANGED <<loopOf, pause, fallbacks, robots, bound, readerLock, timing>>
      BY <1>6 DEF LookAgain
    <3> QED BY <3>1, <3>2 DEF OutletsTypeOK
  <2>2. CASE ~StillUnread
    <3>1. \E t \in Tier \cup {"out", "robots"} : GoTo(p, t)
      BY <1>6, <2>2 DEF LookAgain, Tier
    <3> QED BY <1>6, <2>2, <3>1, GoingTo, Releasing DEF LookAgain, OutletsTypeOK
  <2> QED BY <2>1, <2>2
<1>7. ASSUME NEW p \in Fetcher, RobotsArrive(p) PROVE OutletsTypeOK'
  <2>1. \E t \in Tier \cup {"out", "robots"} : GoTo(p, t)
    BY <1>7 DEF RobotsArrive, Tier
  <2> QED BY <1>7, <2>1, GoingTo, Releasing DEF RobotsArrive, OutletsTypeOK
<1>8. ASSUME NEW p \in Fetcher, AskPublisher(p) PROVE OutletsTypeOK'
  BY <1>8, Releasing, LongestIsLongest DEF AskPublisher, OutletsTypeOK
<1>9. ASSUME NEW p \in Fetcher, AskReader(p) PROVE OutletsTypeOK'
  BY <1>9, Releasing, LongestIsLongest DEF AskReader, OutletsTypeOK
<1>10. ASSUME NEW p \in Fetcher, PublisherAnswers(p) PROVE OutletsTypeOK'
  <2>1. /\ \E t \in Tier \cup {"out", "robots"} : GoTo(p, t)
        /\ fallbacks' \in [Fetcher -> Seq(Tier)]
    <3>1. CASE GoTo(p, "out") /\ UNCHANGED fallbacks
      BY <3>1 DEF OutletsTypeOK
    <3>2. ASSUME NEW rest \in {Behind(KindOf[p]), <<"reader", "local">>}, GoTo(p, Head(rest)),
                 fallbacks' = [fallbacks EXCEPT ![p] = Tail(rest)]
          PROVE  /\ \E t \in Tier \cup {"out", "robots"} : GoTo(p, t)
                 /\ fallbacks' \in [Fetcher -> Seq(Tier)]
      <4>1. Head(rest) \in Tier /\ Tail(rest) \in Seq(Tier)
        BY TiersBehind
      <4> QED BY <3>2, <4>1 DEF OutletsTypeOK
    <3> QED BY <1>10, <3>1, <3>2 DEF PublisherAnswers
  <2> QED BY <1>10, <2>1, GoingTo DEF PublisherAnswers, OutletsTypeOK
<1>11. ASSUME NEW p \in Fetcher, TierAnswers(p) PROVE OutletsTypeOK'
  <2>1. <<>> \in Seq(Tier)
    OBVIOUS
  <2>2. CASE GoTo(p, "out") /\ fallbacks' = [fallbacks EXCEPT ![p] = <<>>]
    BY <1>11, <2>1, <2>2, GoingTo DEF TierAnswers, OutletsTypeOK
  <2>3. CASE TryNext(p)
    <3>1. /\ \E t \in Tier \cup {"out", "robots"} : GoTo(p, t)
          /\ fallbacks' \in [Fetcher -> Seq(Tier)]
      BY <2>3, NextTier
    <3> QED BY <1>11, <3>1, GoingTo DEF TierAnswers, OutletsTypeOK
  <2> QED BY <1>11, <2>2, <2>3 DEF TierAnswers
<1>12. CASE UNCHANGED outletsVars
  BY <1>12 DEF outletsVars, OutletsTypeOK
<1> QED
  BY <1>1, <1>2, <1>3, <1>4, <1>5, <1>6, <1>7, <1>8, <1>9, <1>10, <1>11, <1>12 DEF OutletsNext, FetchStep

-----------------------------------------------------------------------------
\* No two polls hold one lasting lock.
LEMMA OneHolder ==
    ASSUME Turns, NEW p \in Fetcher, NEW q \in Fetcher, p # q, SameLock(p, q),
           stage[p] = "holding" \/ AskedForRobots(p),
           stage[q] = "holding" \/ AskedForRobots(q)
    PROVE  FALSE
<1>1. InLock(p) /\ InLock(q)
  BY DEF InLock
<1>2. ahead[p] = {} /\ ahead[q] = {}
  BY DEF Turns, HolderIsFirst
<1> QED BY <1>1, <1>2 DEF Turns, InTurn

\* Whoever holds the lock of robots.txt, nobody else is asking for it.
LEMMA NobodyElseAsks ==
    ASSUME Turns, NEW p \in Fetcher, tier[p] = "robots", stage[p] \in {"holding", "asked"},
           NEW q \in Fetcher, q # p
    PROVE  ~AskedForRobots(q)
<1> SUFFICES ASSUME AskedForRobots(q) PROVE FALSE
  OBVIOUS
<1>1. SameLock(p, q)
  BY DEF SameLock, LockOf, AskedForRobots
<1>2. stage[p] = "holding" \/ AskedForRobots(p)
  BY DEF AskedForRobots
<1> QED BY <1>1, <1>2, OneHolder

\* All steps but two leave robots.txt alone, and who is asking for it.
LEMMA RobotsLeftAlone ==
    ASSUME OutletsTypeOK, [OutletsNext]_outletsVars,
           ~\E p \in Fetcher : (LookAgain(p) /\ StillUnread) \/ RobotsArrive(p)
    PROVE  /\ UNCHANGED <<robots, downloads>>
           /\ \A q \in Fetcher : AskedForRobots(q)' <=> AskedForRobots(q)
<1> DEFINE Alone == /\ UNCHANGED <<robots, downloads>>
                    /\ \A q \in Fetcher : AskedForRobots(q)' <=> AskedForRobots(q)
<1>1. CASE OutletsTick \/ UNCHANGED outletsVars
  BY <1>1 DEF OutletsTick, outletsVars, AskedForRobots
<1>2. ASSUME NEW p \in Fetcher, ~AskedForRobots(p), \E t : GoTo(p, t), UNCHANGED <<robots, downloads>>
      PROVE  Alone
  <2>1. ~InLock(p)' /\ \A q \in Fetcher \ {p} : tier'[q] = tier[q] /\ stage'[q] = stage[q]
    BY <1>2, GoingTo
  <2> QED BY <1>2, <2>1 DEF InLock, AskedForRobots
<1>3. ASSUME NEW p \in Fetcher, BeginFetch(p) PROVE Alone
  BY <1>2, <1>3 DEF BeginFetch, AskedForRobots
<1>4. ASSUME NEW p \in Fetcher, QueueForLasting(p) PROVE Alone
  <2>1. stage[p] = "coming" /\ UNCHANGED <<robots, downloads>>
    BY <1>4 DEF QueueForLasting
  <2>2. CASE TryNext(p) \/ GoTo(p, "out")
    BY <1>2, <2>1, <2>2 DEF TryNext, AskedForRobots
  <2>3. CASE stage' = [stage EXCEPT ![p] = "queued"] /\ UNCHANGED tier
    <3>1. stage'[p] = "queued" /\ \A q \in Fetcher \ {p} : stage'[q] = stage[q]
      BY <2>3 DEF OutletsTypeOK
    <3> QED BY <2>1, <2>3, <3>1 DEF AskedForRobots
  <2> QED BY <1>4, <2>2, <2>3 DEF QueueForLasting
<1>5. ASSUME NEW p \in Fetcher, QueueForReader(p) \/ TakeLock(p) PROVE Alone
  <2>1. /\ UNCHANGED <<tier, robots, downloads>> /\ stage[p] # "asked" /\ stage'[p] # "asked"
        /\ \A q \in Fetcher \ {p} : stage'[q] = stage[q]
    BY <1>5 DEF QueueForReader, TakeLock, OutletsTypeOK
  <2> QED BY <2>1 DEF AskedForRobots
<1>6. ASSUME NEW p \in Fetcher, LookAgain(p) PROVE Alone
  <2>1. ~StillUnread
    BY <1>6
  <2>2. ~AskedForRobots(p) /\ (\E t : GoTo(p, t)) /\ UNCHANGED <<robots, downloads>>
    BY <1>6, <2>1 DEF LookAgain, AskedForRobots
  <2> QED BY <1>2, <2>2
<1>7. ASSUME NEW p \in Fetcher, AskPublisher(p) \/ AskReader(p) PROVE Alone
  <2>1. /\ UNCHANGED <<tier, robots, downloads>> /\ tier[p] # "robots"
        /\ \A q \in Fetcher \ {p} : stage'[q] = stage[q]
    BY <1>7 DEF AskPublisher, AskReader, OutletsTypeOK
  <2> QED BY <2>1 DEF AskedForRobots
<1>8. ASSUME NEW p \in Fetcher, PublisherAnswers(p) \/ TierAnswers(p) PROVE Alone
  <2>1. ~AskedForRobots(p) /\ (\E t : GoTo(p, t)) /\ UNCHANGED <<robots, downloads>>
    BY <1>8 DEF PublisherAnswers, TierAnswers, TryNext, AskedForRobots
  <2> QED BY <1>2, <2>1
<1> QED
  BY <1>1, <1>3, <1>4, <1>5, <1>6, <1>7, <1>8 DEF OutletsNext, FetchStep

\* It is asked for by one poll, while it is unread.
LEMMA RobotsAreKept ==
    ASSUME OutletsTypeOK, Turns, AskedWhileUnread, OnceSoFar, [OutletsNext]_outletsVars
    PROVE  AskedWhileUnread' /\ OnceSoFar'
<1>1. ASSUME NEW p \in Fetcher, LookAgain(p), StillUnread PROVE AskedWhileUnread' /\ OnceSoFar'
  <2>1. /\ robots = "unread" /\ robots' = robots /\ downloads' = downloads + 1
        /\ tier[p] = "robots" /\ stage[p] = "holding" /\ tier' = tier /\ stage'[p] = "asked"
    BY <1>1 DEF LookAgain, StillUnread, OutletsTypeOK
  <2>2. \A q \in Fetcher : ~AskedForRobots(q)
    BY <2>1, NobodyElseAsks DEF AskedForRobots
  <2>3. downloads = 0 /\ AskedForRobots(p)'
    BY <2>1, <2>2 DEF OnceSoFar, AskedForRobots
  <2> QED BY <2>1, <2>3 DEF AskedWhileUnread, OnceSoFar
<1>2. ASSUME NEW p \in Fetcher, RobotsArrive(p) PROVE AskedWhileUnread' /\ OnceSoFar'
  <2>1. /\ robots' # "unread" /\ downloads' = downloads
        /\ tier[p] = "robots" /\ stage[p] = "asked" /\ \E t : GoTo(p, t)
    BY <1>2 DEF RobotsArrive
  <2>2. ~AskedForRobots(p)'
    BY <2>1, GoingTo DEF InLock
  <2>3. \A q \in Fetcher \ {p} : ~AskedForRobots(q)'
    BY <2>1, NobodyElseAsks, GoingTo DEF AskedForRobots
  <2> QED BY <2>1, <2>2, <2>3 DEF AskedWhileUnread, OnceSoFar
<1>3. CASE ~\E p \in Fetcher : (LookAgain(p) /\ StillUnread) \/ RobotsArrive(p)
  BY <1>3, RobotsLeftAlone DEF AskedWhileUnread, OnceSoFar
<1> QED BY <1>1, <1>2, <1>3

-----------------------------------------------------------------------------
HoldsHost(p) == LockOf(tier[p]) = "host" /\ stage[p] = "holding"

\* A step that starts no pause leaves the ones at the host's budget alone.
LEMMA HostLeftAlone ==
    ASSUME HolderWaits, UNCHANGED <<sinceHost, wasSlow, pause>>,
           \A q \in Fetcher : HoldsHost(q)' => HoldsHost(q)
    PROVE  HolderWaits'
  BY DEF HolderWaits, HoldsHost

\* So does a step that sends its poll somewhere.
LEMMA HostLeftByGoing ==
    ASSUME OutletsTypeOK, HolderWaits, NEW p \in Fetcher, \E t : GoTo(p, t), UNCHANGED <<sinceHost, wasSlow, pause>>
    PROVE  HolderWaits'
<1>1. ~InLock(p)' /\ \A q \in Fetcher \ {p} : tier'[q] = tier[q] /\ stage'[q] = stage[q]
  BY GoingTo
<1>2. \A q \in Fetcher : HoldsHost(q)' => HoldsHost(q)
  BY <1>1 DEF InLock, HoldsHost
<1> QED BY <1>2, HostLeftAlone

\* Time takes from the pause what it adds to the distance.
LEMMA HostTicks ==
    ASSUME OutletsTypeOK, HolderWaits, OutletsTick PROVE HolderWaits'
<1> SUFFICES ASSUME NEW p \in Fetcher, LockOf(tier[p])' = "host", stage'[p] = "holding"
             PROVE  (sinceHost + pause[p])' >= RowInterval /\ (wasSlow' => (sinceHost + pause[p])' >= CrawlDelay)
  BY DEF HolderWaits
<1>1. /\ sinceHost + pause[p] >= RowInterval
      /\ wasSlow => sinceHost + pause[p] >= CrawlDelay
  BY DEF OutletsTick, HolderWaits
<1>2. /\ sinceHost' = IF sinceHost < Longest THEN sinceHost + 1 ELSE sinceHost
      /\ pause'[p] = LongerOf(0, pause[p] - 1)
      /\ wasSlow' = wasSlow
  BY DEF OutletsTick
<1>3. sinceHost \in 0..Longest /\ pause[p] \in 0..Longest
  BY DEF OutletsTypeOK
<1>4. CASE sinceHost < Longest
  <2>1. (sinceHost + pause[p])' >= sinceHost + pause[p]
    BY <1>2, <1>3, <1>4, LongestIsLongest DEF LongerOf
  <2> QED BY <1>1, <1>2, <1>3, <1>4, <2>1, LongestIsLongest, OutletsAssumption DEF LongerOf
<1>5. CASE sinceHost = Longest
  BY <1>2, <1>3, <1>5, LongestIsLongest, OutletsAssumption DEF LongerOf
<1> QED BY <1>3, <1>4, <1>5, LongestIsLongest

\* Whoever takes the lock sleeps for what is missing.
LEMMA HostTaken ==
    ASSUME OutletsTypeOK, SlowIsKnown, HolderWaits, NEW p \in Fetcher, TakeLock(p) PROVE HolderWaits'
<1>1. /\ UNCHANGED <<tier, sinceHost, wasSlow, robots>>
      /\ pause'[p] = PauseFor(tier[p])
      /\ \A q \in Fetcher \ {p} : stage'[q] = stage[q] /\ pause'[q] = pause[q]
  BY DEF TakeLock, timing, OutletsTypeOK
<1>2. ASSUME LockOf(tier[p]) = "host"
      PROVE  /\ sinceHost + pause'[p] >= RowInterval
             /\ wasSlow => sinceHost + pause'[p] >= CrawlDelay
  <2>1. sinceHost + PauseFor(tier[p]) >= Interval /\ Interval \in 0..Longest /\ PauseFor(tier[p]) \in 0..Longest
    BY <1>2, PausesAreBounded
  <2>2. Interval >= RowInterval /\ (wasSlow => Interval >= CrawlDelay)
    BY OutletsAssumption DEF Interval, LongerOf, SlowIsKnown
  <2> QED BY <1>1, <2>1, <2>2, LongestIsLongest, OutletsAssumption DEF OutletsTypeOK
<1> QED BY <1>1, <1>2 DEF HolderWaits

\* The distance is what the holder has waited for and still waits for.
LEMMA HostIsKept ==
    ASSUME OutletsTypeOK, Turns, AskedWhileUnread, SlowIsKnown, HolderWaits, [OutletsNext]_outletsVars
    PROVE  SlowIsKnown' /\ HolderWaits'
<1>1. CASE OutletsTick
  BY <1>1, HostTicks DEF OutletsTick, SlowIsKnown
<1>2. ASSUME NEW p \in Fetcher, BeginFetch(p) PROVE SlowIsKnown' /\ HolderWaits'
  <2>1. (\E t : GoTo(p, t)) /\ UNCHANGED <<sinceHost, wasSlow, pause, robots>>
    BY <1>2 DEF BeginFetch, timing
  <2> QED BY <2>1, HostLeftByGoing DEF SlowIsKnown
<1>3. ASSUME NEW p \in Fetcher, QueueForLasting(p) PROVE SlowIsKnown' /\ HolderWaits'
  <2>1. UNCHANGED <<sinceHost, wasSlow, pause, robots>>
    BY <1>3 DEF QueueForLasting, timing
  <2>2. CASE TryNext(p) \/ GoTo(p, "out")
    BY <2>1, <2>2, HostLeftByGoing DEF SlowIsKnown, TryNext
  <2>3. CASE stage' = [stage EXCEPT ![p] = "queued"] /\ UNCHANGED tier
    <3>1. \A q \in Fetcher : HoldsHost(q)' => HoldsHost(q)
      BY <2>3 DEF HoldsHost, OutletsTypeOK
    <3> QED BY <2>1, <3>1, HostLeftAlone DEF SlowIsKnown
  <2> QED BY <1>3, <2>2, <2>3 DEF QueueForLasting
<1>4. ASSUME NEW p \in Fetcher, QueueForReader(p) PROVE SlowIsKnown' /\ HolderWaits'
  <2>1. UNCHANGED <<sinceHost, wasSlow, pause, robots>> /\ \A q \in Fetcher : HoldsHost(q)' => HoldsHost(q)
    BY <1>4 DEF QueueForReader, timing, HoldsHost, OutletsTypeOK
  <2> QED BY <2>1, HostLeftAlone DEF SlowIsKnown
<1>5. ASSUME NEW p \in Fetcher, TakeLock(p) PROVE SlowIsKnown' /\ HolderWaits'
  BY <1>5, HostTaken DEF TakeLock, timing, SlowIsKnown
<1>6. ASSUME NEW p \in Fetcher, LookAgain(p) PROVE SlowIsKnown' /\ HolderWaits'
  <2>1. UNCHANGED <<sinceHost, wasSlow, pause, robots>> /\ tier[p] = "robots"
    BY <1>6 DEF LookAgain, timing
  <2>2. CASE \E t : GoTo(p, t)
    BY <2>1, <2>2, HostLeftByGoing DEF SlowIsKnown
  <2>3. CASE stage' = [stage EXCEPT ![p] = "asked"] /\ UNCHANGED tier
    <3>1. \A q \in Fetcher : HoldsHost(q)' => HoldsHost(q)
      BY <2>3 DEF HoldsHost, OutletsTypeOK
    <3> QED BY <2>1, <3>1, HostLeftAlone DEF SlowIsKnown
  <2> QED BY <1>6, <2>2, <2>3 DEF LookAgain
<1>7. ASSUME NEW p \in Fetcher, RobotsArrive(p) PROVE SlowIsKnown' /\ HolderWaits'
  <2>1. (\E t : GoTo(p, t)) /\ UNCHANGED <<sinceHost, wasSlow, pause>> /\ AskedForRobots(p)
    BY <1>7 DEF RobotsArrive, timing, AskedForRobots
  <2>2. robots = "unread"
    BY <2>1 DEF AskedWhileUnread
  <2> QED BY <2>1, <2>2, HostLeftByGoing DEF SlowIsKnown
<1>8. ASSUME NEW p \in Fetcher, AskPublisher(p) PROVE SlowIsKnown' /\ HolderWaits'
  <2>1. /\ HoldsHost(p) /\ tier' = tier /\ robots' = robots /\ wasSlow' = (robots = "slow")
        /\ stage'[p] = "asked" /\ \A q \in Fetcher \ {p} : stage'[q] = stage[q]
    BY <1>8 DEF AskPublisher, HoldsHost, LockOf, OutletsTypeOK
  <2>2. \A q \in Fetcher \ {p} : ~HoldsHost(q)
    BY <2>1, OneHolder DEF HoldsHost, SameLock
  <2>3. \A q \in Fetcher : ~HoldsHost(q)'
    BY <2>1, <2>2 DEF HoldsHost
  <2> QED BY <2>1, <2>3 DEF SlowIsKnown, HolderWaits, HoldsHost
<1>9. ASSUME NEW p \in Fetcher, AskReader(p) PROVE SlowIsKnown' /\ HolderWaits'
  <2>1. UNCHANGED <<sinceHost, wasSlow, pause, robots>> /\ \A q \in Fetcher : HoldsHost(q)' => HoldsHost(q)
    BY <1>9 DEF AskReader, HoldsHost, OutletsTypeOK
  <2> QED BY <2>1, HostLeftAlone DEF SlowIsKnown
<1>10. ASSUME NEW p \in Fetcher, PublisherAnswers(p) \/ TierAnswers(p) PROVE SlowIsKnown' /\ HolderWaits'
  <2>1. (\E t : GoTo(p, t)) /\ UNCHANGED <<sinceHost, wasSlow, pause, robots>>
    BY <1>10 DEF PublisherAnswers, TierAnswers, TryNext, timing
  <2> QED BY <2>1, HostLeftByGoing DEF SlowIsKnown
<1>11. CASE UNCHANGED outletsVars
  BY <1>11 DEF outletsVars, SlowIsKnown, HolderWaits
<1> QED
  BY <1>1, <1>2, <1>3, <1>4, <1>5, <1>6, <1>7, <1>8, <1>9, <1>10, <1>11 DEF OutletsNext, FetchStep

-----------------------------------------------------------------------------
\* The parts hold at the start.
LEMMA OutletsStart == OutletsInit => OutletsInv
<1> SUFFICES ASSUME OutletsInit PROVE OutletsInv
  OBVIOUS
<1> USE DEF OutletsInit
<1>1. \A p \in Fetcher : ~InLock(p) /\ stage[p] = "idle" /\ ~AskedForRobots(p)
  BY DEF InLock, AskedForRobots
<1>2. OutletsTypeOK
  <2>1. <<>> \in Seq(Tier)
    OBVIOUS
  <2>2. fallbacks \in [Fetcher -> Seq(Tier)] /\ loopOf \in LoopsOf
    BY <2>1
  <2>3. pause \in [Fetcher -> 0..Longest] /\ sinceHost \in 0..Longest /\ sinceReader \in 0..Longest
    BY LongestIsLongest
  <2>4. ahead \in [Fetcher -> SUBSET Fetcher] /\ bound \in [{"robots", "host"} -> EventLoop \cup {"none"}]
    OBVIOUS
  <2> QED BY <2>2, <2>3, <2>4 DEF OutletsTypeOK
<1>3. Turns /\ AskedWhileUnread /\ OnceSoFar /\ SlowIsKnown /\ HolderWaits
  BY <1>1 DEF Turns, InTurn, HolderIsFirst, AskedWhileUnread, OnceSoFar, SlowIsKnown, HolderWaits
<1> QED BY <1>2, <1>3 DEF OutletsInv

\* Together they are inductive.
LEMMA OutletsInvStep == OutletsInv /\ [OutletsNext]_outletsVars => OutletsInv'
  BY OutletsTypesAreKept, TurnsAreKept, RobotsAreKept, HostIsKept DEF OutletsInv

\* So they hold all along.
LEMMA OutletsInvariant == OutletsSpec => []OutletsInv
  BY OutletsStart, OutletsInvStep, PTL DEF OutletsSpec

\* For any polls, loops and intervals, the locks, the queues and the clocks of
\* base.py and reader_proxy.py are of their types.
THEOREM OutletsTypeCorrect == OutletsSpec => []OutletsTypeOK
<1>1. OutletsInv => OutletsTypeOK
  BY DEF OutletsInv
<1> QED BY <1>1, OutletsInvariant, PTL

\* However many polls of a host meet, on however many event loops, and though
\* some fail at the lock, RobotsChecker asks for its robots.txt at most once.
THEOREM RobotsAreAskedOnce == OutletsSpec => []RobotsAskedOnce
<1>1. OutletsInv => RobotsAskedOnce
  BY DEF OutletsInv, OnceSoFar, RobotsAskedOnce
<1> QED BY <1>1, OutletsInvariant, PTL

\* Whoever asks the publisher has waited for the distance.
LEMMA HolderHasWaited ==
    ASSUME OutletsInv, NEW p \in Fetcher, AskPublisher(p)
    PROVE  sinceHost >= RowInterval /\ (wasSlow => sinceHost >= CrawlDelay)
<1>1. LockOf(tier[p]) = "host" /\ stage[p] = "holding" /\ pause[p] = 0
  BY DEF AskPublisher, LockOf
<1>2. sinceHost + pause[p] >= RowInterval /\ (wasSlow => sinceHost + pause[p] >= CrawlDelay)
  BY <1>1 DEF OutletsInv, HolderWaits
<1> QED BY <1>1, <1>2, LongestIsLongest DEF OutletsInv, OutletsTypeOK

\* Two requests that go through RateLimiter are never closer than the row's
\* interval, nor than a crawl delay that was known at the first of them.
THEOREM HostStaysPaced == OutletsSpec => HostIsPaced
<1> DEFINE Paced == \A p \in Fetcher :
                      AskPublisher(p) => /\ sinceHost >= RowInterval
                                         /\ wasSlow => sinceHost >= CrawlDelay
<1>1. OutletsInv => [Paced]_outletsVars
  BY HolderHasWaited
<1> QED BY <1>1, OutletsInvariant, PTL DEF HostIsPaced

-----------------------------------------------------------------------------
\* The reader's lock excludes only as long as no second loop replaces it.
AllOnOneLoop == \A p, q \in Fetcher : loopOf[p] = loopOf[q]

AtReader(p) == tier[p] = "reader" /\ stage[p] \in {"queued", "holding"}

\* On one loop whoever is at the reader's lock is at the lock there is now, and of
\* two polls at it one is behind the other.
ReaderInTurn ==
    AllOnOneLoop =>
      /\ \A p \in Fetcher : AtReader(p) => p \in onReader /\ readerLoop = loopOf[p]
      /\ \A p, q \in Fetcher :
           p # q /\ AtReader(p) /\ AtReader(q) => p \in ahead[q] \/ q \in ahead[p]

\* What has passed since the reader was asked and what the holder still sleeps for
\* add up to the reader's interval.
ReaderWaits ==
    AllOnOneLoop =>
      \A p \in Fetcher :
        tier[p] = "reader" /\ stage[p] = "holding" => sinceReader + pause[p] >= ReaderInterval

ReaderInv == OutletsInv /\ ReaderInTurn /\ ReaderWaits

\* No poll changes its loop.
LEMMA LoopsStay ==
    ASSUME [OutletsNext]_outletsVars PROVE UNCHANGED loopOf
  BY DEF OutletsNext, OutletsTick, FetchStep, BeginFetch, QueueForLasting, QueueForReader,
         TakeLock, LookAgain, RobotsArrive, AskPublisher, AskReader, PublisherAnswers,
         TierAnswers, outletsVars

\* A poll that ends up outside the reader's lock leaves the others in their turn.
LEMMA LeavingTheReader ==
    ASSUME ReaderInTurn, UNCHANGED <<loopOf, readerLoop>>, NEW p \in Fetcher, ~AtReader(p)',
           onReader \ {p} \subseteq onReader',
           \A q \in Fetcher \ {p} :
             tier'[q] = tier[q] /\ stage'[q] = stage[q] /\ ahead[q] \ {p} \subseteq ahead'[q]
    PROVE  ReaderInTurn'
<1> SUFFICES ASSUME AllOnOneLoop'
             PROVE  /\ \A q \in Fetcher : AtReader(q)' => (q \in onReader /\ readerLoop = loopOf[q])'
                    /\ \A q, r \in Fetcher :
                         q # r /\ AtReader(q)' /\ AtReader(r)' => (q \in ahead[r] \/ r \in ahead[q])'
  BY DEF ReaderInTurn
<1>1. AllOnOneLoop
  BY DEF AllOnOneLoop
<1>2. \A q \in Fetcher : AtReader(q)' => q # p /\ AtReader(q)
  BY DEF AtReader
<1>3. \A q \in Fetcher : AtReader(q)' => q \in onReader' /\ readerLoop' = loopOf'[q]
  BY <1>1, <1>2 DEF ReaderInTurn
<1>4. \A q, r \in Fetcher :
        q # r /\ AtReader(q)' /\ AtReader(r)' => q \in ahead'[r] \/ r \in ahead'[q]
  BY <1>1, <1>2 DEF ReaderInTurn
<1> QED BY <1>3, <1>4

\* A step that sends its poll somewhere takes it out of the reader's lock at most.
LEMMA GoingFromTheReader ==
    ASSUME OutletsTypeOK, ReaderInTurn, UNCHANGED <<loopOf, readerLoop, onReader>>,
           NEW p \in Fetcher, \E t : GoTo(p, t), UNCHANGED ahead \/ Release(p)
    PROVE  ReaderInTurn'
<1>1. ~InLock(p)' /\ \A q \in Fetcher \ {p} : tier'[q] = tier[q] /\ stage'[q] = stage[q]
  BY GoingTo
<1>2. ~AtReader(p)'
  BY <1>1 DEF InLock, AtReader
<1>3. \A q \in Fetcher \ {p} : ahead[q] \ {p} \subseteq ahead'[q]
  BY Releasing
<1> QED BY <1>1, <1>2, <1>3, LeavingTheReader

\* A poll that comes to the reader's lock queues behind all who are at it.
LEMMA QueueingForTheReader ==
    ASSUME OutletsTypeOK, ReaderInTurn, NEW p \in Fetcher, QueueForReader(p) PROVE ReaderInTurn'
<1> SUFFICES ASSUME AllOnOneLoop'
             PROVE  /\ \A q \in Fetcher : AtReader(q)' => (q \in onReader /\ readerLoop = loopOf[q])'
                    /\ \A q, r \in Fetcher :
                         q # r /\ AtReader(q)' /\ AtReader(r)' => (q \in ahead[r] \/ r \in ahead[q])'
  BY DEF ReaderInTurn
<1>1. /\ UNCHANGED <<loopOf, tier>> /\ readerLoop' = loopOf[p] /\ onReader' = ReaderQueue(p) \cup {p}
      /\ ahead'[p] = ReaderQueue(p)
      /\ \A q \in Fetcher \ {p} : stage'[q] = stage[q] /\ ahead'[q] = ahead[q]
  BY DEF QueueForReader, OutletsTypeOK
<1>2. AllOnOneLoop
  BY <1>1 DEF AllOnOneLoop
<1>3. \A q \in Fetcher \ {p} : AtReader(q)' => AtReader(q)
  BY <1>1 DEF AtReader
<1>4. \A q \in Fetcher \ {p} : AtReader(q) => q \in ReaderQueue(p)
  BY <1>2 DEF ReaderInTurn, AllOnOneLoop, ReaderQueue
<1>5. \A q \in Fetcher : AtReader(q)' => q \in onReader' /\ readerLoop' = loopOf'[q]
  BY <1>1, <1>2, <1>3, <1>4 DEF AllOnOneLoop
<1>6. ASSUME NEW q \in Fetcher, NEW r \in Fetcher, q # r, AtReader(q)', AtReader(r)'
      PROVE  q \in ahead'[r] \/ r \in ahead'[q]
  <2>1. CASE q # p /\ r # p
    BY <1>1, <1>2, <1>3, <1>6, <2>1 DEF ReaderInTurn
  <2>2. CASE q = p
    BY <1>1, <1>3, <1>4, <1>6, <2>2
  <2>3. CASE r = p
    BY <1>1, <1>3, <1>4, <1>6, <2>3
  <2> QED BY <2>1, <2>2, <2>3
<1> QED BY <1>5, <1>6

\* On one loop the reader's lock serves the polls one at a time, in their order.
LEMMA ReaderTurnsAreKept ==
    ASSUME OutletsTypeOK, ReaderInTurn, [OutletsNext]_outletsVars PROVE ReaderInTurn'
<1>1. CASE OutletsTick \/ UNCHANGED outletsVars
  BY <1>1 DEF OutletsTick, outletsVars, readerLock, ReaderInTurn, AllOnOneLoop, AtReader
<1>2. ASSUME NEW p \in Fetcher, BeginFetch(p) \/ PublisherAnswers(p) \/ TierAnswers(p) PROVE ReaderInTurn'
  <2>1. (\E t : GoTo(p, t)) /\ UNCHANGED <<loopOf, ahead, readerLoop, onReader>>
    BY <1>2 DEF BeginFetch, PublisherAnswers, TierAnswers, TryNext, readerLock
  <2> QED BY <2>1, GoingFromTheReader
<1>3. ASSUME NEW p \in Fetcher, QueueForLasting(p) PROVE ReaderInTurn'
  <2>1. UNCHANGED <<loopOf, readerLoop, onReader>>
    BY <1>3 DEF QueueForLasting, readerLock
  <2>2. CASE UNCHANGED ahead /\ (TryNext(p) \/ GoTo(p, "out"))
    BY <2>1, <2>2, GoingFromTheReader DEF TryNext
  <2>3. CASE /\ stage' = [stage EXCEPT ![p] = "queued"]
             /\ ahead' = [ahead EXCEPT ![p] = AtLock(tier[p])]
             /\ UNCHANGED tier
    <3>1. \A q \in Fetcher \ {p} : stage'[q] = stage[q] /\ ahead'[q] = ahead[q]
      BY <2>3 DEF OutletsTypeOK
    <3>2. ~AtReader(p)'
      BY <1>3, <2>3 DEF QueueForLasting, LockOf, AtReader
    <3> QED BY <2>1, <2>3, <3>1, <3>2, LeavingTheReader
  <2> QED BY <1>3, <2>2, <2>3 DEF QueueForLasting
<1>4. ASSUME NEW p \in Fetcher, TakeLock(p) PROVE ReaderInTurn'
  <2>1. /\ UNCHANGED <<loopOf, tier, ahead, readerLoop, onReader>>
        /\ stage[p] = "queued" /\ \A q \in Fetcher \ {p} : stage'[q] = stage[q]
    BY <1>4 DEF TakeLock, readerLock, OutletsTypeOK
  <2>2. \A q \in Fetcher : AtReader(q)' => AtReader(q)
    BY <2>1 DEF AtReader
  <2>3. AllOnOneLoop' <=> AllOnOneLoop
    BY <2>1 DEF AllOnOneLoop
  <2> QED BY <2>1, <2>2, <2>3 DEF ReaderInTurn
<1>5. ASSUME NEW p \in Fetcher, LookAgain(p) PROVE ReaderInTurn'
  <2>1. tier[p] = "robots" /\ UNCHANGED <<loopOf, readerLoop, onReader>>
    BY <1>5 DEF LookAgain, readerLock
  <2>2. CASE UNCHANGED <<tier, ahead>> /\ stage' = [stage EXCEPT ![p] = "asked"]
    <3>1. ~AtReader(p)' /\ \A q \in Fetcher \ {p} : stage'[q] = stage[q]
      BY <2>1, <2>2 DEF AtReader, OutletsTypeOK
    <3> QED BY <2>1, <2>2, <3>1, LeavingTheReader
  <2>3. CASE (\E t : GoTo(p, t)) /\ Release(p)
    BY <2>1, <2>3, GoingFromTheReader
  <2> QED BY <1>5, <2>2, <2>3 DEF LookAgain
<1>6. ASSUME NEW p \in Fetcher, RobotsArrive(p) PROVE ReaderInTurn'
  <2>1. (\E t : GoTo(p, t)) /\ Release(p) /\ UNCHANGED <<loopOf, readerLoop, onReader>>
    BY <1>6 DEF RobotsArrive, readerLock
  <2> QED BY <2>1, GoingFromTheReader
<1>7. ASSUME NEW p \in Fetcher, AskPublisher(p) \/ AskReader(p) PROVE ReaderInTurn'
  <2>1. /\ UNCHANGED <<loopOf, tier, readerLoop>> /\ Release(p) /\ onReader \ {p} \subseteq onReader'
        /\ stage' = [stage EXCEPT ![p] = "asked"]
    BY <1>7 DEF AskPublisher, AskReader, readerLock
  <2>2. stage'[p] = "asked" /\ \A q \in Fetcher \ {p} : stage'[q] = stage[q]
    BY <2>1 DEF OutletsTypeOK
  <2>3. ~AtReader(p)'
    BY <2>2 DEF AtReader
  <2>4. \A q \in Fetcher \ {p} : ahead[q] \ {p} \subseteq ahead'[q]
    BY <2>1, Releasing
  <2> QED BY <2>1, <2>2, <2>3, <2>4, LeavingTheReader
<1> QED
  BY <1>1, <1>2, <1>3, <1>4, <1>5, <1>6, <1>7, QueueingForTheReader DEF OutletsNext, FetchStep

-----------------------------------------------------------------------------
HoldsReader(p) == tier[p] = "reader" /\ stage[p] = "holding"

\* A step that starts no pause leaves the one at the reader alone.
LEMMA ReaderLeftAlone ==
    ASSUME ReaderWaits, UNCHANGED <<loopOf, sinceReader, pause>>,
           \A q \in Fetcher : HoldsReader(q)' => HoldsReader(q)
    PROVE  ReaderWaits'
  BY DEF ReaderWaits, HoldsReader, AllOnOneLoop

\* So does a step that sends its poll somewhere.
LEMMA ReaderLeftByGoing ==
    ASSUME OutletsTypeOK, ReaderWaits, NEW p \in Fetcher, \E t : GoTo(p, t),
           UNCHANGED <<loopOf, sinceReader, pause>>
    PROVE  ReaderWaits'
<1>1. ~InLock(p)' /\ \A q \in Fetcher \ {p} : tier'[q] = tier[q] /\ stage'[q] = stage[q]
  BY GoingTo
<1>2. \A q \in Fetcher : HoldsReader(q)' => HoldsReader(q)
  BY <1>1 DEF InLock, HoldsReader
<1> QED BY <1>2, ReaderLeftAlone

\* Time takes from the pause what it adds to what has passed.
LEMMA ReaderTicks ==
    ASSUME OutletsTypeOK, ReaderWaits, OutletsTick PROVE ReaderWaits'
<1> SUFFICES ASSUME AllOnOneLoop', NEW p \in Fetcher, tier'[p] = "reader", stage'[p] = "holding"
             PROVE  (sinceReader + pause[p])' >= ReaderInterval
  BY DEF ReaderWaits
<1>1. sinceReader + pause[p] >= ReaderInterval
  BY DEF OutletsTick, ReaderWaits, AllOnOneLoop
<1>2. /\ sinceReader' = IF sinceReader < Longest THEN sinceReader + 1 ELSE sinceReader
      /\ pause'[p] = LongerOf(0, pause[p] - 1)
  BY DEF OutletsTick
<1>3. sinceReader \in 0..Longest /\ pause[p] \in 0..Longest
  BY DEF OutletsTypeOK
<1> QED BY <1>1, <1>2, <1>3, LongestIsLongest, OutletsAssumption DEF LongerOf

\* On one loop two requests to the reader are as far apart as it wants them.
LEMMA ReaderIsKept ==
    ASSUME OutletsTypeOK, Turns, ReaderInTurn, ReaderWaits, [OutletsNext]_outletsVars
    PROVE  ReaderWaits'
<1>1. ASSUME NEW p \in Fetcher,
             BeginFetch(p) \/ RobotsArrive(p) \/ PublisherAnswers(p) \/ TierAnswers(p)
      PROVE  ReaderWaits'
  <2>1. (\E t : GoTo(p, t)) /\ UNCHANGED <<loopOf, sinceReader, pause>>
    BY <1>1 DEF BeginFetch, RobotsArrive, PublisherAnswers, TierAnswers, TryNext, timing
  <2> QED BY <2>1, ReaderLeftByGoing
<1>2. ASSUME NEW p \in Fetcher, QueueForLasting(p) PROVE ReaderWaits'
  <2>1. UNCHANGED <<loopOf, sinceReader, pause>>
    BY <1>2 DEF QueueForLasting, timing
  <2>2. CASE TryNext(p) \/ GoTo(p, "out")
    BY <2>1, <2>2, ReaderLeftByGoing DEF TryNext
  <2>3. CASE stage' = [stage EXCEPT ![p] = "queued"] /\ UNCHANGED tier
    BY <2>1, <2>3, ReaderLeftAlone DEF HoldsReader, OutletsTypeOK
  <2> QED BY <1>2, <2>2, <2>3 DEF QueueForLasting
<1>3. ASSUME NEW p \in Fetcher, QueueForReader(p) PROVE ReaderWaits'
  BY <1>3, ReaderLeftAlone DEF QueueForReader, timing, HoldsReader, OutletsTypeOK
<1>4. ASSUME NEW p \in Fetcher, TakeLock(p) PROVE ReaderWaits'
  <2>1. /\ UNCHANGED <<loopOf, tier, sinceReader>> /\ pause'[p] = PauseFor(tier[p])
        /\ \A q \in Fetcher \ {p} : stage'[q] = stage[q] /\ pause'[q] = pause[q]
    BY <1>4 DEF TakeLock, timing, OutletsTypeOK
  <2>2. tier[p] = "reader" => sinceReader + pause'[p] >= ReaderInterval
    <3>1. tier[p] = "reader" => PauseFor(tier[p]) = LongerOf(0, ReaderInterval - sinceReader)
      BY DEF PauseFor, LockOf
    <3>2. sinceReader + LongerOf(0, ReaderInterval - sinceReader) >= ReaderInterval
      BY OutletsAssumption, LongestIsLongest DEF OutletsTypeOK, LongerOf
    <3> QED BY <2>1, <3>1, <3>2
  <2>3. AllOnOneLoop' <=> AllOnOneLoop
    BY <2>1 DEF AllOnOneLoop
  <2> QED BY <2>1, <2>2, <2>3 DEF ReaderWaits
<1>5. ASSUME NEW p \in Fetcher, LookAgain(p) PROVE ReaderWaits'
  <2>1. UNCHANGED <<loopOf, sinceReader, pause>>
    BY <1>5 DEF LookAgain, timing
  <2>2. CASE \E t : GoTo(p, t)
    BY <2>1, <2>2, ReaderLeftByGoing
  <2>3. CASE stage' = [stage EXCEPT ![p] = "asked"] /\ UNCHANGED tier
    BY <2>1, <2>3, ReaderLeftAlone DEF HoldsReader, OutletsTypeOK
  <2> QED BY <1>5, <2>2, <2>3 DEF LookAgain
<1>6. ASSUME NEW p \in Fetcher, AskPublisher(p) PROVE ReaderWaits'
  BY <1>6, ReaderLeftAlone DEF AskPublisher, HoldsReader, OutletsTypeOK
<1>7. ASSUME NEW p \in Fetcher, AskReader(p) PROVE ReaderWaits'
  <2>1. /\ HoldsReader(p) /\ UNCHANGED <<loopOf, tier>> /\ stage'[p] = "asked"
        /\ \A q \in Fetcher \ {p} : stage'[q] = stage[q]
    BY <1>7 DEF AskReader, HoldsReader, OutletsTypeOK
  <2>2. ASSUME AllOnOneLoop, NEW q \in Fetcher \ {p}, HoldsReader(q) PROVE FALSE
    <3>1. AtReader(p) /\ AtReader(q) /\ ahead[p] = {} /\ ahead[q] = {}
      BY <2>1, <2>2 DEF HoldsReader, AtReader, Turns, HolderIsFirst
    <3> QED BY <2>2, <3>1 DEF ReaderInTurn
  <2>3. AllOnOneLoop' <=> AllOnOneLoop
    BY <2>1 DEF AllOnOneLoop
  <2> QED BY <2>1, <2>2, <2>3 DEF ReaderWaits, HoldsReader
<1>8. CASE UNCHANGED outletsVars
  BY <1>8 DEF outletsVars, ReaderWaits, AllOnOneLoop
<1> QED
  BY <1>1, <1>2, <1>3, <1>4, <1>5, <1>6, <1>7, <1>8, ReaderTicks DEF OutletsNext, FetchStep

\* The reader's part joins the invariant.
LEMMA ReaderStarts == OutletsInit => ReaderInv
  BY OutletsStart DEF OutletsInit, ReaderInv, ReaderInTurn, ReaderWaits, AtReader

\* With it the invariant is inductive again.
LEMMA ReaderInvStep == ReaderInv /\ [OutletsNext]_outletsVars => ReaderInv'
  BY OutletsInvStep, ReaderTurnsAreKept, ReaderIsKept DEF ReaderInv, OutletsInv

\* Whoever asks the reader on its one loop has waited for its interval.
LEMMA ReaderHasWaited ==
    ASSUME ReaderInv, NEW p \in Fetcher, AskReader(p), \A q \in Fetcher : loopOf[q] = loopOf[p]
    PROVE  sinceReader >= ReaderInterval
<1>1. AllOnOneLoop /\ tier[p] = "reader" /\ stage[p] = "holding" /\ pause[p] = 0
  BY DEF AskReader, AllOnOneLoop
<1>2. sinceReader + pause[p] >= ReaderInterval
  BY <1>1 DEF ReaderInv, ReaderWaits
<1> QED BY <1>1, <1>2, LongestIsLongest DEF ReaderInv, OutletsInv, OutletsTypeOK

\* On one event loop two requests to the reader, whose lock _reader_lock_for_this_loop
\* hands out, are never closer than READER_MIN_INTERVAL_SECONDS.
THEOREM OneLoopPacesTheReader == OutletsSpec => ReaderIsPacedOnOneLoop
<1> DEFINE Paced == \A p \in Fetcher :
                      AskReader(p) /\ (\A q \in Fetcher : loopOf[q] = loopOf[p])
                        => sinceReader >= ReaderInterval
<1>1. ReaderInv => [Paced]_outletsVars
  BY ReaderHasWaited
<1> QED BY <1>1, ReaderStarts, ReaderInvStep, PTL DEF OutletsSpec, ReaderIsPacedOnOneLoop
=============================================================================
