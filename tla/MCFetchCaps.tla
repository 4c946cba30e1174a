---------------------------- MODULE MCFetchCaps ----------------------------
(* FetchCaps for TLC. *)
EXTENDS FetchCaps

CONSTANTS p1, p2, p3, main, thread, wiki, pexels, youtube, worker, cron,
          feedPoll, listingPoll, song, dance, tharu

OneLoopOf == [p \in Poll |-> main]
\* One poll is a manual sync, run by uvicorn's thread.
TwoLoopsOf == [p \in Poll |-> IF p = p3 THEN thread ELSE main]

\* The dear provider is neither the first nor the last to be asked.
ProviderOrder == <<wiki, youtube, pexels>>
YoutubeIsDear == [p \in {wiki, pexels, youtube} |-> IF p = youtube THEN 4 ELSE 0]

\* Two rows of one host, a paged feed and a listing; the feed may be read by a
\* manual sync.
KindOfPoll == [p \in Fetcher |-> IF p = feedPoll THEN "paged" ELSE "listing"]
OneOrTwoLoops ==
    {[p \in Fetcher |-> main], [p \in Fetcher |-> IF p = feedPoll THEN thread ELSE main]}

\* The Nepali term stands between the others.
TermList == <<song, tharu, dance>>

\* Two pages may be on their way when a refresh has lifted the guard.
TwoPages == [kind \in {"poll", "reset", "page"} |-> IF kind = "page" THEN 2 ELSE 1]
=============================================================================
