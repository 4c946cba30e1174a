----------------------------- MODULE ReelsPass -----------------------------
(***************************************************************************)
(* The video side of the fetch caps: _sync_reels of workers/scheduler.py,  *)
(* run by the worker's scheduler and, in a fresh process each time, by the *)
(* cron script sync_once.py.                                               *)
(*                                                                         *)
(* A pass asks the configured providers one after another.  What is left   *)
(* of the pass's cap is divided between the providers still to be asked,   *)
(* a provider that declares min_poll_seconds is skipped until they have    *)
(* passed, and the pass as a whole is bounded by a timeout because the job *)
(* runs at max_instances=1: a pass that never returned would never run     *)
(* again.  Local steps take no time; a healthy provider answers within     *)
(* MaxAnswer ticks and a hung one never does.                              *)
(***************************************************************************)
EXTENDS Integers, Sequences

CONSTANTS
    Order,           \* the providers that have a pool, in REEL_PROVIDERS order
    Process,         \* processes that run passes
    Cron,            \* those of them that are a new process for every pass
    MinPoll,         \* provider -> min_poll_seconds in ticks, 0 for a free one
    PerProviderCap,  \* max_reels_per_provider
    PassCap,         \* max_reels_per_cycle
    PassTimeout,     \* reels_pass_timeout_seconds in ticks
    MaxAnswer,       \* bound: how long a healthy provider takes to answer
    MaxDeploys       \* bound: how often the worker is restarted

Provider == {Order[i] : i \in 1..Len(Order)}

ASSUME ReelsAssumption ==
    /\ Order \in Seq(Provider)
    /\ Len(Order) > 0
    /\ Cron \subseteq Process
    /\ MinPoll \in [Provider -> Nat]
    /\ PerProviderCap \in Nat \ {0}
    /\ PassCap \in Nat \ {0}
    /\ PassTimeout \in Nat \ {0}
    /\ MaxAnswer \in Nat
    /\ MaxDeploys \in Nat

VARIABLES
    turn,      \* the provider a pass has come to (its index), 0 between passes
    asked,     \* the limit of the request in flight, 0 when there is none
    fetched,   \* total_fetched
    age,       \* ticks since the pass began, at most PassTimeout
    wait,      \* ticks since the request in flight was sent
    sinceRun,  \* _reels_last_run: ticks since the provider completed, at most MinPoll
    sinceAsk,  \* ghost: ticks since anyone asked the provider, at most MinPoll
    hung,      \* the providers that never answer
    deploys    \* restarts of the worker so far

reelsVars == <<turn, asked, fetched, age, wait, sinceRun, sinceAsk, hung, deploys>>

LeastOf(a, b) == IF a < b THEN a ELSE b

Idle(x) == turn[x] = 0
Asking(x) == asked[x] > 0

\* What the pass may still fetch, and the share of it the next provider gets:
\* a ceiling division by the number of providers still to be asked.
Left(x) == IF PassCap > fetched[x] THEN PassCap - fetched[x] ELSE 0
ProvidersLeft(x) == Len(Order) - turn[x] + 1
Share(left, among) == (left + among - 1) \div among

ReelsInit ==
    /\ turn = [x \in Process |-> 0]
    /\ asked = [x \in Process |-> 0]
    /\ fetched = [x \in Process |-> 0]
    /\ age = [x \in Process |-> PassTimeout]
    /\ wait = [x \in Process |-> 0]
    /\ sinceRun = [x \in Process |-> MinPoll]
    /\ sinceAsk = MinPoll
    /\ hung \in SUBSET Provider
    /\ deploys = 0

-----------------------------------------------------------------------------
\* A pass begins; the next one never begins in the same tick.  The cron script
\* is a new process: nothing is remembered.
StartPass(x) ==
    /\ Idle(x)
    /\ age[x] > 0
    /\ turn' = [turn EXCEPT ![x] = 1]
    /\ fetched' = [fetched EXCEPT ![x] = 0]
    /\ age' = [age EXCEPT ![x] = 0]
    /\ sinceRun' = IF x \in Cron THEN [sinceRun EXCEPT ![x] = MinPoll] ELSE sinceRun
    /\ UNCHANGED <<asked, wait, sinceAsk, hung, deploys>>

\* The next provider's turn, or the end of the pass after the last one.
After(x) == IF turn[x] = Len(Order) THEN 0 ELSE turn[x] + 1

TooSoon(x) == sinceRun[x][Order[turn[x]]] < MinPoll[Order[turn[x]]]

SkipTo(x) ==
    /\ ~Idle(x) /\ ~Asking(x)
    /\ turn' = [turn EXCEPT ![x] = After(x)]
    /\ UNCHANGED <<asked, fetched, age, wait, sinceAsk, hung, deploys>>

\* A slip in SkipTooSoon: a skip is remembered like a run.
SkipTooSoonRemembered(x) ==
    /\ SkipTo(x)
    /\ TooSoon(x)
    /\ sinceRun' = [sinceRun EXCEPT ![x][Order[turn[x]]] = 0]

\* The provider's own interval has not passed: go on to the next one.
SkipTooSoon(x) ==
    /\ SkipTo(x)
    /\ TooSoon(x)
    /\ UNCHANGED sinceRun

\* The pass's cap is spent: the same.
SkipSpent(x) ==
    /\ SkipTo(x)
    /\ ~TooSoon(x)
    /\ Left(x) = 0
    /\ UNCHANGED sinceRun

\* A slip in Ask: every provider is asked for its own cap.
AskForOwnCap(x) ==
    /\ ~Idle(x) /\ ~Asking(x) /\ ~TooSoon(x) /\ Left(x) > 0
    /\ asked' = [asked EXCEPT ![x] = PerProviderCap]
    /\ wait' = [wait EXCEPT ![x] = 0]
    /\ sinceAsk' = [sinceAsk EXCEPT ![Order[turn[x]]] = 0]
    /\ UNCHANGED <<turn, fetched, age, sinceRun, hung, deploys>>

\* A slip in Ask: the rest of the cap is offered to whoever comes first.
AskFirstComeFirstServed(x) ==
    /\ ~Idle(x) /\ ~Asking(x) /\ ~TooSoon(x) /\ Left(x) > 0
    /\ asked' = [asked EXCEPT ![x] = LeastOf(PerProviderCap, Left(x))]
    /\ wait' = [wait EXCEPT ![x] = 0]
    /\ sinceAsk' = [sinceAsk EXCEPT ![Order[turn[x]]] = 0]
    /\ UNCHANGED <<turn, fetched, age, sinceRun, hung, deploys>>

\* Ask the provider for its share, at most its own cap.
Ask(x) ==
    /\ ~Idle(x) /\ ~Asking(x) /\ ~TooSoon(x) /\ Left(x) > 0
    /\ asked' = [asked EXCEPT ![x] =
                   LeastOf(PerProviderCap, Share(Left(x), ProvidersLeft(x)))]
    /\ wait' = [wait EXCEPT ![x] = 0]
    /\ sinceAsk' = [sinceAsk EXCEPT ![Order[turn[x]]] = 0]
    /\ UNCHANGED <<turn, fetched, age, sinceRun, hung, deploys>>

\* The provider answers with at most what it was asked for, or fails: a failed
\* fetch is a health row with nothing fetched.  Either way it counts as run.
Answer(x) ==
    /\ Asking(x)
    /\ Order[turn[x]] \notin hung
    /\ \E n \in 0..asked[x] : fetched' = [fetched EXCEPT ![x] = @ + n]
    /\ sinceRun' = [sinceRun EXCEPT ![x][Order[turn[x]]] = 0]
    /\ asked' = [asked EXCEPT ![x] = 0]
    /\ wait' = [wait EXCEPT ![x] = 0]
    /\ turn' = [turn EXCEPT ![x] = After(x)]
    /\ UNCHANGED <<age, sinceAsk, hung, deploys>>

Abandon(x) ==
    /\ turn' = [turn EXCEPT ![x] = 0]
    /\ asked' = [asked EXCEPT ![x] = 0]
    /\ wait' = [wait EXCEPT ![x] = 0]
    /\ UNCHANGED <<fetched, age, sinceAsk, hung>>

\* A slip in Timeout: the clock is looked at between providers only.
TimeoutBetweenProviders(x) ==
    /\ ~Idle(x) /\ ~Asking(x)
    /\ age[x] >= PassTimeout
    /\ Abandon(x)
    /\ UNCHANGED <<sinceRun, deploys>>

\* wait_for gives the pass up: the request is cancelled and not counted as run.
Timeout(x) ==
    /\ ~Idle(x)
    /\ age[x] >= PassTimeout
    /\ Abandon(x)
    /\ UNCHANGED <<sinceRun, deploys>>

\* The worker is redeployed: the pass dies and _reels_last_run with it.
Redeploy(x) ==
    /\ x \notin Cron
    /\ deploys < MaxDeploys
    /\ deploys' = deploys + 1
    /\ sinceRun' = [sinceRun EXCEPT ![x] = MinPoll]
    /\ Abandon(x)

\* Nothing has to happen before time goes on in x.
Waiting(x) ==
    \/ Idle(x)
    \/ /\ Asking(x)
       /\ age[x] < PassTimeout
       /\ Order[turn[x]] \in hung \/ wait[x] < MaxAnswer

Later(n, most) == LeastOf(n + 1, most)

ReelsTick ==
    /\ \A x \in Process : Waiting(x)
    /\ age' = [x \in Process |-> Later(age[x], PassTimeout)]
    /\ wait' = [x \in Process |-> IF Asking(x) THEN Later(wait[x], MaxAnswer) ELSE 0]
    /\ sinceRun' = [x \in Process |->
                      [p \in Provider |-> Later(sinceRun[x][p], MinPoll[p])]]
    /\ sinceAsk' = [p \in Provider |-> Later(sinceAsk[p], MinPoll[p])]
    /\ UNCHANGED <<turn, asked, fetched, hung, deploys>>

PassStep(x) ==
    \/ SkipTooSoon(x) \/ SkipSpent(x) \/ Ask(x)
    \/ Answer(x) \/ Timeout(x)

ReelsNext ==
    \/ ReelsTick
    \/ \E x \in Process : StartPass(x) \/ PassStep(x) \/ Redeploy(x)

\* The scheduler starts the next pass, the event loop runs the one that is on,
\* and time goes on.
ReelsFairness ==
    /\ WF_reelsVars(ReelsTick)
    /\ \A x \in Process : WF_reelsVars(StartPass(x)) /\ WF_reelsVars(PassStep(x))

ReelsSpec == ReelsInit /\ [][ReelsNext]_reelsVars /\ ReelsFairness

-----------------------------------------------------------------------------
\* The values of the pass and of its memory are of their types.
ReelsTypeOK ==
    /\ turn \in [Process -> 0..Len(Order)]
    /\ asked \in [Process -> Nat]
    /\ fetched \in [Process -> Nat]
    /\ age \in [Process -> 0..PassTimeout]
    /\ wait \in [Process -> 0..MaxAnswer]
    /\ sinceRun \in [Process -> [Provider -> Nat]]
    /\ sinceAsk \in [Provider -> Nat]
    /\ hung \subseteq Provider
    /\ deploys \in 0..MaxDeploys

\* One pass never fetches more than the pass cap, not even if the provider
\* being asked answers in full.
PassCapHolds == \A x \in Process : fetched[x] + asked[x] <= PassCap

\* A cap that has room for one clip of every provider reaches all of them: when
\* a provider's turn comes there is still a clip for it and for each after it.
CapReachesEveryone ==
    PassCap >= Len(Order) =>
      \A x \in Process : ~Idle(x) /\ ~Asking(x) => Left(x) >= ProvidersLeft(x)

\* A provider that accepts the request and hangs does not hold the slot for the
\* life of the process: every pass ends.
PassesEnd == \A x \in Process : []<>Idle(x)

\* A provider goes on being asked as long as it and those before it answer, and
\* they do so before the pass has run out of time, whatever the ones after it do
\* and however dear it is.
AskedUnlessBehindAHang ==
    \A x \in Process, i \in 1..Len(Order) :
      (\A j \in 1..i : Order[j] \notin hung) /\ (i - 1) * MaxAnswer < PassTimeout
        => []<>(turn[x] = i /\ Asking(x))

\* A provider that declares min_poll_seconds is never asked sooner than that
\* after it was asked before, by whichever process.
MinPollHonoured ==
    [][\A p \in Provider :
         sinceAsk[p] < MinPoll[p] => sinceAsk'[p] >= sinceAsk[p]]_reelsVars
=============================================================================
