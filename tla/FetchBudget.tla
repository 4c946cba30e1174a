---------------------------- MODULE FetchBudget ----------------------------
(***************************************************************************)
(* The article side of the fetch caps: CycleBudget of                      *)
(* services/ingestion.py and the polls that spend from it.                 *)
(*                                                                         *)
(* A poll that has parsed its feed truncates the list to the per-outlet    *)
(* cap, then reserves the rest from the one budget of the process.  The    *)
(* budget is a window: it restarts when window_seconds have passed since   *)
(* it last restarted.  reserve() has no await, so two polls of one event   *)
(* loop cannot interleave inside it.  The process can hold two event       *)
(* loops in two threads, though (worker.py runs uvicorn in a thread of its *)
(* own, and POST /api/sync runs the same pipeline there), and the          *)
(* interpreter may switch threads at reserve()'s three calls: monotonic,   *)
(* max and min.  The steps below are what lies between those calls.        *)
(***************************************************************************)
EXTENDS Integers

CONSTANTS
    Poll,        \* polls in flight, each a run_source_sync that comes back
    Loop,        \* event loops, one thread each
    LoopOf,      \* the loop a poll runs on
    SourceCap,   \* max_articles_per_source
    CycleCap,    \* max_articles_per_cycle
    Window,      \* cycle_window_seconds, in ticks
    MaxOffer,    \* bound: the longest feed considered
    MaxTime      \* bound: the clock stops here

ASSUME BudgetAssumption ==
    /\ LoopOf \in [Poll -> Loop]
    /\ SourceCap \in Nat \ {0}
    /\ CycleCap \in Nat \ {0}
    /\ Window \in Nat \ {0}
    /\ MaxOffer \in Nat
    /\ MaxTime \in Nat

VARIABLES
    clock,      \* time.monotonic()
    started,    \* CycleBudget._window_started
    used,       \* CycleBudget._used
    pc,         \* where each poll is in reserve()
    wanted,     \* reserve()'s argument
    seen        \* reserve()'s local: first now, then remaining

budgetVars == <<clock, started, used, pc, wanted, seen>>

SmallerOf(a, b) == IF a < b THEN a ELSE b

\* No poll of p's loop is inside reserve(): the loop runs one coroutine at a
\* time, and one that does not await is not preempted.
LoopFree(p) == \A q \in Poll : LoopOf[q] = LoopOf[p] => pc[q] = "out"

\* What CycleBudget holds is counts and times, and no poll asks for more than its cap.
BudgetTypeOK ==
    /\ clock \in Nat
    /\ started \in Nat
    /\ used \in Nat
    /\ pc \in [Poll -> {"out", "timed", "measured"}]
    /\ wanted \in [Poll -> 0..SourceCap]
    /\ seen \in [Poll -> Nat]

\* The clock is far from its origin when the process starts, so the first
\* reserve() opens a window.
BudgetInit ==
    /\ clock = Window
    /\ started = 0
    /\ used = 0
    /\ pc = [p \in Poll |-> "out"]
    /\ wanted = [p \in Poll |-> 0]
    /\ seen = [p \in Poll |-> 0]

-----------------------------------------------------------------------------
\* A slip in Truncated: the per-outlet cap is not applied.
OfferedWhole(offered) == offered

\* The length of the list after the per-outlet cap.
Truncated(offered) == SmallerOf(offered, SourceCap)

\* A poll enters reserve() and reads the clock.  For an empty list reserve()
\* returns before it touches anything, so that poll takes no step here.
Enter(p) ==
    /\ pc[p] = "out"
    /\ LoopFree(p)
    /\ \E offered \in 1..MaxOffer :
         wanted' = [wanted EXCEPT ![p] = Truncated(offered)]
    /\ seen' = [seen EXCEPT ![p] = clock]
    /\ pc' = [pc EXCEPT ![p] = "timed"]
    /\ UNCHANGED <<clock, started, used>>

Expired(now) == now - started >= Window

Remaining(spent) == IF CycleCap - spent > 0 THEN CycleCap - spent ELSE 0

\* Restart the window if it is over, then measure what is left of it.
Measure(p) ==
    /\ pc[p] = "timed"
    /\ started' = IF Expired(seen[p]) THEN seen[p] ELSE started
    /\ used' = IF Expired(seen[p]) THEN 0 ELSE used
    /\ seen' = [seen EXCEPT ![p] = Remaining(used')]
    /\ pc' = [pc EXCEPT ![p] = "measured"]
    /\ UNCHANGED <<clock, wanted>>

\* reserve() returns and its locals are gone.
Leave(p) ==
    /\ pc' = [pc EXCEPT ![p] = "out"]
    /\ wanted' = [wanted EXCEPT ![p] = 0]
    /\ seen' = [seen EXCEPT ![p] = 0]
    /\ UNCHANGED <<clock, started>>

\* A slip in Grant: the whole list is granted once anything is left.
GrantWhole(p) ==
    /\ pc[p] = "measured"
    /\ used' = used + (IF seen[p] > 0 THEN wanted[p] ELSE 0)
    /\ Leave(p)

\* Take min(wanted, remaining) and add it to what is spent.  The poll cuts its
\* list to the grant and leaves.
Grant(p) ==
    /\ pc[p] = "measured"
    /\ used' = used + SmallerOf(wanted[p], seen[p])
    /\ Leave(p)

Tick ==
    /\ clock < MaxTime
    /\ clock' = clock + 1
    /\ UNCHANGED <<started, used, pc, wanted, seen>>

BudgetNext ==
    \/ Tick
    \/ \E p \in Poll : Enter(p) \/ Measure(p) \/ Grant(p)

BudgetSpec == BudgetInit /\ [][BudgetNext]_budgetVars

-----------------------------------------------------------------------------
\* Every article granted in a window is counted in it and the count never
\* exceeds the cycle cap: reserve() cannot hand out the same slots twice.
WindowCap == used <= CycleCap
=============================================================================
