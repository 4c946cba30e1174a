---------------------------- MODULE StorageGuard ----------------------------
(***************************************************************************)
(* services/storage_guard.py, run once in every cron pass, beside the      *)
(* prune that every poll runs and the stories that keep arriving.          *)
(*                                                                         *)
(* A story is the instant it was published: a larger one is newer.  The    *)
(* guard deletes old rows of four tables, asks how full the database is,   *)
(* and when it is nearly full deletes the older part of the articles: it   *)
(* counts, reads where the cut is, and deletes below it, three calls with  *)
(* anything in between.  Every call may fail by itself.  The workflow runs *)
(* one pass at a time, and its timeout may end a pass anywhere.            *)
(***************************************************************************)
EXTENDS Integers, FiniteSets

CONSTANTS
    MaxStory,     \* bound: the instants stories are published at
    Held,         \* the breaking and featured ones
    Table,        \* the tables that are pruned by age
    Threshold,    \* storage_pressure_threshold of the limit, in articles
    PruneRatio    \* storage_emergency_prune_ratio in percent

Published == 1..MaxStory

ASSUME GuardAssumption ==
    /\ MaxStory \in Nat
    /\ Held \subseteq Published
    /\ IsFiniteSet(Table)
    /\ Threshold \in Nat
    /\ PruneRatio \in 0..100

VARIABLES
    shelf,    \* the articles
    horizon,  \* stories up to this instant are past retention_hours
    peak,     \* the most articles there ever were: DELETE gives no space back
    aged,     \* the tables that hold rows past their own retention
    due,      \* the tables the guard's pass has not come to yet
    step,     \* what the guard does next
    counted,  \* the articles it counted
    cut,      \* published_at of the story the emergency prunes up to
    refused,  \* the tables whose statements fail for now
    steady    \* from now on no pass is cut off

guardVars == <<shelf, horizon, peak, aged, due, step, counted, cut, refused, steady>>

GuardInit ==
    /\ shelf = {}
    /\ horizon = 0
    /\ peak = 0
    /\ aged \in SUBSET Table
    /\ due = {}
    /\ step = "idle"
    /\ counted = 0
    /\ cut = 0
    /\ refused = {}
    /\ steady = FALSE

-----------------------------------------------------------------------------
\* What else happens to the tables.

Larger(a, b) == IF a > b THEN a ELSE b

Arrive(s) ==
    /\ s \notin shelf
    /\ s > horizon
    /\ shelf' = shelf \cup {s}
    /\ peak' = Larger(peak, Cardinality(shelf'))
    /\ UNCHANGED <<horizon, aged, due, step, counted, cut, refused, steady>>

TimePasses ==
    /\ horizon < MaxStory
    /\ horizon' = horizon + 1
    /\ UNCHANGED <<shelf, peak, aged, due, step, counted, cut, refused, steady>>

\* prune_expired_articles, by a poll of either process.
TtlPrune ==
    /\ \E s \in shelf : s <= horizon /\ s \notin Held
    /\ shelf' = {s \in shelf : s > horizon \/ s \in Held}
    /\ UNCHANGED <<horizon, peak, aged, due, step, counted, cut, refused, steady>>

RowsAge(t) ==
    /\ t \notin aged
    /\ aged' = aged \cup {t}
    /\ UNCHANGED <<shelf, horizon, peak, due, step, counted, cut, refused, steady>>

\* A lock, a timeout or an outage: statements on one table fail, or work again.
RefusalFlips(t) ==
    /\ refused' = IF t \in refused THEN refused \ {t} ELSE refused \cup {t}
    /\ UNCHANGED <<shelf, horizon, peak, aged, due, step, counted, cut, steady>>

-----------------------------------------------------------------------------
\* A pass of the guard.

BeginGuard ==
    /\ step = "idle"
    /\ step' = "age"
    /\ due' = Table
    /\ UNCHANGED <<shelf, horizon, peak, aged, counted, cut, refused, steady>>

\* A slip in PruneByAge: a table that cannot be pruned ends the pass.
PruneByAgeOrStop(t) ==
    /\ step = "age"
    /\ t \in due
    /\ aged' = IF t \in refused THEN aged ELSE aged \ {t}
    /\ due' = IF t \in refused THEN {} ELSE due \ {t}
    /\ step' = IF t \in refused THEN "idle" ELSE step
    /\ UNCHANGED <<shelf, horizon, peak, counted, cut, refused, steady>>

\* _delete_older_than: a failure is logged and the next table has its turn.
PruneByAge(t) ==
    /\ step = "age"
    /\ t \in due
    /\ aged' = IF t \in refused THEN aged ELSE aged \ {t}
    /\ due' = due \ {t}
    /\ UNCHANGED <<shelf, horizon, peak, step, counted, cut, refused, steady>>

\* _delete_beyond_cap comes after the tables and changes nothing: within the
\* cap it returns, and past it the query it builds is refused by the client
\* (order() takes no `ascending`), which is logged as a failure.
CapReels ==
    /\ step = "age"
    /\ due = {}
    /\ step' = "measure"
    /\ UNCHANGED <<shelf, horizon, peak, aged, due, counted, cut, refused, steady>>

\* What the guard may take the database to hold: what Postgres says of its
\* files, or else an estimate from counts, which read as nothing when they fail.
Measure ==
    /\ step = "measure"
    /\ \E used \in {peak, Cardinality(shelf), 0} : step' = IF used >= Threshold THEN "count" ELSE "idle"
    /\ UNCHANGED <<shelf, horizon, peak, aged, due, counted, cut, refused, steady>>

CountArticles ==
    /\ step = "count"
    /\ counted' = IF "articles" \in refused THEN 0 ELSE Cardinality(shelf)
    /\ step' = IF counted' = 0 THEN "idle" ELSE "cut"
    /\ UNCHANGED <<shelf, horizon, peak, aged, due, cut, refused, steady>>

\* The n-th newest story of a set.
IsNthNewest(s, n, set) == s \in set /\ Cardinality({r \in set : r >= s}) = n

\* The place, from the newest, of the story that is kept last.
Target(n) == Larger(1, (n * PruneRatio) \div 100)

\* What a pass counted and read is its own, and is gone with it.
PassForgotten == counted' = 0 /\ cut' = 0

\* A slip in ReadCut: the cut is taken to be now.
CutIsNow ==
    /\ step = "cut"
    /\ cut' = MaxStory + 1
    /\ step' = "delete"
    /\ UNCHANGED <<shelf, horizon, peak, aged, due, counted, refused, steady>>

\* The story at that place of the shelf as it is by now, if there is one.
ReadCut ==
    /\ step = "cut"
    /\ \/ /\ "articles" \notin refused
          /\ \E s \in shelf : IsNthNewest(s, Target(counted), shelf) /\ cut' = s
          /\ step' = "delete"
          /\ UNCHANGED counted
       \/ /\ "articles" \in refused \/ Cardinality(shelf) < Target(counted)
          /\ step' = "idle"
          /\ PassForgotten
    /\ UNCHANGED <<shelf, horizon, peak, aged, due, refused, steady>>

\* Everything older goes, breaking and featured or not.
DeleteOlder ==
    /\ step = "delete"
    /\ shelf' = IF "articles" \in refused THEN shelf ELSE {s \in shelf : s >= cut}
    /\ step' = "idle"
    /\ PassForgotten
    /\ UNCHANGED <<horizon, peak, aged, due, refused, steady>>

\* The workflow's run is stopped by hand or times out.
GuardDies ==
    /\ ~steady
    /\ step # "idle"
    /\ step' = "idle"
    /\ due' = {}
    /\ PassForgotten
    /\ UNCHANGED <<shelf, horizon, peak, aged, refused, steady>>

SettleDown ==
    /\ ~steady
    /\ steady' = TRUE
    /\ UNCHANGED <<shelf, horizon, peak, aged, due, step, counted, cut, refused>>

GuardStep ==
    \/ BeginGuard \/ CapReels \/ Measure \/ CountArticles \/ ReadCut \/ DeleteOlder
    \/ \E t \in Table : PruneByAge(t)

GuardNext ==
    \/ GuardStep \/ GuardDies \/ SettleDown \/ TimePasses \/ TtlPrune \/ (\E t \in Table \cup {"articles"} : RefusalFlips(t))
    \/ \E s \in Published : Arrive(s)
    \/ \E t \in Table : RowsAge(t)

\* The cron job comes back for ever.
GuardFairness == WF_guardVars(GuardStep)

GuardSpec == GuardInit /\ [][GuardNext]_guardVars /\ GuardFairness

-----------------------------------------------------------------------------
\* The tables and the guard's pass are of their types.
GuardTypeOK ==
    /\ shelf \subseteq Published
    /\ horizon \in 0..MaxStory
    /\ peak \in Nat
    /\ aged \subseteq Table
    /\ due \subseteq Table
    /\ step \in {"idle", "age", "measure", "count", "cut", "delete"}
    /\ counted \in Nat
    /\ cut \in 0..MaxStory
    /\ refused \subseteq Table \cup {"articles"}
    /\ steady \in BOOLEAN

Newest(s) == s \in shelf /\ \A r \in shelf : r <= s

\* However full the database is taken to be, and whatever arrived or was
\* pruned since the cut was read, a step of the guard leaves the newest story
\* that has not expired on the shelf: the emergency never empties the site.
NewestSurvives ==
    [][\A s \in Published : GuardStep /\ Newest(s) /\ s > horizon => s \in shelf']_guardVars

\* Old rows of a table go in the end once its own deletes work and passes of
\* the guard are not cut off, though every other table may go on failing.
LogsAgeOut ==
    \A t \in Table :
        <>[](t \notin refused) /\ <>steady => []<>(t \notin aged)
=============================================================================
