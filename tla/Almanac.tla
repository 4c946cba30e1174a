------------------------------ MODULE Almanac ------------------------------
(***************************************************************************)
(* services/panchang.py and rashifal.py: the almanac and the twelve        *)
(* horoscopes of today and of the days ahead, kept by sync_panchang.       *)
(*                                                                         *)
(* The pass runs in the worker, which remembers the day whose horoscopes   *)
(* it stored, and in the cron job, which remembers nothing.  It asks the   *)
(* table how old its rows are, reads today's pages when today's row is     *)
(* stale, and walks the days ahead when that is due, each page linking to  *)
(* the next day's.  The source publishes a day's horoscope during that     *)
(* day; until then the page of the day repeats today's.                    *)
(*                                                                         *)
(* Days are numbered; the twelve horoscopes of a day are its number.  Days *)
(* that are over are not looked at again, and forgotten here.              *)
(***************************************************************************)
EXTENDS Integers

CONSTANTS
    Almanacker,   \* the processes that run the pass
    Forgetful,    \* those of them that are new each time: the cron job
    LastDay,      \* bound: the last day that dawns, and the last to have a horoscope published
    Ahead,        \* UPCOMING_DAYS
    StaleAge,     \* PANCHANG_MAX_AGE_SECONDS, in ticks
    WalkAge       \* PANCHANG_WALK_MAX_AGE_SECONDS

ASSUME AlmanacAssumption ==
    /\ Forgetful \subseteq Almanacker
    /\ LastDay \in Nat
    /\ {Ahead, StaleAge, WalkAge} \subseteq Nat \ {0}
    /\ StaleAge <= WalkAge

Day == 0..(LastDay + Ahead)
None == -1
NoPass == [at |-> "idle", walk |-> FALSE, base |-> 0, signs |-> None, day |-> 0, page |-> None]

VARIABLES
    today,     \* the day in Nepal
    issued,    \* the last day whose horoscope is published
    stamp,     \* per day: the age of its row in daily_panchang
    signs,     \* per day: whose horoscope its rows in daily_rashifal hold
    marker,    \* per process: _last_stored_signs_bs
    pass,      \* per process: how far its pass is
    calm       \* from now on no request fails and no process is replaced

almanacVars == <<today, issued, stamp, signs, marker, pass, calm>>

AlmanacInit ==
    /\ today = 0
    /\ issued = 0
    /\ stamp \in [Day -> {None, 0, WalkAge}]
    /\ \A d \in Day : d > Ahead => stamp[d] = None
    /\ signs = [d \in Day |-> None]
    /\ marker = [p \in Almanacker |-> None]
    /\ pass = [p \in Almanacker |-> NoPass]
    /\ calm = FALSE

\* Whose horoscope the page of a day carries.
Shown(d) == IF d <= issued THEN d ELSE IF issued < today THEN issued ELSE today

-----------------------------------------------------------------------------
\* A pass.

Stored == {d \in Day : d >= today /\ stamp[d] # None}

TodayFresh == stamp[today] # None /\ stamp[today] < StaleAge

\* A slip in WalkDue: only the age of the last walk counts.
WalkIsOld ==
    /\ Stored \ {today} # {}
    /\ \A d \in Stored \ {today} : stamp[d] >= WalkAge

\* The days ahead were all written long ago, or one of them is missing and
\* nothing was written for a while.
WalkDue ==
    \/ WalkIsOld
    \/ /\ \E d \in today..(today + Ahead) : d \notin Stored
       /\ \A d \in Stored : stamp[d] >= StaleAge

Move(p, to) == pass' = [pass EXCEPT ![p] = to]

\* It asks the table; with nothing due the pass is over.
Look(p) ==
    /\ pass[p].at = "idle"
    /\ ~TodayFresh \/ WalkDue
    /\ Move(p, [NoPass EXCEPT !.at = IF TodayFresh THEN "start" ELSE "today", !.walk = WalkDue])
    /\ UNCHANGED <<today, issued, stamp, signs, marker, calm>>

\* The rashifal page says what day it is, and holds the horoscopes.
ReadToday(p) ==
    /\ pass[p].at = "today"
    /\ Move(p, [pass[p] EXCEPT !.at = "signs", !.base = today, !.signs = Shown(today)])
    /\ UNCHANGED <<today, issued, stamp, signs, marker, calm>>

\* Or has lost the horoscopes, which is logged.
ReadTodayBare(p) ==
    /\ ~calm
    /\ pass[p].at = "today"
    /\ Move(p, [pass[p] EXCEPT !.at = "signs", !.base = today])
    /\ UNCHANGED <<today, issued, stamp, signs, marker, calm>>

\* A row that is written, unless its day is over by now.
Written(rows, d, value) == IF d < today THEN rows ELSE [rows EXCEPT ![d] = value]

\* The twelve go in one write, once per day and process; one that is new each
\* time has nothing to remember.
StoreToday(p) ==
    /\ pass[p].at = "signs"
    /\ IF pass[p].signs # None /\ marker[p] # pass[p].base
       THEN /\ signs' = Written(signs, pass[p].base, pass[p].signs)
            /\ marker' = IF p \in Forgetful THEN marker ELSE [marker EXCEPT ![p] = pass[p].base]
       ELSE UNCHANGED <<signs, marker>>
    /\ Move(p, [pass[p] EXCEPT !.at = "almanac"])
    /\ UNCHANGED <<today, issued, stamp, calm>>

\* The write fails: the marker stays, and the almanac has its turn.
TodayRefused(p) ==
    /\ ~calm
    /\ pass[p].at = "signs"
    /\ Move(p, [pass[p] EXCEPT !.at = "almanac"])
    /\ UNCHANGED <<today, issued, stamp, signs, marker, calm>>

\* A slip in FirstAhead: the walk starts at today's own page.
FromToday(base) == base

\* The walk starts at tomorrow, where today's page links to.
FirstAhead(base) == base + 1

StoreAlmanac(p) ==
    /\ pass[p].at = "almanac"
    /\ stamp' = Written(stamp, pass[p].base, 0)
    /\ Move(p, IF pass[p].walk
               THEN [pass[p] EXCEPT !.at = "walk", !.walk = FALSE, !.day = FirstAhead(pass[p].base)]
               ELSE NoPass)
    /\ UNCHANGED <<today, issued, signs, marker, calm>>

\* Today's row is fresh: its pages are read only to start the walk from, and
\* the horoscopes on them are not looked at.
StartWalk(p) ==
    /\ pass[p].at = "start"
    /\ Move(p, [pass[p] EXCEPT !.at = "walk", !.walk = FALSE, !.base = today, !.day = FirstAhead(today)])
    /\ UNCHANGED <<today, issued, stamp, signs, marker, calm>>

ReadDay(p) ==
    /\ pass[p].at = "walk"
    /\ Move(p, [pass[p] EXCEPT !.at = "write", !.page = Shown(pass[p].day)])
    /\ UNCHANGED <<today, issued, stamp, signs, marker, calm>>

\* A slip in WalkOn: one day more than there is room for.
OneDayMore(p) ==
    Move(p, IF pass[p].day <= pass[p].base + Ahead
            THEN [pass[p] EXCEPT !.at = "walk", !.day = @ + 1, !.page = None]
            ELSE NoPass)

\* The walk goes on to the next day, or is over.
WalkOn(p) ==
    Move(p, IF pass[p].day < pass[p].base + Ahead
            THEN [pass[p] EXCEPT !.at = "walk", !.day = @ + 1, !.page = None]
            ELSE NoPass)

\* same_horoscope against today's, which the pass has only if it read them: a
\* repeat is removed and anything else stored.
DaySigns(p) == IF pass[p].page = pass[p].signs THEN None ELSE pass[p].page

WriteDay(p) ==
    /\ pass[p].at = "write"
    /\ stamp' = Written(stamp, pass[p].day, 0)
    /\ signs' = Written(signs, pass[p].day, DaySigns(p))
    /\ WalkOn(p)
    /\ UNCHANGED <<today, issued, marker, calm>>

\* Either write of a day may fail, and the walk goes on.
DayRefused(p) ==
    /\ ~calm
    /\ pass[p].at = "write"
    /\ \/ stamp' = Written(stamp, pass[p].day, 0) /\ UNCHANGED signs
       \/ signs' = Written(signs, pass[p].day, DaySigns(p)) /\ UNCHANGED stamp
       \/ UNCHANGED <<stamp, signs>>
    /\ WalkOn(p)
    /\ UNCHANGED <<today, issued, marker, calm>>

\* A page cannot be fetched or read, today's row cannot be written, or the job
\* is cut off: the pass ends where it is.
GiveUp(p) ==
    /\ ~calm
    /\ pass[p] # NoPass
    /\ Move(p, NoPass)
    /\ UNCHANGED <<today, issued, stamp, signs, marker, calm>>

\* A new process remembers nothing.
Redeploy(p) ==
    /\ ~calm
    /\ Move(p, NoPass)
    /\ marker' = [marker EXCEPT ![p] = None]
    /\ UNCHANGED <<today, issued, stamp, signs, calm>>

-----------------------------------------------------------------------------
\* Time and the source.

HourPasses ==
    /\ stamp' = [d \in Day |-> IF stamp[d] \in 0..(WalkAge - 1) THEN stamp[d] + 1 ELSE stamp[d]]
    /\ UNCHANGED <<today, issued, signs, marker, pass, calm>>

CalmDown ==
    /\ ~calm
    /\ calm' = TRUE
    /\ UNCHANGED <<today, issued, stamp, signs, marker, pass>>

Publish ==
    /\ issued < today + Ahead
    /\ issued < LastDay
    /\ issued' = issued + 1
    /\ UNCHANGED <<today, stamp, signs, marker, pass, calm>>

Midnight ==
    /\ today < LastDay
    /\ issued >= today
    /\ today' = today + 1
    /\ stamp' = [stamp EXCEPT ![today] = None]
    /\ signs' = [signs EXCEPT ![today] = None]
    /\ UNCHANGED <<issued, marker, pass, calm>>

AlmanacStep(p) ==
    \/ Look(p) \/ ReadToday(p) \/ StoreToday(p) \/ StoreAlmanac(p)
    \/ StartWalk(p) \/ ReadDay(p) \/ WriteDay(p)

Mishap(p) == ReadTodayBare(p) \/ TodayRefused(p) \/ DayRefused(p) \/ GiveUp(p) \/ Redeploy(p)

AlmanacNext ==
    \/ HourPasses \/ CalmDown \/ Publish \/ Midnight
    \/ \E p \in Almanacker : AlmanacStep(p) \/ Mishap(p)

\* Both schedules go on, every request has a timeout, and time passes.
AlmanacFairness ==
    /\ WF_almanacVars(HourPasses)
    /\ \A p \in Almanacker : WF_almanacVars(AlmanacStep(p))

AlmanacSpec == AlmanacInit /\ [][AlmanacNext]_almanacVars /\ AlmanacFairness

-----------------------------------------------------------------------------
\* The rows and the passes are of their types.
AlmanacTypeOK ==
    /\ today \in 0..LastDay
    /\ issued \in -1..(LastDay + Ahead)
    /\ stamp \in [Day -> {None} \cup 0..WalkAge]
    /\ signs \in [Day -> {None} \cup Day]
    /\ marker \in [Almanacker -> {None} \cup Day]
    /\ calm \in BOOLEAN
    /\ \A p \in Almanacker :
         /\ pass[p].at \in {"idle", "today", "signs", "almanac", "start", "walk", "write"}
         /\ pass[p].walk \in BOOLEAN
         /\ {pass[p].base, pass[p].day} \subseteq Day
         /\ {pass[p].signs, pass[p].page} \subseteq {None} \cup Day

\* However passes of the two processes overlapped, failed half way or were cut
\* off before, the days ahead are all there in the end, through midnight too.
WeekAheadIsWhole ==
    <>calm => []<>(\A d \in today..(today + Ahead) : stamp[d] # None)

\* Today ends up with its own horoscope once it is published, though a late
\* walk of yesterday may have removed it and the worker, which stored it, does
\* not store it again: provided the cron job keeps finding today's row stale.
TodayGetsItsHoroscope ==
    <>calm /\ (\E p \in Forgetful : []<><<ReadToday(p)>>_almanacVars) /\ <>[](issued >= today)
      => <>[](signs[today] = today)

\* "A day whose horoscope is identical to today's has not been published, and
\* its horoscopes are removed rather than stored" (panchang.py).
NoCopyAhead == \A d \in Day : d > today => signs[d] # today
=============================================================================
