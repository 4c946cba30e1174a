------------------------------ MODULE Magazine ------------------------------
(***************************************************************************)
(* What is in the catalogue once it is stored, side by side: the pictures  *)
(* of the articles and the passes that mend them (Pictures), the storage   *)
(* guard (StorageGuard) and the almanac with its horoscopes (Almanac).     *)
(* They share the database and touch different tables and columns of it,   *)
(* except that the guard's emergency may delete whole articles before they *)
(* expire, which Pictures leaves out; so a behaviour exercises one side,   *)
(* and the others are left where they started.                             *)
(*                                                                         *)
(* Pictures has two sides.  On one, every hand works on the stories the    *)
(* outlets carry.  On the other, polls and searches rest and the daily     *)
(* workflow is faced with more stories than a run has room for.            *)
(***************************************************************************)
EXTENDS Pictures, StorageGuard, Almanac

CONSTANT Current   \* bound: the stories of the pictures' side; the backlog's has all

ASSUME MagazineAssumption == Current \subseteq Story

VARIABLE shown   \* the side this behaviour exercises

magazineVars == <<shown, picturesVars, guardVars, almanacVars>>

MagazineInit ==
    /\ shown \in {"pictures", "backlog", "guard", "almanac"}
    /\ PicturesInit
    /\ shown = "pictures" => \A s \in Story \ Current : age[s] = Retention /\ row[s] = NoRow
    /\ shown \notin {"pictures", "backlog"} => \A s \in Story : age[s] = 0 /\ row[s] = NoRow
    /\ GuardInit
    /\ shown # "guard" => aged = {}
    /\ AlmanacInit
    /\ shown # "almanac" => \A d \in Day : stamp[d] = None

\* Stories that are not current stay as they are: no poll or search meets them.
OthersRest ==
    \A s \in Story \ Current :
      /\ page'[s] = page[s] /\ search'[s] = search[s]
      /\ \A p \in Poller : at'[p][s] = at[p][s]

\* Nothing is stored while the workflow works on what an older build left behind.
PollsRest == UNCHANGED <<client, search>>

PicturesSide ==
    /\ shown = "pictures" /\ PicturesNext /\ OthersRest
    /\ UNCHANGED <<shown, guardVars, almanacVars>>

BacklogSide ==
    /\ shown = "backlog" /\ PicturesNext /\ PollsRest
    /\ UNCHANGED <<shown, guardVars, almanacVars>>

GuardSide   == shown = "guard" /\ GuardNext /\ UNCHANGED <<shown, picturesVars, almanacVars>>
AlmanacSide == shown = "almanac" /\ AlmanacNext /\ UNCHANGED <<shown, picturesVars, guardVars>>

MagazineNext == PicturesSide \/ BacklogSide \/ GuardSide \/ AlmanacSide

\* On both sides of the pictures the workflow runs and the prune comes.
Mended == shown \in {"pictures", "backlog"}

\* What the sides' own specifications assume, of the side that moves.
MagazineFairness ==
    /\ \A p \in Poller : WF_picturesVars(shown = "pictures" /\ PollStep(p) /\ OthersRest)
    /\ WF_picturesVars(Mended /\ NextScript)
    /\ \A s \in Story : WF_picturesVars(Mended /\ (ScriptReads(s) \/ ScriptWrites(s)))
    /\ WF_picturesVars(Mended /\ Prune)
    /\ WF_guardVars(shown = "guard" /\ GuardStep)
    /\ WF_almanacVars(shown = "almanac" /\ HourPasses)
    /\ \A p \in Almanacker : WF_almanacVars(shown = "almanac" /\ AlmanacStep(p))

MagazineSpec == MagazineInit /\ [][MagazineNext]_magazineVars /\ MagazineFairness

-----------------------------------------------------------------------------
\* Every side holds values of its types.
MagazineTypeOK == PicturesTypeOK /\ GuardTypeOK /\ AlmanacTypeOK

\* On the pictures' sides a hidden picture is not hidden for ever, be it among polls
\* and searches or behind others that a run has no room to pass.
HiddenIsRefreshed == Mended => HiddenPictureIsRefreshed

\* On the guard's side a table's own deletes are enough to age its rows out.
OldRowsGo == shown = "guard" => LogsAgeOut

\* On the almanac's side the days ahead are whole in the end, and today gets its
\* own horoscope.
DaysAheadAreWhole == shown = "almanac" => WeekAheadIsWhole
TodaysHoroscope == shown = "almanac" => TodayGetsItsHoroscope
=============================================================================
