-------------------------- MODULE Magazine_proofs ---------------------------
(***************************************************************************)
(* Proofs about what is in the catalogue once it is stored: the pictures   *)
(* of the articles (Pictures), the storage guard (StorageGuard), the       *)
(* almanac (Almanac) and the three side by side (Magazine), for any        *)
(* stories, processes, ages, tables, thresholds and days.                  *)
(*                                                                         *)
(* The marker of a row means what it says because every hand that writes   *)
(* it writes it with a picture of the page, whatever the others wrote      *)
(* meanwhile. The guard's cut was read in one call and is used in a later  *)
(* one; what makes the delay harmless is that the story at the cut is      *)
(* still there or has expired meanwhile. A pass over the days ahead never  *)
(* leaves the days there is room for, though midnight comes in the middle  *)
(* of it.                                                                  *)
(***************************************************************************)
EXTENDS Magazine, FiniteSetTheorems, TLAPS

(* The pictures of the articles. *)

\* The rows a hand may leave behind: those whose marker means what it says.
Sound(r) == r \in Row /\ (r.confirmed /\ ~r.back => r.picture = "own")

AllSound(rows) == rows \in [Story -> Row] /\ \A s \in Story : Sound(rows[s])

\* A row with the page's own picture, one without marker, one a search brought
\* back and no row at all are sound.
LEMMA SoundToWrite ==
    ASSUME NEW picture \in Picture, NEW confirmed \in BOOLEAN, NEW back \in BOOLEAN
    PROVE  /\ Sound(NewRow("own", TRUE, back))
           /\ Sound(NewRow(picture, FALSE, back))
           /\ Sound(NewRow(picture, confirmed, TRUE))
           /\ Sound(NoRow)
  BY DEF Sound, NewRow, NoRow, Row, Picture

\* A table with sound rows stays one when a sound row replaces one of them.
LEMMA OneRowReplaced ==
    ASSUME NEW rows, AllSound(rows), NEW s \in Story, NEW r, Sound(r)
    PROVE  AllSound([rows EXCEPT ![s] = r])
  BY DEF AllSound, Sound

\* The verdict of a script on a sound row is sound, whatever it saw of the row
\* when it listed it.
LEMMA VerdictIsSound ==
    ASSUME NEW s \in Story, Sound(row[s])
    PROVE  Sound(Verdict(s))
<1>1. row[s].back \in BOOLEAN
  BY DEF Sound, Row
<1>2. Sound([row[s] EXCEPT !.confirmed = FALSE])
  BY DEF Sound, Row
<1>3. Verdict(s) \in {NewRow("own", TRUE, row[s].back), [row[s] EXCEPT !.confirmed = FALSE], row[s]}
  BY DEF Verdict
<1>4. Sound(NewRow("own", TRUE, row[s].back))
  BY <1>1, SoundToWrite DEF Picture
<1> QED BY <1>2, <1>3, <1>4

\* So is what a repair pass makes of a row.
LEMMA RepairedIsSound ==
    ASSUME NEW s \in Story, NEW p, Sound(row[s])
    PROVE  Sound(Repaired(s, p))
<1>1. row[s].back \in BOOLEAN
  BY DEF Sound, Row
<1>2. Sound(NewRow("own", TRUE, row[s].back))
  BY <1>1, SoundToWrite DEF Picture
<1> QED BY <1>2 DEF Repaired

-----------------------------------------------------------------------------
\* Every step leaves every row sound: a poll stores a marker with a page's own
\* picture only, the passes and scripts that mend a row write both or neither,
\* and a search writes rows that are told apart.
LEMMA RowsStaySound ==
    ASSUME PicturesTypeOK, AllSound(row), [PicturesNext]_picturesVars
    PROVE  AllSound(row')
<1>1. \A s \in Story : Sound(row[s])
  BY DEF AllSound
<1>2. CASE UNCHANGED row
  BY <1>2 DEF AllSound
<1>3. ASSUME NEW p \in Poller, NEW s \in Story, StoreStory(p, s) PROVE AllSound(row')
  <2>1. CASE UNCHANGED row
    BY <2>1 DEF AllSound
  <2>2. CASE row' = [row EXCEPT ![s] = NewRow(at[p][s], at[p][s] # "none", FALSE)]
    <3>1. at[p][s] \in {"own", "none"}
      BY <1>3 DEF StoreStory, PicturesTypeOK
    <3>2. Sound(NewRow(at[p][s], at[p][s] # "none", FALSE))
      <4>1. CASE at[p][s] = "own"
        BY <4>1, SoundToWrite DEF Picture
      <4>2. CASE at[p][s] = "none"
        BY <4>2, SoundToWrite DEF Picture
      <4> QED BY <3>1, <4>1, <4>2
    <3> QED BY <2>2, <3>2, OneRowReplaced
  <2> QED BY <1>3, <2>1, <2>2 DEF StoreStory
<1>4. ASSUME NEW p \in Poller, Sweep(p) PROVE AllSound(row')
  <2>1. \A t \in Story : Sound(Repaired(t, PageThrough(client[p] = "open", t)))
    BY <1>1, RepairedIsSound
  <2>2. row' = [t \in Story |-> IF t \in Repairable
                                THEN Repaired(t, PageThrough(client[p] = "open", t))
                                ELSE row[t]]
    BY <1>4 DEF Sweep
  <2>3. \A t \in Story : Sound(row'[t])
    BY <1>1, <2>1, <2>2
  <2> QED BY <2>2, <2>3 DEF AllSound, Sound
<1>5. ASSUME NEW s \in Story, BringBack(s) PROVE AllSound(row')
  <2>1. search[s] \in Picture
    BY <1>5 DEF BringBack, Picture
  <2>2. Sound(NewRow(search[s], search[s] # "none", TRUE))
    BY <2>1, SoundToWrite
  <2>3. AllSound([row EXCEPT ![s] = NewRow(search[s], search[s] # "none", TRUE)])
    BY <2>2, OneRowReplaced
  <2> QED BY <1>5, <2>3 DEF BringBack
<1>6. ASSUME NEW s \in Story, ScriptWrites(s) PROVE AllSound(row')
  <2>1. Sound(Verdict(s))
    BY <1>1, VerdictIsSound
  <2>2. AllSound([row EXCEPT ![s] = Verdict(s)])
    BY <2>1, OneRowReplaced
  <2> QED BY <1>6, <2>2 DEF ScriptWrites
<1>7. CASE Prune
  <2>1. PICK gone : row' = [t \in Story |-> IF t \in gone THEN NoRow ELSE row[t]]
    BY <1>7 DEF Prune
  <2>2. Sound(NoRow)
    BY SoundToWrite DEF Picture
  <2>3. \A t \in Story : Sound(row'[t])
    BY <1>1, <2>1, <2>2
  <2> QED BY <2>1, <2>3 DEF AllSound, Sound
<1>8. CASE Purge
  <2>1. \A t \in Story : row[t].back \in BOOLEAN
    BY <1>1 DEF Sound, Row
  <2>2. \A t \in Story : Sound(NewRow("none", FALSE, row[t].back))
    BY <2>1, SoundToWrite DEF Picture
  <2>3. row' = [t \in Story |-> IF Malformed(t) THEN NewRow("none", FALSE, row[t].back) ELSE row[t]]
    BY <1>8 DEF Purge
  <2>4. \A t \in Story : Sound(row'[t])
    BY <1>1, <2>2, <2>3
  <2> QED BY <2>3, <2>4 DEF AllSound, Sound
<1> QED
  BY <1>2, <1>3, <1>4, <1>5, <1>6, <1>7, <1>8
     DEF PicturesNext, PollStep, PollDies, ScriptStep, StartPoll, LeaveClient, CheckStory, LookAtPage,
         FindAgain, LookAgain, PageChanges, Feature, NextScript, ScriptReads, ScriptCannotList,
         WorkflowCut, ScriptFails, Age, picturesVars

\* Every step keeps the rest of the variables to their types.
LEMMA PicturesTypesAreKept ==
    ASSUME PicturesTypeOK, row' \in [Story -> Row], [PicturesNext]_picturesVars
    PROVE  PicturesTypeOK'
<1> USE PicturesAssumption DEF PicturesTypeOK
<1>1. ASSUME NEW p \in Poller, PollStep(p) \/ PollDies(p) PROVE PicturesTypeOK'
  <2>1. CASE StartPoll(p)
    BY <2>1 DEF StartPoll
  <2>2. CASE LeaveClient(p)
    BY <2>2 DEF LeaveClient
  <2>3. CASE Sweep(p)
    BY <2>3 DEF Sweep
  <2>4. CASE PollDies(p)
    BY <2>4 DEF PollDies
  <2>5. ASSUME NEW s \in Story, CheckStory(p, s) PROVE PicturesTypeOK'
    BY <2>5 DEF CheckStory
  <2>6. ASSUME NEW s \in Story, LookAtPage(p, s) PROVE PicturesTypeOK'
    <3>1. PICK picture : at' = [at EXCEPT ![p][s] = Confirmable(picture)]
      BY <2>6 DEF LookAtPage
    <3>2. Confirmable(picture) \in {"own", "none"}
      BY DEF Confirmable
    <3>3. at' \in [Poller -> [Story -> {"idle", "new", "own", "none"}]]
      BY <3>1, <3>2
    <3> QED BY <2>6, <3>3 DEF LookAtPage
  <2>7. ASSUME NEW s \in Story, StoreStory(p, s) PROVE PicturesTypeOK'
    BY <2>7 DEF StoreStory
  <2> QED BY <1>1, <2>1, <2>2, <2>3, <2>4, <2>5, <2>6, <2>7 DEF PollStep
<1>2. ASSUME NEW s \in Story, FindAgain(s) \/ LookAgain(s) \/ BringBack(s) PROVE PicturesTypeOK'
  <2>1. CASE FindAgain(s)
    BY <2>1 DEF FindAgain
  <2>2. CASE LookAgain(s)
    BY <2>2 DEF LookAgain, WithTheFeed
  <2>3. CASE BringBack(s)
    BY <2>3 DEF BringBack
  <2> QED BY <1>2, <2>1, <2>2, <2>3
<1>3. ASSUME NEW s \in Story, PageChanges(s) \/ Feature(s) PROVE PicturesTypeOK'
  BY <1>3 DEF PageChanges, Feature
<1>4. CASE NextScript
  <2>1. phase' \in Phase
    BY <1>4 DEF NextScript, AfterPhase, Phase
  <2>2. NoRow \in Row
    BY DEF NoRow, Row, Picture
  <2>3. seen' \in [Story -> Row]
    <3>1. PICK listed : seen' = [s \in Story |-> IF s \in listed THEN row[s] ELSE NoRow]
      BY <1>4 DEF NextScript
    <3> QED BY <2>2, <3>1
  <2> QED BY <1>4, <2>1, <2>3 DEF NextScript
<1>5. ASSUME NEW s \in Story, ScriptReads(s) PROVE PicturesTypeOK'
  <2>1. NoRow \in Row
    BY DEF NoRow, Row, Picture
  <2>2. Readings(s) \subseteq {"offers", "nothing", "refuses"}
    BY DEF Readings
  <2>3. PICK p \in Readings(s) :
             IF OwnPictureOf(p) = "unreadable"
             THEN seen' = [seen EXCEPT ![s] = NoRow] /\ UNCHANGED found
             ELSE found' = [found EXCEPT ![s] = OwnPictureOf(p)] /\ UNCHANGED seen
    BY <1>5 DEF ScriptReads
  <2>4. OwnPictureOf(p) # "unreadable" => OwnPictureOf(p) \in {"own", "none"}
    BY <2>2 DEF OwnPictureOf
  <2>5. seen' \in [Story -> Row] /\ found' \in [Story -> {"unread", "own", "none"}]
    BY <2>1, <2>3, <2>4
  <2> QED BY <1>5, <2>5 DEF ScriptReads
<1>6. ASSUME NEW s \in Story, ScriptWrites(s) \/ ScriptFails(s) PROVE PicturesTypeOK'
  <2>1. NoRow \in Row
    BY DEF NoRow, Row, Picture
  <2>2. DoneWith(s)
    BY <1>6 DEF ScriptWrites, ScriptFails
  <2>3. seen' \in [Story -> Row] /\ found' \in [Story -> {"unread", "own", "none"}]
    BY <2>1, <2>2 DEF DoneWith
  <2> QED BY <1>6, <2>3 DEF ScriptWrites, ScriptFails
<1>7. CASE Prune
  <2>1. NoRow \in Row
    BY DEF NoRow, Row, Picture
  <2>2. PICK gone : /\ seen' = [s \in Story |-> IF s \in gone THEN NoRow ELSE seen[s]]
                    /\ found' = [s \in Story |-> IF s \in gone THEN "unread" ELSE found[s]]
    BY <1>7 DEF Prune
  <2>3. seen' \in [Story -> Row] /\ found' \in [Story -> {"unread", "own", "none"}]
    BY <2>1, <2>2
  <2> QED BY <1>7, <2>3 DEF Prune
<1>8. CASE Age
  <2>1. \A s \in Story : ~Expired(s) => age[s] + 1 \in 0..Retention
    BY DEF Expired
  <2>2. age' \in [Story -> 0..Retention]
    BY <1>8, <2>1 DEF Age
  <2> QED BY <1>8, <2>2 DEF Age
<1>9. CASE Purge
  BY <1>9 DEF Purge
<1>10. CASE UNCHANGED picturesVars
  BY <1>10 DEF picturesVars
<1>11. CASE ScriptCannotList \/ WorkflowCut
  <2>1. NoRow \in Row /\ phase' \in Phase
    BY <1>11 DEF ScriptCannotList, WorkflowCut, AfterPhase, Phase, NoRow, Row, Picture
  <2>2. seen' \in [Story -> Row] /\ found' \in [Story -> {"unread", "own", "none"}]
    BY <1>11, <2>1 DEF ScriptCannotList, WorkflowCut
  <2> QED BY <1>11, <2>1, <2>2 DEF ScriptCannotList, WorkflowCut
<1> QED
  BY <1>1, <1>2, <1>3, <1>4, <1>5, <1>6, <1>7, <1>8, <1>9, <1>10, <1>11 DEF PicturesNext, ScriptStep

\* Both hold at the start.
LEMMA PicturesStart == PicturesInit => PicturesTypeOK /\ AllSound(row)
<1> SUFFICES ASSUME PicturesInit PROVE PicturesTypeOK /\ AllSound(row)
  OBVIOUS
<1>1. Sound(NoRow) /\ \A p \in Picture : Sound(NewRow(p, FALSE, FALSE))
  BY SoundToWrite DEF Picture
<1>2. \A s \in Story : Sound(row[s])
  BY <1>1 DEF PicturesInit
<1>3. AllSound(row)
  BY <1>2 DEF AllSound, PicturesInit, Sound
<1>4. age \in [Story -> 0..Retention]
  <2>1. {0, Retention} \subseteq 0..Retention
    BY PicturesAssumption
  <2> QED BY <2>1 DEF PicturesInit
<1>5. seen \in [Story -> Row]
  BY <1>1 DEF PicturesInit, Sound
<1>6. /\ page \in [Story -> {"offers", "nothing", "refuses"}]
      /\ client \in [Poller -> {"none", "open", "left"}]
      /\ at \in [Poller -> [Story -> {"idle", "new", "own", "none"}]]
      /\ search \in [Story -> {"idle", "new", "own", "feed", "none"}]
      /\ found \in [Story -> {"unread", "own", "none"}]
  BY DEF PicturesInit
<1>7. kept \subseteq Story /\ phase \in Phase
  BY DEF PicturesInit, Phase
<1> QED BY <1>3, <1>4, <1>5, <1>6, <1>7 DEF PicturesTypeOK, AllSound

\* The types and the soundness of every row are kept together.
LEMMA PicturesInvStep ==
    PicturesTypeOK /\ AllSound(row) /\ [PicturesNext]_picturesVars => (PicturesTypeOK /\ AllSound(row))'
  BY RowsStaySound, PicturesTypesAreKept DEF AllSound

\* They hold all along.
LEMMA PicturesInvariant == PicturesSpec => [](PicturesTypeOK /\ AllSound(row))
  BY PicturesStart, PicturesInvStep, PTL DEF PicturesSpec

\* The rows, the clients and what the scripts hold keep their types, for any
\* stories, processes and ages.
THEOREM PicturesTypeCorrect == PicturesSpec => []PicturesTypeOK
<1> QED BY PicturesInvariant, PTL

\* However any number of polls, the scripts, searches, prunes and the purge
\* overlap, a row that is marked as confirmed, and was not brought back by a
\* search, shows a picture of the story's own page.
THEOREM MarkerMeansWhatItSays == PicturesSpec => []ConfirmedUnlessBroughtBack
<1>1. AllSound(row) => ConfirmedUnlessBroughtBack
  BY DEF AllSound, Sound, ConfirmedUnlessBroughtBack
<1> QED BY <1>1, PicturesInvariant, PTL

-----------------------------------------------------------------------------
(* The storage guard. *)

\* The cut the delete goes by: nothing newer than the newest story that lives.
CutIsOfTheShelf == step = "delete" => cut \in shelf \/ cut <= horizon

GuardInv == GuardTypeOK /\ CutIsOfTheShelf

-----------------------------------------------------------------------------
\* A set of published stories can be counted.
LEMMA StoriesAreCounted ==
    ASSUME NEW set \in SUBSET Published PROVE Cardinality(set) \in Nat
<1>1. IsFiniteSet(Published)
  BY GuardAssumption, FS_Interval DEF Published
<1> QED BY <1>1, FS_Subset, FS_CardinalityType

\* The shelf, the guard's pass and the cut keep their types under every step.
LEMMA GuardTypesAreKept ==
    ASSUME GuardTypeOK, [GuardNext]_guardVars PROVE GuardTypeOK'
<1> USE GuardAssumption DEF GuardTypeOK
<1>1. ASSUME NEW s \in Published, Arrive(s) PROVE GuardTypeOK'
  <2>1. shelf' \in SUBSET Published
    BY <1>1 DEF Arrive
  <2>2. peak' \in Nat
    <3>1. Cardinality(shelf') \in Nat
      BY <2>1, StoriesAreCounted
    <3> QED BY <1>1, <3>1 DEF Arrive, Larger
  <2> QED BY <1>1, <2>1, <2>2 DEF Arrive
<1>2. CASE TimePasses
  BY <1>2 DEF TimePasses
<1>3. CASE TtlPrune
  BY <1>3 DEF TtlPrune
<1>4. ASSUME NEW t \in Table, RowsAge(t) PROVE GuardTypeOK'
  BY <1>4 DEF RowsAge
<1>5. ASSUME NEW t \in Table \cup {"articles"}, RefusalFlips(t) PROVE GuardTypeOK'
  BY <1>5 DEF RefusalFlips
<1>6. CASE BeginGuard
  BY <1>6 DEF BeginGuard
<1>7. ASSUME NEW t \in Table, PruneByAge(t) PROVE GuardTypeOK'
  BY <1>7 DEF PruneByAge
<1>8. CASE CapReels
  BY <1>8 DEF CapReels
<1>9. CASE Measure
  BY <1>9 DEF Measure
<1>10. CASE CountArticles
  <2>1. counted' \in Nat
    BY <1>10, StoriesAreCounted DEF CountArticles
  <2> QED BY <1>10, <2>1 DEF CountArticles
<1>11. CASE ReadCut
  <2>1. Published \subseteq 0..MaxStory
    BY DEF Published
  <2> QED BY <1>11, <2>1 DEF ReadCut, PassForgotten
<1>12. CASE DeleteOlder
  BY <1>12 DEF DeleteOlder, PassForgotten
<1>13. CASE GuardDies
  BY <1>13 DEF GuardDies, PassForgotten
<1>14. CASE SettleDown
  BY <1>14 DEF SettleDown
<1>15. CASE UNCHANGED guardVars
  BY <1>15 DEF guardVars
<1> QED
  BY <1>1, <1>2, <1>3, <1>4, <1>5, <1>6, <1>7, <1>8, <1>9, <1>10, <1>11, <1>12, <1>13, <1>14, <1>15
     DEF GuardNext, GuardStep

\* The cut stays at a story of the shelf or behind the horizon: an arrival and a
\* passing day do no harm, and the prune takes only what has expired.
LEMMA CutStaysOfTheShelf ==
    ASSUME GuardInv, [GuardNext]_guardVars PROVE CutIsOfTheShelf'
<1> USE GuardAssumption DEF GuardInv, CutIsOfTheShelf
<1>1. ASSUME NEW s \in Published, Arrive(s) PROVE CutIsOfTheShelf'
  BY <1>1 DEF Arrive
<1>2. CASE TimePasses
  BY <1>2 DEF TimePasses, GuardTypeOK
<1>3. CASE TtlPrune
  BY <1>3 DEF TtlPrune, GuardTypeOK, Published
<1>4. ASSUME NEW t \in Table, RowsAge(t) PROVE CutIsOfTheShelf'
  BY <1>4 DEF RowsAge
<1>5. ASSUME NEW t \in Table \cup {"articles"}, RefusalFlips(t) PROVE CutIsOfTheShelf'
  BY <1>5 DEF RefusalFlips
<1>6. CASE BeginGuard
  BY <1>6 DEF BeginGuard
<1>7. ASSUME NEW t \in Table, PruneByAge(t) PROVE CutIsOfTheShelf'
  BY <1>7 DEF PruneByAge
<1>8. CASE CapReels
  BY <1>8 DEF CapReels
<1>9. CASE Measure
  BY <1>9 DEF Measure
<1>10. CASE CountArticles
  BY <1>10 DEF CountArticles
<1>11. CASE ReadCut
  BY <1>11 DEF ReadCut, PassForgotten
<1>12. CASE DeleteOlder
  BY <1>12 DEF DeleteOlder, PassForgotten
<1>13. CASE GuardDies
  BY <1>13 DEF GuardDies, PassForgotten
<1>14. CASE SettleDown
  BY <1>14 DEF SettleDown
<1>15. CASE UNCHANGED guardVars
  BY <1>15 DEF guardVars
<1> QED
  BY <1>1, <1>2, <1>3, <1>4, <1>5, <1>6, <1>7, <1>8, <1>9, <1>10, <1>11, <1>12, <1>13, <1>14, <1>15
     DEF GuardNext, GuardStep

\* Both facts hold at the start.
LEMMA GuardStarts == GuardInit => GuardInv
<1> SUFFICES ASSUME GuardInit PROVE GuardTypeOK /\ CutIsOfTheShelf
  BY DEF GuardInv
<1>1. GuardTypeOK
  <2>1. horizon \in 0..MaxStory /\ cut \in 0..MaxStory /\ peak \in Nat /\ counted \in Nat
    BY GuardAssumption DEF GuardInit
  <2>2. shelf \subseteq Published /\ aged \subseteq Table /\ due \subseteq Table
    BY DEF GuardInit
  <2>3. refused \subseteq Table \cup {"articles"} /\ step = "idle" /\ steady \in BOOLEAN
    BY DEF GuardInit
  <2> QED BY <2>1, <2>2, <2>3 DEF GuardTypeOK
<1>2. CutIsOfTheShelf
  BY DEF GuardInit, CutIsOfTheShelf
<1> QED BY <1>1, <1>2

\* And every step keeps them.
LEMMA GuardInvStep == GuardInv /\ [GuardNext]_guardVars => GuardInv'
  BY GuardTypesAreKept, CutStaysOfTheShelf DEF GuardInv

\* So they hold all along.
LEMMA GuardInvariant == GuardSpec => []GuardInv
  BY GuardStarts, GuardInvStep, PTL DEF GuardSpec

\* The tables and the guard's pass keep their types: what is deleted is below
\* the instant of a story, never below one that was made up.
THEOREM GuardTypeCorrect == GuardSpec => []GuardTypeOK
<1>1. GuardInv => GuardTypeOK
  BY DEF GuardInv
<1> QED BY <1>1, GuardInvariant, PTL

\* A step of the guard spares the newest story that lives, by what the cut is.
LEMMA NewestIsSpared ==
    ASSUME GuardInv, NEW s \in Published, GuardStep, Newest(s), s > horizon
    PROVE  s \in shelf'
<1>1. CASE DeleteOlder
  <2>1. cut <= s
    BY <1>1, GuardAssumption DEF DeleteOlder, GuardInv, GuardTypeOK, CutIsOfTheShelf, Newest, Published
  <2>2. shelf' = shelf \/ shelf' = {r \in shelf : r >= cut}
    BY <1>1 DEF DeleteOlder
  <2> QED BY <2>1, <2>2, GuardAssumption DEF Newest, GuardInv, GuardTypeOK, Published
<1>2. CASE ~DeleteOlder
  <2>1. UNCHANGED shelf
    BY <1>2 DEF GuardStep, BeginGuard, CapReels, Measure, CountArticles, ReadCut, PruneByAge
  <2> QED BY <2>1 DEF Newest
<1> QED BY <1>1, <1>2

\* A step of the guard leaves the newest story that has not expired, for any
\* ratio and threshold, and whatever came or went since the cut was read.
THEOREM GuardSparesTheNewest == GuardSpec => NewestSurvives
<1> DEFINE Spared == \A s \in Published : GuardStep /\ Newest(s) /\ s > horizon => s \in shelf'
<1>1. GuardInv => [Spared]_guardVars
  BY NewestIsSpared
<1> QED BY <1>1, GuardInvariant, PTL DEF NewestSurvives

-----------------------------------------------------------------------------
(* The almanac. *)

PassRecord ==
    [at : {"idle", "today", "signs", "almanac", "start", "walk", "write"}, walk : BOOLEAN,
     base : Day, signs : {None} \cup Day, day : Day, page : {None} \cup Day]

\* A pass began on a day that had dawned, and walks no further than there is room
\* for from that day on.
InRoom(r) ==
    /\ r \in PassRecord
    /\ r.base <= LastDay
    /\ r.at \in {"walk", "write"} => r.day <= r.base + Ahead

AlmanacInv ==
    /\ AlmanacTypeOK
    /\ issued \in Nat
    /\ pass \in [Almanacker -> PassRecord]
    /\ \A p \in Almanacker : InRoom(pass[p])

\* The days there are.
LEMMA DaysAhead ==
    /\ LastDay \in Nat /\ Ahead \in Nat \ {0}
    /\ StaleAge \in Nat \ {0} /\ WalkAge \in Nat \ {0}
    /\ Day = 0..(LastDay + Ahead) /\ None = -1 /\ None \notin Day
    /\ \A d \in 0..LastDay : d \in Day /\ d + 1 \in Day /\ d + Ahead \in Day
  BY AlmanacAssumption DEF Day, None

\* No pass is one that has room.
LEMMA NoPassIsInRoom == InRoom(NoPass)
  BY DaysAhead DEF InRoom, NoPass, PassRecord

\* The page of a day carries the horoscope of a day.
LEMMA ShownIsADay ==
    ASSUME AlmanacInv, NEW d \in Day PROVE Shown(d) \in Day
  BY DaysAhead DEF AlmanacInv, AlmanacTypeOK, Shown

\* Moving one pass to where it has room leaves every pass with room.
LEMMA MovedInRoom ==
    ASSUME AlmanacInv, NEW p \in Almanacker, NEW r, InRoom(r), Move(p, r)
    PROVE  pass' \in [Almanacker -> PassRecord] /\ \A q \in Almanacker : InRoom(pass'[q])
  BY DEF AlmanacInv, Move, InRoom

\* The types of the passes follow from their room.
LEMMA InRoomIsTyped ==
    ASSUME AlmanacInv, today' \in 0..LastDay, issued' \in Nat, issued' <= LastDay + Ahead,
           stamp' \in [Day -> {None} \cup 0..WalkAge], signs' \in [Day -> {None} \cup Day],
           marker' \in [Almanacker -> {None} \cup Day], calm' \in BOOLEAN,
           pass' \in [Almanacker -> PassRecord], \A q \in Almanacker : InRoom(pass'[q])
    PROVE  AlmanacInv'
<1>1. issued' \in -1..(LastDay + Ahead)
  BY DaysAhead
<1>2. \A q \in Almanacker :
        /\ pass'[q].at \in {"idle", "today", "signs", "almanac", "start", "walk", "write"}
        /\ pass'[q].walk \in BOOLEAN
        /\ {pass'[q].base, pass'[q].day} \subseteq Day
        /\ {pass'[q].signs, pass'[q].page} \subseteq {None} \cup Day
  BY DEF PassRecord
<1>3. AlmanacTypeOK'
  BY <1>1, <1>2 DEF AlmanacTypeOK
<1> QED BY <1>3 DEF AlmanacInv, InRoom, PassRecord

\* A row that is written is written with a value of its type.
LEMMA WrittenTypes ==
    ASSUME NEW V, NEW rows \in [Day -> V], NEW d \in Day, NEW v \in V
    PROVE  Written(rows, d, v) \in [Day -> V]
  BY DEF Written

\* The walk goes on inside its room, or is over.
LEMMA WalkStaysInRoom ==
    ASSUME AlmanacInv, NEW p \in Almanacker, pass[p].at = "write", WalkOn(p)
    PROVE  pass' \in [Almanacker -> PassRecord] /\ \A q \in Almanacker : InRoom(pass'[q])
<1>1. InRoom(pass[p])
  BY DEF AlmanacInv
<1>2. CASE pass[p].day < pass[p].base + Ahead
  <2> DEFINE r == [pass[p] EXCEPT !.at = "walk", !.day = @ + 1, !.page = None]
  <2>1. pass[p].day + 1 \in Day /\ pass[p].day + 1 <= pass[p].base + Ahead
    BY <1>1, <1>2, DaysAhead DEF InRoom, PassRecord
  <2>2. /\ r \in PassRecord /\ r.at = "walk" /\ r.base = pass[p].base
        /\ r.day = pass[p].day + 1
    BY <1>1, <2>1 DEF InRoom, PassRecord
  <2>3. InRoom(r)
    BY <1>1, <2>1, <2>2 DEF InRoom
  <2>4. Move(p, r)
    BY <1>2 DEF WalkOn
  <2> QED BY <2>3, <2>4, MovedInRoom
<1>3. CASE ~(pass[p].day < pass[p].base + Ahead)
  BY <1>3, NoPassIsInRoom, MovedInRoom DEF WalkOn
<1> QED BY <1>2, <1>3

\* The almanac's invariant holds at the start.
LEMMA AlmanacStarts == AlmanacInit => AlmanacInv
<1> SUFFICES ASSUME AlmanacInit PROVE AlmanacInv
  OBVIOUS
<1>1. \A p \in Almanacker : InRoom(pass[p])
  BY NoPassIsInRoom DEF AlmanacInit
<1>2. pass \in [Almanacker -> PassRecord]
  BY NoPassIsInRoom DEF AlmanacInit, InRoom
<1>3. /\ today \in 0..LastDay /\ issued \in Nat /\ issued \in -1..(LastDay + Ahead)
      /\ stamp \in [Day -> {None} \cup 0..WalkAge]
  BY DaysAhead DEF AlmanacInit
<1>4. /\ signs \in [Day -> {None} \cup Day] /\ marker \in [Almanacker -> {None} \cup Day]
      /\ calm \in BOOLEAN
  BY DEF AlmanacInit
<1>5. \A q \in Almanacker :
        /\ pass[q].at \in {"idle", "today", "signs", "almanac", "start", "walk", "write"}
        /\ pass[q].walk \in BOOLEAN
        /\ {pass[q].base, pass[q].day} \subseteq Day
        /\ {pass[q].signs, pass[q].page} \subseteq {None} \cup Day
  BY <1>2 DEF PassRecord
<1> QED BY <1>1, <1>2, <1>3, <1>4, <1>5 DEF AlmanacInv, AlmanacTypeOK

\* Every step of a pass, every mishap and every hour keeps it.
LEMMA AlmanacInvStep ==
    ASSUME AlmanacInv, [AlmanacNext]_almanacVars PROVE AlmanacInv'
<1>1. /\ today \in 0..LastDay /\ issued \in Nat /\ issued <= LastDay + Ahead
      /\ stamp \in [Day -> {None} \cup 0..WalkAge] /\ signs \in [Day -> {None} \cup Day]
      /\ marker \in [Almanacker -> {None} \cup Day] /\ calm \in BOOLEAN
      /\ pass \in [Almanacker -> PassRecord] /\ \A q \in Almanacker : InRoom(pass[q])
  BY DEF AlmanacInv, AlmanacTypeOK
<1>2. today \in Day /\ today + 1 \in Day /\ today <= LastDay /\ 0 \in 0..WalkAge
  BY <1>1, DaysAhead
<1>3. CASE HourPasses
  <2>1. stamp' \in [Day -> {None} \cup 0..WalkAge]
    BY <1>1, <1>3, DaysAhead DEF HourPasses
  <2> QED BY <1>1, <1>3, <2>1, InRoomIsTyped DEF HourPasses
<1>4. CASE CalmDown
  BY <1>1, <1>4, InRoomIsTyped DEF CalmDown
<1>5. CASE Publish
  <2>1. issued' \in Nat /\ issued' <= LastDay + Ahead
    BY <1>1, <1>5, DaysAhead DEF Publish
  <2> QED BY <1>1, <1>5, <2>1, InRoomIsTyped DEF Publish
<1>6. CASE Midnight
  <2>1. today' \in 0..LastDay
    BY <1>1, <1>6, DaysAhead DEF Midnight
  <2>2. stamp' \in [Day -> {None} \cup 0..WalkAge] /\ signs' \in [Day -> {None} \cup Day]
    BY <1>1, <1>6 DEF Midnight
  <2> QED BY <1>1, <1>6, <2>1, <2>2, InRoomIsTyped DEF Midnight
<1>7. ASSUME NEW p \in Almanacker, AlmanacStep(p) PROVE AlmanacInv'
  <2>1. InRoom(pass[p]) /\ pass[p] \in PassRecord /\ pass[p].base \in Day /\ pass[p].day \in Day
    BY <1>1 DEF PassRecord
  <2>2. CASE Look(p)
    <3> DEFINE r == [NoPass EXCEPT !.at = IF TodayFresh THEN "start" ELSE "today", !.walk = WalkDue]
    <3>1. WalkDue \in BOOLEAN
      BY DEF WalkDue, WalkIsOld
    <3>2. InRoom(r)
      BY <3>1, NoPassIsInRoom DEF InRoom, PassRecord, NoPass
    <3>3. pass' \in [Almanacker -> PassRecord] /\ \A q \in Almanacker : InRoom(pass'[q])
      BY <2>2, <3>2, MovedInRoom DEF Look
    <3> QED BY <1>1, <2>2, <3>3, InRoomIsTyped DEF Look
  <2>3. CASE ReadToday(p)
    <3> DEFINE r == [pass[p] EXCEPT !.at = "signs", !.base = today, !.signs = Shown(today)]
    <3>1. Shown(today) \in Day
      BY <1>2, ShownIsADay
    <3>2. InRoom(r)
      BY <1>2, <2>1, <3>1 DEF InRoom, PassRecord
    <3>3. pass' \in [Almanacker -> PassRecord] /\ \A q \in Almanacker : InRoom(pass'[q])
      BY <2>3, <3>2, MovedInRoom DEF ReadToday
    <3> QED BY <1>1, <2>3, <3>3, InRoomIsTyped DEF ReadToday
  <2>4. CASE StoreToday(p)
    <3> DEFINE r == [pass[p] EXCEPT !.at = "almanac"]
    <3>1. InRoom(r)
      BY <2>1 DEF InRoom, PassRecord
    <3>2. pass' \in [Almanacker -> PassRecord] /\ \A q \in Almanacker : InRoom(pass'[q])
      BY <2>4, <3>1, MovedInRoom DEF StoreToday
    <3>3. signs' \in [Day -> {None} \cup Day] /\ marker' \in [Almanacker -> {None} \cup Day]
      <4>1. CASE pass[p].signs # None /\ marker[p] # pass[p].base
        <5>1. pass[p].signs \in {None} \cup Day
          BY <2>1 DEF PassRecord
        <5>2. signs' \in [Day -> {None} \cup Day]
          <6>1. Written(signs, pass[p].base, pass[p].signs) \in [Day -> {None} \cup Day]
            BY <1>1, <2>1, <5>1, WrittenTypes
          <6> QED BY <2>4, <4>1, <6>1 DEF StoreToday
        <5>3. marker' \in [Almanacker -> {None} \cup Day]
          BY <1>1, <2>1, <2>4, <4>1 DEF StoreToday
        <5> QED BY <5>2, <5>3
      <4>2. CASE ~(pass[p].signs # None /\ marker[p] # pass[p].base)
        BY <1>1, <2>4, <4>2 DEF StoreToday
      <4> QED BY <4>1, <4>2
    <3> QED BY <1>1, <2>4, <3>2, <3>3, InRoomIsTyped DEF StoreToday
  <2>5. CASE StoreAlmanac(p)
    <3> DEFINE r == [pass[p] EXCEPT !.at = "walk", !.walk = FALSE, !.day = FirstAhead(pass[p].base)]
    <3>1. pass[p].base + 1 \in Day /\ pass[p].base + 1 <= pass[p].base + Ahead
      BY <2>1, DaysAhead DEF InRoom
    <3>2. InRoom(r)
      BY <2>1, <3>1 DEF InRoom, PassRecord, FirstAhead
    <3>3. pass' \in [Almanacker -> PassRecord] /\ \A q \in Almanacker : InRoom(pass'[q])
      BY <2>5, <3>2, NoPassIsInRoom, MovedInRoom DEF StoreAlmanac
    <3>4. stamp' \in [Day -> {None} \cup 0..WalkAge]
      BY <1>1, <1>2, <2>1, <2>5, WrittenTypes DEF StoreAlmanac
    <3> QED BY <1>1, <2>5, <3>3, <3>4, InRoomIsTyped DEF StoreAlmanac
  <2>6. CASE StartWalk(p)
    <3> DEFINE r == [pass[p] EXCEPT !.at = "walk", !.walk = FALSE, !.base = today, !.day = FirstAhead(today)]
    <3>1. today + 1 <= today + Ahead
      BY <1>1, DaysAhead
    <3>2. InRoom(r)
      BY <1>2, <2>1, <3>1 DEF InRoom, PassRecord, FirstAhead
    <3>3. pass' \in [Almanacker -> PassRecord] /\ \A q \in Almanacker : InRoom(pass'[q])
      BY <2>6, <3>2, MovedInRoom DEF StartWalk
    <3> QED BY <1>1, <2>6, <3>3, InRoomIsTyped DEF StartWalk
  <2>7. CASE ReadDay(p)
    <3> DEFINE r == [pass[p] EXCEPT !.at = "write", !.page = Shown(pass[p].day)]
    <3>1. Shown(pass[p].day) \in Day
      BY <2>1, ShownIsADay
    <3>2. InRoom(r)
      BY <2>1, <2>7, <3>1 DEF InRoom, PassRecord, ReadDay
    <3>3. pass' \in [Almanacker -> PassRecord] /\ \A q \in Almanacker : InRoom(pass'[q])
      BY <2>7, <3>2, MovedInRoom DEF ReadDay
    <3> QED BY <1>1, <2>7, <3>3, InRoomIsTyped DEF ReadDay
  <2>8. CASE WriteDay(p)
    <3>1. pass' \in [Almanacker -> PassRecord] /\ \A q \in Almanacker : InRoom(pass'[q])
      BY <2>8, WalkStaysInRoom DEF WriteDay
    <3>2. DaySigns(p) \in {None} \cup Day
      BY <2>1 DEF DaySigns, PassRecord
    <3>3. stamp' \in [Day -> {None} \cup 0..WalkAge] /\ signs' \in [Day -> {None} \cup Day]
      BY <1>1, <1>2, <2>1, <2>8, <3>2, WrittenTypes DEF WriteDay
    <3> QED BY <1>1, <2>8, <3>1, <3>3, InRoomIsTyped DEF WriteDay
  <2> QED BY <1>7, <2>2, <2>3, <2>4, <2>5, <2>6, <2>7, <2>8 DEF AlmanacStep
<1>8. ASSUME NEW p \in Almanacker, Mishap(p) PROVE AlmanacInv'
  <2>1. InRoom(pass[p]) /\ pass[p] \in PassRecord /\ pass[p].base \in Day /\ pass[p].day \in Day
    BY <1>1 DEF PassRecord
  <2>2. CASE ReadTodayBare(p)
    <3> DEFINE r == [pass[p] EXCEPT !.at = "signs", !.base = today]
    <3>1. InRoom(r)
      BY <1>2, <2>1 DEF InRoom, PassRecord
    <3>2. pass' \in [Almanacker -> PassRecord] /\ \A q \in Almanacker : InRoom(pass'[q])
      BY <2>2, <3>1, MovedInRoom DEF ReadTodayBare
    <3> QED BY <1>1, <2>2, <3>2, InRoomIsTyped DEF ReadTodayBare
  <2>3. CASE TodayRefused(p)
    <3> DEFINE r == [pass[p] EXCEPT !.at = "almanac"]
    <3>1. InRoom(r)
      BY <2>1 DEF InRoom, PassRecord
    <3>2. pass' \in [Almanacker -> PassRecord] /\ \A q \in Almanacker : InRoom(pass'[q])
      BY <2>3, <3>1, MovedInRoom DEF TodayRefused
    <3> QED BY <1>1, <2>3, <3>2, InRoomIsTyped DEF TodayRefused
  <2>4. CASE DayRefused(p)
    <3>1. pass' \in [Almanacker -> PassRecord] /\ \A q \in Almanacker : InRoom(pass'[q])
      BY <2>4, WalkStaysInRoom DEF DayRefused
    <3>2. DaySigns(p) \in {None} \cup Day
      BY <2>1 DEF DaySigns, PassRecord
    <3>3. /\ Written(stamp, pass[p].day, 0) \in [Day -> {None} \cup 0..WalkAge]
          /\ Written(signs, pass[p].day, DaySigns(p)) \in [Day -> {None} \cup Day]
      BY <1>1, <1>2, <2>1, <3>2, WrittenTypes
    <3>4. stamp' \in [Day -> {None} \cup 0..WalkAge] /\ signs' \in [Day -> {None} \cup Day]
      BY <1>1, <2>4, <3>3 DEF DayRefused
    <3> QED BY <1>1, <2>4, <3>1, <3>4, InRoomIsTyped DEF DayRefused
  <2>5. CASE GiveUp(p) \/ Redeploy(p)
    <3>1. pass' \in [Almanacker -> PassRecord] /\ \A q \in Almanacker : InRoom(pass'[q])
      BY <2>5, NoPassIsInRoom, MovedInRoom DEF GiveUp, Redeploy
    <3>2. marker' \in [Almanacker -> {None} \cup Day]
      BY <1>1, <2>5 DEF GiveUp, Redeploy
    <3> QED BY <1>1, <2>5, <3>1, <3>2, InRoomIsTyped DEF GiveUp, Redeploy
  <2> QED BY <1>8, <2>2, <2>3, <2>4, <2>5 DEF Mishap
<1>9. CASE UNCHANGED almanacVars
  BY <1>1, <1>9, InRoomIsTyped DEF almanacVars
<1> QED BY <1>3, <1>4, <1>5, <1>6, <1>7, <1>8, <1>9 DEF AlmanacNext

\* For any days, processes and ages the rows and the passes are of their types:
\* a walk of the days ahead that midnight overtakes never writes a day there is
\* no row for.
THEOREM AlmanacTypeCorrect == AlmanacSpec => []AlmanacTypeOK
<1>1. AlmanacInv => AlmanacTypeOK
  BY DEF AlmanacInv
<1>2. AlmanacInv /\ [AlmanacNext]_almanacVars => AlmanacInv'
  BY AlmanacInvStep
<1> QED BY <1>1, <1>2, AlmanacStarts, PTL DEF AlmanacSpec

-----------------------------------------------------------------------------
(* Side by side. *)

\* A step of the magazine is a step of one side and a stutter of the others.
LEMMA EverySideOfTheMagazine ==
    /\ MagazineInit => PicturesInit /\ GuardInit /\ AlmanacInit
    /\ [MagazineNext]_magazineVars =>
         [PicturesNext]_picturesVars /\ [GuardNext]_guardVars /\ [AlmanacNext]_almanacVars
<1>1. MagazineInit => PicturesInit /\ GuardInit /\ AlmanacInit
  BY DEF MagazineInit
<1>2. [MagazineNext]_magazineVars =>
        [PicturesNext]_picturesVars /\ [GuardNext]_guardVars /\ [AlmanacNext]_almanacVars
  BY DEF MagazineNext, PicturesSide, BacklogSide, GuardSide, AlmanacSide, magazineVars
<1> QED BY <1>1, <1>2

\* So what each side keeps on its own it keeps beside the others.
LEMMA MagazineInvariant == MagazineSpec => [](PicturesTypeOK /\ AllSound(row) /\ GuardInv /\ AlmanacInv)
<1>1. AlmanacInv /\ [AlmanacNext]_almanacVars => AlmanacInv'
  BY AlmanacInvStep
<1>2. MagazineInit => PicturesTypeOK /\ AllSound(row) /\ GuardInv /\ AlmanacInv
  BY EverySideOfTheMagazine, PicturesStart, GuardStarts, AlmanacStarts
<1>3. PicturesTypeOK /\ AllSound(row) /\ GuardInv /\ AlmanacInv /\ [MagazineNext]_magazineVars
        => (PicturesTypeOK /\ AllSound(row) /\ GuardInv /\ AlmanacInv)'
  BY <1>1, EverySideOfTheMagazine, PicturesInvStep, GuardInvStep
<1> QED BY <1>2, <1>3, PTL DEF MagazineSpec

\* Every table and every pass of the catalogue is of its type, whichever side moves.
THEOREM MagazineTypeCorrect == MagazineSpec => []MagazineTypeOK
<1>1. PicturesTypeOK /\ AllSound(row) /\ GuardInv /\ AlmanacInv => MagazineTypeOK
  BY DEF GuardInv, AlmanacInv, MagazineTypeOK
<1> QED BY <1>1, MagazineInvariant, PTL

\* Beside the almanac and each other the pictures' marker means what it says, and
\* the guard spares the newest story that has not expired.
THEOREM MagazineKeepsItsWord == MagazineSpec => []ConfirmedUnlessBroughtBack /\ NewestSurvives
<1> DEFINE Spared == \A s \in Published : GuardStep /\ Newest(s) /\ s > horizon => s \in shelf'
<1>1. AllSound(row) => ConfirmedUnlessBroughtBack
  BY DEF AllSound, Sound, ConfirmedUnlessBroughtBack
<1>2. GuardInv => [Spared]_guardVars
  BY NewestIsSpared
<1> QED BY <1>1, <1>2, MagazineInvariant, PTL DEF NewestSurvives
=============================================================================
