-------------------------- MODULE FetchCaps_proofs --------------------------
(***************************************************************************)
(* Proofs about the fetching of the pipeline side by side: the article     *)
(* budget (FetchBudget), the probing of a listing (Listing) and the        *)
(* composition of all of it (FetchCaps).                                   *)
(*                                                                         *)
(* With every poll on one event loop the cycle cap holds, whatever the     *)
(* caps, the window and the number of polls are. A decision about a        *)
(* listing is what the answers say until the next poll. A step of the      *)
(* composition is a step of one side, and a stutter of every other, so     *)
(* each side keeps the invariant that was proved of it alone.              *)
(***************************************************************************)
EXTENDS FetchCaps, Outlets_proofs, Reels_proofs, LiveFeed_proofs

(* The article budget. *)

\* All the polls run on one event loop, which is what the comment of
\* CycleBudget argues from.
OneLoop == \A p, q \in Poll : LoopOf[p] = LoopOf[q]

\* At most one poll is inside reserve().
Exclusive == \A p, q \in Poll : pc[p] # "out" /\ pc[q] # "out" => p = q

\* What a poll has measured is still what is left when it comes to take it.
MeasureIsFresh == \A p \in Poll : pc[p] = "measured" => seen[p] = Remaining(used)

BudgetInv == BudgetTypeOK /\ WindowCap /\ Exclusive /\ MeasureIsFresh

-----------------------------------------------------------------------------
\* What is left of the cap never takes the spending past it.
LEMMA RemainingFits ==
    ASSUME NEW taken \in Nat
    PROVE  /\ Remaining(taken) \in Nat
           /\ taken <= CycleCap => taken + Remaining(taken) <= CycleCap
  BY BudgetAssumption DEF Remaining

\* The counts of the budget have their types at the start.
LEMMA BudgetStarts == BudgetInit => BudgetTypeOK
  BY BudgetAssumption DEF BudgetInit, BudgetTypeOK

\* And every step keeps them.
LEMMA BudgetTypesAreKept == BudgetTypeOK /\ [BudgetNext]_budgetVars => BudgetTypeOK'
<1> SUFFICES ASSUME BudgetTypeOK, [BudgetNext]_budgetVars PROVE BudgetTypeOK'
  OBVIOUS
<1> USE DEF BudgetTypeOK
<1>1. CASE Tick
  BY <1>1 DEF Tick
<1>2. ASSUME NEW p \in Poll, Enter(p) PROVE BudgetTypeOK'
  BY <1>2, BudgetAssumption DEF Enter, Truncated, SmallerOf
<1>3. ASSUME NEW p \in Poll, Measure(p) PROVE BudgetTypeOK'
  <2>1. started' \in Nat /\ used' \in Nat
    BY <1>3 DEF Measure
  <2>2. Remaining(used') \in Nat
    BY <2>1, RemainingFits
  <2> QED BY <1>3, <2>1, <2>2 DEF Measure
<1>4. ASSUME NEW p \in Poll, Grant(p) PROVE BudgetTypeOK'
  <2>1. used' \in Nat
    BY <1>4 DEF Grant, SmallerOf
  <2>2. wanted' \in [Poll -> 0..SourceCap]
    <3>1. 0 \in 0..SourceCap
      BY BudgetAssumption
    <3> QED BY <1>4, <3>1 DEF Grant, Leave
  <2>3. pc' \in [Poll -> {"out", "timed", "measured"}] /\ seen' \in [Poll -> Nat]
    BY <1>4 DEF Grant, Leave
  <2> QED BY <1>4, <2>1, <2>2, <2>3 DEF Grant, Leave
<1>5. CASE UNCHANGED budgetVars
  BY <1>5 DEF budgetVars
<1> QED BY <1>1, <1>2, <1>3, <1>4, <1>5 DEF BudgetNext

\* The type invariant needs no assumption about the loops.
THEOREM BudgetTypeCorrect == BudgetSpec => []BudgetTypeOK
  BY BudgetStarts, BudgetTypesAreKept, PTL DEF BudgetSpec

\* With one event loop the cap and what it rests on hold at the start.
LEMMA BudgetInvStarts == BudgetInit => BudgetInv
  BY BudgetAssumption DEF BudgetInit, BudgetInv, BudgetTypeOK, WindowCap, Exclusive, MeasureIsFresh

\* And every step keeps them: nobody else is inside reserve() between the measure
\* and the grant.
LEMMA BudgetInvIsKept ==
    ASSUME OneLoop, BudgetInv, [BudgetNext]_budgetVars PROVE BudgetInv'
<1>1. BudgetTypeOK'
  BY BudgetTypesAreKept DEF BudgetInv
<1> USE <1>1 DEF BudgetInv, BudgetTypeOK, WindowCap, Exclusive, MeasureIsFresh
<1>2. CASE Tick
  BY <1>2 DEF Tick
<1>3. ASSUME NEW p \in Poll, Enter(p) PROVE BudgetInv'
  <2>1. \A q \in Poll : pc[q] = "out"
    BY <1>3, OneLoop DEF Enter, LoopFree, OneLoop
  <2> QED BY <1>3, <2>1 DEF Enter
<1>4. ASSUME NEW p \in Poll, Measure(p) PROVE BudgetInv'
  <2>1. \A q \in Poll : q # p => pc[q] = "out"
    BY <1>4 DEF Measure
  <2>2. used' <= CycleCap
    BY <1>4, BudgetAssumption DEF Measure
  <2> QED BY <1>4, <2>1, <2>2 DEF Measure
<1>5. ASSUME NEW p \in Poll, Grant(p) PROVE BudgetInv'
  <2>1. \A q \in Poll : q # p => pc[q] = "out"
    BY <1>5 DEF Grant
  <2>2. used' = used + SmallerOf(wanted[p], Remaining(used))
    BY <1>5 DEF Grant
  <2>3. used + Remaining(used) <= CycleCap
    BY RemainingFits
  <2>4. Remaining(used) \in Nat /\ wanted[p] \in Nat
    BY RemainingFits
  <2>5. used' <= CycleCap
    BY <2>2, <2>3, <2>4, BudgetAssumption DEF SmallerOf
  <2> QED BY <1>5, <2>1, <2>5 DEF Grant, Leave
<1>6. CASE UNCHANGED budgetVars
  BY <1>6 DEF budgetVars
<1> QED BY <1>2, <1>3, <1>4, <1>5, <1>6 DEF BudgetNext

\* With one event loop the cycle cap is never exceeded.
THEOREM CapHoldsOnOneLoop == OneLoop /\ BudgetSpec => []WindowCap
<1> SUFFICES ASSUME OneLoop PROVE BudgetSpec => []WindowCap
  OBVIOUS
<1>1. BudgetInv /\ [BudgetNext]_budgetVars => BudgetInv'
  BY BudgetInvIsKept
<1>2. BudgetInv => WindowCap
  BY DEF BudgetInv
<1> QED BY <1>1, <1>2, BudgetInvStarts, PTL DEF BudgetSpec

-----------------------------------------------------------------------------
(* The probing of a listing. *)

\* What was decided is what the answers say, until the next poll.
DecisionStands ==
    /\ progress = "stored" => kept = InBatch \ Broken
    /\ progress = "refused" /\ cards > 0 => 2 * Cardinality(Broken) > Cardinality(Probed)
    /\ progress \in {"stored", "refused"} => \A c \in Probed : answers[c] \in ProbeAnswer

ListingInv == ListingTypeOK /\ DecisionStands

\* The smaller of two natural numbers.
LEMMA AtMostIsSmaller ==
    ASSUME NEW m \in Nat, NEW n \in Nat
    PROVE  AtMost(m, n) \in Nat /\ AtMost(m, n) <= m /\ AtMost(m, n) <= n
  BY DEF AtMost

\* What is probed is in the batch and has a place among the answers.
LEMMA ProbedTypes ==
    ASSUME ListingTypeOK
    PROVE  /\ Probed \subseteq InBatch /\ InBatch \subseteq 1..ListingCap
           /\ Probed \subseteq 1..AtMost(ProbeWindow, ListingCap)
           /\ IsFiniteSet(Probed) /\ IsFiniteSet(Broken)
           /\ cards \in Nat /\ ListingCap \in Nat
<1>1. /\ cards \in Nat /\ ListingCap \in Nat /\ Batch \in Nat /\ ProbeWindow \in Nat
      /\ cards <= ListingCap
  BY ListingAssumption DEF ListingTypeOK
<1>2. Probed \subseteq InBatch /\ InBatch \subseteq 1..ListingCap
      /\ Probed \subseteq 1..AtMost(ProbeWindow, ListingCap)
  BY <1>1 DEF Probed, InBatch, AtMost
<1>3. IsFiniteSet(Probed)
  <2>1. AtMost(cards, AtMost(Batch, ProbeWindow)) \in Int /\ 1 \in Int
    BY <1>1, AtMostIsSmaller
  <2> QED BY <2>1, FS_Interval DEF Probed
<1>4. IsFiniteSet(Broken)
  BY <1>3, FS_Subset DEF Broken
<1> QED BY <1>1, <1>2, <1>3, <1>4

\* A link that was not read is never taken for a broken one.
LEMMA UnreadVerdict ==
    ASSUME NEW a \in ProbeAnswer, Unread(a)
    PROVE  Verdict(a) # "broken"
  BY DEF Unread, Verdict, RefusedVerdict, ShellVerdict

\* Every step of the poll keeps its types and its decision.
LEMMA ListingStep ==
    ASSUME ListingInv, [ListingNext]_listingVars
    PROVE  ListingInv'
<1> USE DEF ListingInv, ListingTypeOK
<1>1. /\ cards \in Nat /\ ListingCap \in Nat /\ Batch \in Nat /\ ProbeWindow \in Nat
      /\ MaxFound \in Nat
  BY ListingAssumption
<1>2. CASE ReadListing
  <2>1. PICK found \in 0..MaxFound :
          /\ cards' = AtMost(found, ListingCap)
          /\ progress' = IF found = 0 THEN "refused" ELSE "probing"
          /\ kept' = {} /\ answers' = answers
    BY <1>2 DEF ReadListing
  <2>2. cards' \in 0..ListingCap /\ (found = 0 => cards' = 0)
    BY <1>1, <2>1 DEF AtMost
  <2>3. found = 0 => Probed' = {}
    BY <1>1, <2>2 DEF Probed, AtMost
  <2> QED BY <2>1, <2>2, <2>3 DEF DecisionStands
<1>3. ASSUME NEW c \in Probed, ProbeCard(c) PROVE ListingInv'
  BY <1>3 DEF ProbeCard, DecisionStands
<1>4. CASE Decide
  <2>1. \A c \in Probed : answers[c] \in ProbeAnswer
    BY <1>4, ProbedTypes DEF Decide
  <2>2. UNCHANGED <<Probed, Broken, InBatch>>
    BY <1>4 DEF Decide, Probed, Broken, InBatch
  <2>3. ListingTypeOK'
    BY <1>4, ProbedTypes DEF Decide
  <2>4. DecisionStands'
    <3>1. CASE 2 * Cardinality(Broken) > Cardinality(Probed)
      BY <1>4, <2>1, <2>2, <3>1 DEF Decide, DecisionStands
    <3>2. CASE ~(2 * Cardinality(Broken) > Cardinality(Probed))
      BY <1>4, <2>1, <2>2, <3>2 DEF Decide, DecisionStands
    <3> QED BY <3>1, <3>2
  <2> QED BY <2>3, <2>4
<1>5. CASE NextListing
  BY <1>1, <1>5 DEF NextListing, DecisionStands
<1>6. CASE UNCHANGED listingVars
  BY <1>6 DEF listingVars, DecisionStands, Probed, Broken, InBatch
<1> QED BY <1>2, <1>3, <1>4, <1>5, <1>6 DEF ListingNext

\* A decision that stands holds nothing against a link that was not read.
LEMMA StandingDecisionIsFair ==
    ASSUME ListingInv
    PROVE  UnreadIsNotBroken
<1>1. ASSUME progress = "stored", NEW c \in Probed, Unread(answers[c]) PROVE c \in kept
  <2>1. answers[c] \in ProbeAnswer /\ c \in InBatch /\ kept = InBatch \ Broken
    BY <1>1, ProbedTypes DEF ListingInv, DecisionStands
  <2> QED BY <1>1, <2>1, UnreadVerdict DEF Broken
<1>2. ASSUME progress = "refused", cards > 0
      PROVE  2 * Cardinality({c \in Probed : ~Unread(answers[c])}) > Cardinality(Probed)
  <2> DEFINE read == {c \in Probed : ~Unread(answers[c])}
  <2>1. Broken \subseteq read
    BY <1>2, UnreadVerdict DEF ListingInv, DecisionStands, Broken
  <2>2. IsFiniteSet(read) /\ IsFiniteSet(Probed) /\ IsFiniteSet(Broken)
    BY ProbedTypes, FS_Subset DEF ListingInv
  <2>3. Cardinality(Broken) <= Cardinality(read)
    BY <2>1, <2>2, FS_Subset
  <2>4. Cardinality(Broken) \in Nat /\ Cardinality(read) \in Nat /\ Cardinality(Probed) \in Nat
    BY <2>2, FS_CardinalityType
  <2>5. 2 * Cardinality(Broken) > Cardinality(Probed)
    BY <1>2 DEF ListingInv, DecisionStands
  <2> HIDE DEF read
  <2>6. 2 * Cardinality(read) > Cardinality(Probed)
    BY <2>3, <2>4, <2>5
  <2> QED BY <2>6 DEF read
<1> QED BY <1>1, <1>2 DEF UnreadIsNotBroken

\* Nothing has been read to begin with.
LEMMA ListingStarts ==
    ASSUME ListingInit
    PROVE  ListingInv
<1>1. cards = 0 /\ ListingCap \in Nat /\ progress = "idle" /\ kept = {}
  BY ListingAssumption DEF ListingInit
<1> QED BY <1>1 DEF ListingInit, ListingInv, ListingTypeOK, DecisionStands

\* A link nobody could tell anything of, a refused one the busy reader does not show
\* among them, is kept and does not count towards a refusal, whatever the length of
\* the listing, of the batch and of the window.  It does not say that a busy reader
\* costs nothing: a shell that is served to our own read, too, is counted as broken.
THEOREM UnreadLinksAreSpared == ListingSpec => []UnreadIsNotBroken
  BY ListingStarts, ListingStep, StandingDecisionIsFair, PTL DEF ListingSpec

-----------------------------------------------------------------------------
(* Side by side. *)

\* A step of the composition is a step of one side and a stutter of the others.
LEMMA EverySide ==
    /\ CapsInit => /\ BudgetInit /\ ReelsInit /\ OutletsInit /\ ListingInit
                   /\ KeyPoolInit /\ CommonsInit /\ (RenditionsInit \/ NoRenditions) /\ FeedInit
    /\ [CapsNext]_capsVars =>
         /\ [BudgetNext]_budgetVars /\ [ReelsNext]_reelsVars
         /\ [OutletsNext]_outletsVars /\ [ListingNext]_listingVars
         /\ [KeyPoolNext]_keyVars /\ [CommonsNext]_commonsVars
         /\ [RenditionsNext]_renditionVars /\ [FeedNext]_feedVars
<1>1. CapsInit => /\ BudgetInit /\ ReelsInit /\ OutletsInit /\ ListingInit
                  /\ KeyPoolInit /\ CommonsInit /\ (RenditionsInit \/ NoRenditions) /\ FeedInit
  BY DEF CapsInit
<1>2. [CapsNext]_capsVars =>
        /\ [BudgetNext]_budgetVars /\ [ReelsNext]_reelsVars
        /\ [OutletsNext]_outletsVars /\ [ListingNext]_listingVars
        /\ [KeyPoolNext]_keyVars /\ [CommonsNext]_commonsVars
        /\ [RenditionsNext]_renditionVars /\ [FeedNext]_feedVars
  BY DEF CapsNext, ArticleSide, ReelsSide, OutletsSide, ListingSide, KeySide, CommonsSide,
         RenditionsSide, FeedSide, capsVars
<1> QED BY <1>1, <1>2

\* What the sides keep, each of its own.
CapsInv ==
    /\ BudgetTypeOK /\ ReelsInv /\ ReaderInv /\ ListingInv
    /\ KeyPoolInv /\ CommonsInv /\ RenditionsInv /\ FeedInv

\* Side by side they keep it too.
LEMMA CapsInvariant == CapsSpec => []CapsInv
<1>1. CapsInit => CapsInv
  BY EverySide, BudgetStarts, ReelsTypesStart, ReaderStarts, ListingStarts, KeyPoolStarts,
     CommonsStarts, RenditionsStart, FeedStarts DEF CapsInv
<1>2. ASSUME CapsInv, [CapsNext]_capsVars PROVE CapsInv'
  <2>1. BudgetTypeOK' /\ ReelsInv' /\ ReaderInv'
    BY <1>2, EverySide, BudgetTypesAreKept, ReelsInvStep, ReaderInvStep DEF CapsInv
  <2>2. ListingInv' /\ KeyPoolInv'
    BY <1>2, EverySide, ListingStep, KeyPoolInvIsKept DEF CapsInv
  <2>3. CommonsInv' /\ RenditionsInv' /\ FeedInv'
    BY <1>2, EverySide, CommonsInvStep, RenditionsStep, FeedStep DEF CapsInv
  <2> QED BY <2>1, <2>2, <2>3 DEF CapsInv
<1> QED BY <1>1, <1>2, PTL DEF CapsSpec

\* Everything the fetching keeps is of its type, whichever side moves.
THEOREM CapsTypeCorrect == CapsSpec => []CapsTypeOK
<1>1. CapsInv => CapsTypeOK
  BY DEF CapsInv, ReelsInv, ReaderInv, OutletsInv, ListingInv, KeyPoolInv, CommonsInv,
         RenditionsInv, FeedInv, CapsTypeOK
<1> QED BY <1>1, CapsInvariant, PTL

\* Beside each other the sides keep what they promise: the pass cap leaves something
\* for every provider, a link nobody could tell anything of is spared, no usable key is
\* passed over, the terms and the places of Commons are all used, the file played is the best there was, the tab
\* skips nothing, and a publisher and the reader are asked at their own pace.
THEOREM SidesKeepTheirWord ==
    CapsSpec =>
      /\ [](/\ PassCapHolds /\ CapReachesEveryone
            /\ RobotsAskedOnce
            /\ UnreadIsNotBroken
            /\ NoUsableKeyIsPassedOver
            /\ EveryTermIsReached /\ NoPlaceIsWasted
            /\ HeardAndSharp /\ FloorHolds /\ PosterIsNoUpscale
            /\ NothingIsSkipped)
      /\ HostIsPaced
      /\ ReaderIsPacedOnOneLoop
<1> DEFINE HostPaced == \A p \in Fetcher :
                          AskPublisher(p) => /\ sinceHost >= RowInterval
                                             /\ wasSlow => sinceHost >= CrawlDelay
           ReaderPaced == \A p \in Fetcher :
                            AskReader(p) /\ (\A q \in Fetcher : loopOf[q] = loopOf[p])
                              => sinceReader >= ReaderInterval
           Word == /\ PassCapHolds /\ CapReachesEveryone
                   /\ RobotsAskedOnce
                   /\ UnreadIsNotBroken
                   /\ NoUsableKeyIsPassedOver
                   /\ EveryTermIsReached /\ NoPlaceIsWasted
                   /\ HeardAndSharp /\ FloorHolds /\ PosterIsNoUpscale
                   /\ NothingIsSkipped
<1>1. CapsInv => Word
  <2> SUFFICES ASSUME CapsInv PROVE Word
    OBVIOUS
  <2>1. PassCapHolds /\ CapReachesEveryone /\ RobotsAskedOnce /\ NoUsableKeyIsPassedOver
    BY DEF CapsInv, ReelsInv, PassInv, ReaderInv, OutletsInv, OnceSoFar, RobotsAskedOnce, KeyPoolInv
  <2>2. UnreadIsNotBroken /\ EveryTermIsReached /\ NoPlaceIsWasted
    BY StandingDecisionIsFair, DealIsFair DEF CapsInv, CommonsInv
  <2>3. HeardAndSharp /\ FloorHolds /\ PosterIsNoUpscale /\ NothingIsSkipped
    BY ChoicesAreGood DEF CapsInv, FeedInv
  <2> QED BY <2>1, <2>2, <2>3
<1>2. CapsInv => [HostPaced]_outletsVars /\ [ReaderPaced]_outletsVars
  BY HolderHasWaited, ReaderHasWaited DEF CapsInv, ReaderInv
<1> QED BY <1>1, <1>2, CapsInvariant, PTL DEF HostIsPaced, ReaderIsPacedOnOneLoop

\* With every poll on one event loop the cycle cap holds beside the other sides.
THEOREM CapHoldsBesides == OneLoop /\ CapsSpec => []WindowCap
<1> SUFFICES ASSUME OneLoop PROVE CapsSpec => []WindowCap
  OBVIOUS
<1>1. CapsInit => BudgetInv
  BY EverySide, BudgetInvStarts
<1>2. BudgetInv /\ [CapsNext]_capsVars => BudgetInv'
  BY EverySide, BudgetInvIsKept
<1>3. BudgetInv => WindowCap
  BY DEF BudgetInv
<1> QED BY <1>1, <1>2, <1>3, PTL DEF CapsSpec
=============================================================================
