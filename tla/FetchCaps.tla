----------------------------- MODULE FetchCaps -----------------------------
(***************************************************************************)
(* The fetching of the pipeline side by side: the article budget           *)
(* (FetchBudget), the way to a publisher's host (Outlets) and the probing  *)
(* of a listing (Listing); the reels pass (ReelsPass), the keys of its     *)
(* providers (KeyPool), a pass over Commons (Commons) and the file a clip  *)
(* is played from (Renditions); and, at the other end, the tab that        *)
(* fetches the feed page by page (LiveFeed).  They share none of the state *)
(* modelled here, so an interleaving of two of them shows nothing that     *)
(* either alone does not: a behaviour exercises one side, and the others   *)
(* are left where they started.                                            *)
(***************************************************************************)
EXTENDS FetchBudget, ReelsPass, Outlets, Listing, KeyPool, Commons, Renditions, LiveFeed

VARIABLE side   \* the side this behaviour exercises

capsVars == <<side, budgetVars, reelsVars, outletsVars, listingVars, keyVars,
              commonsVars, renditionVars, feedVars>>

CapsInit ==
    /\ side \in {"articles", "reels", "outlets", "listing", "keys", "commons", "renditions",
                "feed"}
    /\ BudgetInit
    /\ ReelsInit
    /\ side # "reels" => hung = {}
    /\ OutletsInit
    /\ side # "outlets" => loopOf = (CHOOSE l \in LoopsOf : TRUE)
    /\ ListingInit
    /\ KeyPoolInit
    /\ CommonsInit
    /\ IF side = "renditions" THEN RenditionsInit ELSE NoRenditions
    /\ FeedInit

ArticleSide ==
    /\ side = "articles" /\ BudgetNext
    /\ UNCHANGED <<side, reelsVars, outletsVars, listingVars, keyVars, commonsVars,
                   renditionVars, feedVars>>

ReelsSide ==
    /\ side = "reels" /\ ReelsNext
    /\ UNCHANGED <<side, budgetVars, outletsVars, listingVars, keyVars, commonsVars,
                   renditionVars, feedVars>>

OutletsSide ==
    /\ side = "outlets" /\ OutletsNext
    /\ UNCHANGED <<side, budgetVars, reelsVars, listingVars, keyVars, commonsVars,
                   renditionVars, feedVars>>

ListingSide ==
    /\ side = "listing" /\ ListingNext
    /\ UNCHANGED <<side, budgetVars, reelsVars, outletsVars, keyVars, commonsVars,
                   renditionVars, feedVars>>

KeySide ==
    /\ side = "keys" /\ KeyPoolNext
    /\ UNCHANGED <<side, budgetVars, reelsVars, outletsVars, listingVars, commonsVars,
                   renditionVars, feedVars>>

CommonsSide ==
    /\ side = "commons" /\ CommonsNext
    /\ UNCHANGED <<side, budgetVars, reelsVars, outletsVars, listingVars, keyVars,
                   renditionVars, feedVars>>

RenditionsSide ==
    /\ side = "renditions" /\ RenditionsNext
    /\ UNCHANGED <<side, budgetVars, reelsVars, outletsVars, listingVars, keyVars,
                   commonsVars, feedVars>>

FeedSide ==
    /\ side = "feed" /\ FeedNext
    /\ UNCHANGED <<side, budgetVars, reelsVars, outletsVars, listingVars, keyVars,
                   commonsVars, renditionVars>>

CapsNext ==
    \/ ArticleSide \/ OutletsSide \/ ListingSide
    \/ ReelsSide \/ KeySide \/ CommonsSide \/ RenditionsSide
    \/ FeedSide

\* What the sides' own specifications assume, of the side that moves.
CapsFairness ==
    /\ WF_reelsVars(side = "reels" /\ ReelsTick)
    /\ \A x \in Process : /\ WF_reelsVars(side = "reels" /\ StartPass(x))
                         /\ WF_reelsVars(side = "reels" /\ PassStep(x))
    /\ WF_outletsVars(side = "outlets" /\ OutletsTick)
    /\ \A p \in Fetcher : WF_outletsVars(side = "outlets" /\ FetchStep(p))
    /\ WF_commonsVars(side = "commons" /\ CommonsStep)
    /\ WF_flying(side = "feed" /\ Send(Request("poll", edition, Null, PollSize)))
    /\ WF_flying(side = "feed" /\ \E q \in flying : q.kind = "poll" /\ flying' = flying \ {q})

CapsSpec == CapsInit /\ [][CapsNext]_capsVars /\ CapsFairness

-----------------------------------------------------------------------------
\* Every side holds values of its types, and an article budget is spent by its
\* own polls only: none asks for more than its own cap.
CapsTypeOK ==
    /\ BudgetTypeOK /\ ReelsTypeOK
    /\ OutletsTypeOK /\ ListingTypeOK
    /\ KeyPoolTypeOK /\ CommonsTypeOK /\ RenditionsTypeOK
    /\ FeedTypeOK

\* On the reels side every pass ends, though a provider may hang for ever:
\* _sync_reels bounds the pass, so the job's one slot is always given back.
ReelsPassesEnd == side = "reels" => PassesEnd

\* On the reels side a provider goes on being asked as long as it and those
\* before it answer in the time a pass has, whatever its own interval is.
ReelsKeepAsking == side = "reels" => AskedUnlessBehindAHang

\* On the outlets' side no lock, refusal or foreign loop holds a poll for ever.
FetchesEnd == side = "outlets" => EveryFetchEnds

\* On the Commons side the deep pages come round to every other term.
DeepPagesGoRound == side = "commons" => DeepPagesComeRound

\* On the feed's side every row that arrives reaches the reader.
FeedIsFresh == side = "feed" => NewsReachesTheReader
=============================================================================
