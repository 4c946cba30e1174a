----------------------------- MODULE Renditions -----------------------------
(***************************************************************************)
(* Which file of a clip the reader is sent, and how wide its poster is:    *)
(* _best_video_url and commons_poster_width for a Commons file,            *)
(* _pick_rendition for a Pexels one, _pick_variant for a Pixabay one (all  *)
(* of reels/providers.py).  Each makes its choice by narrowing a set down; *)
(* the properties say what the choice is worth against every file it       *)
(* passed over.                                                            *)
(***************************************************************************)
EXTENDS Naturals, FiniteSets

CONSTANTS
    Heights,      \* the heights files come in; 0 where the provider names none
    MinHeight,
    PreferredHeight,
    Rungs,        \* COMMONS_THUMBNAIL_WIDTHS
    PosterWidth,  \* COMMONS_PREFERRED_POSTER_WIDTH
    PlainWidth,   \* COMMONS_FALLBACK_POSTER_WIDTH, for a width nobody knows
    SourceWidths, \* the widths originals come in; 0 where it is not known
    MaxFiles      \* bound: the files of one clip

ASSUME RenditionsAssumption ==
    /\ Heights \cup SourceWidths \subseteq Nat
    /\ {MinHeight, PreferredHeight, PosterWidth, PlainWidth, MaxFiles} \subseteq Nat \ {0}
    /\ MinHeight <= PreferredHeight
    /\ Rungs # {} /\ Rungs \subseteq Nat \ {0}

\* What a browser makes of a file, the first the best: H.264 in an mp4 plays
\* everywhere, webm not on every phone, and the rest nowhere.
Formats == {"mp4", "webm", "unplayable"}

File == [format : Formats, sound : BOOLEAN, height : Heights]
Nothing == [format |-> "nothing", sound |-> FALSE, height |-> 0]

VARIABLES
    provider,     \* who has the clip
    files,        \* the files it comes in, the original apart
    original,     \* the original, or Nothing where its host is not to be linked to
    width,        \* how wide the original is
    served,       \* the file the card will play, or Nothing
    poster,       \* the rung of the poster
    chosen        \* whether the choice has been made

renditionVars == <<provider, files, original, width, served, poster, chosen>>

NoRenditions ==
    /\ provider = "wikimedia"
    /\ files = {}
    /\ original = Nothing
    /\ width = 0
    /\ served = Nothing
    /\ poster = 0
    /\ chosen = FALSE

RenditionsInit ==
    /\ provider \in {"wikimedia", "pexels", "pixabay"}
    /\ files \in {s \in SUBSET File : Cardinality(s) <= MaxFiles}
    /\ original \in {Nothing} \cup [format : Formats, sound : {TRUE}, height : {PreferredHeight}]
    /\ provider # "wikimedia" => original = Nothing
    /\ width \in SourceWidths
    /\ served = Nothing
    /\ poster = 0
    /\ chosen = FALSE

-----------------------------------------------------------------------------
Tallest(s) == {f \in s : \A g \in s : g.height <= f.height}
Shortest(s) == {f \in s : \A g \in s : f.height <= g.height}

\* The members of s that have what is wanted, or all of them if none has.
Those(s, wanted) == IF wanted = {} THEN s ELSE wanted

\* A slip in CommonsChoice: the size is looked at before the sound.
SizeBeforeSound(s) ==
    LET playable == {f \in s : f.format # "unplayable"}
        ranked == Those(playable, {f \in playable : f.format = "mp4"})
        usable == Those(ranked, {f \in ranked : f.height >= MinHeight})
        below == {f \in usable : f.height <= PreferredHeight}
        sized == IF below # {} THEN Tallest(below) ELSE Shortest(usable)
    IN  Those(sized, {f \in sized : f.sound})

\* _best_video_url: of the transcodes those most browsers play, of those the ones
\* with sound, of those the ones above the floor; the tallest that is no taller
\* than we prefer, or else the shortest.
CommonsChoice(s) ==
    LET playable == {f \in s : f.format # "unplayable"}
        ranked == Those(playable, {f \in playable : f.format = "mp4"})
        heard == Those(ranked, {f \in ranked : f.sound})
        usable == Those(heard, {f \in heard : f.height >= MinHeight})
        below == {f \in usable : f.height <= PreferredHeight}
    IN  IF below # {} THEN Tallest(below) ELSE Shortest(usable)

\* A slip in PexelsChoice: without HD, whatever is largest.
NoFloor(s) == Tallest(s)

\* _pick_rendition: the tallest with the HD floor, or with the low one.
PexelsChoice(s) ==
    LET tall == {f \in s : f.height >= PreferredHeight}
    IN  Tallest(Those({f \in s : f.height >= MinHeight}, tall))

\* _pick_variant: the tallest; one whose height is not known is never too low.
PixabayChoice(s) == Tallest({f \in s : f.height = 0 \/ f.height >= MinHeight})

\* A slip in PosterRung: the widest rung we like, however narrow the original.
WidestWeLike(w) == CHOOSE r \in Rungs : r <= PosterWidth /\ \A q \in Rungs : q <= PosterWidth => q <= r

\* commons_poster_width: the widest rung that is neither wider than we want nor
\* than the original; of an unknown width, a modest one; failing all, the lowest.
PosterRung(w) ==
    LET limit == IF w = 0 THEN PlainWidth ELSE IF w < PosterWidth THEN w ELSE PosterWidth
        fit == {r \in Rungs : r <= limit}
    IN  IF fit = {}
        THEN CHOOSE r \in Rungs : \A q \in Rungs : r <= q
        ELSE CHOOSE r \in fit : \A q \in fit : q <= r

\* The original is played only where no transcode can be.
Choose ==
    /\ ~chosen
    /\ LET offer == CASE provider = "wikimedia" -> CommonsChoice(files)
                      [] provider = "pexels"    -> PexelsChoice(files)
                      [] provider = "pixabay"   -> PixabayChoice(files)
       IN  \/ offer # {} /\ served' \in offer
           \/ offer = {} /\ served' = IF original.format = "unplayable" THEN Nothing ELSE original
    /\ poster' = IF provider = "wikimedia" THEN PosterRung(width) ELSE 0
    /\ chosen' = TRUE
    /\ UNCHANGED <<provider, files, original, width>>

RenditionsNext == Choose

RenditionsSpec == RenditionsInit /\ [][RenditionsNext]_renditionVars

-----------------------------------------------------------------------------
\* The choice is one of the files, or the original, or nothing.
RenditionsTypeOK ==
    /\ files \subseteq File
    /\ served \in files \cup {original, Nothing}
    /\ poster \in Rungs \cup {0}
    /\ chosen \in BOOLEAN

\* The card of a Commons clip makes a sound whenever a file as widely playable
\* as the one it was given has any, and is then as sharp as such a file can be
\* without being larger than we prefer.
HeardAndSharp ==
    chosen /\ provider = "wikimedia" /\ served \in files =>
        /\ served.format # "unplayable"
        /\ \A f \in files : f.format = served.format /\ f.sound =>
             /\ served.sound
             /\ f.height <= PreferredHeight => f.height <= served.height

\* No card is given a preview for a video: a file known to be below the floor is
\* served only by Commons, and only when no file it could rank with it is above.
FloorHolds ==
    chosen /\ served \in files /\ served.height \in 1..MinHeight - 1 =>
        /\ provider = "wikimedia"
        /\ \A f \in files : f.format = served.format /\ f.sound = served.sound => f.height < MinHeight

\* "A rung WIDER than the source is never chosen", where there is one to choose.
PosterIsNoUpscale ==
    chosen /\ provider = "wikimedia" /\ (\E r \in Rungs : r <= width) => poster <= width
=============================================================================
