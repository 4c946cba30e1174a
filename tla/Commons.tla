------------------------------ MODULE Commons ------------------------------
(***************************************************************************)
(* A pass of WikimediaSource (reels/providers.py): prepare() reads from    *)
(* the catalogue whether the source has run dry, _fetch() asks every term  *)
(* for its newest page and then the deep pages round by round while the    *)
(* budget lasts, each search waits out a throttle and a busy answer, and   *)
(* apply_language_mix() deals the places of the feed to the two groups.    *)
(* Clips are counted, not named.                                           *)
(***************************************************************************)
EXTENDS Naturals, Sequences, FiniteSets

CONSTANTS
    Terms,           \* the configured terms in their order, cleaned, none twice
    NepaliTerms,     \* those marked ne:
    PagesPerTerm,    \* COMMONS_PAGES_PER_TERM
    RequestBudget,   \* COMMONS_MAX_REQUESTS_PER_PASS
    ClipsPerTerm,    \* COMMONS_MAX_CLIPS_PER_TERM
    BusyAttempts,    \* BUSY_RETRY_ATTEMPTS
    ThrottleRetries, \* RATE_LIMIT_RETRIES
    ReelLimit,       \* what one provider may contribute to one pass
    OtherCap,        \* COMMONS_OTHER_SHARE of ReelLimit
    IdleLimit        \* EXHAUSTED_IDLE_SECONDS, in ticks

TermSet == {Terms[i] : i \in 1..Len(Terms)}

ASSUME CommonsAssumption ==
    /\ Terms \in Seq(TermSet) /\ Len(Terms) > 0
    /\ Cardinality(TermSet) = Len(Terms)
    /\ NepaliTerms \subseteq TermSet
    /\ {PagesPerTerm, ClipsPerTerm, BusyAttempts, OtherCap, IdleLimit} \subseteq Nat \ {0}
    /\ {ThrottleRetries, RequestBudget} \subseteq Nat
    /\ ReelLimit \in Nat /\ OtherCap < ReelLimit

VARIABLES
    passes,     \* _reels_pass, counted round the list
    idle,       \* ticks since this source last stored a clip
    rounds,     \* the pages the pass asks of each term: 1 when the source ran dry
    position,   \* the ask that is next
    requests,   \* requests_made
    spent,      \* the terms not asked again
    failed,     \* failed_terms
    clips,      \* per term, the usable clips its pages held
    newest,     \* the terms asked for their newest page
    deep,       \* the terms asked for a deep one
    waits,      \* the throttles and the busy answers of the search that is out
    phase,      \* what the pass is doing, or how the last one ended
    dealt       \* the clips of each group the pass stores

commonsVars == <<passes, idle, rounds, position, requests, spent, failed, clips,
                 newest, deep, waits, phase, dealt>>

NoWaits == [throttled |-> 0, busy |-> 0]
NobodyDealt == [other |-> 0, nepali |-> 0]
Ended == {"stored", "raised", "cut"}

SmallerCount(m, n) == IF m < n THEN m ELSE n

CommonsInit ==
    /\ passes = 0
    /\ idle = 0
    /\ rounds = PagesPerTerm
    /\ position = 0
    /\ requests = 0
    /\ spent = {} /\ failed = {} /\ newest = {} /\ deep = {}
    /\ clips = [t \in TermSet |-> 0]
    /\ waits = NoWaits
    /\ phase = "stored"
    /\ dealt = NobodyDealt

-----------------------------------------------------------------------------
(* The asks. *)

\* A slip in Rotated: the list is asked in the order it was configured in.
AsConfigured(n) == Terms

\* _sync_reels: the whole list is rotated by one term every pass.
Rotated(n) == [i \in 1..Len(Terms) |-> Terms[((i - 1 + n) % Len(Terms)) + 1]]

\* Where a term stands in the list of this pass.
Standing(t) ==
    CHOOSE i \in 1..Len(Terms) : Rotated((passes + Len(Terms) - 1) % Len(Terms))[i] = t

\* _grouped_terms: the other terms, then the Nepali ones, each as the list has them.
AskedBefore(s, t) ==
    \/ s \notin NepaliTerms /\ t \in NepaliTerms
    \/ (s \in NepaliTerms <=> t \in NepaliTerms) /\ Standing(s) < Standing(t)

AskedFirst(t) == {s \in TermSet : AskedBefore(s, t)}

Grouped == [i \in 1..Len(Terms) |-> CHOOSE t \in TermSet : Cardinality(AskedFirst(t)) = i - 1]

\* A slip in Asked: all the pages of a term before the next term.
TermByTerm(i) == [term |-> Grouped[(i \div rounds) + 1], page |-> i % rounds]

\* The i-th ask: every term's newest page first, then one deep page of each
\* term a round.
Asked(i) == [term |-> Grouped[(i % Len(Terms)) + 1], page |-> i \div Len(Terms)]

AsksLeft == position < rounds * Len(Terms) /\ requests < RequestBudget

-----------------------------------------------------------------------------
(* A pass. *)

\* prepare: a source with nothing new for hours is asked for its newest pages
\* only; a catalogue that cannot be read, or that is still small, changes nothing.
StartReelsPass ==
    /\ phase \in Ended
    /\ \/ rounds' = PagesPerTerm
       \/ rounds' = 1 /\ idle = IdleLimit
    /\ passes' = (passes + 1) % Len(Terms)
    /\ position' = 0
    /\ requests' = 0
    /\ spent' = {} /\ failed' = {} /\ newest' = {} /\ deep' = {}
    /\ clips' = [t \in TermSet |-> 0]
    /\ waits' = NoWaits
    /\ dealt' = NobodyDealt
    /\ phase' = "asking"
    /\ UNCHANGED idle

\* A term that ran out or failed is not asked again.
SkipTerm ==
    /\ phase = "asking"
    /\ AsksLeft
    /\ Asked(position).term \in spent
    /\ position' = position + 1
    /\ UNCHANGED <<passes, idle, rounds, requests, spent, failed, clips, newest, deep,
                   waits, phase, dealt>>

SendAsk ==
    /\ phase = "asking"
    /\ AsksLeft
    /\ LET ask == Asked(position) IN
         /\ ask.term \notin spent
         /\ newest' = IF ask.page = 0 THEN newest \cup {ask.term} ELSE newest
         /\ deep' = IF ask.page = 0 THEN deep ELSE deep \cup {ask.term}
    /\ requests' = requests + 1
    /\ waits' = NoWaits
    /\ phase' = "out"
    /\ UNCHANGED <<passes, idle, rounds, position, spent, failed, clips, dealt>>

\* _send_waiting_out_throttle: a 429 is waited out, a few times; after that it is
\* what the search has come to, and no JSON.
Throttled ==
    /\ phase = "out"
    /\ waits.throttled < ThrottleRetries
    /\ waits' = [waits EXCEPT !.throttled = @ + 1]
    /\ UNCHANGED <<passes, idle, rounds, position, requests, spent, failed, clips, newest,
                   deep, phase, dealt>>

\* _search_with_retry: "too busy" is asked again after a pause, in a new send; an
\* answer without its videoinfo is asked again with a smaller page, the same way.
Busy ==
    /\ phase = "out"
    /\ waits.busy < BusyAttempts - 1
    /\ waits' = [throttled |-> 0, busy |-> waits.busy + 1]
    /\ UNCHANGED <<passes, idle, rounds, position, requests, spent, failed, clips, newest,
                   deep, phase, dealt>>

\* The search raised: the term is done, the pass is not.
AskFails ==
    /\ phase = "out"
    /\ LET t == Asked(position).term IN
         /\ failed' = failed \cup {t}
         /\ spent' = spent \cup {t}
    /\ position' = position + 1
    /\ phase' = "asking"
    /\ waits' = NoWaits
    /\ UNCHANGED <<passes, idle, rounds, requests, clips, newest, deep, dealt>>

\* A page, with some clips nobody may refuse in it; a short one ends its term.
PageArrives(short, more) ==
    /\ phase = "out"
    /\ LET t == Asked(position).term IN
         /\ spent' = IF short THEN spent \cup {t} ELSE spent
         /\ clips' = [clips EXCEPT ![t] = SmallerCount(@ + more, ClipsPerTerm)]
    /\ position' = position + 1
    /\ phase' = "asking"
    /\ waits' = NoWaits
    /\ UNCHANGED <<passes, idle, rounds, requests, failed, newest, deep, dealt>>

-----------------------------------------------------------------------------
(* The end of a pass. *)

\* How many clips the terms of a group brought: a clip is a term and a number.
ClipsOf(group) == Cardinality({c \in group \X (1..ClipsPerTerm) : c[2] <= clips[c[1]]})

OtherClips == ClipsOf(TermSet \ NepaliTerms)
NepaliClips == ClipsOf(NepaliTerms)

\* A slip in Mixed: a place one group leaves empty stays empty.
CapsOnly(others, nepalis) ==
    [other |-> SmallerCount(others, OtherCap),
     nepali |-> SmallerCount(nepalis, ReelLimit - OtherCap)]

\* apply_language_mix: each group up to its cap, then what is left of the limit
\* to whichever group has more, the others first.
Mixed(others, nepalis) ==
    LET o == SmallerCount(others, OtherCap)
        n == SmallerCount(nepalis, ReelLimit - OtherCap)
        toOthers == SmallerCount(others - o, ReelLimit - o - n)
        toNepalis == SmallerCount(nepalis - n, ReelLimit - o - n - toOthers)
    IN  [other |-> o + toOthers, nepali |-> n + toNepalis]

\* Every term failed, which is an outage; otherwise what was found is stored,
\* and what is new among it wakes the source up.
FinishReelsPass ==
    /\ phase = "asking"
    /\ ~AsksLeft
    /\ IF failed = TermSet
       THEN phase' = "raised" /\ UNCHANGED <<dealt, idle>>
       ELSE /\ phase' = "stored"
            /\ dealt' = Mixed(OtherClips, NepaliClips)
            /\ idle' \in IF dealt' = NobodyDealt THEN {idle} ELSE {idle, 0}
    /\ UNCHANGED <<passes, rounds, position, requests, spent, failed, clips, newest, deep,
                   waits>>

\* The pass runs into its timeout, and what it had found is gone with it.
CutShort ==
    /\ phase \in {"asking", "out"}
    /\ phase' = "cut"
    /\ position' = 0 /\ requests' = 0 /\ rounds' = PagesPerTerm
    /\ spent' = {} /\ failed' = {} /\ newest' = {} /\ deep' = {}
    /\ clips' = [t \in TermSet |-> 0]
    /\ waits' = NoWaits
    /\ UNCHANGED <<passes, idle, dealt>>

\* A new process counts its passes from none.
NewProcess ==
    /\ phase \in Ended
    /\ passes' = 0
    /\ UNCHANGED <<idle, rounds, position, requests, spent, failed, clips, newest, deep,
                   waits, phase, dealt>>

IdleTick ==
    /\ phase \in Ended
    /\ idle < IdleLimit
    /\ idle' = idle + 1
    /\ UNCHANGED <<passes, rounds, position, requests, spent, failed, clips, newest, deep,
                   waits, phase, dealt>>

CommonsStep ==
    \/ StartReelsPass \/ SkipTerm \/ SendAsk
    \/ \E short \in BOOLEAN, more \in 0..ClipsPerTerm : PageArrives(short, more)
    \/ FinishReelsPass

CommonsNext ==
    \/ CommonsStep
    \/ Throttled \/ Busy \/ AskFails
    \/ CutShort \/ NewProcess \/ IdleTick

\* The job keeps starting passes, and a pass goes on while it is answered.
CommonsFairness == WF_commonsVars(CommonsStep)

CommonsSpec == CommonsInit /\ [][CommonsNext]_commonsVars /\ CommonsFairness

-----------------------------------------------------------------------------
\* The pass and its counts hold values of their types.
CommonsTypeOK ==
    /\ passes \in 0..Len(Terms) - 1
    /\ idle \in 0..IdleLimit
    /\ rounds \in {1, PagesPerTerm}
    /\ position \in 0..PagesPerTerm * Len(Terms)
    /\ requests \in 0..RequestBudget
    /\ failed \subseteq spent /\ spent \subseteq newest /\ deep \subseteq newest
    /\ clips \in [TermSet -> 0..ClipsPerTerm]
    /\ waits \in [throttled : 0..ThrottleRetries, busy : 0..BusyAttempts - 1]
    /\ phase \in Ended \cup {"asking", "out"}
    /\ dealt \in [other : 0..ReelLimit, nepali : 0..ReelLimit]

\* A budget that reaches round the list reaches every term: whatever failed, ran
\* dry or was busy, a pass that came to its end has asked each for its newest
\* page, the Nepali ones at the end of the list too.
EveryTermIsReached ==
    RequestBudget >= Len(Terms) /\ phase \in {"stored", "raised"} /\ requests > 0
        => newest = TermSet

\* A group that comes up short gives its places to the other one, and one that
\* does not keeps its own: no clip is left out while there is a place for it.
NoPlaceIsWasted ==
    phase = "stored" /\ requests > 0 =>
        /\ dealt.other + dealt.nepali = SmallerCount(ReelLimit, OtherClips + NepaliClips)
        /\ dealt.nepali >= SmallerCount(NepaliClips, ReelLimit - OtherCap)

\* "The terms that miss out this pass are the ones at the END of the list - and
\* the list is rotated every pass": the deep pages come round to each of the other
\* terms again and again, whatever the rest of the list is doing, as long as
\*  - its own searches are answered with full pages,
\*  - the source keeps storing something new before it counts as dry (a dry one
\*    is asked for its newest pages only, and a dry pass uses up a rotation), and
\*  - no pass runs into its timeout and no process starts over, both of which
\*    take the deep pages of a pass or the turns of the rotation with them.
DeepPagesComeRound ==
    \A t \in TermSet \ NepaliTerms :
      ( /\ <>[](t \notin spent)
        /\ <>[](idle < IdleLimit)
        /\ <>[][~(CutShort \/ NewProcess)]_commonsVars )
      => []<>(t \in deep)
=============================================================================
