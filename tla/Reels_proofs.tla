---------------------------- MODULE Reels_proofs ----------------------------
(***************************************************************************)
(* Proofs about the reels: the pass over the providers (ReelsPass), the    *)
(* keys of a provider (KeyPool), a pass over Commons (Commons) and the     *)
(* file a clip is played from (Renditions), for any providers, caps, keys, *)
(* terms, budgets, heights and widths.                                     *)
(*                                                                         *)
(* A pass: whatever a share was rounded to, a clip is left for every       *)
(* provider still to be asked. The keys: each request moves the cursor on, *)
(* by at least one place and never past a key that is still to be tried,   *)
(* so such a key comes nearer with every request; after as many requests   *)
(* as there are keys none can be left.                                     *)
(*                                                                         *)
(* Commons: the order of the asks is a permutation of the terms, so the    *)
(* asks a budget of one round allows are of all of them; and the places of *)
(* the feed are dealt to the two groups until there are no places or no    *)
(* clips left. The file: each rule prefers step by step, and keeps         *)
(* something whenever there was something, so what is served is as sound   *)
(* and as tall as anything there was.                                      *)
(***************************************************************************)
EXTENDS ReelsPass, KeyPool, Commons, Renditions, LeastElements, FiniteSetTheorems

(* The pass over the providers. *)

\* The ceiling division: a share of at least one, at most what is left.
LEMMA ShareFits ==
    ASSUME NEW left \in Nat \ {0}, NEW among \in Nat \ {0}
    PROVE  Share(left, among) \in Nat \ {0} /\ Share(left, among) <= left
<1> DEFINE q == (left + among - 1) \div among
<1>1. q \in Int /\ among * q <= left + among - 1 /\ left + among - 1 < among * q + among
  OBVIOUS
<1> QED BY <1>1 DEF Share

\* A clip for each of them leaves, after one share, a clip for each of the rest.
LEMMA ShareLeavesEnough ==
    ASSUME NEW left \in Nat \ {0}, NEW among \in Nat \ {0}, left >= among
    PROVE  left - Share(left, among) >= among - 1
<1> DEFINE q == (left + among - 1) \div among
<1>1. q \in Int /\ among * q <= left + among - 1 /\ left + among - 1 < among * q + among
  OBVIOUS
<1> QED BY <1>1 DEF Share

\* The parts of the state the caps depend on.
CountersOK ==
    /\ turn \in [Process -> 0..Len(Order)]
    /\ asked \in [Process -> Nat]
    /\ fetched \in [Process -> Nat]

\* A request is in flight only during a pass, and once it is answered there is
\* still a clip for each provider after the one asked.
AskingInAPass == \A x \in Process : Asking(x) => ~Idle(x)
EnoughAfter ==
    PassCap >= Len(Order) =>
      \A x \in Process :
        Asking(x) => PassCap - fetched[x] - asked[x] >= Len(Order) - turn[x]

PassInv == CountersOK /\ PassCapHolds /\ CapReachesEveryone /\ AskingInAPass /\ EnoughAfter

\* All that the caps need to know of the constants.
LEMMA CapsArePositive ==
    Len(Order) \in Nat \ {0} /\ PassCap \in Nat \ {0} /\ PerProviderCap \in Nat \ {0}
  BY ReelsAssumption

\* The invariant holds when the processes start.
LEMMA PassInvInit == ReelsInit => PassInv
  BY CapsArePositive
  DEF ReelsInit, PassInv, CountersOK, PassCapHolds, CapReachesEveryone, AskingInAPass,
      EnoughAfter, Asking, Idle

\* Every step of a pass keeps the invariant.
LEMMA PassInvStep == PassInv /\ [ReelsNext]_reelsVars => PassInv'
<1> SUFFICES ASSUME PassInv, [ReelsNext]_reelsVars PROVE PassInv'
  OBVIOUS
<1> USE CapsArePositive
    DEF PassInv, CountersOK, PassCapHolds, CapReachesEveryone, AskingInAPass, EnoughAfter,
        Asking, Idle, Left, ProvidersLeft
<1>1. CASE ReelsTick
  BY <1>1 DEF ReelsTick
<1>2. ASSUME NEW x \in Process, StartPass(x) PROVE PassInv'
  BY <1>2 DEF StartPass
<1>3. ASSUME NEW x \in Process, SkipTo(x) PROVE PassInv'
  <2>1. asked' = asked /\ fetched' = fetched /\ turn' = [turn EXCEPT ![x] = After(x)]
        /\ asked[x] = 0 /\ turn[x] \in 1..Len(Order)
    BY <1>3 DEF SkipTo
  <2>2. After(x) \in 0..Len(Order) /\ (After(x) # 0 => After(x) = turn[x] + 1)
    BY <2>1 DEF After
  <2>3. CountersOK' /\ PassCapHolds' /\ AskingInAPass' /\ EnoughAfter'
    BY <2>1, <2>2
  <2>4. CapReachesEveryone'
    BY <2>1, <2>2
  <2> QED BY <2>3, <2>4
<1>4. ASSUME NEW x \in Process, SkipTooSoon(x) \/ SkipSpent(x) PROVE PassInv'
  BY <1>3, <1>4 DEF SkipTooSoon, SkipSpent
<1>5. ASSUME NEW x \in Process, Ask(x) PROVE PassInv'
  <2> DEFINE left == Left(x)
             among == ProvidersLeft(x)
             share == Share(left, among)
  <2>1. left \in Nat \ {0} /\ among \in Nat \ {0} /\ fetched[x] + left <= PassCap
    BY <1>5 DEF Ask
  <2>2. share \in Nat \ {0} /\ share <= left
    BY <2>1, ShareFits
  <2>3. left >= among => left - share >= among - 1
    BY <2>1, ShareLeavesEnough
  <2>4. asked' = [asked EXCEPT ![x] = LeastOf(PerProviderCap, share)]
        /\ UNCHANGED <<turn, fetched>>
    BY <1>5 DEF Ask
  <2>5. LeastOf(PerProviderCap, share) \in Nat \ {0} /\ LeastOf(PerProviderCap, share) <= share
    BY <2>2 DEF LeastOf
  <2> HIDE DEF share
  <2>6. turn[x] # 0 /\ asked[x] = 0 /\ asked'[x] \in Nat \ {0} /\ asked'[x] <= share
        /\ \A y \in Process : y # x => asked'[y] = asked[y]
    BY <1>5, <2>4, <2>5 DEF Ask
  <2>7. CountersOK' /\ AskingInAPass' /\ CapReachesEveryone'
    BY <2>4, <2>5, <2>6
  <2>8. PassCapHolds'
    <3>1. asked'[x] \in Int /\ fetched'[x] + asked'[x] <= PassCap
      BY <2>1, <2>2, <2>4, <2>6
    <3> QED BY <2>4, <2>6, <3>1
  <2>9. EnoughAfter'
    <3> SUFFICES ASSUME PassCap >= Len(Order), NEW y \in Process, asked'[y] > 0
                 PROVE  PassCap - fetched[y] - asked'[y] >= Len(Order) - turn[y]
      BY <2>4
    <3>1. CASE y # x
      BY <2>6, <3>1
    <3>2. CASE y = x
      <4>0. left >= among
        BY <2>6
      <4>1. left >= among /\ left = PassCap - fetched[x] /\ among = Len(Order) - turn[x] + 1
        BY <4>0, <2>1, <2>6
      <4>2. left - share >= among - 1
        BY <2>3, <4>1
      <4>3. PassCap - fetched[x] - share >= Len(Order) - turn[x]
        BY <2>2, <4>1, <4>2
      <4>4. asked'[x] \in Int /\ share \in Int /\ asked'[x] <= share
        BY <2>2, <2>6
      <4> HIDE DEF left, among
      <4> QED BY <3>2, <4>3, <4>4
    <3> QED BY <3>1, <3>2
  <2> QED BY <2>7, <2>8, <2>9
<1>6. ASSUME NEW x \in Process, Answer(x) PROVE PassInv'
  <2>1. PICK n \in 0..asked[x] : fetched' = [fetched EXCEPT ![x] = @ + n]
    BY <1>6 DEF Answer
  <2>2. turn' = [turn EXCEPT ![x] = After(x)] /\ asked' = [asked EXCEPT ![x] = 0]
        /\ asked[x] > 0 /\ turn[x] \in 1..Len(Order)
    BY <1>6 DEF Answer
  <2>3. After(x) \in 0..Len(Order) /\ (After(x) # 0 => After(x) = turn[x] + 1)
    BY <2>2 DEF After
  <2>4. CountersOK' /\ PassCapHolds' /\ AskingInAPass' /\ EnoughAfter'
    BY <2>1, <2>2, <2>3
  <2>5. CapReachesEveryone'
    <3> SUFFICES ASSUME PassCap >= Len(Order), NEW y \in Process,
                        turn'[y] # 0, ~(asked'[y] > 0)
                 PROVE  Left(y)' >= ProvidersLeft(y)'
      OBVIOUS
    <3>1. CASE y # x
      <4>1. turn'[y] = turn[y] /\ asked'[y] = asked[y] /\ fetched'[y] = fetched[y]
        BY <2>1, <2>2, <3>1
      <4> QED BY <4>1
    <3>2. CASE y = x
      <4>1. fetched'[y] = fetched[x] + n /\ n <= asked[x] /\ turn'[y] = turn[x] + 1
            /\ turn[x] \in Int /\ fetched[x] \in Int /\ asked[x] \in Int
            /\ Left(y)' = (IF PassCap > fetched'[y] THEN PassCap - fetched'[y] ELSE 0)
            /\ ProvidersLeft(y)' = Len(Order) - turn'[y] + 1
        BY <2>1, <2>2, <2>3, <3>2
      <4>2. PassCap - fetched[x] - asked[x] >= Len(Order) - turn[x]
        BY <2>2
      <4>0. turn'[x] = After(x)
        BY <2>2
      <4> DEFINE len == Len(Order)
                 t == turn[x]
                 u == turn'[y]
      <4>5. len \in Int /\ t \in Int /\ u = t + 1
        BY <4>1
      <4> HIDE DEF len, t, u
      <4>3. len - u + 1 = len - t
        BY <4>5
      <4>4. PassCap - fetched'[y] >= Len(Order) - turn[x]
        BY <2>2, <4>1, <4>2
      <4>6. ProvidersLeft(y)' = Len(Order) - turn[x]
        BY <4>1, <4>3 DEF len, t, u
      <4>7. Left(y)' \in Int /\ Left(y)' >= PassCap - fetched'[y]
        BY <4>1
      <4>8. PassCap - fetched'[y] \in Int /\ Len(Order) - turn[x] \in Int
        BY <4>1
      <4> HIDE DEF Left, ProvidersLeft
      <4> QED BY <4>4, <4>6, <4>7, <4>8
    <3> QED BY <3>1, <3>2
  <2> QED BY <2>4, <2>5
<1>7. ASSUME NEW x \in Process, Timeout(x) PROVE PassInv'
  BY <1>7 DEF Timeout, Abandon
<1>8. ASSUME NEW x \in Process, Redeploy(x) PROVE PassInv'
  BY <1>8 DEF Redeploy, Abandon
<1>9. CASE UNCHANGED reelsVars
  BY <1>9 DEF reelsVars
<1> QED BY <1>1, <1>2, <1>4, <1>5, <1>6, <1>7, <1>8, <1>9 DEF ReelsNext, PassStep

\* A pass never fetches more than its cap.
THEOREM PassStaysInsideItsCap == ReelsSpec => []PassCapHolds
  BY PassInvInit, PassInvStep, PTL DEF ReelsSpec, PassInv

\* No provider is skipped for the budget when the cap has room for all.
THEOREM NobodyIsStarvedByTheCap == ReelsSpec => []CapReachesEveryone
  BY PassInvInit, PassInvStep, PTL DEF ReelsSpec, PassInv

\* The clocks, and what is remembered of the passes before.
ClocksOK ==
    /\ age \in [Process -> 0..PassTimeout] /\ wait \in [Process -> 0..MaxAnswer]
    /\ sinceRun \in [Process -> [Provider -> Nat]] /\ sinceAsk \in [Provider -> Nat]
    /\ hung \subseteq Provider /\ deploys \in 0..MaxDeploys

ReelsInv == PassInv /\ ReelsTypeOK

\* The clocks count up to what they are asked about.
LEMMA LaterStays ==
    ASSUME NEW n \in Nat, NEW most \in Nat
    PROVE  Later(n, most) \in Nat /\ Later(n, most) \in 0..most
  BY DEF Later, LeastOf

\* The pass and what is remembered of the passes before are of their types.
LEMMA ReelsTypesStart == ReelsInit => ReelsInv
  BY PassInvInit, ReelsAssumption DEF ReelsInit, ReelsInv, ReelsTypeOK

\* The clocks are kept to their types.
LEMMA ClocksAreKept ==
    ASSUME ReelsInv, [ReelsNext]_reelsVars PROVE ClocksOK'
<1>3. /\ age \in [Process -> 0..PassTimeout] /\ wait \in [Process -> 0..MaxAnswer]
      /\ sinceRun \in [Process -> [Provider -> Nat]] /\ sinceAsk \in [Provider -> Nat]
      /\ hung \subseteq Provider /\ deploys \in 0..MaxDeploys
      /\ MinPoll \in [Provider -> Nat] /\ PassTimeout \in Nat /\ MaxAnswer \in Nat /\ MaxDeploys \in Nat
  BY ReelsAssumption DEF ReelsInv, ReelsTypeOK
<1>4. CASE ReelsTick
  <2>1. age' \in [Process -> 0..PassTimeout] /\ wait' \in [Process -> 0..MaxAnswer]
    BY <1>3, <1>4, LaterStays DEF ClocksOK, ReelsTick
  <2>2. \A x \in Process, p \in Provider : Later(sinceRun[x][p], MinPoll[p]) \in Nat
    BY <1>3, LaterStays
  <2>3. \A p \in Provider : Later(sinceAsk[p], MinPoll[p]) \in Nat
    BY <1>3, LaterStays
  <2>4. sinceRun' \in [Process -> [Provider -> Nat]] /\ sinceAsk' \in [Provider -> Nat]
    BY <1>4, <2>2, <2>3 DEF ClocksOK, ReelsTick
  <2> QED BY <1>3, <1>4, <2>1, <2>4 DEF ClocksOK, ReelsTick
<1>5. ASSUME NEW x \in Process, StartPass(x) PROVE ClocksOK'
  BY <1>3, <1>5 DEF ClocksOK, StartPass
<1>6. ASSUME NEW x \in Process, SkipTooSoon(x) \/ SkipSpent(x) PROVE ClocksOK'
  BY <1>3, <1>6 DEF ClocksOK, SkipTooSoon, SkipSpent, SkipTo
<1>7. ASSUME NEW x \in Process, Ask(x) PROVE ClocksOK'
  <2>1. /\ sinceAsk' = [sinceAsk EXCEPT ![Order[turn[x]]] = 0] /\ wait' = [wait EXCEPT ![x] = 0]
        /\ UNCHANGED <<age, sinceRun, hung, deploys>>
    BY <1>7 DEF Ask
  <2>2. PICK p : p = Order[turn[x]]
    OBVIOUS
  <2>3. sinceAsk' = [sinceAsk EXCEPT ![p] = 0]
    BY <2>1, <2>2
  <2>4. sinceAsk' \in [Provider -> Nat]
    BY <1>3, <2>3
  <2>5. wait' \in [Process -> 0..MaxAnswer]
    BY <1>3, <2>1
  <2> QED BY <1>3, <2>1, <2>4, <2>5 DEF ClocksOK
<1>8. ASSUME NEW x \in Process, Answer(x) PROVE ClocksOK'
  <2>1. sinceRun' \in [Process -> [Provider -> Nat]]
    BY <1>3, <1>8 DEF ClocksOK, Answer
  <2> QED BY <1>3, <1>8, <2>1 DEF ClocksOK, Answer
<1>9. ASSUME NEW x \in Process, Timeout(x) PROVE ClocksOK'
  BY <1>3, <1>9 DEF ClocksOK, Timeout, Abandon
<1>10. ASSUME NEW x \in Process, Redeploy(x) PROVE ClocksOK'
  <2>1. deploys' \in 0..MaxDeploys
    BY <1>3, <1>10 DEF ClocksOK, Redeploy
  <2> QED BY <1>3, <1>10, <2>1 DEF ClocksOK, Redeploy, Abandon
<1>11. CASE UNCHANGED reelsVars
  BY <1>3, <1>11 DEF ClocksOK, reelsVars
<1> QED
  BY <1>4, <1>5, <1>6, <1>7, <1>8, <1>9, <1>10, <1>11 DEF ReelsNext, PassStep

\* So the invariant is inductive with the types.
LEMMA ReelsInvStep == ReelsInv /\ [ReelsNext]_reelsVars => ReelsInv'
<1> SUFFICES ASSUME ReelsInv, [ReelsNext]_reelsVars PROVE ReelsInv'
  OBVIOUS
<1>1. PassInv'
  BY PassInvStep DEF ReelsInv
<1>2. turn' \in [Process -> 0..Len(Order)] /\ asked' \in [Process -> Nat] /\ fetched' \in [Process -> Nat]
  BY <1>1 DEF PassInv, CountersOK
<1>3. ClocksOK'
  BY ClocksAreKept
<1> QED BY <1>1, <1>2, <1>3 DEF ClocksOK, ReelsInv, ReelsTypeOK

-----------------------------------------------------------------------------
(* The keys of a provider. *)

\* What a key that is still to be tried has ahead of it.
FreshComeNearer ==
    callEnd = "out" =>
      \A k \in fresh : cooling[k] = 0 /\ FromCursor(k) + attempts < Keys

\* A request that is out belongs to a call, and its key has been tried.
UsingIsTried == using # NoKey => callEnd = "out" /\ using \notin fresh

KeyPoolInv == KeyPoolTypeOK /\ FreshComeNearer /\ UsingIsTried /\ NoUsableKeyIsPassedOver

-----------------------------------------------------------------------------
\* The remainder of a number below twice the divisor.
LEMMA OneTurn ==
    ASSUME NEW n \in Nat \ {0}, NEW x \in 0..(2 * n - 1)
    PROVE  x % n = IF x < n THEN x ELSE x - n
  OBVIOUS

\* How far a key is from the cursor is less than a turn, whichever key it is.
LEMMA DistanceIsLessThanATurn ==
    ASSUME KeyPoolTypeOK, NEW k \in Key
    PROVE  /\ FromCursor(k) = IF k < cursor THEN k + Keys - cursor ELSE k - cursor
           /\ FromCursor(k) \in 0..(Keys - 1)
<1> DEFINE x == k + Keys - cursor
<1>1. Keys \in Nat \ {0} /\ k \in 1..Keys /\ cursor \in 1..Keys
  BY KeyPoolAssumption DEF KeyPoolTypeOK, Key
<1>2. x \in 0..(2 * Keys - 1)
  BY <1>1
<1>3. FromCursor(k) = x % Keys
  BY DEF FromCursor
<1> HIDE DEF x
<1>4. x % Keys = IF x < Keys THEN x ELSE x - Keys
  BY <1>1, <1>2, OneTurn
<1> QED BY <1>1, <1>3, <1>4 DEF x

\* The cursor stays among the keys.
LEMMA CursorAfterIsAKey ==
    ASSUME NEW k \in Key
    PROVE  CursorAfter(k) = (IF k = Keys THEN 1 ELSE k + 1) /\ CursorAfter(k) \in Key
<1>1. k \in 0..(2 * Keys - 1) /\ Keys \in Nat \ {0} /\ k \in 1..Keys
  BY KeyPoolAssumption DEF Key
<1>2. k % Keys = IF k < Keys THEN k ELSE k - Keys
  BY <1>1, OneTurn
<1> QED BY <1>1, <1>2 DEF CursorAfter, Key

-----------------------------------------------------------------------------
\* What holds of the pool is kept by every step, of a call and of the clock.
LEMMA KeyPoolInvIsKept ==
    ASSUME KeyPoolInv, [KeyPoolNext]_keyVars PROVE KeyPoolInv'
<1> USE KeyPoolAssumption DEF KeyPoolInv, CallEnds, NoKey
<1>0. cursor \in 1..Keys /\ Keys \in Nat \ {0} /\ attempts \in 0..(Keys + 1)
  BY DEF KeyPoolTypeOK, Key
<1>1. CASE BuildPool
  BY <1>0, <1>1 DEF BuildPool, KeyPoolTypeOK, FreshComeNearer, UsingIsTried, NoUsableKeyIsPassedOver, Key
<1>2. CASE StartCall
  <2>1. KeyPoolTypeOK'
    BY <1>2 DEF StartCall, KeyPoolTypeOK
  <2>2. FreshComeNearer'
    <3> SUFFICES ASSUME NEW k \in Key, cooling[k] = 0 PROVE (FromCursor(k) + attempts < Keys)'
      BY <1>2 DEF StartCall, FreshComeNearer
    <3>1. FromCursor(k)' = FromCursor(k) /\ attempts' = 0
      BY <1>2 DEF StartCall, FromCursor
    <3> QED BY <1>0, <3>1, DistanceIsLessThanATurn
  <2> QED BY <1>2, <2>1, <2>2 DEF StartCall, UsingIsTried, NoUsableKeyIsPassedOver
<1>3. CASE TakeKey
  <2>1. PICK k \in Key :
          /\ cooling[k] = 0
          /\ \A j \in Key : cooling[j] = 0 => FromCursor(k) <= FromCursor(j)
          /\ using' = k
          /\ cursor' = CursorAfter(k)
          /\ fresh' = fresh \ {k}
    BY <1>3 DEF TakeKey
  <2>2. attempts' = attempts + 1 /\ attempts <= Keys /\ UNCHANGED <<cooling, callEnd, callsLeft>> /\ callEnd = "out"
    BY <1>3 DEF TakeKey
  <2>3. KeyPoolTypeOK'
    <3>1. cursor' \in Key
      BY <2>1, CursorAfterIsAKey
    <3> QED BY <1>0, <2>1, <2>2, <3>1 DEF KeyPoolTypeOK
  <2>4. FreshComeNearer'
    <3> SUFFICES ASSUME NEW j \in fresh, j # k PROVE cooling[j] = 0 /\ FromCursor(j)' + attempts' < Keys
      BY <2>1, <2>2 DEF FreshComeNearer
    <3>1. j \in Key /\ cooling[j] = 0 /\ FromCursor(j) + attempts < Keys
      BY <2>2 DEF FreshComeNearer, KeyPoolTypeOK
    <3>2. FromCursor(k) <= FromCursor(j)
      BY <2>1, <3>1
    <3>3. FromCursor(j) = (IF j < cursor THEN j + Keys - cursor ELSE j - cursor)
      BY <3>1, DistanceIsLessThanATurn
    <3>4. FromCursor(k) = (IF k < cursor THEN k + Keys - cursor ELSE k - cursor)
      BY <2>1, DistanceIsLessThanATurn
    <3>5. cursor' = IF k = Keys THEN 1 ELSE k + 1
      BY <2>1, CursorAfterIsAKey
    <3>6. FromCursor(j)' = IF j < cursor' THEN j + Keys - cursor' ELSE j - cursor'
      <4> DEFINE x == j + Keys - cursor'
      <4>1. cursor' \in 1..Keys /\ j \in 1..Keys
        BY <2>3, <3>1 DEF KeyPoolTypeOK, Key
      <4>2. x \in 0..(2 * Keys - 1)
        <5>1. \A c, i \in 1..Keys : i + Keys - c \in 0..(2 * Keys - 1)
          BY <1>0
        <5> QED BY <4>1, <5>1
      <4>3. FromCursor(j)' = x % Keys
        BY DEF FromCursor
      <4> HIDE DEF x
      <4>4. x % Keys = IF x < Keys THEN x ELSE x - Keys
        BY <1>0, <4>2, OneTurn
      <4> QED BY <1>0, <4>1, <4>3, <4>4 DEF x
    <3>7. j \in 1..Keys /\ k \in 1..Keys
      BY <3>1 DEF Key
    <3>8. FromCursor(j)' < FromCursor(j)
      BY <1>0, <3>2, <3>3, <3>4, <3>5, <3>6, <3>7
    <3>9. FromCursor(j) \in Int /\ FromCursor(j)' \in Int
      BY <1>0, <3>3, <3>5, <3>6, <3>7
    <3> QED BY <1>0, <2>2, <3>1, <3>8, <3>9
  <2> QED BY <2>1, <2>2, <2>3, <2>4 DEF UsingIsTried, NoUsableKeyIsPassedOver, Key
<1>4. CASE AllCooling
  <2>1. fresh = {}
    BY <1>4 DEF AllCooling, FreshComeNearer, KeyPoolTypeOK
  <2> QED BY <1>4, <2>1 DEF AllCooling, KeyPoolTypeOK, FreshComeNearer, UsingIsTried, NoUsableKeyIsPassedOver
<1>5. CASE GiveUp
  <2>1. fresh = {}
    <3> SUFFICES ASSUME NEW k \in fresh PROVE FALSE
      OBVIOUS
    <3>1. k \in Key /\ FromCursor(k) + attempts < Keys
      BY <1>5 DEF GiveUp, FreshComeNearer, KeyPoolTypeOK
    <3> QED BY <1>0, <1>5, <3>1, DistanceIsLessThanATurn DEF GiveUp
  <2> QED BY <1>5, <2>1 DEF GiveUp, KeyPoolTypeOK, FreshComeNearer, UsingIsTried, NoUsableKeyIsPassedOver
<1>6. CASE OverQuota
  <2>1. PICK ticks \in 1..2 * Cooldown : cooling' = [cooling EXCEPT ![using] = ticks]
    BY <1>6 DEF OverQuota
  <2>2. using \notin fresh /\ using' = NoKey /\ UNCHANGED <<cursor, attempts, fresh, callEnd, callsLeft>>
    BY <1>6 DEF OverQuota, UsingIsTried
  <2>3. cooling' \in [Key -> 0..2 * Cooldown]
    <3>1. 1..2 * Cooldown \subseteq 0..2 * Cooldown
      OBVIOUS
    <3> QED BY <2>1, <3>1 DEF KeyPoolTypeOK
  <2>4. \A k \in fresh : cooling'[k] = cooling[k]
    BY <2>1, <2>2 DEF KeyPoolTypeOK
  <2> QED BY <2>2, <2>3, <2>4 DEF KeyPoolTypeOK, FreshComeNearer, FromCursor, UsingIsTried, NoUsableKeyIsPassedOver
<1>7. CASE Served
  BY <1>7 DEF Served, KeyPoolTypeOK, FreshComeNearer, UsingIsTried, NoUsableKeyIsPassedOver
<1>8. CASE NotServed
  BY <1>8 DEF NotServed, KeyPoolTypeOK, FreshComeNearer, UsingIsTried, NoUsableKeyIsPassedOver
<1>9. CASE KeyTick
  <2>1. cooling' \in [Key -> 0..2 * Cooldown]
    <3>1. \A n \in 0..2 * Cooldown : n # 0 => n - 1 \in 0..2 * Cooldown
      OBVIOUS
    <3> QED BY <1>9, <3>1 DEF KeyTick, KeyPoolTypeOK
  <2>2. \A k \in fresh : cooling[k] = 0 => cooling'[k] = 0
    BY <1>9 DEF KeyTick, KeyPoolTypeOK
  <2> QED BY <1>9, <2>1, <2>2 DEF KeyTick, KeyPoolTypeOK, FreshComeNearer, FromCursor, UsingIsTried, NoUsableKeyIsPassedOver
<1>10. CASE UNCHANGED keyVars
  BY <1>10 DEF keyVars, KeyPoolTypeOK, FreshComeNearer, FromCursor, UsingIsTried, NoUsableKeyIsPassedOver
<1> QED BY <1>1, <1>2, <1>3, <1>4, <1>5, <1>6, <1>7, <1>8, <1>9, <1>10 DEF KeyPoolNext

\* It holds before the first call.
LEMMA KeyPoolStarts == KeyPoolInit => KeyPoolInv
  BY KeyPoolAssumption
     DEF KeyPoolInit, KeyPoolInv, KeyPoolTypeOK, FreshComeNearer, UsingIsTried, NoUsableKeyIsPassedOver,
         CallEnds, Key, NoKey

\* For any number of keys and any cooldown, a call that found no quota has tried
\* every key that was usable when it began, so one exhausted key never costs a
\* pass the others.
THEOREM NoKeyIsPassedOver == KeyPoolSpec => []NoUsableKeyIsPassedOver
<1>1. KeyPoolInv /\ [KeyPoolNext]_keyVars => KeyPoolInv'
  BY KeyPoolInvIsKept
<1>2. KeyPoolInv => NoUsableKeyIsPassedOver
  BY DEF KeyPoolInv
<1> QED BY <1>1, <1>2, KeyPoolStarts, PTL DEF KeyPoolSpec

-----------------------------------------------------------------------------
(* A pass over Commons. *)

\* The terms of the asks up to a position.
AskedTo(n) == {Grouped[i] : i \in {j \in 1..Len(Terms) : j <= n}}

\* The asks of a pass are made in turn, and a term is asked for its newest page
\* before the pass comes round to it again.
AsksAreInTurn ==
    /\ newest \subseteq TermSet
    /\ phase = "asking" => AskedTo(position) \subseteq newest /\ requests <= position
    /\ phase = "out" => /\ AskedTo(position + 1) \subseteq newest
                        /\ requests <= position + 1 /\ position < rounds * Len(Terms)

\* What a pass that came to its end has dealt is what it had found.
DealtAsFound == phase = "stored" /\ requests > 0 => dealt = Mixed(OtherClips, NepaliClips)

CommonsInv ==
    /\ CommonsTypeOK
    /\ AsksAreInTurn
    /\ EveryTermIsReached
    /\ DealtAsFound

-----------------------------------------------------------------------------
(* The order of the asks *)

\* Counting on from a place in a list, past its end, comes to every place.
LEMMA Wrapped ==
    ASSUME NEW l \in Nat \ {0}, NEW n \in 0..l - 1, NEW j \in 1..l
    PROVE  \E i \in 1..l : ((i - 1 + n) % l) + 1 = j
<1>1. CASE j - 1 >= n
  <2>1. PICK i \in 1..l : i - 1 + n = j - 1
    <3>1. j - n \in 1..l /\ (j - n) - 1 + n = j - 1
      BY <1>1
    <3> QED BY <3>1
  <2>2. (j - 1) % l = j - 1
    OBVIOUS
  <2>3. (i - 1 + n) % l = j - 1
    BY <2>1, <2>2, Zenon
  <2>4. (j - 1) + 1 = j
    OBVIOUS
  <2> QED BY <2>3, <2>4, Zenon
<1>2. CASE j - 1 < n
  <2>1. PICK i \in 1..l : i - 1 + n = (j - 1) + l
    <3>1. j - n + l \in 1..l /\ (j - n + l) - 1 + n = (j - 1) + l
      BY <1>2
    <3> QED BY <3>1
  <2>2. ((j - 1) + l) % l = j - 1
    OBVIOUS
  <2>3. (i - 1 + n) % l = j - 1
    BY <2>1, <2>2, Zenon
  <2>4. (j - 1) + 1 = j
    OBVIOUS
  <2> QED BY <2>3, <2>4, Zenon
<1> QED BY <1>1, <1>2

\* There are as many places in the list as terms.
LEMMA TermsAreFinite ==
    /\ Len(Terms) \in Nat \ {0} /\ Terms \in [1..Len(Terms) -> TermSet]
    /\ IsFiniteSet(TermSet) /\ Cardinality(TermSet) = Len(Terms)
<1>1. Len(Terms) \in Nat \ {0} /\ Terms \in [1..Len(Terms) -> TermSet]
  BY CommonsAssumption
<1>2. Terms \in Surjection(1..Len(Terms), TermSet)
  BY <1>1 DEF Surjection, TermSet
<1>3. IsFiniteSet(1..Len(Terms))
  BY <1>1, FS_Interval
<1> QED BY <1>1, <1>2, <1>3, FS_Surjection, CommonsAssumption

\* The number of the rotations is one of the places.
LEMMA RotationIsOne ==
    ASSUME passes \in 0..Len(Terms) - 1
    PROVE  (passes + Len(Terms) - 1) % Len(Terms) \in 0..Len(Terms) - 1
<1> DEFINE l == Len(Terms)
           k == passes + l - 1
<1>1. l \in Nat \ {0} /\ k \in Nat
  BY TermsAreFinite
<1> HIDE DEF l, k
<1>2. k % l \in 0..l - 1
  BY <1>1
<1> QED BY <1>2 DEF l, k

\* Every term stands somewhere in the rotated list.
LEMMA EveryTermStands ==
    ASSUME passes \in 0..Len(Terms) - 1
    PROVE  \A t \in TermSet :
              /\ Standing(t) \in 1..Len(Terms)
              /\ Rotated((passes + Len(Terms) - 1) % Len(Terms))[Standing(t)] = t
<1> DEFINE l == Len(Terms)
           n == (passes + l - 1) % l
<1>1. l \in Nat \ {0} /\ n \in 0..l - 1
  BY TermsAreFinite, RotationIsOne
<1>2. ASSUME NEW t \in TermSet PROVE \E i \in 1..l : Rotated(n)[i] = t
  <2>1. PICK j \in 1..l : Terms[j] = t
    BY DEF TermSet
  <2> HIDE DEF n, l
  <2>2. PICK i \in 1..l : ((i - 1 + n) % l) + 1 = j
    BY <1>1, Wrapped
  <2>3. Rotated(n)[i] = Terms[((i - 1 + n) % l) + 1]
    BY DEF Rotated, l
  <2> QED BY <2>1, <2>2, <2>3
<1> QED BY <1>2 DEF Standing

\* Of two terms one is asked before the other, and then after fewer terms.
LEMMA EarlierHasFewerBefore ==
    ASSUME passes \in 0..Len(Terms) - 1, NEW s \in TermSet, NEW t \in TermSet, AskedBefore(s, t)
    PROVE  Cardinality(AskedFirst(s)) < Cardinality(AskedFirst(t))
<1>1. \A x \in TermSet : Standing(x) \in Int
  BY EveryTermStands
<1>2. AskedFirst(s) \subseteq AskedFirst(t) /\ s \in AskedFirst(t) /\ s \notin AskedFirst(s)
  BY <1>1 DEF AskedFirst, AskedBefore
<1>3. IsFiniteSet(AskedFirst(t)) /\ IsFiniteSet(AskedFirst(s))
  BY TermsAreFinite, FS_Subset DEF AskedFirst
<1> QED BY <1>2, <1>3, FS_Subset, FS_CardinalityType

\* Every term has a turn of its own.
LEMMA TurnsAreDistinct ==
    ASSUME passes \in 0..Len(Terms) - 1
    PROVE  [t \in TermSet |-> Cardinality(AskedFirst(t))]
              \in Bijection(TermSet, 0..Len(Terms) - 1)
<1> DEFINE inOrder == [t \in TermSet |-> Cardinality(AskedFirst(t))]
           l == Len(Terms)
<1>0. l \in Nat \ {0}
  BY TermsAreFinite
<1>1. inOrder \in [TermSet -> 0..l - 1]
  <2> SUFFICES ASSUME NEW t \in TermSet PROVE Cardinality(AskedFirst(t)) \in 0..l - 1
    OBVIOUS
  <2>1. Standing(t) \in Int
    BY EveryTermStands
  <2>2. AskedFirst(t) \subseteq TermSet /\ t \notin AskedFirst(t)
    BY <2>1 DEF AskedFirst, AskedBefore
  <2>3. Cardinality(AskedFirst(t)) < l /\ IsFiniteSet(AskedFirst(t))
    BY <2>2, TermsAreFinite, FS_Subset, FS_CardinalityType
  <2>4. Cardinality(AskedFirst(t)) \in Nat
    BY <2>3, FS_CardinalityType
  <2> QED BY <1>0, <2>3, <2>4
<1>2. \A s, t \in TermSet : s # t => inOrder[s] # inOrder[t]
  <2> SUFFICES ASSUME NEW s \in TermSet, NEW t \in TermSet, s # t
               PROVE  Cardinality(AskedFirst(s)) # Cardinality(AskedFirst(t))
    OBVIOUS
  <2>1. Standing(s) # Standing(t) /\ Standing(s) \in Int /\ Standing(t) \in Int
    BY EveryTermStands
  <2>2. AskedBefore(s, t) \/ AskedBefore(t, s)
    BY <2>1 DEF AskedBefore
  <2>3. Cardinality(AskedFirst(s)) \in Int /\ Cardinality(AskedFirst(t)) \in Int
    BY <1>1
  <2> QED BY <2>2, <2>3, EarlierHasFewerBefore
<1>3. inOrder \in Injection(TermSet, 0..l - 1)
  BY <1>1, <1>2 DEF Injection, IsInjective
<1>4. IsFiniteSet(0..l - 1) /\ Cardinality(0..l - 1) = l
  <2> HIDE DEF l
  <2>1. 0 \in Int /\ l - 1 \in Int /\ ~(0 > l - 1) /\ l - 1 - 0 + 1 = l
    BY <1>0
  <2> QED BY <2>1, FS_Interval
<1> HIDE DEF inOrder
<1>5. inOrder \in Surjection(TermSet, 0..l - 1)
  BY <1>3, <1>4, FS_Injection, TermsAreFinite
<1> QED BY <1>3, <1>5 DEF Bijection, inOrder

\* The terms are asked in an order in which each of them has its turn.
LEMMA GroupedHasEveryTerm ==
    ASSUME passes \in 0..Len(Terms) - 1
    PROVE  /\ Grouped \in [1..Len(Terms) -> TermSet]
           /\ \A t \in TermSet : \E i \in 1..Len(Terms) : Grouped[i] = t
<1> DEFINE inOrder == [t \in TermSet |-> Cardinality(AskedFirst(t))]
           l == Len(Terms)
<1>1. /\ \A t \in TermSet : inOrder[t] \in 0..l - 1
      /\ \A s, t \in TermSet : inOrder[s] = inOrder[t] => s = t
      /\ \A k \in 0..l - 1 : \E t \in TermSet : inOrder[t] = k
  <2> HIDE DEF inOrder
  <2>1. inOrder \in Bijection(TermSet, 0..l - 1)
    BY TurnsAreDistinct DEF inOrder
  <2> QED BY <2>1 DEF Bijection, Injection, Surjection, IsInjective
<1>2. \A t \in TermSet : inOrder[t] = Cardinality(AskedFirst(t))
  OBVIOUS
<1>3. l \in Nat
  BY TermsAreFinite
<1> HIDE DEF inOrder
<1>4. ASSUME NEW i \in 1..l
      PROVE  /\ Grouped[i] \in TermSet
             /\ \A t \in TermSet : Cardinality(AskedFirst(t)) = i - 1 => Grouped[i] = t
  <2>1. i - 1 \in 0..l - 1
    BY <1>3
  <2>2. \E t \in TermSet : Cardinality(AskedFirst(t)) = i - 1
    BY <1>1, <1>2, <2>1
  <2>3. Grouped[i] \in TermSet /\ Cardinality(AskedFirst(Grouped[i])) = i - 1
    BY <2>2 DEF Grouped
  <2> QED BY <1>1, <1>2, <2>3
<1>5. Grouped \in [1..l -> TermSet]
  BY <1>4 DEF Grouped
<1>6. ASSUME NEW t \in TermSet PROVE \E i \in 1..l : Grouped[i] = t
  <2>1. inOrder[t] + 1 \in 1..l /\ Cardinality(AskedFirst(t)) = (inOrder[t] + 1) - 1
    BY <1>1, <1>2, <1>3
  <2> QED BY <1>4, <2>1
<1> QED BY <1>5, <1>6

\* An ask is for a term, and the first asks are for the newest pages.
LEMMA AskTypes ==
    ASSUME passes \in 0..Len(Terms) - 1, NEW n \in Nat
    PROVE  /\ Asked(n).term \in TermSet
           /\ Asked(n).page = 0 => Asked(n).term \in AskedTo(n + 1)
                                   /\ AskedTo(n + 1) = AskedTo(n) \cup {Asked(n).term}
           /\ Asked(n).page # 0 => AskedTo(n) = TermSet
           /\ AskedTo(n) \subseteq AskedTo(n + 1) /\ AskedTo(n + 1) \subseteq TermSet
           /\ n >= Len(Terms) => AskedTo(n) = TermSet
           /\ Asked(n).term \in AskedTo(n + 1)
<1> DEFINE l == Len(Terms)
<1>1. l \in Nat \ {0} /\ Grouped \in [1..l -> TermSet]
      /\ \A t \in TermSet : \E i \in 1..l : Grouped[i] = t
  BY TermsAreFinite, GroupedHasEveryTerm
<1>2. Asked(n).term = Grouped[(n % l) + 1] /\ Asked(n).page = n \div l
  BY DEF Asked
<1>3. \A k \in Nat : AskedTo(k) = {Grouped[i] : i \in {j \in 1..l : j <= k}}
  BY DEF AskedTo
<1> HIDE DEF l
<1>4. (n % l) + 1 \in 1..l
  BY <1>1
<1>5. n < l => n % l = n
  BY <1>1
<1>6. n >= l => n \div l # 0
  BY <1>1
<1>7. n < l => n \div l = 0
  BY <1>1
<1>8. \A k \in Nat : AskedTo(k) \subseteq TermSet /\ (k >= l => AskedTo(k) = TermSet)
  BY <1>1, <1>3
<1>9. AskedTo(n) \subseteq AskedTo(n + 1)
  BY <1>3
<1>10. n < l => AskedTo(n + 1) = AskedTo(n) \cup {Grouped[n + 1]}
  <2> SUFFICES ASSUME n < l PROVE AskedTo(n + 1) = AskedTo(n) \cup {Grouped[n + 1]}
    OBVIOUS
  <2>1. {j \in 1..l : j <= n + 1} = {j \in 1..l : j <= n} \cup {n + 1}
    BY <1>1
  <2> QED BY <1>3, <2>1
<1> QED BY <1>1, <1>2, <1>4, <1>5, <1>6, <1>7, <1>8, <1>9, <1>10 DEF l

-----------------------------------------------------------------------------
(* The pass *)

\* The number of the asks is within what the type says, whatever the rounds.
LEMMA RoundsFit ==
    ASSUME CommonsTypeOK
    PROVE  /\ rounds * Len(Terms) \in Nat /\ PagesPerTerm * Len(Terms) \in Nat
           /\ Len(Terms) <= rounds * Len(Terms)
           /\ rounds * Len(Terms) <= PagesPerTerm * Len(Terms)
           /\ position \in Nat /\ requests \in Nat /\ RequestBudget \in Nat
<1> DEFINE l == Len(Terms)
<1>1. l \in Nat \ {0} /\ PagesPerTerm \in Nat \ {0} /\ RequestBudget \in Nat
      /\ rounds \in {1, PagesPerTerm} /\ requests \in 0..RequestBudget
      /\ position \in 0..PagesPerTerm * l
  BY TermsAreFinite, CommonsAssumption DEF CommonsTypeOK
<1> HIDE DEF l
<1>2. PagesPerTerm = 1 \/ \E k \in Nat : PagesPerTerm = 1 + k
  BY <1>1
<1>3. \A k \in Nat : (1 + k) * l = l + k * l /\ k * l \in Nat /\ 1 * l = l
  BY <1>1
<1>4. PagesPerTerm * l \in Nat /\ l <= PagesPerTerm * l /\ 1 * l = l
  BY <1>1, <1>2, <1>3
<1> QED BY <1>1, <1>4 DEF l

\* The clips of a group are counted.
LEMMA ClipsAreCounted ==
    ASSUME CommonsTypeOK
    PROVE  OtherClips \in Nat /\ NepaliClips \in Nat
<1>1. ClipsPerTerm \in Nat /\ NepaliTerms \subseteq TermSet
  BY CommonsAssumption
<1>2. ASSUME NEW group \in SUBSET TermSet PROVE ClipsOf(group) \in Nat
  <2>1. IsFiniteSet(group) /\ IsFiniteSet(1..ClipsPerTerm)
    <3>1. 1 \in Int /\ ClipsPerTerm \in Int
      BY <1>1
    <3> QED BY <3>1, TermsAreFinite, FS_Subset, FS_Interval
  <2>2. IsFiniteSet(group \X (1..ClipsPerTerm))
    BY <2>1, FS_Product
  <2>3. IsFiniteSet({c \in group \X (1..ClipsPerTerm) : c[2] <= clips[c[1]]})
    BY <2>2, FS_Subset
  <2> QED BY <2>3, FS_CardinalityType DEF ClipsOf
<1> QED BY <1>1, <1>2 DEF OtherClips, NepaliClips

\* However many clips the groups bring, every place is dealt for which there is a
\* clip, and the Nepali ones have theirs.
LEMMA MixedDealsEveryPlace ==
    ASSUME NEW others \in Nat, NEW nepalis \in Nat
    PROVE  LET dealtNow == Mixed(others, nepalis)
           IN  /\ dealtNow \in [other : 0..ReelLimit, nepali : 0..ReelLimit]
               /\ dealtNow.other + dealtNow.nepali = SmallerCount(ReelLimit, others + nepalis)
               /\ dealtNow.nepali >= SmallerCount(nepalis, ReelLimit - OtherCap)
<1>1. ReelLimit \in Nat /\ OtherCap \in Nat /\ OtherCap < ReelLimit
  BY CommonsAssumption
<1> DEFINE o == SmallerCount(others, OtherCap)
           n == SmallerCount(nepalis, ReelLimit - OtherCap)
           toOthers == SmallerCount(others - o, ReelLimit - o - n)
           toNepalis == SmallerCount(nepalis - n, ReelLimit - o - n - toOthers)
<1>2. o \in Nat /\ n \in Nat /\ o <= others /\ n <= nepalis /\ o + n <= ReelLimit
      /\ (o = others \/ o = OtherCap) /\ (n = nepalis \/ n = ReelLimit - OtherCap)
  BY <1>1 DEF SmallerCount
<1>3. Mixed(others, nepalis) = [other |-> o + toOthers, nepali |-> n + toNepalis]
  BY DEF Mixed
<1>4. /\ toOthers \in Nat /\ toOthers <= others - o /\ toOthers <= ReelLimit - o - n
      /\ (toOthers = others - o \/ toOthers = ReelLimit - o - n)
  <2> HIDE DEF o, n
  <2> QED BY <1>1, <1>2 DEF SmallerCount
<1>5. /\ toNepalis \in Nat /\ toNepalis <= nepalis - n /\ toNepalis <= ReelLimit - o - n - toOthers
      /\ (toNepalis = nepalis - n \/ toNepalis = ReelLimit - o - n - toOthers)
  <2> HIDE DEF o, n, toOthers
  <2> QED BY <1>1, <1>2, <1>4 DEF SmallerCount
<1>6. n = SmallerCount(nepalis, ReelLimit - OtherCap)
  OBVIOUS
<1> HIDE DEF o, n, toOthers, toNepalis
<1>7. (o + toOthers) + (n + toNepalis) = SmallerCount(ReelLimit, others + nepalis)
  BY <1>1, <1>2, <1>4, <1>5 DEF SmallerCount
<1>8. o + toOthers \in 0..ReelLimit /\ n + toNepalis \in 0..ReelLimit /\ n + toNepalis >= n
  BY <1>1, <1>2, <1>4, <1>5
<1> QED BY <1>3, <1>6, <1>7, <1>8

\* The order of the asks does not change while a pass runs.
LEMMA SameOrder ==
    ASSUME passes' = passes
    PROVE  /\ \A n : AskedTo(n)' = AskedTo(n)
           /\ \A n : Asked(n)' = Asked(n)
<1>1. Grouped' = Grouped
  BY DEF Grouped, AskedFirst, AskedBefore, Standing
<1> QED BY <1>1 DEF AskedTo, Asked

\* Every action of a pass keeps its types, its turns and its deal.
LEMMA CommonsInvStep ==
    ASSUME CommonsInv, [CommonsNext]_commonsVars
    PROVE  CommonsInv'
<1> USE DEF Ended
<1> DEFINE l == Len(Terms)
<1>0. /\ CommonsTypeOK /\ AsksAreInTurn /\ EveryTermIsReached /\ DealtAsFound
      /\ l \in Nat \ {0} /\ passes \in 0..l - 1
  BY TermsAreFinite DEF CommonsInv, CommonsTypeOK
<1>1. /\ rounds * l \in Nat /\ PagesPerTerm * l \in Nat /\ l <= rounds * l
      /\ rounds * l <= PagesPerTerm * l /\ position \in Nat /\ requests \in Nat
      /\ RequestBudget \in Nat /\ PagesPerTerm \in Nat /\ IdleLimit \in Nat
      /\ ClipsPerTerm \in Nat /\ ThrottleRetries \in Nat /\ BusyAttempts \in Nat \ {0}
  BY <1>0, RoundsFit, CommonsAssumption
<1>2. /\ Asked(position).term \in AskedTo(position + 1)
      /\ AskedTo(position + 1) \subseteq TermSet
      /\ Asked(position).page = 0 => AskedTo(position + 1) = AskedTo(position) \cup {Asked(position).term}
      /\ Asked(position).page # 0 => AskedTo(position) = TermSet
      /\ AskedTo(position) \subseteq AskedTo(position + 1)
      /\ position >= l => AskedTo(position) = TermSet
  BY <1>0, <1>1, AskTypes
<1>3. NoWaits \in [throttled : 0..ThrottleRetries, busy : 0..BusyAttempts - 1]
  BY <1>1 DEF NoWaits
<1>4. /\ NobodyDealt \in [other : 0..ReelLimit, nepali : 0..ReelLimit]
      /\ [t \in TermSet |-> 0] \in [TermSet -> 0..ClipsPerTerm]
  BY <1>1, CommonsAssumption DEF NobodyDealt
<1> HIDE DEF l
<1>5. CASE StartReelsPass
  <2>1. passes' \in 0..l - 1
    BY <1>0, <1>5 DEF StartReelsPass, l
  <2>2. /\ phase' = "asking" /\ position' = 0 /\ requests' = 0 /\ newest' = {}
        /\ rounds' \in {1, PagesPerTerm}
    BY <1>5 DEF StartReelsPass
  <2>3. CommonsTypeOK'
    BY <1>0, <1>1, <1>3, <1>4, <1>5, <2>1, <2>2 DEF StartReelsPass, CommonsTypeOK, l
  <2>4. AskedTo(0)' = {}
    <3>1. \A j \in 1..Len(Terms) : ~(j <= 0)
      BY <1>0 DEF l
    <3> QED BY <3>1 DEF AskedTo
  <2>5. AsksAreInTurn'
    BY <2>2, <2>4 DEF AsksAreInTurn, AskedTo
  <2> QED BY <2>2, <2>3, <2>5 DEF CommonsInv, EveryTermIsReached, DealtAsFound
<1>6. CASE SkipTerm
  <2>1. /\ position' = position + 1 /\ position < rounds * l /\ phase = "asking"
        /\ Asked(position).term \in newest
        /\ UNCHANGED <<passes, idle, rounds, requests, spent, failed, clips, newest, deep, waits,
                       phase, dealt>>
    BY <1>0, <1>6 DEF SkipTerm, AsksLeft, CommonsTypeOK, l
  <2>2. CommonsTypeOK'
    BY <1>0, <1>1, <2>1 DEF CommonsTypeOK, l
  <2>3. AskedTo(position + 1) \subseteq newest
    BY <1>0, <1>2, <2>1 DEF AsksAreInTurn
  <2>4. AsksAreInTurn'
    BY <1>0, <1>1, <2>1, <2>3, SameOrder DEF AsksAreInTurn
  <2> QED BY <2>1, <2>2, <2>4 DEF CommonsInv, EveryTermIsReached, DealtAsFound
<1>7. CASE SendAsk
  <2>1. /\ phase = "asking" /\ phase' = "out" /\ requests' = requests + 1
        /\ position < rounds * l /\ requests < RequestBudget /\ waits' = NoWaits
        /\ newest' = IF Asked(position).page = 0 THEN newest \cup {Asked(position).term} ELSE newest
        /\ deep' = IF Asked(position).page = 0 THEN deep ELSE deep \cup {Asked(position).term}
        /\ UNCHANGED <<passes, idle, rounds, position, spent, failed, clips, dealt>>
    BY <1>7 DEF SendAsk, AsksLeft, l
  <2>2. AskedTo(position) \subseteq newest /\ requests <= position /\ newest \subseteq TermSet
    BY <1>0, <2>1 DEF AsksAreInTurn
  <2>3. AskedTo(position + 1) \subseteq newest' /\ newest' \subseteq TermSet /\ newest \subseteq newest'
    BY <1>2, <2>1, <2>2
  <2>4. deep' \subseteq newest'
    BY <1>0, <1>2, <2>1, <2>2, <2>3 DEF CommonsTypeOK
  <2>5. CommonsTypeOK'
    BY <1>0, <1>1, <1>3, <2>1, <2>3, <2>4 DEF CommonsTypeOK
  <2>6. AsksAreInTurn'
    BY <1>1, <2>1, <2>2, <2>3, SameOrder DEF AsksAreInTurn, l
  <2> QED BY <2>1, <2>5, <2>6 DEF CommonsInv, EveryTermIsReached, DealtAsFound
<1>8. CASE Throttled \/ Busy
  <2>1. waits' \in [throttled : 0..ThrottleRetries, busy : 0..BusyAttempts - 1]
    <3>1. waits \in [throttled : 0..ThrottleRetries, busy : 0..BusyAttempts - 1]
      BY <1>0 DEF CommonsTypeOK
    <3>2. CASE Throttled
      BY <1>1, <3>1, <3>2 DEF Throttled
    <3>3. CASE Busy
      BY <1>1, <3>1, <3>3 DEF Busy
    <3> QED BY <1>8, <3>2, <3>3
  <2>2. UNCHANGED <<passes, idle, rounds, position, requests, spent, failed, clips, newest, deep,
                    phase, dealt>> /\ phase = "out"
    BY <1>8 DEF Throttled, Busy
  <2>3. CommonsTypeOK'
    BY <1>0, <2>1, <2>2 DEF CommonsTypeOK
  <2> QED BY <1>0, <2>2, <2>3, SameOrder
          DEF CommonsInv, AsksAreInTurn, EveryTermIsReached, DealtAsFound
<1>9. ASSUME phase = "out", phase' = "asking", position' = position + 1, waits' = NoWaits,
             failed \subseteq failed', failed' \subseteq spent',
             spent' \subseteq spent \cup {Asked(position).term},
             clips' \in [TermSet -> 0..ClipsPerTerm],
             UNCHANGED <<passes, idle, rounds, requests, newest, deep, dealt>>
      PROVE  CommonsInv'
  <2>1. AskedTo(position + 1) \subseteq newest /\ requests <= position + 1 /\ position < rounds * l
    BY <1>0, <1>9 DEF AsksAreInTurn, l
  <2>2. spent' \subseteq newest'
    BY <1>0, <1>2, <1>9, <2>1 DEF CommonsTypeOK
  <2>3. position' \in 0..PagesPerTerm * Len(Terms)
    BY <1>1, <1>9, <2>1 DEF l
  <2>4. CommonsTypeOK'
    BY <1>0, <1>3, <1>9, <2>2, <2>3 DEF CommonsTypeOK
  <2>5. AsksAreInTurn'
    BY <1>0, <1>9, <2>1, SameOrder DEF AsksAreInTurn
  <2> QED BY <1>9, <2>4, <2>5 DEF CommonsInv, EveryTermIsReached, DealtAsFound
<1>10. CASE AskFails
  BY <1>0, <1>9, <1>10 DEF AskFails, CommonsTypeOK
<1>11. ASSUME NEW short \in BOOLEAN, NEW more \in 0..ClipsPerTerm, PageArrives(short, more)
       PROVE  CommonsInv'
  <2> DEFINE t == Asked(position).term
  <2>1. t \in TermSet /\ clips \in [TermSet -> 0..ClipsPerTerm]
    BY <1>0, <1>2 DEF CommonsTypeOK
  <2>2. SmallerCount(clips[t] + more, ClipsPerTerm) \in 0..ClipsPerTerm
    BY <1>1, <2>1 DEF SmallerCount
  <2>3. clips' \in [TermSet -> 0..ClipsPerTerm]
    BY <1>11, <2>1, <2>2 DEF PageArrives
  <2> QED BY <1>0, <1>9, <1>11, <2>3 DEF PageArrives, CommonsTypeOK
<1>12. CASE FinishReelsPass
  <2>1. /\ phase = "asking" /\ phase' \in {"stored", "raised"}
        /\ position >= rounds * l \/ requests >= RequestBudget
        /\ UNCHANGED <<passes, rounds, position, requests, spent, failed, clips, newest, deep,
                       waits>>
    BY <1>1, <1>12 DEF FinishReelsPass, AsksLeft, l
  <2>2. /\ phase' = "stored" => dealt' = Mixed(OtherClips, NepaliClips)
        /\ phase' = "raised" => dealt' = dealt
        /\ idle' \in {idle, 0}
    BY <1>12 DEF FinishReelsPass
  <2>3. dealt' \in [other : 0..ReelLimit, nepali : 0..ReelLimit]
    <3>1. OtherClips \in Nat /\ NepaliClips \in Nat
      BY <1>0, ClipsAreCounted
    <3>2. Mixed(OtherClips, NepaliClips) \in [other : 0..ReelLimit, nepali : 0..ReelLimit]
      BY <3>1, MixedDealsEveryPlace
    <3>3. dealt \in [other : 0..ReelLimit, nepali : 0..ReelLimit]
      BY <1>0 DEF CommonsTypeOK
    <3> QED BY <2>1, <2>2, <3>2, <3>3
  <2>4. CommonsTypeOK'
    BY <1>0, <1>1, <2>1, <2>2, <2>3 DEF CommonsTypeOK
  <2>5. EveryTermIsReached'
    <3> SUFFICES ASSUME RequestBudget >= l PROVE newest = TermSet
      BY <2>1 DEF EveryTermIsReached, l
    <3>1. AskedTo(position) \subseteq newest /\ requests <= position /\ newest \subseteq TermSet
      BY <1>0, <2>1 DEF AsksAreInTurn
    <3>2. position >= l
      BY <1>0, <1>1, <2>1, <3>1
    <3> QED BY <1>2, <3>1, <3>2
  <2>6. DealtAsFound'
    BY <2>1, <2>2 DEF DealtAsFound, OtherClips, NepaliClips, ClipsOf
  <2>7. AsksAreInTurn'
    BY <1>0, <2>1 DEF AsksAreInTurn
  <2> QED BY <2>4, <2>5, <2>6, <2>7 DEF CommonsInv
<1>13. CASE CutShort
  <2>1. CommonsTypeOK'
    BY <1>0, <1>1, <1>3, <1>4, <1>13 DEF CutShort, CommonsTypeOK, l
  <2> QED BY <1>13, <2>1
          DEF CutShort, CommonsInv, AsksAreInTurn, EveryTermIsReached, DealtAsFound
<1>14. CASE NewProcess \/ IdleTick
  <2>1. /\ phase \in Ended /\ passes' \in 0..Len(Terms) - 1 /\ idle' \in 0..IdleLimit
        /\ UNCHANGED <<rounds, position, requests, spent, failed, clips, newest, deep, waits,
                       phase, dealt>>
    BY <1>0, <1>1, <1>14 DEF NewProcess, IdleTick, CommonsTypeOK, l
  <2>2. CommonsTypeOK'
    BY <1>0, <2>1 DEF CommonsTypeOK
  <2> QED BY <1>0, <2>1, <2>2 DEF CommonsInv, AsksAreInTurn, EveryTermIsReached, DealtAsFound,
                                  OtherClips, NepaliClips, ClipsOf
<1>15. CASE UNCHANGED commonsVars
  <2>1. CommonsTypeOK'
    BY <1>0, <1>15 DEF commonsVars, CommonsTypeOK
  <2> QED BY <1>0, <1>15, <2>1, SameOrder
          DEF commonsVars, CommonsInv, AsksAreInTurn, EveryTermIsReached, DealtAsFound,
              OtherClips, NepaliClips, ClipsOf
<1> QED BY <1>5, <1>6, <1>7, <1>8, <1>10, <1>11, <1>12, <1>13, <1>14, <1>15
        DEF CommonsNext, CommonsStep

\* No pass has been made to begin with.
LEMMA CommonsStarts ==
    ASSUME CommonsInit
    PROVE  CommonsInv
<1> DEFINE l == Len(Terms)
<1>1. /\ l \in Nat \ {0} /\ PagesPerTerm \in Nat /\ IdleLimit \in Nat /\ ClipsPerTerm \in Nat
      /\ RequestBudget \in Nat /\ ThrottleRetries \in Nat /\ BusyAttempts \in Nat \ {0}
      /\ ReelLimit \in Nat
  BY TermsAreFinite, CommonsAssumption
<1>2. PagesPerTerm * l \in Nat /\ 0 \in 0..l - 1
  BY <1>1
<1> HIDE DEF l
<1>3. CommonsTypeOK
  <2>1. /\ waits \in [throttled : 0..ThrottleRetries, busy : 0..BusyAttempts - 1]
        /\ dealt \in [other : 0..ReelLimit, nepali : 0..ReelLimit]
    BY <1>1 DEF CommonsInit, NoWaits, NobodyDealt
  <2>2. /\ passes \in 0..Len(Terms) - 1 /\ idle \in 0..IdleLimit /\ requests \in 0..RequestBudget
        /\ position \in 0..PagesPerTerm * Len(Terms) /\ clips \in [TermSet -> 0..ClipsPerTerm]
    BY <1>1, <1>2 DEF CommonsInit, l
  <2> QED BY <2>1, <2>2 DEF CommonsInit, CommonsTypeOK, Ended
<1> QED BY <1>3 DEF CommonsInit, CommonsInv, AsksAreInTurn, EveryTermIsReached, DealtAsFound

\* A budget that reaches round the list reaches every term of it, for any list.
THEOREM EveryTermHasItsAsk == CommonsSpec => []EveryTermIsReached
<1>1. CommonsInv => EveryTermIsReached
  BY DEF CommonsInv
<1> QED BY <1>1, CommonsStarts, CommonsInvStep, PTL DEF CommonsSpec

\* What a pass found is dealt as it should be.
LEMMA DealIsFair ==
    ASSUME CommonsInv
    PROVE  NoPlaceIsWasted
<1>1. OtherClips \in Nat /\ NepaliClips \in Nat
  BY ClipsAreCounted DEF CommonsInv
<1> QED BY <1>1, MixedDealsEveryPlace DEF NoPlaceIsWasted, CommonsInv, DealtAsFound

\* No place of a pass is wasted while there is a clip for it, whatever the terms bring.
THEOREM PlacesAreDealtOut == CommonsSpec => []NoPlaceIsWasted
  BY CommonsStarts, CommonsInvStep, DealIsFair, PTL DEF CommonsSpec

-----------------------------------------------------------------------------
(* The file a clip is played from. *)

\* What there was to choose from, by provider.
Offered ==
    CASE provider = "wikimedia" -> CommonsChoice(files)
      [] provider = "pexels"    -> PexelsChoice(files)
      [] provider = "pixabay"   -> PixabayChoice(files)

\* A choice that was made is one the provider's rule makes, and the original is
\* played only where the rule makes none.
ChoiceStands ==
    chosen =>
        /\ \/ Offered # {} /\ served \in Offered
           \/ Offered = {} /\ served = IF original.format = "unplayable" THEN Nothing ELSE original
        /\ poster = IF provider = "wikimedia" THEN PosterRung(width) ELSE 0

RenditionsInv ==
    /\ RenditionsTypeOK
    /\ provider \in {"wikimedia", "pexels", "pixabay"}
    /\ original \in {Nothing} \cup [format : Formats, sound : {TRUE}, height : {PreferredHeight}]
    /\ provider # "wikimedia" => original = Nothing
    /\ width \in Nat
    /\ ChoiceStands

\* Of some files one is the shortest, and of those no taller than a height one is
\* the tallest.
LEMMA SomeAreShortest ==
    ASSUME NEW s \in SUBSET File, s # {}
    PROVE  Shortest(s) # {}
<1> DEFINE height == [f \in s |-> f.height]
<1>1. \A f \in s : height[f] \in Nat /\ height[f] = f.height
  BY RenditionsAssumption DEF File
<1>2. PICK f \in s : \A g \in s : height[f] <= height[g]
  <2> HIDE DEF height
  <2> QED BY <1>1, LeastMeasured
<1>3. f \in Shortest(s)
  BY <1>1, <1>2 DEF Shortest
<1> QED BY <1>3

\* Of some files whose heights are bounded, some are tallest.
LEMMA SomeAreTallest ==
    ASSUME NEW s \in SUBSET File, s # {}, NEW limit \in Nat, \A f \in s : f.height <= limit
    PROVE  Tallest(s) # {}
<1> DEFINE height == [f \in s |-> f.height]
<1>1. \A f \in s : height[f] \in 0..limit /\ height[f] = f.height
  BY RenditionsAssumption DEF File
<1>2. PICK f \in s : \A g \in s : height[g] <= height[f]
  <2> HIDE DEF height
  <2> QED BY <1>1, MostMeasured
<1>3. f \in Tallest(s)
  BY <1>1, <1>2 DEF Tallest
<1> QED BY <1>3

\* What the rule for Commons narrows the files down to, step by step.
Playable(s) == {f \in s : f.format # "unplayable"}
Ranked(s) == Those(Playable(s), {f \in Playable(s) : f.format = "mp4"})
Heard(s) == Those(Ranked(s), {f \in Ranked(s) : f.sound})
Usable(s) == Those(Heard(s), {f \in Heard(s) : f.height >= MinHeight})
Below(s) == {f \in Usable(s) : f.height <= PreferredHeight}

\* The choice is made among what the last step leaves, and no step adds a file.
LEMMA CommonsChoiceInSteps ==
    ASSUME NEW s
    PROVE  /\ CommonsChoice(s) = IF Below(s) # {} THEN Tallest(Below(s)) ELSE Shortest(Usable(s))
           /\ Below(s) \subseteq Usable(s) /\ Usable(s) \subseteq Heard(s)
           /\ Heard(s) \subseteq Ranked(s) /\ Ranked(s) \subseteq Playable(s)
           /\ Playable(s) \subseteq s /\ CommonsChoice(s) \subseteq Usable(s)
<1>1. CommonsChoice(s) = IF Below(s) # {} THEN Tallest(Below(s)) ELSE Shortest(Usable(s))
  BY DEF CommonsChoice, Playable, Ranked, Heard, Usable, Below
<1>2. \A all, wanted : wanted \subseteq all => Those(all, wanted) \subseteq all
  BY DEF Those
<1>3. Below(s) \subseteq Usable(s) /\ Playable(s) \subseteq s
  BY DEF Below, Playable
<1>4. Usable(s) \subseteq Heard(s) /\ Heard(s) \subseteq Ranked(s) /\ Ranked(s) \subseteq Playable(s)
  BY <1>2 DEF Usable, Heard, Ranked
<1>5. \A all : Tallest(all) \subseteq all /\ Shortest(all) \subseteq all
  BY DEF Tallest, Shortest
<1>6. CommonsChoice(s) \subseteq Usable(s)
  BY <1>1, <1>3, <1>5
<1> QED BY <1>1, <1>3, <1>4, <1>6

\* The rule passes over a clip only if no file of it can be played.
LEMMA CommonsChoosesIfItCan ==
    ASSUME NEW s \in SUBSET File, CommonsChoice(s) = {}
    PROVE  \A f \in s : f.format = "unplayable"
<1>1. Usable(s) \in SUBSET File /\ Below(s) \in SUBSET File
  BY CommonsChoiceInSteps
<1>2. Below(s) # {} => Tallest(Below(s)) # {}
  <2>1. PreferredHeight \in Nat /\ \A f \in Below(s) : f.height <= PreferredHeight
    BY RenditionsAssumption DEF Below
  <2> QED BY <1>1, <2>1, SomeAreTallest
<1>3. Usable(s) # {} => Shortest(Usable(s)) # {}
  BY <1>1, SomeAreShortest
<1>4. Usable(s) = {}
  BY <1>2, <1>3, CommonsChoiceInSteps
<1>5. \A all, wanted : Those(all, wanted) = {} => all = {}
  BY DEF Those
<1>6. Heard(s) = {}
  BY <1>4, <1>5 DEF Usable
<1>7. Ranked(s) = {}
  BY <1>5, <1>6 DEF Heard
<1>8. Playable(s) = {}
  BY <1>5, <1>7 DEF Ranked
<1> QED BY <1>8 DEF Playable

\* A file that is as widely playable as the chosen one was not passed over for its
\* format, and one that is as well heard was not passed over for its sound.
LEMMA AsGoodAsTheChosen ==
    ASSUME NEW s, NEW c \in CommonsChoice(s), NEW f \in s, f.format = c.format
    PROVE  /\ c.format # "unplayable" /\ f \in Ranked(s)
           /\ f.sound => c.sound /\ f \in Heard(s)
           /\ f.sound = c.sound => f \in Heard(s)
<1>1. c \in Playable(s) /\ c \in Ranked(s) /\ c \in Heard(s)
  BY CommonsChoiceInSteps
<1>2. f \in Playable(s) /\ c.format # "unplayable"
  BY <1>1 DEF Playable
<1>3. f \in Ranked(s)
  BY <1>1, <1>2 DEF Ranked, Those
<1>4. f.sound => c.sound /\ f \in Heard(s)
  BY <1>1, <1>3 DEF Heard, Those
<1>5. f.sound = c.sound => f \in Heard(s)
  BY <1>1, <1>3 DEF Heard, Those
<1> QED BY <1>2, <1>3, <1>4, <1>5

\* The rung of the poster is a rung, and no wider than an original some rung fits.
LEMMA RungFits ==
    ASSUME NEW w \in Nat
    PROVE  /\ PosterRung(w) \in Rungs
           /\ (\E r \in Rungs : r <= w) => PosterRung(w) <= w
<1> DEFINE limit == IF w = 0 THEN PlainWidth ELSE IF w < PosterWidth THEN w ELSE PosterWidth
           fit == {r \in Rungs : r <= limit}
           lowest == CHOOSE r \in Rungs : \A q \in Rungs : r <= q
           widest == CHOOSE r \in fit : \A q \in fit : q <= r
<1>1. Rungs \in SUBSET Nat /\ Rungs # {} /\ (\A r \in Rungs : r > 0)
  BY RenditionsAssumption
<1>2. limit \in Nat /\ (w # 0 => limit <= w)
  BY RenditionsAssumption
<1>3. PosterRung(w) = IF fit = {} THEN lowest ELSE widest
  BY DEF PosterRung
<1> HIDE DEF limit
<1>4. lowest \in Rungs /\ \A q \in Rungs : lowest <= q
  <2>1. \E r \in Rungs : \A q \in Rungs : r <= q
    BY <1>1, LeastExists
  <2> QED BY <2>1
<1>5. fit # {} => widest \in fit
  <2> SUFFICES ASSUME fit # {} PROVE \E r \in fit : \A q \in fit : q <= r
    OBVIOUS
  <2> DEFINE itself == [r \in fit |-> r]
  <2>1. \A r \in fit : itself[r] \in 0..limit /\ itself[r] = r
    BY <1>1, <1>2
  <2>2. PICK r \in fit : \A q \in fit : itself[q] <= itself[r]
    <3> HIDE DEF itself, fit
    <3> QED BY <1>2, <2>1, MostMeasured
  <2> QED BY <2>1, <2>2
<1>6. PosterRung(w) \in Rungs
  BY <1>3, <1>4, <1>5
<1>7. ASSUME NEW r \in Rungs, r <= w PROVE PosterRung(w) <= w
  <2> HIDE DEF lowest, widest
  <2>0. r \in Nat /\ r > 0
    BY <1>1
  <2>1. w # 0 /\ limit <= w /\ limit \in Nat /\ r \in Nat /\ PosterRung(w) \in Nat
    <3>1. w # 0
      BY <1>7, <2>0
    <3>2. PosterRung(w) \in Nat
      BY <1>1, <1>6
    <3> QED BY <1>2, <2>0, <3>1, <3>2
  <2>2. CASE fit = {}
    <3>1. lowest <= r /\ PosterRung(w) = lowest
      BY <1>3, <1>4, <2>2
    <3> QED BY <1>7, <2>0, <2>1, <3>1
  <2>3. CASE fit # {}
    BY <1>3, <1>5, <2>1, <2>3
  <2> QED BY <2>2, <2>3
<1> QED BY <1>6, <1>7

\* The choice is made once, by the rule of the provider.
LEMMA RenditionsStep ==
    ASSUME RenditionsInv, [RenditionsNext]_renditionVars
    PROVE  RenditionsInv'
<1>1. CASE Choose
  <2>1. UNCHANGED <<provider, files, original, width>> /\ chosen' = TRUE
    BY <1>1 DEF Choose
  <2>2. UNCHANGED Offered
    BY <2>1 DEF Offered
  <2>3. ChoiceStands'
    BY <1>1, <2>1, <2>2 DEF Choose, ChoiceStands, Offered
  <2>4. Offered \subseteq files
    <3>1. \A all : Tallest(all) \subseteq all
      BY DEF Tallest
    <3>2. CommonsChoice(files) \subseteq files
      BY CommonsChoiceInSteps
    <3>3. PexelsChoice(files) \subseteq files /\ PixabayChoice(files) \subseteq files
      BY <3>1 DEF PexelsChoice, PixabayChoice, Those
    <3> QED BY <3>2, <3>3 DEF Offered, RenditionsInv
  <2>5. served' \in files' \cup {original', Nothing}
    BY <2>1, <2>2, <2>3, <2>4 DEF ChoiceStands
  <2>6. poster' \in Rungs \cup {0}
    BY <2>1, <2>3, RungFits DEF ChoiceStands, RenditionsInv
  <2> QED BY <2>1, <2>3, <2>5, <2>6 DEF RenditionsInv, RenditionsTypeOK
<1>2. CASE UNCHANGED renditionVars
  BY <1>2 DEF renditionVars, RenditionsInv, RenditionsTypeOK, ChoiceStands, Offered
<1> QED BY <1>1, <1>2 DEF RenditionsNext

\* No choice has been made to begin with, whether there is a clip or none.
LEMMA RenditionsStart ==
    ASSUME RenditionsInit \/ NoRenditions
    PROVE  RenditionsInv
<1>1. CASE RenditionsInit
  BY <1>1, RenditionsAssumption
     DEF RenditionsInit, RenditionsInv, RenditionsTypeOK, ChoiceStands
<1>2. CASE NoRenditions
  BY <1>2 DEF NoRenditions, RenditionsInv, RenditionsTypeOK, ChoiceStands
<1> QED BY <1>1, <1>2

\* A file that is served is one the provider's rule chose, the original apart.
LEMMA ServedWasOffered ==
    ASSUME RenditionsInv, chosen, served \in files
    PROVE  served \in Offered
<1> SUFFICES ASSUME Offered = {} PROVE FALSE
  BY DEF RenditionsInv, ChoiceStands
<1>1. served.format \in Formats /\ files \in SUBSET File
  BY DEF RenditionsInv, RenditionsTypeOK, File
<1>2. served = original /\ original.format # "unplayable" /\ provider = "wikimedia"
  BY <1>1 DEF RenditionsInv, ChoiceStands, Nothing, Formats
<1>3. CommonsChoice(files) = {}
  BY <1>2 DEF Offered
<1> QED BY <1>1, <1>2, <1>3, CommonsChoosesIfItCan

\* The rules keep what they promise.
LEMMA ChoicesAreGood ==
    ASSUME RenditionsInv
    PROVE  HeardAndSharp /\ FloorHolds /\ PosterIsNoUpscale
<1>1. MinHeight \in Nat /\ PreferredHeight \in Nat /\ MinHeight <= PreferredHeight
      /\ \A f \in files : f.height \in Nat
  BY RenditionsAssumption DEF RenditionsInv, RenditionsTypeOK, File
<1>2. HeardAndSharp
  <2> SUFFICES ASSUME chosen, provider = "wikimedia", served \in files
               PROVE  /\ served.format # "unplayable"
                      /\ \A f \in files : f.format = served.format /\ f.sound =>
                           /\ served.sound
                           /\ f.height <= PreferredHeight => f.height <= served.height
    BY DEF HeardAndSharp
  <2>1. served \in CommonsChoice(files)
    BY ServedWasOffered DEF Offered
  <2>2. served.format # "unplayable"
    BY <2>1, AsGoodAsTheChosen
  <2>3. ASSUME NEW f \in files, f.format = served.format, f.sound
        PROVE  served.sound /\ (f.height <= PreferredHeight => f.height <= served.height)
    <3>1. served.sound /\ f \in Heard(files)
      BY <2>1, <2>3, AsGoodAsTheChosen
    <3>2. ASSUME f.height <= PreferredHeight PROVE f.height <= served.height
      <4>1. CASE f \in Usable(files)
        <5>1. f \in Below(files)
          BY <3>2, <4>1 DEF Below
        <5>2. served \in Tallest(Below(files))
          BY <2>1, <5>1, CommonsChoiceInSteps
        <5> QED BY <5>1, <5>2 DEF Tallest
      <4>2. CASE f \notin Usable(files)
        <5>1. f.height < MinHeight /\ Usable(files) = {g \in Heard(files) : g.height >= MinHeight}
          BY <1>1, <3>1, <4>2 DEF Usable, Those
        <5>2. served \in Usable(files)
          BY <2>1, CommonsChoiceInSteps
        <5> QED BY <1>1, <5>1, <5>2
      <4> QED BY <4>1, <4>2
    <3> QED BY <3>1, <3>2
  <2> QED BY <2>2, <2>3
<1>3. FloorHolds
  <2> SUFFICES ASSUME chosen, served \in files, served.height \in 1..MinHeight - 1
               PROVE  /\ provider = "wikimedia"
                      /\ \A f \in files : f.format = served.format /\ f.sound = served.sound
                                             => f.height < MinHeight
    BY DEF FloorHolds
  <2>0. served \in Offered /\ served.height < MinHeight /\ served.height # 0
    BY <1>1, ServedWasOffered
  <2>1. provider # "pexels"
    <3> SUFFICES ASSUME provider = "pexels" PROVE FALSE
      OBVIOUS
    <3>1. served \in PexelsChoice(files)
      BY <2>0 DEF Offered
    <3> QED BY <1>1, <2>0, <3>1 DEF PexelsChoice, Tallest, Those
  <2>2. provider # "pixabay"
    <3> SUFFICES ASSUME provider = "pixabay" PROVE FALSE
      OBVIOUS
    <3>1. served \in PixabayChoice(files)
      BY <2>0 DEF Offered
    <3> QED BY <1>1, <2>0, <3>1 DEF PixabayChoice, Tallest
  <2>3. provider = "wikimedia" /\ served \in CommonsChoice(files)
    BY <2>0, <2>1, <2>2 DEF RenditionsInv, Offered
  <2>4. ASSUME NEW f \in files, f.format = served.format, f.sound = served.sound
        PROVE  f.height < MinHeight
    <3>1. f \in Heard(files)
      BY <2>3, <2>4, AsGoodAsTheChosen
    <3>2. served \in Usable(files) /\ Usable(files) \subseteq Heard(files)
      BY <2>3, CommonsChoiceInSteps
    <3>3. {g \in Heard(files) : g.height >= MinHeight} = {}
      BY <1>1, <2>0, <3>2 DEF Usable, Those
    <3> QED BY <1>1, <3>1, <3>3
  <2> QED BY <2>3, <2>4
<1>4. PosterIsNoUpscale
  BY RungFits DEF PosterIsNoUpscale, RenditionsInv, ChoiceStands
<1> QED BY <1>2, <1>3, <1>4

\* A card of a Commons clip is heard and as sharp as it can be, whatever files there are.
THEOREM CardsAreHeardAndSharp == RenditionsSpec => []HeardAndSharp
  BY RenditionsStart, RenditionsStep, ChoicesAreGood, PTL DEF RenditionsSpec

\* No provider's rule serves a preview for a video, whatever files there are.
THEOREM NoPreviewIsServed == RenditionsSpec => []FloorHolds
  BY RenditionsStart, RenditionsStep, ChoicesAreGood, PTL DEF RenditionsSpec

\* No poster is wider than an original that a rung fits, whatever the rungs.
THEOREM NoPosterIsAnUpscale == RenditionsSpec => []PosterIsNoUpscale
  BY RenditionsStart, RenditionsStep, ChoicesAreGood, PTL DEF RenditionsSpec
=============================================================================
