------------------------------ MODULE KeyPool ------------------------------
(***************************************************************************)
(* The rotating API keys of one reels provider: KeyPool of reels/keys.py   *)
(* and the calls _BaseSource._get_json makes with it.  A call takes the    *)
(* next usable key from the cursor on, and a key that is over its quota    *)
(* cools while the call goes on to the next one.  Keys are numbered in the *)
(* order of the setting; the time a key still cools is counted down.       *)
(***************************************************************************)
EXTENDS Naturals

CONSTANTS
    Keys,          \* how many keys the pool has
    Cooldown,      \* cooldown_seconds, in ticks
    CallsPerPass   \* the calls an adapter makes in one pass

ASSUME KeyPoolAssumption == {Keys, Cooldown, CallsPerPass} \subseteq Nat \ {0}

Key == 1..Keys
NoKey == 0

VARIABLES
    cooling,    \* per key, the ticks until it may be used again
    cursor,     \* the key the next search begins at
    using,      \* the key of the request that is out, or NoKey
    attempts,   \* the requests the call has made
    fresh,      \* the keys that were usable when the call began, not tried since
    callEnd,    \* how the call stands: out, or how the last one ended
    callsLeft   \* the calls this pass may still make

keyVars == <<cooling, cursor, using, attempts, fresh, callEnd, callsLeft>>

CallEnds == {"served", "rejected", "failed", "cooling", "exhausted"}

KeyPoolInit ==
    /\ cooling = [k \in Key |-> 0]
    /\ cursor = 1
    /\ using = NoKey
    /\ attempts = 0
    /\ fresh = {}
    /\ callEnd = "served"
    /\ callsLeft = 0

\* _sync_reels: every pass builds the pool anew, so nothing cools any more.
BuildPool ==
    /\ callEnd \in CallEnds
    /\ callEnd = "served" => callsLeft = 0
    /\ cooling' = [k \in Key |-> 0]
    /\ cursor' = 1
    /\ callEnd' = "served"
    /\ callsLeft' = CallsPerPass
    /\ UNCHANGED <<using, attempts, fresh>>

\* _get_json begins; a call that raised has ended the adapter's pass.
StartCall ==
    /\ callEnd = "served"
    /\ callsLeft > 0
    /\ callsLeft' = callsLeft - 1
    /\ attempts' = 0
    /\ fresh' = {k \in Key : cooling[k] = 0}
    /\ callEnd' = "out"
    /\ UNCHANGED <<cooling, cursor, using>>

\* A slip in CursorAfter: the search always begins at the first key.
AlwaysTheFirst(k) == 1

\* Where the cursor goes once k was handed out.
CursorAfter(k) == (k % Keys) + 1

\* How far key k is from the cursor, going round.
FromCursor(k) == (k + Keys - cursor) % Keys

\* next_key: the first usable key from the cursor on.
TakeKey ==
    /\ callEnd = "out"
    /\ using = NoKey
    /\ attempts <= Keys
    /\ \E k \in Key :
         /\ cooling[k] = 0
         /\ \A j \in Key : cooling[j] = 0 => FromCursor(k) <= FromCursor(j)
         /\ using' = k
         /\ cursor' = CursorAfter(k)
         /\ fresh' = fresh \ {k}
    /\ attempts' = attempts + 1
    /\ UNCHANGED <<cooling, callEnd, callsLeft>>

\* KeyPoolExhausted: next_key finds every key cooling.
AllCooling ==
    /\ callEnd = "out"
    /\ using = NoKey
    /\ attempts <= Keys
    /\ \A k \in Key : cooling[k] > 0
    /\ callEnd' = "cooling"
    /\ UNCHANGED <<cooling, cursor, using, attempts, fresh, callsLeft>>

\* One request more than there are keys, and none of them was served.
GiveUp ==
    /\ callEnd = "out"
    /\ using = NoKey
    /\ attempts > Keys
    /\ callEnd' = "exhausted"
    /\ UNCHANGED <<cooling, cursor, using, attempts, fresh, callsLeft>>

\* mark_quota_exceeded: a 429 cools the key for as long as the provider says,
\* up to twice our own cooldown, which is what stands in for anything else.
OverQuota ==
    /\ using # NoKey
    /\ \E ticks \in 1..2 * Cooldown : cooling' = [cooling EXCEPT ![using] = ticks]
    /\ using' = NoKey
    /\ UNCHANGED <<cursor, attempts, fresh, callEnd, callsLeft>>

\* mark: any other answer ends the call.  A key that was served is usable; a
\* key that was rejected, and one the provider failed on, is left as it is.
Served ==
    /\ using # NoKey
    /\ cooling' = [cooling EXCEPT ![using] = 0]
    /\ callEnd' = "served"
    /\ using' = NoKey
    /\ UNCHANGED <<cursor, attempts, fresh, callsLeft>>

NotServed ==
    /\ using # NoKey
    /\ callEnd' \in {"rejected", "failed"}
    /\ using' = NoKey
    /\ UNCHANGED <<cooling, cursor, attempts, fresh, callsLeft>>

KeyTick ==
    /\ \E k \in Key : cooling[k] > 0
    /\ cooling' = [k \in Key |-> IF cooling[k] = 0 THEN 0 ELSE cooling[k] - 1]
    /\ UNCHANGED <<cursor, using, attempts, fresh, callEnd, callsLeft>>

KeyPoolNext ==
    \/ BuildPool \/ StartCall
    \/ TakeKey \/ AllCooling \/ GiveUp
    \/ OverQuota \/ Served \/ NotServed
    \/ KeyTick

KeyPoolSpec == KeyPoolInit /\ [][KeyPoolNext]_keyVars

-----------------------------------------------------------------------------
\* The pool and the call hold values of their types.
KeyPoolTypeOK ==
    /\ cooling \in [Key -> 0..2 * Cooldown]
    /\ cursor \in Key
    /\ using \in Key \cup {NoKey}
    /\ attempts \in 0..Keys + 1
    /\ fresh \subseteq Key
    /\ callEnd \in CallEnds \cup {"out"}
    /\ callsLeft \in 0..CallsPerPass

\* A call that found no quota has tried every key that was usable when it
\* began, however soon the keys before it came back and were tried again.
NoUsableKeyIsPassedOver == callEnd \in {"cooling", "exhausted"} => fresh = {}
=============================================================================
