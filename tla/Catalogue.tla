----------------------------- MODULE Catalogue -----------------------------
(***************************************************************************)
(* What the articles and article_sources tables promise the readers of the *)
(* site, whoever writes them: a row is published once, under an id that is *)
(* never used again; a URL is attached to one row at a time and an outlet  *)
(* once per row, and stays until the row is retired; and a row's tally     *)
(* only rises, never past what the attached outlets account for.           *)
(***************************************************************************)
EXTENDS Integers, FiniteSets

CONSTANTS
    Id,         \* ids of rows
    Item,       \* the outlets' URLs
    OutletOf,   \* the outlet a URL is of
    Slack       \* how much of the tally one attached URL may account for

VARIABLES
    rows,       \* the published rows
    retired,    \* the rows that are gone
    tally,      \* source_count of the published rows
    links       \* which URL is attached to which row

catalogueVars == <<rows, retired, tally, links>>

CatalogueInit ==
    /\ rows = {} /\ retired = {} /\ links = {}
    /\ tally = [r \in Id |-> 0]

Publish(r) ==
    /\ r \in Id \ (rows \cup retired)
    /\ rows' = rows \cup {r}
    /\ tally' = [tally EXCEPT ![r] = 1]
    /\ UNCHANGED <<retired, links>>

Attach(u, r) ==
    /\ r \in rows
    /\ \A l \in links : l.url # u /\ ~(l.row = r /\ OutletOf[l.url] = OutletOf[u])
    /\ links' = links \cup {[url |-> u, row |-> r]}
    /\ UNCHANGED <<rows, retired, tally>>

Tally(r) ==
    /\ r \in rows
    /\ tally' = [tally EXCEPT ![r] = tally'[r]]
    /\ tally'[r] > tally[r]
    /\ tally'[r] <= 1 + Slack * Cardinality({l \in links : l.row = r})
    /\ UNCHANGED <<rows, retired, links>>

Retire(r) ==
    /\ r \in rows
    /\ rows' = rows \ {r}
    /\ retired' = retired \cup {r}
    /\ tally' = [tally EXCEPT ![r] = 0]
    /\ links' = {l \in links : l.row # r}

CatalogueNext ==
    \/ \E r \in Id : Publish(r) \/ Tally(r) \/ Retire(r)
    \/ \E u \in Item, r \in Id : Attach(u, r)

CatalogueSpec == CatalogueInit /\ [][CatalogueNext]_catalogueVars
=============================================================================
