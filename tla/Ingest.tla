------------------------------- MODULE Ingest -------------------------------
(***************************************************************************)
(* What run_source_sync does with the entries of a feed (services/         *)
(* ingestion.py, services/dedup.py): every entry is looked for among the   *)
(* stories seen in this poll, then in the database, and either becomes a   *)
(* row of its own or one more link to a row that is there.                 *)
(*                                                                         *)
(* Two pollers, the long-lived worker and the cron pass, read the same     *)
(* outlets and meet only in the database.  The entries of one poll are     *)
(* processed together, so a step below is what one entry does between two  *)
(* answers of the database.  All entries of a poll may be under way at     *)
(* once: ARTICLE_CONCURRENCY is three, and no outlet has more entries here.*)
(* A retention prune may come at any time.  A fault is a database call     *)
(* that db_call gave up on, an answer lost after the write was done, or a  *)
(* poller killed half way.                                                 *)
(***************************************************************************)
EXTENDS Integers, FiniteSets

CONSTANTS
    Poller,     \* the worker and the cron pass
    Item,       \* entries of the feeds: one URL and its wording
    OutletOf,   \* the outlet that files an entry
    StoryOf,    \* the story it tells; the duplicate tests find equal stories
    Feeds,      \* what the pollers' reads of the feeds may return, poller by poller
    Attempts,   \* DB_RETRY_ATTEMPTS
    NoRow,      \* no id
    Unbound,    \* an in-run verdict whose existing_id is still None
    MaxGen,     \* bound: how often an entry is stored afresh
    MaxPruned,  \* bound: rows that are pruned, fewer than MaxGen
    MaxFaults   \* bound: faults of all kinds

Outlet == {OutletOf[i] : i \in Item}
Story  == {StoryOf[i] : i \in Item}

\* A row's id: the entry it was stored for and how many times that had been done.
\* content_hash is unique, so an entry has one row at a time.
Row == Item \X (1..MaxGen)

ASSUME IngestAssumption ==
    /\ IsFiniteSet(Item)
    /\ Feeds \subseteq [Poller -> SUBSET Item]
    /\ Attempts \in Nat \ {0}
    /\ MaxGen \in Nat \ {0}
    /\ MaxPruned \in 0..(MaxGen - 1)
    /\ MaxFaults \in Nat
    /\ NoRow \notin Row /\ Unbound \notin Row /\ NoRow # Unbound

Phase == {"idle", "queued", "asking", "unique", "storing", "owning",
          "claiming", "bumping"}

VARIABLES
    rows,      \* ids in articles
    gen,       \* entry -> how many rows it has had
    count,     \* entry -> source_count of its row, 0 when it has none
    links,     \* article_sources: the entry's URL and the row it is attached to
    at,        \* poller -> entry -> how far _process_one is
    carries,   \* poller -> entry -> the id it is holding
    known,     \* poller -> outlet -> story -> the Deduplicator's in-run verdict
    faults,    \* faults so far
    reads      \* the entries each poller reads, poll after poll

tableVars == <<rows, gen, count, links>>
vars == <<tableVars, at, carries, known, faults, reads>>

RowsOf(i) == {r \in rows : r[1] = i}
LinksOf(r) == {l \in links : l.row = r}
Pruned == {r \in Row : r[2] <= gen[r[1]]} \ rows

Init ==
    /\ rows = {}
    /\ gen = [i \in Item |-> 0]
    /\ count = [i \in Item |-> 0]
    /\ links = {}
    /\ at = [p \in Poller |-> [i \in Item |-> "idle"]]
    /\ carries = [p \in Poller |-> [i \in Item |-> NoRow]]
    /\ known = [p \in Poller |-> [o \in Outlet |-> [s \in Story |-> NoRow]]]
    /\ faults = 0
    /\ reads \in Feeds

-----------------------------------------------------------------------------
Goto(p, i, phase, row) ==
    /\ at' = [at EXCEPT ![p][i] = phase]
    /\ carries' = [carries EXCEPT ![p][i] = row]

Done(p, i) == Goto(p, i, "idle", NoRow)

Verdict(p, i) == known[p][OutletOf[i]][StoryOf[i]]

SetVerdict(p, i, v) == known' = [known EXCEPT ![p][OutletOf[i]][StoryOf[i]] = v]

Fault == faults < MaxFaults /\ faults' = faults + 1 /\ UNCHANGED reads

\* A slip in StartPoll: the deduplicator outlives the poll it was made for.
StartPollKeepingVerdicts(p, o) ==
    /\ \A i \in Item : OutletOf[i] = o => at[p][i] = "idle"
    /\ \E i \in reads[p] : OutletOf[i] = o
    /\ at' = [at EXCEPT ![p] = [i \in Item |->
                 IF i \in reads[p] /\ OutletOf[i] = o THEN "queued" ELSE @[i]]]
    /\ UNCHANGED <<tableVars, carries, known, faults, reads>>

\* A poll of one outlet begins, with a Deduplicator of its own.
StartPoll(p, o) ==
    /\ \A i \in Item : OutletOf[i] = o => at[p][i] = "idle"
    /\ \E i \in reads[p] : OutletOf[i] = o
    /\ at' = [at EXCEPT ![p] = [i \in Item |->
                 IF i \in reads[p] /\ OutletOf[i] = o THEN "queued" ELSE @[i]]]
    /\ known' = [known EXCEPT ![p][o] = [s \in Story |-> NoRow]]
    /\ UNCHANGED <<tableVars, carries, faults, reads>>

\* A slip in CheckLocal: a duplicate is honoured though it has no id yet.
CheckLocalHonouringUnbound(p, i) ==
    /\ at[p][i] = "queued"
    /\ \/ Verdict(p, i) = NoRow /\ Goto(p, i, "asking", NoRow)
       \/ Verdict(p, i) # NoRow /\ Goto(p, i, "claiming", Verdict(p, i))
    /\ UNCHANGED <<tableVars, known, faults, reads>>

\* check_local.  A repeat with an id is a duplicate; a repeat whose row is not
\* stored yet has no id to honour and goes straight on to be stored.
CheckLocal(p, i) ==
    /\ at[p][i] = "queued"
    /\ \/ Verdict(p, i) = NoRow /\ Goto(p, i, "asking", NoRow)
       \/ Verdict(p, i) = Unbound /\ Goto(p, i, "storing", NoRow)
       \/ Verdict(p, i) \in Row /\ Goto(p, i, "claiming", Verdict(p, i))
    /\ UNCHANGED <<tableVars, known, faults, reads>>

\* check_local compares the headline with those remembered, in a thread of its own.
\* If another entry's thread remembers one meanwhile the dict has changed size under
\* the iteration: the check raises, and the entry is left for the next poll.
ScanFails(p, i) ==
    /\ at[p][i] = "queued"
    /\ \E s \in Story \ {StoryOf[i]} : known[p][OutletOf[i]][s] # NoRow
    /\ \E j \in Item \ {i} : OutletOf[j] = OutletOf[i] /\ at[p][j] = "unique"
    /\ Done(p, i)
    /\ UNCHANGED <<tableVars, known, faults, reads>>

\* check_database finds the entry's own row, by URL or hash, before another row of
\* the story, by title or likeness.
Ask(p, i) ==
    /\ at[p][i] = "asking"
    /\ LET same == {r \in rows : StoryOf[r[1]] = StoryOf[i]}
       IN  \/ RowsOf(i) # {} /\ \E r \in RowsOf(i) : Goto(p, i, "claiming", r)
           \/ RowsOf(i) = {} /\ \E r \in same : Goto(p, i, "claiming", r)
           \/ same = {} /\ Goto(p, i, "unique", NoRow)
    /\ UNCHANGED <<tableVars, known, faults, reads>>

\* The lookup is not answered: the entry is left for the next poll.
AskFails(p, i) ==
    /\ at[p][i] = "asking"
    /\ Fault
    /\ Done(p, i)
    /\ UNCHANGED <<tableVars, known>>

\* remember: whatever the run knew of the story is replaced by this verdict.
Remember(p, i) ==
    /\ at[p][i] = "unique"
    /\ SetVerdict(p, i, Unbound)
    /\ Goto(p, i, "storing", NoRow)
    /\ UNCHANGED <<tableVars, faults, reads>>

-----------------------------------------------------------------------------
(* store_article *)

\* The row is there already, under this slug or under this content_hash: its id
\* is what the caller gets.
StoreAgain(p, i) ==
    /\ at[p][i] = "storing"
    /\ \E r \in RowsOf(i) : Goto(p, i, "owning", r)
    /\ UNCHANGED <<tableVars, known, faults, reads>>

\* The row is written, with the column's default count of one.
StoreNew(p, i) ==
    /\ at[p][i] = "storing"
    /\ RowsOf(i) = {}
    /\ gen[i] < MaxGen
    /\ LET r == <<i, gen[i] + 1>>
       IN  rows' = rows \cup {r} /\ Goto(p, i, "owning", r)
    /\ gen' = [gen EXCEPT ![i] = @ + 1]
    /\ count' = [count EXCEPT ![i] = 1]
    /\ UNCHANGED <<links, known, faults, reads>>

\* Nothing came back that has an id, whether or not the row was written.
StoreFails(p, i) ==
    /\ at[p][i] = "storing"
    /\ Fault
    /\ Done(p, i)
    /\ \/ UNCHANGED <<rows, gen, count>>
       \/ /\ RowsOf(i) = {} /\ gen[i] < MaxGen
          /\ rows' = rows \cup {<<i, gen[i] + 1>>}
          /\ gen' = [gen EXCEPT ![i] = @ + 1]
          /\ count' = [count EXCEPT ![i] = 1]
    /\ UNCHANGED <<links, known>>

-----------------------------------------------------------------------------
(* _upsert_article_source and _bump_source_count *)

\* Neither unique index of migration 0009 is in the way, and the row is there.
MayLink(i, r) ==
    /\ r \in rows
    /\ \A l \in links : l.url # i /\ ~(l.row = r /\ OutletOf[l.url] = OutletOf[i])

AddLink(i, r) == links' = links \cup {[url |-> i, row |-> r]}

\* bind_article_id: the run learns the id, unless the story's own page gave the entry
\* another headline, for then the id is looked for under words nothing was remembered by.
Bind(p, i) == SetVerdict(p, i, carries[p][i]) \/ UNCHANGED known

\* The link of the entry that was stored as a row: whatever becomes of it, the id is
\* bound and the count stays.
Own(p, i) ==
    /\ at[p][i] = "owning"
    /\ IF MayLink(i, carries[p][i]) THEN AddLink(i, carries[p][i]) ELSE UNCHANGED links
    /\ Bind(p, i)
    /\ Done(p, i)
    /\ UNCHANGED <<rows, gen, count, faults, reads>>

OwnFails(p, i) ==
    /\ at[p][i] = "owning"
    /\ Fault
    /\ Bind(p, i)
    /\ Done(p, i)
    /\ UNCHANGED tableVars

\* A slip in Claim: an outlet that is met again is counted again.
ClaimCountingRepeats(p, i) ==
    /\ at[p][i] = "claiming"
    /\ IF MayLink(i, carries[p][i]) THEN AddLink(i, carries[p][i]) ELSE UNCHANGED links
    /\ Goto(p, i, "bumping", carries[p][i])
    /\ UNCHANGED <<rows, gen, count, known, faults, reads>>

\* The link of a duplicate.  Only one that was created here moves the count.
Claim(p, i) ==
    /\ at[p][i] = "claiming"
    /\ \/ /\ MayLink(i, carries[p][i])
          /\ AddLink(i, carries[p][i])
          /\ Goto(p, i, "bumping", carries[p][i])
       \/ /\ ~MayLink(i, carries[p][i])
          /\ Done(p, i)
          /\ UNCHANGED links
    /\ UNCHANGED <<rows, gen, count, known, faults, reads>>

\* The call is given up, or its answer is lost and the retry finds the link there.
ClaimFails(p, i) ==
    /\ at[p][i] = "claiming"
    /\ Fault
    /\ \/ UNCHANGED links
       \/ MayLink(i, carries[p][i]) /\ AddLink(i, carries[p][i])
    /\ Done(p, i)
    /\ UNCHANGED <<rows, gen, count, known>>

\* increment_article_source_count, applied n times: once, unless answers are lost.
Increment(p, i, n) ==
    /\ at[p][i] = "bumping"
    /\ count' = [count EXCEPT ![carries[p][i][1]] =
                    IF carries[p][i] \in rows THEN @ + n ELSE @]
    /\ Done(p, i)
    /\ UNCHANGED <<rows, gen, links, known>>

Bump(p, i) == Increment(p, i, 1) /\ UNCHANGED <<faults, reads>>

\* Given up before it was applied, or applied once per attempt.
BumpFails(p, i) == Fault /\ \E n \in (0..Attempts) \ {1} : Increment(p, i, n)

-----------------------------------------------------------------------------
(* Around them *)

\* A slip in Prune: the links of a pruned row are left behind.
PruneLeavingLinks(r) ==
    /\ r \in rows
    /\ Cardinality(Pruned) < MaxPruned
    /\ rows' = rows \ {r}
    /\ count' = [count EXCEPT ![r[1]] = 0]
    /\ UNCHANGED <<gen, links, at, carries, known, faults, reads>>

\* prune_expired_articles takes a row, and ON DELETE CASCADE its links.
Prune(r) ==
    /\ r \in rows
    /\ Cardinality(Pruned) < MaxPruned
    /\ rows' = rows \ {r}
    /\ count' = [count EXCEPT ![r[1]] = 0]
    /\ links' = links \ LinksOf(r)
    /\ UNCHANGED <<gen, at, carries, known, faults, reads>>

\* The poller is killed: its tasks and its in-run verdicts are gone.
Crash(p) ==
    /\ \E i \in Item : at[p][i] # "idle"
    /\ Fault
    /\ at' = [at EXCEPT ![p] = [i \in Item |-> "idle"]]
    /\ carries' = [carries EXCEPT ![p] = [i \in Item |-> NoRow]]
    /\ known' = [known EXCEPT ![p] = [o \in Outlet |-> [s \in Story |-> NoRow]]]
    /\ UNCHANGED tableVars

Process(p, i) ==
    \/ CheckLocal(p, i) \/ ScanFails(p, i) \/ Ask(p, i) \/ Remember(p, i)
    \/ StoreAgain(p, i) \/ StoreNew(p, i)
    \/ Own(p, i) \/ Claim(p, i) \/ Bump(p, i)

Fails(p, i) ==
    \/ AskFails(p, i) \/ StoreFails(p, i)
    \/ OwnFails(p, i) \/ ClaimFails(p, i) \/ BumpFails(p, i)

Next ==
    \/ \E p \in Poller, o \in Outlet : StartPoll(p, o)
    \/ \E p \in Poller, i \in Item : Process(p, i) \/ Fails(p, i)
    \/ \E p \in Poller : Crash(p)
    \/ \E r \in rows : Prune(r)

\* The scheduler and the cron workflow go on polling, and every await is answered,
\* or given up after its timeouts and retries.
Fairness ==
    /\ \A p \in Poller, o \in Outlet : WF_vars(StartPoll(p, o))
    /\ \A p \in Poller, i \in Item : WF_vars(Process(p, i))

Spec == Init /\ [][Next]_vars /\ Fairness

-----------------------------------------------------------------------------
(* Properties *)

\* Every variable has its type; what a task acts on is an id, never the placeholder
\* of a story that is still being stored.
TypeOK ==
    /\ rows \subseteq Row
    /\ gen \in [Item -> 0..MaxGen]
    /\ count \in [Item -> Nat]
    /\ links \subseteq [url : Item, row : Row]
    /\ at \in [Poller -> [Item -> Phase]]
    /\ carries \in [Poller -> [Item -> Row \cup {NoRow}]]
    /\ known \in [Poller -> [Outlet -> [Story -> Row \cup {NoRow, Unbound}]]]
    /\ faults \in 0..MaxFaults
    /\ reads \in Feeds

\* However often the two pollers meet a story again, whatever they race with and
\* whatever is lost, "reported by N outlets" is at most one more than the outlets
\* recorded for the row: an increment is paid for by a link nobody had written.
\* (An increment whose answer is lost is repeated by db_call, hence Attempts.)
CountBounded ==
    \A r \in rows : count[r[1]] <= 1 + Attempts * Cardinality(LinksOf(r))

\* A story that an outlet's feed goes on carrying ends up attached, for good, to a
\* row that is still there and tells that story, through prunes of the row between
\* the duplicate test and the link, lost answers and killed pollers.
StoryStaysCovered ==
    \A p \in Poller, i \in Item :
        i \in reads[p] =>
            <>[](\E l \in links : /\ OutletOf[l.url] = OutletOf[i]
                                  /\ StoryOf[l.row[1]] = StoryOf[i])

\* The two pollers, the retries and the prune together look like one catalogue
\* that publishes, attaches, counts and retires one row at a time.
Cat == INSTANCE Catalogue WITH
    Id      <- Row,
    Slack   <- Attempts,
    retired <- Pruned,
    tally   <- [r \in Row |-> IF r \in rows THEN count[r[1]] ELSE 0]

IsACatalogue == Cat!CatalogueSpec

-----------------------------------------------------------------------------
(* What the documentation promises and the code does not keep *)

\* One story is one row (dedup.py: bind_article_id is there so that two outlets
\* filing the same story during one pass do not become two rows).
OneRowPerStory ==
    \A r, q \in rows : StoryOf[r[1]] = StoryOf[q[1]] => r = q

\* source_count is the number of outlets that carried the story (0007; the
\* docstring of _upsert_article_source calls it honest).
CountHonest ==
    \A r \in rows : count[r[1]] <= Cardinality(
        {OutletOf[r[1]]} \cup {OutletOf[l.url] : l \in LinksOf(r)})
=============================================================================
