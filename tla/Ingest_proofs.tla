--------------------------- MODULE Ingest_proofs ---------------------------
(***************************************************************************)
(* Proofs about Ingest: its type invariant, that source_count stays within *)
(* what the links of the row account for, and that the two pollers         *)
(* implement Catalogue, for any pollers, feeds, numbers of retries, prunes *)
(* and faults.                                                             *)
(*                                                                         *)
(* CountBounded is not inductive: between the link and the increment it    *)
(* pays for, the bound must not already be spent.  Settled counts only the *)
(* links no increment is still owed for, and the rest of LedgerInv says    *)
(* that an increment that is owed to a row that is there has a link of its *)
(* own, which rests on ids being used once.                                *)
(*                                                                         *)
(* The refinement needs the same ledger: that ids are given out once makes *)
(* storing an entry a publication under an id never used, and the ledger   *)
(* after the step is what bounds the tally of an increment.  Everything    *)
(* the tasks do to no table is a stutter of the catalogue.                 *)
(***************************************************************************)
EXTENDS Ingest, FiniteSetTheorems, TLAPS

Holding == {"owning", "claiming", "bumping"}

\* The id a task, a link or a verdict refers to has been given out.
GivenOut(r) == r[2] <= gen[r[1]]

Owes(p, i, r) == at[p][i] = "bumping" /\ carries[p][i] = r

Settled(r) == {l \in links : l.row = r /\ \A p \in Poller : ~Owes(p, l.url, r)}

TasksHoldIds == \A p \in Poller, i \in Item : at[p][i] \in Holding => carries[p][i] \in Row

IdsAreGivenOut ==
    /\ \A r \in rows : GivenOut(r)
    /\ \A l \in links : GivenOut(l.row)
    /\ \A p \in Poller, i \in Item : at[p][i] \in Holding => GivenOut(carries[p][i])
    /\ \A p \in Poller, o \in Outlet, s \in Story :
          known[p][o][s] \in Row => GivenOut(known[p][o][s])

OneRowPerEntry == \A r, q \in rows : r[1] = q[1] => r = q

EveryDebtHasALink ==
    \A p \in Poller, i \in Item, r \in rows :
        Owes(p, i, r) => /\ [url |-> i, row |-> r] \in links
                         /\ \A q \in Poller : Owes(q, i, r) => q = p

Ledger == \A r \in rows : count[r[1]] <= 1 + Attempts * Cardinality(Settled(r))

LedgerInv ==
    /\ TypeOK
    /\ IsFiniteSet(links)
    /\ TasksHoldIds
    /\ IdsAreGivenOut
    /\ OneRowPerEntry
    /\ EveryDebtHasALink
    /\ Ledger

-----------------------------------------------------------------------------
\* What moving one task does, task by task.
LEMMA GotoTask ==
    ASSUME TypeOK, NEW p \in Poller, NEW i \in Item, NEW phase, NEW row, Goto(p, i, phase, row)
    PROVE  \A q \in Poller, j \in Item :
              /\ at'[q][j] = IF q = p /\ j = i THEN phase ELSE at[q][j]
              /\ carries'[q][j] = IF q = p /\ j = i THEN row ELSE carries[q][j]
  BY DEF Goto, TypeOK

\* Moving a task keeps the tasks well-typed.
LEMMA GotoTypes ==
    ASSUME TypeOK, NEW p \in Poller, NEW i \in Item,
           NEW phase \in Phase, NEW row \in Row \cup {NoRow}, Goto(p, i, phase, row)
    PROVE  /\ at' \in [Poller -> [Item -> Phase]]
           /\ carries' \in [Poller -> [Item -> Row \cup {NoRow}]]
<1>1. [at[p] EXCEPT ![i] = phase] \in [Item -> Phase]
  BY DEF TypeOK
<1>2. [carries[p] EXCEPT ![i] = row] \in [Item -> Row \cup {NoRow}]
  BY DEF TypeOK
<1> QED BY <1>1, <1>2 DEF Goto, TypeOK

\* A verdict is an id, nothing, or the placeholder of a story being stored.
LEMMA VerdictTypes ==
    ASSUME TypeOK, NEW p \in Poller, NEW i \in Item
    PROVE  /\ OutletOf[i] \in Outlet /\ StoryOf[i] \in Story
           /\ Verdict(p, i) \in Row \cup {NoRow, Unbound}
<1>1. OutletOf[i] \in Outlet /\ StoryOf[i] \in Story
  BY DEF Outlet, Story
<1> QED BY <1>1 DEF TypeOK, Verdict

\* Remembering a verdict keeps the deduplicators well-typed.
LEMMA SetVerdictTypes ==
    ASSUME TypeOK, NEW p \in Poller, NEW i \in Item,
           NEW v \in Row \cup {NoRow, Unbound}, SetVerdict(p, i, v)
    PROVE  /\ known' \in [Poller -> [Outlet -> [Story -> Row \cup {NoRow, Unbound}]]]
           /\ \A q \in Poller, o \in Outlet, s \in Story :
                 known'[q][o][s] = v \/ known'[q][o][s] = known[q][o][s]
<1> DEFINE o == OutletOf[i]
           s == StoryOf[i]
           V == Row \cup {NoRow, Unbound}
<1>1. o \in Outlet /\ s \in Story
  BY VerdictTypes
<1>2. known \in [Poller -> [Outlet -> [Story -> V]]] /\ v \in V
  BY DEF TypeOK
<1>3. known' = [known EXCEPT ![p][o][s] = v]
  BY DEF SetVerdict
<1> HIDE DEF o, s, V
<1>4. [known[p][o] EXCEPT ![s] = v] \in [Story -> V]
  BY <1>1, <1>2
<1>5. [known[p] EXCEPT ![o][s] = v] \in [Outlet -> [Story -> V]]
  BY <1>1, <1>2, <1>4
<1>6. known' \in [Poller -> [Outlet -> [Story -> V]]]
  BY <1>2, <1>3, <1>5
<1>7. \A q \in Poller, x \in Outlet, y \in Story :
         known'[q][x][y] = v \/ known'[q][x][y] = known[q][x][y]
  BY <1>1, <1>2, <1>3
<1> QED BY <1>6, <1>7 DEF V

\* Binding an id does so too, whether or not the entry is found.
LEMMA BindTypes ==
    ASSUME TypeOK, NEW p \in Poller, NEW i \in Item,
           carries[p][i] \in Row \cup {NoRow, Unbound}, Bind(p, i)
    PROVE  /\ known' \in [Poller -> [Outlet -> [Story -> Row \cup {NoRow, Unbound}]]]
           /\ \A q \in Poller, o \in Outlet, s \in Story :
                 known'[q][o][s] = carries[p][i] \/ known'[q][o][s] = known[q][o][s]
<1>1. CASE SetVerdict(p, i, carries[p][i])
  BY <1>1, SetVerdictTypes
<1>2. CASE UNCHANGED known
  BY <1>2 DEF TypeOK
<1> QED BY <1>1, <1>2 DEF Bind

-----------------------------------------------------------------------------
(* Type correctness *)

\* The next id of an entry is an id.
LEMMA NewRow ==
    ASSUME TypeOK, NEW i \in Item, gen[i] < MaxGen
    PROVE  /\ <<i, gen[i] + 1>> \in Row
           /\ [gen EXCEPT ![i] = @ + 1] \in [Item -> 0..MaxGen]
           /\ [count EXCEPT ![i] = 1] \in [Item -> Nat]
<1>1. gen[i] \in 0..MaxGen /\ MaxGen \in Nat
  BY IngestAssumption DEF TypeOK
<1>2. gen[i] + 1 \in 1..MaxGen
  BY <1>1
<1> QED BY <1>2 DEF TypeOK, Row

\* A fault is counted within its bound.
LEMMA FaultTypes ==
    ASSUME TypeOK, Fault
    PROVE  faults' \in 0..MaxFaults /\ reads' \in Feeds
<1>1. faults \in 0..MaxFaults /\ MaxFaults \in Nat
  BY IngestAssumption DEF TypeOK
<1> QED BY <1>1 DEF Fault, TypeOK

\* A link that may be written is a link.
LEMMA LinkTypes ==
    ASSUME TypeOK, NEW i \in Item, NEW r, MayLink(i, r), AddLink(i, r)
    PROVE  links' \subseteq [url : Item, row : Row]
<1>1. r \in Row
  BY DEF MayLink, TypeOK
<1> QED BY <1>1 DEF AddLink, TypeOK

\* The increment keeps the counts natural numbers.
LEMMA IncrementTypes ==
    ASSUME TypeOK, NEW p \in Poller, NEW i \in Item, NEW n \in Nat, Increment(p, i, n)
    PROVE  /\ count' \in [Item -> Nat]
           /\ at' \in [Poller -> [Item -> Phase]]
           /\ carries' \in [Poller -> [Item -> Row \cup {NoRow}]]
<1>1. Goto(p, i, "idle", NoRow)
  BY DEF Increment, Done
<1>2. "idle" \in Phase
  BY DEF Phase
<1>3. count' \in [Item -> Nat]
  <2> DEFINE j == carries[p][i][1]
  <2>1. count \in [Item -> Nat]
    BY DEF TypeOK
  <2>2. \/ count' = [count EXCEPT ![j] = @ + n]
        \/ count' = [count EXCEPT ![j] = @]
    BY DEF Increment
  <2> HIDE DEF j
  <2> QED BY <2>1, <2>2
<1> QED BY <1>1, <1>2, <1>3, GotoTypes

\* Every action keeps every type.
LEMMA TypeStep ==
    ASSUME TypeOK, [Next]_vars
    PROVE  TypeOK'
<1> USE DEF tableVars
<1>1. ASSUME NEW p \in Poller, NEW o \in Outlet, StartPoll(p, o) PROVE TypeOK'
  <2>1. [i \in Item |-> IF i \in reads[p] /\ OutletOf[i] = o THEN "queued" ELSE at[p][i]]
          \in [Item -> Phase]
    BY <1>1 DEF TypeOK, Phase
  <2>2. at' \in [Poller -> [Item -> Phase]]
    BY <1>1, <2>1 DEF StartPoll, TypeOK
  <2>3. [s \in Story |-> NoRow] \in [Story -> Row \cup {NoRow, Unbound}]
    OBVIOUS
  <2>4. known' \in [Poller -> [Outlet -> [Story -> Row \cup {NoRow, Unbound}]]]
    BY <1>1, <2>3 DEF StartPoll, TypeOK
  <2> QED BY <1>1, <2>2, <2>4 DEF StartPoll, TypeOK
<1>2. ASSUME NEW p \in Poller, NEW i \in Item, CheckLocal(p, i) PROVE TypeOK'
  <2>1. PICK phase \in Phase, row \in Row \cup {NoRow} : Goto(p, i, phase, row)
    BY <1>2 DEF CheckLocal, Phase
  <2> QED BY <1>2, <2>1, GotoTypes DEF CheckLocal, TypeOK
<1>3. ASSUME NEW p \in Poller, NEW i \in Item, Ask(p, i) PROVE TypeOK'
  <2>1. PICK phase \in Phase, row \in Row \cup {NoRow} : Goto(p, i, phase, row)
    BY <1>3 DEF Ask, Phase, RowsOf, TypeOK
  <2> QED BY <1>3, <2>1, GotoTypes DEF Ask, TypeOK
<1>4. ASSUME NEW p \in Poller, NEW i \in Item, Remember(p, i) PROVE TypeOK'
  <2>1. "storing" \in Phase
    BY DEF Phase
  <2> QED BY <1>4, <2>1, GotoTypes, SetVerdictTypes DEF Remember, TypeOK
<1>5. ASSUME NEW p \in Poller, NEW i \in Item, StoreAgain(p, i) PROVE TypeOK'
  <2>1. PICK phase \in Phase, row \in Row \cup {NoRow} : Goto(p, i, phase, row)
    BY <1>5 DEF StoreAgain, Phase, RowsOf, TypeOK
  <2> QED BY <1>5, <2>1, GotoTypes DEF StoreAgain, TypeOK
<1>6. ASSUME NEW p \in Poller, NEW i \in Item, StoreNew(p, i) PROVE TypeOK'
  <2>1. "owning" \in Phase
    BY DEF Phase
  <2> QED BY <1>6, <2>1, NewRow, GotoTypes DEF StoreNew, TypeOK
<1>7. ASSUME NEW p \in Poller, NEW i \in Item, Own(p, i) PROVE TypeOK'
  <2>1. "idle" \in Phase
    BY DEF Phase
  <2>2. carries[p][i] \in Row \cup {NoRow, Unbound}
    BY <1>7 DEF TypeOK
  <2>3. links' \subseteq [url : Item, row : Row]
    BY <1>7, LinkTypes DEF Own, TypeOK
  <2>4. known' \in [Poller -> [Outlet -> [Story -> Row \cup {NoRow, Unbound}]]]
    BY <1>7, <2>2, BindTypes DEF Own
  <2> QED BY <1>7, <2>1, <2>3, <2>4, GotoTypes DEF Own, Done, TypeOK
<1>8. ASSUME NEW p \in Poller, NEW i \in Item, Claim(p, i) PROVE TypeOK'
  <2>1. PICK phase \in Phase, row \in Row \cup {NoRow} : Goto(p, i, phase, row)
    BY <1>8 DEF Claim, Done, Phase, TypeOK
  <2>2. links' \subseteq [url : Item, row : Row]
    BY <1>8, LinkTypes DEF Claim, TypeOK
  <2> QED BY <1>8, <2>1, <2>2, GotoTypes DEF Claim, TypeOK
<1>9. ASSUME NEW p \in Poller, NEW i \in Item, Bump(p, i) PROVE TypeOK'
  BY <1>9, IncrementTypes DEF Bump, Increment, TypeOK
<1>10. ASSUME NEW p \in Poller, NEW i \in Item, Fails(p, i) PROVE TypeOK'
  <2>1. "idle" \in Phase
    BY DEF Phase
  <2>2. CASE AskFails(p, i)
    BY <2>1, <2>2, <1>10, GotoTypes, FaultTypes DEF AskFails, Done, TypeOK
  <2>3. CASE StoreFails(p, i)
    <3>1. CASE UNCHANGED <<rows, gen, count>>
      BY <2>1, <2>3, <3>1, <1>10, GotoTypes, FaultTypes DEF StoreFails, Done, TypeOK
    <3>2. CASE ~UNCHANGED <<rows, gen, count>>
      BY <2>1, <2>3, <3>2, <1>10, NewRow, GotoTypes, FaultTypes DEF StoreFails, Done, TypeOK
    <3> QED BY <3>1, <3>2
  <2>4. CASE OwnFails(p, i)
    <3>1. carries[p][i] \in Row \cup {NoRow, Unbound}
      BY <1>10 DEF TypeOK
    <3>2. known' \in [Poller -> [Outlet -> [Story -> Row \cup {NoRow, Unbound}]]]
      BY <2>4, <3>1, <1>10, BindTypes DEF OwnFails
    <3> QED BY <2>1, <2>4, <3>2, <1>10, GotoTypes, FaultTypes DEF OwnFails, Done, TypeOK
  <2>5. CASE ClaimFails(p, i)
    <3>1. links' \subseteq [url : Item, row : Row]
      BY <2>5, <1>10, LinkTypes DEF ClaimFails, TypeOK
    <3> QED BY <2>1, <2>5, <3>1, <1>10, GotoTypes, FaultTypes DEF ClaimFails, Done, TypeOK
  <2>6. CASE BumpFails(p, i)
    <3>1. PICK n \in Nat : Increment(p, i, n)
      BY <2>6 DEF BumpFails
    <3> QED BY <2>6, <3>1, <1>10, IncrementTypes, FaultTypes DEF BumpFails, Increment, TypeOK
  <2> QED BY <1>10, <2>2, <2>3, <2>4, <2>5, <2>6 DEF Fails
<1>11. ASSUME NEW p \in Poller, Crash(p) PROVE TypeOK'
  BY <1>11, FaultTypes DEF Crash, TypeOK, Phase
<1>12. ASSUME NEW r \in rows, Prune(r) PROVE TypeOK'
  BY <1>12 DEF Prune, LinksOf, TypeOK
<1>13. CASE UNCHANGED vars
  BY <1>13 DEF vars, TypeOK
<1>14. ASSUME NEW p \in Poller, NEW i \in Item, ScanFails(p, i) PROVE TypeOK'
  <2>1. "idle" \in Phase
    BY DEF Phase
  <2> QED BY <1>14, <2>1, GotoTypes DEF ScanFails, Done, TypeOK
<1> QED BY <1>1, <1>2, <1>3, <1>4, <1>5, <1>6, <1>7, <1>8, <1>9, <1>10, <1>11, <1>12, <1>13,
           <1>14
        DEF Next, Process

\* Every variable keeps its type, whatever the feeds and the bounds are.
THEOREM IngestTypeCorrect == Spec => []TypeOK
<1>1. Init => TypeOK
  BY IngestAssumption DEF Init, TypeOK, Phase
<1> QED BY <1>1, TypeStep, PTL DEF Spec

-----------------------------------------------------------------------------
(* The ledger *)

\* Multiplying by a natural number keeps the order.
LEMMA TimesMonotone ==
    ASSUME NEW k \in Nat, NEW a \in Nat, NEW b \in Nat, a <= b
    PROVE  k * a \in Nat /\ k * b \in Nat /\ k * a <= k * b
<1>1. b - a \in Nat /\ b = a + (b - a)
  OBVIOUS
<1>2. k * (b - a) \in Nat
  BY <1>1
<1>3. k * b = k * a + k * (b - a)
  BY <1>1
<1> QED BY <1>2, <1>3

\* There are finitely many settled links, if there are finitely many links.
LEMMA SettledIsCounted ==
    ASSUME IsFiniteSet(links), NEW r
    PROVE  Cardinality(Settled(r)) \in Nat /\ IsFiniteSet(Settled(r))
<1>1. Settled(r) \subseteq links
  BY DEF Settled
<1> QED BY <1>1, FS_Subset, FS_CardinalityType

\* A bound on the settled links is a bound on the links.
LEMMA SettledLinksAreLinks ==
    ASSUME LedgerInv
    PROVE  CountBounded
<1> SUFFICES ASSUME NEW r \in rows
             PROVE  count[r[1]] <= 1 + Attempts * Cardinality(LinksOf(r))
  BY DEF CountBounded
<1>1. IsFiniteSet(links) /\ count[r[1]] <= 1 + Attempts * Cardinality(Settled(r))
  BY DEF LedgerInv, Ledger
<1>2. Settled(r) \subseteq LinksOf(r) /\ LinksOf(r) \subseteq links
  BY DEF Settled, LinksOf
<1>3. IsFiniteSet(LinksOf(r))
  BY <1>1, <1>2, FS_Subset
<1>4. Cardinality(Settled(r)) <= Cardinality(LinksOf(r))
  BY <1>2, <1>3, FS_Subset
<1>5. Cardinality(Settled(r)) \in Nat /\ Cardinality(LinksOf(r)) \in Nat
  BY <1>1, <1>3, SettledIsCounted, FS_CardinalityType
<1>6. Attempts * Cardinality(Settled(r)) <= Attempts * Cardinality(LinksOf(r))
      /\ Attempts * Cardinality(Settled(r)) \in Nat
      /\ Attempts * Cardinality(LinksOf(r)) \in Nat
  BY <1>4, <1>5, TimesMonotone, IngestAssumption
<1>7. count[r[1]] \in Nat
  <2>1. r[1] \in Item
    BY DEF LedgerInv, TypeOK, Row
  <2> QED BY <2>1 DEF LedgerInv, TypeOK
<1> QED BY <1>1, <1>6, <1>7

\* A row whose count stands still and whose settled links do not shrink stays within
\* the bound.
LEMMA QuietRow ==
    ASSUME IsFiniteSet(links'), NEW r, r[1] \in Item, count[r[1]] \in Nat,
           count[r[1]] <= 1 + Attempts * Cardinality(Settled(r)),
           count'[r[1]] = count[r[1]],
           Settled(r) \subseteq Settled(r)'
    PROVE  count'[r[1]] <= 1 + Attempts * Cardinality(Settled(r)')
<1>1. Settled(r)' \subseteq links'
  BY DEF Settled
<1>2. IsFiniteSet(Settled(r)')
  BY <1>1, FS_Subset
<1>3. /\ Cardinality(Settled(r)) \in Nat /\ Cardinality(Settled(r)') \in Nat
      /\ Cardinality(Settled(r)) <= Cardinality(Settled(r)')
  BY <1>2, FS_Subset, FS_CardinalityType
<1>4. /\ Attempts * Cardinality(Settled(r)) \in Nat
      /\ Attempts * Cardinality(Settled(r)') \in Nat
      /\ Attempts * Cardinality(Settled(r)) <= Attempts * Cardinality(Settled(r)')
  BY <1>3, TimesMonotone, IngestAssumption
<1> QED BY <1>4

\* A step that gives out no id, counts nothing and begins no debt.
LEMMA QuietStep ==
    ASSUME LedgerInv, TypeOK',
           gen' = gen, rows' \subseteq rows,
           \A r \in rows' : count'[r[1]] = count[r[1]],
           IsFiniteSet(links'),
           \A l \in links' : GivenOut(l.row),
           \A l \in links : l.row \in rows' => l \in links',
           \A q \in Poller, j \in Item :
              /\ at'[q][j] = "bumping" => at[q][j] = "bumping" /\ carries'[q][j] = carries[q][j]
              /\ at'[q][j] \in Holding => carries'[q][j] \in Row /\ GivenOut(carries'[q][j]),
           \A q \in Poller, o \in Outlet, s \in Story :
              known'[q][o][s] \in Row => GivenOut(known'[q][o][s])
    PROVE  LedgerInv'
<1>1. TasksHoldIds' /\ OneRowPerEntry'
  BY DEF LedgerInv, TasksHoldIds, OneRowPerEntry
<1>2. IdsAreGivenOut'
  BY DEF LedgerInv, IdsAreGivenOut, GivenOut
<1>3. \A r : \A q \in Poller, j \in Item : Owes(q, j, r)' => Owes(q, j, r)
  BY DEF Owes
<1>4. EveryDebtHasALink'
  <2> SUFFICES ASSUME NEW q \in Poller, NEW j \in Item, NEW r \in rows', Owes(q, j, r)'
               PROVE  /\ [url |-> j, row |-> r] \in links'
                      /\ \A x \in Poller : Owes(x, j, r)' => x = q
    BY DEF EveryDebtHasALink
  <2>1. r \in rows /\ Owes(q, j, r)
    BY <1>3
  <2>2. [url |-> j, row |-> r] \in links /\ \A x \in Poller : Owes(x, j, r) => x = q
    BY <2>1 DEF LedgerInv, EveryDebtHasALink
  <2> QED BY <1>3, <2>2
<1>5. Ledger'
  <2> SUFFICES ASSUME NEW r \in rows'
               PROVE  count'[r[1]] <= 1 + Attempts * Cardinality(Settled(r)')
    BY DEF Ledger
  <2>1. Settled(r) \subseteq Settled(r)'
    <3>1. \A l \in links : l.url \in Item
      BY DEF LedgerInv, TypeOK
    <3> QED BY <1>3, <3>1 DEF Settled
  <2>2. r \in rows /\ r[1] \in Item
    BY DEF LedgerInv, TypeOK, Row
  <2>3. count[r[1]] \in Nat /\ count[r[1]] <= 1 + Attempts * Cardinality(Settled(r))
    BY <2>2 DEF LedgerInv, TypeOK, Ledger
  <2> QED BY <2>1, <2>2, <2>3, QuietRow
<1> QED BY <1>1, <1>2, <1>4, <1>5 DEF LedgerInv

\* An entry gets a row: the id is new, so nobody refers to it and nobody owes it.
LEMMA NewRowStep ==
    ASSUME LedgerInv, TypeOK', NEW p \in Poller, NEW i \in Item,
           NEW phase, phase # "bumping", NEW row, Goto(p, i, phase, row),
           phase \in Holding => row = <<i, gen[i] + 1>>,
           RowsOf(i) = {}, gen[i] < MaxGen,
           rows' = rows \cup {<<i, gen[i] + 1>>},
           gen' = [gen EXCEPT ![i] = @ + 1],
           count' = [count EXCEPT ![i] = 1],
           links' = links, known' = known
    PROVE  LedgerInv'
<1> DEFINE new == <<i, gen[i] + 1>>
<1>1. new \in Row /\ new[1] = i /\ new[2] = gen[i] + 1
  BY NewRow DEF LedgerInv
<1>2. \A q \in Poller, j \in Item :
         /\ at'[q][j] = IF q = p /\ j = i THEN phase ELSE at[q][j]
         /\ carries'[q][j] = IF q = p /\ j = i THEN row ELSE carries[q][j]
  BY GotoTask DEF LedgerInv
<1>3. \A r \in Row : GivenOut(r) => GivenOut(r)' /\ r # new
  <2> SUFFICES ASSUME NEW r \in Row, r[2] <= gen[r[1]]
               PROVE  r[2] <= gen'[r[1]] /\ r # new
    BY DEF GivenOut
  <2>1. r[1] \in Item /\ gen[r[1]] \in Int /\ r[2] \in Int /\ gen[i] \in Int
    BY IngestAssumption DEF LedgerInv, TypeOK, Row
  <2>2. gen'[r[1]] = IF r[1] = i THEN gen[i] + 1 ELSE gen[r[1]]
    BY <2>1 DEF LedgerInv, TypeOK
  <2> QED BY <1>1, <2>1, <2>2
<1>4. new[2] <= gen'[new[1]]
  <2>1. gen[i] \in Int /\ gen'[i] = gen[i] + 1
    BY IngestAssumption DEF LedgerInv, TypeOK
  <2> HIDE DEF new
  <2> QED BY <1>1, <2>1
<1> HIDE DEF new
<1>5. rows' = rows \cup {new} /\ (phase \in Holding => row = new)
  BY DEF new
<1>6. TasksHoldIds'
  BY <1>1, <1>2, <1>5 DEF LedgerInv, TasksHoldIds
<1>7. OneRowPerEntry'
  BY <1>1, <1>5 DEF LedgerInv, OneRowPerEntry, RowsOf
<1>8. IdsAreGivenOut'
  <2>1. \A r \in rows' : GivenOut(r)'
    <3>1. \A r \in rows : r \in Row /\ GivenOut(r)
      BY DEF LedgerInv, TypeOK, IdsAreGivenOut
    <3>2. \A r \in rows : r[2] <= gen'[r[1]]
      BY <1>3, <3>1 DEF GivenOut
    <3> QED BY <1>4, <1>5, <3>2 DEF GivenOut
  <2>2. \A l \in links' : GivenOut(l.row)'
    BY <1>3 DEF LedgerInv, TypeOK, IdsAreGivenOut
  <2>3. \A q \in Poller, j \in Item : at[q][j] \in Holding =>
            carries[q][j][2] <= gen'[carries[q][j][1]]
    BY <1>3 DEF LedgerInv, TasksHoldIds, IdsAreGivenOut, GivenOut
  <2>4. \A q \in Poller, j \in Item : at'[q][j] \in Holding => GivenOut(carries[q][j])'
    <3>1. ASSUME NEW q \in Poller, NEW j \in Item, at'[q][j] \in Holding
          PROVE  carries'[q][j][2] <= gen'[carries'[q][j][1]]
      <4>1. CASE q = p /\ j = i
        BY <1>2, <1>4, <1>5, <3>1, <4>1
      <4>2. CASE ~(q = p /\ j = i)
        BY <1>2, <2>3, <3>1, <4>2
      <4> QED BY <4>1, <4>2
    <3> QED BY <3>1 DEF GivenOut
  <2>5. \A q \in Poller, o \in Outlet, s \in Story :
           known'[q][o][s] \in Row => GivenOut(known[q][o][s])'
    BY <1>3 DEF LedgerInv, IdsAreGivenOut, GivenOut
  <2> QED BY <2>1, <2>2, <2>4, <2>5 DEF IdsAreGivenOut
<1>9. \A r : \A q \in Poller, j \in Item : Owes(q, j, r)' => Owes(q, j, r) /\ r # new
  BY <1>2, <1>3 DEF Owes, LedgerInv, TasksHoldIds, IdsAreGivenOut, Holding
<1>10. EveryDebtHasALink'
  BY <1>5, <1>9 DEF LedgerInv, EveryDebtHasALink
<1>11. Ledger'
  <2> SUFFICES ASSUME NEW r \in rows'
               PROVE  count'[r[1]] <= 1 + Attempts * Cardinality(Settled(r)')
    BY DEF Ledger
  <2>0. IsFiniteSet(links')
    BY DEF LedgerInv
  <2>1. CASE r = new
    <3>1. count'[r[1]] = 1
      BY <1>1, <2>1 DEF LedgerInv, TypeOK
    <3>2. Settled(r)' \subseteq links'
      BY DEF Settled
    <3>3. Cardinality(Settled(r)') \in Nat
      BY <2>0, <3>2, FS_Subset, FS_CardinalityType
    <3>4. Attempts * Cardinality(Settled(r)') \in Nat
      BY <3>3, TimesMonotone, IngestAssumption
    <3> QED BY <3>1, <3>4
  <2>2. CASE r # new
    <3>1. r \in rows /\ r[1] \in Item /\ r[1] # i
      BY <1>5, <2>2 DEF LedgerInv, TypeOK, Row, RowsOf
    <3>2. count'[r[1]] = count[r[1]]
      BY <3>1 DEF LedgerInv, TypeOK
    <3>3. \A l \in links : l.url \in Item
      BY DEF LedgerInv, TypeOK
    <3>4. Settled(r) \subseteq Settled(r)'
      BY <1>9, <3>3 DEF Settled
    <3>5. count[r[1]] \in Nat /\ count[r[1]] <= 1 + Attempts * Cardinality(Settled(r))
      BY <3>1 DEF LedgerInv, TypeOK, Ledger
    <3> QED BY <2>0, <3>1, <3>2, <3>4, <3>5, QuietRow
  <2> QED BY <2>1, <2>2
<1>12. IsFiniteSet(links')
  BY DEF LedgerInv
<1> QED BY <1>6, <1>7, <1>8, <1>10, <1>11, <1>12 DEF LedgerInv

\* A duplicate's link is written: the new link is not settled, its increment is owed.
LEMMA ClaimStep ==
    ASSUME LedgerInv, TypeOK', NEW p \in Poller, NEW i \in Item, NEW row,
           Goto(p, i, "bumping", row), MayLink(i, row), AddLink(i, row),
           UNCHANGED <<rows, gen, count, known>>
    PROVE  LedgerInv'
<1> DEFINE link == [url |-> i, row |-> row]
<1>1. \A q \in Poller, j \in Item :
         /\ at'[q][j] = IF q = p /\ j = i THEN "bumping" ELSE at[q][j]
         /\ carries'[q][j] = IF q = p /\ j = i THEN row ELSE carries[q][j]
  BY GotoTask DEF LedgerInv
<1>2. row \in rows /\ row \in Row /\ GivenOut(row) /\ \A l \in links : l.url # i
  BY DEF MayLink, LedgerInv, TypeOK, IdsAreGivenOut
<1>3. links' = links \cup {link} /\ link.url = i /\ link.row = row
  BY DEF AddLink
<1>4. link \notin links
  BY <1>2, <1>3
<1>5. \A q \in Poller, r \in rows : ~Owes(q, i, r)
  BY <1>2 DEF LedgerInv, EveryDebtHasALink
<1>6. \A r : \A q \in Poller, j \in Item : Owes(q, j, r)' =>
          Owes(q, j, r) \/ (q = p /\ j = i /\ r = row)
  BY <1>1 DEF Owes
<1>7. Owes(p, i, row)'
  BY <1>1 DEF Owes
<1>8. TasksHoldIds'
  BY <1>1, <1>2 DEF LedgerInv, TasksHoldIds
<1>9. IdsAreGivenOut' /\ OneRowPerEntry'
  <2>1. \A l \in links' : GivenOut(l.row)'
    BY <1>2, <1>3 DEF LedgerInv, IdsAreGivenOut, GivenOut
  <2>2. \A q \in Poller, j \in Item : at'[q][j] \in Holding => GivenOut(carries[q][j])'
    BY <1>1, <1>2 DEF LedgerInv, IdsAreGivenOut, GivenOut
  <2> QED BY <2>1, <2>2 DEF LedgerInv, IdsAreGivenOut, GivenOut, OneRowPerEntry
<1>10. EveryDebtHasALink'
  <2> SUFFICES ASSUME NEW q \in Poller, NEW j \in Item, NEW r \in rows, Owes(q, j, r)'
               PROVE  /\ [url |-> j, row |-> r] \in links'
                      /\ \A x \in Poller : Owes(x, j, r)' => x = q
    BY DEF EveryDebtHasALink
  <2>1. CASE j = i
    BY <1>3, <1>5, <1>6, <2>1
  <2>2. CASE j # i
    <3>1. Owes(q, j, r) /\ \A x \in Poller : Owes(x, j, r)' => Owes(x, j, r)
      BY <1>6, <2>2
    <3> QED BY <1>3, <3>1 DEF LedgerInv, EveryDebtHasALink
  <2> QED BY <2>1, <2>2
<1>11. IsFiniteSet(links')
  BY <1>3, FS_AddElement DEF LedgerInv
<1>12. Ledger'
  <2> SUFFICES ASSUME NEW r \in rows
               PROVE  count'[r[1]] <= 1 + Attempts * Cardinality(Settled(r)')
    BY DEF Ledger
  <2>1. \A l \in links : l.url \in Item /\ l.url # i
    BY <1>2 DEF LedgerInv, TypeOK
  <2>2. Settled(r) \subseteq Settled(r)'
    BY <1>3, <1>6, <2>1 DEF Settled
  <2>3. r[1] \in Item
    BY DEF LedgerInv, TypeOK, Row
  <2>4. count[r[1]] \in Nat /\ count[r[1]] <= 1 + Attempts * Cardinality(Settled(r))
    BY <2>3 DEF LedgerInv, TypeOK, Ledger
  <2>5. count'[r[1]] = count[r[1]]
    OBVIOUS
  <2> QED BY <1>11, <2>2, <2>3, <2>4, <2>5, QuietRow
<1> QED BY <1>8, <1>9, <1>10, <1>11, <1>12 DEF LedgerInv

\* A debt is paid: the link of the entry becomes settled as the count goes up.
LEMMA IncrementStep ==
    ASSUME LedgerInv, TypeOK', NEW p \in Poller, NEW i \in Item,
           NEW n \in 0..Attempts, Increment(p, i, n)
    PROVE  LedgerInv'
<1> DEFINE paid == carries[p][i]
           link == [url |-> i, row |-> paid]
<1>1. \A q \in Poller, j \in Item :
         /\ at'[q][j] = IF q = p /\ j = i THEN "idle" ELSE at[q][j]
         /\ carries'[q][j] = IF q = p /\ j = i THEN NoRow ELSE carries[q][j]
  <2>1. Goto(p, i, "idle", NoRow)
    BY DEF Increment, Done
  <2> QED BY <2>1, GotoTask DEF LedgerInv
<1>2. Owes(p, i, paid) /\ rows' = rows /\ gen' = gen /\ links' = links /\ known' = known
  BY DEF Increment, Owes
<1>3. \A r : \A q \in Poller, j \in Item :
         Owes(q, j, r)' => Owes(q, j, r) /\ ~(q = p /\ j = i)
  BY <1>1 DEF Owes
<1>4. TasksHoldIds' /\ OneRowPerEntry' /\ IsFiniteSet(links')
  BY <1>1, <1>2 DEF LedgerInv, TasksHoldIds, OneRowPerEntry, Holding
<1>5. IdsAreGivenOut'
  <2>1. \A q \in Poller, j \in Item : at'[q][j] \in Holding =>
            at[q][j] \in Holding /\ carries'[q][j] = carries[q][j]
    BY <1>1 DEF Holding
  <2> QED BY <1>2, <2>1 DEF LedgerInv, IdsAreGivenOut, GivenOut
<1>6. EveryDebtHasALink'
  BY <1>2, <1>3 DEF LedgerInv, EveryDebtHasALink
<1>7. Ledger'
  <2> SUFFICES ASSUME NEW r \in rows
               PROVE  count'[r[1]] <= 1 + Attempts * Cardinality(Settled(r)')
    BY <1>2 DEF Ledger
  <2>1. r[1] \in Item /\ count[r[1]] \in Nat
        /\ count[r[1]] <= 1 + Attempts * Cardinality(Settled(r))
    <3>1. r[1] \in Item
      BY DEF LedgerInv, TypeOK, Row
    <3> QED BY <3>1 DEF LedgerInv, TypeOK, Ledger
  <2>2. Settled(r) \subseteq Settled(r)'
    <3>1. \A l \in links : l.url \in Item
      BY DEF LedgerInv, TypeOK
    <3> QED BY <1>2, <1>3, <3>1 DEF Settled
  <2>3. CASE r # paid
    <3>1. paid \in rows => paid[1] # r[1]
      BY <2>3 DEF LedgerInv, OneRowPerEntry
    <3>2. count'[r[1]] = count[r[1]]
      BY <2>1, <3>1 DEF Increment, LedgerInv, TypeOK
    <3> QED BY <1>4, <2>1, <2>2, <3>2, QuietRow
  <2>4. CASE r = paid
    <3>1. link \in links /\ \A q \in Poller : Owes(q, i, paid) => q = p
      BY <1>2, <2>4 DEF LedgerInv, EveryDebtHasALink
    <3>2. link \notin Settled(r)
      BY <1>2, <2>4 DEF Settled
    <3>3. link \in Settled(r)'
      BY <1>2, <1>3, <2>4, <3>1 DEF Settled
    <3>4. IsFiniteSet(Settled(r)) /\ IsFiniteSet(Settled(r)')
      <4>1. Settled(r)' \subseteq links' /\ Settled(r) \subseteq links
        BY DEF Settled
      <4> QED BY <4>1, <1>4, FS_Subset DEF LedgerInv
    <3> DEFINE a == Cardinality(Settled(r))
               b == Cardinality(Settled(r)')
    <3>5. Cardinality(Settled(r) \cup {link}) = a + 1 /\ IsFiniteSet(Settled(r) \cup {link})
      BY <3>2, <3>4, FS_AddElement
    <3>6. a \in Nat /\ b \in Nat /\ a + 1 <= b
      BY <2>2, <3>3, <3>4, <3>5, FS_Subset, FS_CardinalityType
    <3>7. count'[r[1]] = count[r[1]] + n
      BY <2>1, <2>4 DEF Increment, LedgerInv, TypeOK
    <3> HIDE DEF a, b
    <3>8. Attempts * a \in Nat /\ Attempts * (a + 1) \in Nat /\ Attempts * b \in Nat
          /\ Attempts * (a + 1) <= Attempts * b /\ Attempts * (a + 1) = Attempts * a + Attempts
      <4>1. Attempts \in Nat /\ a + 1 \in Nat
        BY <3>6, IngestAssumption
      <4> QED BY <3>6, <4>1, TimesMonotone
    <3>9. n <= Attempts /\ n \in Nat /\ Attempts \in Nat
      BY IngestAssumption
    <3>10. count[r[1]] <= 1 + Attempts * a
      BY <2>1 DEF a
    <3>11. count'[r[1]] <= 1 + Attempts * b
      BY <2>1, <3>7, <3>8, <3>9, <3>10
    <3> QED BY <3>11 DEF b
  <2> QED BY <2>3, <2>4
<1> QED BY <1>4, <1>5, <1>6, <1>7 DEF LedgerInv

\* One task moves on without a new debt, perhaps leaving a link or a verdict behind.
LEMMA MoveStep ==
    ASSUME LedgerInv, TypeOK', NEW p \in Poller, NEW i \in Item,
           NEW phase, phase # "bumping", NEW row, Goto(p, i, phase, row),
           phase \in Holding => row \in Row /\ GivenOut(row),
           UNCHANGED <<rows, gen, count>>,
           links' = links \/ \E r : MayLink(i, r) /\ AddLink(i, r),
           \A q \in Poller, o \in Outlet, s \in Story :
              known'[q][o][s] \in Row => GivenOut(known'[q][o][s])
    PROVE  LedgerInv'
<1>1. \A q \in Poller, j \in Item :
         /\ at'[q][j] = IF q = p /\ j = i THEN phase ELSE at[q][j]
         /\ carries'[q][j] = IF q = p /\ j = i THEN row ELSE carries[q][j]
  BY GotoTask DEF LedgerInv
<1>2. IsFiniteSet(links') /\ links \subseteq links' /\ \A l \in links' : GivenOut(l.row)
  <2>1. CASE links' = links
    BY <2>1 DEF LedgerInv, IdsAreGivenOut
  <2>2. ASSUME NEW r, MayLink(i, r), AddLink(i, r)
        PROVE  IsFiniteSet(links') /\ links \subseteq links' /\ \A l \in links' : GivenOut(l.row)
    <3>1. GivenOut(r)
      BY <2>2 DEF MayLink, LedgerInv, IdsAreGivenOut
    <3>2. links' = links \cup {[url |-> i, row |-> r]}
      BY <2>2 DEF AddLink
    <3>3. IsFiniteSet(links')
      BY <3>2, FS_AddElement DEF LedgerInv
    <3>4. \A l \in links' : GivenOut(l.row)
      BY <3>1, <3>2 DEF LedgerInv, IdsAreGivenOut
    <3> QED BY <3>2, <3>3, <3>4
  <2> QED BY <2>1, <2>2
<1>3. \A q \in Poller, j \in Item :
         /\ at'[q][j] = "bumping" => at[q][j] = "bumping" /\ carries'[q][j] = carries[q][j]
         /\ at'[q][j] \in Holding => carries'[q][j] \in Row /\ GivenOut(carries'[q][j])
  <2>1. \A q \in Poller, j \in Item : at[q][j] \in Holding =>
           carries[q][j] \in Row /\ carries[q][j][2] <= gen[carries[q][j][1]]
    BY DEF LedgerInv, TasksHoldIds, IdsAreGivenOut, GivenOut
  <2> QED BY <1>1, <2>1 DEF GivenOut
<1> QED BY <1>2, <1>3, QuietStep

\* A fault keeps the ledger, whatever was lost.
LEMMA FailsStep ==
    ASSUME LedgerInv, TypeOK', NEW p \in Poller, NEW i \in Item, Fails(p, i)
    PROVE  LedgerInv'
<1> USE DEF tableVars, Done
<1>0. "idle" # "bumping" /\ "idle" \notin Holding
  BY DEF Holding
<1>1. \A q \in Poller, o \in Outlet, s \in Story :
         known[q][o][s] \in Row => GivenOut(known[q][o][s])
  BY DEF LedgerInv, IdsAreGivenOut
<1>2. CASE AskFails(p, i)
  BY <1>0, <1>1, <1>2, MoveStep DEF AskFails
<1>3. CASE StoreFails(p, i)
  <2>1. CASE UNCHANGED <<rows, gen, count>>
    BY <1>0, <1>1, <1>3, <2>1, MoveStep DEF StoreFails
  <2>2. CASE ~UNCHANGED <<rows, gen, count>>
    BY <1>0, <1>3, <2>2, NewRowStep DEF StoreFails
  <2> QED BY <2>1, <2>2
<1>4. CASE OwnFails(p, i)
  <2>1. GivenOut(carries[p][i])
    BY <1>4 DEF OwnFails, LedgerInv, IdsAreGivenOut, Holding
  <2>2. \A q \in Poller, o \in Outlet, s \in Story :
           known'[q][o][s] = carries[p][i] \/ known'[q][o][s] = known[q][o][s]
    <3>1. carries[p][i] \in Row \cup {NoRow, Unbound}
      BY DEF LedgerInv, TypeOK
    <3> QED BY <1>4, <3>1, BindTypes DEF OwnFails, LedgerInv
  <2> QED BY <1>0, <1>1, <1>4, <2>1, <2>2, MoveStep DEF OwnFails
<1>5. CASE ClaimFails(p, i)
  BY <1>0, <1>1, <1>5, MoveStep DEF ClaimFails
<1>6. CASE BumpFails(p, i)
  <2>1. PICK n \in 0..Attempts : Increment(p, i, n)
    BY <1>6 DEF BumpFails
  <2> QED BY <2>1, IncrementStep
<1> QED BY <1>2, <1>3, <1>4, <1>5, <1>6 DEF Fails

\* What a task does when its call is answered keeps the ledger.
LEMMA ProcessStep ==
    ASSUME LedgerInv, TypeOK', NEW p \in Poller, NEW i \in Item, Process(p, i)
    PROVE  LedgerInv'
<1> USE DEF tableVars, Done
<1>0. /\ \A q \in Poller, o \in Outlet, s \in Story :
            known[q][o][s] \in Row => GivenOut(known[q][o][s])
      /\ \A r \in rows : r \in Row /\ GivenOut(r)
  BY DEF LedgerInv, IdsAreGivenOut, TypeOK
<1>1. CASE CheckLocal(p, i)
  <2>1. PICK phase, row : Goto(p, i, phase, row) /\ phase # "bumping"
                          /\ (phase \in Holding => row \in Row /\ row = Verdict(p, i))
    BY <1>1 DEF CheckLocal, Holding
  <2>2. Verdict(p, i) \in Row => GivenOut(Verdict(p, i))
    BY <1>0, VerdictTypes DEF Verdict, LedgerInv
  <2> QED BY <1>0, <1>1, <2>1, <2>2, MoveStep DEF CheckLocal
<1>2. CASE Ask(p, i)
  <2>1. PICK phase, row : Goto(p, i, phase, row) /\ phase # "bumping"
                          /\ (phase \in Holding => row \in rows)
    BY <1>2 DEF Ask, RowsOf, Holding
  <2> QED BY <1>0, <1>2, <2>1, MoveStep DEF Ask
<1>3. CASE Remember(p, i)
  <2>1. \A q \in Poller, o \in Outlet, s \in Story :
           known'[q][o][s] = Unbound \/ known'[q][o][s] = known[q][o][s]
    BY <1>3, SetVerdictTypes DEF Remember, LedgerInv
  <2>2. Unbound \notin Row /\ "storing" # "bumping" /\ "storing" \notin Holding
    BY IngestAssumption DEF Holding
  <2> QED BY <1>0, <1>3, <2>1, <2>2, MoveStep DEF Remember
<1>4. CASE StoreAgain(p, i)
  <2>1. PICK r \in rows : Goto(p, i, "owning", r)
    BY <1>4 DEF StoreAgain, RowsOf
  <2> QED BY <1>0, <1>4, <2>1, MoveStep DEF StoreAgain
<1>5. CASE StoreNew(p, i)
  <2>1. "owning" # "bumping"
    OBVIOUS
  <2> QED BY <1>5, <2>1, NewRowStep DEF StoreNew
<1>6. CASE Own(p, i)
  <2>1. GivenOut(carries[p][i])
    BY <1>6 DEF Own, LedgerInv, IdsAreGivenOut, Holding
  <2>2. \A q \in Poller, o \in Outlet, s \in Story :
           known'[q][o][s] = carries[p][i] \/ known'[q][o][s] = known[q][o][s]
    <3>1. carries[p][i] \in Row \cup {NoRow, Unbound}
      BY DEF LedgerInv, TypeOK
    <3> QED BY <1>6, <3>1, BindTypes DEF Own, LedgerInv
  <2>3. "idle" # "bumping" /\ "idle" \notin Holding
    BY DEF Holding
  <2> QED BY <1>0, <1>6, <2>1, <2>2, <2>3, MoveStep DEF Own
<1>7. CASE Claim(p, i)
  <2>1. CASE MayLink(i, carries[p][i])
    BY <1>7, <2>1, ClaimStep DEF Claim
  <2>2. CASE ~MayLink(i, carries[p][i])
    <3>1. "idle" # "bumping" /\ "idle" \notin Holding
      BY DEF Holding
    <3> QED BY <1>0, <1>7, <2>2, <3>1, MoveStep DEF Claim
  <2> QED BY <2>1, <2>2
<1>8. CASE Bump(p, i)
  <2>1. 1 \in 0..Attempts
    BY IngestAssumption
  <2> QED BY <1>8, <2>1, IncrementStep DEF Bump
<1>9. CASE ScanFails(p, i)
  <2>1. "idle" # "bumping" /\ "idle" \notin Holding
    BY DEF Holding
  <2> QED BY <1>0, <1>9, <2>1, MoveStep DEF ScanFails
<1> QED BY <1>1, <1>2, <1>3, <1>4, <1>5, <1>6, <1>7, <1>8, <1>9 DEF Process

\* Every action keeps the ledger.
LEMMA LedgerStep ==
    ASSUME LedgerInv, [Next]_vars
    PROVE  LedgerInv'
<1> USE DEF tableVars
<1>1. TypeOK'
  BY TypeStep DEF LedgerInv
<1>2. \A q \in Poller, j \in Item : at[q][j] \in Holding =>
         carries[q][j] \in Row /\ GivenOut(carries[q][j])
  BY DEF LedgerInv, TasksHoldIds, IdsAreGivenOut
<1>3. ASSUME NEW p \in Poller, NEW o \in Outlet, StartPoll(p, o) PROVE LedgerInv'
  <2>1. \A q \in Poller, j \in Item :
           at'[q][j] = at[q][j] \/ at'[q][j] = "queued"
    BY <1>3 DEF StartPoll, LedgerInv, TypeOK
  <2>2. \A q \in Poller, j \in Item :
         /\ at'[q][j] = "bumping" => at[q][j] = "bumping" /\ carries'[q][j] = carries[q][j]
         /\ at'[q][j] \in Holding => carries'[q][j] \in Row /\ GivenOut(carries'[q][j])
    BY <1>2, <1>3, <2>1 DEF StartPoll, Holding
  <2>3. \A q \in Poller, x \in Outlet, s \in Story :
           known'[q][x][s] = NoRow \/ known'[q][x][s] = known[q][x][s]
    BY <1>3 DEF StartPoll, LedgerInv, TypeOK
  <2>4. \A q \in Poller, x \in Outlet, s \in Story :
           known'[q][x][s] \in Row => GivenOut(known'[q][x][s])
    BY <2>3, IngestAssumption DEF LedgerInv, IdsAreGivenOut
  <2> QED BY <1>1, <1>3, <2>2, <2>4, QuietStep DEF StartPoll, LedgerInv, IdsAreGivenOut
<1>4. ASSUME NEW p \in Poller, Crash(p) PROVE LedgerInv'
  <2>1. \A q \in Poller, j \in Item :
           at'[q][j] = "idle" \/ (at'[q][j] = at[q][j] /\ carries'[q][j] = carries[q][j])
    BY <1>4 DEF Crash, LedgerInv, TypeOK
  <2>2. \A q \in Poller, j \in Item :
         /\ at'[q][j] = "bumping" => at[q][j] = "bumping" /\ carries'[q][j] = carries[q][j]
         /\ at'[q][j] \in Holding => carries'[q][j] \in Row /\ GivenOut(carries'[q][j])
    BY <1>2, <2>1 DEF Holding
  <2>3. \A q \in Poller, x \in Outlet, s \in Story :
           known'[q][x][s] = NoRow \/ known'[q][x][s] = known[q][x][s]
    BY <1>4 DEF Crash, LedgerInv, TypeOK
  <2>4. \A q \in Poller, x \in Outlet, s \in Story :
           known'[q][x][s] \in Row => GivenOut(known'[q][x][s])
    BY <2>3, IngestAssumption DEF LedgerInv, IdsAreGivenOut
  <2> QED BY <1>1, <1>4, <2>2, <2>4, QuietStep DEF Crash, LedgerInv, IdsAreGivenOut
<1>5. ASSUME NEW r \in rows, Prune(r) PROVE LedgerInv'
  <2>1. IsFiniteSet(links') /\ \A l \in links' : GivenOut(l.row)
    BY <1>5, FS_Subset DEF Prune, LedgerInv, IdsAreGivenOut
  <2>2. \A l \in links : l.row \in rows' => l \in links'
    BY <1>5 DEF Prune, LinksOf
  <2>3. \A q \in rows' : count'[q[1]] = count[q[1]]
    <3>1. \A q \in rows' : q \in rows /\ q # r /\ q[1] \in Item /\ r[1] \in Item
      BY <1>5 DEF Prune, LedgerInv, TypeOK, Row
    <3>2. \A q \in rows' : q[1] # r[1]
      BY <3>1 DEF LedgerInv, OneRowPerEntry
    <3> QED BY <1>5, <3>1, <3>2 DEF Prune, LedgerInv, TypeOK
  <2> QED BY <1>1, <1>2, <1>5, <2>1, <2>2, <2>3, QuietStep
          DEF Prune, LedgerInv, IdsAreGivenOut
<1>6. CASE UNCHANGED vars
  BY <1>6 DEF vars, LedgerInv, TypeOK, TasksHoldIds, IdsAreGivenOut, GivenOut,
              OneRowPerEntry, EveryDebtHasALink, Owes, Ledger, Settled
<1> QED BY <1>1, <1>3, <1>4, <1>5, <1>6, ProcessStep, FailsStep DEF Next

\* Nothing is stored, linked or owed to begin with.
LEMMA LedgerStarts ==
    ASSUME Init
    PROVE  LedgerInv
<1>1. TypeOK
  BY IngestAssumption DEF Init, TypeOK, Phase
<1>2. TasksHoldIds /\ OneRowPerEntry /\ EveryDebtHasALink /\ Ledger
  BY DEF Init, TasksHoldIds, OneRowPerEntry, EveryDebtHasALink, Ledger, Holding
<1>3. IdsAreGivenOut /\ IsFiniteSet(links)
  BY FS_EmptySet, IngestAssumption DEF Init, IdsAreGivenOut, Holding
<1> QED BY <1>1, <1>2, <1>3 DEF LedgerInv

\* "Reported by N outlets" never runs away from the links, for any pollers and feeds.
THEOREM CountStaysBounded == Spec => []CountBounded
  BY LedgerStarts, LedgerStep, SettledLinksAreLinks, PTL DEF Spec

-----------------------------------------------------------------------------
(* Ingest implements Catalogue *)

\* source_count, row by row, as the catalogue sees it.
TallyOf == [r \in Row |-> IF r \in rows THEN count[r[1]] ELSE 0]

\* The rows are the ids that were given out and not yet taken back.
LEMMA FreshRow ==
    ASSUME LedgerInv, NEW i \in Item, gen[i] < MaxGen
    PROVE  <<i, gen[i] + 1>> \in Row \ (rows \cup Pruned)
<1> DEFINE new == <<i, gen[i] + 1>>
<1>1. new \in Row /\ new[1] = i /\ new[2] = gen[i] + 1
  BY NewRow DEF LedgerInv
<1>2. gen[i] \in Nat
  BY IngestAssumption DEF LedgerInv, TypeOK
<1>3. ~(new[2] <= gen[new[1]])
  BY <1>1, <1>2
<1> HIDE DEF new
<1>4. new \notin rows /\ new \notin Pruned
  BY <1>3 DEF LedgerInv, IdsAreGivenOut, GivenOut, Pruned
<1> QED BY <1>1, <1>4 DEF new

\* Storing an entry afresh publishes a row under an id that was never used.
LEMMA StoredIsPublished ==
    ASSUME LedgerInv, NEW i \in Item, RowsOf(i) = {}, gen[i] < MaxGen,
           rows' = rows \cup {<<i, gen[i] + 1>>},
           gen' = [gen EXCEPT ![i] = @ + 1],
           count' = [count EXCEPT ![i] = 1],
           links' = links
    PROVE  \E r \in Row : Cat!Publish(r)
<1> DEFINE new == <<i, gen[i] + 1>>
<1>1. new \in Row \ (rows \cup Pruned) /\ new[1] = i /\ new[2] = gen[i] + 1
  BY FreshRow
<1>2. \A r \in Row : r = <<r[1], r[2]>> /\ r[1] \in Item /\ r[2] \in Int
                    /\ gen[r[1]] \in Int
                    /\ gen'[r[1]] = IF r[1] = i THEN gen[i] + 1 ELSE gen[r[1]]
  BY IngestAssumption DEF LedgerInv, TypeOK, Row
<1>3. Pruned' = Pruned
  <2>1. ASSUME NEW r \in Row PROVE r \in Pruned' <=> r \in Pruned
    <3>1. r # new => (r[2] <= gen'[r[1]] <=> r[2] <= gen[r[1]])
      BY <1>2
    <3>2. r = new => r \notin Pruned' /\ r \notin Pruned
      BY <1>1 DEF Pruned
    <3> QED BY <3>1, <3>2 DEF Pruned
  <2> QED BY <2>1 DEF Pruned
<1>4. TallyOf' = [TallyOf EXCEPT ![new] = 1]
  <2>1. ASSUME NEW r \in Row PROVE TallyOf'[r] = IF r = new THEN 1 ELSE TallyOf[r]
    <3>1. r \in rows => r[1] # i
      BY DEF RowsOf
    <3>2. r \in rows => count'[r[1]] = count[r[1]]
      BY <1>2, <3>1 DEF LedgerInv, TypeOK
    <3>3. count'[i] = 1
      BY DEF LedgerInv, TypeOK
    <3> QED BY <1>1, <3>2, <3>3 DEF TallyOf
  <2> QED BY <1>1, <2>1 DEF TallyOf
<1>5. PICK r \in Row : r = new
  BY <1>1
<1>6. Cat!Publish(r)
  <2>1. r \in Row \ (rows \cup Pruned) /\ rows' = rows \cup {r}
    BY <1>1, <1>5
  <2>2. TallyOf' = [TallyOf EXCEPT ![r] = 1]
    BY <1>4, <1>5
  <2> QED BY <1>3, <2>1, <2>2 DEF Cat!Publish, TallyOf
<1> QED BY <1>5, <1>6

\* A link that may be written is one the catalogue may attach.
LEMMA LinkedIsAttached ==
    ASSUME LedgerInv, NEW i \in Item, NEW r, MayLink(i, r), AddLink(i, r),
           UNCHANGED <<rows, gen, count>>
    PROVE  \E u \in Item, q \in Row : Cat!Attach(u, q)
<1>1. r \in Row
  BY DEF MayLink, LedgerInv, TypeOK
<1>2. Cat!Attach(i, r)
  BY DEF MayLink, AddLink, Cat!Attach, Pruned
<1> QED BY <1>1, <1>2

\* The catalogue counts as the ingest does.
LEMMA SameCardinality ==
    ASSUME NEW S
    PROVE  Cat!Cardinality(S) = Cardinality(S)
  BY DEF Cardinality, Cat!Cardinality

\* A count that rises stays within what the attached outlets account for: it is the
\* ledger after the step that says so.
LEMMA CountedIsTallied ==
    ASSUME LedgerInv, LedgerInv', NEW p \in Poller, NEW i \in Item,
           NEW n \in 0..Attempts, Increment(p, i, n)
    PROVE  (\E r \in Row : Cat!Tally(r)) \/ UNCHANGED Cat!catalogueVars
<1> DEFINE paid == carries[p][i]
<1>1. UNCHANGED <<rows, gen, links>> /\ UNCHANGED Pruned
  BY DEF Increment, Pruned
<1>2. n \in Nat
  BY IngestAssumption
<1>3. \A r \in rows : r \in Row /\ r[1] \in Item /\ count[r[1]] \in Nat
  BY DEF LedgerInv, TypeOK, Row
<1>4. paid \in rows => \A r \in rows :
         count'[r[1]] = IF r = paid THEN count[r[1]] + n ELSE count[r[1]]
  <2>1. \A r, q \in rows : r[1] = q[1] => r = q
    BY DEF LedgerInv, OneRowPerEntry
  <2> QED BY <1>3, <2>1 DEF Increment, LedgerInv, TypeOK
<1>5. paid \notin rows => UNCHANGED count
  BY DEF Increment, LedgerInv, TypeOK
<1>6. CASE paid \notin rows
  <2>1. UNCHANGED TallyOf
    BY <1>1, <1>5, <1>6 DEF TallyOf
  <2> QED BY <1>1, <2>1 DEF Cat!catalogueVars, TallyOf
<1>7. CASE paid \in rows /\ n = 0
  <2>1. \A r \in rows : count'[r[1]] = count[r[1]]
    BY <1>3, <1>4, <1>7
  <2>2. UNCHANGED TallyOf
    BY <1>1, <2>1 DEF TallyOf
  <2> QED BY <1>1, <2>2 DEF Cat!catalogueVars, TallyOf
<1>8. CASE paid \in rows /\ n # 0
  <2>1. TallyOf' = [TallyOf EXCEPT ![paid] = TallyOf'[paid]]
    BY <1>1, <1>3, <1>4, <1>8 DEF TallyOf
  <2>2. TallyOf'[paid] > TallyOf[paid]
    BY <1>1, <1>2, <1>3, <1>4, <1>8 DEF TallyOf
  <2>3. TallyOf'[paid] <= 1 + Attempts * Cardinality({l \in links : l.row = paid})
    <3>1. CountBounded'
      BY SettledLinksAreLinks, PTL
    <3>2. count'[paid[1]] <= 1 + Attempts * Cardinality({l \in links : l.row = paid})
      BY <1>1, <1>8, <3>1 DEF CountBounded, LinksOf
    <3> QED BY <1>1, <1>3, <1>8, <3>2 DEF TallyOf
  <2>4. PICK r \in Row : r = paid
    BY <1>3, <1>8
  <2>5. Cat!Tally(r)
    <3>1. r \in rows /\ UNCHANGED <<rows, Pruned, links>>
      BY <1>1, <1>8, <2>4
    <3>2. TallyOf' = [TallyOf EXCEPT ![r] = TallyOf'[r]]
      BY <2>1, <2>4
    <3>3. TallyOf'[r] > TallyOf[r]
          /\ TallyOf'[r] <= 1 + Attempts * Cardinality({l \in links : l.row = r})
      BY <2>2, <2>3, <2>4
    <3> QED BY <3>1, <3>2, <3>3, SameCardinality DEF Cat!Tally, TallyOf
  <2> QED BY <2>4, <2>5
<1> QED BY <1>6, <1>7, <1>8

\* A pruned row is retired, with its links and for good.
LEMMA PrunedIsRetired ==
    ASSUME LedgerInv, NEW r \in rows, Prune(r)
    PROVE  \E q \in Row : Cat!Retire(q)
<1>1. r \in Row /\ GivenOut(r) /\ rows \subseteq Row
  BY DEF LedgerInv, TypeOK, IdsAreGivenOut
<1>2. Pruned' = Pruned \cup {r}
  BY <1>1 DEF Prune, Pruned, GivenOut
<1>3. links' = {l \in links : l.row # r}
  BY DEF Prune, LinksOf
<1>4. TallyOf' = [TallyOf EXCEPT ![r] = 0]
  <2>1. \A q \in rows' : q # r /\ q \in rows /\ count'[q[1]] = count[q[1]]
    <3>1. \A q \in rows' : q \in rows /\ q # r /\ q[1] \in Item /\ r[1] \in Item
      BY <1>1 DEF Prune, Row
    <3>2. \A q \in rows' : q[1] # r[1]
      BY <3>1 DEF LedgerInv, OneRowPerEntry
    <3> QED BY <3>1, <3>2 DEF Prune, LedgerInv, TypeOK
  <2> QED BY <1>1, <2>1 DEF Prune, TallyOf
<1>5. Cat!Retire(r)
  BY <1>2, <1>3, <1>4 DEF Prune, Cat!Retire, TallyOf
<1> QED BY <1>1, <1>5

\* What leaves the tables alone leaves the catalogue alone.
LEMMA QuietForTheCatalogue ==
    ASSUME UNCHANGED tableVars
    PROVE  UNCHANGED Cat!catalogueVars
  BY DEF tableVars, Cat!catalogueVars, Pruned

\* Every step of the pollers is a step of the catalogue, or none that it can see.
LEMMA CatalogueStep ==
    ASSUME LedgerInv, LedgerInv', [Next]_vars
    PROVE  [Cat!CatalogueNext]_(Cat!catalogueVars)
<1> USE DEF Cat!CatalogueNext
<1>1. ASSUME NEW p \in Poller, NEW o \in Outlet, StartPoll(p, o)
      PROVE  UNCHANGED Cat!catalogueVars
  BY <1>1, QuietForTheCatalogue DEF StartPoll
<1>2. ASSUME NEW p \in Poller, NEW i \in Item, Process(p, i)
      PROVE  [Cat!CatalogueNext]_(Cat!catalogueVars)
  <2>1. CASE CheckLocal(p, i) \/ ScanFails(p, i) \/ Ask(p, i) \/ Remember(p, i)
             \/ StoreAgain(p, i)
    BY <2>1, QuietForTheCatalogue DEF CheckLocal, ScanFails, Ask, Remember, StoreAgain
  <2>2. CASE StoreNew(p, i)
    BY <2>2, StoredIsPublished DEF StoreNew
  <2>3. CASE Own(p, i)
    <3>1. CASE MayLink(i, carries[p][i])
      BY <2>3, <3>1, LinkedIsAttached DEF Own
    <3>2. CASE ~MayLink(i, carries[p][i])
      BY <2>3, <3>2, QuietForTheCatalogue DEF Own, tableVars
    <3> QED BY <3>1, <3>2
  <2>4. CASE Claim(p, i)
    <3>1. CASE MayLink(i, carries[p][i])
      BY <2>4, <3>1, LinkedIsAttached DEF Claim
    <3>2. CASE ~MayLink(i, carries[p][i])
      BY <2>4, <3>2, QuietForTheCatalogue DEF Claim, tableVars
    <3> QED BY <3>1, <3>2
  <2>5. CASE Bump(p, i)
    <3>1. 1 \in 0..Attempts
      BY IngestAssumption
    <3> QED BY <2>5, <3>1, CountedIsTallied DEF Bump
  <2> QED BY <1>2, <2>1, <2>2, <2>3, <2>4, <2>5 DEF Process
<1>3. ASSUME NEW p \in Poller, NEW i \in Item, Fails(p, i)
      PROVE  [Cat!CatalogueNext]_(Cat!catalogueVars)
  <2>1. CASE AskFails(p, i) \/ OwnFails(p, i)
    BY <2>1, QuietForTheCatalogue DEF AskFails, OwnFails
  <2>2. CASE StoreFails(p, i)
    <3>1. CASE UNCHANGED <<rows, gen, count>>
      BY <2>2, <3>1, QuietForTheCatalogue DEF StoreFails, tableVars
    <3>2. CASE ~UNCHANGED <<rows, gen, count>>
      BY <2>2, <3>2, StoredIsPublished DEF StoreFails
    <3> QED BY <3>1, <3>2
  <2>3. CASE ClaimFails(p, i)
    <3>1. CASE UNCHANGED links
      BY <2>3, <3>1, QuietForTheCatalogue DEF ClaimFails, tableVars
    <3>2. CASE ~UNCHANGED links
      BY <2>3, <3>2, LinkedIsAttached DEF ClaimFails
    <3> QED BY <3>1, <3>2
  <2>4. CASE BumpFails(p, i)
    <3>1. PICK n \in 0..Attempts : Increment(p, i, n)
      BY <2>4 DEF BumpFails
    <3> QED BY <3>1, CountedIsTallied
  <2> QED BY <1>3, <2>1, <2>2, <2>3, <2>4 DEF Fails
<1>4. ASSUME NEW p \in Poller, Crash(p) PROVE UNCHANGED Cat!catalogueVars
  BY <1>4, QuietForTheCatalogue DEF Crash
<1>5. ASSUME NEW r \in rows, Prune(r) PROVE [Cat!CatalogueNext]_(Cat!catalogueVars)
  BY <1>5, PrunedIsRetired
<1>6. CASE UNCHANGED vars
  BY <1>6, QuietForTheCatalogue DEF vars
<1> QED BY <1>1, <1>2, <1>3, <1>4, <1>5, <1>6 DEF Next

\* The two pollers, the faults and the prune look, together, like one catalogue that
\* publishes, attaches, counts and retires a row at a time.
THEOREM IngestImplementsCatalogue == Spec => IsACatalogue
<1>1. Init => Cat!CatalogueInit
  <2> SUFFICES ASSUME Init PROVE Cat!CatalogueInit
    OBVIOUS
  <2>1. rows = {} /\ links = {} /\ \A i \in Item : gen[i] = 0
    BY DEF Init
  <2>2. Pruned = {}
    <3>1. \A r \in Row : r[1] \in Item /\ r[2] \in Nat /\ r[2] >= 1
      BY DEF Row
    <3> QED BY <2>1, <3>1 DEF Pruned
  <2> QED BY <2>1, <2>2 DEF Cat!CatalogueInit
<1>2. Init => LedgerInv
  BY LedgerStarts
<1>3. LedgerInv /\ LedgerInv' /\ [Next]_vars => [Cat!CatalogueNext]_(Cat!catalogueVars)
  BY CatalogueStep
<1> QED BY <1>1, <1>2, <1>3, LedgerStep, PTL DEF Spec, IsACatalogue, Cat!CatalogueSpec
=============================================================================
