--------------------------- MODULE LeastElements ---------------------------
(***************************************************************************)
(* A set of natural numbers that is not empty has a least element, and one *)
(* that is bounded a greatest.  The models choose such elements, and a     *)
(* choice is only worth what there is to choose from.                      *)
(***************************************************************************)
EXTENDS Integers, WellFoundedInduction, TLAPS

\* The order of the natural numbers, as a set of pairs, is well-founded.
LEMMA SmallerIsWellFounded ==
    IsWellFoundedOn({p \in Nat \X Nat : p[1] < p[2]}, Nat)
  BY NatLessThanWellFounded DEF OpToRel

\* There is a least one in every set of natural numbers.
LEMMA LeastExists ==
    ASSUME NEW T \in SUBSET Nat, T # {}
    PROVE  \E m \in T : \A n \in T : m <= n
<1> DEFINE R == {p \in Nat \X Nat : p[1] < p[2]}
<1>1. PICK m \in T : \A n \in T : <<n, m>> \notin R
  <2> HIDE DEF R
  <2> QED BY SmallerIsWellFounded, WFMin DEF R
<1>2. \A n \in T : ~(n < m)
  <2> SUFFICES ASSUME NEW n \in T, n < m PROVE FALSE
    OBVIOUS
  <2>1. <<n, m>> \in Nat \X Nat /\ <<n, m>>[1] < <<n, m>>[2]
    OBVIOUS
  <2> QED BY <1>1, <2>1
<1> QED BY <1>2

\* Whatever the members of a set are measured by, one of them measures least.
LEMMA LeastMeasured ==
    ASSUME NEW S, S # {}, NEW f, \A s \in S : f[s] \in Nat
    PROVE  \E s \in S : \A t \in S : f[s] <= f[t]
<1> DEFINE T == {f[s] : s \in S}
<1>1. T \in SUBSET Nat /\ T # {}
  OBVIOUS
<1>2. PICK m \in T : \A n \in T : m <= n
  <2> HIDE DEF T
  <2> QED BY <1>1, LeastExists
<1>3. PICK s \in S : m = f[s]
  OBVIOUS
<1>4. \A t \in S : f[t] \in T
  OBVIOUS
<1> QED BY <1>2, <1>3, <1>4

\* And one measures most, if there is a bound to the measure.
LEMMA MostMeasured ==
    ASSUME NEW S, S # {}, NEW f, NEW b \in Nat, \A s \in S : f[s] \in 0..b
    PROVE  \E s \in S : \A t \in S : f[t] <= f[s]
<1> DEFINE g == [s \in S |-> b - f[s]]
<1>1. \A s \in S : g[s] \in Nat /\ g[s] = b - f[s] /\ f[s] \in Int
  OBVIOUS
<1>2. PICK s \in S : \A t \in S : g[s] <= g[t]
  <2> HIDE DEF g
  <2> QED BY <1>1, LeastMeasured
<1> QED BY <1>1, <1>2
=============================================================================
