------------------------------ MODULE Induction ------------------------------
(***************************************************************************)
(* Induction over the natural numbers, by least elements: the form the     *)
(* proofs about recursive functions take it in.                            *)
(***************************************************************************)
EXTENDS Integers, WellFoundedInduction, TLAPS

LessOnNat == {p \in Nat \X Nat : p[1] < p[2]}

(* A set of natural numbers that is not empty has a least element.         *)
LEMMA LeastElement ==
  ASSUME NEW T \in SUBSET Nat, T # {}
  PROVE  \E m \in T : \A k \in T : m <= k
<1>1. IsWellFoundedOn(LessOnNat, Nat)
  BY NatLessThanWellFounded DEF OpToRel, LessOnNat
<1>2. PICK m \in T : \A k \in T : ~ (<<k, m>> \in LessOnNat)
  BY <1>1, WFMin
<1>3. ASSUME NEW k \in T PROVE m <= k
  <2>1. <<k, m>> \in LessOnNat <=> k < m
    BY DEF LessOnNat
  <2> QED BY <1>2, <2>1
<1> QED BY <1>3

(* A function that begins with a at b and goes from one value to the next  *)
(* by rule exists on every interval.                                       *)
Follows(g, b, n, a, rule) == g[b] = a /\ \A k \in (b + 1)..n : g[k] = rule[<<k, g[k - 1]>>]

LEMMA Recursion ==
  ASSUME NEW b \in Nat, NEW S, NEW a \in S, NEW rule \in [Nat \X S -> S],
         NEW n \in Nat, b <= n
  PROVE  \E g \in [b..n -> S] : Follows(g, b, n, a, rule)
<1> DEFINE Has(m) == \E g \in [b..m -> S] : Follows(g, b, m, a, rule)
           T == {m \in Nat : b <= m /\ ~ Has(m)}
<1> SUFFICES ASSUME T # {} PROVE FALSE
  OBVIOUS
<1>1. PICK m \in T : \A k \in T : m <= k
  BY LeastElement
<1>2. m \in Nat /\ b <= m /\ ~ Has(m)
  OBVIOUS
<1>3. CASE m = b
  <2> DEFINE g == [k \in b..m |-> a]
  <2>1. g \in [b..m -> S] /\ g[b] = a /\ (b + 1)..m = {}
    BY <1>3
  <2> HIDE DEF g
  <2> QED BY <1>2, <2>1 DEF Follows
<1>4. CASE m # b
  <2>1. m - 1 \in Nat /\ b <= m - 1 /\ Has(m - 1)
    BY <1>1, <1>2, <1>4
  <2>2. PICK g \in [b..(m - 1) -> S] : Follows(g, b, m - 1, a, rule)
    BY <2>1
  <2> DEFINE h == [k \in b..m |-> IF k < m THEN g[k] ELSE rule[<<m, g[m - 1]>>]]
  <2>3. m - 1 \in b..(m - 1) /\ g[m - 1] \in S /\ <<m, g[m - 1]>> \in Nat \X S
    BY <1>2, <2>1
  <2>4. rule[<<m, g[m - 1]>>] \in S
    BY <2>3
  <2>5. \A k \in b..m : k < m => k \in b..(m - 1)
    BY <1>2
  <2>6. h \in [b..m -> S]
    BY <2>4, <2>5
  <2>7. \A k \in b..(m - 1) : h[k] = g[k]
    BY <1>2
  <2>8. b \in b..(m - 1) /\ m \in b..m
    BY <1>2, <2>1
  <2>9. h[m] = rule[<<m, g[m - 1]>>]
    BY <2>8
  <2> HIDE DEF h
  <2>10. h[b] = a
    BY <2>2, <2>7, <2>8 DEF Follows
  <2>11. ASSUME NEW k \in (b + 1)..m PROVE h[k] = rule[<<k, h[k - 1]>>]
    <3>1. k - 1 \in b..(m - 1) /\ h[k - 1] = g[k - 1]
      BY <1>2, <2>7
    <3>2. CASE k = m
      BY <2>9, <3>1, <3>2
    <3>3. CASE k # m
      <4>1. k \in (b + 1)..(m - 1) /\ k \in b..(m - 1)
        BY <1>2, <3>3
      <4> QED BY <2>2, <2>7, <3>1, <4>1 DEF Follows
    <3> QED BY <3>2, <3>3
  <2> QED BY <1>2, <2>6, <2>10, <2>11 DEF Follows
<1> QED BY <1>3, <1>4
=============================================================================
