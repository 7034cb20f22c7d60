----------------------------- MODULE OsdProofs -----------------------------
(***************************************************************************)
(* Proofs about the text windows (Osd, DemoText), for any fonts, texts and *)
(* number of channels.                                                     *)
(***************************************************************************)
EXTENDS Osd, Induction, SequenceTheorems

-----------------------------------------------------------------------------
(* Arithmetic.                                                             *)

LEMMA ProductIsNat ==
  ASSUME NEW a \in Nat, NEW b \in Nat
  PROVE  a * b \in Nat
OBVIOUS

LEMMA ProductGrows ==
  ASSUME NEW a \in Nat, NEW b \in Nat, NEW d \in Nat, a <= b
  PROVE  a * d <= b * d
OBVIOUS

LEMMA OneMore ==
  ASSUME NEW a \in Int, NEW d \in Int
  PROVE  (a + 1) * d = a * d + d
OBVIOUS

LEMMA PlaceInFirst ==
  ASSUME NEW a \in Nat, NEW b \in Nat, NEW k \in 1..b, NEW n \in Nat, NEW m \in Nat, a + b <= n
  PROVE  a + k \in 1..n + m /\ a + k <= n
OBVIOUS

LEMMA ThreeTimes ==
  ASSUME NEW a \in Nat, NEW b \in Nat, NEW c \in Nat, NEW d \in Nat
  PROVE  (a + (b + c)) * d = a * d + b * d + c * d
OBVIOUS

LEMMA InsidePart ==
  ASSUME NEW a \in Nat, NEW w \in Nat, NEW n \in Nat, NEW c \in Nat, a + w <= n, c < w
  PROVE  a + c \in Nat /\ a + c < n
OBVIOUS

(* Position r of part q of parts of d.                                     *)
LEMMA PartAndPlace ==
  ASSUME NEW q \in Nat, NEW r \in Nat, NEW d \in Nat, r < d
  PROVE  (q * d + r) \div d = q /\ (q * d + r) % d = r
OBVIOUS

-----------------------------------------------------------------------------
(* Sums of widths.                                                         *)

LEMMA SumsRule ==
  ASSUME NEW w \in Seq(Nat)
  PROVE  /\ Sums(w) \in [0..Len(w) -> Nat]
         /\ Sums(w)[0] = 0
         /\ \A n \in 1..Len(w) : Sums(w)[n] = Sums(w)[n - 1] + w[n]
<1> DEFINE N == Len(w)
           rule == [p \in Nat \X Nat |-> IF p[1] \in 1..N THEN p[2] + w[p[1]] ELSE 0]
           Rule(g) == [n \in 0..N |-> IF n = 0 THEN 0 ELSE g[n - 1] + w[n]]
<1>1. N \in Nat /\ 0 <= N /\ 0 \in Nat /\ \A n \in 1..N : w[n] \in Nat
  BY ElementOfSeq
<1> HIDE DEF N
<1>2. rule \in [Nat \X Nat -> Nat]
  <2>1. ASSUME NEW p \in Nat \X Nat
        PROVE  (IF p[1] \in 1..N THEN p[2] + w[p[1]] ELSE 0) \in Nat
    BY <1>1
  <2> QED BY <2>1
<1>3. PICK g \in [0..N -> Nat] : Follows(g, 0, N, 0, rule)
  <2> HIDE DEF rule
  <2> QED BY <1>1, <1>2, Recursion
<1>4. ASSUME NEW n \in 1..N PROVE g[n] = g[n - 1] + w[n]
  <2>1. n \in (0 + 1)..N /\ n - 1 \in 0..N /\ n \in Nat
    BY <1>1
  <2>2. g[n] = rule[<<n, g[n - 1]>>]
    <3> HIDE DEF rule
    <3> QED BY <1>3, <2>1 DEF Follows
  <2>3. <<n, g[n - 1]>> \in Nat \X Nat
    BY <2>1
  <2> QED BY <2>2, <2>3
<1>5. g[0] = 0
  BY <1>3 DEF Follows
<1>6. ASSUME NEW n \in 0..N PROVE g[n] = IF n = 0 THEN 0 ELSE g[n - 1] + w[n]
  <2>1. n = 0 \/ n \in 1..N
    BY <1>1
  <2> QED BY <1>4, <1>5, <2>1
<1>7. g = Rule(g)
  BY <1>6
<1>8. Sums(w) = CHOOSE h : h = Rule(h)
  BY DEF Sums, N
<1>9. Sums(w) = Rule(Sums(w))
  BY <1>7, <1>8
<1> DEFINE sum == Sums(w)
<1> HIDE DEF sum
<1>10. sum = Rule(sum)
  BY <1>9 DEF sum
<1>11. sum[0] = 0 /\ \A n \in 1..N : sum[n] = sum[n - 1] + w[n]
  <2>1. 0 \in 0..N /\ \A n \in 1..N : n \in 0..N /\ n # 0
    BY <1>1
  <2> QED BY <1>10, <2>1
<1>12. ASSUME NEW n \in 0..N PROVE sum[n] \in Nat
  <2> DEFINE T == {k \in 0..N : sum[k] \notin Nat}
  <2> SUFFICES ASSUME T # {} PROVE FALSE
    OBVIOUS
  <2>1. T \in SUBSET Nat
    BY <1>1
  <2>2. PICK m \in T : \A k \in T : m <= k
    BY <2>1, LeastElement
  <2>3. m \in 0..N /\ sum[m] \notin Nat /\ m # 0
    BY <1>11
  <2>4. m - 1 \in 0..N /\ m \in 1..N /\ ~(m <= m - 1)
    BY <1>1, <2>3
  <2>5. sum[m - 1] \in Nat
    BY <2>2, <2>4
  <2>6. sum[m] = sum[m - 1] + w[m] /\ w[m] \in Nat
    BY <1>1, <1>11, <2>4
  <2> QED BY <2>3, <2>5, <2>6
<1>13. sum \in [0..N -> Nat]
  BY <1>10, <1>12
<1> QED BY <1>11, <1>13 DEF N, sum

LEMMA SumsGrow ==
  ASSUME NEW w \in Seq(Nat), NEW n \in 0..Len(w), NEW m \in 0..n
  PROVE  Sums(w)[m] <= Sums(w)[n]
<1> DEFINE T == {k \in m..Len(w) : ~(Sums(w)[m] <= Sums(w)[k])}
           sum == Sums(w)
<1>1. Len(w) \in Nat /\ n \in m..Len(w) /\ m \in Nat /\ m \in 0..Len(w)
  OBVIOUS
<1>2. sum \in [0..Len(w) -> Nat] /\ \A k \in 1..Len(w) : sum[k] = sum[k - 1] + w[k]
  BY SumsRule
<1> HIDE DEF sum
<1> SUFFICES ASSUME T # {} PROVE FALSE
  BY <1>1
<1>3. T \in SUBSET Nat
  BY <1>1
<1>4. PICK k \in T : \A j \in T : k <= j
  BY <1>3, LeastElement
<1>5. k \in m..Len(w) /\ ~(sum[m] <= sum[k])
  BY DEF sum
<1>6. sum[m] \in Nat
  BY <1>1, <1>2
<1>7. k # m
  BY <1>5, <1>6
<1>8. k \in 1..Len(w) /\ k - 1 \in m..Len(w) /\ k - 1 \in 0..Len(w) /\ k \in 0..Len(w) /\ ~(k <= k - 1)
  BY <1>1, <1>5, <1>7
<1>9. sum[m] <= sum[k - 1]
  BY <1>4, <1>8 DEF sum
<1>10. sum[k] = sum[k - 1] + w[k] /\ sum[k - 1] \in Nat /\ w[k] \in Nat
  BY <1>2, <1>8, ElementOfSeq
<1>11. PICK x \in Nat, y \in Nat, z \in Nat : x = sum[m] /\ y = sum[k - 1] /\ z = w[k]
  BY <1>6, <1>10
<1>12. x <= y => x <= y + z
  OBVIOUS
<1> QED BY <1>5, <1>9, <1>10, <1>11, <1>12

(* Widths in bytes instead of pixels.                                      *)
LEMMA SumsScaled ==
  ASSUME NEW w \in Seq(Nat), NEW v \in Seq(Nat), NEW s \in Nat, Len(v) = Len(w),
         \A j \in 1..Len(w) : v[j] = w[j] * s
  PROVE  \A n \in 0..Len(w) : Sums(v)[n] = Sums(w)[n] * s
<1> DEFINE T == {n \in 0..Len(w) : Sums(v)[n] # Sums(w)[n] * s}
           sw == Sums(w)
           sv == Sums(v)
<1>1. Len(w) \in Nat
  OBVIOUS
<1>2. sw \in [0..Len(w) -> Nat] /\ sw[0] = 0 /\ \A k \in 1..Len(w) : sw[k] = sw[k - 1] + w[k]
  BY SumsRule
<1>3. sv[0] = 0 /\ \A k \in 1..Len(w) : sv[k] = sv[k - 1] + v[k]
  BY SumsRule
<1> HIDE DEF sw, sv
<1> SUFFICES ASSUME T # {} PROVE FALSE
  OBVIOUS
<1>4. T \in SUBSET Nat
  BY <1>1
<1>5. PICK n \in T : \A j \in T : n <= j
  BY <1>4, LeastElement
<1>6. n \in 0..Len(w) /\ sv[n] # sw[n] * s
  BY DEF sw, sv
<1>7. n # 0
  BY <1>2, <1>3, <1>6
<1>8. n \in 1..Len(w) /\ n - 1 \in 0..Len(w) /\ ~(n <= n - 1)
  BY <1>1, <1>6, <1>7
<1>9. sv[n - 1] = sw[n - 1] * s
  BY <1>5, <1>8 DEF sw, sv
<1>10. sv[n] = sv[n - 1] + v[n] /\ sw[n] = sw[n - 1] + w[n] /\ v[n] = w[n] * s
  BY <1>2, <1>3, <1>8
<1>11. sw[n - 1] \in Nat /\ w[n] \in Nat
  BY <1>2, <1>8, ElementOfSeq
<1>12. (sw[n - 1] + w[n]) * s = sw[n - 1] * s + w[n] * s
  BY <1>11
<1> QED BY <1>6, <1>9, <1>10, <1>12

-----------------------------------------------------------------------------
(* Joined parts.                                                           *)

Lengths(parts) == [j \in 1..Len(parts) |-> Len(parts[j])]

(* The first n parts joined.                                               *)
JoinedTo(parts) == CHOOSE g : g = [n \in 0..Len(parts) |->
    IF n = 0 THEN << >> ELSE g[n - 1] \o parts[n]]

LEMMA JoinedIsJoinedTo ==
  ASSUME NEW parts PROVE Joined(parts) = JoinedTo(parts)[Len(parts)]
BY DEF Joined, JoinedTo

LEMMA FunctionIsSeq ==
  ASSUME NEW S, NEW n \in Nat, NEW g \in [1..n -> S]
  PROVE  g \in Seq(S) /\ Len(g) = n
<1>1. g = [i \in 1..n |-> g[i]]
  OBVIOUS
<1>2. Len([i \in 1..n |-> g[i]]) = n
  OBVIOUS
<1>3. \A i \in 1..n : g[i] \in S
  OBVIOUS
<1>4. [i \in 1..n |-> g[i]] \in Seq(S)
  BY <1>3, IsASeq
<1> QED BY <1>1, <1>2, <1>4

LEMMA LengthsType ==
  ASSUME NEW S, NEW parts \in Seq(Seq(S))
  PROVE  Lengths(parts) \in Seq(Nat) /\ Len(Lengths(parts)) = Len(parts)
<1>1. Len(parts) \in Nat /\ \A j \in 1..Len(parts) : parts[j] \in Seq(S)
  BY ElementOfSeq
<1>2. \A j \in 1..Len(parts) : Len(parts[j]) \in Nat
  BY <1>1
<1>3. Lengths(parts) \in [1..Len(parts) -> Nat]
  BY <1>2 DEF Lengths
<1> QED BY <1>1, <1>3, FunctionIsSeq

LEMMA JoinedToRule ==
  ASSUME NEW S, NEW parts \in Seq(Seq(S))
  PROVE  /\ JoinedTo(parts) \in [0..Len(parts) -> Seq(S)]
         /\ JoinedTo(parts)[0] = << >>
         /\ \A n \in 1..Len(parts) : JoinedTo(parts)[n] = JoinedTo(parts)[n - 1] \o parts[n]
<1> DEFINE N == Len(parts)
           rule == [p \in Nat \X Seq(S) |-> IF p[1] \in 1..N THEN p[2] \o parts[p[1]] ELSE << >>]
           Rule(g) == [n \in 0..N |-> IF n = 0 THEN << >> ELSE g[n - 1] \o parts[n]]
<1>1. N \in Nat /\ 0 <= N /\ 0 \in Nat /\ << >> \in Seq(S) /\ \A n \in 1..N : parts[n] \in Seq(S)
  BY ElementOfSeq
<1> HIDE DEF N
<1>2. rule \in [Nat \X Seq(S) -> Seq(S)]
  <2>1. ASSUME NEW p \in Nat \X Seq(S)
        PROVE  (IF p[1] \in 1..N THEN p[2] \o parts[p[1]] ELSE << >>) \in Seq(S)
    <3>1. p[2] \in Seq(S)
      OBVIOUS
    <3>2. p[1] \in 1..N => p[2] \o parts[p[1]] \in Seq(S)
      BY <1>1, <3>1, ConcatProperties
    <3> QED BY <1>1, <3>2
  <2> QED BY <2>1
<1>3. PICK g \in [0..N -> Seq(S)] : Follows(g, 0, N, << >>, rule)
  <2> HIDE DEF rule
  <2> QED BY <1>1, <1>2, Recursion
<1>4. ASSUME NEW n \in 1..N PROVE g[n] = g[n - 1] \o parts[n]
  <2>1. n \in (0 + 1)..N /\ n - 1 \in 0..N /\ n \in Nat
    BY <1>1
  <2>2. g[n] = rule[<<n, g[n - 1]>>]
    <3> HIDE DEF rule
    <3> QED BY <1>3, <2>1 DEF Follows
  <2>3. <<n, g[n - 1]>> \in Nat \X Seq(S)
    BY <2>1
  <2> QED BY <2>2, <2>3
<1>5. g[0] = << >>
  BY <1>3 DEF Follows
<1>6. ASSUME NEW n \in 0..N PROVE g[n] = IF n = 0 THEN << >> ELSE g[n - 1] \o parts[n]
  <2>1. n = 0 \/ n \in 1..N
    BY <1>1
  <2> QED BY <1>4, <1>5, <2>1
<1>7. g = Rule(g)
  BY <1>6
<1>8. JoinedTo(parts) = CHOOSE h : h = Rule(h)
  BY DEF JoinedTo, N
<1>9. JoinedTo(parts) = Rule(JoinedTo(parts))
  BY <1>7, <1>8
<1> DEFINE to == JoinedTo(parts)
<1> HIDE DEF to
<1>10. to = Rule(to)
  BY <1>9 DEF to
<1>11. to[0] = << >> /\ \A n \in 1..N : to[n] = to[n - 1] \o parts[n]
  <2>1. 0 \in 0..N /\ \A n \in 1..N : n \in 0..N /\ n # 0
    BY <1>1
  <2> QED BY <1>10, <2>1
<1>12. ASSUME NEW n \in 0..N PROVE to[n] \in Seq(S)
  <2> DEFINE T == {k \in 0..N : to[k] \notin Seq(S)}
  <2> SUFFICES ASSUME T # {} PROVE FALSE
    OBVIOUS
  <2>1. T \in SUBSET Nat
    BY <1>1
  <2>2. PICK m \in T : \A k \in T : m <= k
    BY <2>1, LeastElement
  <2>3. m \in 0..N /\ to[m] \notin Seq(S) /\ m # 0
    BY <1>1, <1>11
  <2>4. m - 1 \in 0..N /\ m \in 1..N /\ ~(m <= m - 1)
    BY <1>1, <2>3
  <2>5. to[m - 1] \in Seq(S)
    BY <2>2, <2>4
  <2>6. to[m - 1] \o parts[m] \in Seq(S)
    BY <1>1, <2>4, <2>5, ConcatProperties
  <2> QED BY <1>11, <2>3, <2>4, <2>6
<1>13. to \in [0..N -> Seq(S)]
  BY <1>10, <1>12
<1> QED BY <1>11, <1>13 DEF N, to

(* s holds the first n parts, each after those before it.                  *)
HasParts(s, parts, n) ==
    /\ Len(s) = Sums(Lengths(parts))[n]
    /\ \A j \in 1..n : \A k \in 1..Len(parts[j]) : s[Sums(Lengths(parts))[j - 1] + k] = parts[j][k]

LEMMA OnePartMore ==
  ASSUME NEW S, NEW parts \in Seq(Seq(S)), NEW n \in 1..Len(parts), NEW s \in Seq(S),
         HasParts(s, parts, n - 1)
  PROVE  HasParts(s \o parts[n], parts, n)
<1> DEFINE sum == Sums(Lengths(parts))
           part == parts[n]
<1>1. /\ sum \in [0..Len(parts) -> Nat]
      /\ \A j \in 1..Len(parts) : sum[j] = sum[j - 1] + Len(parts[j])
  <2>1. /\ Lengths(parts) \in Seq(Nat) /\ Len(Lengths(parts)) = Len(parts)
        /\ \A j \in 1..Len(parts) : Lengths(parts)[j] = Len(parts[j])
    BY LengthsType DEF Lengths
  <2> QED BY <2>1, SumsRule
<1>2. \A j \in 0..Len(parts) : \A m \in 0..j : sum[m] <= sum[j]
  BY LengthsType, SumsGrow
<1>3. Len(parts) \in Nat /\ n \in 1..Len(parts) /\ n - 1 \in 0..Len(parts) /\ part \in Seq(S)
  BY ElementOfSeq
<1>4. /\ Len(s) = sum[n - 1]
      /\ \A j \in 1..(n - 1) : \A k \in 1..Len(parts[j]) : s[sum[j - 1] + k] = parts[j][k]
  BY DEF HasParts
<1> HIDE DEF sum, part
<1>5. /\ Len(s \o part) = Len(s) + Len(part)
      /\ \A i \in 1..Len(s) + Len(part) :
            (s \o part)[i] = IF i <= Len(s) THEN s[i] ELSE part[i - Len(s)]
  BY <1>3, ConcatProperties
<1>6. Len(s) \in Nat /\ Len(part) \in Nat
  BY <1>3
<1>7. Len(s \o part) = sum[n]
  BY <1>1, <1>3, <1>4, <1>5 DEF part
<1>8. ASSUME NEW j \in 1..n, NEW k \in 1..Len(parts[j])
      PROVE  (s \o part)[sum[j - 1] + k] = parts[j][k]
  <2>1. j \in 1..Len(parts) /\ j - 1 \in 0..Len(parts)
    BY <1>3
  <2>2. sum[j - 1] \in Nat /\ parts[j] \in Seq(S)
    BY <1>1, <2>1, ElementOfSeq
  <2>3. Len(parts[j]) \in Nat
    BY <2>2
  <2>4. k \in Nat /\ 1 <= k /\ k <= Len(parts[j])
    BY <2>3
  <2>5. CASE j = n
    <3>1. sum[j - 1] = Len(s) /\ parts[j] = part
      BY <1>4, <2>5 DEF part
    <3>2. Len(s) + k \in 1..Len(s) + Len(part) /\ ~(Len(s) + k <= Len(s)) /\ (Len(s) + k) - Len(s) = k
      BY <1>6, <2>4, <3>1
    <3> QED BY <1>5, <3>1, <3>2
  <2>6. CASE j # n
    <3>1. j \in 1..(n - 1) /\ j \in 0..(n - 1)
      BY <1>3, <2>1, <2>6
    <3>2. sum[j] = sum[j - 1] + Len(parts[j]) /\ sum[j] <= sum[n - 1]
      BY <1>1, <1>2, <1>3, <2>1, <3>1
    <3>3. sum[j - 1] + Len(parts[j]) <= Len(s)
      BY <1>4, <3>2
    <3>4. sum[j - 1] + k \in 1..Len(s) + Len(part) /\ sum[j - 1] + k <= Len(s)
      BY <1>6, <2>2, <2>3, <3>3, PlaceInFirst
    <3> QED BY <1>4, <1>5, <3>1, <3>4
  <2> QED BY <2>5, <2>6
<1> QED BY <1>7, <1>8 DEF HasParts, sum, part

LEMMA JoinedProperties ==
  ASSUME NEW S, NEW parts \in Seq(Seq(S))
  PROVE  Joined(parts) \in Seq(S) /\ HasParts(Joined(parts), parts, Len(parts))
<1> DEFINE to == JoinedTo(parts)
           T == {n \in 0..Len(parts) : ~HasParts(to[n], parts, n)}
<1>1. /\ to \in [0..Len(parts) -> Seq(S)] /\ to[0] = << >>
      /\ \A n \in 1..Len(parts) : to[n] = to[n - 1] \o parts[n]
  BY JoinedToRule
<1> HIDE DEF to
<1>2. Len(parts) \in Nat /\ Len(parts) \in 0..Len(parts) /\ T \in SUBSET Nat
  OBVIOUS
<1>3. ASSUME T # {} PROVE FALSE
  <2>1. PICK n \in T : \A m \in T : n <= m
    BY <1>2, <1>3, LeastElement
  <2>2. n \in 0..Len(parts) /\ ~HasParts(to[n], parts, n)
    OBVIOUS
  <2>3. CASE n = 0
    <3>1. Len(to[0]) = 0 /\ Sums(Lengths(parts))[0] = 0
      BY <1>1, LengthsType, SumsRule
    <3>2. HasParts(to[0], parts, 0)
      BY <3>1 DEF HasParts
    <3> QED BY <2>2, <2>3, <3>2
  <2>4. CASE n # 0
    <3>1. n \in 1..Len(parts) /\ n - 1 \in 0..Len(parts) /\ ~(n <= n - 1)
      BY <1>2, <2>2, <2>4
    <3>2. HasParts(to[n - 1], parts, n - 1) /\ to[n - 1] \in Seq(S)
      BY <1>1, <2>1, <3>1
    <3>3. HasParts(to[n - 1] \o parts[n], parts, n)
      BY <3>1, <3>2, OnePartMore
    <3> QED BY <1>1, <2>2, <3>1, <3>3
  <2> QED BY <2>3, <2>4
<1>4. HasParts(to[Len(parts)], parts, Len(parts)) /\ to[Len(parts)] \in Seq(S)
  BY <1>1, <1>2, <1>3
<1> QED BY <1>4, JoinedIsJoinedTo DEF to

-----------------------------------------------------------------------------
(* The characters of a text.                                               *)

IsText(t) == Len(t) \in Nat /\ DOMAIN t = 1..Len(t)
Listed(f) == 1..Len(f.widthList)

LEMMA FontFacts ==
  ASSUME NEW f, IsFont(f)
  PROVE  /\ f.widthList \in Seq(Nat) /\ Len(f.widthList) \in Nat /\ 1 \in Listed(f)
         /\ DOMAIN f.charList = Listed(f) /\ DOMAIN f.widthList = Listed(f)
         /\ \A j, k \in Listed(f) : f.charList[j] = f.charList[k] => j = k
         /\ f.height \in Nat /\ f.height > 0 /\ f.fontWidthPerLine \in Nat
         /\ f.format \in {"YUV422I_YUYV", "YUV420SP_UV"}
<1>1. f.widthList \in Seq(Nat) /\ f.widthList # << >>
  BY DEF IsFont
<1>2. Len(f.widthList) \in Nat \ {0} /\ DOMAIN f.widthList = 1..Len(f.widthList)
  BY <1>1, EmptySeq, LenProperties
<1>3. 1 \in Listed(f) /\ DOMAIN f.widthList = Listed(f)
  BY <1>2 DEF Listed
<1>4. DOMAIN f.charList = Listed(f)
  BY <1>3 DEF IsFont
<1>5. \A j, k \in Listed(f) : f.charList[j] = f.charList[k] => j = k
  BY <1>4 DEF IsFont
<1>6. f.height \in Nat /\ f.height > 0 /\ f.format \in {"YUV422I_YUYV", "YUV420SP_UV"}
  BY DEF IsFont
<1>7. f.fontWidthPerLine \in Nat
  BY DEF IsFont
<1> QED BY <1>1, <1>2, <1>3, <1>4, <1>5, <1>6, <1>7

LEMMA ScaleFacts ==
  ASSUME NEW f, IsFont(f)
  PROVE  /\ ScaleX(f) \in {1, 2}
         /\ f.format = "YUV422I_YUYV" <=> ScaleX(f) = 2
         /\ f.format = "YUV420SP_UV" <=> ScaleX(f) = 1
BY FontFacts DEF ScaleX

(* GetIndex finds the character that is drawn.                             *)
LEMMA IndexIsDrawn ==
  ASSUME NEW f, IsFont(f), NEW t, IsText(t), NEW i \in 1..Len(t)
  PROVE  /\ GetIndex(f, t)[i] \in Nat /\ GetIndex(f, t)[i] + 1 \in Listed(f)
         /\ f.charList[GetIndex(f, t)[i] + 1] = Drawn(f, t[i])
<1> DEFINE found == {j \in DOMAIN f.charList : f.charList[j] = t[i]}
<1>1. GetIndex(f, t)[i] = IF found = {} THEN 0
                          ELSE (CHOOSE j \in found : \A k \in found : j <= k) - 1
  BY DEF GetIndex, IsText
<1>2. DOMAIN f.charList = Listed(f) /\ 1 \in Listed(f) /\ Len(f.widthList) \in Nat
  BY FontFacts
<1>3. IsListed(f, t[i]) <=> found # {}
  BY DEF IsListed
<1>4. found \subseteq Listed(f) /\ \A j \in found : f.charList[j] = t[i]
  BY <1>2
<1> HIDE DEF found
<1>5. CASE found = {}
  BY <1>1, <1>2, <1>3, <1>5 DEF Drawn
<1>6. CASE found # {}
  <2>1. found \in SUBSET Nat
    BY <1>2, <1>4 DEF Listed
  <2>2. \E j \in found : \A k \in found : j <= k
    BY <1>6, <2>1, LeastElement
  <2>3. PICK j \in found : j = CHOOSE m \in found : \A k \in found : m <= k
    BY <2>2
  <2>4. GetIndex(f, t)[i] = j - 1
    BY <1>1, <1>6, <2>3
  <2>5. j \in Nat /\ 1 <= j /\ (j - 1) + 1 = j
    BY <1>2, <1>4 DEF Listed
  <2>6. f.charList[j] = Drawn(f, t[i])
    BY <1>3, <1>4, <1>6 DEF Drawn
  <2> QED BY <1>4, <2>4, <2>5, <2>6
<1> QED BY <1>5, <1>6

LEMMA WidthOfDrawn ==
  ASSUME NEW f, IsFont(f), NEW t, IsText(t), NEW i \in 1..Len(t)
  PROVE  /\ Widths(f, t)[i] = f.widthList[GetIndex(f, t)[i] + 1]
         /\ WidthOf(f, Drawn(f, t[i])) = Widths(f, t)[i]
         /\ Widths(f, t)[i] \in Nat
<1> DEFINE k == GetIndex(f, t)[i] + 1
<1>1. k \in Listed(f) /\ f.charList[k] = Drawn(f, t[i])
  BY IndexIsDrawn
<1>2. Widths(f, t)[i] = f.widthList[k]
  <2>1. i \in DOMAIN GetIndex(f, t)
    BY DEF GetIndex, IsText
  <2> QED BY <2>1 DEF Widths, Width
<1> HIDE DEF k
<1>3. /\ DOMAIN f.charList = Listed(f)
      /\ \A j, m \in Listed(f) : f.charList[j] = f.charList[m] => j = m
  BY FontFacts
<1>4. (CHOOSE j \in DOMAIN f.charList : f.charList[j] = Drawn(f, t[i])) = k
  BY <1>1, <1>3
<1>5. f.widthList[k] \in Nat
  BY <1>1, FontFacts, ElementOfSeq DEF Listed
<1> QED BY <1>2, <1>4, <1>5 DEF WidthOf, k

LEMMA WidthsType ==
  ASSUME NEW f, IsFont(f), NEW t, IsText(t)
  PROVE  Widths(f, t) \in Seq(Nat) /\ Len(Widths(f, t)) = Len(t)
<1>1. DOMAIN Widths(f, t) = 1..Len(t) /\ Widths(f, t) = [i \in 1..Len(t) |-> Widths(f, t)[i]]
  BY DEF Widths, GetIndex, IsText
<1>2. \A i \in 1..Len(t) : Widths(f, t)[i] \in Nat
  BY WidthOfDrawn
<1>3. Widths(f, t) \in [1..Len(t) -> Nat] /\ Len(t) \in Nat
  BY <1>1, <1>2 DEF IsText
<1> QED BY <1>3, FunctionIsSeq

(* The widths that Shows goes by.                                          *)
LEMMA WidthsAreShown ==
  ASSUME NEW f, IsFont(f), NEW t, IsText(t)
  PROVE  [i \in DOMAIN t |-> WidthOf(f, Drawn(f, t[i]))] = Widths(f, t)
<1>1. DOMAIN Widths(f, t) = 1..Len(t) /\ Widths(f, t) = [i \in 1..Len(t) |-> Widths(f, t)[i]]
  BY DEF Widths, GetIndex, IsText
<1>2. \A i \in 1..Len(t) : WidthOf(f, Drawn(f, t[i])) = Widths(f, t)[i]
  BY WidthOfDrawn
<1> QED BY <1>1, <1>2 DEF IsText

(* A character's columns lie in the font's line, from its start on.        *)
StartOf(f, t, i) == IndexPix(f, GetIndex(f, t))[i]
LEMMA StartInFont ==
  ASSUME NEW f, IsFont(f), NEW t, IsText(t), NEW i \in 1..Len(t)
  PROVE  /\ StartOf(f, t, i) = Sums(f.widthList)[GetIndex(f, t)[i]]
         /\ StartOf(f, t, i) \in Nat
         /\ StartOf(f, t, i) + Widths(f, t)[i] <= f.fontWidthPerLine
<1> DEFINE k == GetIndex(f, t)[i]
           sum == Sums(f.widthList)
           N == Len(f.widthList)
<1>1. k \in Nat /\ k + 1 \in 1..N /\ N \in Nat
  BY IndexIsDrawn, FontFacts DEF Listed
<1>2. StartOf(f, t, i) = sum[k]
  <2>1. i \in DOMAIN GetIndex(f, t)
    BY DEF GetIndex, IsText
  <2> QED BY <2>1 DEF IndexPix, WidthOfFirst, StartOf
<1>3. Widths(f, t)[i] = f.widthList[k + 1]
  BY WidthOfDrawn
<1>4. /\ sum \in [0..N -> Nat]
      /\ \A n \in 1..N : sum[n] = sum[n - 1] + f.widthList[n]
  BY FontFacts, SumsRule
<1>5. sum[N] <= f.fontWidthPerLine
  BY DEF IsFont
<1>6. sum[k + 1] <= sum[N]
  <2>1. N \in 0..N /\ k + 1 \in 0..N
    BY <1>1
  <2> QED BY <2>1, FontFacts, SumsGrow
<1> HIDE DEF k, sum, N
<1>7. k \in 0..N /\ (k + 1) - 1 = k
  BY <1>1
<1>8. sum[k + 1] = sum[k] + f.widthList[k + 1] /\ sum[k] \in Nat
  BY <1>1, <1>4, <1>7
<1>9. sum[k + 1] \in Nat /\ sum[N] \in Nat /\ f.fontWidthPerLine \in Nat
  <2>1. k + 1 \in 0..N /\ N \in 0..N
    BY <1>1
  <2> QED BY <1>4, <2>1, FontFacts
<1>10. sum[k + 1] <= f.fontWidthPerLine
  BY <1>5, <1>6, <1>9
<1> QED BY <1>2, <1>3, <1>8, <1>10 DEF k, sum

-----------------------------------------------------------------------------
(* The bytes of one line.                                                  *)

(* What may be drawn: padding, and what is in the font's bitmaps.          *)
Cells(f) == {c \in {"Y", "UV", "pad"} \X Nat : InFont(f, c)}
PadCells == {<<"pad", 0>>, <<"pad", 1>>, <<"pad", 2>>}

LEMMA PaddingIsInFont ==
  ASSUME NEW f
  PROVE  PadCells \subseteq Cells(f) /\ \A c \in PadCells : c[1] = "pad"
BY DEF PadCells, Cells, InFont

LEMMA RepeatType ==
  ASSUME NEW S, NEW pattern \in Seq(S), Len(pattern) > 0, NEW times \in Nat
  PROVE  /\ Repeat(pattern, times) \in Seq(S)
         /\ Len(Repeat(pattern, times)) = times * Len(pattern)
<1> DEFINE L == Len(pattern)
           n == times * L
<1>1. L \in Nat /\ L > 0 /\ n \in Nat
  BY ProductIsNat
<1>2. ASSUME NEW k \in 1..n PROVE pattern[((k - 1) % L) + 1] \in S
  <2> HIDE DEF n
  <2>1. k - 1 \in Nat
    BY <1>1
  <2>2. (k - 1) % L \in 0..(L - 1)
    BY <1>1, <2>1
  <2>3. ((k - 1) % L) + 1 \in 1..L
    BY <1>1, <2>2
  <2> QED BY <2>3, ElementOfSeq
<1>3. Repeat(pattern, times) \in [1..n -> S]
  BY <1>2 DEF Repeat
<1> HIDE DEF n
<1>4. Repeat(pattern, times) \in Seq(S) /\ Len(Repeat(pattern, times)) = n
  BY <1>1, <1>3, FunctionIsSeq
<1> QED BY <1>4 DEF n

(* The loops write as many bytes as the padding's pixels have.             *)
LEMMA PaddingType ==
  ASSUME NEW f, IsFont(f), NEW plane \in {"Y", "UV"}, NEW padPix \in Nat, padPix % 2 = 0
  PROVE  /\ Padding(plane, f.format, padPix) \in Seq(PadCells)
         /\ Len(Padding(plane, f.format, padPix)) = padPix * ScaleX(f)
<1> DEFINE yuyv == << <<"pad", 0>>, <<"pad", 1>>, <<"pad", 0>>, <<"pad", 2>> >>
           luma == << <<"pad", 0>> >>
           chroma == << <<"pad", 1>>, <<"pad", 2>> >>
<1>1. /\ yuyv \in Seq(PadCells) /\ Len(yuyv) = 4
      /\ luma \in Seq(PadCells) /\ Len(luma) = 1
      /\ chroma \in Seq(PadCells) /\ Len(chroma) = 2
  BY DEF PadCells
<1>2. HalfOf(padPix) \in Nat
  BY DEF HalfOf
<1>3. HalfOf(padPix) * 2 = padPix /\ HalfOf(padPix) * 4 = padPix * 2 /\ padPix * 1 = padPix
  BY DEF HalfOf
<1>4. ScaleX(f) \in {1, 2} /\ (f.format = "YUV422I_YUYV" <=> ScaleX(f) = 2)
  BY ScaleFacts
<1>5. Padding(plane, f.format, padPix) =
        IF f.format = "YUV422I_YUYV" THEN Repeat(yuyv, HalfOf(padPix))
        ELSE IF plane = "Y" THEN Repeat(luma, padPix) ELSE Repeat(chroma, HalfOf(padPix))
  BY DEF Padding
<1> HIDE DEF yuyv, luma, chroma
<1>6. ASSUME NEW p \in Seq(PadCells), Len(p) > 0, NEW n \in Nat
      PROVE  Repeat(p, n) \in Seq(PadCells) /\ Len(Repeat(p, n)) = n * Len(p)
  BY <1>6, RepeatType
<1>7. Len(yuyv) > 0 /\ Len(luma) > 0 /\ Len(chroma) > 0
  BY <1>1
<1>8. /\ Repeat(yuyv, HalfOf(padPix)) \in Seq(PadCells)
      /\ Len(Repeat(yuyv, HalfOf(padPix))) = HalfOf(padPix) * Len(yuyv)
  BY <1>1, <1>2, <1>6, <1>7
<1>9. /\ Repeat(luma, padPix) \in Seq(PadCells)
      /\ Len(Repeat(luma, padPix)) = padPix * Len(luma)
  BY <1>1, <1>6, <1>7
<1>10. /\ Repeat(chroma, HalfOf(padPix)) \in Seq(PadCells)
       /\ Len(Repeat(chroma, HalfOf(padPix))) = HalfOf(padPix) * Len(chroma)
  BY <1>1, <1>2, <1>6, <1>7
<1> QED BY <1>1, <1>3, <1>4, <1>5, <1>8, <1>9, <1>10

LEMMA RoundUpFits ==
  ASSUME NEW w \in Nat
  PROVE  RoundUp(w) \in Nat /\ w <= RoundUp(w)
<1> DEFINE q == (w + ALIGN - 1) \div ALIGN
<1>1. ALIGN \in Nat /\ ALIGN > 0
  BY AlignAssumption
<1>2. q \in Nat /\ q * ALIGN <= w + ALIGN - 1 /\ w + ALIGN - 1 < q * ALIGN + ALIGN
  BY <1>1
<1> HIDE DEF q
<1>3. q * ALIGN \in Nat /\ w <= q * ALIGN
  BY <1>1, <1>2
<1> QED BY <1>3 DEF RoundUp, q

LEMMA LineOffsetFits ==
  ASSUME NEW f, IsFont(f), NEW t, IsText(t)
  PROVE  /\ PixPerLine(f, t) \in Nat /\ LineOffset(f, t) \in Nat
         /\ PixPerLine(f, t) <= LineOffset(f, t)
<1>1. PixPerLine(f, t) \in Nat
  <2>1. Sums(Widths(f, t)) \in [0..Len(t) -> Nat]
    BY WidthsType, SumsRule
  <2>2. Len(t) \in 0..Len(t)
    BY DEF IsText
  <2> QED BY <2>1, <2>2 DEF PixPerLine
<1> QED BY <1>1, RoundUpFits DEF LineOffset

(* The lines that a plane's bitmap has.                                    *)
IsRow(f, plane, i) ==
    /\ i \in Nat
    /\ \/ plane = "Y" /\ i < f.height
       \/ plane = "UV" /\ f.format = "YUV420SP_UV" /\ i < f.height \div 2

LEMMA RowInBitmap ==
  ASSUME NEW f, IsFont(f), NEW plane, NEW i, IsRow(f, plane, i)
  PROVE  /\ f.bytes[plane] \in Nat
         /\ i * f.fontWidthPerLine * ScaleX(f) + f.fontWidthPerLine * ScaleX(f) <= f.bytes[plane]
<1> DEFINE W == f.fontWidthPerLine
           h == f.height
<1>1. W \in Nat /\ h \in Nat /\ i \in Nat /\ h \div 2 \in Nat /\ ScaleX(f) \in {1, 2}
  BY FontFacts, ScaleFacts DEF IsRow
<1>2. f.bytes \in [{"Y", "UV"} -> Nat]
  BY DEF IsFont
<1>3. f.bytes["Y"] \in Nat /\ f.bytes["UV"] \in Nat
  BY <1>2
<1>4. ASSUME NEW n \in Nat, i < n PROVE i * W + W <= n * W
  <2>1. i + 1 <= n /\ i + 1 \in Nat
    BY <1>1, <1>4
  <2>2. (i + 1) * W <= n * W
    BY <1>1, <2>1, ProductGrows
  <2> QED BY <1>1, <2>2, OneMore
<1>5. CASE plane = "Y" /\ i < h
  <2>1. h * W * ScaleX(f) <= f.bytes["Y"]
    BY DEF IsFont
  <2>2. i * W + W <= h * W /\ i * W \in Nat /\ h * W \in Nat
    BY <1>1, <1>4, <1>5, ProductIsNat
  <2> DEFINE iw == i * W
             hw == h * W
  <2>3. iw * ScaleX(f) + W * ScaleX(f) <= hw * ScaleX(f)
    <3> HIDE DEF W, h, iw, hw
    <3>1. iw \in Nat /\ hw \in Nat /\ iw + W <= hw
      BY <2>2 DEF iw, hw
    <3> QED BY <1>1, <3>1
  <2>4. hw * ScaleX(f) \in Nat /\ iw * ScaleX(f) + W * ScaleX(f) \in Nat
    <3> HIDE DEF W, h, iw, hw
    <3>1. iw \in Nat /\ hw \in Nat
      BY <2>2 DEF iw, hw
    <3> QED BY <1>1, <3>1
  <2>5. iw * ScaleX(f) + W * ScaleX(f) <= f.bytes["Y"]
    BY <1>3, <2>1, <2>3, <2>4
  <2> QED BY <1>3, <1>5, <2>5
<1>6. CASE plane = "UV" /\ f.format = "YUV420SP_UV" /\ i < h \div 2
  <2>1. ScaleX(f) = 1
    BY <1>6, ScaleFacts
  <2>2. (h \div 2) * W <= f.bytes["UV"]
    BY <1>6 DEF IsFont
  <2>3. i * W + W <= (h \div 2) * W /\ i * W \in Nat /\ (h \div 2) * W \in Nat
    BY <1>1, <1>4, <1>6, ProductIsNat
  <2>4. i * W + W <= f.bytes["UV"]
    <3> DEFINE iw == i * W
               hw == (h \div 2) * W
    <3> HIDE DEF iw, hw
    <3>1. iw + W <= hw /\ iw \in Nat /\ hw \in Nat /\ hw <= f.bytes["UV"]
      BY <2>2, <2>3 DEF iw, hw
    <3>2. iw + W <= f.bytes["UV"]
      BY <1>1, <1>3, <3>1
    <3> QED BY <3>2 DEF iw
  <2>5. i * W * ScaleX(f) = i * W /\ W * ScaleX(f) = W
    BY <1>1, <2>1, <2>3
  <2> QED BY <1>3, <1>6, <2>4, <2>5
<1> QED BY <1>5, <1>6 DEF IsRow

(* The byte that the k-th one copied from column start of row i is.        *)
ByteOf(f, plane, i, start, k) ==
    <<plane, start * ScaleX(f) + i * f.fontWidthPerLine * ScaleX(f) + k - 1>>

LEMMA ByteInFont ==
  ASSUME NEW f, IsFont(f), NEW plane, NEW i, IsRow(f, plane, i),
         NEW start \in Nat, NEW width \in Nat, start + width <= f.fontWidthPerLine,
         NEW k \in 1..(width * ScaleX(f))
  PROVE  ByteOf(f, plane, i, start, k) \in Cells(f)
<1> DEFINE A == start * ScaleX(f)
           B == i * f.fontWidthPerLine * ScaleX(f)
           C == f.fontWidthPerLine * ScaleX(f)
           D == width * ScaleX(f)
           n == A + B + k - 1
<1>1. /\ f.bytes[plane] \in Nat /\ B + C <= f.bytes[plane] /\ plane \in {"Y", "UV"}
  BY RowInBitmap DEF IsRow
<1>2. f.fontWidthPerLine \in Nat /\ ScaleX(f) \in Nat /\ i \in Nat
  BY FontFacts, ScaleFacts DEF IsRow
<1>3. A \in Nat /\ B \in Nat /\ C \in Nat /\ D \in Nat
  BY <1>2, ProductIsNat
<1>4. A + D <= C
  <2>1. (start + width) * ScaleX(f) <= C
    BY <1>2, ProductGrows
  <2>2. (start + width) * ScaleX(f) = A + D
    BY <1>2
  <2> QED BY <2>1, <2>2
<1>5. k \in Nat /\ 1 <= k /\ k <= D
  BY <1>3
<1> HIDE DEF A, B, C, D
<1>6. n \in 0..(f.bytes[plane] - 1) /\ n \in Nat
  BY <1>1, <1>3, <1>4, <1>5
<1> HIDE DEF n
<1>7. <<plane, n>> \in Cells(f)
  BY <1>1, <1>6 DEF Cells, InFont
<1> QED BY <1>7 DEF ByteOf, A, B, n

LEMMA GlyphType ==
  ASSUME NEW f, IsFont(f), NEW plane, NEW i, IsRow(f, plane, i),
         NEW start \in Nat, NEW width \in Nat, start + width <= f.fontWidthPerLine
  PROVE  /\ Glyph(f, plane, i, start, width) \in Seq(Cells(f))
         /\ Len(Glyph(f, plane, i, start, width)) = width * ScaleX(f)
         /\ \A k \in 1..(width * ScaleX(f)) :
               Glyph(f, plane, i, start, width)[k] = ByteOf(f, plane, i, start, k)
<1> DEFINE n == width * ScaleX(f)
<1>1. n \in Nat
  BY ScaleFacts, ProductIsNat
<1>2. Glyph(f, plane, i, start, width) = [k \in 1..n |-> ByteOf(f, plane, i, start, k)]
  BY DEF Glyph, ByteOf
<1>3. \A k \in 1..n : ByteOf(f, plane, i, start, k) \in Cells(f)
  BY ByteInFont
<1> HIDE DEF n
<1>4. Glyph(f, plane, i, start, width) \in [1..n -> Cells(f)]
  BY <1>2, <1>3
<1>5. /\ Glyph(f, plane, i, start, width) \in Seq(Cells(f))
      /\ Len(Glyph(f, plane, i, start, width)) = n
  BY <1>1, <1>4, FunctionIsSeq
<1> QED BY <1>2, <1>5 DEF n

(* The k-th byte of the j-th character is where it belongs.                *)
CopiesCharacters(f, t, plane, i, s) ==
    \A j \in 1..Len(t) : \A k \in 1..(Widths(f, t)[j] * ScaleX(f)) :
       s[Sums(Widths(f, t))[j - 1] * ScaleX(f) + k] = ByteOf(f, plane, i, StartOf(f, t, j), k)

LEMMA CopiedType ==
  ASSUME NEW f, IsFont(f), NEW t, IsText(t), NEW plane, NEW i, IsRow(f, plane, i)
  PROVE  /\ Copied(f, t, plane, i) \in Seq(Cells(f))
         /\ Len(Copied(f, t, plane, i)) = PixPerLine(f, t) * ScaleX(f)
         /\ CopiesCharacters(f, t, plane, i, Copied(f, t, plane, i))
<1> DEFINE G(j) == Glyph(f, plane, i, StartOf(f, t, j), Widths(f, t)[j])
           parts == [j \in 1..Len(t) |-> G(j)]
           s == ScaleX(f)
           sum == Sums(Widths(f, t))
           C == Copied(f, t, plane, i)
<1>1. C = Joined(parts)
  BY DEF Copied, StartOf, IsText
<1>2. ASSUME NEW j \in 1..Len(t)
      PROVE  /\ G(j) \in Seq(Cells(f)) /\ Len(G(j)) = Widths(f, t)[j] * s
             /\ \A k \in 1..(Widths(f, t)[j] * s) : G(j)[k] = ByteOf(f, plane, i, StartOf(f, t, j), k)
  BY StartInFont, WidthOfDrawn, GlyphType
<1> HIDE DEF G, s, C, sum
<1>3. parts \in [1..Len(t) -> Seq(Cells(f))] /\ Len(t) \in Nat
  BY <1>2 DEF IsText
<1>4. parts \in Seq(Seq(Cells(f))) /\ Len(parts) = Len(t)
  BY <1>3, FunctionIsSeq
<1>5. \A j \in 1..Len(t) : parts[j] = G(j)
  OBVIOUS
<1> HIDE DEF parts
<1>6. C \in Seq(Cells(f)) /\ HasParts(C, parts, Len(parts))
  BY <1>1, <1>4, JoinedProperties
<1>7. /\ Lengths(parts) \in Seq(Nat) /\ Len(Lengths(parts)) = Len(t)
      /\ \A j \in 1..Len(t) : Lengths(parts)[j] = Widths(f, t)[j] * s
  BY <1>2, <1>4, <1>5, LengthsType DEF Lengths
<1>8. Widths(f, t) \in Seq(Nat) /\ Len(Widths(f, t)) = Len(t) /\ s \in Nat
  BY WidthsType, ScaleFacts DEF s
<1>9. \A n \in 0..Len(t) : Sums(Lengths(parts))[n] = sum[n] * s
  BY <1>7, <1>8, SumsScaled DEF sum
<1>10. Len(C) = PixPerLine(f, t) * s
  <2>1. Len(t) \in 0..Len(t)
    BY <1>3
  <2>2. Len(C) = Sums(Lengths(parts))[Len(t)]
    BY <1>4, <1>6 DEF HasParts
  <2> QED BY <1>9, <2>1, <2>2 DEF PixPerLine, sum
<1>11. ASSUME NEW j \in 1..Len(t), NEW k \in 1..(Widths(f, t)[j] * s)
       PROVE  C[sum[j - 1] * s + k] = ByteOf(f, plane, i, StartOf(f, t, j), k)
  <2>1. j - 1 \in 0..Len(t)
    BY <1>3
  <2>2. Sums(Lengths(parts))[j - 1] = sum[j - 1] * s
    BY <1>9, <2>1
  <2>3. k \in 1..Len(parts[j]) /\ parts[j][k] = ByteOf(f, plane, i, StartOf(f, t, j), k)
    BY <1>2, <1>5
  <2>4. C[Sums(Lengths(parts))[j - 1] + k] = parts[j][k]
    BY <1>4, <1>6, <2>3 DEF HasParts
  <2> QED BY <2>2, <2>3, <2>4
<1> QED BY <1>6, <1>10, <1>11 DEF CopiesCharacters, C, s, sum

-----------------------------------------------------------------------------
(* The lines of a text.                                                    *)

IsPadded(f, t) == (LineOffset(f, t) - PixPerLine(f, t)) % 2 = 0
LineBytes(f, t) == LineOffset(f, t) * ScaleX(f)

(* After the characters comes padding.                                     *)
PadsRest(f, t, s) ==
    \A k \in 1..LineBytes(f, t) : k > PixPerLine(f, t) * ScaleX(f) => s[k][1] = "pad"

HasBytesOf(f, t, plane, i, s) ==
    /\ s \in Seq(Cells(f)) /\ Len(s) = LineBytes(f, t)
    /\ CopiesCharacters(f, t, plane, i, s) /\ PadsRest(f, t, s)

(* What is copied keeps its place when the padding follows.                *)
LEMMA CopiedFits ==
  ASSUME NEW f, IsFont(f), NEW t, IsText(t), NEW j \in 1..Len(t),
         NEW k \in 1..(Widths(f, t)[j] * ScaleX(f))
  PROVE  Sums(Widths(f, t))[j - 1] * ScaleX(f) + k \in 1..(PixPerLine(f, t) * ScaleX(f))
<1> DEFINE sum == Sums(Widths(f, t))
           w == Widths(f, t)[j]
           p == PixPerLine(f, t)
           s == ScaleX(f)
<1>1. /\ sum \in [0..Len(t) -> Nat]
      /\ sum[j] = sum[j - 1] + w
  BY WidthsType, SumsRule
<1>2. Len(t) \in Nat /\ j - 1 \in 0..Len(t) /\ j \in 0..Len(t) /\ Len(t) \in 0..Len(t)
  BY DEF IsText
<1>3. sum[j] <= p
  BY <1>2, WidthsType, SumsGrow DEF PixPerLine
<1>4. w \in Nat /\ p \in Nat /\ s \in Nat
  BY WidthOfDrawn, LineOffsetFits, ScaleFacts
<1>5. sum[j - 1] \in Nat
  BY <1>1, <1>2
<1> HIDE DEF sum, w, p, s
<1>6. sum[j - 1] + w <= p
  BY <1>1, <1>3
<1>7. PICK a \in Nat : a = sum[j - 1]
  BY <1>5
<1>8. a * s + w * s <= p * s /\ a * s \in Nat /\ w * s \in Nat /\ p * s \in Nat
  <2>1. (a + w) * s <= p * s
    BY <1>4, <1>6, <1>7, ProductGrows
  <2>2. (a + w) * s = a * s + w * s
    BY <1>4
  <2> QED BY <1>4, <2>1, <2>2, ProductIsNat
<1>9. k \in 1..(w * s)
  BY DEF w, s
<1>10. a * s + k \in 1..(p * s)
  <2> DEFINE x == a * s
             y == w * s
             z == p * s
  <2>1. x \in Nat /\ y \in Nat /\ z \in Nat /\ x + y <= z /\ k \in 1..y
    BY <1>8, <1>9
  <2> HIDE DEF x, y, z
  <2>2. x + k \in 1..z
    BY <2>1
  <2> QED BY <2>2 DEF x, z
<1> QED BY <1>7, <1>10 DEF sum, p, s

LEMMA LineType ==
  ASSUME NEW f, IsFont(f), NEW t, IsText(t), IsPadded(f, t),
         NEW plane, NEW i, IsRow(f, plane, i), NEW from
  PROVE  /\ Line(f, t, plane, from, i).at = from + i * LineOffset(f, t) * ScaleX(f)
         /\ HasBytesOf(f, t, plane, i, Line(f, t, plane, from, i).bytes)
<1> DEFINE p == PixPerLine(f, t)
           w == LineOffset(f, t)
           s == ScaleX(f)
           C == Copied(f, t, plane, i)
           P == Padding(plane, f.format, w - p)
<1>1. p \in Nat /\ w \in Nat /\ p <= w /\ w - p \in Nat /\ s \in Nat /\ plane \in {"Y", "UV"}
  BY LineOffsetFits, ScaleFacts DEF IsRow
<1>2. C \in Seq(Cells(f)) /\ Len(C) = p * s /\ CopiesCharacters(f, t, plane, i, C)
  BY CopiedType
<1>3. P \in Seq(PadCells) /\ Len(P) = (w - p) * s
  BY <1>1, PaddingType DEF IsPadded
<1>4. P \in Seq(Cells(f))
  BY <1>3, PaddingIsInFont, SeqMonotonic
<1>5. Line(f, t, plane, from, i).at = from + i * w * s /\ Line(f, t, plane, from, i).bytes = C \o P
  BY DEF Line
<1> HIDE DEF C, P
<1>6. /\ C \o P \in Seq(Cells(f)) /\ Len(C \o P) = Len(C) + Len(P)
      /\ \A k \in 1..Len(C) + Len(P) : (C \o P)[k] = IF k <= Len(C) THEN C[k] ELSE P[k - Len(C)]
  BY <1>2, <1>4, ConcatProperties
<1>7. p * s + (w - p) * s = w * s /\ p * s \in Nat /\ w * s \in Nat /\ (w - p) * s \in Nat
  BY <1>1, ProductIsNat
<1> HIDE DEF p, w, s
<1>8. Len(C) + Len(P) = w * s
  BY <1>2, <1>3, <1>7
<1>9. CopiesCharacters(f, t, plane, i, C \o P)
  <2>1. ASSUME NEW j \in 1..Len(t), NEW k \in 1..(Widths(f, t)[j] * ScaleX(f))
        PROVE  (C \o P)[Sums(Widths(f, t))[j - 1] * ScaleX(f) + k] = ByteOf(f, plane, i, StartOf(f, t, j), k)
    <3> DEFINE n == Sums(Widths(f, t))[j - 1] * ScaleX(f) + k
    <3>1. n \in 1..(p * s)
      BY CopiedFits DEF p, s
    <3>2. C[n] = ByteOf(f, plane, i, StartOf(f, t, j), k)
      BY <1>2 DEF CopiesCharacters
    <3> HIDE DEF n
    <3>3. n \in 1..Len(C) + Len(P) /\ n <= Len(C)
      <4>1. p * s <= w * s
        BY <1>7
      <4> QED BY <1>2, <1>7, <1>8, <3>1, <4>1
    <3>4. (C \o P)[n] = C[n]
      BY <1>6, <3>3
    <3> QED BY <3>2, <3>4 DEF n
  <2> QED BY <2>1 DEF CopiesCharacters
<1>10. PadsRest(f, t, C \o P)
  <2>1. ASSUME NEW k \in 1..(w * s), k > p * s
        PROVE  (C \o P)[k][1] = "pad"
    <3>1. k \in 1..Len(C) + Len(P) /\ ~(k <= Len(C)) /\ k - Len(C) \in 1..Len(P)
      BY <1>2, <1>3, <1>7, <1>8, <2>1
    <3>2. (C \o P)[k] = P[k - Len(C)]
      BY <1>6, <3>1
    <3>3. P[k - Len(C)] \in PadCells
      BY <1>3, <3>1, ElementOfSeq
    <3> QED BY <3>2, <3>3, PaddingIsInFont
  <2> QED BY <2>1 DEF PadsRest, LineBytes, w, p, s
<1> QED BY <1>5, <1>6, <1>8, <1>9, <1>10 DEF HasBytesOf, LineBytes, w, s

NumLines(f) == IF f.format = "YUV422I_YUYV" THEN f.height ELSE f.height + f.height \div 2
PlaneOf(f, n) == IF n <= f.height THEN "Y" ELSE "UV"
RowOf(f, n) == IF n <= f.height THEN n - 1 ELSE n - 1 - f.height

LEMMA RowOfLine ==
  ASSUME NEW f, IsFont(f), NEW n \in 1..NumLines(f)
  PROVE  IsRow(f, PlaneOf(f, n), RowOf(f, n))
<1>1. f.height \in Nat /\ f.height > 0 /\ f.height \div 2 \in Nat
  BY FontFacts
<1>2. NumLines(f) \in Nat
  BY <1>1 DEF NumLines
<1>3. CASE n <= f.height
  BY <1>1, <1>2, <1>3 DEF IsRow, PlaneOf, RowOf
<1>4. CASE ~(n <= f.height)
  <2>1. f.format # "YUV422I_YUYV"
    BY <1>1, <1>4 DEF NumLines
  <2>2. f.format = "YUV420SP_UV" /\ NumLines(f) = f.height + f.height \div 2
    BY <2>1, FontFacts DEF NumLines
  <2>3. n - 1 - f.height \in Nat /\ n - 1 - f.height < f.height \div 2
    BY <1>1, <1>2, <1>4, <2>2
  <2> QED BY <1>4, <2>2, <2>3 DEF IsRow, PlaneOf, RowOf
<1> QED BY <1>3, <1>4

LEMMA NumLinesType ==
  ASSUME NEW f, IsFont(f)
  PROVE  NumLines(f) \in Nat /\ NumLines(f) > 0
BY FontFacts DEF NumLines

(* Every line of the window is there, each where the last one ended.       *)
IsLine(f, t, n, ln) ==
    /\ ln.at = (n - 1) * LineBytes(f, t)
    /\ HasBytesOf(f, t, PlaneOf(f, n), RowOf(f, n), ln.bytes)

LEMMA LumaType ==
  ASSUME NEW f, IsFont(f), NEW t, IsText(t), IsPadded(f, t), NEW n \in 1..f.height
  PROVE  IsLine(f, t, n, Luma(f, t)[n])
<1> DEFINE w == LineOffset(f, t)
           s == ScaleX(f)
<1>1. f.height \in Nat /\ w \in Nat /\ s \in Nat
  BY FontFacts, LineOffsetFits, ScaleFacts
<1>2. PlaneOf(f, n) = "Y" /\ RowOf(f, n) = n - 1 /\ n - 1 \in Nat /\ IsRow(f, "Y", n - 1)
  BY <1>1 DEF PlaneOf, RowOf, IsRow
<1>3. Luma(f, t)[n] = Line(f, t, "Y", 0, n - 1)
  BY DEF Luma
<1>4. /\ Luma(f, t)[n].at = 0 + (n - 1) * w * s
      /\ HasBytesOf(f, t, "Y", n - 1, Luma(f, t)[n].bytes)
  BY <1>2, <1>3, LineType
<1> HIDE DEF w, s
<1>5. 0 + (n - 1) * w * s = (n - 1) * (w * s)
  BY <1>1, <1>2
<1> QED BY <1>2, <1>4, <1>5 DEF IsLine, LineBytes, w, s

LEMMA ChromaType ==
  ASSUME NEW f, IsFont(f), NEW t, IsText(t), IsPadded(f, t), f.format = "YUV420SP_UV",
         NEW i \in 1..(f.height \div 2)
  PROVE  IsLine(f, t, f.height + i, Chroma(f, t)[i])
<1> DEFINE w == LineOffset(f, t)
           h == f.height
           n == h + i
<1>1. h \in Nat /\ w \in Nat /\ ScaleX(f) = 1 /\ h \div 2 \in Nat
  BY FontFacts, LineOffsetFits, ScaleFacts
<1>2. i \in Nat /\ i - 1 \in Nat /\ i - 1 < h \div 2 /\ n - 1 - h = i - 1 /\ ~(n <= h)
  BY <1>1
<1>3. PlaneOf(f, n) = "UV" /\ RowOf(f, n) = i - 1 /\ IsRow(f, "UV", i - 1)
  BY <1>2 DEF PlaneOf, RowOf, IsRow
<1>4. Chroma(f, t)[i] = Line(f, t, "UV", w * h, i - 1)
  BY DEF Chroma
<1>5. /\ Chroma(f, t)[i].at = w * h + (i - 1) * w * ScaleX(f)
      /\ HasBytesOf(f, t, "UV", i - 1, Chroma(f, t)[i].bytes)
  BY <1>3, <1>4, LineType
<1>6. w * h + (i - 1) * w * ScaleX(f) = (n - 1) * (w * ScaleX(f))
  <2>1. n - 1 = h + (i - 1)
    BY <1>1, <1>2
  <2> HIDE DEF w, h, n
  <2>2. w * ScaleX(f) = w /\ (i - 1) * w \in Nat /\ (i - 1) * w * ScaleX(f) = (i - 1) * w
    BY <1>1, <1>2, ProductIsNat
  <2>3. (h + (i - 1)) * w = w * h + (i - 1) * w
    BY <1>1, <1>2
  <2> QED BY <2>1, <2>2, <2>3
<1> QED BY <1>3, <1>5, <1>6 DEF IsLine, LineBytes

LEMMA LinesType ==
  ASSUME NEW f, IsFont(f), NEW t, IsText(t), IsPadded(f, t)
  PROVE  /\ Len(Lines(f, t)) = NumLines(f)
         /\ \A n \in 1..NumLines(f) : IsLine(f, t, n, Lines(f, t)[n])
<1> DEFINE h == f.height
           luma == Luma(f, t)
           chroma == Chroma(f, t)
           S == {luma[n] : n \in 1..h} \cup {chroma[n] : n \in 1..(h \div 2)}
<1>1. h \in Nat /\ h \div 2 \in Nat
  BY FontFacts
<1>2. luma \in [1..h -> S] /\ chroma \in [1..(h \div 2) -> S]
  BY DEF Luma, Chroma
<1>3. \A n \in 1..h : IsLine(f, t, n, luma[n])
  BY LumaType
<1>4. f.format = "YUV420SP_UV" => \A n \in 1..(h \div 2) : IsLine(f, t, h + n, chroma[n])
  BY ChromaType
<1>5. Lines(f, t) = IF f.format = "YUV422I_YUYV" THEN luma ELSE luma \o chroma
  BY DEF Lines
<1> HIDE DEF S, luma, chroma
<1>6. luma \in Seq(S) /\ Len(luma) = h
  BY <1>1, <1>2, FunctionIsSeq
<1>7. chroma \in Seq(S) /\ Len(chroma) = h \div 2
  BY <1>1, <1>2, FunctionIsSeq
<1>8. CASE f.format = "YUV422I_YUYV"
  <2>1. Lines(f, t) = luma /\ NumLines(f) = h
    BY <1>5, <1>8 DEF NumLines
  <2> QED BY <1>3, <1>6, <2>1
<1>9. CASE f.format # "YUV422I_YUYV"
  <2>1. f.format = "YUV420SP_UV"
    BY <1>9, FontFacts
  <2>2. Lines(f, t) = luma \o chroma /\ NumLines(f) = h + h \div 2
    BY <1>5, <1>9 DEF NumLines
  <2>3. /\ Len(luma \o chroma) = h + h \div 2
        /\ \A n \in 1..h + h \div 2 : (luma \o chroma)[n] = IF n <= h THEN luma[n] ELSE chroma[n - h]
    <3>1. /\ Len(luma \o chroma) = Len(luma) + Len(chroma)
          /\ \A n \in 1..Len(luma) + Len(chroma) :
                (luma \o chroma)[n] = IF n <= Len(luma) THEN luma[n] ELSE chroma[n - Len(luma)]
      BY <1>6, <1>7, ConcatProperties
    <3> QED BY <1>6, <1>7, <3>1
  <2> HIDE DEF h
  <2>4. ASSUME NEW n \in 1..h + h \div 2 PROVE IsLine(f, t, n, (luma \o chroma)[n])
    <3>1. CASE n <= h
      <4>1. n \in 1..h
        BY <1>1, <3>1
      <4> QED BY <1>3, <2>3, <3>1, <4>1
    <3>2. CASE ~(n <= h)
      <4>1. n - h \in 1..(h \div 2) /\ h + (n - h) = n
        BY <1>1, <3>2
      <4>2. (luma \o chroma)[n] = chroma[n - h]
        BY <2>3, <3>2
      <4>3. IsLine(f, t, h + (n - h), chroma[n - h])
        BY <1>4, <2>1, <4>1
      <4> QED BY <4>1, <4>2, <4>3
    <3> QED BY <3>1, <3>2
  <2> QED BY <2>2, <2>3, <2>4
<1> QED BY <1>8, <1>9

(* The lines fill the window.                                              *)
LEMMA LinesFillWindow ==
  ASSUME NEW f, IsFont(f), NEW t, IsText(t)
  PROVE  LineBytes(f, t) \in Nat /\ NumLines(f) * LineBytes(f, t) = WindowBytes(f, t)
<1> DEFINE w == LineOffset(f, t)
           h == f.height
<1>1. h \in Nat /\ w \in Nat /\ ScaleX(f) \in {1, 2} /\ (f.format = "YUV422I_YUYV" <=> ScaleX(f) = 2)
  BY FontFacts, LineOffsetFits, ScaleFacts
<1>2. LineBytes(f, t) \in Nat
  BY <1>1, ProductIsNat DEF LineBytes
<1>3. CASE f.format = "YUV422I_YUYV"
  <2>1. NumLines(f) = h /\ LineBytes(f, t) = w * 2 /\ WindowBytes(f, t) = w * h * 2
    BY <1>1, <1>3 DEF NumLines, LineBytes, WindowBytes
  <2> HIDE DEF w, h
  <2>2. h * (w * 2) = w * h * 2
    BY <1>1
  <2> QED BY <1>2, <2>1, <2>2
<1>4. CASE f.format # "YUV422I_YUYV"
  <2>1. f.format = "YUV420SP_UV"
    BY <1>4, FontFacts
  <2>2. h % 2 = 0
    BY <2>1 DEF IsFont
  <2>3. NumLines(f) = h + h \div 2 /\ LineBytes(f, t) = w /\ WindowBytes(f, t) = w * h + (w * h) \div 2
    BY <1>1, <1>4 DEF NumLines, LineBytes, WindowBytes
  <2> HIDE DEF w, h
  <2>4. PICK m \in Nat : h = m * 2 /\ h \div 2 = m
    BY <1>1, <2>2
  <2>5. w * h = (w * m) * 2 /\ w * m \in Nat
    BY <1>1, <2>4, ProductIsNat
  <2>6. (w * h) \div 2 = w * m
    <3> DEFINE x == w * m
    <3> HIDE DEF x
    <3>1. x \in Nat => (x * 2) \div 2 = x
      OBVIOUS
    <3> QED BY <2>5, <3>1 DEF x
  <2>7. (h + m) * w = w * h + w * m
    BY <1>1, <2>4
  <2> QED BY <1>2, <2>3, <2>4, <2>6, <2>7
<1> QED BY <1>3, <1>4

-----------------------------------------------------------------------------
(* Memory.                                                                 *)

Window(f, t) == 0..(WindowBytes(f, t) - 1)

(* Memories with nothing but padding and what is in the font, and nothing  *)
(* beyond the window.                                                      *)
Mems(f, t) == UNION {[D -> Cells(f)] : D \in SUBSET Window(f, t)}

LEMMA MemsAre ==
  ASSUME NEW f, NEW t, NEW m
  PROVE  m \in Mems(f, t) <=> \E D \in SUBSET Window(f, t) : m \in [D -> Cells(f)]
BY DEF Mems

IsDrawn(m, ln) ==
    \A k \in 1..Len(ln.bytes) : ln.at + k - 1 \in DOMAIN m /\ m[ln.at + k - 1] = ln.bytes[k]

LEMMA LineInWindow ==
  ASSUME NEW f, IsFont(f), NEW t, IsText(t), NEW n \in 1..NumLines(f), NEW k \in 1..LineBytes(f, t)
  PROVE  (n - 1) * LineBytes(f, t) + k - 1 \in Window(f, t)
<1> DEFINE L == LineBytes(f, t)
           N == NumLines(f)
           B == WindowBytes(f, t)
<1>1. L \in Nat /\ N \in Nat /\ N * L = B /\ n \in Nat /\ n - 1 \in Nat /\ n <= N
  BY LinesFillWindow, NumLinesType
<1>2. k \in 1..L
  OBVIOUS
<1> HIDE DEF L, N, B
<1>3. (n - 1) * L + L <= B
  <2>1. n * L <= N * L /\ n * L = (n - 1) * L + L
    BY <1>1, ProductGrows
  <2> QED BY <1>1, <2>1
<1>4. (n - 1) * L \in Nat /\ B \in Nat
  BY <1>1, ProductIsNat
<1> DEFINE x == (n - 1) * L
<1> HIDE DEF x
<1>5. x \in Nat /\ x + L <= B /\ B \in Nat
  BY <1>3, <1>4 DEF x
<1>6. x + k - 1 \in 0..(B - 1)
  BY <1>1, <1>2, <1>5
<1> QED BY <1>6 DEF Window, x, L, B

LEMMA LinesAreApart ==
  ASSUME NEW L \in Nat, NEW n \in Nat, NEW j \in Nat, n # j, NEW k \in 1..L, NEW i \in 1..L
  PROVE  (n - 1) * L + k # (j - 1) * L + i
<1>1. ASSUME NEW a \in Nat, NEW b \in Nat, a < b PROVE (a - 1) * L + L <= (b - 1) * L
  <2>1. a * L <= (b - 1) * L
    BY <1>1, ProductGrows
  <2>2. (a - 1) * L + L = a * L
    BY <1>1
  <2> QED BY <2>1, <2>2
<1> DEFINE x == (n - 1) * L
           y == (j - 1) * L
<1>2. x \in Int /\ y \in Int
  OBVIOUS
<1>3. x + L <= y \/ y + L <= x
  BY <1>1
<1> HIDE DEF x, y
<1>4. x + k # y + i
  BY <1>2, <1>3
<1> QED BY <1>4 DEF x, y

LEMMA DrawLineType ==
  ASSUME NEW f, IsFont(f), NEW t, IsText(t), NEW n \in 1..NumLines(f), NEW ln, IsLine(f, t, n, ln),
         NEW m \in Mems(f, t)
  PROVE  DrawLine(m, ln) \in Mems(f, t) /\ IsDrawn(DrawLine(m, ln), ln)
<1> DEFINE L == LineBytes(f, t)
           here == ln.at..(ln.at + L - 1)
           d == DrawLine(m, ln)
<1>1. ln.at = (n - 1) * L /\ ln.bytes \in Seq(Cells(f)) /\ Len(ln.bytes) = L /\ L \in Nat
  BY LinesFillWindow DEF IsLine, HasBytesOf
<1>2. PICK D \in SUBSET Window(f, t) : m \in [D -> Cells(f)]
  BY MemsAre
<1>3. d = [b \in D \cup here |-> IF b \in here THEN ln.bytes[b - ln.at + 1] ELSE m[b]]
  BY <1>1, <1>2 DEF DrawLine
<1>4. ln.at \in Nat
  BY <1>1, NumLinesType, ProductIsNat
<1>5. \A k \in 1..L : ln.at + k - 1 \in Window(f, t)
  BY <1>1, LineInWindow
<1> HIDE DEF L, d
<1>6. \A b \in here : b - ln.at + 1 \in 1..L /\ ln.at + (b - ln.at + 1) - 1 = b
  BY <1>1, <1>4
<1>7. here \subseteq Window(f, t)
  BY <1>5, <1>6
<1>8. \A b \in here : ln.bytes[b - ln.at + 1] \in Cells(f)
  BY <1>1, <1>6, ElementOfSeq
<1>9. \A k \in 1..L : ln.at + k - 1 \in here /\ (ln.at + k - 1) - ln.at + 1 = k
  BY <1>1, <1>4
<1> HIDE DEF here
<1>10. d \in [D \cup here -> Cells(f)]
  BY <1>2, <1>3, <1>8
<1>11. D \cup here \in SUBSET Window(f, t)
  BY <1>7
<1>12. d \in Mems(f, t)
  BY <1>10, <1>11, MemsAre
<1>13. ASSUME NEW k \in 1..L PROVE ln.at + k - 1 \in DOMAIN d /\ d[ln.at + k - 1] = ln.bytes[k]
  <2>1. ln.at + k - 1 \in here
    BY <1>9
  <2>2. d[ln.at + k - 1] = ln.bytes[(ln.at + k - 1) - ln.at + 1]
    BY <1>3, <2>1
  <2> QED BY <1>3, <1>9, <2>1, <2>2
<1> QED BY <1>1, <1>12, <1>13 DEF IsDrawn, d

(* Drawing a line leaves the others alone.                                 *)
LEMMA DrawLineKeeps ==
  ASSUME NEW f, IsFont(f), NEW t, IsText(t), NEW m,
         NEW n \in 1..NumLines(f), NEW ln, IsLine(f, t, n, ln),
         NEW j \in 1..NumLines(f), NEW lj, IsLine(f, t, j, lj), j # n, IsDrawn(m, lj)
  PROVE  IsDrawn(DrawLine(m, ln), lj)
<1> DEFINE L == LineBytes(f, t)
           here == ln.at..(ln.at + L - 1)
           d == DrawLine(m, ln)
<1>1. /\ ln.at = (n - 1) * L /\ Len(ln.bytes) = L /\ L \in Nat
      /\ lj.at = (j - 1) * L /\ Len(lj.bytes) = L
  BY LinesFillWindow DEF IsLine, HasBytesOf
<1>2. d = [b \in DOMAIN m \cup here |-> IF b \in here THEN ln.bytes[b - ln.at + 1] ELSE m[b]]
  BY <1>1 DEF DrawLine
<1>3. n \in Nat /\ j \in Nat /\ n - 1 \in Nat /\ j - 1 \in Nat
  BY NumLinesType
<1>4. ln.at \in Nat /\ lj.at \in Nat
  BY <1>1, <1>3, ProductIsNat
<1>5. \A k, i \in 1..L : ln.at + k # lj.at + i
  BY <1>1, <1>3, LinesAreApart
<1> HIDE DEF L, d
<1>6. ASSUME NEW i \in 1..L PROVE lj.at + i - 1 \in DOMAIN d /\ d[lj.at + i - 1] = lj.bytes[i]
  <2> DEFINE b == lj.at + i - 1
  <2>1. b \in DOMAIN m /\ m[b] = lj.bytes[i]
    BY <1>1 DEF IsDrawn
  <2>2. b \notin here
    <3> SUFFICES ASSUME b \in here PROVE FALSE
      OBVIOUS
    <3>1. b - ln.at + 1 \in 1..L /\ ln.at + (b - ln.at + 1) = lj.at + i
      BY <1>1, <1>4
    <3> QED BY <1>5, <3>1
  <2> HIDE DEF b, here
  <2>3. b \in DOMAIN d /\ d[b] = m[b]
    BY <1>2, <2>1, <2>2
  <2> QED BY <2>1, <2>3 DEF b
<1> QED BY <1>1, <1>6 DEF IsDrawn, d

(* The memory after each line of a drawing.                                *)
DrawnTo(m, lines) == CHOOSE g : g = [n \in 0..Len(lines) |->
    IF n = 0 THEN m ELSE DrawLine(g[n - 1], lines[n])]

AreLines(f, t, lines) ==
    /\ Len(lines) \in Nat /\ Len(lines) <= NumLines(f)
    /\ \A n \in 1..Len(lines) : IsLine(f, t, n, lines[n])

LEMMA DrawnToRule ==
  ASSUME NEW f, IsFont(f), NEW t, IsText(t), NEW lines, AreLines(f, t, lines), NEW m \in Mems(f, t)
  PROVE  /\ Draw(m, lines) = DrawnTo(m, lines)[Len(lines)]
         /\ DrawnTo(m, lines)[0] = m
         /\ \A n \in 1..Len(lines) : DrawnTo(m, lines)[n] = DrawLine(DrawnTo(m, lines)[n - 1], lines[n])
<1> DEFINE N == Len(lines)
           S == Mems(f, t)
           rule == [p \in Nat \X S |-> IF p[1] \in 1..N THEN DrawLine(p[2], lines[p[1]]) ELSE m]
           Rule(g) == [n \in 0..N |-> IF n = 0 THEN m ELSE DrawLine(g[n - 1], lines[n])]
<1>1. N \in Nat /\ 0 <= N /\ 0 \in Nat /\ N <= NumLines(f) /\ NumLines(f) \in Nat
  BY NumLinesType DEF AreLines
<1>2. ASSUME NEW n \in 1..N, NEW d \in S PROVE DrawLine(d, lines[n]) \in S
  <2>1. n \in 1..NumLines(f) /\ IsLine(f, t, n, lines[n])
    BY <1>1 DEF AreLines
  <2> QED BY <2>1, DrawLineType
<1>3. m \in S
  OBVIOUS
<1>4. Draw(m, lines) = DrawnTo(m, lines)[N] /\ DrawnTo(m, lines) = CHOOSE g : g = Rule(g)
  BY DEF Draw, DrawnTo
<1> HIDE DEF N, S
<1>5. rule \in [Nat \X S -> S]
  <2>1. ASSUME NEW p \in Nat \X S
        PROVE  (IF p[1] \in 1..N THEN DrawLine(p[2], lines[p[1]]) ELSE m) \in S
    <3>1. p[2] \in S
      OBVIOUS
    <3> QED BY <1>2, <1>3, <3>1
  <2> QED BY <2>1
<1>6. PICK g \in [0..N -> S] : Follows(g, 0, N, m, rule)
  <2> HIDE DEF rule
  <2> QED BY <1>1, <1>3, <1>5, Recursion
<1>7. ASSUME NEW n \in 1..N PROVE g[n] = DrawLine(g[n - 1], lines[n])
  <2>1. n \in (0 + 1)..N /\ n - 1 \in 0..N /\ n \in Nat
    BY <1>1
  <2>2. g[n] = rule[<<n, g[n - 1]>>]
    <3> HIDE DEF rule
    <3> QED BY <1>6, <2>1 DEF Follows
  <2>3. <<n, g[n - 1]>> \in Nat \X S
    BY <2>1
  <2> QED BY <2>2, <2>3
<1>8. g[0] = m
  BY <1>6 DEF Follows
<1>9. ASSUME NEW n \in 0..N PROVE g[n] = IF n = 0 THEN m ELSE DrawLine(g[n - 1], lines[n])
  <2>1. n = 0 \/ n \in 1..N
    BY <1>1
  <2> QED BY <1>7, <1>8, <2>1
<1>10. g = Rule(g)
  BY <1>9
<1>11. DrawnTo(m, lines) = Rule(DrawnTo(m, lines))
  BY <1>4, <1>10
<1> DEFINE to == DrawnTo(m, lines)
<1> HIDE DEF to
<1>12. to = Rule(to)
  BY <1>11 DEF to
<1>13. to[0] = m /\ \A n \in 1..N : to[n] = DrawLine(to[n - 1], lines[n])
  <2>1. 0 \in 0..N /\ \A n \in 1..N : n \in 0..N /\ n # 0
    BY <1>1
  <2> QED BY <1>12, <2>1
<1> QED BY <1>4, <1>13 DEF to, N

(* A whole drawing draws all its lines and nothing outside the window.     *)
LEMMA DrawType ==
  ASSUME NEW f, IsFont(f), NEW t, IsText(t), NEW lines, AreLines(f, t, lines), NEW m \in Mems(f, t)
  PROVE  /\ Draw(m, lines) \in Mems(f, t)
         /\ \A n \in 1..Len(lines) : IsDrawn(Draw(m, lines), lines[n])
<1> DEFINE N == Len(lines)
           to == DrawnTo(m, lines)
           Good(n) == to[n] \in Mems(f, t) /\ \A j \in 1..n : IsDrawn(to[n], lines[j])
           T == {n \in 0..N : ~Good(n)}
<1>1. N \in Nat /\ N \in 0..N /\ N <= NumLines(f) /\ NumLines(f) \in Nat /\ T \in SUBSET Nat
  BY NumLinesType DEF AreLines
<1>2. \A n \in 1..N : n \in 1..NumLines(f) /\ IsLine(f, t, n, lines[n])
  BY <1>1 DEF AreLines
<1>3. /\ Draw(m, lines) = to[N] /\ to[0] = m
      /\ \A n \in 1..N : to[n] = DrawLine(to[n - 1], lines[n])
  BY DrawnToRule
<1> HIDE DEF to, N
<1>4. Good(0)
  BY <1>3
<1>5. ASSUME NEW n \in 1..N, Good(n - 1) PROVE Good(n)
  <2>1. to[n - 1] \in Mems(f, t) /\ \A j \in 1..(n - 1) : IsDrawn(to[n - 1], lines[j])
    BY <1>5
  <2>2. to[n] = DrawLine(to[n - 1], lines[n])
    BY <1>3
  <2>3. to[n] \in Mems(f, t) /\ IsDrawn(to[n], lines[n])
    BY <1>2, <2>1, <2>2, DrawLineType
  <2>4. ASSUME NEW j \in 1..n PROVE IsDrawn(to[n], lines[j])
    <3>1. CASE j = n
      BY <2>3, <3>1
    <3>2. CASE j # n
      <4>1. j \in 1..(n - 1) /\ j \in 1..N
        BY <1>1, <3>2
      <4>2. IsDrawn(to[n - 1], lines[j])
        BY <2>1, <4>1
      <4> QED BY <1>2, <2>2, <3>2, <4>1, <4>2, DrawLineKeeps
    <3> QED BY <3>1, <3>2
  <2> QED BY <2>3, <2>4
<1> HIDE DEF Good
<1>6. ASSUME T # {} PROVE FALSE
  <2>1. PICK n \in T : \A j \in T : n <= j
    BY <1>1, <1>6, LeastElement
  <2>2. n \in 0..N /\ ~Good(n) /\ n # 0
    BY <1>4
  <2>3. n \in 1..N /\ n - 1 \in 0..N /\ ~(n <= n - 1)
    BY <1>1, <2>2
  <2>4. Good(n - 1)
    BY <2>1, <2>3
  <2> QED BY <1>5, <2>2, <2>3, <2>4
<1>7. Good(N)
  BY <1>1, <1>6
<1> QED BY <1>3, <1>7 DEF Good, N

-----------------------------------------------------------------------------
(* A memory in which all lines are drawn shows the text.                   *)

AllDrawn(f, t, m) == \A n \in 1..NumLines(f) : IsDrawn(m, Lines(f, t)[n])

LEMMA ByteOfPixel ==
  ASSUME NEW f, IsFont(f), NEW t, IsText(t), NEW x \in 0..(LineOffset(f, t) - 1),
         NEW byte \in 0..(ScaleX(f) - 1)
  PROVE  /\ x * ScaleX(f) + byte + 1 \in 1..LineBytes(f, t)
         /\ x >= PixPerLine(f, t) => x * ScaleX(f) + byte + 1 > PixPerLine(f, t) * ScaleX(f)
<1> DEFINE w == LineOffset(f, t)
           p == PixPerLine(f, t)
<1>1. w \in Nat /\ p \in Nat
  BY LineOffsetFits
<1>2. x \in 0..(w - 1)
  OBVIOUS
<1> HIDE DEF w, p
<1>3. CASE ScaleX(f) = 1
  <2>1. x * 1 + byte + 1 \in 1..(w * 1) /\ (x >= p => x * 1 + byte + 1 > p * 1)
    BY <1>1, <1>2, <1>3
  <2> QED BY <1>3, <2>1 DEF LineBytes, w, p
<1>4. CASE ScaleX(f) = 2
  <2>1. x * 2 + byte + 1 \in 1..(w * 2) /\ (x >= p => x * 2 + byte + 1 > p * 2)
    BY <1>1, <1>2, <1>4
  <2> QED BY <1>4, <2>1 DEF LineBytes, w, p
<1> QED BY <1>3, <1>4, ScaleFacts

(* The cell at pixel x of line n of the window.                            *)
CellAt(f, t, m, n, x, byte) == m[((n - 1) * LineOffset(f, t) + x) * ScaleX(f) + byte]

LEMMA CellAtIsDrawn ==
  ASSUME NEW f, IsFont(f), NEW t, IsText(t), IsPadded(f, t), NEW m, AllDrawn(f, t, m),
         NEW n \in 1..NumLines(f), NEW x \in 0..(LineOffset(f, t) - 1), NEW byte \in 0..(ScaleX(f) - 1)
  PROVE  CellAt(f, t, m, n, x, byte) = Lines(f, t)[n].bytes[x * ScaleX(f) + byte + 1]
<1> DEFINE ln == Lines(f, t)[n]
           k == x * ScaleX(f) + byte + 1
           w == LineOffset(f, t)
           s == ScaleX(f)
<1>1. ln.at = (n - 1) * (w * s) /\ Len(ln.bytes) = LineBytes(f, t)
  BY LinesType DEF IsLine, HasBytesOf, LineBytes
<1>2. k \in 1..Len(ln.bytes)
  BY <1>1, ByteOfPixel
<1>3. m[ln.at + k - 1] = ln.bytes[k]
  BY <1>2 DEF AllDrawn, IsDrawn
<1>4. w \in Nat /\ s \in Nat /\ n - 1 \in Nat /\ x \in Nat /\ byte \in Nat
  BY LineOffsetFits, ScaleFacts, NumLinesType
<1>5. ln.at + k - 1 = ((n - 1) * w + x) * s + byte
  <2> HIDE DEF w, s, ln
  <2>1. PICK a \in Nat : a = n - 1
    BY <1>4
  <2>2. (a * w + x) * s = a * (w * s) + x * s /\ a * (w * s) \in Nat /\ x * s \in Nat
    <3>1. a * w \in Nat
      BY <1>4, <2>1, ProductIsNat
    <3>2. (a * w + x) * s = (a * w) * s + x * s
      BY <1>4, <3>1
    <3>3. (a * w) * s = a * (w * s)
      BY <1>4, <2>1
    <3> QED BY <1>4, <2>1, <3>2, <3>3, ProductIsNat
  <2>3. ln.at = a * (w * s) /\ k = x * s + byte + 1
    BY <1>1, <2>1 DEF s
  <2> DEFINE A == a * (w * s)
             X == x * s
  <2> HIDE DEF A, X, k
  <2>4. A + (X + byte + 1) - 1 = A + X + byte
    BY <1>4, <2>2 DEF A, X
  <2> QED BY <2>1, <2>2, <2>3, <2>4 DEF A, X
<1> QED BY <1>3, <1>5 DEF CellAt

(* A byte that is copied from column of character i shows that column.     *)
LEMMA ByteShowsColumn ==
  ASSUME NEW f, IsFont(f), NEW t, IsText(t), NEW plane, NEW row, IsRow(f, plane, row),
         NEW i \in 1..Len(t), NEW column \in 0..(Widths(f, t)[i] - 1), NEW byte \in 0..(ScaleX(f) - 1)
  PROVE  ShowsColumn(f, plane, ByteOf(f, plane, row, StartOf(f, t, i), column * ScaleX(f) + byte + 1),
                     row, Drawn(f, t[i]), column, byte)
<1> DEFINE cell == ByteOf(f, plane, row, StartOf(f, t, i), column * ScaleX(f) + byte + 1)
           a == StartOf(f, t, i)
           W == f.fontWidthPerLine
           s == ScaleX(f)
           w == Widths(f, t)[i]
           g == GetIndex(f, t)[i] + 1
<1>1. a \in Nat /\ a + w <= W /\ a = Sums(f.widthList)[g - 1] /\ w = f.widthList[g] /\ w \in Nat
  <2>1. g - 1 = GetIndex(f, t)[i]
    BY IndexIsDrawn
  <2> QED BY <2>1, StartInFont, WidthOfDrawn
<1>2. W \in Nat /\ s \in Nat /\ row \in Nat /\ column \in Nat /\ byte \in Nat /\ byte < s /\ column < w
  <2>1. W \in Nat /\ row \in Nat
    BY FontFacts DEF IsRow
  <2>2. s \in {1, 2}
    BY ScaleFacts
  <2>3. byte \in 0..(s - 1) /\ column \in 0..(w - 1) /\ w \in Nat
    BY <1>1
  <2> HIDE DEF W, s, w
  <2> QED BY <2>1, <2>2, <2>3
<1>3. g \in Listed(f) /\ f.charList[g] = Drawn(f, t[i]) /\ DOMAIN f.charList = Listed(f)
  BY IndexIsDrawn, FontFacts
<1>4. cell[1] = plane /\ cell[2] = a * s + row * W * s + (column * s + byte + 1) - 1
  BY DEF ByteOf
<1> HIDE DEF cell, a, W, s, w, g
<1>5. cell[2] = (row * W + (a + column)) * s + byte
  <2>1. row * W \in Nat
    BY <1>2, ProductIsNat
  <2>2. PICK r \in Nat : r = row * W
    BY <2>1
  <2>3. (r + (a + column)) * s = r * s + a * s + column * s
    <3>1. a \in Nat /\ column \in Nat /\ s \in Nat
      BY <1>1, <1>2
    <3> QED BY <3>1, ThreeTimes
  <2>4. r * s \in Nat /\ a * s \in Nat /\ column * s \in Nat
    BY <1>1, <1>2, ProductIsNat
  <2> DEFINE x == r * s
             y == a * s
             z == column * s
  <2> HIDE DEF x, y, z
  <2>5. y + x + (z + byte + 1) - 1 = x + y + z + byte
    BY <1>2, <2>4 DEF x, y, z
  <2> QED BY <1>4, <2>2, <2>3, <2>5 DEF x, y, z
<1>6. a + column \in Nat /\ a + column < W
  BY <1>1, <1>2, InsidePart
<1>7. row * W + (a + column) \in Nat
  BY <1>2, <1>6, ProductIsNat
<1>8. cell[2] \div s = row * W + (a + column) /\ cell[2] % s = byte
  <2>1. PICK q \in Nat : q = row * W + (a + column)
    BY <1>7
  <2>2. (q * s + byte) \div s = q /\ (q * s + byte) % s = byte
    BY <1>2, PartAndPlace
  <2> QED BY <1>5, <2>1, <2>2
<1>9. (row * W + (a + column)) \div W = row /\ (row * W + (a + column)) % W = a + column
  BY <1>2, <1>6, PartAndPlace
<1>10. IsColumn(f, a + column, Drawn(f, t[i]), column)
  BY <1>1, <1>2, <1>3 DEF IsColumn
<1> QED BY <1>4, <1>8, <1>9, <1>10 DEF ShowsColumn, cell, a, W, s

(* The pixels of line n of the window.                                     *)
LEMMA ColumnInLine ==
  ASSUME NEW f, IsFont(f), NEW t, IsText(t), NEW i \in 1..Len(t),
         NEW column \in 0..(Widths(f, t)[i] - 1)
  PROVE  Sums(Widths(f, t))[i - 1] \in Nat /\ Sums(Widths(f, t))[i - 1] + column \in 0..(LineOffset(f, t) - 1)
<1> DEFINE sum == Sums(Widths(f, t))
           w == Widths(f, t)[i]
           L == LineOffset(f, t)
           p == PixPerLine(f, t)
<1>1. sum \in [0..Len(t) -> Nat] /\ sum[i] = sum[i - 1] + w
  BY WidthsType, SumsRule
<1>2. Len(t) \in Nat /\ i - 1 \in 0..Len(t) /\ i \in 0..Len(t) /\ Len(t) \in 0..Len(t)
  BY DEF IsText
<1>3. sum[i] <= p
  BY <1>2, WidthsType, SumsGrow DEF PixPerLine
<1>4. w \in Nat /\ p \in Nat /\ L \in Nat /\ p <= L
  BY WidthOfDrawn, LineOffsetFits
<1>5. column \in 0..(w - 1)
  OBVIOUS
<1>6. sum[i - 1] \in Nat
  BY <1>1, <1>2
<1> HIDE DEF sum, w, L, p
<1>7. sum[i - 1] + column \in 0..(L - 1)
  BY <1>1, <1>3, <1>4, <1>5, <1>6
<1> QED BY <1>6, <1>7 DEF sum, L

LEMMA ByteOfColumn ==
  ASSUME NEW a \in Nat, NEW w \in Nat, NEW column \in 0..(w - 1), NEW s \in {1, 2}, NEW byte \in 0..(s - 1)
  PROVE  /\ column * s + byte + 1 \in 1..(w * s)
         /\ (a + column) * s + byte + 1 = a * s + (column * s + byte + 1)
<1>1. CASE s = 1
  BY <1>1
<1>2. CASE s = 2
  BY <1>2
<1> QED BY <1>1, <1>2

LEMMA LineIsShown ==
  ASSUME NEW f, IsFont(f), NEW t, IsText(t), IsPadded(f, t), NEW m, AllDrawn(f, t, m),
         NEW n \in 1..NumLines(f), NEW byte \in 0..(ScaleX(f) - 1)
  PROVE  /\ \A i \in 1..Len(t) : \A column \in 0..(Widths(f, t)[i] - 1) :
               ShowsColumn(f, PlaneOf(f, n), CellAt(f, t, m, n, Sums(Widths(f, t))[i - 1] + column, byte),
                           RowOf(f, n), Drawn(f, t[i]), column, byte)
         /\ \A x \in PixPerLine(f, t)..(LineOffset(f, t) - 1) : CellAt(f, t, m, n, x, byte)[1] = "pad"
<1> DEFINE bytes == Lines(f, t)[n].bytes
           sum == Sums(Widths(f, t))
           s == ScaleX(f)
           L == LineOffset(f, t)
           p == PixPerLine(f, t)
<1>1. CopiesCharacters(f, t, PlaneOf(f, n), RowOf(f, n), bytes) /\ PadsRest(f, t, bytes)
  BY LinesType DEF IsLine, HasBytesOf
<1>2. s \in {1, 2} /\ L \in Nat /\ p \in Nat
  BY ScaleFacts, LineOffsetFits
<1>3. ASSUME NEW i \in 1..Len(t), NEW column \in 0..(Widths(f, t)[i] - 1)
      PROVE  ShowsColumn(f, PlaneOf(f, n), CellAt(f, t, m, n, sum[i - 1] + column, byte),
                         RowOf(f, n), Drawn(f, t[i]), column, byte)
  <2> DEFINE x == sum[i - 1] + column
             k == column * s + byte + 1
             w == Widths(f, t)[i]
  <2>1. sum[i - 1] \in Nat /\ x \in 0..(L - 1) /\ w \in Nat
    BY ColumnInLine, WidthOfDrawn
  <2>2. k \in 1..(w * s) /\ x * s + byte + 1 = sum[i - 1] * s + k
    <3> HIDE DEF sum, s, w
    <3>1. column \in 0..(w - 1) /\ byte \in 0..(s - 1)
      BY DEF w, s
    <3>2. PICK a \in Nat : a = sum[i - 1]
      BY <2>1
    <3>3. k \in 1..(w * s) /\ (a + column) * s + byte + 1 = a * s + k
      BY <1>2, <2>1, <3>1, ByteOfColumn
    <3> QED BY <3>2, <3>3
  <2>3. CellAt(f, t, m, n, x, byte) = bytes[x * s + byte + 1]
    BY <2>1, CellAtIsDrawn
  <2>4. bytes[sum[i - 1] * s + k] = ByteOf(f, PlaneOf(f, n), RowOf(f, n), StartOf(f, t, i), k)
    BY <1>1, <2>2 DEF CopiesCharacters
  <2>5. CellAt(f, t, m, n, x, byte) = ByteOf(f, PlaneOf(f, n), RowOf(f, n), StartOf(f, t, i), k)
    BY <2>2, <2>3, <2>4
  <2>6. IsRow(f, PlaneOf(f, n), RowOf(f, n))
    BY RowOfLine
  <2> QED BY <2>5, <2>6, ByteShowsColumn
<1>4. ASSUME NEW x \in p..(L - 1) PROVE CellAt(f, t, m, n, x, byte)[1] = "pad"
  <2>1. x \in 0..(L - 1) /\ x >= p
    <3> HIDE DEF L, p
    <3> QED BY <1>2
  <2>2. x * s + byte + 1 \in 1..LineBytes(f, t) /\ x * s + byte + 1 > p * s
    BY <2>1, ByteOfPixel
  <2>3. bytes[x * s + byte + 1][1] = "pad"
    BY <1>1, <2>2 DEF PadsRest
  <2> QED BY <2>1, <2>3, CellAtIsDrawn
<1> QED BY <1>3, <1>4

(* The whole window is written when all lines are.                         *)
LEMMA WindowIsWritten ==
  ASSUME NEW f, IsFont(f), NEW t, IsText(t), IsPadded(f, t), NEW m, AllDrawn(f, t, m)
  PROVE  Window(f, t) \subseteq DOMAIN m
<1> DEFINE L == LineBytes(f, t)
           N == NumLines(f)
           B == WindowBytes(f, t)
<1>1. L \in Nat /\ N \in Nat /\ N * L = B
  BY LinesFillWindow, NumLinesType
<1> SUFFICES ASSUME NEW b \in Window(f, t) PROVE b \in DOMAIN m
  OBVIOUS
<1>2. b \in 0..(B - 1)
  BY DEF Window
<1>3. ASSUME NEW n \in 1..N, NEW k \in 1..L PROVE (n - 1) * L + k - 1 \in DOMAIN m
  <2>1. Lines(f, t)[n].at = (n - 1) * L /\ Len(Lines(f, t)[n].bytes) = L
    BY LinesType DEF IsLine, HasBytesOf
  <2> HIDE DEF L, N
  <2> QED BY <2>1 DEF AllDrawn, IsDrawn, N
<1> HIDE DEF L, N, B
<1>4. b \in Nat /\ b < N * L /\ N * L \in Nat
  BY <1>1, <1>2, ProductIsNat
<1>5. L > 0
  <2>1. L = 0 => N * L = 0
    BY <1>1
  <2> QED BY <1>1, <1>4, <2>1
<1> DEFINE q == b \div L
           r == b % L
<1>6. q \in Nat /\ r \in 0..(L - 1) /\ b = q * L + r
  BY <1>1, <1>4, <1>5
<1> HIDE DEF q, r
<1>7. q < N
  <2>1. N <= q => N * L <= q * L
    BY <1>1, <1>6, ProductGrows
  <2>2. q * L \in Nat
    BY <1>1, <1>6, ProductIsNat
  <2> QED BY <1>1, <1>4, <1>6, <2>1, <2>2
<1>8. q + 1 \in 1..N /\ r + 1 \in 1..L
  BY <1>1, <1>6, <1>7
<1>9. ((q + 1) - 1) * L + (r + 1) - 1 = b
  <2>1. (q + 1) - 1 = q
    BY <1>6
  <2>2. q * L \in Nat
    BY <1>1, <1>6, ProductIsNat
  <2> QED BY <1>1, <1>6, <2>1, <2>2
<1> QED BY <1>3, <1>8, <1>9

LEMMA ShowsWhenDrawn ==
  ASSUME NEW f, IsFont(f), NEW t, IsText(t), IsPadded(f, t), NEW m, AllDrawn(f, t, m)
  PROVE  Shows(f, t, m)
<1> DEFINE chars == [i \in DOMAIN t |-> Drawn(f, t[i])]
           widths == [i \in DOMAIN t |-> WidthOf(f, chars[i])]
           start == Sums(widths)
           s == ScaleX(f)
           L == LineOffset(f, t)
           h == f.height
           Pixel(plane, y, i, column, byte, cell) == ShowsColumn(f, plane, cell, y, chars[i], column, byte)
           Plane(plane, from, rows) ==
             \A y \in 0..(rows - 1), byte \in 0..(s - 1) :
               /\ \A i \in DOMAIN t : \A column \in 0..(widths[i] - 1) :
                     Pixel(plane, y, i, column, byte, m[from + (y * L + (start[i - 1] + column)) * s + byte])
               /\ \A x \in start[Len(t)]..(L - 1) : m[from + (y * L + x) * s + byte][1] = "pad"
<1>1. widths = Widths(f, t)
  <2>1. widths = [i \in DOMAIN t |-> WidthOf(f, Drawn(f, t[i]))]
    OBVIOUS
  <2> QED BY <2>1, WidthsAreShown
<1>2. start = Sums(Widths(f, t)) /\ start[Len(t)] = PixPerLine(f, t)
  BY <1>1 DEF PixPerLine
<1>3. \A i \in 1..Len(t) : chars[i] = Drawn(f, t[i])
  BY DEF IsText
<1>4. DOMAIN t = 1..Len(t) /\ h \in Nat /\ h > 0 /\ h \div 2 \in Nat /\ L \in Nat /\ s \in Nat
  BY FontFacts, LineOffsetFits, ScaleFacts DEF IsText
<1>5. Shows(f, t, m) = (/\ 0..(WindowBytes(f, t) - 1) \subseteq DOMAIN m
                        /\ Plane("Y", 0, h)
                        /\ f.format = "YUV420SP_UV" => Plane("UV", L * h, h \div 2))
  BY DEF Shows
<1> HIDE DEF chars, widths, start, s, L, h
<1>6. ASSUME NEW plane, NEW from, NEW rows \in Nat, NEW first \in Nat,
             first + rows <= NumLines(f),
             \A y \in 0..(rows - 1) : PlaneOf(f, first + y + 1) = plane /\ RowOf(f, first + y + 1) = y,
             \A y \in 0..(rows - 1), x \in Nat, byte \in 0..(s - 1) :
                from + (y * L + x) * s + byte = ((first + y) * L + x) * s + byte
      PROVE  Plane(plane, from, rows)
  <2> SUFFICES ASSUME NEW y \in 0..(rows - 1), NEW byte \in 0..(s - 1)
               PROVE  /\ \A i \in DOMAIN t : \A column \in 0..(widths[i] - 1) :
                            Pixel(plane, y, i, column, byte, m[from + (y * L + (start[i - 1] + column)) * s + byte])
                      /\ \A x \in start[Len(t)]..(L - 1) : m[from + (y * L + x) * s + byte][1] = "pad"
    OBVIOUS
  <2> DEFINE n == first + y + 1
  <2>1. n \in 1..NumLines(f) /\ n - 1 = first + y
    BY <1>6, NumLinesType
  <2>2. PlaneOf(f, n) = plane /\ RowOf(f, n) = y
    BY <1>6
  <2> HIDE DEF n
  <2>3. ASSUME NEW x \in Nat PROVE m[from + (y * L + x) * s + byte] = CellAt(f, t, m, n, x, byte)
    BY <1>6, <2>1 DEF CellAt, L, s
  <2>4. byte \in 0..(ScaleX(f) - 1)
    BY DEF s
  <2>5. ASSUME NEW i \in 1..Len(t), NEW column \in 0..(widths[i] - 1)
        PROVE  Pixel(plane, y, i, column, byte, m[from + (y * L + (start[i - 1] + column)) * s + byte])
    <3>1. column \in 0..(Widths(f, t)[i] - 1)
      BY <1>1
    <3>2. start[i - 1] + column \in Nat
      <4>1. start[i - 1] + column \in 0..(L - 1)
        BY <1>2, <3>1, ColumnInLine DEF L
      <4> QED BY <1>4, <4>1
    <3>3. ShowsColumn(f, plane, CellAt(f, t, m, n, start[i - 1] + column, byte), y, Drawn(f, t[i]), column, byte)
      BY <1>2, <2>1, <2>2, <2>4, <3>1, LineIsShown
    <3> QED BY <1>3, <2>3, <3>2, <3>3
  <2>6. ASSUME NEW x \in start[Len(t)]..(L - 1) PROVE m[from + (y * L + x) * s + byte][1] = "pad"
    <3>1. x \in PixPerLine(f, t)..(LineOffset(f, t) - 1)
      BY <1>2 DEF L
    <3>2. x \in Nat
      BY <3>1, LineOffsetFits
    <3>3. CellAt(f, t, m, n, x, byte)[1] = "pad"
      BY <2>1, <2>4, <3>1, LineIsShown
    <3> QED BY <2>3, <3>2, <3>3
  <2> QED BY <1>4, <2>5, <2>6
<1> HIDE DEF Plane, Pixel
<1>7. Plane("Y", 0, h)
  <2>1. 0 + h <= NumLines(f) /\ 0 \in Nat
    BY <1>4 DEF NumLines, h
  <2>2. \A y \in 0..(h - 1) : PlaneOf(f, 0 + y + 1) = "Y" /\ RowOf(f, 0 + y + 1) = y
    BY <1>4 DEF PlaneOf, RowOf, h
  <2>3. \A y \in 0..(h - 1), x \in Nat, byte \in 0..(s - 1) :
           0 + (y * L + x) * s + byte = ((0 + y) * L + x) * s + byte
    BY <1>4, ProductIsNat
  <2> QED BY <1>4, <1>6, <2>1, <2>2, <2>3
<1>8. ASSUME f.format = "YUV420SP_UV" PROVE Plane("UV", L * h, h \div 2)
  <2>1. h + h \div 2 <= NumLines(f) /\ s = 1
    BY <1>4, <1>8, ScaleFacts DEF NumLines, h, s
  <2>2. \A y \in 0..((h \div 2) - 1) : PlaneOf(f, h + y + 1) = "UV" /\ RowOf(f, h + y + 1) = y
    BY <1>4 DEF PlaneOf, RowOf, h
  <2>3. ASSUME NEW y \in 0..((h \div 2) - 1), NEW x \in Nat, NEW byte \in 0..(s - 1)
        PROVE  L * h + (y * L + x) * s + byte = ((h + y) * L + x) * s + byte
    <3>1. y \in Nat /\ byte = 0
      BY <1>4, <2>1
    <3>2. (h + y) * L = L * h + y * L
      BY <1>4, <3>1
    <3>3. L * h \in Nat /\ y * L \in Nat
      BY <1>4, <3>1, ProductIsNat
    <3> DEFINE a == L * h
               c == y * L
    <3> HIDE DEF a, c
    <3>4. a + (c + x) * 1 + 0 = (a + c + x) * 1 + 0
      BY <3>3 DEF a, c
    <3> QED BY <2>1, <3>1, <3>2, <3>4 DEF a, c
  <2> QED BY <1>4, <1>6, <2>1, <2>2, <2>3
<1>9. 0..(WindowBytes(f, t) - 1) \subseteq DOMAIN m
  BY WindowIsWritten DEF Window
<1> QED BY <1>5, <1>7, <1>8, <1>9

-----------------------------------------------------------------------------
(* The inductive invariant: what lies in the two buffers, also half drawn, *)
(* and which lines of the title are drawn for good.                        *)

TitleLineIsDrawn(n) ==
    \/ chId > 0
    \/ pc \in {"drawTime", "setTimer"}
    \/ pc = "drawText" /\ n < line

IInv ==
    /\ TypeOK
    /\ pc \notin {"drawText", "drawTime"} => line = 1
    /\ pc # "added" => chId < ch_num
    /\ osdText \in Mems(font, Title) /\ osdTime \in Mems(font, Midnight)
    /\ \A n \in 1..NumLines(font) :
          TitleLineIsDrawn(n) => IsDrawn(osdText, Lines(font, Title)[n])

LEMMA SomeChannels == ch_num \in Nat /\ ch_num > 0
<1>1. ch_num \in Nat \ {0}
  BY OsdAssumption
<1> QED BY <1>1

LEMMA TextsAreTexts ==
  ASSUME NEW t \in Texts, NEW f \in Fonts
  PROVE  IsText(t) /\ IsFont(f) /\ IsPadded(f, t)
<1>1. Len(t) \in 0..256
  BY OsdAssumption
<1>2. Len(t) \in Nat
  BY <1>1
<1>3. DOMAIN t = 1..Len(t) /\ IsFont(f)
  BY OsdAssumption
<1>4. IsPadded(f, t)
  BY PaddingAssumption DEF IsPadded
<1> QED BY <1>2, <1>3, <1>4 DEF IsText

LEMMA TextsHaveLines ==
  ASSUME NEW t \in Texts, NEW f \in Fonts
  PROVE  /\ NumLines(f) \in Nat \ {0} /\ Len(Lines(f, t)) = NumLines(f)
         /\ \A n \in 1..NumLines(f) : IsLine(f, t, n, Lines(f, t)[n])
         /\ AreLines(f, t, Lines(f, t))
<1>1. NumLines(f) \in Nat \ {0}
  BY TextsAreTexts, NumLinesType
<1>2. /\ Len(Lines(f, t)) = NumLines(f)
      /\ \A n \in 1..NumLines(f) : IsLine(f, t, n, Lines(f, t)[n])
  BY TextsAreTexts, LinesType
<1>3. AreLines(f, t, Lines(f, t))
  BY <1>1, <1>2 DEF AreLines
<1> QED BY <1>1, <1>2, <1>3

(* Every text has as many lines.                                           *)
LEMMA TypeIs ==
  ASSUME font \in Fonts
  PROVE  TypeOK <=> /\ pc \in Steps /\ chId \in 0..ch_num /\ timer \in BOOLEAN
                    /\ line \in 1..NumLines(font)
<1>1. Title \in Texts /\ Midnight \in Texts
  BY DEF Texts
<1>2. Len(Lines(font, Title)) = NumLines(font) /\ Len(Lines(font, Midnight)) = NumLines(font)
  BY <1>1, TextsHaveLines
<1> QED BY <1>2 DEF TypeOK

LEMMA BlankIsMem ==
  ASSUME NEW f, NEW t
  PROVE  Blank \in Mems(f, t)
<1>1. Blank \in [{} -> Cells(f)] /\ {} \in SUBSET Window(f, t)
  BY DEF Blank
<1> QED BY <1>1, MemsAre

LEMMA InitIInv == Init => IInv
<1> SUFFICES ASSUME Init PROVE IInv
  OBVIOUS
<1>1. font \in Fonts /\ Title \in Texts /\ pc = "init" /\ chId = 0 /\ line = 1 /\ timer = FALSE
  BY DEF Init, Texts
<1>2. NumLines(font) \in Nat \ {0}
  BY <1>1, TextsHaveLines
<1>3. ch_num \in Nat /\ ch_num > 0
  BY SomeChannels
<1>4. TypeOK
  <2>1. line \in 1..NumLines(font) /\ chId \in 0..ch_num
    BY <1>1, <1>2, <1>3
  <2>2. pc \in Steps /\ timer \in BOOLEAN
    BY <1>1 DEF Steps
  <2> QED BY <1>1, <2>1, <2>2, TypeIs
<1>5. osdText \in Mems(font, Title) /\ osdTime \in Mems(font, Midnight)
  BY BlankIsMem DEF Init
<1>6. \A n \in 1..NumLines(font) : ~ TitleLineIsDrawn(n)
  BY <1>1 DEF TitleLineIsDrawn
<1> QED BY <1>1, <1>3, <1>4, <1>5, <1>6 DEF IInv

(* What every step may take from the invariant.                            *)
LEMMA IInvFacts ==
  ASSUME IInv
  PROVE  /\ font \in Fonts /\ pc \in Steps /\ chId \in 0..ch_num /\ timer \in BOOLEAN
         /\ line \in 1..NumLines(font) /\ NumLines(font) \in Nat /\ ch_num \in Nat
         /\ Title \in Texts /\ Midnight \in Texts
         /\ osdText \in Mems(font, Title) /\ osdTime \in Mems(font, Midnight)
<1>1. font \in Fonts /\ TypeOK /\ Title \in Texts /\ Midnight \in Texts
  BY DEF IInv, TypeOK, Texts
<1>2. NumLines(font) \in Nat
  BY <1>1, TextsHaveLines
<1> QED BY <1>1, <1>2, TypeIs, SomeChannels DEF IInv

LEMMA LogoAddKeepsIInv == IInv /\ LogoAdd => IInv'
<1> SUFFICES ASSUME IInv, LogoAdd PROVE IInv'
  OBVIOUS
<1>1. /\ font' = font /\ chId' = chId /\ line' = line /\ timer' = timer
      /\ osdText' = osdText /\ osdTime' = osdTime
      /\ pc = "init" /\ pc' = "drawText" /\ line = 1 /\ chId < ch_num
  BY DEF LogoAdd, IInv
<1>2. TypeOK'
  <2>1. Len(Lines(font, Title)) = NumLines(font)
    BY IInvFacts, TextsHaveLines
  <2> QED BY <1>1, <2>1, IInvFacts DEF TypeOK, Steps
<1>3. ASSUME NEW n \in 1..NumLines(font), TitleLineIsDrawn(n)'
      PROVE  IsDrawn(osdText, Lines(font, Title)[n])
  <2>1. chId > 0
    BY <1>1, <1>3, IInvFacts DEF TitleLineIsDrawn
  <2> QED BY <2>1 DEF IInv, TitleLineIsDrawn
<1>4. (\A n \in 1..NumLines(font) :
         TitleLineIsDrawn(n) => IsDrawn(osdText, Lines(font, Title)[n]))'
  BY <1>1, <1>3
<1> QED BY <1>1, <1>2, <1>4, IInvFacts DEF IInv

(* The line that is drawn joins those drawn before, which stay.            *)
LEMMA DrawTextKeepsIInv == IInv /\ DrawText => IInv'
<1> SUFFICES ASSUME IInv, DrawText PROVE IInv'
  OBVIOUS
<1> DEFINE ln == Lines(font, Title)[line]
<1>1. /\ font' = font /\ chId' = chId /\ timer' = timer /\ osdTime' = osdTime
      /\ osdText' = DrawLine(osdText, ln) /\ pc = "drawText" /\ chId < ch_num
  BY DEF DrawText, IInv
<1>2. /\ IsFont(font) /\ IsText(Title) /\ Len(Lines(font, Title)) = NumLines(font)
      /\ \A n \in 1..NumLines(font) : IsLine(font, Title, n, Lines(font, Title)[n])
  BY IInvFacts, TextsAreTexts, TextsHaveLines
<1>3. IF line < NumLines(font) THEN line' = line + 1 /\ pc' = "drawText"
                               ELSE line' = 1 /\ pc' = "drawTime"
  BY <1>2 DEF DrawText, AfterLine
<1>4. line' \in 1..NumLines(font) /\ pc' \in {"drawText", "drawTime"}
  BY <1>3, IInvFacts
<1>5. TypeOK'
  <2>1. Len(Lines(font, Midnight)) = NumLines(font)
    BY IInvFacts, TextsHaveLines
  <2> QED BY <1>1, <1>2, <1>4, <2>1, IInvFacts DEF TypeOK, Steps
<1>6. osdText' \in Mems(font, Title) /\ IsDrawn(osdText', ln)
  BY <1>1, <1>2, IInvFacts, DrawLineType
<1>7. ASSUME NEW n \in 1..NumLines(font), TitleLineIsDrawn(n)'
      PROVE  IsDrawn(osdText', Lines(font, Title)[n])
  <2>1. CASE n = line
    BY <1>6, <2>1
  <2>2. CASE n # line
    <3>1. chId > 0 \/ n < line
      BY <1>1, <1>3, <1>7, <2>2, IInvFacts DEF TitleLineIsDrawn
    <3>2. IsDrawn(osdText, Lines(font, Title)[n])
      BY <1>1, <3>1 DEF IInv, TitleLineIsDrawn
    <3> QED BY <1>1, <1>2, <2>2, <3>2, IInvFacts, DrawLineKeeps
  <2> QED BY <2>1, <2>2
<1>8. (\A n \in 1..NumLines(font) :
         TitleLineIsDrawn(n) => IsDrawn(osdText, Lines(font, Title)[n]))'
  BY <1>1, <1>7
<1> QED BY <1>1, <1>4, <1>5, <1>6, <1>8, IInvFacts DEF IInv

LEMMA DrawTimeKeepsIInv == IInv /\ DrawTime => IInv'
<1> SUFFICES ASSUME IInv, DrawTime PROVE IInv'
  OBVIOUS
<1> DEFINE ln == Lines(font, Midnight)[line]
<1>1. /\ font' = font /\ chId' = chId /\ timer' = timer /\ osdText' = osdText
      /\ osdTime' = DrawLine(osdTime, ln) /\ pc = "drawTime" /\ chId < ch_num
  BY DEF DrawTime, IInv
<1>2. /\ IsFont(font) /\ IsText(Midnight) /\ Len(Lines(font, Midnight)) = NumLines(font)
      /\ \A n \in 1..NumLines(font) : IsLine(font, Midnight, n, Lines(font, Midnight)[n])
  BY IInvFacts, TextsAreTexts, TextsHaveLines
<1>3. IF line < NumLines(font) THEN line' = line + 1 /\ pc' = "drawTime"
                               ELSE line' = 1 /\ pc' = "setTimer"
  BY <1>2 DEF DrawTime, AfterLine
<1>4. line' \in 1..NumLines(font) /\ pc' \in {"drawTime", "setTimer"} /\ (pc' = "setTimer" => line' = 1)
  BY <1>3, IInvFacts
<1>5. TypeOK'
  <2>1. Len(Lines(font, Title)) = NumLines(font)
    BY IInvFacts, TextsHaveLines
  <2> QED BY <1>1, <1>2, <1>4, <2>1, IInvFacts DEF TypeOK, Steps
<1>6. osdTime' \in Mems(font, Midnight)
  BY <1>1, <1>2, IInvFacts, DrawLineType
<1>7. \A n \in 1..NumLines(font) : IsDrawn(osdText, Lines(font, Title)[n])
  BY <1>1 DEF IInv, TitleLineIsDrawn
<1>8. (\A n \in 1..NumLines(font) :
         TitleLineIsDrawn(n) => IsDrawn(osdText, Lines(font, Title)[n]))'
  BY <1>1, <1>7
<1> QED BY <1>1, <1>4, <1>5, <1>6, <1>8, IInvFacts DEF IInv

LEMMA SetTimerKeepsIInv == IInv /\ SetTimer => IInv'
<1> SUFFICES ASSUME IInv, SetTimer PROVE IInv'
  OBVIOUS
<1>1. /\ font' = font /\ line' = line /\ osdText' = osdText /\ osdTime' = osdTime
      /\ timer' = TRUE /\ chId' = chId + 1 /\ pc = "setTimer" /\ line = 1 /\ chId < ch_num
      /\ pc' = IF chId + 1 < ch_num THEN "drawText" ELSE "added"
  BY DEF SetTimer, IInv
<1>2. chId' \in 0..ch_num /\ pc' \in {"drawText", "added"} /\ (pc' # "added" => chId' < ch_num)
  BY <1>1, IInvFacts
<1>3. TypeOK'
  <2>1. Len(Lines(font, Title)) = NumLines(font)
    BY IInvFacts, TextsHaveLines
  <2> QED BY <1>1, <1>2, <2>1, IInvFacts DEF TypeOK, Steps
<1>4. \A n \in 1..NumLines(font) : IsDrawn(osdText, Lines(font, Title)[n])
  BY <1>1 DEF IInv, TitleLineIsDrawn
<1>5. (\A n \in 1..NumLines(font) :
         TitleLineIsDrawn(n) => IsDrawn(osdText, Lines(font, Title)[n]))'
  BY <1>1, <1>4
<1> QED BY <1>1, <1>2, <1>3, <1>5, IInvFacts DEF IInv

(* The clock is as wide at any time as at midnight, so that it fills its   *)
(* window and the window only.                                             *)
LEMMA ClockIsWhole ==
  ASSUME NEW f \in Fonts, NEW t \in Times, NEW m \in Mems(f, Midnight)
  PROVE  Draw(m, Lines(f, t)) \in Mems(f, Midnight) /\ Shows(f, t, Draw(m, Lines(f, t)))
<1>1. t \in Texts
  BY DEF Texts
<1>2. IsFont(f) /\ IsText(t) /\ IsPadded(f, t)
  BY <1>1, TextsAreTexts
<1>3. AreLines(f, t, Lines(f, t)) /\ Len(Lines(f, t)) = NumLines(f)
  BY <1>1, TextsHaveLines
<1>4. LineOffset(f, t) = LineOffset(f, Midnight)
  BY ClockAssumption DEF LineOffset
<1>5. Mems(f, t) = Mems(f, Midnight)
  BY <1>4 DEF Mems, Window, WindowBytes
<1>6. /\ Draw(m, Lines(f, t)) \in Mems(f, t)
      /\ \A n \in 1..Len(Lines(f, t)) : IsDrawn(Draw(m, Lines(f, t)), Lines(f, t)[n])
  BY <1>2, <1>3, <1>5, DrawType
<1>7. AllDrawn(f, t, Draw(m, Lines(f, t)))
  BY <1>3, <1>6 DEF AllDrawn
<1> QED BY <1>2, <1>5, <1>6, <1>7, ShowsWhenDrawn

LEMMA UpdateTimeKeepsIInv == IInv /\ UpdateTime => IInv'
<1> SUFFICES ASSUME IInv, UpdateTime PROVE IInv'
  OBVIOUS
<1>1. /\ font' = font /\ pc' = pc /\ chId' = chId /\ line' = line /\ timer' = timer
      /\ osdText' = osdText
  BY DEF UpdateTime
<1>2. PICK t \in Times : osdTime' = Draw(osdTime, Lines(font, t))
  BY DEF UpdateTime, ClockLines
<1>3. osdTime' \in Mems(font, Midnight)
  BY <1>2, IInvFacts, ClockIsWhole
<1>4. TypeOK'
  BY <1>1 DEF IInv, TypeOK
<1>5. (\A n \in 1..NumLines(font) :
         TitleLineIsDrawn(n) => IsDrawn(osdText, Lines(font, Title)[n]))'
  BY <1>1 DEF IInv, TitleLineIsDrawn
<1> QED BY <1>1, <1>3, <1>4, <1>5 DEF IInv

LEMMA StutterKeepsIInv == IInv /\ UNCHANGED vars => IInv'
BY DEF IInv, TypeOK, TitleLineIsDrawn, vars

LEMMA SpecIInv == Spec => []IInv
<1>1. IInv /\ [Next]_vars => IInv'
  BY LogoAddKeepsIInv, DrawTextKeepsIInv, DrawTimeKeepsIInv, SetTimerKeepsIInv,
     UpdateTimeKeepsIInv, StutterKeepsIInv DEF Next
<1> QED BY InitIInv, <1>1, PTL DEF Spec

-----------------------------------------------------------------------------
(* Results.                                                                *)

LEMMA MemIsWithinBounds ==
  ASSUME NEW t, NEW m \in Mems(font, t)
  PROVE  WithinBounds(t, m)
<1>1. PICK D \in SUBSET Window(font, t) : m \in [D -> Cells(font)]
  BY MemsAre
<1>2. DOMAIN m \subseteq Window(font, t) /\ \A b \in DOMAIN m : m[b] \in Cells(font)
  BY <1>1
<1> QED BY <1>2 DEF WithinBounds, Window, Cells

LEMMA IInvShowsTitle == IInv => TitleIsShown
<1> SUFFICES ASSUME IInv PROVE TitleIsShown
  OBVIOUS
<1>1. TypeOK /\ WithinBounds(Title, osdText) /\ WithinBounds(Midnight, osdTime)
  BY IInvFacts, MemIsWithinBounds DEF IInv
<1>2. ASSUME chId > 0 \/ pc \in {"drawTime", "setTimer"} PROVE Shows(font, Title, osdText)
  <2>1. AllDrawn(font, Title, osdText)
    BY <1>2 DEF AllDrawn, IInv, TitleLineIsDrawn
  <2> QED BY <2>1, IInvFacts, TextsAreTexts, ShowsWhenDrawn
<1> QED BY <1>1, <1>2 DEF TitleIsShown

(* For any fonts, texts and number of channels: the title, once drawn,     *)
(* stays readable to the pixel while it is drawn again and the clock       *)
(* beside it, and neither text is drawn from beyond the font or to beyond  *)
(* its window (logo.c:88-160, demo_text.c:5-219), given buffers that are   *)
(* apart and large enough for the windows.                                 *)
THEOREM TitleStaysShown == Spec => []TitleIsShown
BY SpecIInv, IInvShowsTitle, PTL

(* Whatever an alarm interrupts, when its handler returns the clock's      *)
(* window shows one time, to the pixel (logo.c:170-191).                   *)
ClockIsShown == \E t \in Times : Shows(font, t, osdTime)
AlarmShowsTime == UpdateTime => ClockIsShown'
THEOREM AlarmsShowTime == Spec => [][AlarmShowsTime]_vars
<1>1. IInv /\ [Next]_vars => [AlarmShowsTime]_vars
  <2> SUFFICES ASSUME IInv, UpdateTime PROVE ClockIsShown'
    BY DEF AlarmShowsTime
  <2>1. font' = font
    BY DEF UpdateTime
  <2>2. PICK t \in Times : osdTime' = Draw(osdTime, Lines(font, t))
    BY DEF UpdateTime, ClockLines
  <2>3. Shows(font, t, osdTime')
    BY <2>2, IInvFacts, ClockIsWhole
  <2> QED BY <2>1, <2>3 DEF ClockIsShown
<1> QED BY <1>1, SpecIInv, PTL DEF Spec

(* A clock that shows a time is spoilt by nothing but Logo_add's own       *)
(* drawing of it for a further channel (logo.c:121-133): after the last    *)
(* channel it stays right for ever.                                        *)
OnlyLogoAddSpoilsClock == ClockIsShown /\ pc # "drawTime" => ClockIsShown'
THEOREM ClockStaysRight == Spec => [][OnlyLogoAddSpoilsClock]_vars
<1>1. [Next]_vars /\ [AlarmShowsTime]_vars => [OnlyLogoAddSpoilsClock]_vars
  <2> SUFFICES ASSUME Next, [AlarmShowsTime]_vars, ClockIsShown, pc # "drawTime", vars' # vars
               PROVE  ClockIsShown'
    BY DEF OnlyLogoAddSpoilsClock
  <2>1. CASE UpdateTime
    BY <2>1 DEF AlarmShowsTime, vars
  <2>2. CASE LogoAdd \/ DrawText \/ SetTimer
    <3>1. font' = font /\ osdTime' = osdTime
      BY <2>2 DEF LogoAdd, DrawText, SetTimer
    <3> QED BY <3>1 DEF ClockIsShown
  <2>3. ~ DrawTime
    BY DEF DrawTime
  <2> QED BY <2>1, <2>2, <2>3 DEF Next
<1> QED BY <1>1, AlarmsShowTime, PTL DEF Spec
=============================================================================
