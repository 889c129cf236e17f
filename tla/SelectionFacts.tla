----------------------------- MODULE SelectionFacts -----------------------------
(* The least element of a set of natural numbers, induction over the numbers with  *)
(* the property as a set, and by this induction what Only keeps of a sequence.     *)
EXTENDS Selections, WellFoundedInduction, TLAPS

\* A set of natural numbers has a least element.
LEMMA LeastNatural ==
    ASSUME NEW T \in SUBSET Nat, T # {}
    PROVE  \E n \in T : \A m \in T : n <= m
<1> DEFINE R == {ss \in Nat \X Nat : ss[1] < ss[2]}
<1>1. IsWellFoundedOn(R, Nat)
  BY NatLessThanWellFounded DEF OpToRel
<1>2. PICK n \in T : \A m \in T : <<m, n>> \notin R
  BY <1>1, WFMin
<1>3. \A m \in T : ~(m < n)
  BY <1>2
<1> QED
  BY <1>3

\* A set that has 0 and with each number the next one has all of them.
LEMMA SetInduction ==
    ASSUME NEW S \in SUBSET Nat, 0 \in S, \A n \in S : n + 1 \in S
    PROVE  S = Nat
<1> SUFFICES ASSUME Nat \ S # {} PROVE FALSE
  OBVIOUS
<1>1. PICK n \in Nat \ S : \A m \in Nat \ S : n <= m
  BY LeastNatural
<1>2. n - 1 \in Nat /\ n - 1 \in S
  BY <1>1
<1> QED
  BY <1>1, <1>2

\* What a step of the recursion of Only makes of what it has so far.
OnlyStep(s, K, r, n) == IF s[n] \in K THEN Append(r, s[n]) ELSE r

\* g is what the recursion of Only computes, up to n.
OnlyRun(s, K, n, g) ==
    g = [m \in 0 .. n |-> IF m = 0 THEN <<>> ELSE OnlyStep(s, K, g[m - 1], m)]

\* The recursion of Only is well defined, as far as any length.
LEMMA OnlyExists ==
    ASSUME NEW s, NEW K, NEW n \in Nat
    PROVE  \E g : OnlyRun(s, K, n, g)
<1> DEFINE Good(g, k) == OnlyRun(s, K, k, g)
           S == {k \in Nat : \E g : Good(g, k)}
<1> USE DEF OnlyRun
<1>1. 0 \in S
  <2> DEFINE g == [m \in 0 .. 0 |-> <<>>]
  <2>1. Good(g, 0)
    OBVIOUS
  <2> QED
    BY <2>1
<1>2. \A k \in S : k + 1 \in S
  <2> TAKE k \in S
  <2>1. PICK g : Good(g, k)
    OBVIOUS
  <2> DEFINE h == [m \in 0 .. k + 1 |-> IF m <= k THEN g[m] ELSE OnlyStep(s, K, g[k], m)]
  <2>2. \A m \in 0 .. k : h[m] = g[m]
    OBVIOUS
  <2>3. \A m \in 0 .. k + 1 : h[m] = IF m = 0 THEN <<>> ELSE OnlyStep(s, K, h[m - 1], m)
    <3> TAKE m \in 0 .. k + 1
    <3>1. CASE m = 0
      BY <2>1, <2>2, <3>1
    <3>2. CASE m # 0 /\ m <= k
      <4>1. m \in 0 .. k /\ m - 1 \in 0 .. k /\ h[m] = g[m] /\ h[m - 1] = g[m - 1]
        BY <2>2, <3>2
      <4>2. g[m] = OnlyStep(s, K, g[m - 1], m)
        BY <2>1, <3>2, <4>1
      <4> QED
        BY <3>2, <4>1, <4>2
    <3>3. CASE m = k + 1
      <4>1. h[m] = OnlyStep(s, K, g[k], m) /\ h[m - 1] = g[k]
        BY <2>2, <3>3
      <4> QED
        BY <3>3, <4>1
    <3> QED
      BY <3>1, <3>2, <3>3
  <2>4. Good(h, k + 1)
    BY <2>3
  <2> HIDE DEF Good, h
  <2> QED
    BY <2>4
<1> HIDE DEF Good, OnlyRun
<1>3. S = Nat
  BY <1>1, <1>2, SetInduction
<1> QED
  BY <1>3 DEF Good

\* The places in s of what Only keeps, up to place n: m has them in their order.
Picks(s, K, r, n, m) ==
    /\ m \in [1 .. Len(r) -> 1 .. n]
    /\ \A i \in 1 .. Len(r) : r[i] = s[m[i]] /\ s[m[i]] \in K
    /\ \A i, j \in 1 .. Len(r) : i < j => m[i] < m[j]
    /\ \A k \in 1 .. n : s[k] \in K => \E i \in 1 .. Len(r) : m[i] = k

\* Only keeps the order and the type.
LEMMA OnlyPicks ==
    ASSUME NEW T, NEW s \in Seq(T), NEW K
    PROVE  Only(s, K) \in Seq(T) /\ \E m : Picks(s, K, Only(s, K), Len(s), m)
<1> DEFINE F == CHOOSE g : OnlyRun(s, K, Len(s), g)
<1>1. Only(s, K) = F[Len(s)]
  BY DEF Only, OnlyStep, OnlyRun
<1>2. F = [m \in 0 .. Len(s) |-> IF m = 0 THEN <<>> ELSE OnlyStep(s, K, F[m - 1], m)]
  <2>1. Len(s) \in Nat
    OBVIOUS
  <2>2. \E g : OnlyRun(s, K, Len(s), g)
    BY <2>1, OnlyExists, Zenon
  <2>3. OnlyRun(s, K, Len(s), F)
    BY <2>2, Zenon
  <2> QED
    BY <2>3 DEF OnlyRun
<1> HIDE DEF F
<1> DEFINE Good(n) == F[n] \in Seq(T) /\ \E m : Picks(s, K, F[n], n, m)
           S == {n \in Nat : n <= Len(s) => Good(n)}
<1>3. 0 \in S
  <2>1. F[0] = <<>>
    BY <1>2
  <2>2. Picks(s, K, <<>>, 0, <<>>)
    BY DEF Picks
  <2>3. <<>> \in Seq(T) /\ \E m : Picks(s, K, <<>>, 0, m)
    BY <2>2
  <2> HIDE DEF Good
  <2>4. Good(0)
    BY <2>1, <2>3 DEF Good
  <2> QED
    BY <2>4
<1>4. \A n \in S : n + 1 \in S
  <2> HIDE DEF Good
  <2> SUFFICES ASSUME NEW n \in S, n + 1 <= Len(s) PROVE Good(n + 1)
    OBVIOUS
  <2>1. n \in Nat /\ Good(n)
    OBVIOUS
  <2>2. F[n] \in Seq(T) /\ Len(F[n]) \in Nat /\ n + 1 \in 1 .. Len(s) /\ s[n + 1] \in T
    BY <2>1 DEF Good
  <2>3. F[n + 1] = OnlyStep(s, K, F[n], n + 1)
    BY <1>2, <2>1, <2>2
  <2>4. PICK m : Picks(s, K, F[n], n, m)
    BY <2>1 DEF Good
  <2>5. CASE s[n + 1] \notin K
    <3>1. F[n + 1] = F[n]
      BY <2>3, <2>5 DEF OnlyStep
    <3>2. Picks(s, K, F[n], n + 1, m)
      BY <2>1, <2>4, <2>5 DEF Picks
    <3> QED
      BY <2>2, <3>1, <3>2 DEF Good
  <2>6. CASE s[n + 1] \in K
    <3> DEFINE l == Len(F[n])
               r == Append(F[n], s[n + 1])
               o == [i \in 1 .. l + 1 |-> IF i = l + 1 THEN n + 1 ELSE m[i]]
    <3>1. /\ F[n + 1] = r /\ r \in Seq(T) /\ Len(r) = l + 1 /\ r[l + 1] = s[n + 1]
          /\ \A i \in 1 .. l : r[i] = F[n][i]
      BY <2>2, <2>3, <2>6 DEF OnlyStep
    <3>2. /\ m \in [1 .. l -> 1 .. n]
          /\ \A i \in 1 .. l : F[n][i] = s[m[i]] /\ s[m[i]] \in K
          /\ \A i, j \in 1 .. l : i < j => m[i] < m[j]
          /\ \A k \in 1 .. n : s[k] \in K => \E i \in 1 .. l : m[i] = k
      BY <2>4 DEF Picks
    <3>3. l \in Nat
      BY <2>2
    <3> HIDE DEF l, r
    <3>4. \A i \in 1 .. l : i \in 1 .. l + 1 /\ o[i] = m[i] /\ m[i] \in 1 .. n
      BY <3>2, <3>3
    <3>5. o[l + 1] = n + 1 /\ l + 1 \in 1 .. l + 1
      BY <3>3
    <3>6. o \in [1 .. l + 1 -> 1 .. n + 1]
      <4>1. \A i \in 1 .. l + 1 : o[i] \in 1 .. n + 1
        <5> TAKE i \in 1 .. l + 1
        <5>1. CASE i = l + 1
          BY <2>1, <3>5, <5>1
        <5>2. CASE i \in 1 .. l
          <6>1. o[i] = m[i] /\ m[i] \in 1 .. n
            BY <3>4, <5>2
          <6> HIDE DEF o
          <6> QED
            BY <2>1, <6>1
        <5> QED
          BY <3>3, <5>1, <5>2
      <4> QED
        BY <4>1
    <3> HIDE DEF o
    <3>7. \A i \in 1 .. l + 1 : r[i] = s[o[i]] /\ s[o[i]] \in K
      <4> SUFFICES ASSUME NEW i \in 1 .. l + 1 PROVE r[i] = s[o[i]] /\ s[o[i]] \in K
        OBVIOUS
      <4>1. CASE i = l + 1
        BY <2>6, <3>1, <3>5, <4>1
      <4>2. CASE i \in 1 .. l
        <5>1. o[i] = m[i] /\ r[i] = F[n][i] /\ F[n][i] = s[m[i]] /\ s[m[i]] \in K
          BY <3>1, <3>2, <3>4, <4>2
        <5> QED
          BY <5>1, Zenon
      <4> QED
        BY <3>3, <4>1, <4>2
    <3>8. \A i, j \in 1 .. l + 1 : i < j => o[i] < o[j]
      <4> SUFFICES ASSUME NEW i \in 1 .. l + 1, NEW j \in 1 .. l + 1, i < j PROVE o[i] < o[j]
        OBVIOUS
      <4>1. i \in 1 .. l /\ o[i] = m[i] /\ m[i] \in 1 .. n
        BY <3>3, <3>4
      <4>2. CASE j = l + 1
        BY <2>1, <3>5, <4>1, <4>2
      <4>3. CASE j \in 1 .. l
        BY <3>2, <3>4, <4>1, <4>3
      <4> QED
        BY <3>3, <4>2, <4>3
    <3>9. \A k \in 1 .. n + 1 : s[k] \in K => \E i \in 1 .. l + 1 : o[i] = k
      <4> SUFFICES ASSUME NEW k \in 1 .. n + 1, s[k] \in K PROVE \E i \in 1 .. l + 1 : o[i] = k
        OBVIOUS
      <4>1. CASE k = n + 1
        BY <3>5, <4>1
      <4>2. CASE k \in 1 .. n
        BY <3>2, <3>4, <4>2
      <4> QED
        BY <2>1, <4>1, <4>2
    <3>10. Picks(s, K, r, n + 1, o)
      BY <3>1, <3>6, <3>7, <3>8, <3>9 DEF Picks
    <3> QED
      BY <3>1, <3>10 DEF Good
  <2> QED
    BY <2>5, <2>6
<1> HIDE DEF Good
<1>5. S = Nat
  BY <1>3, <1>4, SetInduction
<1>6. Good(Len(s))
  BY <1>5
<1> QED
  BY <1>1, <1>6 DEF Good

================================================================================
