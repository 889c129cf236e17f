-------------------------- MODULE ExportPipelineProofs --------------------------
(*****************************************************************************)
(* The way of the export records from the tables to the exporters, for any   *)
(* number of tables, exporters and records and channels of any depth.        *)
(*****************************************************************************)
EXTENDS ExportPipeline, SelectionFacts, FiniteSetTheorems

--------------------------------------------------------------------------------
(* 1. Loops                                                                  *)

\* f holds the state after every one of up to n passes.
Passes(body, state, n, f) == f = [k \in 0 .. n |-> IF k = 0 THEN state ELSE body[f[k - 1]]]

\* The recursion of Repeat is well defined.
LEMMA PassesExist ==
    ASSUME NEW body, NEW state, NEW n \in Nat
    PROVE  \E f : Passes(body, state, n, f)
<1> DEFINE Good(f, k) == Passes(body, state, k, f)
           S == {k \in Nat : \E f : Good(f, k)}
<1> USE DEF Passes
<1>1. 0 \in S
  <2> DEFINE f == [k \in 0 .. 0 |-> state]
  <2>1. Good(f, 0)
    OBVIOUS
  <2> QED
    BY <2>1
<1>2. \A k \in S : k + 1 \in S
  <2> TAKE k \in S
  <2>1. PICK f : Good(f, k)
    OBVIOUS
  <2> DEFINE h == [m \in 0 .. k + 1 |-> IF m <= k THEN f[m] ELSE body[f[k]]]
  <2>2. \A m \in 0 .. k : h[m] = f[m]
    OBVIOUS
  <2>3. \A m \in 0 .. k + 1 : h[m] = IF m = 0 THEN state ELSE body[h[m - 1]]
    <3> TAKE m \in 0 .. k + 1
    <3>1. CASE m = 0
      BY <2>1, <2>2, <3>1
    <3>2. CASE m # 0 /\ m <= k
      <4>1. m \in 0 .. k /\ m - 1 \in 0 .. k /\ h[m] = f[m] /\ h[m - 1] = f[m - 1]
        BY <2>2, <3>2
      <4>2. f[m] = body[f[m - 1]]
        BY <2>1, <3>2, <4>1
      <4> QED
        BY <3>2, <4>1, <4>2
    <3>3. CASE m = k + 1
      <4>1. h[m] = body[f[k]] /\ h[m - 1] = f[k]
        BY <2>2, <3>3
      <4> QED
        BY <3>3, <4>1
    <3> QED
      BY <3>1, <3>2, <3>3
  <2>4. Good(h, k + 1)
    BY <2>3
  <2> HIDE DEF Good, h
  <2> QED
    BY <2>4
<1> HIDE DEF Good, Passes
<1>3. S = Nat
  BY <1>1, <1>2, SetInduction
<1> QED
  BY <1>3 DEF Good

\* Repeat gives the state after the last pass, and before it those of fewer passes.
LEMMA RepeatPasses ==
    ASSUME NEW body, NEW state, NEW n \in Nat
    PROVE  \E f : /\ Passes(body, state, n, f)
                  /\ \A k \in 0 .. n : f[k] = Repeat(body, state, k)
<1> DEFINE F(k) == CHOOSE f : Passes(body, state, k, f)
<1>1. \A k \in Nat : Passes(body, state, k, F(k))
  BY PassesExist, Zenon
<1>2. \A k \in Nat : Repeat(body, state, k) = F(k)[k]
  BY DEF Repeat, Passes
<1> HIDE DEF F
<1>3. \A k \in 0 .. n : F(n)[k] = F(k)[k]
  <2> TAKE k \in 0 .. n
  <2> DEFINE S == {i \in Nat : i <= k => F(n)[i] = F(k)[i]}
  <2>1. F(n) = [i \in 0 .. n |-> IF i = 0 THEN state ELSE body[F(n)[i - 1]]]
    BY <1>1 DEF Passes
  <2>2. F(k) = [i \in 0 .. k |-> IF i = 0 THEN state ELSE body[F(k)[i - 1]]]
    BY <1>1 DEF Passes
  <2>3. 0 \in S
    BY <2>1, <2>2
  <2>4. \A i \in S : i + 1 \in S
    <3> SUFFICES ASSUME NEW i \in S, i + 1 <= k PROVE F(n)[i + 1] = F(k)[i + 1]
      OBVIOUS
    <3>1. F(n)[i] = F(k)[i] /\ i + 1 \in 0 .. n /\ i + 1 \in 0 .. k /\ i + 1 # 0 /\ (i + 1) - 1 = i
      OBVIOUS
    <3>2. F(n)[i + 1] = body[F(n)[i]]
      BY <2>1, <3>1
    <3>3. F(k)[i + 1] = body[F(k)[i]]
      BY <2>2, <3>1
    <3> QED
      BY <3>1, <3>2, <3>3
  <2>5. S = Nat
    <3>1. S \in SUBSET Nat
      OBVIOUS
    <3> HIDE DEF S
    <3> QED
      BY <2>3, <2>4, <3>1, SetInduction
  <2> QED
    BY <2>5
<1>4. \A k \in 0 .. n : F(n)[k] = Repeat(body, state, k)
  BY <1>2, <1>3
<1> QED
  BY <1>1, <1>4

\* No pass leaves the state, and one pass more applies the body once more.
LEMMA RepeatStep ==
    ASSUME NEW body, NEW state
    PROVE  /\ Repeat(body, state, 0) = state
           /\ \A n \in Nat : Repeat(body, state, n + 1) = body[Repeat(body, state, n)]
<1>1. Repeat(body, state, 0) = state
  <2>1. PICK f : Passes(body, state, 0, f) /\ \A k \in 0 .. 0 : f[k] = Repeat(body, state, k)
    BY RepeatPasses
  <2>2. f[0] = Repeat(body, state, 0)
    BY <2>1
  <2>3. f[0] = state
    BY <2>1 DEF Passes
  <2> QED
    BY <2>2, <2>3
<1>2. ASSUME NEW n \in Nat PROVE Repeat(body, state, n + 1) = body[Repeat(body, state, n)]
  <2>1. PICK f : /\ Passes(body, state, n + 1, f)
                 /\ \A k \in 0 .. n + 1 : f[k] = Repeat(body, state, k)
    BY RepeatPasses
  <2>2. f[n + 1] = body[f[n]]
    BY <2>1 DEF Passes
  <2>3. f[n + 1] = Repeat(body, state, n + 1) /\ f[n] = Repeat(body, state, n)
    BY <2>1
  <2> QED
    BY <2>2, <2>3
<1> QED
  BY <1>1, <1>2

\* What holds before the first pass and what every pass hands on holds after the last: K[k]
\* are the states that k passes may leave.
LEMMA RepeatReaches ==
    ASSUME NEW body, NEW state, NEW n \in Nat, NEW K, state \in K[0],
           \A k \in 0 .. n - 1 : \A s \in K[k] : body[s] \in K[k + 1]
    PROVE  Repeat(body, state, n) \in K[n]
<1> DEFINE S == {k \in Nat : k <= n => Repeat(body, state, k) \in K[k]}
<1>1. 0 \in S
  BY RepeatStep
<1>2. \A k \in S : k + 1 \in S
  <2> SUFFICES ASSUME NEW k \in S, k + 1 <= n PROVE Repeat(body, state, k + 1) \in K[k + 1]
    OBVIOUS
  <2>1. k \in 0 .. n - 1 /\ Repeat(body, state, k) \in K[k]
    OBVIOUS
  <2>2. Repeat(body, state, k + 1) = body[Repeat(body, state, k)]
    BY RepeatStep
  <2> QED
    BY <2>1, <2>2
<1>3. S = Nat
  <2>1. S \in SUBSET Nat
    OBVIOUS
  <2> HIDE DEF S
  <2> QED
    BY <1>1, <1>2, <2>1, SetInduction
<1> QED
  BY <1>3

\* A pass may be made first.
LEMMA RepeatFirst ==
    ASSUME NEW body, NEW state, NEW n \in Nat
    PROVE  Repeat(body, state, n + 1) = Repeat(body, body[state], n)
<1> DEFINE S == {k \in Nat : Repeat(body, state, k + 1) = Repeat(body, body[state], k)}
<1>1. 0 \in S
  <2>1. Repeat(body, state, 0 + 1) = body[Repeat(body, state, 0)]
    BY RepeatStep
  <2> QED
    BY <2>1, RepeatStep
<1>2. \A k \in S : k + 1 \in S
  <2> TAKE k \in S
  <2>1. k + 1 \in Nat /\ Repeat(body, state, k + 1) = Repeat(body, body[state], k)
    OBVIOUS
  <2>2. Repeat(body, state, (k + 1) + 1) = body[Repeat(body, state, k + 1)]
    BY <2>1, RepeatStep
  <2>3. Repeat(body, body[state], k + 1) = body[Repeat(body, body[state], k)]
    BY RepeatStep
  <2> QED
    BY <2>1, <2>2, <2>3
<1>3. S = Nat
  <2>1. S \in SUBSET Nat
    OBVIOUS
  <2> HIDE DEF S
  <2> QED
    BY <1>1, <1>2, <2>1, SetInduction
<1> QED
  BY <1>3

--------------------------------------------------------------------------------
(* 2. Lists of records                                                       *)

Different(l) == \A i, j \in 1 .. Len(l) : i # j => l[i] # l[j]

\* A list of records without repetition is no longer than there are records.
LEMMA ListsAre ==
    ASSUME NEW l
    PROVE  l \in RecordLists <=> l \in Seq(Records) /\ Different(l)
<1>1. ASSUME l \in RecordLists PROVE l \in Seq(Records) /\ Different(l)
  BY <1>1, SizesAssumption DEF RecordLists, Different
<1>2. ASSUME l \in Seq(Records), Different(l) PROVE l \in RecordLists
  <2>1. NumRecords \in Nat /\ Len(l) \in Nat
    BY <1>2, SizesAssumption
  <2>2. l \in [1 .. Len(l) -> Records]
    BY <1>2
  <2>3. Len(l) <= NumRecords
    <3> SUFFICES ASSUME Len(l) > NumRecords PROVE FALSE
      BY <2>1
    <3>1. IsFiniteSet(1 .. Len(l)) /\ Cardinality(1 .. Len(l)) = Len(l)
      <4>1. 1 \in Int /\ Len(l) \in Int /\ ~(1 > Len(l)) /\ Len(l) - 1 + 1 = Len(l)
        BY <2>1
      <4> QED
        BY <4>1, FS_Interval
    <3>2. IsFiniteSet(Records) /\ Cardinality(Records) = NumRecords
      BY <2>1, FS_Interval DEF Records
    <3>3. \E x, y \in 1 .. Len(l) : x # y /\ l[x] = l[y]
      BY <2>1, <2>2, <3>1, <3>2, FS_PigeonHole
    <3> QED
      BY <1>2, <3>3 DEF Different
  <2> QED
    <3>1. Len(l) \in 0 .. NumRecords
      BY <2>1, <2>3
    <3>2. l \in UNION {[1 .. n -> Records] : n \in 0 .. NumRecords}
      BY <2>2, <3>1
    <3> QED
      BY <1>2, <3>2 DEF RecordLists, Different
<1> QED
  BY <1>1, <1>2

\* A record list is one of numbers, and its elements are records.
LEMMA ListTypes ==
    ASSUME NEW l \in RecordLists
    PROVE  /\ l \in Seq(Records) /\ l \in Seq(Nat) /\ Len(l) \in Nat /\ Elements(l) \subseteq Records
           /\ \A i \in 1 .. Len(l) : l[i] \in Records /\ l[i] \in Elements(l)
           /\ \A x \in Elements(l) : \E i \in 1 .. Len(l) : x = l[i]
           /\ (l = <<>>) <=> (Elements(l) = {})
           /\ (l = <<>>) <=> (Len(l) = 0)
           /\ Different(l)
<1>1. l \in Seq(Records) /\ Different(l)
  BY ListsAre
<1>2. l \in Seq(Nat)
  BY <1>1, SizesAssumption DEF Records
<1>3. /\ \A i \in 1 .. Len(l) : l[i] \in Records /\ l[i] \in Elements(l)
      /\ \A x \in Elements(l) : \E i \in 1 .. Len(l) : x = l[i]
  BY <1>1 DEF Elements
<1>4. (l = <<>>) <=> (Len(l) = 0)
  BY <1>1
<1>5. (l = <<>>) <=> (Elements(l) = {})
  <2>1. CASE l = <<>>
    BY <2>1 DEF Elements
  <2>2. CASE l # <<>>
    <3>1. 1 \in 1 .. Len(l)
      BY <1>1, <2>2
    <3> QED
      BY <1>3, <2>2, <3>1
  <2> QED
    BY <2>1, <2>2
<1> QED
  BY <1>1, <1>2, <1>3, <1>4, <1>5

\* The empty list.
LEMMA EmptyList == <<>> \in RecordLists /\ Elements(<<>>) = {}
<1>1. <<>> \in Seq(Records) /\ Different(<<>>) /\ Elements(<<>>) = {}
  BY DEF Different, Elements
<1> QED
  BY <1>1, ListsAre

\* A single record is a list.
LEMMA ListOne ==
    ASSUME NEW x \in Records
    PROVE  <<x>> \in RecordLists /\ Elements(<<x>>) = {x}
<1>1. <<x>> \in Seq(Records) /\ Len(<<x>>) = 1 /\ <<x>>[1] = x
  OBVIOUS
<1>2. Different(<<x>>) /\ Elements(<<x>>) = {x}
  BY <1>1 DEF Different, Elements
<1> QED
  BY <1>1, <1>2, ListsAre

\* What follows the first record is a list.
LEMMA ListTail ==
    ASSUME NEW l \in RecordLists, l # <<>>
    PROVE  /\ Tail(l) \in RecordLists /\ Len(Tail(l)) = Len(l) - 1
           /\ \A i \in 1 .. Len(l) - 1 : Tail(l)[i] = l[i + 1]
           /\ l[1] \in Records /\ l[1] \notin Elements(Tail(l))
           /\ Elements(l) = {l[1]} \cup Elements(Tail(l))
<1>1. l \in Seq(Records) /\ Different(l) /\ Len(l) \in Nat /\ Len(l) # 0
  BY ListTypes
<1>2. /\ Tail(l) \in Seq(Records) /\ Len(Tail(l)) = Len(l) - 1
      /\ \A i \in 1 .. Len(l) - 1 : Tail(l)[i] = l[i + 1]
  BY <1>1
<1>3. Different(Tail(l))
  BY <1>1, <1>2 DEF Different
<1>4. Elements(l) = {l[1]} \cup Elements(Tail(l))
  <2>1. \A x \in Elements(l) : x = l[1] \/ x \in Elements(Tail(l))
    <3> SUFFICES ASSUME NEW i \in 1 .. Len(l), i # 1 PROVE l[i] \in Elements(Tail(l))
      BY DEF Elements
    <3>1. i - 1 \in 1 .. Len(Tail(l)) /\ Tail(l)[i - 1] = l[i]
      BY <1>1, <1>2
    <3> QED
      BY <3>1 DEF Elements
  <2>2. \A x \in Elements(Tail(l)) : x \in Elements(l)
    <3> SUFFICES ASSUME NEW i \in 1 .. Len(Tail(l)) PROVE Tail(l)[i] \in Elements(l)
      BY DEF Elements
    <3>1. i + 1 \in 1 .. Len(l) /\ Tail(l)[i] = l[i + 1]
      BY <1>1, <1>2
    <3> QED
      BY <3>1 DEF Elements
  <2>3. l[1] \in Elements(l)
    BY <1>1 DEF Elements
  <2> QED
    BY <2>1, <2>2, <2>3
<1>5. l[1] \notin Elements(Tail(l))
  <2> SUFFICES ASSUME NEW i \in 1 .. Len(Tail(l)), Tail(l)[i] = l[1] PROVE FALSE
    BY DEF Elements
  <2>1. i + 1 \in 1 .. Len(l) /\ 1 \in 1 .. Len(l) /\ i + 1 # 1 /\ l[i + 1] = l[1]
    BY <1>1, <1>2
  <2> QED
    BY <1>1, <2>1 DEF Different
<1>6. l[1] \in Records
  BY <1>1
<1> QED
  BY <1>2, <1>3, <1>4, <1>5, <1>6, ListsAre

\* Lists without a record in common, one behind the other.
LEMMA ListConcat ==
    ASSUME NEW l \in RecordLists, NEW m \in RecordLists, Elements(l) \cap Elements(m) = {}
    PROVE  /\ l \o m \in RecordLists /\ Len(l \o m) = Len(l) + Len(m)
           /\ \A i \in 1 .. Len(l) : (l \o m)[i] = l[i]
           /\ \A i \in 1 .. Len(m) : (l \o m)[Len(l) + i] = m[i]
           /\ \A i \in 1 .. Len(l \o m) : i \in 1 .. Len(l) \/ i - Len(l) \in 1 .. Len(m)
           /\ Elements(l \o m) = Elements(l) \cup Elements(m)
<1>1. /\ l \in Seq(Records) /\ m \in Seq(Records) /\ Len(l) \in Nat /\ Len(m) \in Nat
      /\ Different(l) /\ Different(m)
  BY ListTypes
<1> DEFINE c == l \o m
<1>2. /\ c \in Seq(Records) /\ Len(c) = Len(l) + Len(m)
      /\ \A i \in 1 .. Len(c) : c[i] = IF i <= Len(l) THEN l[i] ELSE m[i - Len(l)]
  BY <1>1
<1> HIDE DEF c
<1>3. /\ \A i \in 1 .. Len(l) : i \in 1 .. Len(c) /\ c[i] = l[i]
      /\ \A i \in 1 .. Len(m) : Len(l) + i \in 1 .. Len(c) /\ c[Len(l) + i] = m[i]
      /\ \A i \in 1 .. Len(c) : i \in 1 .. Len(l) \/ i - Len(l) \in 1 .. Len(m)
  <2>1. \A i \in 1 .. Len(m) : Len(l) + i \in 1 .. Len(c) /\ ~(Len(l) + i <= Len(l)) /\ Len(l) + i - Len(l) = i
    BY <1>1, <1>2
  <2>2. \A i \in 1 .. Len(m) : c[Len(l) + i] = m[i]
    BY <1>2, <2>1
  <2> QED
    BY <1>1, <1>2, <2>1, <2>2
<1>4. Elements(c) = Elements(l) \cup Elements(m)
  <2>1. \A x \in Elements(c) : x \in Elements(l) \cup Elements(m)
    <3> SUFFICES ASSUME NEW i \in 1 .. Len(c) PROVE c[i] \in Elements(l) \cup Elements(m)
      BY DEF Elements
    <3>1. CASE i \in 1 .. Len(l)
      BY <1>3, <3>1 DEF Elements
    <3>2. CASE i - Len(l) \in 1 .. Len(m)
      <4>1. c[i] = m[i - Len(l)]
        BY <1>1, <1>2, <3>2
      <4> QED
        BY <3>2, <4>1 DEF Elements
    <3> QED
      BY <1>3, <3>1, <3>2
  <2>2. Elements(l) \subseteq Elements(c) /\ Elements(m) \subseteq Elements(c)
    <3>1. \A i \in 1 .. Len(l) : l[i] \in Elements(c)
      BY <1>3 DEF Elements
    <3>2. \A i \in 1 .. Len(m) : m[i] \in Elements(c)
      <4> TAKE i \in 1 .. Len(m)
      <4>1. Len(l) + i \in 1 .. Len(c) /\ c[Len(l) + i] = m[i]
        BY <1>3
      <4> QED
        BY <4>1 DEF Elements
    <3> QED
      BY <3>1, <3>2 DEF Elements
  <2> QED
    BY <2>1, <2>2
<1>5. Different(c)
  <2> SUFFICES ASSUME NEW i \in 1 .. Len(c), NEW j \in 1 .. Len(c), i # j, c[i] = c[j] PROVE FALSE
    BY DEF Different
  <2>1. CASE i \in 1 .. Len(l) /\ j \in 1 .. Len(l)
    BY <1>1, <1>3, <2>1 DEF Different
  <2>2. CASE i - Len(l) \in 1 .. Len(m) /\ j - Len(l) \in 1 .. Len(m)
    <3>1. c[i] = m[i - Len(l)] /\ c[j] = m[j - Len(l)] /\ i - Len(l) # j - Len(l)
      BY <1>1, <1>2, <2>2
    <3> QED
      BY <1>1, <2>2, <3>1 DEF Different
  <2>3. CASE i \in 1 .. Len(l) /\ j - Len(l) \in 1 .. Len(m)
    <3>1. c[i] = l[i] /\ c[j] = m[j - Len(l)]
      BY <1>1, <1>2, <2>3
    <3> QED
      BY <2>3, <3>1 DEF Elements
  <2>4. CASE j \in 1 .. Len(l) /\ i - Len(l) \in 1 .. Len(m)
    <3>1. c[j] = l[j] /\ c[i] = m[i - Len(l)]
      BY <1>1, <1>2, <2>4
    <3> QED
      BY <2>4, <3>1 DEF Elements
  <2> QED
    BY <1>3, <2>1, <2>2, <2>3, <2>4
<1>6. c \in RecordLists
  BY <1>2, <1>5, ListsAre
<1> QED
  BY <1>2, <1>3, <1>4, <1>6 DEF c

\* One record more at the end.
LEMMA ListAppend ==
    ASSUME NEW l \in RecordLists, NEW x \in Records, x \notin Elements(l)
    PROVE  /\ Append(l, x) \in RecordLists /\ Elements(Append(l, x)) = Elements(l) \cup {x}
           /\ Len(Append(l, x)) = Len(l) + 1 /\ Append(l, x)[Len(l) + 1] = x
           /\ \A i \in 1 .. Len(l) : Append(l, x)[i] = l[i]
<1>1. <<x>> \in RecordLists /\ Elements(<<x>>) = {x} /\ Len(<<x>>) = 1 /\ <<x>>[1] = x
  BY ListOne
<1>2. Append(l, x) = l \o <<x>>
  BY ListTypes
<1>3. Elements(l) \cap Elements(<<x>>) = {}
  BY <1>1
<1>4. /\ l \o <<x>> \in RecordLists /\ Len(l \o <<x>>) = Len(l) + Len(<<x>>)
      /\ \A i \in 1 .. Len(l) : (l \o <<x>>)[i] = l[i]
      /\ \A i \in 1 .. Len(<<x>>) : (l \o <<x>>)[Len(l) + i] = <<x>>[i]
      /\ Elements(l \o <<x>>) = Elements(l) \cup Elements(<<x>>)
  BY <1>1, <1>3, ListConcat
<1>5. (l \o <<x>>)[Len(l) + 1] = x
  BY <1>1, <1>4
<1> QED
  BY <1>1, <1>2, <1>4, <1>5

--------------------------------------------------------------------------------
(* 3. Linked lists                                                           *)

\* There is one list only behind a head.
LEMMA LinkedOnce ==
    ASSUME NEW next, NEW head, NEW l \in RecordLists, NEW m \in RecordLists,
           Linked(next, head, l), Linked(next, head, m)
    PROVE  l = m
<1>1. /\ l \in Seq(Records) /\ m \in Seq(Records) /\ Len(l) \in Nat /\ Len(m) \in Nat
      /\ \A i \in 1 .. Len(l) : l[i] \in Records
      /\ \A i \in 1 .. Len(m) : m[i] \in Records
      /\ (l = <<>>) <=> (Len(l) = 0)
      /\ (m = <<>>) <=> (Len(m) = 0)
  BY ListTypes
<1>2. Nil \notin Records
  BY DEF Nil, Records
<1>3. /\ head = IF l = <<>> THEN Nil ELSE l[1]
      /\ head = IF m = <<>> THEN Nil ELSE m[1]
      /\ \A i \in 1 .. Len(l) : next[l[i]] = IF i = Len(l) THEN Nil ELSE l[i + 1]
      /\ \A i \in 1 .. Len(m) : next[m[i]] = IF i = Len(m) THEN Nil ELSE m[i + 1]
  BY DEF Linked
<1> DEFINE Same(i) == i <= Len(l) /\ i <= Len(m) /\ l[i] = m[i]
           S == {n \in Nat : n + 1 <= Len(l) \/ n + 1 <= Len(m) => Same(n + 1)}
<1>4. 0 \in S
  <2>1. CASE l = <<>>
    <3>1. m = <<>>
      BY <1>1, <1>2, <1>3, <2>1
    <3> QED
      BY <1>1, <2>1, <3>1
  <2>2. CASE l # <<>>
    <3>1. 1 \in 1 .. Len(l) /\ head = l[1] /\ head # Nil
      BY <1>1, <1>2, <1>3, <2>2
    <3>2. m # <<>>
      BY <1>3, <3>1
    <3> QED
      BY <1>1, <1>3, <2>2, <3>1, <3>2
  <2> QED
    BY <2>1, <2>2
<1>5. \A n \in S : n + 1 \in S
  <2> SUFFICES ASSUME NEW n \in S, (n + 1) + 1 <= Len(l) \/ (n + 1) + 1 <= Len(m)
               PROVE  Same((n + 1) + 1)
    OBVIOUS
  <2>1. n \in Nat /\ n + 1 \in 1 .. Len(l) /\ n + 1 \in 1 .. Len(m) /\ l[n + 1] = m[n + 1]
    BY <1>1
  <2>2. /\ next[l[n + 1]] = IF n + 1 = Len(l) THEN Nil ELSE l[(n + 1) + 1]
        /\ next[m[n + 1]] = IF n + 1 = Len(m) THEN Nil ELSE m[(n + 1) + 1]
    BY <1>3, <2>1
  <2>3. CASE n + 1 # Len(l)
    <3>1. (n + 1) + 1 \in 1 .. Len(l)
      BY <1>1, <2>1, <2>3
    <3>2. n + 1 # Len(m)
      BY <1>1, <1>2, <2>1, <2>2, <2>3, <3>1
    <3> QED
      BY <1>1, <2>1, <2>2, <2>3, <3>1, <3>2
  <2>4. CASE n + 1 # Len(m)
    <3>1. (n + 1) + 1 \in 1 .. Len(m)
      BY <1>1, <2>1, <2>4
    <3>2. n + 1 # Len(l)
      BY <1>1, <1>2, <2>1, <2>2, <2>4, <3>1
    <3> QED
      BY <1>1, <2>1, <2>2, <2>4, <3>1, <3>2
  <2> QED
    BY <1>1, <2>1, <2>3, <2>4
<1>6. S = Nat
  <2>1. S \in SUBSET Nat
    OBVIOUS
  <2> HIDE DEF S
  <2> QED
    BY <1>4, <1>5, <2>1, SetInduction
<1> HIDE DEF S
<1>7. \A i \in 1 .. Len(l) : i <= Len(m) /\ l[i] = m[i]
  <2> TAKE i \in 1 .. Len(l)
  <2>1. i - 1 \in S /\ (i - 1) + 1 = i
    BY <1>1, <1>6
  <2> QED
    BY <1>1, <2>1 DEF S
<1>8. \A i \in 1 .. Len(m) : i <= Len(l)
  <2> TAKE i \in 1 .. Len(m)
  <2>1. i - 1 \in S /\ (i - 1) + 1 = i
    BY <1>1, <1>6
  <2> QED
    BY <1>1, <2>1 DEF S
<1>9. Len(l) = Len(m)
  BY <1>1, <1>7, <1>8
<1> QED
  BY <1>1, <1>7, <1>9

\* Chain finds the list behind a head.
LEMMA ChainIs ==
    ASSUME NEW next, NEW head, NEW l \in RecordLists, Linked(next, head, l)
    PROVE  Chain(next, head) = l
<1>1. /\ Chain(next, head) \in RecordLists
      /\ Linked(next, head, Chain(next, head))
  BY DEF Chain
<1> QED
  BY <1>1, LinkedOnce

\* Behind nil there is no record.
LEMMA NilIsEmpty ==
    ASSUME NEW next
    PROVE  Linked(next, Nil, <<>>) /\ Chain(next, Nil) = <<>>
<1>1. Linked(next, Nil, <<>>)
  BY DEF Linked
<1> QED
  BY <1>1, EmptyList, ChainIs

\* The head of a list is its first record.
LEMMA LinkedHead ==
    ASSUME NEW next, NEW head, NEW l \in RecordLists, Linked(next, head, l)
    PROVE  /\ (head = Nil) <=> (l = <<>>)
           /\ head # Nil => head = l[1] /\ head \in Records /\ head \in Elements(l) /\ 1 \in 1 .. Len(l)
<1>1. Nil \notin Records
  BY DEF Nil, Records
<1>2. l # <<>> => 1 \in 1 .. Len(l) /\ l[1] \in Records /\ l[1] \in Elements(l)
  BY ListTypes
<1> QED
  BY <1>1, <1>2 DEF Linked

\* A list is what it was when its records are linked as before.
LEMMA LinkedFrame ==
    ASSUME NEW next, NEW nxt, NEW head, NEW l \in RecordLists, Linked(next, head, l),
           \A x \in Elements(l) : nxt[x] = next[x]
    PROVE  Linked(nxt, head, l)
<1>1. \A i \in 1 .. Len(l) : l[i] \in Elements(l)
  BY ListTypes
<1> QED
  BY <1>1 DEF Linked

\* The list behind the first record.
LEMMA LinkedTail ==
    ASSUME NEW next, NEW head, NEW l \in RecordLists, Linked(next, head, l), l # <<>>
    PROVE  Linked(next, next[head], Tail(l))
<1> DEFINE t == Tail(l)
<1>1. /\ t \in RecordLists /\ Len(t) = Len(l) - 1
      /\ \A i \in 1 .. Len(l) - 1 : t[i] = l[i + 1]
  BY ListTail
<1>2. Len(l) \in Nat /\ Len(l) # 0 /\ (t = <<>>) <=> (Len(t) = 0)
  BY <1>1, ListTypes
<1> HIDE DEF t
<1>3. /\ head = l[1]
      /\ \A i \in 1 .. Len(l) : next[l[i]] = IF i = Len(l) THEN Nil ELSE l[i + 1]
  BY DEF Linked
<1>4. next[head] = IF t = <<>> THEN Nil ELSE t[1]
  <2>1. 1 \in 1 .. Len(l)
    BY <1>2
  <2>2. next[head] = IF 1 = Len(l) THEN Nil ELSE l[1 + 1]
    BY <1>3, <2>1
  <2> QED
    BY <1>1, <1>2, <2>2
<1>5. ASSUME NEW i \in 1 .. Len(t)
      PROVE  next[t[i]] = IF i = Len(t) THEN Nil ELSE t[i + 1]
  <2>1. i \in 1 .. Len(l) - 1 /\ i + 1 \in 1 .. Len(l) /\ t[i] = l[i + 1]
    BY <1>1, <1>2
  <2>2. next[l[i + 1]] = IF i + 1 = Len(l) THEN Nil ELSE l[(i + 1) + 1]
    BY <1>3, <2>1
  <2>3. CASE i = Len(t)
    BY <1>1, <1>2, <2>1, <2>2, <2>3
  <2>4. CASE i # Len(t)
    <3>1. i + 1 \in 1 .. Len(l) - 1 /\ t[i + 1] = l[(i + 1) + 1] /\ i + 1 # Len(l)
      <4>0. Len(t) = Len(l) - 1 /\ Len(l) \in Nat /\ i # Len(l) - 1
        BY <1>1, <1>2, <2>4
      <4>1. i + 1 \in 1 .. Len(l) - 1 /\ i + 1 # Len(l)
        BY <2>1, <4>0
      <4> QED
        BY <1>1, <4>1
    <3> QED
      BY <2>1, <2>2, <2>4, <3>1
  <2> QED
    BY <2>3, <2>4
<1> QED
  BY <1>4, <1>5 DEF Linked, t

End(l) == l[Len(l)]

\* A list is linked to the end of another one.
LEMMA LinkedConcat ==
    ASSUME NEW next, NEW nxt, NEW head, NEW other,
           NEW l \in RecordLists, Linked(next, head, l), l # <<>>,
           NEW m \in RecordLists, Linked(next, other, m), Elements(l) \cap Elements(m) = {},
           \A x \in Elements(l) \cup Elements(m) : nxt[x] = IF x = End(l) THEN other ELSE next[x]
    PROVE  Linked(nxt, head, l \o m)
<1> DEFINE c == l \o m
<1>1. /\ c \in RecordLists /\ Len(c) = Len(l) + Len(m)
      /\ \A i \in 1 .. Len(l) : c[i] = l[i]
      /\ \A i \in 1 .. Len(m) : c[Len(l) + i] = m[i]
      /\ \A i \in 1 .. Len(c) : i \in 1 .. Len(l) \/ i - Len(l) \in 1 .. Len(m)
  BY ListConcat
<1>2. /\ Len(l) \in Nat /\ Len(m) \in Nat /\ Len(l) # 0 /\ Different(l)
      /\ (m = <<>>) <=> (Len(m) = 0)
      /\ \A i \in 1 .. Len(l) : l[i] \in Elements(l)
      /\ \A i \in 1 .. Len(m) : m[i] \in Elements(m)
  BY ListTypes
<1> HIDE DEF c
<1>3. /\ head = l[1] /\ other = IF m = <<>> THEN Nil ELSE m[1]
      /\ \A i \in 1 .. Len(l) : next[l[i]] = IF i = Len(l) THEN Nil ELSE l[i + 1]
      /\ \A i \in 1 .. Len(m) : next[m[i]] = IF i = Len(m) THEN Nil ELSE m[i + 1]
  BY DEF Linked
<1>4. c # <<>> /\ head = c[1]
  BY <1>1, <1>2, <1>3
<1>5. ASSUME NEW i \in 1 .. Len(c)
      PROVE  nxt[c[i]] = IF i = Len(c) THEN Nil ELSE c[i + 1]
  <2>1. CASE i \in 1 .. Len(l) /\ i # Len(l)
    <3>1. c[i] = l[i] /\ i + 1 \in 1 .. Len(l) /\ c[i + 1] = l[i + 1] /\ i # Len(c)
      BY <1>1, <1>2, <2>1
    <3>2. l[i] # End(l)
      BY <1>2, <2>1 DEF Different, End
    <3>3. nxt[l[i]] = next[l[i]]
      BY <1>2, <2>1, <3>2
    <3> QED
      BY <1>3, <2>1, <3>1, <3>3
  <2>2. CASE i = Len(l)
    <3>1. c[i] = End(l) /\ c[i] \in Elements(l)
      BY <1>1, <1>2, <2>2 DEF End
    <3>2. nxt[c[i]] = other
      BY <3>1
    <3>3. CASE m = <<>>
      BY <1>1, <1>2, <1>3, <2>2, <3>2, <3>3
    <3>4. CASE m # <<>>
      <4>1. 1 \in 1 .. Len(m) /\ c[Len(l) + 1] = m[1] /\ i # Len(c)
        BY <1>1, <1>2, <2>2, <3>4
      <4> QED
        BY <1>3, <2>2, <3>2, <3>4, <4>1
    <3> QED
      BY <3>3, <3>4
  <2>3. CASE i - Len(l) \in 1 .. Len(m)
    <3> DEFINE j == i - Len(l)
    <3>1. j \in 1 .. Len(m) /\ i = Len(l) + j /\ c[i] = m[j] /\ (i = Len(c) <=> j = Len(m))
      BY <1>1, <1>2, <2>3
    <3>2. m[j] \in Elements(m) /\ m[j] # End(l)
      <4>1. End(l) \in Elements(l)
        BY <1>2 DEF End
      <4> QED
        BY <1>2, <3>1, <4>1
    <3>3. nxt[m[j]] = next[m[j]]
      BY <3>2
    <3>4. nxt[c[i]] = IF j = Len(m) THEN Nil ELSE m[j + 1]
      BY <1>3, <3>1, <3>3
    <3>5. j # Len(m) => c[i + 1] = m[j + 1]
      <4>1. j # Len(m) => j + 1 \in 1 .. Len(m) /\ i + 1 = Len(l) + (j + 1)
        BY <1>2, <3>1
      <4> HIDE DEF j
      <4> QED
        BY <1>1, <4>1
    <3> QED
      BY <3>1, <3>4, <3>5
  <2> QED
    BY <1>1, <2>1, <2>2, <2>3
<1> QED
  BY <1>4, <1>5 DEF Linked, c

\* LinkNext links the records of a list and leaves the others alone.
LEMMA LinkNextLinks ==
    ASSUME NEW next \in [Records -> Pointer], NEW l \in RecordLists, l # <<>>
    PROVE  /\ LinkNext(next, l) \in [Records -> Pointer]
           /\ Linked(LinkNext(next, l), l[1], l)
           /\ \A x \in Records \ Elements(l) : LinkNext(next, l)[x] = next[x]
<1> DEFINE n == LinkNext(next, l)
           Spot(x) == CHOOSE i \in 1 .. Len(l) : l[i] = x
<1>1. /\ Len(l) \in Nat /\ Len(l) # 0 /\ Different(l)
      /\ \A i \in 1 .. Len(l) : l[i] \in Records
  BY ListTypes
<1>2. n = [x \in Records |->
             IF \E i \in 1 .. Len(l) : l[i] = x
             THEN IF Spot(x) = Len(l) THEN Nil ELSE l[Spot(x) + 1]
             ELSE next[x]]
  BY DEF LinkNext
<1>3. \A i \in 1 .. Len(l) : Spot(l[i]) = i
  <2> TAKE i \in 1 .. Len(l)
  <2>1. Spot(l[i]) \in 1 .. Len(l) /\ l[Spot(l[i])] = l[i]
    OBVIOUS
  <2> QED
    BY <1>1, <2>1 DEF Different
<1>4. \A x \in Records : (\E i \in 1 .. Len(l) : l[i] = x) => Spot(x) \in 1 .. Len(l)
  OBVIOUS
<1> HIDE DEF n, Spot
<1>5. \A i \in 1 .. Len(l) : n[l[i]] = IF i = Len(l) THEN Nil ELSE l[i + 1]
  BY <1>1, <1>2, <1>3
<1>6. \A x \in Records \ Elements(l) : n[x] = next[x]
  BY <1>2 DEF Elements
<1>7. n \in [Records -> Pointer]
  <2>1. \A x \in Records : n[x] \in Pointer
    <3> TAKE x \in Records
    <3>1. CASE \E i \in 1 .. Len(l) : l[i] = x
      BY <1>1, <1>5, <3>1 DEF Pointer
    <3>2. CASE ~\E i \in 1 .. Len(l) : l[i] = x
      BY <1>2, <3>2
    <3> QED
      BY <3>1, <3>2
  <2> QED
    BY <1>2, <2>1
<1> QED
  BY <1>5, <1>6, <1>7 DEF Linked, n

--------------------------------------------------------------------------------
(* 4. Sorted lists, and merging them                                         *)

Rising(l) == \A i, j \in 1 .. Len(l) : i < j => l[i] < l[j]
Before(A, B) == \A x \in A, y \in B : x < y

\* Records are numbers, no two of which are before each other.
LEMMA BeforeApart ==
    ASSUME NEW A, NEW B \in SUBSET Records, Before(A, B), A \subseteq Records
    PROVE  A \cap B = {}
BY DEF Before, Records

\* Lists of up to one record are sorted.
LEMMA RisingOne ==
    /\ Rising(<<>>)
    /\ \A x : Rising(<<x>>)
<1>1. Rising(<<>>)
  BY DEF Rising
<1>2. ASSUME NEW x PROVE Rising(<<x>>)
  <2>1. Len(<<x>>) = 1
    OBVIOUS
  <2> QED
    BY <2>1 DEF Rising
<1> QED
  BY <1>1, <1>2

\* The first of a sorted list is before the others.
LEMMA RisingTail ==
    ASSUME NEW l \in RecordLists, Rising(l), l # <<>>
    PROVE  Rising(Tail(l)) /\ Before({l[1]}, Elements(Tail(l)))
<1> DEFINE t == Tail(l)
<1>1. /\ t \in RecordLists /\ Len(t) = Len(l) - 1
      /\ \A i \in 1 .. Len(l) - 1 : t[i] = l[i + 1]
  BY ListTail
<1>2. Len(l) \in Nat /\ Len(l) # 0
  BY ListTypes
<1> HIDE DEF t
<1>3. \A i \in 1 .. Len(t) : i + 1 \in 1 .. Len(l) /\ t[i] = l[i + 1]
  BY <1>1, <1>2
<1>4. Rising(t)
  <2> SUFFICES ASSUME NEW i \in 1 .. Len(t), NEW j \in 1 .. Len(t), i < j PROVE t[i] < t[j]
    BY DEF Rising
  <2>1. i + 1 < j + 1
    BY <1>1, <1>2
  <2> QED
    BY <1>3, <2>1 DEF Rising
<1>5. \A i \in 1 .. Len(t) : l[1] < t[i]
  <2> TAKE i \in 1 .. Len(t)
  <2>1. i + 1 \in 1 .. Len(l) /\ 1 \in 1 .. Len(l) /\ 1 < i + 1 /\ t[i] = l[i + 1]
    BY <1>1, <1>2, <1>3
  <2> QED
    BY <2>1 DEF Rising
<1>6. Before({l[1]}, Elements(t))
  BY <1>5 DEF Before, Elements
<1> QED
  BY <1>4, <1>6 DEF t

\* Sorted lists, one before the other.
LEMMA RisingConcat ==
    ASSUME NEW l \in RecordLists, NEW m \in RecordLists, Rising(l), Rising(m),
           Before(Elements(l), Elements(m))
    PROVE  /\ l \o m \in RecordLists /\ Rising(l \o m)
           /\ Elements(l \o m) = Elements(l) \cup Elements(m)
           /\ Len(l \o m) = Len(l) + Len(m)
<1>1. /\ Len(l) \in Nat /\ Len(m) \in Nat /\ Elements(l) \subseteq Records
      /\ Elements(m) \subseteq Records
      /\ \A i \in 1 .. Len(l) : l[i] \in Elements(l)
      /\ \A i \in 1 .. Len(m) : m[i] \in Elements(m)
  BY ListTypes
<1>2. Elements(l) \cap Elements(m) = {}
  BY <1>1, BeforeApart
<1> DEFINE c == l \o m
<1>3. /\ c \in RecordLists /\ Len(c) = Len(l) + Len(m)
      /\ \A i \in 1 .. Len(l) : c[i] = l[i]
      /\ \A i \in 1 .. Len(m) : c[Len(l) + i] = m[i]
      /\ \A i \in 1 .. Len(c) : i \in 1 .. Len(l) \/ i - Len(l) \in 1 .. Len(m)
      /\ Elements(c) = Elements(l) \cup Elements(m)
  BY <1>2, ListConcat
<1> HIDE DEF c
<1>4. \A i \in 1 .. Len(c) : i - Len(l) \in 1 .. Len(m) => c[i] = m[i - Len(l)]
  <2> SUFFICES ASSUME NEW i \in 1 .. Len(c), i - Len(l) \in 1 .. Len(m)
               PROVE  c[i] = m[i - Len(l)]
    OBVIOUS
  <2>1. Len(l) + (i - Len(l)) = i
    BY <1>1
  <2> QED
    BY <1>3, <2>1
<1>5. Rising(c)
  <2> SUFFICES ASSUME NEW i \in 1 .. Len(c), NEW j \in 1 .. Len(c), i < j PROVE c[i] < c[j]
    BY DEF Rising
  <2>1. CASE i \in 1 .. Len(l) /\ j \in 1 .. Len(l)
    BY <1>3, <2>1 DEF Rising
  <2>2. CASE i \in 1 .. Len(l) /\ j - Len(l) \in 1 .. Len(m)
    BY <1>1, <1>3, <1>4, <2>2 DEF Before
  <2>3. CASE i - Len(l) \in 1 .. Len(m) /\ j - Len(l) \in 1 .. Len(m)
    <3>1. i - Len(l) < j - Len(l)
      BY <1>1
    <3> QED
      BY <1>4, <2>3, <3>1 DEF Rising
  <2>4. ~(i - Len(l) \in 1 .. Len(m) /\ j \in 1 .. Len(l))
    BY <1>1
  <2> QED
    BY <1>3, <2>1, <2>2, <2>3, <2>4
<1> QED
  BY <1>3, <1>5 DEF c

\* A record behind a sorted list.
LEMMA RisingAppend ==
    ASSUME NEW l \in RecordLists, Rising(l), NEW x \in Records, Before(Elements(l), {x})
    PROVE  /\ Append(l, x) \in RecordLists /\ Rising(Append(l, x))
           /\ Elements(Append(l, x)) = Elements(l) \cup {x}
           /\ Len(Append(l, x)) = Len(l) + 1 /\ Append(l, x)[Len(l) + 1] = x
<1>1. Append(l, x) = l \o <<x>> /\ Elements(l) \subseteq Records
  BY ListTypes
<1>2. <<x>> \in RecordLists /\ Elements(<<x>>) = {x} /\ Rising(<<x>>)
  BY ListOne, RisingOne
<1>3. /\ l \o <<x>> \in RecordLists /\ Rising(l \o <<x>>)
      /\ Elements(l \o <<x>>) = Elements(l) \cup Elements(<<x>>)
  BY <1>2, RisingConcat
<1>4. x \notin Elements(l)
  BY <1>1 DEF Before, Records
<1> QED
  BY <1>1, <1>2, <1>3, <1>4, ListAppend

\* Lists 0 and 1 are merged into list 2; they are sorted if f holds.
MergingIf(f, l) ==
    /\ l \in [0 .. 2 -> RecordLists]
    /\ f => /\ \A q \in 0 .. 2 : Rising(l[q])
            /\ \A q \in 0 .. 1 : Before(Elements(l[2]), Elements(l[q]))
    /\ \A p, q \in 0 .. 2 : p # q => Elements(l[p]) \cap Elements(l[q]) = {}
All(l) == Elements(l[0]) \cup Elements(l[1]) \cup Elements(l[2])
Total(l) == Len(l[0]) + Len(l[1]) + Len(l[2])

\* The list with the smaller head, and the lists after its head was moved.
Smaller(l) == IF l[0][1] < l[1][1] THEN 0 ELSE 1
Moved(l) ==
    [p \in 0 .. 2 |-> IF p = 2 THEN Append(l[2], l[Smaller(l)][1])
                      ELSE IF p = Smaller(l) THEN Tail(l[p]) ELSE l[p]]

\* The smaller one of the heads is moved: what a pass of the merge loops does.
MovesOn(f, l, m, q, x) ==
    /\ q \in 0 .. 1 /\ x \in Records /\ x = l[q][1]
    /\ MergingIf(f, m) /\ All(m) = All(l) /\ Total(m) = Total(l)
    /\ m[q] = Tail(l[q]) /\ m[1 - q] = l[1 - q] /\ m[2] = Append(l[2], x)
    /\ Elements(m[2]) = Elements(l[2]) \cup {x} /\ x \notin Elements(l[2])
    /\ Elements(l[q]) = Elements(m[q]) \cup {x} /\ x \notin Elements(l[1 - q])
    /\ \A p \in 0 .. 1 : x <= l[p][1] /\ l[p][1] \in Elements(l[p])
    /\ \A p \in 0 .. 1 : Elements(m[p]) \subseteq Elements(l[p])

\* One pass moves the smaller of the two first records to the output.
LEMMA MoveOne ==
    ASSUME NEW f, NEW l, MergingIf(f, l), l[0] # <<>>, l[1] # <<>>
    PROVE  MovesOn(f, l, Moved(l), Smaller(l), l[Smaller(l)][1])
<1> DEFINE q == Smaller(l)
           x == l[q][1]
           y == l[1 - q][1]
           m == Moved(l)
<1>1. /\ \A p \in 0 .. 2 : l[p] \in RecordLists /\ (f => Rising(l[p]))
      /\ \A p \in 0 .. 1 : (f => Before(Elements(l[2]), Elements(l[p]))) /\ l[p] # <<>>
      /\ \A p, o \in 0 .. 2 : p # o => Elements(l[p]) \cap Elements(l[o]) = {}
  BY DEF MergingIf
<1>2. q \in 0 .. 1 /\ 1 - q \in 0 .. 1 /\ q # 1 - q /\ 1 - q # 2 /\ q # 2
      /\ \A p \in 0 .. 1 : p = q \/ p = 1 - q
  BY DEF Smaller
<1>3. /\ \A p \in 0 .. 1 : l[p][1] \in Records /\ l[p][1] \in Elements(l[p])
      /\ \A p \in 0 .. 2 : Elements(l[p]) \subseteq Records /\ Len(l[p]) \in Nat
  <2>1. \A p \in 0 .. 2 : Elements(l[p]) \subseteq Records /\ Len(l[p]) \in Nat
    BY <1>1, ListTypes
  <2>2. ASSUME NEW p \in 0 .. 1 PROVE l[p][1] \in Records /\ l[p][1] \in Elements(l[p])
    <3>1. l[p] \in RecordLists /\ l[p] # <<>>
      BY <1>1
    <3> QED
      BY <3>1, ListTail
  <2> QED
    BY <2>1, <2>2
<1>4. /\ q = 0 => l[0][1] < l[1][1]
      /\ q = 1 => ~(l[0][1] < l[1][1])
  BY DEF Smaller
<1>5. /\ m = [p \in 0 .. 2 |-> IF p = 2 THEN Append(l[2], x) ELSE IF p = q THEN Tail(l[p]) ELSE l[p]]
  BY DEF Moved
<1> HIDE DEF q, m
<1>6. x \in Records /\ y \in Records /\ x \in Elements(l[q]) /\ y \in Elements(l[1 - q])
  BY <1>2, <1>3
<1>7. Elements(l[q]) \cap Elements(l[1 - q]) = {}
  BY <1>1, <1>2
<1>8. x <= y /\ x < y
  <2>1. x # y
    BY <1>6, <1>7
  <2>2. CASE q = 0
    BY <1>4, <1>6, <2>1, <2>2 DEF Records
  <2>3. CASE q = 1
    BY <1>4, <1>6, <2>1, <2>3 DEF Records
  <2> QED
    BY <1>2, <2>2, <2>3
<1>9. m[2] = Append(l[2], x) /\ m[q] = Tail(l[q]) /\ m[1 - q] = l[1 - q]
  BY <1>2, <1>5
<1>10. /\ Tail(l[q]) \in RecordLists /\ Len(Tail(l[q])) = Len(l[q]) - 1
       /\ x \notin Elements(Tail(l[q])) /\ Elements(l[q]) = {x} \cup Elements(Tail(l[q]))
  BY <1>1, <1>2, ListTail
<1>11. f => Rising(Tail(l[q])) /\ Before({x}, Elements(Tail(l[q])))
  BY <1>1, <1>2, RisingTail
<1>24. x \notin Elements(l[2]) /\ x \notin Elements(l[1 - q])
  BY <1>1, <1>2, <1>6
<1>12. /\ Append(l[2], x) \in RecordLists /\ (f => Rising(Append(l[2], x)))
       /\ Elements(Append(l[2], x)) = Elements(l[2]) \cup {x}
       /\ Len(Append(l[2], x)) = Len(l[2]) + 1
  <2>1. f => Before(Elements(l[2]), {x})
    BY <1>1, <1>2, <1>6 DEF Before
  <2>2. f => Rising(Append(l[2], x))
    BY <1>1, <1>6, <2>1, RisingAppend
  <2> QED
    BY <1>1, <1>6, <1>24, <2>2, ListAppend
<1>13. ASSUME f PROVE Before({x}, Elements(l[1 - q]))
  <2> SUFFICES ASSUME NEW z \in Elements(l[1 - q]), z # y PROVE x < z
    BY <1>8 DEF Before
  <2>1. /\ Elements(l[1 - q]) = {y} \cup Elements(Tail(l[1 - q]))
        /\ Before({y}, Elements(Tail(l[1 - q])))
    BY <1>1, <1>2, <1>13, ListTail, RisingTail
  <2>2. y < z /\ z \in Records
    BY <1>2, <1>3, <2>1 DEF Before
  <2> QED
    BY <1>6, <1>8, <2>2 DEF Records
<1>15. \A p \in 0 .. 2 : p = 2 \/ p = q \/ p = 1 - q
  BY <1>2
<1>14. m \in [0 .. 2 -> RecordLists]
  <2>1. \A p \in 0 .. 2 : m[p] \in RecordLists
    <3>1. m[2] \in RecordLists /\ m[q] \in RecordLists /\ m[1 - q] \in RecordLists
      BY <1>1, <1>2, <1>9, <1>10, <1>12
    <3> QED
      BY <1>15, <3>1
  <2> QED
    BY <1>5, <2>1
<1>16. ASSUME f PROVE \A p \in 0 .. 2 : Rising(m[p])
  <2>1. Rising(m[2]) /\ Rising(m[q]) /\ Rising(m[1 - q])
    BY <1>1, <1>2, <1>9, <1>11, <1>12, <1>16
  <2> QED
    BY <1>15, <2>1
<1>17. ASSUME f PROVE \A p \in 0 .. 1 : Before(Elements(m[2]), Elements(m[p]))
  <2>1. Before(Elements(l[2]), Elements(l[q])) /\ Before(Elements(l[2]), Elements(l[1 - q]))
    BY <1>1, <1>2, <1>17
  <2>2. Before(Elements(m[2]), Elements(m[q]))
    BY <1>9, <1>10, <1>11, <1>12, <1>17, <2>1 DEF Before
  <2>3. Before(Elements(m[2]), Elements(m[1 - q]))
    BY <1>9, <1>12, <1>13, <1>17, <2>1 DEF Before
  <2> QED
    BY <1>2, <2>2, <2>3
<1>18. \A p, o \in 0 .. 2 : p # o => Elements(m[p]) \cap Elements(m[o]) = {}
  <2>1. Elements(m[q]) \cap Elements(m[1 - q]) = {}
    BY <1>7, <1>9, <1>10
  <2>2. Elements(l[2]) \cap Elements(l[q]) = {} /\ Elements(l[2]) \cap Elements(l[1 - q]) = {}
    BY <1>1, <1>2
  <2>3. Elements(m[2]) \cap Elements(m[q]) = {} /\ Elements(m[2]) \cap Elements(m[1 - q]) = {}
    BY <1>9, <1>10, <1>12, <1>24, <2>2
  <2> QED
    BY <1>15, <2>1, <2>3
<1>19. MergingIf(f, m)
  BY <1>14, <1>16, <1>17, <1>18 DEF MergingIf
<1>20. All(m) = All(l)
  <2>1. All(m) = Elements(m[q]) \cup Elements(m[1 - q]) \cup Elements(m[2])
    BY <1>2 DEF All
  <2>2. All(l) = Elements(l[q]) \cup Elements(l[1 - q]) \cup Elements(l[2])
    BY <1>2 DEF All
  <2> QED
    BY <1>9, <1>10, <1>12, <2>1, <2>2
<1>21. Total(m) = Total(l)
  <2>1. Len(l[q]) \in Nat /\ Len(l[1 - q]) \in Nat /\ Len(l[2]) \in Nat
    BY <1>2, <1>3
  <2>2. Len(m[q]) = Len(l[q]) - 1 /\ Len(m[1 - q]) = Len(l[1 - q]) /\ Len(m[2]) = Len(l[2]) + 1
    BY <1>9, <1>10, <1>12
  <2>3. CASE q = 0
    <3>1. Len(l[0]) = Len(l[q]) /\ Len(l[1]) = Len(l[1 - q])
      BY <2>3
    <3>2. Len(m[0]) = Len(m[q]) /\ Len(m[1]) = Len(m[1 - q])
      BY <2>3
    <3>3. Total(l) = Len(l[0]) + Len(l[1]) + Len(l[2]) /\ Total(m) = Len(m[0]) + Len(m[1]) + Len(m[2])
      BY DEF Total
    <3> DEFINE a == Len(l[q])
               b == Len(l[1 - q])
               o == Len(l[2])
    <3>4. /\ a \in Nat /\ b \in Nat /\ o \in Nat
          /\ Total(l) \in {a + b + o, b + a + o}
          /\ Total(m) \in {(a - 1) + b + (o + 1), b + (a - 1) + (o + 1)}
      BY <2>1, <2>2, <3>1, <3>2, <3>3
    <3> HIDE DEF a, b, o
    <3> QED
      BY <3>4
  <2>4. CASE q = 1
    <3>1. Len(l[1]) = Len(l[q]) /\ Len(l[0]) = Len(l[1 - q])
      BY <2>4
    <3>2. Len(m[1]) = Len(m[q]) /\ Len(m[0]) = Len(m[1 - q])
      BY <2>4
    <3>3. Total(l) = Len(l[0]) + Len(l[1]) + Len(l[2]) /\ Total(m) = Len(m[0]) + Len(m[1]) + Len(m[2])
      BY DEF Total
    <3> DEFINE a == Len(l[q])
               b == Len(l[1 - q])
               o == Len(l[2])
    <3>4. /\ a \in Nat /\ b \in Nat /\ o \in Nat
          /\ Total(l) \in {a + b + o, b + a + o}
          /\ Total(m) \in {(a - 1) + b + (o + 1), b + (a - 1) + (o + 1)}
      BY <2>1, <2>2, <3>1, <3>2, <3>3
    <3> HIDE DEF a, b, o
    <3> QED
      BY <3>4
  <2> QED
    BY <1>2, <2>3, <2>4
<1>22. \A p \in 0 .. 1 : x <= l[p][1] /\ l[p][1] \in Elements(l[p])
  <2>1. x <= l[q][1] /\ x <= l[1 - q][1]
    BY <1>6, <1>8 DEF Records
  <2> QED
    BY <1>2, <1>3, <2>1
<1>23. \A p \in 0 .. 1 : Elements(m[p]) \subseteq Elements(l[p])
  <2>1. Elements(m[q]) \subseteq Elements(l[q]) /\ Elements(m[1 - q]) \subseteq Elements(l[1 - q])
    BY <1>9, <1>10
  <2> QED
    BY <1>2, <2>1
<1>25. /\ Elements(m[2]) = Elements(l[2]) \cup {x} /\ Elements(l[q]) = Elements(m[q]) \cup {x}
  BY <1>9, <1>10, <1>12
<1>26. x = l[q][1]
  OBVIOUS
<1> HIDE DEF x, y
<1>27. MovesOn(f, l, m, q, x)
  BY <1>2, <1>6, <1>9, <1>19, <1>20, <1>21, <1>22, <1>23, <1>24, <1>25, <1>26 DEF MovesOn
<1> QED
  BY <1>27 DEF q, x, m

--------------------------------------------------------------------------------
(* 5. The sort of a batch                                                    *)

\* A list is one of numbers, with its first and the others.
LEMMA ListParts ==
    ASSUME NEW l \in RecordLists
    PROVE  l \in Lists /\ Len(l) \in Nat /\ (l # <<>> => Head(l) = l[1])
<1>1. l \in Seq(Nat)
  BY ListTypes
<1> QED
  BY <1>1 DEF Lists

\* Two sorted lists are merged into one.
LEMMA MergeSublistSorts ==
    ASSUME NEW a \in RecordLists, NEW b \in RecordLists, Rising(a), Rising(b),
           Elements(a) \cap Elements(b) = {}
    PROVE  /\ mergeSublist[<<a, b>>] \in RecordLists /\ Rising(mergeSublist[<<a, b>>])
           /\ Elements(mergeSublist[<<a, b>>]) = Elements(a) \cup Elements(b)
<1> DEFINE n == Len(a) + Len(b)
           Is(m, l) == m = [a |-> l[0], b |-> l[1], ret |-> l[2]]
           Goes(m, l, k) == /\ Is(m, l) /\ MergingIf(TRUE, l) /\ Total(l) = n
                            /\ All(l) = Elements(a) \cup Elements(b)
                            /\ l[0] = <<>> \/ l[1] = <<>> \/ Len(l[2]) = k
           K == [k \in 0 .. n |-> {m \in Merges : \E l : Goes(m, l, k)}]
           start == [a |-> a, b |-> b, ret |-> <<>>]
           done == Repeat(TakeFirst, start, n)
<1>1. a \in Lists /\ b \in Lists /\ n \in Nat /\ Len(a) \in Nat /\ Len(b) \in Nat
  BY ListParts
<1>2. start \in K[0]
  <2> DEFINE l == [p \in 0 .. 2 |-> IF p = 0 THEN a ELSE IF p = 1 THEN b ELSE <<>>]
  <2>1. l[0] = a /\ l[1] = b /\ l[2] = <<>> /\ Len(<<>>) = 0
    OBVIOUS
  <2>2. <<>> \in RecordLists /\ Elements(<<>>) = {} /\ Rising(<<>>)
    BY EmptyList, RisingOne
  <2>3. l \in [0 .. 2 -> RecordLists]
    BY <2>2
  <2> HIDE DEF l
  <2>4. MergingIf(TRUE, l)
    <3>1. \A q \in 0 .. 2 : q = 0 \/ q = 1 \/ q = 2
      OBVIOUS
    <3>2. \A q \in 0 .. 2 : Rising(l[q])
      BY <2>1, <2>2, <3>1
    <3>3. \A q \in 0 .. 1 : Before(Elements(l[2]), Elements(l[q]))
      BY <2>1, <2>2 DEF Before
    <3>4. \A p, q \in 0 .. 2 : p # q => Elements(l[p]) \cap Elements(l[q]) = {}
      BY <2>1, <2>2, <3>1
    <3> QED
      BY <2>3, <3>2, <3>3, <3>4 DEF MergingIf
  <2>5. Total(l) = n
    BY <1>1, <2>1 DEF Total
  <2>6. All(l) = Elements(a) \cup Elements(b)
    BY <2>1, <2>2 DEF All
  <2>7. Goes(start, l, 0)
    BY <2>1, <2>4, <2>5, <2>6
  <2>8. start \in Merges
    BY <1>1 DEF Merges, Lists
  <2> HIDE DEF Goes
  <2> QED
    BY <1>1, <2>7, <2>8
<1>3. ASSUME NEW k \in 0 .. n - 1, NEW m \in K[k] PROVE TakeFirst[m] \in K[k + 1]
  <2>1. m \in Merges /\ k \in 0 .. n /\ k + 1 \in 0 .. n
    <3> HIDE DEF Goes
    <3> QED
      BY <1>1, <1>3
  <2>2. PICK l : Goes(m, l, k)
    BY <1>3, <2>1
  <2>3. m.a = l[0] /\ m.b = l[1] /\ m.ret = l[2]
    BY <2>2
  <2>4. TakeFirst[m] = IF m.a = <<>> \/ m.b = <<>> THEN m
                       ELSE IF Head(m.a) < Head(m.b)
                       THEN [a |-> Tail(m.a), b |-> m.b, ret |-> Append(m.ret, Head(m.a))]
                       ELSE [a |-> m.a, b |-> Tail(m.b), ret |-> Append(m.ret, Head(m.b))]
    BY <2>1 DEF TakeFirst
  <2>5. CASE m.a = <<>> \/ m.b = <<>>
    <3>1. Goes(m, l, k + 1)
      BY <2>2, <2>3, <2>5
    <3> HIDE DEF Goes
    <3> QED
      BY <2>1, <2>4, <2>5, <3>1
  <2>6. CASE m.a # <<>> /\ m.b # <<>>
    <3> DEFINE q == Smaller(l)
               x == l[q][1]
               o == Moved(l)
    <3>1. MovesOn(TRUE, l, o, q, x)
      BY <2>2, <2>3, <2>6, MoveOne
    <3>2. l[0] \in RecordLists /\ l[1] \in RecordLists /\ l[2] \in RecordLists
      BY <2>2 DEF MergingIf
    <3>3. Head(m.a) = l[0][1] /\ Head(m.b) = l[1][1] /\ Len(l[2]) \in Nat
      BY <2>3, <2>6, <3>2, ListParts
    <3>4. TakeFirst[m] = [a |-> o[0], b |-> o[1], ret |-> o[2]]
      <4>1. CASE l[0][1] < l[1][1]
        <5>1. q = 0 /\ o[0] = Tail(l[0]) /\ o[1] = l[1] /\ o[2] = Append(l[2], l[0][1])
          BY <4>1 DEF Smaller, Moved
        <5> HIDE DEF q, o
        <5> QED
          BY <2>3, <2>4, <2>6, <3>3, <4>1, <5>1
      <4>2. CASE ~(l[0][1] < l[1][1])
        <5>1. q = 1 /\ o[0] = l[0] /\ o[1] = Tail(l[1]) /\ o[2] = Append(l[2], l[1][1])
          BY <4>2 DEF Smaller, Moved
        <5> HIDE DEF q, o
        <5> QED
          BY <2>3, <2>4, <2>6, <3>3, <4>2, <5>1
      <4> QED
        BY <4>1, <4>2
    <3> HIDE DEF q, x, o
    <3>5. MergingIf(TRUE, o) /\ All(o) = All(l) /\ Total(o) = Total(l) /\ o[2] = Append(l[2], x)
      BY <3>1 DEF MovesOn
    <3>6. Len(o[2]) = k + 1
      <4>1. Len(l[2]) = k
        BY <2>2, <2>3, <2>6
      <4>2. Len(Append(l[2], x)) = Len(l[2]) + 1
        BY <3>1, <3>2, ListAppend DEF MovesOn
      <4> QED
        BY <3>5, <4>1, <4>2
    <3>7. Goes(TakeFirst[m], o, k + 1)
      BY <2>2, <3>4, <3>5, <3>6
    <3>8. TakeFirst[m] \in Merges
      <4>1. o[0] \in Lists /\ o[1] \in Lists /\ o[2] \in Lists
        <5>1. o[0] \in RecordLists /\ o[1] \in RecordLists /\ o[2] \in RecordLists
          <6>1. MergingIf(TRUE, o)
            BY <3>5
          <6> QED
            BY <6>1 DEF MergingIf
        <5> QED
          BY <5>1, ListParts
      <4> QED
        BY <3>4, <4>1 DEF Merges
    <3> HIDE DEF Goes
    <3> QED
      BY <2>1, <3>7, <3>8
  <2> QED
    BY <2>5, <2>6
<1>4. done \in K[n]
  <2> HIDE DEF K, start, n
  <2> QED
    BY <1>1, <1>2, <1>3, RepeatReaches
<1>5. mergeSublist[<<a, b>>] = Joined[done]
  BY <1>1 DEF mergeSublist
<1> HIDE DEF done
<1>6. done \in Merges /\ \E l : Goes(done, l, n)
  <2> HIDE DEF Goes
  <2> QED
    BY <1>1, <1>4
<1>7. PICK l : Goes(done, l, n)
  BY <1>6
<1>8. Joined[done] = (l[2] \o l[0]) \o l[1]
  BY <1>6, <1>7 DEF Joined
<1>9. /\ l[0] \in RecordLists /\ l[1] \in RecordLists /\ l[2] \in RecordLists
      /\ Rising(l[0]) /\ Rising(l[1]) /\ Rising(l[2])
      /\ Before(Elements(l[2]), Elements(l[0])) /\ Before(Elements(l[2]), Elements(l[1]))
  BY <1>7 DEF MergingIf
<1>10. l[0] = <<>> \/ l[1] = <<>>
  <2>1. SUFFICES ASSUME l[0] # <<>>, l[1] # <<>> PROVE FALSE
    OBVIOUS
  <2>2. Len(l[0]) \in Nat /\ Len(l[1]) \in Nat /\ Len(l[2]) \in Nat /\ Len(l[0]) # 0
    BY <1>9, <2>1, ListTypes
  <2>3. Len(l[2]) = n /\ Len(l[0]) + Len(l[1]) + Len(l[2]) = n
    BY <1>7, <2>1 DEF Total
  <2> DEFINE i == Len(l[0])
             j == Len(l[1])
             k == Len(l[2])
  <2>4. i \in Nat /\ j \in Nat /\ k \in Nat /\ i # 0 /\ i + j + k = k
    BY <2>2, <2>3
  <2> HIDE DEF i, j, k
  <2> QED
    BY <2>4
<1>11. All(l) = Elements(a) \cup Elements(b)
  BY <1>7
<1>12. CASE l[0] = <<>>
  <2>1. /\ l[2] \o l[1] \in RecordLists /\ Rising(l[2] \o l[1])
        /\ Elements(l[2] \o l[1]) = Elements(l[2]) \cup Elements(l[1])
    BY <1>9, RisingConcat
  <2>2. l[2] \o l[0] = l[2]
    BY <1>9, <1>12, ListTypes
  <2>3. Elements(l[0]) = {}
    BY <1>12, EmptyList
  <2> QED
    BY <1>5, <1>8, <1>11, <2>1, <2>2, <2>3 DEF All
<1>13. CASE l[1] = <<>>
  <2>1. /\ l[2] \o l[0] \in RecordLists /\ Rising(l[2] \o l[0])
        /\ Elements(l[2] \o l[0]) = Elements(l[2]) \cup Elements(l[0])
    BY <1>9, RisingConcat
  <2>2. (l[2] \o l[0]) \o l[1] = l[2] \o l[0]
    BY <2>1, <1>13, ListTypes
  <2>3. Elements(l[1]) = {}
    BY <1>13, EmptyList
  <2> QED
    BY <1>5, <1>8, <1>11, <2>1, <2>2, <2>3 DEF All
<1> QED
  BY <1>10, <1>12, <1>13

\* Sorted lists that have the records of U among them, each in one.
Sublists(heads, U) ==
    /\ heads \in Seq(RecordLists)
    /\ \A i \in 1 .. Len(heads) : Rising(heads[i])
    /\ \A i, j \in 1 .. Len(heads) : i # j => Elements(heads[i]) \cap Elements(heads[j]) = {}
    /\ U = UNION {Elements(heads[i]) : i \in 1 .. Len(heads)}

\* What there is to such sublists, each by itself.
LEMMA SublistsAre ==
    ASSUME NEW heads, NEW U, Sublists(heads, U)
    PROVE  /\ heads \in Seq(RecordLists) /\ Len(heads) \in Nat
           /\ \A i \in 1 .. Len(heads) : heads[i] \in RecordLists /\ Rising(heads[i])
           /\ \A i, j \in 1 .. Len(heads) : i # j => Elements(heads[i]) \cap Elements(heads[j]) = {}
           /\ U = UNION {Elements(heads[i]) : i \in 1 .. Len(heads)}
<1>1. heads \in Seq(RecordLists)
  BY DEF Sublists
<1>2. Len(heads) \in Nat /\ \A i \in 1 .. Len(heads) : heads[i] \in RecordLists
  BY <1>1
<1>3. \A i \in 1 .. Len(heads) : Rising(heads[i])
  BY DEF Sublists
<1>4. \A i, j \in 1 .. Len(heads) : i # j => Elements(heads[i]) \cap Elements(heads[j]) = {}
  BY DEF Sublists
<1>5. U = UNION {Elements(heads[i]) : i \in 1 .. Len(heads)}
  BY Zenon DEF Sublists
<1> QED
  BY <1>1, <1>2, <1>3, <1>4, <1>5, Zenon

\* A round leaves half of them, rounded up.
LEMMA RoundSorts ==
    ASSUME NEW heads, NEW U, Sublists(heads, U)
    PROVE  /\ Sublists(MergeRound(heads), U)
           /\ Len(MergeRound(heads)) = (Len(heads) + 1) \div 2
<1> DEFINE len == Len(heads)
           n == (len + 1) \div 2
           m == MergeRound(heads)
           M(i) == mergeSublist[<<heads[2 * i - 1], heads[2 * i]>>]
<1>1. /\ len \in Nat /\ \A i \in 1 .. len : heads[i] \in RecordLists /\ Rising(heads[i])
      /\ \A i, j \in 1 .. len : i # j => Elements(heads[i]) \cap Elements(heads[j]) = {}
      /\ U = UNION {Elements(heads[i]) : i \in 1 .. len}
  BY SublistsAre, Zenon
<1>2. m = [i \in 1 .. n |-> IF 2 * i > len THEN heads[2 * i - 1] ELSE M(i)]
  BY DEF MergeRound
<1> HIDE DEF len, m
<1>3. n \in Nat /\ \A i \in 1 .. n : 2 * i - 1 \in 1 .. len /\ (~(2 * i > len) => 2 * i \in 1 .. len)
  BY <1>1
<1>4. \A k \in 1 .. len : (k + 1) \div 2 \in 1 .. n /\ k \in {2 * ((k + 1) \div 2) - 1, 2 * ((k + 1) \div 2)}
  BY <1>1
<1> HIDE DEF n
<1> DEFINE Own(i) == IF 2 * i > len THEN {2 * i - 1} ELSE {2 * i - 1, 2 * i}
<1>5. ASSUME NEW i \in 1 .. n
      PROVE  /\ m[i] \in RecordLists /\ Rising(m[i])
             /\ Elements(m[i]) = UNION {Elements(heads[k]) : k \in Own(i)}
  <2>1. CASE 2 * i > len
    <3>1. m[i] = heads[2 * i - 1] /\ Own(i) = {2 * i - 1}
      BY <1>2, <2>1
    <3>2. 2 * i - 1 \in 1 .. len
      BY <1>3
    <3> QED
      BY <1>1, <3>1, <3>2
  <2>2. CASE ~(2 * i > len)
    <3> DEFINE a == heads[2 * i - 1]
               b == heads[2 * i]
    <3>1. m[i] = mergeSublist[<<a, b>>] /\ Own(i) = {2 * i - 1, 2 * i}
      BY <1>2, <2>2
    <3>2. 2 * i - 1 \in 1 .. len /\ 2 * i \in 1 .. len /\ 2 * i - 1 # 2 * i
      BY <1>3, <2>2
    <3>3. /\ a \in RecordLists /\ b \in RecordLists /\ Rising(a) /\ Rising(b)
          /\ Elements(a) \cap Elements(b) = {}
      BY <1>1, <3>2
    <3>4. UNION {Elements(heads[k]) : k \in Own(i)} = Elements(a) \cup Elements(b)
      BY <3>1
    <3> HIDE DEF a, b
    <3>5. /\ mergeSublist[<<a, b>>] \in RecordLists /\ Rising(mergeSublist[<<a, b>>])
          /\ Elements(mergeSublist[<<a, b>>]) = Elements(a) \cup Elements(b)
      BY <3>3, MergeSublistSorts
    <3> QED
      BY <3>1, <3>4, <3>5
  <2> QED
    BY <2>1, <2>2
<1>6. m \in Seq(RecordLists) /\ Len(m) = n
  <2>1. m \in [1 .. n -> RecordLists]
    BY <1>2, <1>5
  <2> QED
    BY <1>3, <2>1
<1>7. \A i \in 1 .. n : Own(i) \subseteq 1 .. len
  BY <1>3
<1>8. ASSUME NEW i \in 1 .. n, NEW j \in 1 .. n, i # j
      PROVE  Elements(m[i]) \cap Elements(m[j]) = {}
  <2>1. \A k \in Own(i), l \in Own(j) : k # l /\ k \in 1 .. len /\ l \in 1 .. len
    BY <1>3, <1>7, <1>8
  <2>2. \A k \in Own(i), l \in Own(j) : Elements(heads[k]) \cap Elements(heads[l]) = {}
    BY <1>1, <2>1
  <2> HIDE DEF Own
  <2> QED
    BY <1>5, <2>2
<1>9. U = UNION {Elements(m[i]) : i \in 1 .. n}
  <2>1. ASSUME NEW k \in 1 .. len PROVE \E i \in 1 .. n : k \in Own(i)
    <3>1. /\ (k + 1) \div 2 \in 1 .. n
          /\ k \in {2 * ((k + 1) \div 2) - 1, 2 * ((k + 1) \div 2)}
      BY <1>4
    <3>2. k \in Own((k + 1) \div 2)
      BY <1>1, <3>1
    <3> QED
      BY <3>1, <3>2
  <2> HIDE DEF Own
  <2>2. ASSUME NEW x \in U PROVE x \in UNION {Elements(m[i]) : i \in 1 .. n}
    <3>1. PICK k \in 1 .. len : x \in Elements(heads[k])
      BY <1>1
    <3>2. PICK i \in 1 .. n : k \in Own(i)
      BY <2>1
    <3>3. x \in Elements(m[i])
      BY <1>5, <3>1, <3>2
    <3> QED
      BY <3>3
  <2>3. ASSUME NEW i \in 1 .. n, NEW x \in Elements(m[i]) PROVE x \in U
    <3>1. PICK k \in Own(i) : x \in Elements(heads[k])
      BY <1>5, <2>3
    <3>2. k \in 1 .. len
      BY <1>7
    <3> QED
      BY <1>1, <3>1, <3>2
  <2> QED
    BY <2>2, <2>3
<1>10. Sublists(m, U)
  BY <1>5, <1>6, <1>8, <1>9 DEF Sublists
<1> QED
  BY <1>6, <1>10 DEF m, n, len

\* The rounds end with two lists, and the last merge has all records in order.
LEMMA MergeAllSorts ==
    ASSUME NEW heads, NEW U, Sublists(heads, U), Len(heads) >= 2
    PROVE  MergeAll(heads) \in RecordLists /\ Rising(MergeAll(heads)) /\ Elements(MergeAll(heads)) = U
<1> DEFINE n == Len(heads)
           Goes(h, k) == /\ Sublists(h, U) /\ Len(h) >= 2
                         /\ Len(h) <= 2 \/ Len(h) + k <= n
           K == [k \in 0 .. n |-> {h \in Seq(RecordLists) : Goes(h, k)}]
           last == Repeat(Round, heads, n)
<1>1. heads \in Seq(RecordLists) /\ n \in Nat
  BY DEF Sublists
<1>2. heads \in K[0]
  BY <1>1
<1>3. ASSUME NEW k \in 0 .. n - 1, NEW h \in K[k] PROVE Round[h] \in K[k + 1]
  <2>1. k \in 0 .. n /\ k + 1 \in 0 .. n
    BY <1>1
  <2>2. h \in Seq(RecordLists) /\ Goes(h, k) /\ Len(h) \in Nat
    BY <1>3, <2>1
  <2>3. h \in Seq(Lists)
    <3>1. RecordLists \subseteq Lists
      BY ListParts
    <3> QED
      BY <2>2, <3>1
  <2>4. Round[h] = IF Len(h) <= 2 THEN h ELSE MergeRound(h)
    BY <2>3 DEF Round
  <2>5. CASE Len(h) <= 2
    BY <2>1, <2>2, <2>4, <2>5
  <2>6. CASE ~(Len(h) <= 2)
    <3> DEFINE r == MergeRound(h)
    <3>1. Sublists(r, U) /\ Len(r) = (Len(h) + 1) \div 2
      BY <2>2, RoundSorts
    <3> HIDE DEF r
    <3>2. r \in Seq(RecordLists) /\ Len(r) \in Nat
      BY <3>1 DEF Sublists
    <3>3. Len(h) + k <= n
      BY <2>2, <2>6
    <3>4. Len(r) >= 2 /\ Len(r) + (k + 1) <= n
      BY <1>1, <2>1, <2>2, <2>6, <3>1, <3>2, <3>3
    <3>5. Goes(r, k + 1)
      BY <3>1, <3>4
    <3> HIDE DEF Goes
    <3> QED
      BY <2>1, <2>4, <2>6, <3>2, <3>5 DEF r
  <2> QED
    BY <2>5, <2>6
<1>4. last \in K[n]
  <2> HIDE DEF K, n
  <2> QED
    BY <1>1, <1>2, <1>3, RepeatReaches
<1>5. last \in Seq(RecordLists) /\ Goes(last, n)
  BY <1>1, <1>4
<1>6. MergeAll(heads) = mergeSublist[<<last[1], last[2]>>]
  BY DEF MergeAll
<1> HIDE DEF last
<1>7. Len(last) = 2
  <2>1. Len(last) \in Nat
    BY <1>5
  <2>2. Len(last) >= 2 /\ (Len(last) <= 2 \/ Len(last) + n <= n)
    BY <1>5
  <2> DEFINE i == Len(last)
  <2>3. i \in Nat /\ n \in Nat /\ i >= 2 /\ (i <= 2 \/ i + n <= n)
    BY <1>1, <2>1, <2>2
  <2> HIDE DEF i, n
  <2>4. i = 2
    BY <2>3
  <2> QED
    BY <2>4 DEF i
<1>8. /\ last[1] \in RecordLists /\ last[2] \in RecordLists /\ Rising(last[1]) /\ Rising(last[2])
      /\ Elements(last[1]) \cap Elements(last[2]) = {}
  <2>1. 1 \in 1 .. Len(last) /\ 2 \in 1 .. Len(last) /\ 1 # 2
    BY <1>7
  <2>2. /\ \A i \in 1 .. Len(last) : last[i] \in RecordLists /\ Rising(last[i])
        /\ \A i, j \in 1 .. Len(last) : i # j => Elements(last[i]) \cap Elements(last[j]) = {}
    BY <1>5, SublistsAre, Zenon
  <2> QED
    BY <2>1, <2>2, Zenon
<1>9. U = Elements(last[1]) \cup Elements(last[2])
  <2>1. U = UNION {Elements(last[i]) : i \in 1 .. 2}
    BY <1>5, <1>7 DEF Sublists
  <2> QED
    BY <2>1
<1> DEFINE a == last[1]
           b == last[2]
<1> HIDE DEF a, b
<1>10. /\ mergeSublist[<<a, b>>] \in RecordLists /\ Rising(mergeSublist[<<a, b>>])
       /\ Elements(mergeSublist[<<a, b>>]) = Elements(a) \cup Elements(b)
  BY <1>8, MergeSublistSorts DEF a, b
<1> QED
  BY <1>6, <1>9, <1>10 DEF a, b

\* A run ends at the last record that is before all that come after it in the run.
LEMMA RunEndIs ==
    ASSUME NEW l \in RecordLists, NEW i \in 1 .. Len(l)
    PROVE  /\ RunEnd(l, i) \in i .. Len(l)
           /\ \A j \in i .. RunEnd(l, i) - 1 : l[j] < l[j + 1]
           /\ RunEnd(l, i) < Len(l) => l[RunEnd(l, i) + 1] < l[RunEnd(l, i)]
<1> DEFINE breaks == {j \in i .. Len(l) - 1 : ~(l[j] < l[j + 1])}
           e == RunEnd(l, i)
<1>1. /\ Len(l) \in Nat /\ Different(l) /\ \A j \in 1 .. Len(l) : l[j] \in Records
  BY ListTypes
<1>2. CASE breaks = {}
  <2>1. e = Len(l)
    BY <1>2 DEF RunEnd
  <2> HIDE DEF e
  <2>2. \A j \in i .. Len(l) - 1 : l[j] < l[j + 1]
    BY <1>2
  <2>3. e \in i .. Len(l) /\ ~(e < Len(l))
    BY <1>1, <2>1
  <2> QED
    BY <2>1, <2>2, <2>3 DEF e
<1>3. CASE breaks # {}
  <2>1. breaks \in SUBSET Nat
    BY <1>1
  <2>2. e = CHOOSE j \in breaks : \A k \in breaks : j <= k
    BY <1>3 DEF RunEnd
  <2> HIDE DEF e
  <2>3. e \in breaks /\ \A k \in breaks : e <= k
    <3> HIDE DEF breaks
    <3> QED
      BY <1>3, <2>1, <2>2, LeastNatural
  <2>4. e \in i .. Len(l) - 1 /\ ~(l[e] < l[e + 1])
    BY <2>3
  <2>5. e \in i .. Len(l) /\ e \in 1 .. Len(l) /\ e + 1 \in 1 .. Len(l) /\ e # e + 1
    BY <1>1, <2>4
  <2>6. l[e + 1] < l[e]
    <3>1. l[e] \in Records /\ l[e + 1] \in Records /\ l[e] # l[e + 1]
      BY <1>1, <2>5 DEF Different
    <3> QED
      BY <2>4, <3>1 DEF Records
  <2>7. \A j \in i .. e - 1 : l[j] < l[j + 1]
    <3> TAKE j \in i .. e - 1
    <3>1. j \in i .. Len(l) - 1 /\ ~(e <= j)
      BY <1>1, <2>5
    <3>2. j \notin breaks
      BY <2>3, <3>1
    <3> QED
      BY <3>1, <3>2
  <2> QED
    BY <2>5, <2>6, <2>7 DEF e
<1> QED
  BY <1>2, <1>3

\* The records of a run are in order.
LEMMA RunRises ==
    ASSUME NEW l \in RecordLists, NEW i \in 1 .. Len(l), NEW e \in i .. Len(l),
           \A j \in i .. e - 1 : l[j] < l[j + 1]
    PROVE  \A a, b \in i .. e : a < b => l[a] < l[b]
<1>1. Len(l) \in Nat /\ \A j \in 1 .. Len(l) : l[j] \in Records
  BY ListTypes
<1> DEFINE Up(d) == \A a \in i .. e : a + d + 1 <= e => l[a] < l[a + d + 1]
           S == {d \in Nat : Up(d)}
<1>2. 0 \in S
  <2> SUFFICES ASSUME NEW a \in i .. e, a + 0 + 1 <= e PROVE l[a] < l[a + 0 + 1]
    OBVIOUS
  <2>1. a \in i .. e - 1 /\ a + 0 + 1 = a + 1
    BY <1>1
  <2> QED
    BY <2>1
<1>3. \A d \in S : d + 1 \in S
  <2> SUFFICES ASSUME NEW d \in S PROVE Up(d + 1)
    <3> HIDE DEF Up
    <3> QED
      OBVIOUS
  <2> SUFFICES ASSUME NEW a \in i .. e, a + (d + 1) + 1 <= e
               PROVE  l[a] < l[a + (d + 1) + 1]
    OBVIOUS
  <2> DEFINE b == a + d + 1
  <2>1. d \in Nat /\ b <= e
    BY <1>1
  <2>2. l[a] < l[b]
    BY <2>1
  <2>3. b \in i .. e - 1 /\ a + (d + 1) + 1 = b + 1 /\ a \in 1 .. Len(l)
        /\ b \in 1 .. Len(l) /\ b + 1 \in 1 .. Len(l)
    BY <1>1, <2>1
  <2> HIDE DEF b
  <2>4. l[b] < l[b + 1]
    BY <2>3
  <2>5. l[a] \in Records /\ l[b] \in Records /\ l[b + 1] \in Records
    BY <1>1, <2>3
  <2>6. l[a] < l[b + 1]
    BY <2>2, <2>4, <2>5 DEF Records
  <2> QED
    BY <2>3, <2>6
<1>4. S = Nat
  <2>1. S \in SUBSET Nat
    OBVIOUS
  <2> HIDE DEF S
  <2> QED
    BY <1>2, <1>3, <2>1, SetInduction
<1> HIDE DEF S
<1> SUFFICES ASSUME NEW a \in i .. e, NEW b \in i .. e, a < b PROVE l[a] < l[b]
  OBVIOUS
<1>5. b - a - 1 \in S /\ a + (b - a - 1) + 1 = b
  BY <1>1, <1>4
<1> DEFINE d == b - a - 1
<1>6. d \in S /\ a + d + 1 = b /\ b <= e
  BY <1>1, <1>5
<1> HIDE DEF d
<1>7. l[a] < l[a + d + 1]
  BY <1>6 DEF S
<1> QED
  BY <1>6, <1>7

\* The sublist at position i is sorted, and has the records up to the next position.
Spans(l, i, sub, b) ==
    /\ sub \in RecordLists /\ Rising(sub) /\ b \in i + 1 .. Len(l) + 1
    /\ Elements(sub) = {l[j] : j \in i .. b - 1}
    /\ sub = SubSeq(l, i, b - 1) \/ (b = i + 2 /\ l[i + 1] < l[i])

\* A natural sublist is such a span of the batch: a run, or two records swapped.
LEMMA SublistSpans ==
    ASSUME NEW l \in RecordLists, NEW i \in 1 .. Len(l)
    PROVE  Spans(l, i, Sublist(l, i), NextStart(l, i))
<1> DEFINE e == RunEnd(l, i)
<1>1. /\ l \in Seq(Records) /\ Len(l) \in Nat /\ Different(l)
      /\ \A j \in 1 .. Len(l) : l[j] \in Records
  BY ListTypes
<1>2. /\ e \in i .. Len(l) /\ \A j \in i .. e - 1 : l[j] < l[j + 1]
      /\ e < Len(l) => l[e + 1] < l[e]
  BY RunEndIs
<1>3. CASE SwapsAt(l, i)
  <2>1. i < Len(l) /\ e = i
    BY <1>3 DEF SwapsAt
  <2> HIDE DEF e
  <2>2. i + 1 \in 1 .. Len(l) /\ l[i] \in Records /\ l[i + 1] \in Records /\ l[i + 1] < l[i]
    BY <1>1, <1>2, <2>1
  <2> DEFINE x == l[i + 1]
             y == l[i]
  <2>3. Sublist(l, i) = <<x, y>> /\ NextStart(l, i) = i + 2
    BY <1>3 DEF Sublist, NextStart
  <2>4. x \in Records /\ y \in Records /\ x < y /\ x # y
    BY <2>2 DEF Records
  <2>5. {l[j] : j \in i .. (i + 2) - 1} = {x, y}
    <3>1. i .. (i + 2) - 1 = {i, i + 1}
      BY <1>1
    <3> QED
      BY <3>1
  <2>6. i + 2 \in i + 1 .. Len(l) + 1
    BY <1>1, <2>1
  <2> HIDE DEF x, y
  <2>7. <<x, y>> \in Seq(Records) /\ Len(<<x, y>>) = 2 /\ <<x, y>>[1] = x /\ <<x, y>>[2] = y
    BY <2>4
  <2>8. Different(<<x, y>>) /\ Rising(<<x, y>>) /\ Elements(<<x, y>>) = {x, y}
    BY <2>4, <2>7 DEF Different, Rising, Elements
  <2>9. <<x, y>> \in RecordLists
    BY <2>7, <2>8, ListsAre
  <2>10. x < y /\ x = l[i + 1] /\ y = l[i]
    BY <2>4 DEF x, y
  <2> QED
    BY <2>3, <2>5, <2>6, <2>8, <2>9, <2>10 DEF Spans
<1>4. CASE ~SwapsAt(l, i)
  <2> DEFINE s == SubSeq(l, i, e)
  <2>1. Sublist(l, i) = s /\ NextStart(l, i) = e + 1
    BY <1>4 DEF Sublist, NextStart
  <2> HIDE DEF e
  <2>2. /\ s \in Seq(Records) /\ Len(s) = e - i + 1
        /\ \A k \in 1 .. e - i + 1 : s[k] = l[i + k - 1]
    BY <1>1, <1>2
  <2>3. \A a, b \in i .. e : a < b => l[a] < l[b]
    BY <1>2, RunRises
  <2> HIDE DEF s
  <2>4. e \in Nat /\ i \in Nat /\ e - i + 1 \in Nat
    BY <1>1, <1>2
  <2>5. \A k \in 1 .. Len(s) : i + k - 1 \in i .. e /\ i + k - 1 \in 1 .. Len(l)
    BY <1>1, <1>2, <2>2, <2>4
  <2>6. Rising(s)
    <3> SUFFICES ASSUME NEW a \in 1 .. Len(s), NEW b \in 1 .. Len(s), a < b PROVE s[a] < s[b]
      BY DEF Rising
    <3>1. s[a] = l[i + a - 1] /\ s[b] = l[i + b - 1] /\ i + a - 1 < i + b - 1
      BY <2>2, <2>4
    <3> QED
      BY <2>3, <2>5, <3>1
  <2>7. Different(s)
    <3> SUFFICES ASSUME NEW a \in 1 .. Len(s), NEW b \in 1 .. Len(s), a # b, s[a] = s[b] PROVE FALSE
      BY DEF Different
    <3>1. s[a] = l[i + a - 1] /\ s[b] = l[i + b - 1] /\ i + a - 1 # i + b - 1
      BY <2>2, <2>4
    <3> QED
      BY <1>1, <2>5, <3>1 DEF Different
  <2>8. Elements(s) = {l[j] : j \in i .. (e + 1) - 1}
    <3>1. \A k \in 1 .. Len(s) : s[k] \in {l[j] : j \in i .. (e + 1) - 1}
      <4> TAKE k \in 1 .. Len(s)
      <4>1. s[k] = l[i + k - 1] /\ i + k - 1 \in i .. (e + 1) - 1
        BY <2>2, <2>4, <2>5
      <4> QED
        BY <4>1
    <3>2. \A j \in i .. (e + 1) - 1 : \E k \in 1 .. Len(s) : s[k] = l[j]
      <4> TAKE j \in i .. (e + 1) - 1
      <4>1. j - i + 1 \in 1 .. Len(s) /\ i + (j - i + 1) - 1 = j
        BY <1>2, <2>2, <2>4
      <4>2. s[j - i + 1] = l[i + (j - i + 1) - 1]
        BY <2>2, <4>1
      <4> QED
        BY <4>1, <4>2
    <3> QED
      BY <3>1, <3>2 DEF Elements
  <2>9. e + 1 \in i + 1 .. Len(l) + 1 /\ (e + 1) - 1 = e
    BY <1>1, <1>2
  <2>10. s \in RecordLists
    BY <2>2, <2>7, ListsAre
  <2>11. s = SubSeq(l, i, (e + 1) - 1)
    BY <2>9 DEF s
  <2> QED
    BY <2>1, <2>6, <2>8, <2>9, <2>10, <2>11 DEF Spans
<1> QED
  BY <1>3, <1>4

\* The records of l in front of position at were found, in sorted sublists.
Found(l, s) ==
    /\ s.at \in 1 .. Len(l) + 1
    /\ Sublists(s.heads, {l[j] : j \in 1 .. s.at - 1})
    /\ s.at = 1 => s.heads = <<>>
    /\ s.at > 1 => Len(s.heads) >= 1
    /\ Len(s.heads) = 1 => \/ s.heads[1] = SubSeq(l, 1, s.at - 1)
                           \/ s.at = 3 /\ l[2] < l[1]

\* A pass finds one sublist more.
LEMMA ScanFinds ==
    ASSUME NEW l \in RecordLists, NEW s \in Scans, Found(l, s), s.at <= Len(l)
    PROVE  /\ Found(l, Scan(l)[s]) /\ Scan(l)[s] \in Scans
           /\ Scan(l)[s].at > s.at
<1> DEFINE i == s.at
           sub == Sublist(l, i)
           b == NextStart(l, i)
           h == s.heads
           g == Append(h, sub)
           r == [heads |-> g, at |-> b]
<1>1. /\ Len(l) \in Nat /\ Different(l) /\ i \in 1 .. Len(l)
  BY ListTypes DEF Found
<1>2. Scan(l)[s] = r
  BY <1>1 DEF Scan
<1>3. Spans(l, i, sub, b)
  BY <1>1, SublistSpans
<1> HIDE DEF sub, b
<1>4. /\ sub \in RecordLists /\ Rising(sub) /\ b \in i + 1 .. Len(l) + 1
      /\ Elements(sub) = {l[j] : j \in i .. b - 1}
  BY <1>3 DEF Spans
<1> DEFINE U == {l[j] : j \in 1 .. i - 1}
           V == {l[j] : j \in 1 .. b - 1}
<1>5. /\ h \in Seq(RecordLists) /\ Len(h) \in Nat
      /\ \A k \in 1 .. Len(h) : h[k] \in RecordLists /\ Rising(h[k])
      /\ \A k, m \in 1 .. Len(h) : k # m => Elements(h[k]) \cap Elements(h[m]) = {}
      /\ U = UNION {Elements(h[k]) : k \in 1 .. Len(h)}
  <2>1. Sublists(h, U)
    BY DEF Found
  <2> QED
    BY <2>1, SublistsAre, Zenon
<1>6. U \cap Elements(sub) = {}
  <2> SUFFICES ASSUME NEW j \in 1 .. i - 1, NEW k \in i .. b - 1, l[j] = l[k] PROVE FALSE
    BY <1>4
  <2>1. j \in 1 .. Len(l) /\ k \in 1 .. Len(l) /\ j # k
    BY <1>1, <1>4
  <2> QED
    BY <1>1, <2>1 DEF Different
<1>7. V = U \cup Elements(sub)
  <2>1. \A j \in 1 .. b - 1 : j \in 1 .. i - 1 \/ j \in i .. b - 1
    BY <1>1, <1>4
  <2>2. \A j \in 1 .. i - 1 : j \in 1 .. b - 1
    BY <1>1, <1>4
  <2>3. \A j \in i .. b - 1 : j \in 1 .. b - 1
    BY <1>1, <1>4
  <2> QED
    BY <1>4, <2>1, <2>2, <2>3
<1> HIDE DEF U, V, i, h
<1>8. /\ g \in Seq(RecordLists) /\ Len(g) = Len(h) + 1 /\ g[Len(h) + 1] = sub
      /\ \A k \in 1 .. Len(h) : g[k] = h[k]
  BY <1>4, <1>5
<1> HIDE DEF g
<1>9. \A k \in 1 .. Len(g) : k = Len(h) + 1 \/ k \in 1 .. Len(h)
  BY <1>5, <1>8
<1>10. \A k \in 1 .. Len(h) : Elements(h[k]) \subseteq U
  BY <1>5
<1>11. \A k, m \in 1 .. Len(g) : k # m => Elements(g[k]) \cap Elements(g[m]) = {}
  <2> TAKE k, m \in 1 .. Len(g)
  <2> HAVE k # m
  <2>1. CASE k = Len(h) + 1
    <3>1. m \in 1 .. Len(h) /\ g[m] = h[m] /\ g[k] = sub
      BY <1>8, <1>9, <2>1
    <3> QED
      BY <1>6, <1>10, <3>1
  <2>2. CASE m = Len(h) + 1
    <3>1. k \in 1 .. Len(h) /\ g[k] = h[k] /\ g[m] = sub
      BY <1>8, <1>9, <2>2
    <3> QED
      BY <1>6, <1>10, <3>1
  <2>3. CASE k \in 1 .. Len(h) /\ m \in 1 .. Len(h)
    <3>1. g[k] = h[k] /\ g[m] = h[m]
      BY <1>8, <2>3
    <3> QED
      BY <1>5, <2>3, <3>1
  <2> QED
    BY <1>9, <2>1, <2>2, <2>3
<1>12. V = UNION {Elements(g[k]) : k \in 1 .. Len(g)}
  <2>1. \A k \in 1 .. Len(g) : Elements(g[k]) \subseteq V
    BY <1>7, <1>8, <1>9, <1>10
  <2>2. ASSUME NEW x \in V PROVE \E k \in 1 .. Len(g) : x \in Elements(g[k])
    <3>1. CASE x \in U
      <4>1. PICK k \in 1 .. Len(h) : x \in Elements(h[k])
        BY <1>5, <3>1
      <4>2. k \in 1 .. Len(g) /\ g[k] = h[k]
        BY <1>5, <1>8, <4>1
      <4> QED
        BY <4>1, <4>2
    <3>2. CASE x \in Elements(sub)
      <4>1. Len(h) + 1 \in 1 .. Len(g)
        BY <1>5, <1>8
      <4> QED
        BY <1>8, <3>2, <4>1
    <3> QED
      BY <1>7, <2>2, <3>1, <3>2
  <2> QED
    BY <2>1, <2>2
<1>13. Sublists(g, V)
  <2>1. \A k \in 1 .. Len(g) : Rising(g[k])
    BY <1>4, <1>5, <1>8, <1>9
  <2> QED
    BY <1>8, <1>11, <1>12, <2>1 DEF Sublists
<1>14. Len(g) = 1 => g[1] = SubSeq(l, 1, b - 1) \/ (b = 3 /\ l[2] < l[1])
  <2> SUFFICES ASSUME Len(g) = 1 PROVE g[1] = SubSeq(l, 1, b - 1) \/ (b = 3 /\ l[2] < l[1])
    OBVIOUS
  <2>1. Len(h) = 0
    <3>1. Len(h) \in Nat /\ 1 = Len(h) + 1
      BY <1>5, <1>8
    <3> DEFINE k == Len(h)
    <3>2. k \in Nat /\ 1 = k + 1
      BY <3>1
    <3> HIDE DEF k
    <3>3. k = 0
      BY <3>2
    <3> QED
      BY <3>3 DEF k
  <2>2. i = 1
    <3>1. i > 1 => Len(h) >= 1
      BY DEF Found, i, h
    <3> QED
      BY <1>1, <2>1, <3>1
  <2>3. g[1] = sub
    BY <1>8, <2>1
  <2>4. sub = SubSeq(l, i, b - 1) \/ (b = i + 2 /\ l[i + 1] < l[i])
    BY <1>3 DEF Spans
  <2>5. i + 2 = 3 /\ i + 1 = 2
    BY <2>2
  <2> QED
    BY <2>2, <2>3, <2>4, <2>5
<1>15. b > i /\ b \in 1 .. Len(l) + 1 /\ b # 1 /\ b \in Nat \ {0} /\ Len(g) >= 1
  BY <1>1, <1>4, <1>5, <1>8
<1>16. r.at = b /\ r.heads = g
  OBVIOUS
<1>17. Found(l, r)
  BY <1>13, <1>14, <1>15 DEF Found, V
<1>18. r \in Scans
  <2>1. RecordLists \subseteq Lists
    BY ListParts
  <2>2. g \in Seq(Lists)
    BY <1>8, <2>1
  <2> QED
    BY <1>15, <2>2 DEF Scans
<1> HIDE DEF r
<1> QED
  BY <1>2, <1>15, <1>16, <1>17, <1>18 DEF i

\* The sublists that are found in a list are sorted and have its records.
LEMMA SublistsFound ==
    ASSUME NEW l \in RecordLists, l # <<>>
    PROVE  /\ Sublists(findNaturalSublists[l], Elements(l)) /\ Len(findNaturalSublists[l]) >= 1
           /\ Len(findNaturalSublists[l]) = 1
              => findNaturalSublists[l][1] = l \/ (Len(l) = 2 /\ l[2] < l[1])
<1> DEFINE n == Len(l)
           Goes(s, k) == Found(l, s) /\ (s.at > k \/ s.at = Len(l) + 1)
           K == [k \in 0 .. n |-> {s \in Scans : Goes(s, k)}]
           start == [heads |-> <<>>, at |-> 1]
           body == Scan(l)
           done == Repeat(body, start, n)
<1>1. n \in Nat /\ n >= 1 /\ Len(l) \in Nat /\ l \in Lists /\ l \in Seq(Records)
  BY ListTypes, ListParts
<1>2. start \in K[0]
  <2>1. start \in Scans
    BY DEF Scans
  <2>2. {l[j] : j \in 1 .. 1 - 1} = {}
    OBVIOUS
  <2>3. Sublists(<<>>, {l[j] : j \in 1 .. 1 - 1})
    BY <2>2 DEF Sublists
  <2>4. Found(l, start)
    BY <1>1, <2>3 DEF Found
  <2> QED
    BY <1>1, <2>1, <2>4
<1>3. ASSUME NEW k \in 0 .. n - 1, NEW s \in K[k] PROVE body[s] \in K[k + 1]
  <2>1. k \in 0 .. n /\ k + 1 \in 0 .. n
    BY <1>1
  <2>2. s \in Scans /\ Goes(s, k)
    BY <1>3, <2>1
  <2>3. s.at \in 1 .. Len(l) + 1
    BY <2>2 DEF Found
  <2>4. CASE s.at > Len(l)
    <3>1. body[s] = s
      BY <2>2, <2>4 DEF Scan
    <3>2. s.at = Len(l) + 1
      BY <1>1, <2>3, <2>4
    <3>3. Goes(s, k + 1)
      BY <2>2, <3>2
    <3> HIDE DEF body, Goes
    <3> QED
      BY <2>1, <2>2, <3>1, <3>3
  <2>5. CASE s.at <= Len(l)
    <3>1. /\ Found(l, body[s]) /\ body[s] \in Scans
          /\ body[s].at > s.at
      BY <2>2, <2>5, ScanFinds
    <3>2. s.at > k /\ s.at # Len(l) + 1
      BY <1>1, <2>2, <2>3, <2>5
    <3> HIDE DEF body
    <3>3. body[s].at \in Nat
      BY <3>1, <1>1 DEF Found
    <3>4. body[s].at > k + 1
      BY <2>1, <2>3, <3>1, <3>2, <3>3
    <3>5. Goes(body[s], k + 1)
      BY <3>1, <3>4
    <3> HIDE DEF Goes
    <3> QED
      BY <2>1, <3>1, <3>5
  <2> QED
    BY <1>1, <2>3, <2>4, <2>5
<1>4. done \in K[n]
  <2> HIDE DEF K, n, body, start
  <2> QED
    BY <1>1, <1>2, <1>3, RepeatReaches
<1>5. findNaturalSublists[l] = done.heads
  BY <1>1 DEF findNaturalSublists
<1> HIDE DEF done
<1>6. Found(l, done) /\ (done.at > n \/ done.at = Len(l) + 1)
  BY <1>1, <1>4
<1>7. done.at = Len(l) + 1
  <2>1. done.at \in 1 .. Len(l) + 1
    BY <1>6 DEF Found
  <2> QED
    BY <1>1, <1>6, <2>1
<1>8. {l[j] : j \in 1 .. (Len(l) + 1) - 1} = Elements(l)
  BY <1>1 DEF Elements
<1>9. Sublists(done.heads, Elements(l))
  BY <1>6, <1>7, <1>8 DEF Found
<1>10. Len(done.heads) >= 1
  BY <1>1, <1>6, <1>7 DEF Found
<1>11. Len(done.heads) = 1 => done.heads[1] = l \/ (Len(l) = 2 /\ l[2] < l[1])
  <2>1. SubSeq(l, 1, (Len(l) + 1) - 1) = l
    BY <1>1
  <2>2. Len(l) + 1 = 3 => Len(l) = 2
    <3> DEFINE k == Len(l)
    <3>1. k \in Nat
      BY <1>1
    <3> HIDE DEF k
    <3>2. k + 1 = 3 => k = 2
      BY <3>1
    <3> QED
      BY <3>2 DEF k
  <2> QED
    BY <1>6, <1>7, <2>1, <2>2 DEF Found
<1> QED
  BY <1>5, <1>9, <1>10, <1>11

\* What sortWorker makes of any batch of records with different keys, but of two records
\* that are not in order: a single sublist is the batch itself, in order, and what the
\* merges of several leave has the records of the batch in order.
THEOREM BatchesAreSorted ==
    ASSUME NEW l \in RecordLists, l # <<>>, Len(l) # 2 \/ Rising(l)
    PROVE  LET heads == findNaturalSublists[l]
           IN  IF Len(heads) = 1
               THEN heads[1] = l /\ Rising(l)
               ELSE /\ MergeAll(heads) \in RecordLists /\ Rising(MergeAll(heads))
                    /\ Elements(MergeAll(heads)) = Elements(l)
<1> DEFINE heads == findNaturalSublists[l]
<1>1. /\ Sublists(heads, Elements(l)) /\ Len(heads) >= 1
      /\ Len(heads) = 1 => heads[1] = l \/ (Len(l) = 2 /\ l[2] < l[1])
  BY SublistsFound
<1> HIDE DEF heads
<1>2. Len(heads) \in Nat /\ \A i \in 1 .. Len(heads) : Rising(heads[i])
  BY <1>1, SublistsAre
<1>3. CASE Len(heads) = 1
  <2>1. ~(Len(l) = 2 /\ l[2] < l[1])
    <3> SUFFICES ASSUME Len(l) = 2, l[2] < l[1] PROVE FALSE
      OBVIOUS
    <3>1. 1 \in 1 .. Len(l) /\ 2 \in 1 .. Len(l) /\ 1 < 2
      OBVIOUS
    <3>2. l[1] < l[2] /\ l[1] \in Records /\ l[2] \in Records
      BY <3>1, ListTypes DEF Rising
    <3> QED
      BY <3>2 DEF Records
  <2>2. heads[1] = l /\ Rising(heads[1])
    BY <1>1, <1>2, <1>3, <2>1
  <2> QED
    BY <1>3, <2>2 DEF heads
<1>4. CASE Len(heads) # 1
  <2>1. Len(heads) >= 2
    <3> DEFINE k == Len(heads)
    <3>1. k \in Nat /\ k >= 1 /\ k # 1
      BY <1>1, <1>2, <1>4
    <3> HIDE DEF k
    <3>2. k >= 2
      BY <3>1
    <3> QED
      BY <3>2 DEF k
  <2>2. /\ MergeAll(heads) \in RecordLists /\ Rising(MergeAll(heads))
        /\ Elements(MergeAll(heads)) = Elements(l)
    BY <1>1, <2>1, MergeAllSorts
  <2> QED
    BY <1>4, <2>2 DEF heads
<1> QED
  BY <1>3, <1>4

--------------------------------------------------------------------------------
(* 6. The tree of merge workers                                              *)

Half == [n \in Nat |-> (n + 1) \div 2]

\* Every level is half as wide as the one below, and the last of them has one queue.
LEMMA Widths ==
    /\ Width[0] = NumTables
    /\ \A l \in 0 .. NumTables : Width[l] \in 1 .. NumTables
    /\ \A l \in 0 .. NumTables - 1 : Width[l + 1] = (Width[l] + 1) \div 2
    /\ Width[NumTables] = 1
<1> DEFINE W(l) == Repeat(Half, NumTables, l)
<1>1. \A l \in 0 .. NumTables : Width[l] = W(l)
  BY DEF Width, Half
<1>2. NumTables \in Nat /\ NumTables >= 1
  BY SizesAssumption
<1>3. W(0) = NumTables /\ \A l \in Nat : W(l + 1) = Half[W(l)]
  BY RepeatStep
<1> HIDE DEF W
<1> DEFINE Small(l) == W(l) \in 1 .. NumTables /\ (W(l) = 1 \/ W(l) + l <= NumTables)
           S == {l \in Nat : Small(l)}
<1>4. 0 \in S
  BY <1>2, <1>3
<1>5. \A l \in S : l + 1 \in S
  <2> SUFFICES ASSUME NEW l \in S PROVE Small(l + 1)
    <3> HIDE DEF Small
    <3> QED
      OBVIOUS
  <2> DEFINE w == W(l)
             v == W(l + 1)
  <2>1. l \in Nat /\ w \in 1 .. NumTables /\ (w = 1 \/ w + l <= NumTables)
    OBVIOUS
  <2>2. v = (w + 1) \div 2
    <3>1. w \in Nat /\ v = Half[w]
      BY <1>2, <1>3, <2>1
    <3> QED
      BY <3>1 DEF Half
  <2> HIDE DEF w
  <2>3. v \in 1 .. NumTables /\ (v = 1 \/ v + (l + 1) <= NumTables)
    <3> HIDE DEF v
    <3> QED
      BY <1>2, <2>1, <2>2
  <2> QED
    BY <2>3
<1>6. S = Nat
  <2>1. S \in SUBSET Nat
    OBVIOUS
  <2> HIDE DEF S
  <2> QED
    BY <1>4, <1>5, <2>1, SetInduction
<1>7. \A l \in Nat : W(l) \in 1 .. NumTables /\ (W(l) = 1 \/ W(l) + l <= NumTables)
  BY <1>6
<1>8. \A l \in 0 .. NumTables : Width[l] \in 1 .. NumTables
  BY <1>1, <1>2, <1>7
<1>9. ASSUME NEW l \in 0 .. NumTables - 1 PROVE Width[l + 1] = (Width[l] + 1) \div 2
  <2>1. l \in Nat /\ l \in 0 .. NumTables /\ l + 1 \in 0 .. NumTables
    BY <1>2
  <2>2. Width[l] \in Nat /\ Width[l + 1] = Half[Width[l]]
    BY <1>1, <1>2, <1>3, <1>8, <2>1
  <2> QED
    BY <2>2 DEF Half
<1>10. Width[NumTables] = 1
  <2>1. W(NumTables) \in 1 .. NumTables /\ (W(NumTables) = 1 \/ W(NumTables) + NumTables <= NumTables)
    BY <1>2, <1>7
  <2>2. Width[NumTables] = W(NumTables)
    BY <1>1, <1>2
  <2> QED
    BY <1>2, <2>1, <2>2
<1>11. Width[0] = NumTables
  BY <1>1, <1>2, <1>3
<1> QED
  BY <1>8, <1>9, <1>10, <1>11

\* The level with one queue.
LEMMA TopIs == Top \in 0 .. NumTables /\ Width[Top] = 1
<1> DEFINE T == {l \in 0 .. NumTables : Width[l] = 1}
<1>1. NumTables \in Nat
  BY SizesAssumption
<1>2. T \in SUBSET Nat /\ T # {}
  BY <1>1, Widths
<1>3. PICK l \in T : \A m \in T : l <= m
  BY <1>2, LeastNatural
<1>4. l \in 0 .. NumTables /\ Width[l] = 1 /\ \A k \in 0 .. l - 1 : Width[k] > 1
  <2>1. ASSUME NEW k \in 0 .. l - 1 PROVE Width[k] > 1
    <3>1. k \in 0 .. NumTables /\ ~(l <= k)
      BY <1>1, <1>3
    <3>2. Width[k] # 1 /\ Width[k] \in 1 .. NumTables
      BY <1>3, <3>1, Widths
    <3> QED
      BY <1>1, <3>2
  <2> QED
    BY <1>3, <2>1
<1>5. \E m \in 0 .. NumTables : Width[m] = 1 /\ \A k \in 0 .. m - 1 : Width[k] > 1
  BY <1>4
<1> QED
  BY <1>5 DEF Top

\* A queue that is not handed on from the level below has its own place.
LEMMA OwnQueue ==
    ASSUME NEW l \in 0 .. NumTables, NEW i \in Tables, ~HandedOn(l, i)
    PROVE  Queue(l, i) = <<"tree", l, i>>
<1> DEFINE q == <<l, i>>
           D == (0 .. NumTables) \X Tables
<1>1. q \in D /\ q[1] = l /\ q[2] = i /\ l \in Nat
  BY SizesAssumption
<1>2. Origin[q] = q
  BY <1>1 DEF Origin
<1> DEFINE K == [k \in 0 .. l |-> {q}]
<1>3. q \in K[0]
  BY <1>1
<1>4. \A k \in 0 .. l - 1 : \A s \in K[k] : Origin[s] \in K[k + 1]
  <2> TAKE k \in 0 .. l - 1
  <2>1. k \in 0 .. l /\ k + 1 \in 0 .. l
    BY <1>1
  <2> HIDE DEF q
  <2> QED
    BY <1>2, <2>1
<1>5. Repeat(Origin, q, l) \in K[l]
  <2> HIDE DEF K, q
  <2> QED
    BY <1>1, <1>3, <1>4, RepeatReaches
<1>6. Repeat(Origin, q, l) = q
  BY <1>1, <1>5
<1>7. Queues[<<l, i>>] = Repeat(Origin, q, l)
  BY <1>1 DEF Queues
<1> QED
  BY <1>1, <1>6, <1>7 DEF Queue

\* A queue that is handed on is the odd one of the level below.
LEMMA SameQueue ==
    ASSUME NEW l \in 0 .. NumTables, NEW i \in Tables, HandedOn(l, i), 2 * i - 1 \in Tables
    PROVE  Queue(l, i) = Queue(l - 1, 2 * i - 1)
<1> DEFINE q == <<l, i>>
           r == <<l - 1, 2 * i - 1>>
<1>1. l \in Nat /\ l - 1 \in Nat /\ l - 1 \in 0 .. NumTables /\ (l - 1) + 1 = l
  BY SizesAssumption DEF HandedOn
<1>2. Origin[q] = r
  BY DEF Origin
<1>3. Queues[<<l, i>>] = Repeat(Origin, q, l)
  BY DEF Queues
<1>4. Queues[<<l - 1, 2 * i - 1>>] = Repeat(Origin, r, l - 1)
  BY <1>1 DEF Queues
<1> HIDE DEF q, r
<1>5. Repeat(Origin, q, (l - 1) + 1) = Repeat(Origin, Origin[q], l - 1)
  BY <1>1, RepeatFirst
<1>6. Queues[<<l, i>>] = Queues[<<l - 1, 2 * i - 1>>]
  BY <1>1, <1>2, <1>3, <1>4, <1>5
<1> QED
  BY <1>6 DEF Queue

Workers == Mergers \cup Sorters
TreeChannels == {Queue(0, t) : t \in Tables} \cup {Output(w) : w \in Mergers}
Inner == {<<"in", 0, t>> : t \in Tables} \cup TreeChannels

\* The output of a worker has the place of the worker.
LEMMA OutputIs ==
    /\ \A t \in Tables : Queue(0, t) = <<"tree", 0, t>>
    /\ \A w \in Mergers : /\ w[2] \in 1 .. NumTables /\ w[3] \in Tables /\ w = <<"merge", w[2], w[3]>>
                          /\ Output(w) = <<"tree", w[2], w[3]>>
                          /\ 2 * w[3] <= Width[w[2] - 1] /\ w[2] - 1 \in 0 .. Top
    /\ \A s \in Sorters : /\ s[3] \in Tables /\ s = <<"sort", 0, s[3]>>
                          /\ Output(s) = <<"tree", 0, s[3]>>
<1>1. NumTables \in Nat /\ NumTables >= 1 /\ 0 \in 0 .. NumTables /\ Top \in 0 .. NumTables
  BY SizesAssumption, TopIs
<1>2. \A t \in Tables : Queue(0, t) = <<"tree", 0, t>>
  <2> TAKE t \in Tables
  <2>1. ~HandedOn(0, t)
    BY DEF HandedOn
  <2> QED
    BY <1>1, <2>1, OwnQueue
<1>3. ASSUME NEW w \in Mergers
      PROVE  /\ w[2] \in 1 .. NumTables /\ w[3] \in Tables /\ w = <<"merge", w[2], w[3]>>
             /\ Output(w) = <<"tree", w[2], w[3]>>
             /\ 2 * w[3] <= Width[w[2] - 1] /\ w[2] - 1 \in 0 .. Top
  <2>1. /\ w[2] \in 1 .. Top /\ w[3] \in Tables /\ w = <<"merge", w[2], w[3]>>
        /\ 2 * w[3] <= Width[w[2] - 1]
    BY DEF Mergers
  <2>2. w[2] \in 1 .. NumTables /\ w[2] \in 0 .. NumTables /\ w[2] - 1 \in 0 .. NumTables
        /\ w[2] - 1 \in 0 .. Top
    BY <1>1, <2>1
  <2>3. Width[w[2] - 1] \in 1 .. NumTables
    BY <2>2, Widths
  <2>4. ~HandedOn(w[2], w[3])
    BY <1>1, <2>1, <2>3 DEF HandedOn, Tables
  <2>5. Queue(w[2], w[3]) = <<"tree", w[2], w[3]>>
    BY <2>1, <2>2, <2>4, OwnQueue
  <2> QED
    BY <2>1, <2>2, <2>5 DEF Output
<1>4. ASSUME NEW s \in Sorters
      PROVE  /\ s[3] \in Tables /\ s = <<"sort", 0, s[3]>>
             /\ Output(s) = <<"tree", 0, s[3]>>
  <2>1. s[3] \in Tables /\ s = <<"sort", 0, s[3]>> /\ s[2] = 0
    BY DEF Sorters
  <2> QED
    BY <1>2, <2>1 DEF Output
<1> QED
  BY <1>2, <1>3, <1>4

\* Every queue of a level is written by a merge worker or by the goroutines of a table.
LEMMA QueueIsChannel ==
    ASSUME NEW n \in 0 .. Top, NEW i \in 1 .. Width[n]
    PROVE  Queue(n, i) \in TreeChannels /\ \E l \in 0 .. n, j \in Tables : Queue(n, i) = <<"tree", l, j>>
<1> DEFINE Is(l, k) == /\ Queue(l, k) \in TreeChannels
                       /\ \E a \in 0 .. l, j \in Tables : Queue(l, k) = <<"tree", a, j>>
           Level(l) == l <= Top => \A k \in 1 .. Width[l] : Is(l, k)
           S == {l \in Nat : Level(l)}
<1>1. NumTables \in Nat /\ NumTables >= 1 /\ Top \in 0 .. NumTables
  BY SizesAssumption, TopIs
<1>2. 0 \in S
  <2>1. Width[0] = NumTables
    BY Widths
  <2>2. ASSUME NEW k \in 1 .. NumTables PROVE Is(0, k)
    <3>1. k \in Tables /\ Queue(0, k) = <<"tree", 0, k>>
      BY OutputIs DEF Tables
    <3> QED
      BY <3>1 DEF TreeChannels
  <2> HIDE DEF Is
  <2> QED
    BY <2>1, <2>2
<1>3. ASSUME NEW l \in S PROVE l + 1 \in S
  <2> SUFFICES ASSUME l + 1 <= Top, NEW k \in 1 .. Width[l + 1] PROVE Is(l + 1, k)
    <3> HIDE DEF Is
    <3> QED
      OBVIOUS
  <2>1. l \in Nat /\ l <= Top /\ l \in 0 .. NumTables - 1 /\ l + 1 \in 0 .. NumTables /\ l \in 0 .. NumTables
        /\ l + 1 \in 1 .. Top
    BY <1>1
  <2>2. Width[l + 1] = (Width[l] + 1) \div 2 /\ Width[l] \in 1 .. NumTables
    BY <2>1, Widths
  <2>3. k \in Tables /\ 2 * k - 1 \in 1 .. Width[l] /\ 2 * k - 1 \in Tables
    BY <1>1, <2>2 DEF Tables
  <2>4. CASE HandedOn(l + 1, k)
    <3>1. Queue(l + 1, k) = Queue((l + 1) - 1, 2 * k - 1)
      BY <2>1, <2>3, <2>4, SameQueue
    <3>2. (l + 1) - 1 = l
      BY <2>1
    <3>3. Is(l, 2 * k - 1)
      BY <1>3, <2>1, <2>3
    <3>4. 0 .. l \subseteq 0 .. l + 1
      BY <2>1
    <3> QED
      BY <3>1, <3>2, <3>3, <3>4
  <2>5. CASE ~HandedOn(l + 1, k)
    <3>1. Queue(l + 1, k) = <<"tree", l + 1, k>>
      BY <2>1, <2>3, <2>5, OwnQueue
    <3> DEFINE w == <<"merge", l + 1, k>>
    <3>2. w[2] = l + 1 /\ w[3] = k /\ (l + 1) - 1 = l
      BY <2>1
    <3>3. 2 * k <= Width[l]
      BY <1>1, <2>1, <2>2, <2>3, <2>5, <3>2 DEF HandedOn, Tables
    <3>4. w \in Mergers
      BY <2>1, <2>3, <3>2, <3>3 DEF Mergers
    <3>5. Output(w) = Queue(l + 1, k)
      BY <3>2 DEF Output
    <3>6. Queue(l + 1, k) \in TreeChannels
      BY <3>4, <3>5 DEF TreeChannels
    <3>7. l + 1 \in 0 .. l + 1
      BY <2>1
    <3> QED
      BY <2>3, <3>1, <3>6, <3>7
  <2> QED
    BY <2>4, <2>5
<1>4. S = Nat
  <2>1. S \in SUBSET Nat
    OBVIOUS
  <2> HIDE DEF S
  <2> QED
    BY <1>2, <1>3, <2>1, SetInduction
<1>5. n \in Nat /\ n <= Top
  BY <1>1
<1>6. Is(n, i)
  <2> HIDE DEF Is
  <2> QED
    BY <1>4, <1>5
<1> QED
  BY <1>6

--------------------------------------------------------------------------------
(* 7. Who reads and writes which channel                                     *)

\* What worker g reads: the two inputs of a merge worker, the one of a sort worker.
Source(g, k) == IF g \in Mergers THEN MergeInput(g, k) ELSE SortInput(g)

\* A merge worker and a sort worker are told apart by their first field.
LEMMA WorkerKinds ==
    /\ \A w \in Mergers : w[1] = "merge" /\ w \in Workers /\ w \notin Sorters
    /\ \A s \in Sorters : s[1] = "sort" /\ s \in Workers /\ s \notin Mergers
    /\ \A g \in Workers : g \in Mergers \/ g \in Sorters
<1>1. \A w \in Mergers : w[1] = "merge"
  BY DEF Mergers
<1>2. \A s \in Sorters : s[1] = "sort"
  BY DEF Sorters
<1> QED
  BY <1>1, <1>2 DEF Workers

\* The inputs of a merge worker are on lower levels than its output.
LEMMA InputsAre ==
    ASSUME NEW w \in Mergers, NEW k \in 0 .. 1
    PROVE  MergeInput(w, k) \in TreeChannels /\ \E l \in 0 .. w[2] - 1, j \in Tables : MergeInput(w, k) = <<"tree", l, j>>
<1> DEFINE n == w[2] - 1
           i == 2 * w[3] - 1 + k
<1>1. w[2] \in 1 .. NumTables /\ w[3] \in Tables /\ 2 * w[3] <= Width[n] /\ n \in 0 .. Top
  BY OutputIs
<1>2. NumTables \in Nat /\ Top \in 0 .. NumTables
  BY SizesAssumption, TopIs
<1>3. Width[n] \in 1 .. NumTables
  BY <1>1, <1>2, Widths
<1>4. i \in 1 .. Width[n]
  BY <1>1, <1>2, <1>3 DEF Tables
<1>5. MergeInput(w, k) = Queue(n, i)
  BY DEF MergeInput
<1> HIDE DEF n, i
<1>6. Queue(n, i) \in TreeChannels /\ \E l \in 0 .. n, j \in Tables : Queue(n, i) = <<"tree", l, j>>
  BY <1>1, <1>4, QueueIsChannel
<1> QED
  BY <1>5, <1>6 DEF n

\* A channel is one of the tables, of the tree, or of the exporters.
LEMMA ChannelKinds ==
    /\ Channels = Inner \cup {Out(e) : e \in Exporters}
    /\ \A c \in TreeChannels : c \in Inner /\ c[1] = "tree"
    /\ \A c \in Inner : c \in Channels /\ c[1] \in {"in", "tree"} /\ (c[1] = "tree" => c \in TreeChannels)
    /\ \A e \in Exporters : Out(e)[1] = "out" /\ Out(e)[3] = e /\ Out(e) \in Channels /\ Out(e) \notin Inner
<1>1. \A c \in TreeChannels : c[1] = "tree"
  <2>1. \A t \in Tables : Queue(0, t)[1] = "tree"
    BY OutputIs
  <2>2. \A w \in Mergers : Output(w)[1] = "tree"
    BY OutputIs
  <2> QED
    BY <2>1, <2>2 DEF TreeChannels
<1>2. \A t \in Tables : <<"in", 0, t>>[1] = "in"
  OBVIOUS
<1>3. Channels = Inner \cup {Out(e) : e \in Exporters}
  BY DEF Channels, Inner, TreeChannels
<1>4. \A e \in Exporters : Out(e)[1] = "out" /\ Out(e)[3] = e
  BY DEF Out
<1>5. \A c \in Inner : c[1] \in {"in", "tree"} /\ (c[1] = "tree" => c \in TreeChannels)
  BY <1>1, <1>2 DEF Inner
<1>6. \A e \in Exporters : Out(e) \notin Inner
  BY <1>4, <1>5
<1> QED
  BY <1>1, <1>3, <1>4, <1>5, <1>6 DEF Inner

\* Every channel has one writer, and no worker reads what it writes.
LEMMA Topology ==
    /\ \A g \in Workers : Output(g) \in TreeChannels
    /\ \A g, f \in Workers : Output(g) = Output(f) => g = f
    /\ \A g \in Workers, k \in 0 .. 1 : Source(g, k) \in Inner /\ Source(g, k) # Output(g)
    /\ \A w \in Mergers, k \in 0 .. 1 : Source(w, k) = MergeInput(w, k) /\ MergeInput(w, k) \in TreeChannels
    /\ \A s \in Sorters, k \in 0 .. 1 : Source(s, k) = SortInput(s) /\ SortInput(s) = <<"in", 0, s[3]>>
    /\ SortedQueue \in TreeChannels
<1>1. /\ \A w \in Mergers : Output(w) = <<"tree", w[2], w[3]>> /\ w = <<"merge", w[2], w[3]>>
                            /\ w[2] \in 1 .. NumTables /\ w[3] \in Tables
      /\ \A s \in Sorters : Output(s) = <<"tree", 0, s[3]>> /\ s = <<"sort", 0, s[3]>> /\ s[3] \in Tables
      /\ NumTables \in Nat
  BY OutputIs, SizesAssumption
<1>2. ASSUME NEW g \in Workers PROVE Output(g) \in TreeChannels
  <2>1. CASE g \in Mergers
    BY <2>1 DEF TreeChannels
  <2>2. CASE g \in Sorters
    <3>1. g[3] \in Tables /\ Queue(0, g[3]) = Output(g)
      BY <1>1, <2>2, OutputIs
    <3> QED
      BY <3>1 DEF TreeChannels
  <2> QED
    BY <2>1, <2>2, WorkerKinds
<1>3. ASSUME NEW g \in Workers, NEW f \in Workers, Output(g) = Output(f) PROVE g = f
  <2>1. CASE g \in Mergers /\ f \in Mergers
    <3>1. g[2] = f[2] /\ g[3] = f[3]
      BY <1>1, <1>3, <2>1
    <3> QED
      BY <1>1, <2>1, <3>1
  <2>2. CASE g \in Sorters /\ f \in Sorters
    <3>1. g[3] = f[3]
      BY <1>1, <1>3, <2>2
    <3> QED
      BY <1>1, <2>2, <3>1
  <2>3. CASE g \in Mergers /\ f \in Sorters
    <3>1. g[2] = 0 /\ g[2] \in 1 .. NumTables
      BY <1>1, <1>3, <2>3
    <3> QED
      BY <1>1, <3>1
  <2>4. CASE g \in Sorters /\ f \in Mergers
    <3>1. f[2] = 0 /\ f[2] \in 1 .. NumTables
      BY <1>1, <1>3, <2>4
    <3> QED
      BY <1>1, <3>1
  <2> QED
    BY <2>1, <2>2, <2>3, <2>4, WorkerKinds
<1>4. \A w \in Mergers, k \in 0 .. 1 : Source(w, k) = MergeInput(w, k) /\ MergeInput(w, k) \in TreeChannels
  BY InputsAre DEF Source
<1>5. \A s \in Sorters, k \in 0 .. 1 : Source(s, k) = SortInput(s) /\ SortInput(s) = <<"in", 0, s[3]>>
  BY WorkerKinds DEF Source, SortInput
<1>6. ASSUME NEW g \in Workers, NEW k \in 0 .. 1 PROVE Source(g, k) \in Inner /\ Source(g, k) # Output(g)
  <2>1. CASE g \in Mergers
    <3>1. PICK l \in 0 .. g[2] - 1, j \in Tables : MergeInput(g, k) = <<"tree", l, j>>
      BY <2>1, InputsAre
    <3>2. l # g[2]
      BY <1>1, <2>1
    <3>3. MergeInput(g, k) # Output(g)
      BY <1>1, <2>1, <3>1, <3>2
    <3> QED
      BY <1>4, <2>1, <3>3, ChannelKinds
  <2>2. CASE g \in Sorters
    <3>1. Source(g, k) = <<"in", 0, g[3]>> /\ g[3] \in Tables
      BY <1>1, <1>5, <2>2
    <3>2. Output(g)[1] = "tree" /\ Source(g, k)[1] = "in"
      BY <1>1, <2>2, <3>1
    <3> QED
      BY <3>1, <3>2 DEF Inner
  <2> QED
    BY <2>1, <2>2, WorkerKinds
<1>7. SortedQueue \in TreeChannels
  <2>1. Top \in 0 .. Top /\ 1 \in 1 .. Width[Top]
    BY TopIs, SizesAssumption
  <2> QED
    BY <2>1, QueueIsChannel DEF SortedQueue
<1> QED
  BY <1>2, <1>3, <1>4, <1>5, <1>6, <1>7

\* The tables write to channels that no worker writes to while records are sorted.
LEMMA TablesWrite ==
    ASSUME order \in Orders
    PROVE  /\ \A t \in Tables : In(t) \in Inner
           /\ order = "expiry" => \A t \in Tables : In(t) = <<"in", 0, t>>
           /\ order # "none" /\ order # "expiry" => \A t \in Tables : In(t) = <<"tree", 0, t>>
           /\ order # "none" => \A t, s \in Tables : In(t) = In(s) => t = s
           /\ order # "none" => \A t \in Tables, w \in Mergers : In(t) # Output(w)
           /\ order = "expiry" => \A t \in Tables, g \in Workers : In(t) # Output(g)
<1>1. order = "expiry" => \A t \in Tables : In(t) = <<"in", 0, t>>
  BY DEF In
<1>2. order # "none" /\ order # "expiry" => \A t \in Tables : In(t) = <<"tree", 0, t>>
  BY OutputIs DEF In
<1>3. order = "none" => \A t \in Tables : In(t) = SortedQueue
  BY DEF In
<1>4. \A t \in Tables : In(t) \in Inner
  <2>1. \A t \in Tables : <<"in", 0, t>> \in Inner /\ <<"tree", 0, t>> \in Inner
    BY OutputIs DEF Inner, TreeChannels
  <2> QED
    BY <1>1, <1>2, <1>3, <2>1, Topology, ChannelKinds
<1>5. order # "none" => \A t, s \in Tables : In(t) = In(s) => t = s
  <2>1. \A t, s \in Tables : <<"in", 0, t>> = <<"in", 0, s>> => t = s
    OBVIOUS
  <2>2. \A t, s \in Tables : <<"tree", 0, t>> = <<"tree", 0, s>> => t = s
    OBVIOUS
  <2> QED
    BY <1>1, <1>2, <2>1, <2>2
<1>6. order = "expiry" => \A t \in Tables, g \in Workers : In(t) # Output(g)
  <2>1. \A t \in Tables : <<"in", 0, t>>[1] = "in"
    OBVIOUS
  <2>2. \A g \in Workers : Output(g)[1] = "tree"
    BY Topology, ChannelKinds
  <2> QED
    BY <1>1, <2>1, <2>2
<1>7. \A t \in Tables, w \in Mergers : <<"tree", 0, t>> # Output(w)
  <2> TAKE t \in Tables, w \in Mergers
  <2>1. Output(w) = <<"tree", w[2], w[3]>> /\ w[2] # 0
    BY OutputIs, SizesAssumption
  <2> QED
    BY <2>1
<1>8. order # "none" => \A t \in Tables, w \in Mergers : In(t) # Output(w)
  BY <1>2, <1>6, <1>7, WorkerKinds
<1> QED
  BY <1>1, <1>2, <1>4, <1>5, <1>6, <1>8

--------------------------------------------------------------------------------
(* 8. Heads of lists at places                                               *)

\* The records in the lists that begin at the heads U; these lists have no record in
\* common; the heads of H are at the places P, each at one place.
RecordsOf(next, U) == UNION {Elements(Chain(next, h)) : h \in U}
Separate(next, U) ==
    /\ \A h \in U : h \in Records /\ \E l \in RecordLists : Linked(next, h, l)
    /\ \A g, h \in U : g # h => Elements(Chain(next, g)) \cap Elements(Chain(next, h)) = {}
Heads(P, H) == UNION {H[p] : p \in P}
Apart(P, H) == \A p, q \in P : p # q => H[p] \cap H[q] = {}

\* The lists of the heads D are relinked into those of the heads E; the records F come
\* from elsewhere.
Relinks(next, nxt, D, E, F) ==
    /\ Separate(nxt, E) /\ RecordsOf(nxt, E) \subseteq RecordsOf(next, D) \cup F
    /\ \A x \in Records \ (RecordsOf(next, D) \cup F) : nxt[x] = next[x]

\* The list of one of the heads.
LEMMA ChainOf ==
    ASSUME NEW next, NEW U, Separate(next, U), NEW h \in U
    PROVE  /\ Chain(next, h) \in RecordLists /\ Linked(next, h, Chain(next, h))
           /\ h \in Records /\ h \in Elements(Chain(next, h)) /\ Chain(next, h) # <<>>
           /\ Elements(Chain(next, h)) \subseteq RecordsOf(next, U)
           /\ Elements(Chain(next, h)) \subseteq Records
<1>1. h \in Records /\ \E l \in RecordLists : Linked(next, h, l)
  BY DEF Separate
<1>2. PICK l \in RecordLists : Linked(next, h, l)
  BY <1>1
<1>3. Chain(next, h) = l
  BY <1>2, ChainIs
<1>4. h # Nil
  BY <1>1, SizesAssumption DEF Records, Nil
<1>5. h \in Elements(l) /\ l # <<>>
  BY <1>2, <1>4, LinkedHead
<1>6. Elements(l) \subseteq Records
  BY ListTypes
<1> QED
  BY <1>1, <1>2, <1>3, <1>5, <1>6 DEF RecordsOf

\* Lists whose records are all left alone stay as they are.
LEMMA ChainStays ==
    ASSUME NEW next, NEW nxt, NEW U, Separate(next, U), NEW h \in U,
           \A x \in Elements(Chain(next, h)) : nxt[x] = next[x]
    PROVE  Chain(nxt, h) = Chain(next, h) /\ Linked(nxt, h, Chain(next, h))
<1> DEFINE l == Chain(next, h)
<1>1. l \in RecordLists /\ Linked(next, h, l)
  BY ChainOf
<1>2. \A x \in Elements(l) : nxt[x] = next[x]
  OBVIOUS
<1> HIDE DEF l
<1>3. Linked(nxt, h, l)
  BY <1>1, <1>2, LinkedFrame
<1>4. Chain(nxt, h) = l
  BY <1>1, <1>3, ChainIs
<1> QED
  BY <1>3, <1>4 DEF l

\* What relinking some of the lists leaves of the others, and that all lists have no
\* record in common again.
RelinkedHeads(next, nxt, U, D, E, F) ==
    /\ Separate(nxt, (U \ D) \cup E) /\ (U \ D) \cap E = {}
    /\ \A h \in U \ D : /\ Chain(nxt, h) = Chain(next, h)
                        /\ Elements(Chain(next, h)) \cap (RecordsOf(next, D) \cup F) = {}
    /\ RecordsOf(nxt, (U \ D) \cup E)
         = (RecordsOf(next, U) \ RecordsOf(next, D)) \cup RecordsOf(nxt, E)

\* Lists of some heads are relinked, those of the others stay.
LEMMA RelinkHeads ==
    ASSUME NEW next, NEW nxt, NEW U, Separate(next, U), NEW D \in SUBSET U, NEW E, NEW F,
           Relinks(next, nxt, D, E, F), F \cap RecordsOf(next, U) = {}
    PROVE  RelinkedHeads(next, nxt, U, D, E, F)
<1> DEFINE R == RecordsOf(next, D) \cup F
           V == U \ D
<1>1. ASSUME NEW h \in V
      PROVE  /\ Elements(Chain(next, h)) \cap R = {}
             /\ Elements(Chain(next, h)) \subseteq RecordsOf(next, U)
             /\ Elements(Chain(next, h)) \cap RecordsOf(next, D) = {}
             /\ Chain(nxt, h) = Chain(next, h) /\ Linked(nxt, h, Chain(next, h))
             /\ Chain(next, h) \in RecordLists /\ h \in Elements(Chain(next, h)) /\ h \in Records
  <2>1. /\ Elements(Chain(next, h)) \subseteq RecordsOf(next, U)
        /\ Elements(Chain(next, h)) \subseteq Records
        /\ Chain(next, h) \in RecordLists /\ h \in Elements(Chain(next, h)) /\ h \in Records
    BY ChainOf
  <2>2. \A g \in D : Elements(Chain(next, h)) \cap Elements(Chain(next, g)) = {}
    BY DEF Separate
  <2>3. Elements(Chain(next, h)) \cap RecordsOf(next, D) = {}
    BY <2>2 DEF RecordsOf
  <2>4. \A x \in Elements(Chain(next, h)) : nxt[x] = next[x]
    BY <2>1, <2>3 DEF Relinks
  <2> QED
    BY <2>1, <2>3, <2>4, ChainStays
<1>2. /\ \A h \in E : h \in Records /\ \E l \in RecordLists : Linked(nxt, h, l)
      /\ \A g, h \in E : g # h => Elements(Chain(nxt, g)) \cap Elements(Chain(nxt, h)) = {}
      /\ \A h \in E : Elements(Chain(nxt, h)) \subseteq R /\ h \in R
  <2>1. Separate(nxt, E) /\ RecordsOf(nxt, E) \subseteq R
    BY DEF Relinks
  <2>2. \A h \in E : Elements(Chain(nxt, h)) \subseteq RecordsOf(nxt, E) /\ h \in Elements(Chain(nxt, h))
    BY <2>1, ChainOf
  <2> QED
    BY <2>1, <2>2 DEF Separate
<1>3. V \cap E = {}
  BY <1>1, <1>2
<1>4. Separate(nxt, V \cup E)
  <2>1. \A h \in V \cup E : h \in Records /\ \E l \in RecordLists : Linked(nxt, h, l)
    BY <1>1, <1>2
  <2>2. ASSUME NEW g \in V \cup E, NEW h \in V \cup E, g # h
        PROVE  Elements(Chain(nxt, g)) \cap Elements(Chain(nxt, h)) = {}
    <3> HIDE DEF V, R
    <3>1. CASE g \in V /\ h \in V
      <4>1. Elements(Chain(next, g)) \cap Elements(Chain(next, h)) = {}
        BY <2>2, <3>1 DEF Separate, V
      <4> QED
        BY <1>1, <3>1, <4>1
    <3>2. CASE g \in E /\ h \in E
      BY <1>2, <2>2, <3>2
    <3>3. CASE g \in V /\ h \in E
      <4>1. Elements(Chain(nxt, g)) \cap R = {} /\ Elements(Chain(nxt, h)) \subseteq R
        BY <1>1, <1>2, <3>3
      <4> QED
        BY <4>1
    <3>4. CASE g \in E /\ h \in V
      <4>1. Elements(Chain(nxt, h)) \cap R = {} /\ Elements(Chain(nxt, g)) \subseteq R
        BY <1>1, <1>2, <3>4
      <4> QED
        BY <4>1
    <3> QED
      BY <3>1, <3>2, <3>3, <3>4
  <2> HIDE DEF V
  <2> QED
    BY <2>1, <2>2 DEF Separate
<1>5. RecordsOf(nxt, V \cup E) = (RecordsOf(next, U) \ RecordsOf(next, D)) \cup RecordsOf(nxt, E)
  <2>1. RecordsOf(nxt, V \cup E) = RecordsOf(nxt, V) \cup RecordsOf(nxt, E)
    BY DEF RecordsOf
  <2>2. RecordsOf(nxt, V) = RecordsOf(next, V)
    <3>1. \A h \in V : Chain(nxt, h) = Chain(next, h)
      BY <1>1
    <3> HIDE DEF V
    <3> QED
      BY <3>1 DEF RecordsOf
  <2>3. RecordsOf(next, U) = RecordsOf(next, V) \cup RecordsOf(next, D)
    BY DEF RecordsOf
  <2>4. RecordsOf(next, V) \cap RecordsOf(next, D) = {}
    <3>1. \A h \in V : Elements(Chain(next, h)) \cap RecordsOf(next, D) = {}
      BY <1>1
    <3> HIDE DEF V
    <3> QED
      BY <3>1 DEF RecordsOf
  <2> QED
    BY <2>1, <2>2, <2>3, <2>4
<1>6. \A h \in V : Chain(nxt, h) = Chain(next, h) /\ Elements(Chain(next, h)) \cap R = {}
  BY <1>1
<1> QED
  BY <1>3, <1>4, <1>5, <1>6 DEF RelinkedHeads

\* The places C lose the heads D and get the heads N.
Relinked(P, C, H, G, next, nxt, D, E, F) ==
    /\ Apart(P, G) /\ Separate(nxt, Heads(P, G)) /\ Heads(P, G) = (Heads(P, H) \ D) \cup E
    /\ RecordsOf(nxt, Heads(P, G))
         = (RecordsOf(next, Heads(P, H)) \ RecordsOf(next, D)) \cup RecordsOf(nxt, E)
    /\ \A p \in P : \A h \in H[p] : p \notin C \/ h \notin D
         => /\ Chain(nxt, h) = Chain(next, h)
            /\ Elements(Chain(next, h)) \cap (RecordsOf(next, D) \cup F) = {}

\* ... and so stay the lists at the places that lose none of these heads.
LEMMA Relink ==
    ASSUME NEW next, NEW nxt, NEW P, NEW C \in SUBSET P, NEW H, NEW G, NEW N, NEW D, NEW F,
           Apart(P, H), Separate(next, Heads(P, H)), D \subseteq Heads(C, H), Apart(C, N),
           \A p \in P \ C : G[p] = H[p], \A p \in C : G[p] = (H[p] \ D) \cup N[p],
           Relinks(next, nxt, D, Heads(C, N), F), F \cap RecordsOf(next, Heads(P, H)) = {}
    PROVE  Relinked(P, C, H, G, next, nxt, D, Heads(C, N), F)
<1> DEFINE U == Heads(P, H)
           E == Heads(C, N)
<1>1. D \in SUBSET U
  BY DEF Heads
<1> HIDE DEF U, E
<1>2. RelinkedHeads(next, nxt, U, D, E, F)
  BY <1>1, RelinkHeads DEF U, E
<1>3. /\ Separate(nxt, (U \ D) \cup E) /\ (U \ D) \cap E = {}
      /\ \A h \in U \ D : /\ Chain(nxt, h) = Chain(next, h)
                          /\ Elements(Chain(next, h)) \cap (RecordsOf(next, D) \cup F) = {}
      /\ RecordsOf(nxt, (U \ D) \cup E)
           = (RecordsOf(next, U) \ RecordsOf(next, D)) \cup RecordsOf(nxt, E)
  BY <1>2 DEF RelinkedHeads
<1>4. \A p \in P \ C : H[p] \cap D = {} /\ H[p] \subseteq U \ D
  <2>1. \A p \in P \ C : H[p] \cap D = {}
    BY DEF Heads, Apart
  <2> QED
    BY <2>1 DEF Heads, U
<1>5. \A p \in P : H[p] \subseteq U
  BY DEF Heads, U
<1>6. \A p \in C : N[p] \subseteq E
  BY DEF Heads, E
<1>7. Heads(P, G) = (U \ D) \cup E
  <2>1. ASSUME NEW p \in P PROVE G[p] \subseteq (U \ D) \cup E
    <3>1. CASE p \in C
      BY <1>5, <1>6, <3>1
    <3>2. CASE p \notin C
      BY <1>4, <3>2
    <3> QED
      BY <3>1, <3>2
  <2>2. ASSUME NEW h \in U \ D PROVE \E p \in P : h \in G[p]
    <3>1. PICK p \in P : h \in H[p]
      BY DEF U, Heads
    <3> QED
      BY <3>1
  <2>3. \A h \in E : \E p \in P : h \in G[p]
    BY DEF E, Heads
  <2> QED
    BY <2>1, <2>2, <2>3 DEF Heads
<1>8. Apart(P, G)
  <2> SUFFICES ASSUME NEW p \in P, NEW q \in P, p # q PROVE G[p] \cap G[q] = {}
    BY DEF Apart
  <2>1. H[p] \cap H[q] = {}
    BY DEF Apart
  <2>2. CASE p \in C /\ q \in C
    <3>1. N[p] \cap N[q] = {}
      BY <2>2 DEF Apart
    <3>2. N[p] \cap (H[q] \ D) = {} /\ N[q] \cap (H[p] \ D) = {}
      BY <1>3, <1>5, <1>6, <2>2
    <3> QED
      BY <2>1, <2>2, <3>1, <3>2
  <2>3. CASE p \in C /\ q \notin C
    <3>1. N[p] \cap H[q] = {}
      BY <1>3, <1>4, <1>6, <2>3
    <3> QED
      BY <2>1, <2>3, <3>1
  <2>4. CASE p \notin C /\ q \in C
    <3>1. N[q] \cap H[p] = {}
      BY <1>3, <1>4, <1>6, <2>4
    <3> QED
      BY <2>1, <2>4, <3>1
  <2>5. CASE p \notin C /\ q \notin C
    BY <2>1, <2>5
  <2> QED
    BY <2>2, <2>3, <2>4, <2>5
<1>9. ASSUME NEW p \in P, NEW h \in H[p], p \notin C \/ h \notin D PROVE h \in U \ D
  BY <1>4, <1>5, <1>9
<1>10. Relinked(P, C, H, G, next, nxt, D, E, F)
  <2>1. \A p \in P : \A h \in H[p] : p \notin C \/ h \notin D
          => /\ Chain(nxt, h) = Chain(next, h)
             /\ Elements(Chain(next, h)) \cap (RecordsOf(next, D) \cup F) = {}
    BY <1>3, <1>9
  <2> QED
    BY <1>3, <1>7, <1>8, <2>1 DEF Relinked, U
<1> QED
  BY <1>10 DEF E

--------------------------------------------------------------------------------
(* 9. The merge loops of a merge worker                                      *)

\* Lists are in order, by themselves and among each other, if every table sends its batches
\* in order.  Without that the records are still kept apart.
Ordered == Orders \ {"none"} \subseteq Steady
Sorted(l) == Ordered => Rising(l)
Ahead(A, B) == \A x \in A, y \in B : Ordered => x < y

\* Lists of up to one record, and lists one before the other.
LEMMA SortedOne ==
    /\ Sorted(<<>>)
    /\ \A x : Sorted(<<x>>)
BY RisingOne DEF Sorted

LEMMA SortedConcat ==
    ASSUME NEW l \in RecordLists, NEW m \in RecordLists, Sorted(l), Sorted(m),
           Ahead(Elements(l), Elements(m))
    PROVE  Sorted(l \o m)
<1> SUFFICES ASSUME Ordered PROVE Rising(l \o m)
  BY DEF Sorted
<1>1. Rising(l) /\ Rising(m)
  BY DEF Sorted
<1>2. Before(Elements(l), Elements(m))
  BY DEF Ahead, Before
<1> QED
  BY <1>1, <1>2, RisingConcat

\* Lists 0 and 1 are merged into list 2.
Merging(l) ==
    /\ l \in [0 .. 2 -> RecordLists]
    /\ \A q \in 0 .. 2 : Sorted(l[q])
    /\ \A q \in 0 .. 1 : Ahead(Elements(l[2]), Elements(l[q]))
    /\ \A p, q \in 0 .. 2 : p # q => Elements(l[p]) \cap Elements(l[q]) = {}

LEMMA MergingIs ==
    ASSUME NEW l
    PROVE  Merging(l) <=> MergingIf(Ordered, l)
<1>1. (\A q \in 0 .. 2 : Sorted(l[q])) <=> (Ordered => \A q \in 0 .. 2 : Rising(l[q]))
  BY DEF Sorted
<1>2. (\A q \in 0 .. 1 : Ahead(Elements(l[2]), Elements(l[q])))
      <=> (Ordered => \A q \in 0 .. 1 : Before(Elements(l[2]), Elements(l[q])))
  BY DEF Ahead, Before
<1> QED
  BY <1>1, <1>2 DEF Merging, MergingIf

\* Nothing is merged yet.
LEMMA MergingStarts ==
    ASSUME NEW l \in [0 .. 2 -> RecordLists], \A q \in 0 .. 2 : Sorted(l[q]), l[2] = <<>>,
           Elements(l[0]) \cap Elements(l[1]) = {}
    PROVE  Merging(l)
<1>1. Elements(l[2]) = {}
  BY EmptyList
<1>2. \A q \in 0 .. 1 : Ahead(Elements(l[2]), Elements(l[q]))
  BY <1>1 DEF Ahead
<1>3. \A p, q \in 0 .. 2 : p # q => Elements(l[p]) \cap Elements(l[q]) = {}
  <2>1. \A q \in 0 .. 2 : q = 0 \/ q = 1 \/ q = 2
    OBVIOUS
  <2> QED
    BY <1>1, <2>1
<1> QED
  BY <1>2, <1>3 DEF Merging

\* The state t with the lists m in its queues is what merging makes of the state s with
\* the lists l: the tail of a queue that is left is still at its end, and the output
\* caches its own.
Merged(s, l, t, m, keep) ==
    /\ t \in MergeState /\ Merging(m) /\ All(m) = All(l)
    /\ \A q \in 0 .. 2 : Linked(t.next, t.head[q], m[q])
    /\ \A x \in Records \ All(l) : t.next[x] = s.next[x] /\ t.prev[x] = s.prev[x]
    /\ m[2] # <<>> => t.tail[2] = End(m[2]) /\ t.prev[t.head[2]] = End(m[2])
    /\ m[2] = <<>> => t.tail[2] = s.tail[2]
    /\ \A q \in 0 .. 1 : t.tail[q] = s.tail[q] /\ Elements(m[q]) \subseteq Elements(l[q])
    /\ \A q \in 0 .. 1 : m[q] # <<>> => End(m[q]) = End(l[q])
    /\ \A q \in 0 .. 1 : keep[q] = 1 /\ l[q] # <<>> => m[q] # <<>>
    /\ l[0] # <<>> \/ l[1] # <<>> => m[0] # <<>> \/ m[1] # <<>>
    /\ m[2] # <<>> => l[0] # <<>> /\ l[1] # <<>>

\* hasHead and hasTwoElements by the list of the queue.
LEMMA HasMore ==
    ASSUME NEW t \in MergeState, NEW q \in 0 .. 2, NEW m \in RecordLists, Linked(t.next, t.head[q], m)
    PROVE  /\ HasMoreThan(t, q, 0) <=> m # <<>>
           /\ HasMoreThan(t, q, 1) <=> m # <<>> /\ Tail(m) # <<>>
<1>1. (t.head[q] = Nil) <=> (m = <<>>)
  BY LinkedHead
<1>2. ASSUME m # <<>> PROVE (t.next[t.head[q]] = Nil) <=> (Tail(m) = <<>>)
  <2> DEFINE h == t.next[t.head[q]]
             r == Tail(m)
  <2>1. Linked(t.next, h, r) /\ r \in RecordLists
    BY <1>2, LinkedTail, ListTail
  <2> HIDE DEF h, r
  <2>2. (h = Nil) <=> (r = <<>>)
    BY <2>1, LinkedHead
  <2> QED
    BY <2>2 DEF h, r
<1> QED
  BY <1>1, <1>2 DEF HasMoreThan

\* The end of a list is one of its records, the one it was before the first was taken,
\* and a record that is appended.
LEMMA EndIs ==
    ASSUME NEW m \in RecordLists, m # <<>>
    PROVE  /\ End(m) \in Elements(m) /\ End(m) \in Records
           /\ Tail(m) # <<>> => End(Tail(m)) = End(m)
<1>1. Len(m) \in Nat /\ Len(m) # 0 /\ \A i \in 1 .. Len(m) : m[i] \in Records /\ m[i] \in Elements(m)
  BY ListTypes
<1>2. /\ Tail(m) \in RecordLists /\ Len(Tail(m)) = Len(m) - 1
      /\ \A i \in 1 .. Len(m) - 1 : Tail(m)[i] = m[i + 1]
  BY ListTail
<1>3. Tail(m) # <<>> => Len(Tail(m)) \in Nat /\ Len(Tail(m)) # 0
  BY <1>2, ListTypes
<1> DEFINE k == Len(m)
           t == Tail(m)
           j == Len(t)
<1>4. k \in Nat /\ k # 0 /\ j = k - 1 /\ (t # <<>> => j \in Nat /\ j # 0)
      /\ \A i \in 1 .. k - 1 : t[i] = m[i + 1]
  BY <1>1, <1>2, <1>3
<1>5. End(m) = m[k] /\ End(t) = t[j]
  BY DEF End
<1> HIDE DEF k, j, t
<1>6. k \in 1 .. k
  BY <1>4
<1>7. m[k] \in Elements(m) /\ m[k] \in Records
  BY <1>1, <1>6 DEF k
<1>8. t # <<>> => t[j] = m[k]
  <2> HAVE t # <<>>
  <2>1. k - 1 \in 1 .. k - 1 /\ (k - 1) + 1 = k
    BY <1>4
  <2> QED
    BY <1>4, <2>1
<1> QED
  BY <1>5, <1>7, <1>8 DEF t

\* A record that is appended is the end of the list.
LEMMA EndAppended ==
    ASSUME NEW m \in RecordLists, NEW x \in Records, x \notin Elements(m)
    PROVE  End(Append(m, x)) = x /\ Append(m, x) # <<>> /\ Append(m, x) = m \o <<x>>
<1>1. m \in Seq(Records)
  BY ListTypes
<1>2. Append(m, x)[Len(m) + 1] = x /\ Len(Append(m, x)) = Len(m) + 1
  BY ListAppend
<1>3. Append(m, x) = m \o <<x>>
  BY <1>1
<1>4. Append(m, x) # <<>>
  <2>1. Append(m, x) \in RecordLists /\ x \in Elements(Append(m, x))
    BY ListAppend
  <2> QED
    BY <2>1, ListTypes
<1> QED
  BY <1>2, <1>3, <1>4 DEF End

\* mergeOne moves the smaller one of the heads to the end of the output.
LEMMA MergeOneMerges ==
    ASSUME NEW s, NEW l, NEW t, NEW m, NEW keep \in [0 .. 1 -> 0 .. 1], Merged(s, l, t, m, keep),
           \A q \in 0 .. 1 : HasMoreThan(t, q, keep[q])
    PROVE  Merged(s, l, MergeOne(t), Moved(m), keep) /\ Len(Moved(m)[2]) = Len(m[2]) + 1
<1> DEFINE q == Smaller(m)
           x == m[q][1]
           v == Moved(m)
           u == MergeOne(t)
           y == t.tail[2]
           h == t.head[2]
<1>1. /\ t \in MergeState /\ Merging(m) /\ All(m) = All(l)
      /\ \A p \in 0 .. 2 : Linked(t.next, t.head[p], m[p]) /\ m[p] \in RecordLists
      /\ \A z \in Records \ All(l) : t.next[z] = s.next[z] /\ t.prev[z] = s.prev[z]
      /\ m[2] # <<>> => t.tail[2] = End(m[2]) /\ t.prev[t.head[2]] = End(m[2])
      /\ \A p \in 0 .. 1 : t.tail[p] = s.tail[p] /\ Elements(m[p]) \subseteq Elements(l[p])
      /\ \A p \in 0 .. 1 : m[p] # <<>> => End(m[p]) = End(l[p])
      /\ \A p \in 0 .. 1 : keep[p] = 1 /\ l[p] # <<>> => m[p] # <<>>
  BY DEF Merged, Merging
<1>2. \A p \in 0 .. 1 : m[p] # <<>> /\ (keep[p] = 1 => Tail(m[p]) # <<>>)
  <2> TAKE p \in 0 .. 1
  <2>1. p \in 0 .. 2 /\ keep[p] \in 0 .. 1 /\ HasMoreThan(t, p, keep[p])
    OBVIOUS
  <2>2. keep[p] = 0 \/ keep[p] = 1
    BY <2>1
  <2> QED
    BY <1>1, <2>1, <2>2, HasMore
<1>3. MovesOn(Ordered, m, v, q, x)
  BY <1>1, <1>2, MoveOne, MergingIs
<1>4. /\ q \in 0 .. 1 /\ x \in Records
      /\ Merging(v) /\ All(v) = All(m)
      /\ v[q] = Tail(m[q]) /\ v[1 - q] = m[1 - q] /\ v[2] = Append(m[2], x)
      /\ Elements(v[2]) = Elements(m[2]) \cup {x} /\ x \notin Elements(m[2])
      /\ Elements(m[q]) = Elements(v[q]) \cup {x} /\ x \notin Elements(m[1 - q])
      /\ \A p \in 0 .. 1 : Elements(v[p]) \subseteq Elements(m[p])
  BY <1>3, MergingIs DEF MovesOn
<1>5. /\ t.head[0] = m[0][1] /\ t.head[1] = m[1][1]
      /\ (h = Nil) <=> (m[2] = <<>>)
  <2>1. /\ (t.head[0] = Nil) <=> (m[0] = <<>>)
        /\ t.head[0] # Nil => t.head[0] = m[0][1]
    BY <1>1, LinkedHead
  <2>2. /\ (t.head[1] = Nil) <=> (m[1] = <<>>)
        /\ t.head[1] # Nil => t.head[1] = m[1][1]
    BY <1>1, LinkedHead
  <2>3. (h = Nil) <=> (m[2] = <<>>)
    BY <1>1, LinkedHead
  <2> QED
    BY <1>2, <2>1, <2>2, <2>3
<1>6. q = (IF t.head[0] < t.head[1] THEN 0 ELSE 1) /\ t.head[q] = x
  BY <1>4, <1>5 DEF Smaller
<1>7. /\ u.head = [t.head EXCEPT ![q] = t.next[x], ![2] = IF h = Nil THEN x ELSE @]
      /\ u.tail = [t.tail EXCEPT ![2] = x]
      /\ u.next = [e \in Records |-> IF e = x THEN Nil
                                     ELSE IF h # Nil /\ e = y THEN x ELSE t.next[e]]
      /\ u.prev = IF h = Nil THEN [t.prev EXCEPT ![x] = x]
                  ELSE [t.prev EXCEPT ![x] = Nil, ![h] = x]
      /\ u = [head |-> u.head, tail |-> u.tail, next |-> u.next, prev |-> u.prev]
  BY <1>6 DEF MergeOne
<1>8. /\ t.head \in [0 .. 2 -> Pointer] /\ t.tail \in [0 .. 2 -> Pointer]
      /\ t.next \in [Records -> Pointer] /\ t.prev \in [Records -> Pointer]
      /\ x \in Pointer /\ Nil \in Pointer /\ t.next[x] \in Pointer
  BY <1>1, <1>4 DEF MergeState, Pointer
<1> HIDE DEF q, x, v, u, y, h
<1>9. u \in MergeState
  <2>1. u.head \in [0 .. 2 -> Pointer] /\ u.tail \in [0 .. 2 -> Pointer]
    BY <1>7, <1>8
  <2>2. u.next \in [Records -> Pointer]
    BY <1>7, <1>8
  <2>3. u.prev \in [Records -> Pointer]
    <3>1. CASE h = Nil
      <4>1. [t.prev EXCEPT ![x] = x] \in [Records -> Pointer]
        BY <1>8
      <4> QED
        BY <1>7, <3>1, <4>1
    <3>2. CASE h # Nil
      <4>1. [t.prev EXCEPT ![x] = Nil] \in [Records -> Pointer]
        BY <1>8
      <4>2. [[t.prev EXCEPT ![x] = Nil] EXCEPT ![h] = x] \in [Records -> Pointer]
        BY <1>8, <4>1
      <4> QED
        BY <1>7, <3>2, <4>2
    <3> QED
      BY <3>1, <3>2
  <2> QED
    BY <1>7, <2>1, <2>2, <2>3 DEF MergeState
<1>10. q \in 0 .. 2 /\ 1 - q \in 0 .. 1 /\ 1 - q \in 0 .. 2 /\ q # 2 /\ 1 - q # 2 /\ 1 - q # q
       /\ \A p \in 0 .. 1 : p = q \/ p = 1 - q
  BY <1>4
<1>11. u.head[q] = t.next[x] /\ u.head[1 - q] = t.head[1 - q] /\ u.head[2] = IF h = Nil THEN x ELSE h
  BY <1>7, <1>8, <1>10 DEF h
<1>12. m[2] # <<>> => y = End(m[2]) /\ y \in Elements(m[2]) /\ y \in Records
  BY <1>1, EndIs DEF y
<1>13. \A p \in 0 .. 1 : Elements(m[2]) \cap Elements(m[p]) = {}
  BY <1>1 DEF Merging
<1>14. \A z \in Records : z # x /\ (m[2] = <<>> \/ z # y) => u.next[z] = t.next[z]
  BY <1>5, <1>7
<1>15. u.next[x] = Nil /\ (m[2] # <<>> => u.next[y] = x)
  BY <1>4, <1>5, <1>7, <1>12
<1>16. Linked(u.next, u.head[q], v[q])
  <2>1. Linked(t.next, t.head[q], m[q]) /\ m[q] \in RecordLists /\ m[q] # <<>>
    BY <1>1, <1>2, <1>4, <1>10
  <2>2. Linked(t.next, t.next[x], Tail(m[q])) /\ Tail(m[q]) \in RecordLists
    BY <1>6, <2>1, LinkedTail, ListTail
  <2>3. x \notin Elements(v[q])
    <3>1. m[q][1] \notin Elements(Tail(m[q]))
      BY <2>1, ListTail
    <3> QED
      BY <1>4, <3>1 DEF x
  <2>4. \A z \in Elements(v[q]) : u.next[z] = t.next[z]
    <3>1. Elements(v[q]) \subseteq Records
      BY <1>4, <2>2, ListTypes
    <3>2. m[2] # <<>> => y \notin Elements(v[q])
      BY <1>4, <1>12, <1>13
    <3> QED
      BY <1>14, <2>3, <3>1, <3>2
  <2> QED
    BY <1>4, <1>11, <2>2, <2>4, LinkedFrame
<1>17. Linked(u.next, u.head[1 - q], v[1 - q])
  <2>1. Linked(t.next, t.head[1 - q], m[1 - q]) /\ m[1 - q] \in RecordLists
    BY <1>1, <1>10
  <2>2. \A z \in Elements(m[1 - q]) : u.next[z] = t.next[z]
    <3>1. Elements(m[1 - q]) \subseteq Records
      BY <2>1, ListTypes
    <3>2. m[2] # <<>> => y \notin Elements(m[1 - q])
      BY <1>10, <1>12, <1>13
    <3> QED
      BY <1>4, <1>14, <3>1, <3>2
  <2> QED
    BY <1>4, <1>11, <2>1, <2>2, LinkedFrame
<1>18. End(v[2]) = x /\ v[2] # <<>> /\ v[2] = m[2] \o <<x>>
  BY <1>1, <1>4, EndAppended
<1>19. Linked(u.next, u.head[2], v[2])
  <2>1. m[2] \in RecordLists /\ Linked(t.next, h, m[2]) /\ Elements(m[2]) \subseteq Records
    BY <1>1, ListTypes DEF h
  <2>2. <<x>> \in RecordLists /\ Elements(<<x>>) = {x}
    BY <1>4, ListOne
  <2>3. Linked(u.next, x, <<x>>)
    BY <1>15 DEF Linked
  <2>4. CASE m[2] = <<>>
    <3>1. v[2] = <<x>>
      BY <1>18, <2>4
    <3> QED
      BY <1>5, <1>11, <2>3, <2>4, <3>1
  <2>5. CASE m[2] # <<>>
    <3> DEFINE n == [e \in Records |-> IF e = x THEN Nil ELSE t.next[e]]
    <3>1. \A z \in Elements(m[2]) : n[z] = t.next[z]
      BY <1>4, <2>1
    <3>2. n[x] = Nil
      BY <1>4
    <3>3. \A z \in Elements(m[2]) \cup Elements(<<x>>) : u.next[z] = IF z = End(m[2]) THEN x ELSE n[z]
      <4>1. \A z \in Elements(m[2]) : u.next[z] = IF z = End(m[2]) THEN x ELSE n[z]
        BY <1>4, <1>12, <1>14, <1>15, <2>1, <2>5, <3>1
      <4>2. u.next[x] = n[x] /\ x # End(m[2])
        BY <1>4, <1>12, <1>15, <2>5, <3>2
      <4> QED
        BY <2>2, <4>1, <4>2
    <3> HIDE DEF n
    <3>4. Linked(n, h, m[2])
      BY <2>1, <3>1, LinkedFrame
    <3>5. Linked(n, x, <<x>>)
      BY <3>2 DEF Linked
    <3>6. Elements(m[2]) \cap Elements(<<x>>) = {}
      BY <1>4, <2>2
    <3>7. Linked(u.next, h, m[2] \o <<x>>)
      BY <2>1, <2>2, <2>5, <3>3, <3>4, <3>5, <3>6, LinkedConcat
    <3> QED
      BY <1>5, <1>11, <1>18, <2>5, <3>7
  <2> QED
    BY <2>4, <2>5
<1>20. \A p \in 0 .. 2 : Linked(u.next, u.head[p], v[p])
  <2>1. \A p \in 0 .. 2 : p = q \/ p = 1 - q \/ p = 2
    BY <1>10
  <2> QED
    BY <1>16, <1>17, <1>19, <2>1
<1>21. \A z \in Records \ All(l) : u.next[z] = s.next[z] /\ u.prev[z] = s.prev[z]
  <2> TAKE z \in Records \ All(l)
  <2>1. z \notin Elements(m[2]) /\ z # x
    <3>1. z \notin All(m) /\ z \notin All(v)
      BY <1>1, <1>4
    <3> QED
      BY <1>4, <3>1 DEF All
  <2>2. m[2] # <<>> => z # y
    BY <1>12, <2>1
  <2>3. h # Nil => z # h
    <3>1. h # Nil => h \in Elements(m[2])
      BY <1>1, LinkedHead DEF h
    <3> QED
      BY <2>1, <3>1
  <2>4. u.next[z] = t.next[z]
    BY <1>14, <2>1, <2>2
  <2>5. u.prev[z] = t.prev[z]
    BY <1>7, <1>8, <2>1, <2>3
  <2> QED
    BY <1>1, <2>4, <2>5
<1>22. u.tail[2] = End(v[2]) /\ u.prev[u.head[2]] = End(v[2])
  <2>1. u.tail[2] = x
    BY <1>7, <1>8
  <2>2. CASE h = Nil
    BY <1>4, <1>7, <1>8, <1>11, <1>18, <2>1, <2>2
  <2>3. CASE h # Nil
    <3>1. h \in Elements(m[2]) /\ h \in Records
      BY <1>1, <2>3, LinkedHead DEF h
    <3> QED
      BY <1>4, <1>7, <1>8, <1>11, <1>18, <2>1, <2>3, <3>1
  <2> QED
    BY <2>2, <2>3
<1>23. \A p \in 0 .. 1 : u.tail[p] = s.tail[p] /\ Elements(v[p]) \subseteq Elements(l[p])
  <2> TAKE p \in 0 .. 1
  <2>1. u.tail[p] = t.tail[p]
    BY <1>7, <1>8
  <2> QED
    BY <1>1, <1>4, <2>1
<1>24. \A p \in 0 .. 1 : v[p] # <<>> => End(v[p]) = End(l[p])
  <2>1. v[q] # <<>> => End(v[q]) = End(m[q])
    BY <1>1, <1>2, <1>4, <1>10, EndIs
  <2>2. End(m[q]) = End(l[q]) /\ End(m[1 - q]) = End(l[1 - q])
    BY <1>1, <1>2, <1>4, <1>10
  <2>3. v[1 - q] = m[1 - q]
    BY <1>4
  <2> QED
    BY <1>10, <2>1, <2>2, <2>3
<1>25. \A p \in 0 .. 1 : keep[p] = 1 => v[p] # <<>>
  BY <1>2, <1>4, <1>10
<1>26. v[0] # <<>> \/ v[1] # <<>>
  BY <1>2, <1>4, <1>10
<1>30. \A p \in 0 .. 1 : l[p] # <<>>
  <2> TAKE p \in 0 .. 1
  <2>1. m[p] \in RecordLists /\ m[p] # <<>> /\ Elements(m[p]) \subseteq Elements(l[p])
    BY <1>1, <1>2
  <2>2. Elements(m[p]) # {}
    BY <2>1, ListTypes
  <2> QED
    BY <2>1, <2>2, EmptyList
<1>27. Merged(s, l, u, v, keep)
  BY <1>1, <1>4, <1>9, <1>18, <1>20, <1>21, <1>22, <1>23, <1>24, <1>25, <1>26, <1>30 DEF Merged
<1>28. Len(v[2]) = Len(m[2]) + 1
  BY <1>1, <1>4, ListAppend
<1> QED
  BY <1>27, <1>28 DEF u, v

\* No list is longer than there are records.
LEMMA ListBound ==
    ASSUME NEW l \in RecordLists
    PROVE  Len(l) <= NumRecords
<1>1. PICK n \in 0 .. NumRecords : l \in [1 .. n -> Records]
  BY DEF RecordLists
<1>2. NumRecords \in Nat
  BY SizesAssumption
<1>3. Len(l) = n
  BY <1>1, <1>2
<1> QED
  BY <1>1, <1>2, <1>3

\* The merge loops end: what they leave has been merged, and one of the queues holds no
\* more than it shall keep.
LEMMA MergeLoops ==
    ASSUME NEW s \in MergeState, NEW l, NEW keep \in [0 .. 1 -> 0 .. 1], Merging(l), l[2] = <<>>,
           \A q \in 0 .. 2 : Linked(s.next, s.head[q], l[q])
    PROVE  \E m : /\ Merged(s, l, MergeDownTo(s, keep), m, keep)
                  /\ \E q \in 0 .. 1 : ~HasMoreThan(MergeDownTo(s, keep), q, keep[q])
<1> DEFINE Stuck(t) == \E q \in 0 .. 1 : ~HasMoreThan(t, q, keep[q])
           Ok(t, m, k) == Merged(s, l, t, m, keep) /\ (Stuck(t) \/ Len(m[2]) = k)
           K == [k \in 0 .. NumRecords |-> {t \in MergeState : \E m : Ok(t, m, k)}]
<1>1. NumRecords \in Nat
  BY SizesAssumption
<1>2. Merged(s, l, s, l, keep)
  BY DEF Merged
<1>3. s \in K[0]
  <2>1. Ok(s, l, 0)
    BY <1>2
  <2> HIDE DEF Ok
  <2> QED
    BY <1>1, <2>1
<1>4. ASSUME NEW k \in 0 .. NumRecords - 1, NEW t \in K[k] PROVE MergeBody(keep)[t] \in K[k + 1]
  <2>1. t \in MergeState /\ k \in 0 .. NumRecords /\ k + 1 \in 0 .. NumRecords
    BY <1>1, <1>4
  <2>2. PICK m : Ok(t, m, k)
    BY <1>4, <2>1
  <2>3. MergeBody(keep)[t] = IF Stuck(t) THEN t ELSE MergeOne(t)
    BY <2>1 DEF MergeBody
  <2>4. CASE Stuck(t)
    <3>1. Ok(t, m, k + 1)
      BY <2>2, <2>4
    <3> HIDE DEF Ok, Stuck
    <3> QED
      BY <2>1, <2>3, <2>4, <3>1
  <2>5. CASE ~Stuck(t)
    <3>1. Merged(s, l, MergeOne(t), Moved(m), keep) /\ Len(Moved(m)[2]) = Len(m[2]) + 1
      BY <2>2, <2>5, MergeOneMerges
    <3>2. Len(m[2]) = k
      BY <2>2, <2>5
    <3>3. Ok(MergeOne(t), Moved(m), k + 1)
      BY <3>1, <3>2
    <3>4. MergeOne(t) \in MergeState
      BY <3>1 DEF Merged
    <3> HIDE DEF Ok, Stuck
    <3> QED
      BY <2>1, <2>3, <2>5, <3>3, <3>4
  <2> QED
    BY <2>4, <2>5
<1>5. Repeat(MergeBody(keep), s, NumRecords) \in K[NumRecords]
  <2> HIDE DEF K
  <2> QED
    BY <1>1, <1>3, <1>4, RepeatReaches
<1> DEFINE u == MergeDownTo(s, keep)
<1>6. u \in K[NumRecords]
  BY <1>5 DEF MergeDownTo
<1>7. PICK m : Ok(u, m, NumRecords)
  BY <1>1, <1>6
<1> HIDE DEF u, K
<1>8. CASE Len(m[2]) = NumRecords
  <2>1. /\ m[0] \in RecordLists /\ m[2] \in RecordLists
        /\ Linked(u.next, u.head[0], m[0]) /\ u \in MergeState
    BY <1>7 DEF Merged, Merging
  <2>2. Elements(m[2]) \cap Elements(m[0]) = {}
    BY <1>7 DEF Merged, Merging
  <2>3. m[2] \o m[0] \in RecordLists /\ Len(m[2] \o m[0]) = Len(m[2]) + Len(m[0]) /\ Len(m[0]) \in Nat
    BY <2>1, <2>2, ListConcat, ListTypes
  <2>4. Len(m[0]) = 0
    <3> DEFINE a == Len(m[2])
               b == Len(m[0])
               c == Len(m[2] \o m[0])
    <3>1. a = NumRecords /\ b \in Nat /\ c = a + b /\ c <= NumRecords
      BY <1>8, <2>3, ListBound
    <3> HIDE DEF a, b, c
    <3>2. b = 0
      BY <1>1, <3>1
    <3> QED
      BY <3>2 DEF b
  <2>5. m[0] = <<>>
    BY <2>1, <2>4, ListTypes
  <2>6. ~HasMoreThan(u, 0, keep[0])
    <3>1. keep[0] = 0 \/ keep[0] = 1
      OBVIOUS
    <3> QED
      BY <2>1, <2>5, <3>1, HasMore
  <2> QED
    BY <1>7, <2>6 DEF u
<1>9. CASE Stuck(u)
  BY <1>7, <1>9 DEF u
<1> QED
  BY <1>7, <1>8, <1>9

\* A list m that begins at elem is linked behind the list l of a queue.
Appended(s, t, q, elem, l, m) ==
    /\ t \in MergeState /\ l \o m \in RecordLists /\ Linked(t.next, t.head[q], l \o m)
    /\ Elements(l \o m) = Elements(l) \cup Elements(m) /\ End(l \o m) = End(m) /\ t.head[q] # Nil
    /\ t.prev = s.prev /\ t.tail = [s.tail EXCEPT ![q] = s.prev[elem]]
    /\ \A p \in 0 .. 2 : p # q => t.head[p] = s.head[p]
    /\ \A x \in Records \ Elements(l) : t.next[x] = s.next[x]

\* Appending links the records of a list to the end of the queue.
LEMMA AppendLinks ==
    ASSUME NEW s \in MergeState, NEW q \in 0 .. 2, NEW elem, NEW l \in RecordLists, NEW m \in RecordLists,
           Linked(s.next, s.head[q], l), s.tail[q] = IF l = <<>> THEN Nil ELSE End(l),
           Linked(s.next, elem, m), m # <<>>, Elements(l) \cap Elements(m) = {}
    PROVE  Appended(s, AppendTo(s, q, elem), q, elem, l, m)
<1> DEFINE t == AppendTo(s, q, elem)
           y == s.tail[q]
<1>1. /\ s.head \in [0 .. 2 -> Pointer] /\ s.tail \in [0 .. 2 -> Pointer]
      /\ s.next \in [Records -> Pointer] /\ s.prev \in [Records -> Pointer]
      /\ s = [head |-> s.head, tail |-> s.tail, next |-> s.next, prev |-> s.prev]
  BY DEF MergeState
<1>2. elem \in Records /\ elem # Nil /\ elem \in Pointer
  BY LinkedHead DEF Pointer
<1>3. /\ t.head = [s.head EXCEPT ![q] = IF y = Nil THEN elem ELSE @]
      /\ t.tail = [s.tail EXCEPT ![q] = s.prev[elem]]
      /\ t.next = IF y = Nil THEN s.next ELSE [s.next EXCEPT ![y] = elem]
      /\ t.prev = s.prev
      /\ t = [head |-> t.head, tail |-> t.tail, next |-> t.next, prev |-> t.prev]
  BY <1>1 DEF AppendTo
<1>4. /\ l = <<>> => y = Nil
      /\ l # <<>> => y = End(l) /\ y \in Elements(l) /\ y \in Records /\ y # Nil
  <2>1. l # <<>> => End(l) \in Elements(l) /\ End(l) \in Records
    BY EndIs
  <2>2. \A x \in Records : x # Nil
    BY SizesAssumption DEF Records, Nil
  <2> QED
    BY <2>1, <2>2
<1> HIDE DEF t, y
<1>5. t \in MergeState
  <2>1. t.head \in [0 .. 2 -> Pointer] /\ t.tail \in [0 .. 2 -> Pointer]
    BY <1>1, <1>2, <1>3
  <2>2. t.next \in [Records -> Pointer]
    <3>1. [s.next EXCEPT ![y] = elem] \in [Records -> Pointer]
      BY <1>1, <1>2
    <3> QED
      BY <1>1, <1>3, <3>1
  <2> QED
    BY <1>1, <1>3, <2>1, <2>2 DEF MergeState
<1>6. \A p \in 0 .. 2 : p # q => t.head[p] = s.head[p]
  BY <1>1, <1>3
<1>7. \A x \in Records \ Elements(l) : t.next[x] = s.next[x]
  BY <1>1, <1>3, <1>4
<1>8. /\ l \o m \in RecordLists /\ Elements(l \o m) = Elements(l) \cup Elements(m)
      /\ Len(l \o m) = Len(l) + Len(m)
      /\ \A i \in 1 .. Len(m) : (l \o m)[Len(l) + i] = m[i]
      /\ Len(m) \in Nat /\ Len(m) # 0
  BY ListConcat, ListTypes
<1>9. End(l \o m) = End(m)
  <2> DEFINE k == Len(m)
  <2>1. k \in Nat /\ k # 0 /\ \A i \in 1 .. k : (l \o m)[Len(l) + i] = m[i]
    BY <1>8
  <2> HIDE DEF k
  <2>2. (l \o m)[Len(l) + k] = m[k]
    <3>1. k \in 1 .. k
      BY <2>1
    <3> QED
      BY <2>1, <3>1
  <2> QED
    BY <1>8, <2>2 DEF End, k
<1>10. Linked(t.next, t.head[q], l \o m) /\ t.head[q] # Nil
  <2>1. CASE l = <<>>
    <3>1. l \o m = m
      <4>1. m \in Seq(Records)
        BY ListTypes
      <4> QED
        BY <2>1, <4>1
    <3>2. t.head[q] = elem /\ t.next = s.next
      BY <1>1, <1>3, <1>4, <2>1
    <3> QED
      BY <1>2, <3>1, <3>2
  <2>2. CASE l # <<>>
    <3>1. t.head[q] = s.head[q] /\ s.head[q] # Nil
      BY <1>1, <1>3, <1>4, <2>2, LinkedHead
    <3>2. Elements(m) \subseteq Records /\ Elements(l) \subseteq Records
      BY ListTypes
    <3>3. \A x \in Elements(l) \cup Elements(m) : t.next[x] = IF x = End(l) THEN elem ELSE s.next[x]
      BY <1>1, <1>3, <1>4, <2>2, <3>2
    <3>4. Linked(t.next, s.head[q], l \o m)
      BY <2>2, <3>3, LinkedConcat
    <3> QED
      BY <3>1, <3>4
  <2> QED
    BY <2>1, <2>2
<1>11. Appended(s, t, q, elem, l, m)
  BY <1>3, <1>5, <1>6, <1>7, <1>8, <1>9, <1>10 DEF Appended
<1> QED
  BY <1>11 DEF t

--------------------------------------------------------------------------------
(* 10. The inductive invariant                                               *)

Stages == {"initial", "poll", "fetch", "partial", "more", "last", "flush", "forward", "close"}
MergerTypes == [pc : Stages, head : [0 .. 2 -> Pointer], tail : [0 .. 2 -> Pointer],
                stopped : 0 .. 1, ok : BOOLEAN]
PipeTypes ==
    /\ order \in Orders
    /\ heap \in [next : [Records -> Pointer], prev : [Records -> Pointer]]
    /\ produced \in [Tables -> SUBSET Records]
    /\ chan \in [Channels -> Seq(Records)]
    /\ closed \subseteq Channels
    /\ hand \in [Workers -> Pointer]
    /\ merger \in [Mergers -> MergerTypes]
    /\ splice \in [list : Pointer, to : 1 .. NumExporters]
    /\ exported \in [Exporters -> Seq(Records)]

\* Where the lists are that are on their way to exporter e.
Hand(g) == <<"hand", g, 0>>
QueueOf(w, k) == <<"queue", w, k>>
SpliceOf(e) == <<"splice", 0, e>>
Always == Inner \cup {Hand(g) : g \in Workers} \cup {QueueOf(w, k) : w \in Mergers, k \in 0 .. 1}
Places(e) == Always \cup {Out(e), SpliceOf(e)}
HeadsAt(p) ==
    CASE p[1] = "hand"   -> {hand[p[2]]} \ {Nil}
      [] p[1] = "queue"  -> {merger[p[2]].head[p[3]]} \ {Nil}
      [] p[1] = "splice" -> IF splice.to <= p[3] THEN {splice.list} \ {Nil} ELSE {}
      [] OTHER           -> Elements(chan[p])
HeadsOf(e) == [p \in Places(e) |-> HeadsAt(p)]
HeadsOn(e) == Heads(Places(e), HeadsOf(e))

\* What is on the way to exporter e and what it got are the records of the tables, each
\* once.
View(e) ==
    /\ Apart(Places(e), HeadsOf(e)) /\ Separate(heap.next, HeadsOn(e))
    /\ RecordsOf(heap.next, HeadsOn(e)) \cap Elements(exported[e]) = {}
    /\ RecordsOf(heap.next, HeadsOn(e)) \cup Elements(exported[e]) = Produced
    /\ Different(exported[e])

\* A record that no table has exported is linked to none.
Fresh == \A x \in Records \ Produced : heap.next[x] = Nil

Whole ==
    /\ PipeTypes /\ Fresh
    /\ \A e \in Exporters : View(e)
    /\ \A c \in Channels : Different(chan[c])
    /\ splice.list = Nil => splice.to = 1

\* Order.  b gives every channel a bound: what is written to it from now on is above, and
\* a channel with the bound Final gets nothing any more.  Without an order in which the
\* tables send their batches the bounds stay 0 until then.
Final == NumRecords + 1
List(h) == Chain(heap.next, h)
Of(h) == Elements(List(h))
Content(c) == UNION {Of(chan[c][i]) : i \in 1 .. Len(chan[c])}
Upto(A, n) == \A x \in A : Ordered => x <= n
PrevOk(h) == heap.prev[h] = End(List(h))
InOrder(c) == \A i, j \in 1 .. Len(chan[c]) : i < j => Ahead(Of(chan[c][i]), Of(chan[c][j]))
\* A table with expiry sorting hands over unsorted lists, too, but not of two records.
Fits(c, l) == IF c[1] = "in" THEN Rising(l) \/ Len(l) # 2 ELSE Sorted(l)
AllFit(c) == \A i \in 1 .. Len(chan[c]) : Fits(c, List(chan[c][i]))
Over(c, b) == chan[c] = <<>> /\ b[c] = Final

\* The lists of a channel; only the very last one may have a head that does not know its
\* tail.
ChanInv(c, b) ==
    /\ InOrder(c) /\ AllFit(c)
    /\ Upto(Content(c), b[c])
    /\ \A i \in 1 .. Len(chan[c]) : PrevOk(chan[c][i]) \/ (i = Len(chan[c]) /\ b[c] = Final)
    /\ c \in closed => b[c] = Final

Above(t) == IF Ordered THEN MaxOf(produced[t]) ELSE 0
TableInv(t, b) == (b[In(t)] = Final /\ In(t) \in closed) \/ b[In(t)] <= Above(t)

\* Records that pass a worker: H is in its hand, Q in its queue, C in the channel with the
\* bound bc it reads; o is the bound of the channel it writes.
Passing(o, H, Q, C, bc) ==
    /\ o <= bc /\ Before({o}, H \cup Q \cup C) /\ Ahead(H, Q \cup C) /\ Ahead(Q, C)
    /\ Upto(H \cup Q, bc)

Pending(g, k) == IF g \in Mergers THEN merger[g].head[k] ELSE Nil
Quiet(g, b) == \A k \in 0 .. 1 : Over(Source(g, k), b) /\ Pending(g, k) = Nil
Through(g, k, b) ==
    Passing(b[Output(g)], Of(hand[g]), Of(Pending(g, k)), Content(Source(g, k)), b[Source(g, k)])
HandInv(g, b) ==
    /\ Sorted(List(hand[g])) /\ (hand[g] # Nil => PrevOk(hand[g]) \/ Quiet(g, b))
    /\ \A k \in 0 .. 1 : Through(g, k, b)

\* A queue of a merge worker: while something may come, its tail is known.
Open(w, k) ==
    \/ merger[w].pc \in {"initial", "poll", "fetch"}
    \/ merger[w].pc \in {"partial", "more"} /\ k = Remaining(w)
QueueInv(w, k, b) ==
    LET h == merger[w].head[k]
        t == merger[w].tail[k]
    IN  /\ Sorted(List(h))
        /\ Open(w, k) /\ h = Nil => t = Nil
        /\ merger[w].pc \notin {"forward", "close"} /\ h # Nil
           => t = End(List(h)) \/ Over(MergeInput(w, k), b)

\* Where a merge worker is.
PcInv(w, b) ==
    LET pc == merger[w].pc
        head == merger[w].head
    IN  /\ head[2] = Nil /\ merger[w].tail[2] = Nil
        /\ pc \in {"initial", "poll", "fetch"} => merger[w].ok
        /\ pc \in {"partial", "more", "last", "flush", "forward", "close"}
           => Over(MergeInput(w, Stopped(w)), b)
        /\ pc \in {"last", "close"} => ~merger[w].ok
        /\ ~merger[w].ok => Over(MergeInput(w, Remaining(w)), b)
        /\ pc \in {"poll", "fetch"} => \A k \in 0 .. 1 : head[k] # Nil
        /\ pc \in {"more", "last"} => head[Stopped(w)] # Nil
        /\ pc = "flush" => head[Stopped(w)] = Nil
        /\ pc \in {"forward", "close"} => \A k \in 0 .. 1 : head[k] = Nil
MergerInv(w, b) == PcInv(w, b) /\ \A k \in 0 .. 1 : QueueInv(w, k, b)

\* The way from the tree to exporter e.
SplicedFor(e) == IF splice.to <= e THEN Of(splice.list) ELSE {}
EndInv(e, b) ==
    /\ Sorted(exported[e]) /\ InOrder(Out(e)) /\ AllFit(Out(e))
    /\ Ahead(Elements(exported[e]), Content(Out(e)))
    /\ Passing(0, Elements(exported[e]) \cup Content(Out(e)), SplicedFor(e), Content(SortedQueue), b[SortedQueue])

OrderInv(b) ==
    /\ b \in [Inner -> 0 .. Final]
    /\ \A c \in Inner : ChanInv(c, b)
    /\ \A t \in Tables : TableInv(t, b)
    /\ \A g \in Workers : HandInv(g, b)
    /\ \A w \in Mergers : MergerInv(w, b)
    /\ \A e \in Exporters : EndInv(e, b)
    /\ Sorted(List(splice.list))
    /\ order # "expiry" => \A s \in Sorters : hand[s] = Nil /\ Over(SortInput(s), b)

\* Without sorting the workers do nothing.
IdleInv == (\A w \in Mergers : merger[w] = Idle) /\ (\A g \in Workers : hand[g] = Nil)

PipeInv == Whole /\ IF order = "none" THEN IdleInv ELSE \E b : OrderInv(b)
--------------------------------------------------------------------------------
(* 11. A step and the lists at the places it leaves alone                    *)

\* Nil is the head of the empty list.
LEMMA NilList == List(Nil) = <<>> /\ Of(Nil) = {} /\ List(Nil)' = <<>> /\ Of(Nil)' = {}
BY NilIsEmpty, EmptyList DEF List, Of

\* The heads at the places, before and after a step.
LEMMA HeadsAre ==
    ASSUME NEW e \in Exporters
    PROVE  /\ \A c \in Channels : HeadsAt(c) = Elements(chan[c]) /\ HeadsAt(c)' = Elements(chan'[c])
           /\ \A g, p : p = Hand(g) => /\ HeadsAt(p) = {hand[g]} \ {Nil}
                                      /\ HeadsAt(p)' = {hand'[g]} \ {Nil}
           /\ \A w, k, p : p = QueueOf(w, k) => /\ HeadsAt(p) = {merger[w].head[k]} \ {Nil}
                                               /\ HeadsAt(p)' = {merger'[w].head[k]} \ {Nil}
           /\ \A p : p = SpliceOf(e) =>
                  /\ HeadsAt(p) = IF splice.to <= e THEN {splice.list} \ {Nil} ELSE {}
                  /\ HeadsAt(p)' = IF splice'.to <= e THEN {splice'.list} \ {Nil} ELSE {}
<1>1. \A c \in Channels : c[1] \in {"in", "tree", "out"}
  BY ChannelKinds
<1> QED
  BY <1>1 DEF HeadsAt, Hand, QueueOf, SpliceOf

\* Every place is one of these, and they are all different.
LEMMA PlacesAre ==
    ASSUME NEW e \in Exporters
    PROVE  /\ \A p \in Places(e) : \/ p \in Inner \/ p = Out(e) \/ p = SpliceOf(e)
                                   \/ \E g \in Workers : p = Hand(g)
                                   \/ \E w \in Mergers, k \in 0 .. 1 : p = QueueOf(w, k)
           /\ \A g \in Workers : Hand(g) \in Always
           /\ \A w \in Mergers, k \in 0 .. 1 : QueueOf(w, k) \in Always
           /\ Inner \subseteq Always /\ Always \subseteq Places(e)
           /\ Out(e) \in Places(e) \ Always /\ SpliceOf(e) \in Places(e) \ Always
           /\ SpliceOf(e) \notin Channels /\ SpliceOf(e) # Out(e)
           /\ \A g : Hand(g) \notin Channels /\ \A f : Hand(g) = Hand(f) => g = f
           /\ \A w, k : QueueOf(w, k) \notin Channels /\ \A v, j : QueueOf(w, k) = QueueOf(v, j) => w = v /\ k = j
           /\ \A g, w, k : Hand(g) # QueueOf(w, k)
<1>1. \A c \in Channels : c[1] \in {"in", "tree", "out"}
  BY ChannelKinds
<1>2. \A g : Hand(g)[1] = "hand" /\ Hand(g)[2] = g
  BY DEF Hand
<1>3. \A w, k : QueueOf(w, k)[1] = "queue" /\ QueueOf(w, k)[2] = w /\ QueueOf(w, k)[3] = k
  BY DEF QueueOf
<1>4. SpliceOf(e)[1] = "splice"
  BY DEF SpliceOf
<1>5. Out(e)[1] = "out" /\ Out(e) \in Channels /\ \A c \in Inner : c[1] \in {"in", "tree"}
  BY ChannelKinds
<1>6. \A p \in Always : p[1] \in {"in", "tree", "hand", "queue"}
  BY <1>2, <1>3, <1>5 DEF Always
<1>7. Out(e) \notin Always /\ SpliceOf(e) \notin Always
  BY <1>4, <1>5, <1>6
<1> QED
  BY <1>1, <1>2, <1>3, <1>4, <1>5, <1>7 DEF Places, Always

\* A place none of whose state changes keeps its heads.
LEMMA HeadsStay ==
    ASSUME NEW e \in Exporters, NEW C, \A c \in Channels \ C : chan'[c] = chan[c],
           \A g \in Workers : Hand(g) \in C \/ hand'[g] = hand[g],
           \A w \in Mergers, k \in 0 .. 1 : QueueOf(w, k) \in C \/ merger'[w].head[k] = merger[w].head[k],
           SpliceOf(e) \in C \/ splice' = splice
    PROVE  \A p \in Places(e) \ C : HeadsAt(p)' = HeadsAt(p)
<1> TAKE p \in Places(e) \ C
<1>1. CASE p \in Inner \/ p = Out(e)
  <2>1. p \in Channels
    BY <1>1, ChannelKinds
  <2> QED
    BY <2>1, HeadsAre
<1>2. CASE p = SpliceOf(e)
  BY <1>2, HeadsAre
<1>3. CASE \E g \in Workers : p = Hand(g)
  <2>1. PICK g \in Workers : p = Hand(g)
    BY <1>3
  <2>2. hand'[g] = hand[g]
    BY <2>1
  <2>3. HeadsAt(p) = {hand[g]} \ {Nil} /\ HeadsAt(p)' = {hand'[g]} \ {Nil}
    BY <2>1, HeadsAre
  <2> QED
    BY <2>2, <2>3
<1>4. CASE \E w \in Mergers, k \in 0 .. 1 : p = QueueOf(w, k)
  <2>1. PICK w \in Mergers, k \in 0 .. 1 : p = QueueOf(w, k)
    BY <1>4
  <2>2. merger'[w].head[k] = merger[w].head[k]
    BY <2>1
  <2>3. HeadsAt(p) = {merger[w].head[k]} \ {Nil} /\ HeadsAt(p)' = {merger'[w].head[k]} \ {Nil}
    BY <2>1, HeadsAre
  <2> QED
    BY <2>2, <2>3
<1> QED
  BY <1>1, <1>2, <1>3, <1>4, PlacesAre

\* A list that a step leaves alone.
Stays(h) == Chain(heap'.next, h) = Chain(heap.next, h) /\ (h # Nil => heap'.prev[h] = heap.prev[h])
Elsewhere(C, D) ==
    \A e \in Exporters : \A p \in Places(e) : \A h \in HeadsAt(p) : p \notin C \/ h \notin D => Stays(h)

\* What is known of the list of a head at a place.
LEMMA HeadIs ==
    ASSUME NEW e \in Exporters, View(e), NEW p \in Places(e), NEW h \in HeadsAt(p)
    PROVE  /\ h \in HeadsOn(e) /\ h \in Records /\ h # Nil
           /\ List(h) \in RecordLists /\ Linked(heap.next, h, List(h)) /\ List(h) # <<>>
           /\ h \in Of(h) /\ Of(h) \subseteq Records /\ Of(h) \subseteq Produced
           /\ Of(h) \subseteq RecordsOf(heap.next, HeadsOn(e))
           /\ \A q \in Places(e) : \A g \in HeadsAt(q) : p # q \/ g # h => g # h /\ Of(h) \cap Of(g) = {}
<1>1. h \in HeadsOn(e)
  BY DEF HeadsOn, Heads, HeadsOf
<1>2. Separate(heap.next, HeadsOn(e)) /\ RecordsOf(heap.next, HeadsOn(e)) \subseteq Produced
  BY DEF View
<1>3. /\ List(h) \in RecordLists /\ Linked(heap.next, h, List(h)) /\ List(h) # <<>>
      /\ h \in Of(h) /\ Of(h) \subseteq Records /\ h \in Records
      /\ Of(h) \subseteq RecordsOf(heap.next, HeadsOn(e))
  BY <1>1, <1>2, ChainOf DEF List, Of
<1>4. h # Nil
  BY <1>3, SizesAssumption DEF Records, Nil
<1>5. ASSUME NEW q \in Places(e), NEW g \in HeadsAt(q), p # q \/ g # h
      PROVE  g # h /\ Of(h) \cap Of(g) = {}
  <2>1. g \in HeadsOn(e)
    BY DEF HeadsOn, Heads, HeadsOf
  <2>2. p # q => HeadsAt(p) \cap HeadsAt(q) = {}
    BY DEF View, Apart, HeadsOf
  <2>3. g # h
    BY <1>5, <2>2
  <2> QED
    BY <1>1, <1>2, <2>1, <2>3 DEF Separate, Of, List
<1> QED
  BY <1>1, <1>2, <1>3, <1>4, <1>5

\* The places C lose the heads D and get the heads N; the lists are relinked.
LEMMA StepView ==
    ASSUME NEW e \in Exporters, View(e), NEW C \in SUBSET Places(e), NEW N, NEW D, NEW F,
           D \subseteq Heads(C, HeadsOf(e)), Apart(C, N),
           \A p \in Places(e) \ C : HeadsAt(p)' = HeadsAt(p),
           \A p \in C : HeadsAt(p)' = (HeadsAt(p) \ D) \cup N[p],
           Relinks(heap.next, heap'.next, D, Heads(C, N), F),
           RecordsOf(heap'.next, Heads(C, N)) = RecordsOf(heap.next, D) \cup F,
           \A x \in Records \ (RecordsOf(heap.next, D) \cup F) : heap'.prev[x] = heap.prev[x],
           F \cap Produced = {}, Produced' = Produced \cup F, exported'[e] = exported[e]
    PROVE  /\ View(e)' /\ RecordsOf(heap.next, D) \subseteq Produced
           /\ \A p \in Places(e) : \A h \in HeadsAt(p) : p \notin C \/ h \notin D => Stays(h)
<1> DEFINE P == Places(e)
           H == HeadsOf(e)
           G == [p \in P |-> HeadsAt(p)']
           next == heap.next
           nxt == heap'.next
           E == Heads(C, N)
           R == RecordsOf(next, Heads(P, H))
           RD == RecordsOf(next, D)
<1>1. /\ Apart(P, H) /\ Separate(next, Heads(P, H)) /\ R \cap Elements(exported[e]) = {}
      /\ R \cup Elements(exported[e]) = Produced /\ Different(exported[e])
  BY DEF View, HeadsOn
<1>2. \A p \in P : H[p] = HeadsAt(p) /\ G[p] = HeadsAt(p)'
  BY DEF HeadsOf
<1>3. (\A p \in P \ C : G[p] = H[p]) /\ (\A p \in C : G[p] = (H[p] \ D) \cup N[p])
  BY <1>2
<1>4. F \cap R = {}
  BY <1>1
<1>5. D \subseteq Heads(C, H)
  OBVIOUS
<1>6. RD \subseteq R
  BY <1>5 DEF Heads, RecordsOf
<1>7. HeadsOn(e)' = Heads(P, G) /\ HeadsOf(e)' = G /\ Places(e)' = P
  BY DEF HeadsOn, HeadsOf
<1> HIDE DEF P, H, G, next, nxt, E, R, RD
<1>8. Relinked(P, C, H, G, next, nxt, D, E, F)
  <2>1. Relinks(next, nxt, D, E, F)
    BY DEF next, nxt, E
  <2>2. C \in SUBSET P
    BY DEF P
  <2> QED
    BY <1>1, <1>3, <1>4, <1>5, <2>1, <2>2, Relink DEF E, R
<1>9. /\ Apart(P, G) /\ Separate(nxt, Heads(P, G))
      /\ RecordsOf(nxt, Heads(P, G)) = (R \ RD) \cup RecordsOf(nxt, E)
      /\ \A p \in P : \A h \in H[p] : p \notin C \/ h \notin D
           => Chain(nxt, h) = Chain(next, h) /\ Elements(Chain(next, h)) \cap (RD \cup F) = {}
  BY <1>8 DEF Relinked, R, RD
<1>10. RecordsOf(nxt, E) = RD \cup F
  BY DEF nxt, E, RD, next
<1>11. RecordsOf(nxt, Heads(P, G)) = R \cup F
  BY <1>6, <1>9, <1>10
<1>12. View(e)'
  <2>1. (R \cup F) \cap Elements(exported[e]) = {}
    BY <1>1
  <2>2. (R \cup F) \cup Elements(exported[e]) = Produced \cup F
    BY <1>1
  <2> QED
    BY <1>1, <1>7, <1>9, <1>11, <2>1, <2>2 DEF View, nxt
<1>13. ASSUME NEW p \in Places(e), NEW h \in HeadsAt(p), p \notin C \/ h \notin D PROVE Stays(h)
  <2>1. p \in P /\ h \in H[p]
    BY <1>2 DEF P
  <2>2. Chain(nxt, h) = Chain(next, h) /\ Elements(Chain(next, h)) \cap (RD \cup F) = {}
    BY <1>9, <1>13, <2>1
  <2>3. h \in Elements(Chain(next, h)) /\ h \in Records
    BY HeadIs DEF Of, List, next
  <2>4. heap'.prev[h] = heap.prev[h]
    BY <2>2, <2>3 DEF RD, next
  <2> QED
    BY <2>2, <2>4 DEF Stays, List, nxt, next
<1> QED
  BY <1>1, <1>6, <1>12, <1>13 DEF RD, next

\* A step of the tables and the workers.
LEMMA InnerStep ==
    ASSUME Whole, PipeTypes', NEW C \in SUBSET Always, NEW N, NEW D, NEW F \in SUBSET Records,
           \A h \in D : \E p \in C : h \in HeadsAt(p), Apart(C, N),
           \A p \in C : HeadsAt(p)' = (HeadsAt(p) \ D) \cup N[p],
           \A c \in Channels \ C : chan'[c] = chan[c],
           \A g \in Workers : Hand(g) \in C \/ hand'[g] = hand[g],
           \A w \in Mergers, k \in 0 .. 1 : QueueOf(w, k) \in C \/ merger'[w].head[k] = merger[w].head[k],
           splice' = splice, exported' = exported, Produced' = Produced \cup F, F \cap Produced = {},
           \A c \in C : c \in Channels => Different(chan'[c]),
           Relinks(heap.next, heap'.next, D, Heads(C, N), F),
           RecordsOf(heap'.next, Heads(C, N)) = RecordsOf(heap.next, D) \cup F,
           \A x \in Records \ (RecordsOf(heap.next, D) \cup F) : heap'.prev[x] = heap.prev[x]
    PROVE  Whole' /\ Elsewhere(C, D)
<1>1. ASSUME NEW e \in Exporters
      PROVE  /\ View(e)' /\ RecordsOf(heap.next, D) \subseteq Produced
             /\ \A p \in Places(e) : \A h \in HeadsAt(p) : p \notin C \/ h \notin D => Stays(h)
  <2>1. View(e) /\ C \in SUBSET Places(e) /\ SpliceOf(e) \notin C
    BY PlacesAre DEF Whole
  <2>2. \A p \in Places(e) \ C : HeadsAt(p)' = HeadsAt(p)
    BY HeadsStay
  <2>3. D \subseteq Heads(C, HeadsOf(e))
    <3>1. \A p \in C : HeadsOf(e)[p] = HeadsAt(p)
      BY <2>1 DEF HeadsOf
    <3> QED
      BY <3>1 DEF Heads
  <2>4. exported'[e] = exported[e]
    OBVIOUS
  <2> QED
    BY <2>1, <2>2, <2>3, <2>4, StepView
<1>2. 1 \in Exporters
  BY SizesAssumption DEF Exporters
<1>3. Fresh'
  <2> SUFFICES ASSUME NEW x \in Records \ Produced' PROVE heap'.next[x] = Nil
    BY DEF Fresh
  <2>1. x \notin Produced /\ x \notin F /\ x \notin RecordsOf(heap.next, D)
    BY <1>1, <1>2
  <2> QED
    BY <2>1 DEF Relinks, Whole, Fresh
<1>4. \A c \in Channels : Different(chan'[c])
  BY DEF Whole
<1>5. Elsewhere(C, D)
  BY <1>1 DEF Elsewhere
<1> QED
  BY <1>1, <1>3, <1>4, <1>5 DEF Whole

\* A channel after its first head was received and after a head was sent.
LEMMA TailOf ==
    ASSUME NEW s \in Seq(Records), s # <<>>, Different(s)
    PROVE  /\ Tail(s) \in Seq(Records) /\ Head(s) = s[1] /\ s[1] \in Elements(s) /\ s[1] \in Records
           /\ Elements(Tail(s)) = Elements(s) \ {s[1]} /\ Different(Tail(s))
           /\ Len(s) \in Nat /\ 1 \in 1 .. Len(s) /\ Len(Tail(s)) = Len(s) - 1
           /\ \A i \in 1 .. Len(Tail(s)) : i + 1 \in 1 .. Len(s) /\ Tail(s)[i] = s[i + 1]
           /\ Len(s) = 1 => Tail(s) = <<>>
<1> DEFINE t == Tail(s)
           n == Len(s)
<1>1. /\ t \in Seq(Records) /\ Head(s) = s[1] /\ n \in Nat /\ n # 0 /\ Len(t) = n - 1
      /\ \A i \in 1 .. n - 1 : t[i] = s[i + 1]
      /\ \A i \in 1 .. n : s[i] \in Records
      /\ Len(t) = 0 => t = <<>>
  <2>1. t \in Seq(Records) /\ n \in Nat /\ Head(s) = s[1]
    OBVIOUS
  <2>2. n # 0
    OBVIOUS
  <2>3. Len(t) = n - 1
    OBVIOUS
  <2>4. \A i \in 1 .. n - 1 : t[i] = s[i + 1]
    OBVIOUS
  <2>5. \A i \in 1 .. n : s[i] \in Records
    OBVIOUS
  <2>6. Len(t) = 0 => t = <<>>
    <3> HIDE DEF t
    <3> QED
      BY <2>1
  <2> QED
    BY <2>1, <2>2, <2>3, <2>4, <2>5, <2>6
<1>2. Elements(s) = {s[i] : i \in 1 .. n} /\ Elements(t) = {t[i] : i \in 1 .. n - 1}
      /\ \A i, j \in 1 .. n : i # j => s[i] # s[j]
  BY <1>1 DEF Elements, Different
<1> HIDE DEF t, n
<1>3. 1 \in 1 .. n /\ \A i \in 1 .. n - 1 : i + 1 \in 1 .. n /\ i + 1 # 1 /\ t[i] = s[i + 1]
  BY <1>1
<1>4. Elements(t) = Elements(s) \ {s[1]}
  <2>1. \A i \in 1 .. n - 1 : t[i] \in Elements(s) /\ t[i] # s[1]
    BY <1>2, <1>3
  <2>2. ASSUME NEW i \in 1 .. n, s[i] # s[1] PROVE s[i] \in Elements(t)
    <3>1. i - 1 \in 1 .. n - 1 /\ (i - 1) + 1 = i
      BY <1>1, <2>2
    <3>2. t[i - 1] = s[i]
      BY <1>1, <3>1
    <3> QED
      BY <1>2, <3>1, <3>2
  <2> QED
    BY <1>2, <2>1, <2>2
<1>5. Different(t)
  <2> SUFFICES ASSUME NEW i \in 1 .. n - 1, NEW j \in 1 .. n - 1, i # j PROVE t[i] # t[j]
    BY <1>1 DEF Different
  <2>1. i + 1 # j + 1
    BY <1>1
  <2> QED
    BY <1>2, <1>3, <2>1
<1>6. Len(t) = n - 1 /\ (n = 1 => t = <<>>)
  BY <1>1
<1> QED
  BY <1>1, <1>2, <1>3, <1>4, <1>5, <1>6 DEF t, n

\* What a channel holds after a send.
LEMMA AppendOf ==
    ASSUME NEW s \in Seq(Records), NEW x \in Records
    PROVE  /\ Append(s, x) \in Seq(Records) /\ Append(s, x) # <<>> /\ Len(s) \in Nat
           /\ Elements(Append(s, x)) = Elements(s) \cup {x} /\ Len(Append(s, x)) = Len(s) + 1
           /\ \A i \in 1 .. Len(s) : Append(s, x)[i] = s[i] /\ s[i] \in Records /\ s[i] \in Elements(s)
           /\ Append(s, x)[Len(s) + 1] = x
           /\ \A i \in 1 .. Len(s) + 1 : i \in 1 .. Len(s) \/ i = Len(s) + 1
           /\ Different(s) /\ x \notin Elements(s) => Different(Append(s, x))
<1> DEFINE t == Append(s, x)
           n == Len(s)
<1>1. /\ t \in Seq(Records) /\ n \in Nat /\ Len(t) = n + 1 /\ t[n + 1] = x
      /\ \A i \in 1 .. n : t[i] = s[i] /\ s[i] \in Records
      /\ t # <<>>
  OBVIOUS
<1>2. Elements(s) = {s[i] : i \in 1 .. n} /\ Elements(t) = {t[i] : i \in 1 .. n + 1}
  BY <1>1 DEF Elements
<1>3. Different(s) => \A i, j \in 1 .. n : i # j => s[i] # s[j]
  BY DEF Different
<1> HIDE DEF t, n
<1>4. \A i \in 1 .. n + 1 : i \in 1 .. n \/ i = n + 1
  BY <1>1
<1>5. \A i \in 1 .. n : i \in 1 .. n + 1 /\ i # n + 1
  BY <1>1
<1>6. Elements(t) = Elements(s) \cup {x}
  <2>1. n + 1 \in 1 .. n + 1
    BY <1>1
  <2> QED
    BY <1>1, <1>2, <1>4, <1>5, <2>1
<1>7. Different(s) /\ x \notin Elements(s) => Different(t)
  <2> SUFFICES ASSUME Different(s), x \notin Elements(s),
                      NEW i \in 1 .. n + 1, NEW j \in 1 .. n + 1, i # j PROVE t[i] # t[j]
    BY <1>1 DEF Different
  <2>1. \A k \in 1 .. n : s[k] # x
    BY <1>2
  <2> QED
    BY <1>1, <1>3, <1>4, <2>1
<1>8. \A i \in 1 .. n : s[i] \in Elements(s)
  BY <1>2
<1> QED
  BY <1>1, <1>4, <1>6, <1>7, <1>8 DEF t, n

--------------------------------------------------------------------------------
(* 12. The order of the records in a step                                    *)

\* The empty list stays as it is.
LEMMA NilStays == Stays(Nil)
BY NilIsEmpty DEF Stays

\* The lists of the channels and of the workers.
ContentTypes ==
    /\ \A c \in Channels : /\ Content(c) \subseteq Records /\ Len(chan[c]) \in Nat
                           /\ \A i \in 1 .. Len(chan[c]) :
                                /\ chan[c][i] \in Records /\ chan[c][i] \in Elements(chan[c])
                                /\ List(chan[c][i]) \in RecordLists
                                /\ Of(chan[c][i]) \subseteq Content(c)
                                /\ chan[c][i] \in Of(chan[c][i])
    /\ \A g \in Workers : Of(hand[g]) \subseteq Records /\ List(hand[g]) \in RecordLists
    /\ \A w \in Mergers, k \in 0 .. 1 :
          Of(merger[w].head[k]) \subseteq Records /\ List(merger[w].head[k]) \in RecordLists

\* All lists at hand are lists of records.
LEMMA ContentIs == Whole => ContentTypes
<1> SUFFICES ASSUME Whole PROVE ContentTypes
  OBVIOUS
<1>1. 1 \in Exporters /\ \A e \in Exporters : View(e)
  BY SizesAssumption DEF Exporters, Whole
<1>2. ASSUME NEW c \in Channels
      PROVE  /\ Content(c) \subseteq Records /\ Len(chan[c]) \in Nat
             /\ \A i \in 1 .. Len(chan[c]) :
                  /\ chan[c][i] \in Records /\ chan[c][i] \in Elements(chan[c])
                  /\ List(chan[c][i]) \in RecordLists
                  /\ Of(chan[c][i]) \subseteq Content(c)
                  /\ chan[c][i] \in Of(chan[c][i])
  <2>1. PICK e \in Exporters : c \in Places(e)
    BY <1>1, ChannelKinds, PlacesAre DEF Places
  <2>2. HeadsAt(c) = Elements(chan[c]) /\ chan[c] \in Seq(Records)
    BY HeadsAre, <2>1 DEF Whole, PipeTypes
  <2>3. \A h \in Elements(chan[c]) : List(h) \in RecordLists /\ Of(h) \subseteq Records /\ h \in Of(h)
    BY <1>1, <2>1, <2>2, HeadIs
  <2>4. Len(chan[c]) \in Nat /\ \A i \in 1 .. Len(chan[c]) : chan[c][i] \in Records /\ chan[c][i] \in Elements(chan[c])
    BY <2>2 DEF Elements
  <2>5. Content(c) \subseteq Records
    BY <2>3, <2>4 DEF Content
  <2> QED
    BY <2>3, <2>4, <2>5 DEF Content
<1>3. ASSUME NEW g \in Workers PROVE Of(hand[g]) \subseteq Records /\ List(hand[g]) \in RecordLists
  <2>1. CASE hand[g] = Nil
    BY <2>1, NilList, EmptyList
  <2>2. CASE hand[g] # Nil
    <3>1. Hand(g) \in Places(1) /\ hand[g] \in HeadsAt(Hand(g))
      BY <1>1, <2>2, PlacesAre, HeadsAre
    <3> QED
      BY <1>1, <3>1, HeadIs
  <2> QED
    BY <2>1, <2>2
<1>4. ASSUME NEW w \in Mergers, NEW k \in 0 .. 1
      PROVE  Of(merger[w].head[k]) \subseteq Records /\ List(merger[w].head[k]) \in RecordLists
  <2> DEFINE h == merger[w].head[k]
  <2>1. CASE h = Nil
    BY <2>1, NilList, EmptyList
  <2>2. CASE h # Nil
    <3>1. QueueOf(w, k) \in Places(1) /\ h \in HeadsAt(QueueOf(w, k))
      BY <1>1, <2>2, PlacesAre, HeadsAre
    <3> QED
      BY <1>1, <3>1, HeadIs
  <2> QED
    BY <2>1, <2>2
<1> QED
  BY <1>2, <1>3, <1>4 DEF ContentTypes

\* ... also after a step.
LEMMA ContentIsNext == Whole' => ContentTypes'
BY ContentIs, PTL

Bounds == [Inner -> 0 .. Final]

\* What goes on in a channel as its readers see it: records that come are above the bound.
Feeds(c, b, d) ==
    /\ \A x \in Content(c)' : x \in Content(c) \/ b[c] < x
    /\ b[c] <= d[c] /\ (Over(c, b) => chan'[c] = <<>> /\ d[c] = Final)

\* A channel that is left alone; its bound stays, or nothing comes any more.
LEMMA ChanStays ==
    ASSUME NEW b \in Bounds, NEW d \in Bounds, NEW c \in Inner, ChanInv(c, b), Whole,
           chan'[c] = chan[c], \A h \in Elements(chan[c]) : Stays(h),
           (d[c] = b[c] /\ (c \in closed' => c \in closed)) \/ d[c] = Final
    PROVE  ChanInv(c, d)' /\ Feeds(c, b, d) /\ Content(c)' = Content(c)
<1> DEFINE s == chan[c]
           n == Len(s)
           L(i) == Chain(heap.next, s[i])
<1>1. /\ n \in Nat /\ \A i \in 1 .. n : s[i] \in Elements(s) /\ s[i] \in Records
      /\ Content(c) \subseteq Records
  BY ContentIs, ChannelKinds DEF ContentTypes
<1>2. \A i \in 1 .. n : s[i] # Nil
  BY <1>1, SizesAssumption DEF Records, Nil
<1>3. \A i \in 1 .. n : Chain(heap'.next, s[i]) = L(i) /\ heap'.prev[s[i]] = heap.prev[s[i]]
  BY <1>1, <1>2 DEF Stays
<1>4. /\ \A i, j \in 1 .. n : i < j => Ahead(Elements(L(i)), Elements(L(j)))
      /\ \A i \in 1 .. n : Fits(c, L(i))
      /\ \A x \in Content(c) : Ordered => x <= b[c]
      /\ \A i \in 1 .. n : heap.prev[s[i]] = End(L(i)) \/ (i = n /\ b[c] = Final)
      /\ c \in closed => b[c] = Final
  BY DEF ChanInv, InOrder, AllFit, Upto, PrevOk, List, Of
<1>5. Content(c) = UNION {Elements(L(i)) : i \in 1 .. n}
  BY DEF Content, Of, List
<1>6. Content(c)' = UNION {Elements(Chain(heap'.next, s[i])) : i \in 1 .. n}
  BY DEF Content, Of, List
<1> HIDE DEF s, n
<1>7. Content(c)' = Content(c)
  BY <1>3, <1>5, <1>6
<1>8. b[c] \in 0 .. Final /\ d[c] \in 0 .. Final /\ b[c] <= d[c] /\ Final \in Nat
  BY SizesAssumption DEF Bounds, Final
<1>9. Feeds(c, b, d)
  <2>1. b[c] = Final => d[c] = Final
    BY <1>8
  <2> QED
    BY <1>7, <1>8, <2>1 DEF Feeds, Over
<1>10. \A x \in Content(c)' : Ordered => x <= d[c]
  BY <1>1, <1>4, <1>7, <1>8 DEF Records
<1>11. chan'[c] = s /\ Len(s) = n
  BY DEF s, n
<1>12. InOrder(c)' /\ AllFit(c)'
  BY <1>3, <1>4, <1>11 DEF InOrder, AllFit, Of, List
<1>13. \A i \in 1 .. Len(chan'[c]) : PrevOk(chan[c][i])' \/ (i = Len(chan'[c]) /\ d[c] = Final)
  BY <1>3, <1>4, <1>8, <1>11 DEF PrevOk, List
<1>14. c \in closed' => d[c] = Final
  BY <1>4
<1> QED
  BY <1>7, <1>9, <1>10, <1>12, <1>13, <1>14 DEF ChanInv, Upto

\* The first list of a channel is received.
Taken(c, b) ==
    LET h == Head(chan[c])
    IN  /\ ChanInv(c, b)' /\ Feeds(c, b, b) /\ Content(c)' \subseteq Content(c)
        /\ Of(h) \subseteq Content(c) /\ Ahead(Of(h), Content(c)')
        /\ Fits(c, List(h))
        /\ PrevOk(h) \/ (chan'[c] = <<>> /\ b[c] = Final)

\* Taking the first list keeps the order of those behind it.
LEMMA ChanReceives ==
    ASSUME NEW b \in Bounds, NEW c \in Inner, ChanInv(c, b), Whole, Ready(c),
           chan'[c] = Tail(chan[c]), \A h \in Elements(Tail(chan[c])) : Stays(h),
           c \in closed' => c \in closed
    PROVE  Taken(c, b)
<1> DEFINE s == chan[c]
           t == Tail(chan[c])
           n == Len(s)
           m == Len(t)
           L(i) == Chain(heap.next, s[i])
           h == s[1]
<1>1. /\ n \in Nat /\ \A i \in 1 .. n : s[i] \in Elements(s) /\ s[i] \in Records
      /\ Content(c) \subseteq Records /\ c \in Channels
  BY ContentIs, ChannelKinds DEF ContentTypes
<1>2. s \in Seq(Records) /\ s # <<>> /\ Different(s)
  BY <1>1 DEF Whole, PipeTypes, Ready
<1>3. /\ Head(s) = h /\ 1 \in 1 .. n /\ m = n - 1 /\ (n = 1 => t = <<>>)
      /\ \A i \in 1 .. m : i + 1 \in 1 .. n /\ t[i] = s[i + 1] /\ t[i] \in Elements(t)
  BY <1>2, TailOf DEF Elements
<1>4. /\ \A i, j \in 1 .. n : i < j => Ahead(Elements(L(i)), Elements(L(j)))
      /\ \A i \in 1 .. n : Fits(c, L(i))
      /\ \A x \in Content(c) : Ordered => x <= b[c]
      /\ \A i \in 1 .. n : heap.prev[s[i]] = End(L(i)) \/ (i = n /\ b[c] = Final)
      /\ c \in closed => b[c] = Final
  BY DEF ChanInv, InOrder, AllFit, Upto, PrevOk, List, Of
<1>5. Content(c) = UNION {Elements(L(i)) : i \in 1 .. n}
  BY DEF Content, Of, List
<1>6. Content(c)' = UNION {Elements(Chain(heap'.next, t[i])) : i \in 1 .. m}
  BY DEF Content, Of, List
<1>7. Head(chan[c]) = h /\ Of(h) = Elements(L(1)) /\ List(h) = L(1)
  BY <1>3 DEF Of, List
<1>8. chan'[c] = t /\ Len(t) = m /\ \A i \in Elements(t) : Stays(i)
  OBVIOUS
<1> HIDE DEF s, t, n, m, h
<1>9. \A i \in 1 .. m : t[i] # Nil
  BY <1>1, <1>3, SizesAssumption DEF Records, Nil
<1>10. \A i \in 1 .. m : Chain(heap'.next, t[i]) = L(i + 1) /\ heap'.prev[t[i]] = heap.prev[s[i + 1]]
  BY <1>3, <1>8, <1>9 DEF Stays
<1>11. m \in Nat /\ \A i \in 1 .. m : 1 < i + 1 /\ (i + 1 = n => i = m)
  BY <1>1, <1>3
<1>12. Content(c)' \subseteq Content(c) /\ Of(h) \subseteq Content(c) /\ Ahead(Of(h), Content(c)')
  <2>1. \A i \in 1 .. m : Ahead(Elements(L(1)), Elements(Chain(heap'.next, t[i])))
    BY <1>3, <1>4, <1>10, <1>11
  <2>2. Ahead(Of(h), Content(c)')
    BY <1>6, <1>7, <2>1 DEF Ahead, Before
  <2> QED
    BY <1>3, <1>5, <1>6, <1>7, <1>10, <2>2
<1>13. InOrder(c)'
  <2> SUFFICES ASSUME NEW i \in 1 .. m, NEW j \in 1 .. m, i < j
               PROVE  Ahead(Elements(Chain(heap'.next, t[i])), Elements(Chain(heap'.next, t[j])))
    BY <1>8 DEF InOrder, Of, List
  <2>1. i + 1 < j + 1
    BY <1>11
  <2> QED
    BY <1>3, <1>4, <1>10, <2>1
<1>14. AllFit(c)' /\ Fits(c, List(h))
  BY <1>3, <1>4, <1>7, <1>8, <1>10 DEF AllFit, List
<1>15. \A i \in 1 .. Len(chan'[c]) : PrevOk(chan[c][i])' \/ (i = Len(chan'[c]) /\ b[c] = Final)
  <2> SUFFICES ASSUME NEW i \in 1 .. m
               PROVE  heap'.prev[t[i]] = End(Chain(heap'.next, t[i])) \/ (i = m /\ b[c] = Final)
    BY <1>8 DEF PrevOk, List
  <2> QED
    BY <1>3, <1>4, <1>10, <1>11
<1>16. PrevOk(h) \/ (chan'[c] = <<>> /\ b[c] = Final)
  BY <1>3, <1>4, <1>7, <1>8 DEF PrevOk, h
<1>17. ChanInv(c, b)'
  <2>1. \A x \in Content(c)' : Ordered => x <= b[c]
    BY <1>4, <1>12
  <2> QED
    BY <1>4, <1>13, <1>14, <1>15, <2>1 DEF ChanInv, Upto
<1>18. Feeds(c, b, b)
  <2>1. b[c] <= b[c]
    BY SizesAssumption DEF Bounds, Final
  <2>2. chan[c] # <<>>
    BY DEF Ready
  <2> QED
    BY <1>12, <2>1, <2>2 DEF Feeds, Over
<1> QED
  BY <1>7, <1>12, <1>14, <1>16, <1>17, <1>18 DEF Taken

\* A list above the bound is sent.
LEMMA ChanSends ==
    ASSUME NEW b \in Bounds, NEW d \in Bounds, NEW c \in Inner, ChanInv(c, b), Whole,
           NEW h \in Records, NEW l \in RecordLists, l # <<>>,
           chan'[c] = Append(chan[c], h), Chain(heap'.next, h) = l,
           \A g \in Elements(chan[c]) : Stays(g), Before({b[c]}, Elements(l)), Upto(Elements(l), d[c]), b[c] <= d[c],
           Fits(c, l), heap'.prev[h] = End(l) \/ d[c] = Final,
           c \in closed' => c \in closed
    PROVE  ChanInv(c, d)' /\ Feeds(c, b, d) /\ Content(c)' = Content(c) \cup Elements(l)
<1> DEFINE s == chan[c]
           t == Append(s, h)
           n == Len(s)
           L(i) == Chain(heap.next, s[i])
           M(i) == Chain(heap'.next, t[i])
<1>1. /\ n \in Nat /\ \A i \in 1 .. n : s[i] \in Elements(s) /\ s[i] \in Records
      /\ Content(c) \subseteq Records /\ c \in Channels
  BY ContentIs, ChannelKinds DEF ContentTypes
<1>2. s \in Seq(Records)
  BY <1>1 DEF Whole, PipeTypes
<1>3. /\ Len(t) = n + 1 /\ t[n + 1] = h /\ \A i \in 1 .. n : t[i] = s[i]
      /\ \A i \in 1 .. n + 1 : i \in 1 .. n \/ i = n + 1
  BY <1>2, AppendOf
<1>4. /\ \A i, j \in 1 .. n : i < j => Ahead(Elements(L(i)), Elements(L(j)))
      /\ \A i \in 1 .. n : Fits(c, L(i))
      /\ \A x \in Content(c) : Ordered => x <= b[c]
      /\ \A i \in 1 .. n : heap.prev[s[i]] = End(L(i)) \/ (i = n /\ b[c] = Final)
      /\ c \in closed => b[c] = Final
  BY DEF ChanInv, InOrder, AllFit, Upto, PrevOk, List, Of
<1>5. Content(c) = UNION {Elements(L(i)) : i \in 1 .. n}
  BY DEF Content, Of, List
<1>6. Content(c)' = UNION {Elements(M(i)) : i \in 1 .. n + 1}
  <2>1. Content(c)' = UNION {Elements(M(i)) : i \in 1 .. Len(t)}
    BY DEF Content, Of, List
  <2> QED
    BY <1>3, <2>1
<1>7. chan'[c] = t /\ \A i \in Elements(s) : Stays(i)
  OBVIOUS
<1>8. \A i \in 1 .. n : s[i] # Nil
  BY <1>1, SizesAssumption DEF Records, Nil
<1>9. /\ \A i \in 1 .. n : M(i) = L(i) /\ heap'.prev[t[i]] = heap.prev[s[i]]
      /\ M(n + 1) = l /\ heap'.prev[t[n + 1]] = heap'.prev[h]
  BY <1>1, <1>3, <1>7, <1>8 DEF Stays
<1> HIDE DEF s, t, n, L, M
<1>10. n + 1 \in 1 .. n + 1 /\ \A i \in 1 .. n : i \in 1 .. n + 1 /\ i < n + 1
  BY <1>1
<1>11. Content(c)' = Content(c) \cup Elements(l)
  BY <1>3, <1>5, <1>6, <1>9, <1>10
<1>12. Elements(l) \subseteq Records /\ Elements(l) # {}
  BY ListTypes
<1>13. b[c] \in 0 .. Final /\ d[c] \in 0 .. Final /\ Final \in Nat
  BY SizesAssumption DEF Bounds, Final
<1>14. b[c] <= d[c] /\ b[c] # Final
  <2>1. PICK x \in Elements(l) : b[c] < x
    BY <1>12 DEF Before
  <2>2. x \in Nat /\ x < Final
    BY <1>12, SizesAssumption DEF Records, Final
  <2> QED
    BY <1>13, <2>1, <2>2
<1>15. Feeds(c, b, d)
  <2>1. \A x \in Content(c)' : x \in Content(c) \/ b[c] < x
    BY <1>11 DEF Before
  <2>2. b[c] <= d[c]
    BY <1>13, <1>14
  <2> QED
    BY <1>14, <2>1, <2>2 DEF Feeds, Over
<1>16. \A x \in Content(c)' : Ordered => x <= d[c]
  <2>1. \A x \in Content(c) : Ordered => x <= d[c]
    BY <1>1, <1>4, <1>13, <1>14 DEF Records
  <2> QED
    BY <1>11, <2>1 DEF Upto
<1>17. \A i \in 1 .. n : Ahead(Elements(L(i)), Elements(l))
  <2> SUFFICES ASSUME NEW i \in 1 .. n, NEW x \in Elements(L(i)), NEW y \in Elements(l), Ordered PROVE x < y
    BY DEF Ahead
  <2>1. x \in Content(c)
    BY <1>5
  <2>2. x <= b[c] /\ b[c] < y /\ x \in Nat /\ y \in Nat
    BY <1>1, <1>4, <1>12, <2>1 DEF Ahead, Before, Records
  <2> QED
    BY <1>13, <2>2
<1>18. InOrder(c)'
  <2> SUFFICES ASSUME NEW i \in 1 .. n + 1, NEW j \in 1 .. n + 1, i < j
               PROVE  Ahead(Elements(M(i)), Elements(M(j)))
    BY <1>3, <1>7 DEF InOrder, Of, List, M
  <2>1. i \in 1 .. n
    BY <1>1
  <2> QED
    BY <1>3, <1>4, <1>9, <1>17, <2>1
<1>19. AllFit(c)'
  <2> SUFFICES ASSUME NEW i \in 1 .. n + 1 PROVE Fits(c, M(i))
    BY <1>3, <1>7 DEF AllFit, List, M
  <2> QED
    BY <1>3, <1>4, <1>9
<1>20. \A i \in 1 .. Len(chan'[c]) : PrevOk(chan[c][i])' \/ (i = Len(chan'[c]) /\ d[c] = Final)
  <2> SUFFICES ASSUME NEW i \in 1 .. n + 1
               PROVE  heap'.prev[t[i]] = End(M(i)) \/ (i = n + 1 /\ d[c] = Final)
    BY <1>3, <1>7 DEF PrevOk, List, M
  <2>1. CASE i \in 1 .. n
    BY <1>4, <1>9, <1>14, <2>1
  <2>2. CASE i = n + 1
    BY <1>9, <2>2
  <2> QED
    BY <1>3, <2>1, <2>2
<1>21. c \in closed' => d[c] = Final
  BY <1>4, <1>14
<1>22. ChanInv(c, d)'
  BY <1>16, <1>18, <1>19, <1>20, <1>21 DEF ChanInv, Upto
<1> QED
  BY <1>11, <1>15, <1>22

\* Records that come from above do not disturb those that pass a worker.
LEMMA PassingStays ==
    ASSUME NEW o \in Nat, NEW H \in SUBSET Nat, NEW Q \in SUBSET Nat, NEW X \in SUBSET Nat, NEW bc \in Nat,
           Passing(o, H, Q, X, bc), NEW Y \in SUBSET Nat, NEW bd \in Nat,
           \A y \in Y : y \in X \/ bc < y, bc <= bd
    PROVE  Passing(o, H, Q, Y, bd)
BY DEF Passing, Ahead, Before, Upto

\* A worker that takes no step.
LEMMA HandStays ==
    ASSUME NEW b \in Bounds, NEW d \in Bounds, NEW g \in Workers, HandInv(g, b), Whole, Whole',
           \A k \in 0 .. 1 : Feeds(Source(g, k), b, d), d[Output(g)] = b[Output(g)],
           hand'[g] = hand[g], Stays(hand[g]),
           \A k \in 0 .. 1 : Pending(g, k)' = Pending(g, k) /\ Stays(Pending(g, k))
    PROVE  HandInv(g, d)'
<1>1. List(hand[g])' = List(hand[g]) /\ Of(hand[g])' = Of(hand[g])
      /\ (hand[g] # Nil => PrevOk(hand[g])' = PrevOk(hand[g]))
  BY DEF Stays, List, Of, PrevOk
<1>2. \A k \in 0 .. 1 : Of(Pending(g, k))' = Of(Pending(g, k))
  BY DEF Stays, List, Of
<1>3. /\ Of(hand[g]) \subseteq Records
      /\ \A k \in 0 .. 1 : Of(Pending(g, k)) \subseteq Records
      /\ \A c \in Inner : Content(c) \subseteq Records /\ Content(c)' \subseteq Records
  <2>1. ContentTypes /\ ContentTypes'
    BY ContentIs, ContentIsNext
  <2>2. \A k \in 0 .. 1 : Of(Pending(g, k)) \subseteq Records
    BY <2>1, NilList DEF ContentTypes, Pending
  <2> QED
    BY <2>1, <2>2, ChannelKinds DEF ContentTypes
<1>4. Quiet(g, b) => Quiet(g, d)'
  BY DEF Quiet, Feeds, Over
<1>5. ASSUME NEW k \in 0 .. 1 PROVE Through(g, k, d)'
  <2> DEFINE c == Source(g, k)
             o == Output(g)
  <2>1. c \in Inner /\ o \in Inner
    BY Topology, ChannelKinds
  <2>2. Passing(b[o], Of(hand[g]), Of(Pending(g, k)), Content(c), b[c])
    BY DEF HandInv, Through
  <2>3. (\A y \in Content(c)' : y \in Content(c) \/ b[c] < y) /\ b[c] <= d[c]
    BY DEF Feeds
  <2>4. b[o] \in Nat /\ b[c] \in Nat /\ d[c] \in Nat /\ Records \subseteq Nat
    BY <2>1, SizesAssumption DEF Bounds, Final, Records
  <2>5. Passing(b[o], Of(hand[g]), Of(Pending(g, k)), Content(c)', d[c])
    BY <1>3, <2>1, <2>2, <2>3, <2>4, PassingStays
  <2> QED
    BY <1>1, <1>2, <2>5 DEF Through
<1> QED
  BY <1>1, <1>4, <1>5 DEF HandInv

\* A merge worker that takes no step.
LEMMA MergerStays ==
    ASSUME NEW b \in Bounds, NEW d \in Bounds, NEW w \in Mergers, MergerInv(w, b), merger'[w] = merger[w],
           \A k \in 0 .. 1 : Feeds(MergeInput(w, k), b, d) /\ Stays(merger[w].head[k]), Whole
    PROVE  MergerInv(w, d)'
<1>1. \A k \in 0 .. 1 : Over(MergeInput(w, k), b) => Over(MergeInput(w, k), d)'
  BY DEF Feeds, Over
<1>2. \A k \in 0 .. 1 : List(merger[w].head[k])' = List(merger[w].head[k])
  BY DEF Stays, List
<1>3. ASSUME NEW k \in 0 .. 1 PROVE QueueInv(w, k, d)'
  <2>1. QueueInv(w, k, b)
    BY DEF MergerInv
  <2>2. Open(w, k)' = Open(w, k)
    BY DEF Open, Remaining
  <2> QED
    BY <1>1, <1>2, <2>1, <2>2 DEF QueueInv
<1>4. Stopped(w) \in 0 .. 1 /\ Remaining(w) \in 0 .. 1 /\ Stopped(w)' = Stopped(w) /\ Remaining(w)' = Remaining(w)
  BY DEF Whole, PipeTypes, MergerTypes, Stopped, Remaining
<1>5. PcInv(w, d)'
  <2>1. Over(MergeInput(w, Stopped(w)), b) => Over(MergeInput(w, Stopped(w)), d)'
    BY <1>1, <1>4
  <2>2. Over(MergeInput(w, Remaining(w)), b) => Over(MergeInput(w, Remaining(w)), d)'
    BY <1>1, <1>4
  <2>3. PcInv(w, b)
    BY DEF MergerInv
  <2> QED
    BY <1>4, <2>1, <2>2, <2>3 DEF PcInv
<1> QED
  BY <1>3, <1>5 DEF MergerInv

\* The way of the sorted records to an exporter, when the workers take a step.
LEMMA EndStays ==
    ASSUME NEW b \in Bounds, NEW d \in Bounds, NEW e \in Exporters, EndInv(e, b), Whole, Whole',
           Feeds(SortedQueue, b, d), chan'[Out(e)] = chan[Out(e)], exported'[e] = exported[e],
           splice' = splice, \A h \in HeadsAt(Out(e)) : Stays(h), \A h \in HeadsAt(SpliceOf(e)) : Stays(h)
    PROVE  EndInv(e, d)'
<1> DEFINE o == Out(e)
           s == chan[o]
           c == SortedQueue
           x == Elements(exported[e])
<1>1. o \in Channels /\ c \in Inner /\ c \in Channels
  BY ChannelKinds, Topology
<1>2. ContentTypes /\ ContentTypes' /\ HeadsAt(o) = Elements(s)
  BY <1>1, ContentIs, ContentIsNext, HeadsAre
<1>3. \A i \in 1 .. Len(s) : Chain(heap'.next, s[i]) = Chain(heap.next, s[i])
  BY <1>1, <1>2 DEF ContentTypes, Stays
<1>4. InOrder(o)' /\ AllFit(o)' /\ Content(o)' = Content(o)
  <2>1. Content(o)' = Content(o)
    BY <1>3 DEF Content, Of, List
  <2>2. InOrder(o) /\ AllFit(o)
    BY DEF EndInv
  <2>3. InOrder(o)' /\ AllFit(o)'
    BY <1>3, <2>2 DEF InOrder, AllFit, Of, List
  <2> QED
    BY <2>1, <2>3
<1>5. SplicedFor(e)' = SplicedFor(e) /\ SplicedFor(e) \subseteq Records
  <2>1. CASE splice.to <= e /\ splice.list # Nil
    <3>1. splice.list \in HeadsAt(SpliceOf(e)) /\ SpliceOf(e) \in Places(e) /\ View(e)
      BY <2>1, HeadsAre, PlacesAre DEF Whole
    <3>2. Stays(splice.list) /\ Of(splice.list) \subseteq Records
      BY <3>1, HeadIs
    <3> QED
      BY <3>2 DEF SplicedFor, Of, List, Stays
  <2>2. CASE splice.to <= e /\ splice.list = Nil
    BY <2>2, NilIsEmpty, EmptyList DEF SplicedFor, Of, List
  <2>3. CASE ~(splice.to <= e)
    BY <2>3 DEF SplicedFor
  <2> QED
    BY <2>1, <2>2, <2>3
<1>6. Passing(0, x \cup Content(o), SplicedFor(e), Content(c), b[c])
  BY DEF EndInv
<1>7. (\A y \in Content(c)' : y \in Content(c) \/ b[c] < y) /\ b[c] <= d[c]
  BY DEF Feeds
<1>8. /\ x \subseteq Records /\ Content(o) \subseteq Records /\ Content(c) \subseteq Records
      /\ Content(c)' \subseteq Records
  <2>1. exported[e] \in Seq(Records)
    BY DEF Whole, PipeTypes
  <2>2. x \subseteq Records
    BY <2>1 DEF Elements
  <2> QED
    BY <1>1, <1>2, <2>2 DEF ContentTypes
<1>9. b[c] \in Nat /\ d[c] \in Nat /\ Records \subseteq Nat /\ 0 \in Nat
  BY <1>1, SizesAssumption DEF Bounds, Final, Records
<1>10. Passing(0, x \cup Content(o), SplicedFor(e), Content(c)', d[c])
  <2> DEFINE H == x \cup Content(o)
  <2>1. H \in SUBSET Nat /\ Passing(0, H, SplicedFor(e), Content(c), b[c])
    BY <1>6, <1>8, <1>9
  <2> HIDE DEF H
  <2>2. Passing(0, H, SplicedFor(e), Content(c)', d[c])
    BY <1>5, <1>7, <1>8, <1>9, <2>1, PassingStays
  <2> QED
    BY <2>2 DEF H
<1> QED
  BY <1>4, <1>5, <1>10 DEF EndInv

\* What stays of the lists of the others.
OthersStay(C, D) ==
    /\ \A c \in Inner : \A h \in Elements(chan[c]) : c \notin C \/ h \notin D => Stays(h)
    /\ \A g \in Workers : Hand(g) \notin C \/ hand[g] \notin D => Stays(hand[g])
    /\ \A w \in Mergers, k \in 0 .. 1 :
          QueueOf(w, k) \notin C \/ merger[w].head[k] \notin D => Stays(merger[w].head[k])
    /\ \A e \in Exporters : \A h \in HeadsAt(Out(e)) \cup HeadsAt(SpliceOf(e)) : Stays(h)
    /\ Stays(splice.list)

\* They are the lists at the places that the step leaves alone.
LEMMA ElsewhereStays ==
    ASSUME Whole, NEW C \in SUBSET Always, NEW D, Elsewhere(C, D)
    PROVE  OthersStay(C, D)
<1>1. 1 \in Exporters
  BY SizesAssumption DEF Exporters
<1>2. \A e \in Exporters : \A p \in Places(e) : \A h \in HeadsAt(p) : p \notin C \/ h \notin D => Stays(h)
  BY DEF Elsewhere
<1>3. \A c \in Inner : \A h \in Elements(chan[c]) : c \notin C \/ h \notin D => Stays(h)
  <2>1. \A c \in Inner : c \in Places(1) /\ HeadsAt(c) = Elements(chan[c])
    BY <1>1, PlacesAre, HeadsAre, ChannelKinds
  <2> QED
    BY <1>1, <1>2, <2>1
<1>4. ASSUME NEW g \in Workers, Hand(g) \notin C \/ hand[g] \notin D PROVE Stays(hand[g])
  <2>1. CASE hand[g] = Nil
    BY <2>1, NilStays
  <2>2. CASE hand[g] # Nil
    <3>1. Hand(g) \in Places(1) /\ hand[g] \in HeadsAt(Hand(g))
      BY <1>1, <2>2, PlacesAre, HeadsAre
    <3> QED
      BY <1>1, <1>2, <1>4, <3>1
  <2> QED
    BY <2>1, <2>2
<1>5. ASSUME NEW w \in Mergers, NEW k \in 0 .. 1, QueueOf(w, k) \notin C \/ merger[w].head[k] \notin D
      PROVE  Stays(merger[w].head[k])
  <2>1. CASE merger[w].head[k] = Nil
    BY <2>1, NilStays
  <2>2. CASE merger[w].head[k] # Nil
    <3>1. QueueOf(w, k) \in Places(1) /\ merger[w].head[k] \in HeadsAt(QueueOf(w, k))
      BY <1>1, <2>2, PlacesAre, HeadsAre
    <3> QED
      BY <1>1, <1>2, <1>5, <3>1
  <2> QED
    BY <2>1, <2>2
<1>6. \A e \in Exporters : \A h \in HeadsAt(Out(e)) \cup HeadsAt(SpliceOf(e)) : Stays(h)
  <2>1. \A e \in Exporters : /\ Out(e) \in Places(e) /\ SpliceOf(e) \in Places(e)
                             /\ Out(e) \notin C /\ SpliceOf(e) \notin C
    BY PlacesAre
  <2> QED
    BY <1>2, <2>1
<1>7. Stays(splice.list)
  <2>1. CASE splice.list = Nil
    BY <2>1, NilStays
  <2>2. CASE splice.list # Nil
    <3>1. splice.to \in Exporters /\ splice.to <= splice.to
      BY SizesAssumption DEF Whole, PipeTypes, Exporters
    <3>2. splice.list \in HeadsAt(SpliceOf(splice.to))
      BY <2>2, <3>1, HeadsAre
    <3> QED
      BY <1>6, <3>1, <3>2
  <2> QED
    BY <2>1, <2>2
<1> QED
  BY <1>3, <1>4, <1>5, <1>6, <1>7 DEF OthersStay

\* Nothing but the state of worker g and the channels it reads changes.
Near(g) == {Hand(g)} \cup {Source(g, k) : k \in 0 .. 1} \cup {QueueOf(g, k) : k \in 0 .. 1}
Works(g, C, D) ==
    /\ order' = order /\ closed' = closed /\ produced' = produced /\ splice' = splice /\ exported' = exported
    /\ \A f \in Workers : f # g => hand'[f] = hand[f]
    /\ \A w \in Mergers : w # g => merger'[w] = merger[w]
    /\ \A c \in Inner : \/ c \notin C /\ chan'[c] = chan[c]
                        \/ (Elements(chan[c]) \cap D) = {} /\ chan'[c] = chan[c]
                        \/ Ready(c) /\ chan'[c] = Tail(chan[c]) /\ (Elements(Tail(chan[c])) \cap D) = {}
    /\ \A e \in Exporters : chan'[Out(e)] = chan[Out(e)]

\* The channels in a step of a worker.
LEMMA WorkerChannels ==
    ASSUME NEW b, OrderInv(b), Whole, NEW g \in Workers, NEW C \in SUBSET Always, NEW D, Elsewhere(C, D),
           Works(g, C, D)
    PROVE  \A c \in Inner : /\ ChanInv(c, b)' /\ Feeds(c, b, b) /\ Content(c)' \subseteq Content(c)
                            /\ Ready(c) /\ chan'[c] = Tail(chan[c]) => Taken(c, b)
<1> TAKE c \in Inner
<1>1. b \in Bounds /\ ChanInv(c, b) /\ b[c] \in 0 .. Final
  BY DEF OrderInv, Bounds
<1>2. \A h \in Elements(chan[c]) : c \notin C \/ h \notin D => Stays(h)
  BY ElsewhereStays DEF OthersStay
<1>3. c \in closed' => c \in closed
  BY DEF Works
<1>4. c \in Channels /\ chan[c] \in Seq(Records) /\ Different(chan[c])
  BY ChannelKinds DEF Whole, PipeTypes
<1>5. CASE Ready(c) /\ chan'[c] = Tail(chan[c])
  <2>1. chan[c] # <<>>
    BY <1>5 DEF Ready
  <2>2. Elements(Tail(chan[c])) = Elements(chan[c]) \ {chan[c][1]} /\ chan[c][1] \in Elements(chan[c])
        /\ Len(Tail(chan[c])) = Len(chan[c]) - 1 /\ Len(chan[c]) \in Nat
    BY <1>4, <2>1, TailOf
  <2>3. Tail(chan[c]) # chan[c]
    BY <2>2
  <2>4. \A h \in Elements(Tail(chan[c])) : Stays(h)
    <3>1. c \notin C \/ (Elements(Tail(chan[c])) \cap D) = {} \/ (Elements(chan[c]) \cap D) = {}
      BY DEF Works
    <3> QED
      BY <1>2, <2>2, <3>1
  <2>5. Taken(c, b)
    BY <1>1, <1>3, <1>5, <2>4, ChanReceives
  <2> QED
    BY <2>5 DEF Taken
<1>6. CASE chan'[c] = chan[c] /\ (c \notin C \/ (Elements(chan[c]) \cap D) = {})
  <2>1. \A h \in Elements(chan[c]) : Stays(h)
    BY <1>2, <1>6
  <2>2. ChanInv(c, b)' /\ Feeds(c, b, b) /\ Content(c)' = Content(c)
    BY <1>1, <1>3, <1>6, <2>1, ChanStays
  <2>3. ~(Ready(c) /\ chan'[c] = Tail(chan[c]))
    <3> SUFFICES ASSUME chan[c] # <<>>, chan[c] = Tail(chan[c]) PROVE FALSE
      BY <1>6 DEF Ready
    <3> DEFINE n == Len(chan[c])
    <3>1. Len(Tail(chan[c])) = Len(chan[c]) - 1 /\ Len(chan[c]) \in Nat
      BY <1>4, TailOf
    <3>2. n \in Nat /\ n = n - 1
      BY <3>1
    <3> HIDE DEF n
    <3> QED
      BY <3>2
  <2> QED
    BY <2>2, <2>3
<1> QED
  BY <1>5, <1>6 DEF Works

\* A step of one worker keeps the order, if it does at the worker itself.
LEMMA WorkerStep ==
    ASSUME NEW b, OrderInv(b), Whole, Whole', NEW g \in Workers, NEW C \in SUBSET Always, NEW D,
           Elsewhere(C, D), Works(g, C, D), C \subseteq Near(g), order # "none",
           g \in Sorters => order = "expiry", HandInv(g, b)', g \in Mergers => MergerInv(g, b)'
    PROVE  OrderInv(b)'
<1>1. /\ b \in Bounds /\ b \in [Inner -> 0 .. Final]
      /\ \A f \in Workers : HandInv(f, b)
      /\ \A w \in Mergers : MergerInv(w, b) /\ w \in Workers
      /\ \A t \in Tables : TableInv(t, b)
  BY WorkerKinds DEF OrderInv, Bounds
<1>2. \A c \in Inner : ChanInv(c, b)' /\ Feeds(c, b, b)
  BY WorkerChannels
<1>3. OthersStay(C, D)
  BY ElsewhereStays
<1>4. \A f \in Workers, k \in 0 .. 1 : Source(f, k) \in Inner
  BY Topology
<1>5. ASSUME NEW p \in C PROVE p \in Inner \/ p = Hand(g) \/ \E k \in 0 .. 1 : p = QueueOf(g, k)
  BY <1>4 DEF Near
<1>6. \A f \in Workers : f # g => Hand(f) \notin C
  <2> TAKE f \in Workers
  <2> HAVE f # g
  <2>1. 1 \in Exporters
    BY SizesAssumption DEF Exporters
  <2>2. Hand(f) \notin Inner /\ Hand(f) # Hand(g) /\ \A k \in 0 .. 1 : Hand(f) # QueueOf(g, k)
    BY <2>1, PlacesAre, ChannelKinds
  <2> QED
    BY <1>5, <2>2
<1>7. \A w \in Mergers, k \in 0 .. 1 : w # g => QueueOf(w, k) \notin C
  <2> TAKE w \in Mergers, k \in 0 .. 1
  <2> HAVE w # g
  <2>1. 1 \in Exporters
    BY SizesAssumption DEF Exporters
  <2>2. QueueOf(w, k) \notin Inner /\ QueueOf(w, k) # Hand(g) /\ \A j \in 0 .. 1 : QueueOf(w, k) # QueueOf(g, j)
    BY <2>1, PlacesAre, ChannelKinds
  <2> QED
    BY <1>5, <2>2
<1>8. ASSUME NEW f \in Workers, f # g PROVE HandInv(f, b)'
  <2>1. hand'[f] = hand[f] /\ Stays(hand[f])
    BY <1>3, <1>6, <1>8 DEF OthersStay, Works
  <2>2. \A k \in 0 .. 1 : Pending(f, k)' = Pending(f, k) /\ Stays(Pending(f, k))
    BY <1>3, <1>7, <1>8, NilStays DEF OthersStay, Works, Pending
  <2> QED
    BY <1>1, <1>2, <1>4, <2>1, <2>2, HandStays
<1>9. ASSUME NEW w \in Mergers, w # g PROVE MergerInv(w, b)'
  <2>1. merger'[w] = merger[w] /\ \A k \in 0 .. 1 : Stays(merger[w].head[k])
    BY <1>3, <1>7, <1>9 DEF OthersStay, Works
  <2>2. \A k \in 0 .. 1 : Feeds(MergeInput(w, k), b, b)
    BY <1>2, Topology, ChannelKinds
  <2> QED
    BY <1>1, <2>1, <2>2, MergerStays
<1>10. ASSUME NEW t \in Tables PROVE TableInv(t, b)'
  BY <1>1 DEF Works, TableInv, Above, In
<1>11. ASSUME NEW e \in Exporters PROVE EndInv(e, b)'
  <2>1. /\ chan'[Out(e)] = chan[Out(e)] /\ exported'[e] = exported[e] /\ splice' = splice
        /\ \A h \in HeadsAt(Out(e)) : Stays(h)
        /\ \A h \in HeadsAt(SpliceOf(e)) : Stays(h)
    BY <1>3 DEF OthersStay, Works
  <2>2. EndInv(e, b) /\ Feeds(SortedQueue, b, b)
    BY <1>2, Topology, ChannelKinds DEF OrderInv
  <2> QED
    BY <1>1, <2>1, <2>2, EndStays
<1>12. Sorted(List(splice.list))'
  BY <1>3 DEF OrderInv, OthersStay, Stays, Works, List
<1>13. order' # "expiry" => \A s \in Sorters : hand'[s] = Nil /\ Over(SortInput(s), b)'
  <2> SUFFICES ASSUME order # "expiry", NEW s \in Sorters PROVE hand'[s] = Nil /\ Over(SortInput(s), b)'
    BY DEF Works
  <2>1. s # g /\ s \in Workers /\ Source(s, 0) = SortInput(s) /\ SortInput(s) \in Inner
    BY <1>4, WorkerKinds, Topology
  <2>2. hand[s] = Nil /\ Over(SortInput(s), b)
    BY DEF OrderInv
  <2>3. Feeds(SortInput(s), b, b)
    BY <1>2, <2>1
  <2> QED
    BY <2>1, <2>2, <2>3 DEF Works, Feeds, Over
<1> QED
  BY <1>1, <1>2, <1>8, <1>9, <1>10, <1>11, <1>12, <1>13 DEF OrderInv

--------------------------------------------------------------------------------
(* 13. What a merge worker holds and gets                                    *)

\* The heads of its queues and the lists in them.
QueueHeads(w) == {merger[w].head[k] : k \in 0 .. 1} \ {Nil}
Queued(w) == [q \in 0 .. 2 |-> List(merger[w].head[q])]

\* A list at a place of an exporter's view.
LEMMA QueuesAre ==
    ASSUME Whole, NEW b, OrderInv(b), NEW w \in Mergers
    PROVE  /\ With(w) \in MergeState
           /\ With(w).head = merger[w].head /\ With(w).tail = merger[w].tail
           /\ With(w).next = heap.next /\ With(w).prev = heap.prev
           /\ Merging(Queued(w)) /\ Queued(w)[2] = <<>>
           /\ \A q \in 0 .. 2 : /\ Linked(heap.next, merger[w].head[q], Queued(w)[q])
                                /\ Queued(w)[q] \in RecordLists
                                /\ (Queued(w)[q] = <<>>) <=> (merger[w].head[q] = Nil)
                                /\ Elements(Queued(w)[q]) = Of(merger[w].head[q])
           /\ All(Queued(w)) = RecordsOf(heap.next, QueueHeads(w))
<1> DEFINE h == merger[w].head
           l == Queued(w)
<1>1. /\ heap \in [next : [Records -> Pointer], prev : [Records -> Pointer]]
      /\ merger[w] \in MergerTypes
  BY DEF Whole, PipeTypes
<1>2. h \in [0 .. 2 -> Pointer]
  BY <1>1 DEF MergerTypes
<1>3. With(w) \in MergeState
  BY <1>1 DEF With, MergeState, MergerTypes
<1>4. h[2] = Nil
  BY DEF OrderInv, MergerInv, PcInv
<1>5. 1 \in Exporters /\ View(1)
  BY SizesAssumption DEF Exporters, Whole
<1>6. \A k \in 0 .. 1 : QueueOf(w, k) \in Places(1) /\ HeadsAt(QueueOf(w, k)) = {h[k]} \ {Nil}
  BY <1>5, PlacesAre, HeadsAre
<1>7. QueueOf(w, 0) # QueueOf(w, 1)
  <2>1. \A v, j : QueueOf(w, 0) = QueueOf(v, j) => w = v /\ 0 = j
    BY <1>5, PlacesAre
  <2> QED
    BY <2>1
<1>8. \A q \in 0 .. 2 : l[q] = List(h[q])
  BY DEF Queued
<1>9. ASSUME NEW q \in 0 .. 2 PROVE l[q] \in RecordLists /\ Linked(heap.next, h[q], l[q])
  <2>1. CASE h[q] = Nil
    BY <1>8, <2>1, NilIsEmpty, EmptyList DEF List
  <2>2. CASE h[q] # Nil
    <3>1. q \in 0 .. 1
      BY <1>4, <2>2
    <3>2. h[q] \in HeadsAt(QueueOf(w, q))
      BY <1>6, <2>2, <3>1
    <3> QED
      BY <1>5, <1>6, <1>8, <3>1, <3>2, HeadIs
  <2> QED
    BY <2>1, <2>2
<1>10. \A q \in 0 .. 2 : (l[q] = <<>>) <=> (h[q] = Nil)
  BY <1>9, LinkedHead
<1>11. l[2] = <<>>
  BY <1>4, <1>10
<1>12. \A q \in 0 .. 2 : Sorted(l[q])
  <2>1. Sorted(l[2])
    BY <1>11, SortedOne
  <2>2. \A k \in 0 .. 1 : Sorted(l[k])
    BY <1>8 DEF OrderInv, MergerInv, QueueInv
  <2>3. \A q \in 0 .. 2 : q = 2 \/ q \in 0 .. 1
    OBVIOUS
  <2> QED
    BY <2>1, <2>2, <2>3
<1>13. Elements(l[0]) \cap Elements(l[1]) = {}
  <2>1. CASE h[0] = Nil \/ h[1] = Nil
    BY <1>10, <2>1, EmptyList
  <2>2. CASE h[0] # Nil /\ h[1] # Nil
    <3>1. h[0] \in HeadsAt(QueueOf(w, 0)) /\ h[1] \in HeadsAt(QueueOf(w, 1))
      BY <1>6, <2>2
    <3>2. QueueOf(w, 0) \in Places(1) /\ QueueOf(w, 1) \in Places(1)
      BY <1>6
    <3>3. Of(h[0]) \cap Of(h[1]) = {}
      BY <1>5, <1>7, <3>1, <3>2, HeadIs
    <3> QED
      BY <1>8, <3>3 DEF Of
  <2> QED
    BY <2>1, <2>2
<1>15. Merging(l)
  <2>1. l \in [0 .. 2 -> RecordLists]
    BY <1>9 DEF Queued
  <2> HIDE DEF l
  <2> QED
    BY <1>11, <1>12, <1>13, <2>1, MergingStarts
<1>16. \A q \in 0 .. 2 : Elements(l[q]) = Of(h[q])
  BY <1>8 DEF Of
<1>17. All(l) = RecordsOf(heap.next, QueueHeads(w))
  <2>1. All(l) = Of(h[0]) \cup Of(h[1])
    BY <1>11, <1>16, EmptyList DEF All
  <2>2. RecordsOf(heap.next, QueueHeads(w)) = UNION {Of(x) : x \in QueueHeads(w)}
    BY DEF RecordsOf, Of, List
  <2>3. QueueHeads(w) = {h[0], h[1]} \ {Nil}
    BY DEF QueueHeads
  <2>4. \A x \in {h[0], h[1]} : x \in QueueHeads(w) \/ Of(x) = {}
    BY <2>3, NilList
  <2> QED
    BY <2>1, <2>2, <2>3, <2>4
<1> HIDE DEF l
<1>18. /\ With(w).head = h /\ With(w).tail = merger[w].tail
       /\ With(w).next = heap.next /\ With(w).prev = heap.prev
  BY DEF With
<1> QED
  BY <1>3, <1>9, <1>10, <1>11, <1>15, <1>16, <1>17, <1>18 DEF l

\* The list that a merge worker receives from one of its inputs.
Arrives(w, k, b, c, h) ==
    /\ h \in Records /\ h # Nil /\ h \notin QueueHeads(w)
    /\ List(h) \in RecordLists /\ Linked(heap.next, h, List(h)) /\ List(h) # <<>> /\ Sorted(List(h))
    /\ \A q \in 0 .. 1 : Of(merger[w].head[q]) \cap Of(h) = {}
    /\ Ahead(Of(merger[w].head[k]), Of(h)) /\ Of(h) \subseteq Content(c)
    /\ Elements(Tail(chan[c])) = Elements(chan[c]) \ {h} /\ h \in Elements(chan[c])
    /\ Different(Tail(chan[c])) /\ Elements(chan[c]) \cap QueueHeads(w) = {}
    /\ Tail(chan[c]) \in Seq(Records)
    /\ PrevOk(h) \/ (Tail(chan[c]) = <<>> /\ b[c] = Final)

\* A list that a merge worker receives.
LEMMA ListArrives ==
    ASSUME Whole, NEW b, OrderInv(b), NEW w \in Mergers, NEW k \in 0 .. 1, Ready(MergeInput(w, k))
    PROVE  Arrives(w, k, b, MergeInput(w, k), Head(chan[MergeInput(w, k)]))
<1> DEFINE c == MergeInput(w, k)
           s == chan[c]
           h == s[1]
           n == Len(s)
<1>1. c \in Inner /\ c \in Channels /\ c[1] = "tree" /\ Source(w, k) = c
  BY Topology, ChannelKinds
<1>2. s \in Seq(Records) /\ s # <<>> /\ Different(s)
  BY <1>1 DEF Whole, PipeTypes, Ready
<1>3. /\ Tail(s) \in Seq(Records) /\ Head(s) = h /\ h \in Elements(s) /\ h \in Records
      /\ Elements(Tail(s)) = Elements(s) \ {h} /\ Different(Tail(s))
      /\ n \in Nat /\ 1 \in 1 .. n /\ (n = 1 => Tail(s) = <<>>)
  BY <1>2, TailOf
<1>4. 1 \in Exporters /\ View(1)
  BY SizesAssumption DEF Exporters, Whole
<1>5. /\ c \in Places(1) /\ HeadsAt(c) = Elements(s)
      /\ \A q \in 0 .. 1 : /\ QueueOf(w, q) \in Places(1) /\ QueueOf(w, q) # c
                           /\ HeadsAt(QueueOf(w, q)) = {merger[w].head[q]} \ {Nil}
  BY <1>1, <1>4, PlacesAre, HeadsAre
<1>6. /\ h # Nil /\ List(h) \in RecordLists /\ Linked(heap.next, h, List(h)) /\ List(h) # <<>>
  BY <1>3, <1>4, <1>5, HeadIs
<1>7. \A q \in 0 .. 1 : Of(merger[w].head[q]) \cap Of(h) = {}
  <2> TAKE q \in 0 .. 1
  <2>1. CASE merger[w].head[q] = Nil
    BY <2>1, NilList
  <2>2. CASE merger[w].head[q] # Nil
    <3>1. merger[w].head[q] \in HeadsAt(QueueOf(w, q))
      BY <1>5, <2>2
    <3> QED
      BY <1>3, <1>4, <1>5, <3>1, HeadIs
  <2> QED
    BY <2>1, <2>2
<1>8. Elements(s) \cap QueueHeads(w) = {}
  <2> SUFFICES ASSUME NEW x \in Elements(s), NEW q \in 0 .. 1, x = merger[w].head[q], x # Nil
               PROVE  FALSE
    BY DEF QueueHeads
  <2>1. x \in HeadsAt(QueueOf(w, q)) /\ x \in HeadsAt(c)
    BY <1>5
  <2> QED
    BY <1>4, <1>5, <2>1, HeadIs
<1>9. ChanInv(c, b) /\ HandInv(w, b)
  BY <1>1, WorkerKinds DEF OrderInv
<1>10. Of(h) \subseteq Content(c)
  BY <1>3 DEF Content
<1>11. Ahead(Of(merger[w].head[k]), Of(h))
  <2>1. Ahead(Of(Pending(w, k)), Content(c))
    BY <1>1, <1>9 DEF HandInv, Through, Passing
  <2>2. Pending(w, k) = merger[w].head[k]
    BY DEF Pending
  <2> QED
    BY <1>10, <2>1, <2>2 DEF Ahead, Before
<1>12. Sorted(List(h))
  <2>1. Fits(c, List(h))
    BY <1>3, <1>9 DEF ChanInv, AllFit
  <2> QED
    BY <1>1, <2>1 DEF Fits
<1>13. PrevOk(h) \/ (Tail(s) = <<>> /\ b[c] = Final)
  BY <1>3, <1>9 DEF ChanInv
<1>14. h \notin QueueHeads(w) /\ Head(s) = h
  BY <1>3, <1>8
<1> HIDE DEF h
<1>15. Arrives(w, k, b, c, h)
  BY <1>3, <1>6, <1>7, <1>8, <1>10, <1>11, <1>12, <1>13, <1>14 DEF Arrives
<1> QED
  BY <1>14, <1>15

--------------------------------------------------------------------------------
(* 14. A merge worker publishes                                              *)

\* The worker has the state t with the lists m in its queues; it has received T from X.
Reads(w, X, T) ==
    \/ X = {} /\ T = {} /\ chan' = chan
    \/ \E k \in 0 .. 1 : /\ Ready(MergeInput(w, k)) /\ X = {MergeInput(w, k)}
                         /\ T = {Head(chan[MergeInput(w, k)])} /\ chan' = Received(MergeInput(w, k))
Publishing(w, t, m, X, T) ==
    /\ hand[w] = Nil /\ Reads(w, X, T)
    /\ t \in MergeState /\ Merging(m) /\ \A q \in 0 .. 2 : Linked(t.next, t.head[q], m[q])
    /\ All(m) = RecordsOf(heap.next, QueueHeads(w) \cup T)
    /\ \A x \in Records \ All(m) : t.next[x] = heap.next[x] /\ t.prev[x] = heap.prev[x]
    /\ heap' = [next |-> t.next, prev |-> t.prev] /\ hand' = [hand EXCEPT ![w] = t.head[2]]
    /\ merger' \in [Mergers -> MergerTypes] /\ \A v \in Mergers : v # w => merger'[v] = merger[v]
    /\ merger'[w].head = [t.head EXCEPT ![2] = Nil]
    /\ UNCHANGED <<order, produced, closed, splice, exported>>

\* What a worker takes in hand and in its queues, and the places it takes it from.
Around(w, X) == X \cup {Hand(w), QueueOf(w, 0), QueueOf(w, 1)}

\* What reading one of its inputs, or none, leaves in the channels.
LEMMA ReadsAre ==
    ASSUME Whole, NEW b, OrderInv(b), NEW w \in Mergers, NEW X, NEW T, Reads(w, X, T)
    PROVE  /\ X \in SUBSET {MergeInput(w, k) : k \in 0 .. 1} /\ X \in SUBSET Inner
           /\ chan' \in [Channels -> Seq(Records)]
           /\ \A c \in X : /\ T \subseteq Elements(chan[c]) /\ Elements(chan[c]) \cap QueueHeads(w) = {}
                           /\ Elements(chan'[c]) = Elements(chan[c]) \ T /\ Different(chan'[c])
                           /\ Ready(c) /\ chan'[c] = Tail(chan[c])
           /\ \A h \in T : \E c \in X : h \in Elements(chan[c])
           /\ \A c \in Channels \ X : chan'[c] = chan[c]
<1>0. chan \in [Channels -> Seq(Records)]
  BY DEF Whole, PipeTypes
<1>1. CASE X = {} /\ T = {} /\ chan' = chan
  BY <1>0, <1>1
<1>2. ASSUME NEW k \in 0 .. 1, Ready(MergeInput(w, k)), X = {MergeInput(w, k)},
             T = {Head(chan[MergeInput(w, k)])}, chan' = Received(MergeInput(w, k))
      PROVE  /\ X \in SUBSET {MergeInput(w, j) : j \in 0 .. 1} /\ X \in SUBSET Inner
             /\ chan' \in [Channels -> Seq(Records)]
             /\ \A c \in X : /\ T \subseteq Elements(chan[c]) /\ Elements(chan[c]) \cap QueueHeads(w) = {}
                             /\ Elements(chan'[c]) = Elements(chan[c]) \ T /\ Different(chan'[c])
                             /\ Ready(c) /\ chan'[c] = Tail(chan[c])
             /\ \A h \in T : \E c \in X : h \in Elements(chan[c])
             /\ \A c \in Channels \ X : chan'[c] = chan[c]
  <2> DEFINE c == MergeInput(w, k)
             h == Head(chan[c])
  <2>1. Arrives(w, k, b, c, h)
    BY <1>2, ListArrives
  <2>2. c \in Inner /\ c \in Channels
    BY Topology, ChannelKinds
  <2>3. chan' = [chan EXCEPT ![c] = Tail(@)]
    BY <1>2 DEF Received
  <2>4. Tail(chan[c]) \in Seq(Records)
    BY <2>1 DEF Arrives
  <2>5. chan' \in [Channels -> Seq(Records)]
    BY <1>0, <2>2, <2>3, <2>4
  <2>6. chan'[c] = Tail(chan[c]) /\ \A d \in Channels \ X : chan'[d] = chan[d]
    BY <1>0, <1>2, <2>2, <2>3
  <2>7. X = {c} /\ T = {h} /\ Ready(c)
    BY <1>2
  <2>8. X \in SUBSET {MergeInput(w, j) : j \in 0 .. 1}
    BY <1>2
  <2> HIDE DEF c, h
  <2> QED
    BY <2>1, <2>2, <2>5, <2>6, <2>7, <2>8 DEF Arrives
<1> QED
  BY <1>1, <1>2 DEF Reads

\* No list is lost in this, and the others keep theirs.
LEMMA PublishKeepsLists ==
    ASSUME Whole, NEW b, OrderInv(b), NEW w \in Mergers, NEW t, NEW m, NEW X, NEW T, Publishing(w, t, m, X, T)
    PROVE  /\ Whole' /\ Elsewhere(Around(w, X), QueueHeads(w) \cup T)
           /\ Around(w, X) \in SUBSET Always /\ Around(w, X) \subseteq Near(w)
           /\ Works(w, Around(w, X), QueueHeads(w) \cup T)
<1> DEFINE C == Around(w, X)
           D == QueueHeads(w) \cup T
           N == [p \in C |-> IF p \in X THEN {} ELSE HeadsAt(p)']
<1>1. /\ X \in SUBSET {MergeInput(w, k) : k \in 0 .. 1} /\ X \in SUBSET Inner
      /\ chan' \in [Channels -> Seq(Records)]
      /\ \A c \in X : /\ T \subseteq Elements(chan[c]) /\ Elements(chan[c]) \cap QueueHeads(w) = {}
                      /\ Elements(chan'[c]) = Elements(chan[c]) \ T /\ Different(chan'[c])
                      /\ Ready(c) /\ chan'[c] = Tail(chan[c])
      /\ \A h \in T : \E c \in X : h \in Elements(chan[c])
      /\ \A c \in Channels \ X : chan'[c] = chan[c]
  BY ReadsAre DEF Publishing
<1>2. /\ t.head \in [0 .. 2 -> Pointer] /\ t.next \in [Records -> Pointer] /\ t.prev \in [Records -> Pointer]
      /\ \A q \in 0 .. 2 : t.head[q] \in Pointer
  BY DEF Publishing, MergeState
<1>3. w \in Workers /\ hand \in [Workers -> Pointer] /\ 1 \in Exporters
  BY WorkerKinds, SizesAssumption DEF Whole, PipeTypes, Exporters
<1>4. /\ hand' \in [Workers -> Pointer] /\ hand'[w] = t.head[2]
      /\ \A f \in Workers : f # w => hand'[f] = hand[f]
  BY <1>2, <1>3 DEF Publishing
<1>5. PipeTypes'
  <2>1. heap' \in [next : [Records -> Pointer], prev : [Records -> Pointer]]
    BY <1>2 DEF Publishing
  <2> QED
    BY <1>1, <1>4, <2>1 DEF Publishing, Whole, PipeTypes
<1>6. \A k \in 0 .. 1 : merger'[w].head[k] = t.head[k]
  BY <1>2 DEF Publishing
<1>7. /\ C \in SUBSET Always /\ C \subseteq Near(w)
  BY <1>1, <1>3, PlacesAre, Topology DEF Around, Near
<1>8. /\ Hand(w) \notin X /\ QueueOf(w, 0) \notin X /\ QueueOf(w, 1) \notin X
      /\ Hand(w) # QueueOf(w, 0) /\ Hand(w) # QueueOf(w, 1) /\ QueueOf(w, 0) # QueueOf(w, 1)
  <2>1. Inner \subseteq Channels
    BY ChannelKinds
  <2>2. \A v, j : QueueOf(w, 0) = QueueOf(v, j) => w = v /\ 0 = j
    BY <1>3, PlacesAre
  <2> QED
    BY <1>1, <1>3, <2>1, <2>2, PlacesAre
<1>9. /\ HeadsAt(Hand(w)) = {} /\ N[Hand(w)] = {t.head[2]} \ {Nil}
      /\ \A k \in 0 .. 1 : /\ HeadsAt(QueueOf(w, k)) = {merger[w].head[k]} \ {Nil}
                           /\ N[QueueOf(w, k)] = {t.head[k]} \ {Nil}
  <2>1. \A p : p = Hand(w) => HeadsAt(p) = {hand[w]} \ {Nil} /\ HeadsAt(p)' = {hand'[w]} \ {Nil}
    BY <1>3, HeadsAre
  <2>2. \A k, p : p = QueueOf(w, k) => /\ HeadsAt(p) = {merger[w].head[k]} \ {Nil}
                                      /\ HeadsAt(p)' = {merger'[w].head[k]} \ {Nil}
    BY <1>3, HeadsAre
  <2>3. hand[w] = Nil
    BY DEF Publishing
  <2>4. HeadsAt(Hand(w)) = {} /\ N[Hand(w)] = {t.head[2]} \ {Nil}
    BY <1>4, <1>8, <2>1, <2>3 DEF Around
  <2>5. ASSUME NEW k \in 0 .. 1 PROVE N[QueueOf(w, k)] = {t.head[k]} \ {Nil}
    <3>1. QueueOf(w, k) \in C /\ QueueOf(w, k) \notin X
      BY <1>8 DEF Around
    <3> QED
      BY <1>6, <2>2, <3>1
  <2> QED
    BY <2>2, <2>4, <2>5
<1>10. \A p \in X : N[p] = {} /\ HeadsAt(p) = Elements(chan[p]) /\ HeadsAt(p)' = Elements(chan'[p])
  BY <1>1, <1>3, HeadsAre, ChannelKinds DEF Around
<1>11. \A q \in 0 .. 2 : m[q] \in RecordLists /\ (t.head[q] # Nil => t.head[q] \in Elements(m[q]) /\ t.head[q] \in Records)
  BY LinkedHead DEF Publishing, Merging
<1>12. /\ Elements(m[0]) \cap Elements(m[1]) = {} /\ Elements(m[2]) \cap Elements(m[0]) = {}
       /\ Elements(m[2]) \cap Elements(m[1]) = {}
  BY DEF Publishing, Merging
<1>13. Heads(C, N) = {t.head[q] : q \in 0 .. 2} \ {Nil}
  <2>1. Heads(C, N) = N[Hand(w)] \cup N[QueueOf(w, 0)] \cup N[QueueOf(w, 1)]
    BY <1>10 DEF Heads, Around
  <2>2. {t.head[q] : q \in 0 .. 2} = {t.head[0], t.head[1], t.head[2]}
    OBVIOUS
  <2> QED
    BY <1>9, <2>1, <2>2
<1>14. Apart(C, N)
  <2>1. t.head[0] = Nil \/ t.head[0] # t.head[1]
    BY <1>11, <1>12
  <2>2. t.head[2] = Nil \/ (t.head[2] # t.head[1] /\ t.head[2] # t.head[0])
    BY <1>11, <1>12
  <2>3. \A p \in C : p \in X \/ p = Hand(w) \/ p = QueueOf(w, 0) \/ p = QueueOf(w, 1)
    BY DEF Around
  <2> HIDE DEF N, C
  <2> QED
    BY <1>9, <1>10, <2>1, <2>2, <2>3 DEF Apart
<1>15. \A h \in D : \E p \in C : h \in HeadsAt(p)
  <2>1. \A h \in T : \E p \in C : h \in HeadsAt(p)
    BY <1>1, <1>10 DEF Around
  <2>2. \A h \in QueueHeads(w) : \E p \in C : h \in HeadsAt(p)
    BY <1>9 DEF Around, QueueHeads
  <2> QED
    BY <2>1, <2>2
<1>16. \A p \in C : HeadsAt(p)' = (HeadsAt(p) \ D) \cup N[p]
  <2> SUFFICES ASSUME NEW p \in C PROVE HeadsAt(p)' = (HeadsAt(p) \ D) \cup N[p]
    OBVIOUS
  <2>1. CASE p \in X
    BY <1>1, <1>10, <2>1
  <2>2. CASE p \notin X
    <3>1. N[p] = HeadsAt(p)'
      BY <2>2
    <3>2. \A k \in 0 .. 1 : HeadsAt(QueueOf(w, k)) \subseteq D
      BY <1>9 DEF QueueHeads
    <3>3. HeadsAt(p) \subseteq D
      BY <1>9, <2>2, <3>2 DEF Around
    <3> QED
      BY <3>1, <3>3
  <2> QED
    BY <2>1, <2>2
<1>17. \A q \in 0 .. 2 : Chain(t.next, t.head[q]) = m[q]
  BY <1>11, ChainIs DEF Publishing
<1>18. RecordsOf(t.next, Heads(C, N)) = All(m)
  <2>1. RecordsOf(t.next, {t.head[q] : q \in 0 .. 2} \ {Nil})
          = UNION {Elements(Chain(t.next, h)) : h \in {t.head[q] : q \in 0 .. 2} \ {Nil}}
    BY DEF RecordsOf
  <2>2. \A q \in 0 .. 2 : t.head[q] = Nil => Elements(m[q]) = {}
    BY <1>11, LinkedHead, EmptyList DEF Publishing
  <2>3. All(m) = UNION {Elements(m[q]) : q \in 0 .. 2}
    BY DEF All
  <2> QED
    BY <1>13, <1>17, <2>1, <2>2, <2>3
<1>19. Relinks(heap.next, heap'.next, D, Heads(C, N), {})
  <2>1. heap'.next = t.next /\ heap'.prev = t.prev
    BY DEF Publishing
  <2>2. Separate(t.next, Heads(C, N))
    <3>1. \A q \in 0 .. 2 : Linked(t.next, t.head[q], m[q])
      BY DEF Publishing
    <3>2. \A p, q \in 0 .. 2 : p # q => Elements(m[p]) \cap Elements(m[q]) = {}
      BY <1>12
    <3> QED
      BY <1>11, <1>13, <1>17, <3>1, <3>2 DEF Separate
  <2>3. All(m) = RecordsOf(heap.next, D)
    BY DEF Publishing
  <2>4. \A x \in Records \ All(m) : t.next[x] = heap.next[x]
    BY DEF Publishing
  <2> QED
    BY <1>18, <2>1, <2>2, <2>3, <2>4 DEF Relinks
<1>20. /\ RecordsOf(heap'.next, Heads(C, N)) = RecordsOf(heap.next, D)
       /\ \A x \in Records \ RecordsOf(heap.next, D) : heap'.prev[x] = heap.prev[x]
  BY <1>18 DEF Publishing
<1>21. /\ \A f \in Workers : Hand(f) \in C \/ hand'[f] = hand[f]
       /\ \A v \in Mergers, k \in 0 .. 1 : QueueOf(v, k) \in C \/ merger'[v].head[k] = merger[v].head[k]
  <2>1. \A k \in 0 .. 1 : QueueOf(w, k) \in C
    BY DEF Around
  <2> QED
    BY <1>4, <2>1 DEF Around, Publishing
<1>22. /\ splice' = splice /\ exported' = exported /\ Produced' = Produced
  BY DEF Publishing, Produced
<1>23. \A c \in Channels \ C : chan'[c] = chan[c]
  BY <1>1 DEF Around
<1>24. \A c \in C : c \in Channels => Different(chan'[c])
  BY <1>1, <1>3, PlacesAre DEF Around
<1>25. C \in SUBSET Always
  BY <1>7
<1> HIDE DEF C, D, N
<1>26. Whole' /\ Elsewhere(C, D)
  <2> DEFINE F == {}
  <2>1. F \in SUBSET Records /\ F \cap Produced = {} /\ Produced' = Produced \cup F
        /\ Relinks(heap.next, heap'.next, D, Heads(C, N), F)
        /\ RecordsOf(heap'.next, Heads(C, N)) = RecordsOf(heap.next, D) \cup F
        /\ \A x \in Records \ (RecordsOf(heap.next, D) \cup F) : heap'.prev[x] = heap.prev[x]
    BY <1>19, <1>20, <1>22
  <2> HIDE DEF F
  <2> QED
    BY <1>5, <1>14, <1>15, <1>16, <1>21, <1>22, <1>23, <1>24, <1>25, <2>1, InnerStep
<1>27. Works(w, C, D)
  <2>1. ASSUME NEW c \in Inner
        PROVE  \/ c \notin C /\ chan'[c] = chan[c]
               \/ (Elements(chan[c]) \cap D) = {} /\ chan'[c] = chan[c]
               \/ Ready(c) /\ chan'[c] = Tail(chan[c]) /\ (Elements(Tail(chan[c])) \cap D) = {}
    <3>1. CASE c \in X
      BY <1>1, <3>1 DEF D
    <3>2. CASE c \notin X
      BY <1>1, <1>3, <3>2, PlacesAre, ChannelKinds DEF C, Around
    <3> QED
      BY <3>1, <3>2
  <2>2. \A e \in Exporters : chan'[Out(e)] = chan[Out(e)]
    BY <1>1, ChannelKinds
  <2> QED
    BY <1>4, <2>1, <2>2 DEF Works, Publishing
<1> QED
  BY <1>7, <1>26, <1>27 DEF C, D

\* What the worker then has.
LEMMA PublishedLists ==
    ASSUME Whole, NEW b, OrderInv(b), NEW w \in Mergers, NEW t, NEW m, NEW X, NEW T, Publishing(w, t, m, X, T)
    PROVE  /\ hand'[w] = t.head[2] /\ List(hand[w])' = m[2] /\ Of(hand[w])' = Elements(m[2])
           /\ heap'.prev = t.prev /\ ((hand'[w] = Nil) <=> (m[2] = <<>>))
           /\ \A k \in 0 .. 1 : /\ merger'[w].head[k] = t.head[k] /\ List(merger[w].head[k])' = m[k]
                                /\ Of(merger[w].head[k])' = Elements(m[k])
                                /\ (merger'[w].head[k] = Nil) <=> (m[k] = <<>>)
           /\ \A q \in 0 .. 2 : m[q] \in RecordLists /\ Elements(m[q]) \subseteq Records /\ Sorted(m[q])
           /\ \A k \in 0 .. 1 : Ahead(Elements(m[2]), Elements(m[k]))
<1>1. /\ t.head \in [0 .. 2 -> Pointer] /\ heap'.next = t.next /\ heap'.prev = t.prev
      /\ \A q \in 0 .. 2 : Linked(t.next, t.head[q], m[q]) /\ m[q] \in RecordLists /\ Sorted(m[q])
      /\ \A k \in 0 .. 1 : Ahead(Elements(m[2]), Elements(m[k]))
  BY DEF Publishing, MergeState, Merging
<1>2. hand'[w] = t.head[2]
  BY WorkerKinds DEF Publishing, Whole, PipeTypes
<1>3. \A k \in 0 .. 1 : merger'[w].head[k] = t.head[k]
  BY <1>1 DEF Publishing
<1>4. \A q \in 0 .. 2 : Chain(t.next, t.head[q]) = m[q] /\ ((t.head[q] = Nil) <=> (m[q] = <<>>))
                        /\ Elements(m[q]) \subseteq Records
  <2> TAKE q \in 0 .. 2
  <2> DEFINE h == t.head[q]
             l == m[q]
  <2>1. Linked(t.next, h, l) /\ l \in RecordLists
    BY <1>1
  <2> HIDE DEF h, l
  <2>2. Chain(t.next, h) = l /\ ((h = Nil) <=> (l = <<>>)) /\ Elements(l) \subseteq Records
    BY <2>1, ChainIs, LinkedHead, ListTypes
  <2> QED
    BY <2>2 DEF h, l
<1> QED
  BY <1>1, <1>2, <1>3, <1>4 DEF List, Of

\* Records that pass, when part of them are taken on.
LEMMA PassOn ==
    ASSUME NEW o \in Nat, NEW Q \in SUBSET Nat, NEW C \in SUBSET Nat, NEW bc \in Nat, Passing(o, {}, Q, C, bc),
           NEW H \in SUBSET Nat, NEW R \in SUBSET (Q \cup C), NEW Y \in SUBSET C, Before({o}, H), Upto(C, bc),
           Ahead(H, R), Ahead(R, Y),
           \/ H = {} \/ R # {} \/ (C = {} /\ Upto(H, bc)) \/ (Upto(H, bc) /\ Ahead(H, Y))
    PROVE  Passing(o, H, R, Y, bc)
<1>1. o <= bc /\ Before({o}, Q \cup C) /\ Upto(Q, bc)
  BY DEF Passing
<1>2. Before({o}, H \cup R \cup Y) /\ Upto(R, bc)
  BY <1>1 DEF Ahead, Before, Upto
<1>3. Ahead(H, Y) /\ Upto(H, bc)
  <2>1. CASE R # {}
    <3>1. PICK z \in R : TRUE
      BY <2>1
    <3>2. z \in Nat /\ (Ordered => z <= bc /\ (\A x \in H : x < z) /\ \A y \in Y : z < y)
      BY <1>2, <3>1 DEF Ahead, Upto
    <3> QED
      BY <3>2 DEF Ahead, Upto
  <2> QED
    BY <2>1 DEF Ahead, Upto
<1>4. Ahead(H, R \cup Y)
  BY <1>3 DEF Ahead, Before
<1> QED
  BY <1>1, <1>2, <1>3, <1>4 DEF Passing, Upto

\* The order is kept if nothing overtakes.
Crossing(w, m, k, b) ==
    LET c == MergeInput(w, k)
    IN  /\ Elements(m[k]) \subseteq Of(merger[w].head[k]) \cup Content(c)
        /\ Ahead(Elements(m[k]), Content(c)')
        /\ \/ m[2] = <<>> \/ m[k] # <<>> \/ Over(c, b)
           \/ Upto(Elements(m[2]), b[c]) /\ Ahead(Elements(m[2]), Content(c)')
TailKnown(w, m, k, b) ==
    /\ Open(w, k)' /\ m[k] = <<>> => merger'[w].tail[k] = Nil
    /\ merger'[w].pc \notin {"forward", "close"} /\ m[k] # <<>>
       => merger'[w].tail[k] = End(m[k]) \/ Over(MergeInput(w, k), b)'

\* Publishing keeps the order, if what is published is below what stays.
LEMMA PublishKeepsOrder ==
    ASSUME Whole, NEW b, OrderInv(b), order # "none", NEW w \in Mergers, NEW t, NEW m, NEW X, NEW T,
           Publishing(w, t, m, X, T),
           m[2] # <<>> => t.prev[t.head[2]] = End(m[2]) \/ Quiet(w, b)',
           \A k \in 0 .. 1 : Crossing(w, m, k, b) /\ TailKnown(w, m, k, b), PcInv(w, b)'
    PROVE  Whole' /\ OrderInv(b)'
<1> DEFINE C == Around(w, X)
           D == QueueHeads(w) \cup T
           o == Output(w)
           H == Elements(m[2])
<1>1. /\ Whole' /\ Elsewhere(C, D) /\ C \in SUBSET Always /\ C \subseteq Near(w) /\ Works(w, C, D)
  BY PublishKeepsLists
<1>2. /\ hand'[w] = t.head[2] /\ List(hand[w])' = m[2] /\ Of(hand[w])' = Elements(m[2])
      /\ heap'.prev = t.prev /\ ((hand'[w] = Nil) <=> (m[2] = <<>>))
      /\ \A k \in 0 .. 1 : /\ merger'[w].head[k] = t.head[k] /\ List(merger[w].head[k])' = m[k]
                           /\ Of(merger[w].head[k])' = Elements(m[k])
                           /\ (merger'[w].head[k] = Nil) <=> (m[k] = <<>>)
      /\ \A q \in 0 .. 2 : m[q] \in RecordLists /\ Elements(m[q]) \subseteq Records /\ Sorted(m[q])
      /\ \A k \in 0 .. 1 : Ahead(Elements(m[2]), Elements(m[k]))
  BY PublishedLists
<1>3. /\ w \in Workers /\ w \notin Sorters /\ o \in Inner /\ b \in Bounds
      /\ \A k \in 0 .. 1 : Source(w, k) = MergeInput(w, k) /\ MergeInput(w, k) \in Inner /\ MergeInput(w, k) \in Channels
  BY WorkerKinds, Topology, ChannelKinds DEF OrderInv, Bounds
<1>4. HandInv(w, b) /\ hand[w] = Nil /\ Of(hand[w]) = {}
  BY <1>3, NilList DEF OrderInv, Publishing
<1>5. \A k \in 0 .. 1 : /\ Passing(b[o], {}, Of(merger[w].head[k]), Content(MergeInput(w, k)), b[MergeInput(w, k)])
                       /\ Upto(Content(MergeInput(w, k)), b[MergeInput(w, k)])
  <2> TAKE k \in 0 .. 1
  <2>1. Through(w, k, b) /\ ChanInv(MergeInput(w, k), b)
    BY <1>3, <1>4 DEF HandInv, OrderInv
  <2> QED
    BY <1>3, <1>4, <2>1 DEF Through, Pending, ChanInv
<1>6. ContentTypes
  BY ContentIs
<1>7. H \subseteq UNION {Of(merger[w].head[k]) \cup Content(MergeInput(w, k)) : k \in 0 .. 1}
  <2> SUFFICES ASSUME NEW x \in H PROVE \E k \in 0 .. 1 : x \in Of(merger[w].head[k]) \cup Content(MergeInput(w, k))
    OBVIOUS
  <2>1. x \in RecordsOf(heap.next, D)
    BY DEF Publishing, All
  <2>2. PICK h \in D : x \in Of(h)
    BY <2>1 DEF RecordsOf, Of, List
  <2>3. CASE h \in QueueHeads(w)
    BY <2>2, <2>3 DEF QueueHeads
  <2>4. CASE h \in T
    <3>1. PICK k \in 0 .. 1 : Ready(MergeInput(w, k)) /\ h = Head(chan[MergeInput(w, k)])
      BY <2>4 DEF Publishing, Reads
    <3>2. Of(h) \subseteq Content(MergeInput(w, k))
      BY <3>1, ListArrives DEF Arrives
    <3> QED
      BY <2>2, <3>2
  <2> QED
    BY <2>3, <2>4
<1>8. Before({b[o]}, H)
  <2>1. \A k \in 0 .. 1 : Before({b[o]}, Of(merger[w].head[k]) \cup Content(MergeInput(w, k)))
    BY <1>5 DEF Passing, Ahead, Before
  <2> QED
    BY <1>7, <2>1 DEF Ahead, Before
<1>9. \A c \in Inner : Content(c)' \subseteq Content(c)
  BY <1>1, <1>3, WorkerChannels
<1>10. ASSUME NEW k \in 0 .. 1 PROVE Through(w, k, b)'
  <2> DEFINE c == MergeInput(w, k)
             Q == Of(merger[w].head[k])
             R == Elements(m[k])
             K == Content(c)
             Y == Content(c)'
             bc == b[c]
  <2>1. c \in Inner /\ c \in Channels /\ Q \subseteq Records /\ K \subseteq Records /\ Y \subseteq K
    BY <1>3, <1>6, <1>9 DEF ContentTypes
  <2>2. Records \subseteq Nat /\ bc \in Nat /\ b[o] \in Nat /\ Upto(Records, Final)
    BY <1>3, <2>1, SizesAssumption DEF Records, Bounds, Final, Upto
  <2>3. R \subseteq Q \cup K /\ Ahead(R, Y) /\ Ahead(H, R) /\ H \subseteq Records
    BY <1>2 DEF Crossing
  <2>4. \/ H = {} \/ R # {} \/ (K = {} /\ bc = Final) \/ (Upto(H, bc) /\ Ahead(H, Y))
    <3>1. \/ m[2] = <<>> \/ m[k] # <<>> \/ Over(c, b) \/ (Upto(H, bc) /\ Ahead(H, Y))
      BY DEF Crossing
    <3>2. Over(c, b) => K = {} /\ bc = Final
      BY DEF Over, Content
    <3>3. m[2] \in RecordLists /\ m[k] \in RecordLists
      BY <1>2
    <3> QED
      BY <3>1, <3>2, <3>3, ListTypes
  <2>5. Passing(b[o], {}, Q, K, bc) /\ Upto(K, bc)
    BY <1>5
  <2>6. Pending(w, k)' = merger'[w].head[k] /\ Of(Pending(w, k))' = Elements(m[k])
    BY <1>2 DEF Pending
  <2>7. Source(w, k) = c
    BY <1>3
  <2>8. Through(w, k, b)' <=> Passing(b[o], H, R, Y, bc)
    BY <1>2, <2>6, <2>7 DEF Through
  <2> HIDE DEF H, Q, R, K, Y, bc, c, o
  <2>9. \/ H = {} \/ R # {} \/ (K = {} /\ Upto(H, bc)) \/ (Upto(H, bc) /\ Ahead(H, Y))
    BY <2>2, <2>3, <2>4 DEF Upto
  <2>10. Passing(b[o], H, R, Y, bc)
    BY <1>8, <2>1, <2>2, <2>3, <2>5, <2>9, PassOn
  <2> QED
    BY <2>8, <2>10
<1>11. HandInv(w, b)'
  <2>1. hand'[w] # Nil => PrevOk(hand[w])' \/ Quiet(w, b)'
    BY <1>2 DEF PrevOk
  <2> QED
    BY <1>2, <1>10, <2>1 DEF HandInv
<1>12. MergerInv(w, b)'
  <2>1. ASSUME NEW k \in 0 .. 1 PROVE QueueInv(w, k, b)'
    <3>1. /\ List(merger[w].head[k])' = m[k] /\ ((merger'[w].head[k] = Nil) <=> (m[k] = <<>>)) /\ Sorted(m[k])
      BY <1>2
    <3>2. TailKnown(w, m, k, b)
      OBVIOUS
    <3> QED
      BY <3>1, <3>2 DEF QueueInv, TailKnown
  <2> QED
    BY <2>1 DEF MergerInv
<1> HIDE DEF C, D
<1>13. OrderInv(b)'
  BY <1>1, <1>3, <1>11, <1>12, WorkerStep
<1> QED
  BY <1>1, <1>13

--------------------------------------------------------------------------------
(* 15. The steps of a merge worker                                           *)

\* Publish, by what it does to the worker.
Goes(w, t, pc) ==
    /\ merger'[w].pc = pc /\ merger'[w].stopped = merger[w].stopped /\ merger'[w].ok = merger[w].ok
    /\ merger'[w].head[2] = Nil /\ merger'[w].tail[2] = Nil
    /\ \A k \in 0 .. 1 : merger'[w].tail[k] = t.tail[k] /\ merger'[w].head[k] = t.head[k]

\* What Publish does to the lists and to the worker.
LEMMA PublishIs ==
    ASSUME Whole, NEW w \in Mergers, NEW t \in MergeState, NEW m, NEW X, NEW T, NEW pc \in Stages,
           Publish(w, t, pc), hand[w] = Nil, Reads(w, X, T), Merging(m),
           \A q \in 0 .. 2 : Linked(t.next, t.head[q], m[q]),
           All(m) = RecordsOf(heap.next, QueueHeads(w) \cup T),
           \A x \in Records \ All(m) : t.next[x] = heap.next[x] /\ t.prev[x] = heap.prev[x],
           UNCHANGED <<order, produced, closed, splice, exported>>, t.head[2] = Nil => t.tail[2] = Nil
    PROVE  Publishing(w, t, m, X, T) /\ Goes(w, t, pc)
<1>1. /\ t.head \in [0 .. 2 -> Pointer] /\ t.tail \in [0 .. 2 -> Pointer] /\ Nil \in Pointer
  BY DEF MergeState, Pointer
<1> DEFINE hd == [t.head EXCEPT ![2] = Nil]
           tl == IF t.head[2] = Nil THEN t.tail ELSE [t.tail EXCEPT ![2] = Nil]
           M == merger[w]
           N == [pc |-> pc, head |-> hd, tail |-> tl, stopped |-> M.stopped, ok |-> M.ok]
<1>2. hd \in [0 .. 2 -> Pointer] /\ hd[2] = Nil /\ \A k \in 0 .. 1 : hd[k] = t.head[k]
  BY <1>1
<1>3. tl \in [0 .. 2 -> Pointer] /\ tl[2] = Nil /\ \A k \in 0 .. 1 : tl[k] = t.tail[k]
  <2>1. [t.tail EXCEPT ![2] = Nil] \in [0 .. 2 -> Pointer]
    BY <1>1
  <2> QED
    BY <1>1, <2>1
<1>4. M \in MergerTypes /\ merger \in [Mergers -> MergerTypes]
  BY DEF Whole, PipeTypes
<1>5. M = [pc |-> M.pc, head |-> M.head, tail |-> M.tail, stopped |-> M.stopped, ok |-> M.ok]
  BY <1>4 DEF MergerTypes
<1>6. merger' = [merger EXCEPT ![w] = N]
  <2>1. merger' = [merger EXCEPT ![w].pc = pc, ![w].head = hd, ![w].tail = tl]
    BY DEF Publish
  <2> HIDE DEF hd, tl
  <2>2. merger' = [merger EXCEPT ![w] = [[[merger[w] EXCEPT !.pc = pc] EXCEPT !.head = hd] EXCEPT !.tail = tl]]
    BY <1>4, <2>1
  <2>3. [[[M EXCEPT !.pc = pc] EXCEPT !.head = hd] EXCEPT !.tail = tl] = N
    <3> DEFINE p == M.pc
               a == M.head
               z == M.tail
               st == M.stopped
               f == M.ok
    <3>1. M = [pc |-> p, head |-> a, tail |-> z, stopped |-> st, ok |-> f]
      BY <1>5
    <3> HIDE DEF p, a, z, st, f, M
    <3>2. [M EXCEPT !.pc = pc] = [pc |-> pc, head |-> a, tail |-> z, stopped |-> st, ok |-> f]
      BY <3>1
    <3>3. [[[M EXCEPT !.pc = pc] EXCEPT !.head = hd] EXCEPT !.tail = tl]
            = [[[pc |-> pc, head |-> a, tail |-> z, stopped |-> st, ok |-> f] EXCEPT !.head = hd] EXCEPT !.tail = tl]
      BY <3>2
    <3>4. [[pc |-> pc, head |-> a, tail |-> z, stopped |-> st, ok |-> f] EXCEPT !.head = hd]
            = [pc |-> pc, head |-> hd, tail |-> z, stopped |-> st, ok |-> f]
      OBVIOUS
    <3>5. [[pc |-> pc, head |-> hd, tail |-> z, stopped |-> st, ok |-> f] EXCEPT !.tail = tl]
            = [pc |-> pc, head |-> hd, tail |-> tl, stopped |-> st, ok |-> f]
      OBVIOUS
    <3>6. M.stopped = st /\ M.ok = f
      BY <3>1
    <3> QED
      BY <3>3, <3>4, <3>5, <3>6
  <2> QED
    BY <2>2, <2>3
<1>7. N \in MergerTypes
  BY <1>2, <1>3, <1>4 DEF MergerTypes
<1> HIDE DEF hd, tl
<1>8. merger'[w] = N
  BY <1>4, <1>6
<1> HIDE DEF N
<1>9. merger' \in [Mergers -> MergerTypes] /\ \A v \in Mergers : v # w => merger'[v] = merger[v]
  BY <1>4, <1>6, <1>7
<1>10. merger'[w].head = [t.head EXCEPT ![2] = Nil]
  BY <1>8 DEF N, hd
<1>11. Goes(w, t, pc)
  BY <1>2, <1>3, <1>8 DEF Goes, N
<1>12. heap' = [next |-> t.next, prev |-> t.prev] /\ hand' = [hand EXCEPT ![w] = t.head[2]]
  BY DEF Publish
<1> QED
  BY <1>9, <1>10, <1>11, <1>12 DEF Publishing

\* A list that has come is linked to the end of its queue.
LEMMA TakesIn ==
    ASSUME Whole, NEW b, OrderInv(b), order # "none", NEW w \in Mergers, NEW k \in 0 .. 1, NEW pc \in Stages,
           Ready(MergeInput(w, k)), Open(w, k), hand[w] = Nil, chan' = Received(MergeInput(w, k)),
           Publish(w, AppendTo(With(w), k, Head(chan[MergeInput(w, k)])), pc),
           UNCHANGED <<order, produced, closed, splice, exported>>,
           \A j \in 0 .. 1 : Open(w, j)' => Open(w, j),
           Goes(w, AppendTo(With(w), k, Head(chan[MergeInput(w, k)])), pc)
           /\ merger'[w].head[k] # Nil /\ (\A j \in 0 .. 1 : j # k => merger'[w].head[j] = merger[w].head[j])
           => PcInv(w, b)'
    PROVE  Whole' /\ OrderInv(b)'
<1> DEFINE c == MergeInput(w, k)
           h == Head(chan[c])
           l == Queued(w)[k]
           r == List(h)
           s == With(w)
           t == AppendTo(s, k, h)
           m == [Queued(w) EXCEPT ![k] = l \o r]
<1>1. Arrives(w, k, b, c, h) /\ c \in Inner /\ c \in Channels
  BY ListArrives, Topology, ChannelKinds
<1>2. /\ s \in MergeState /\ s.head = merger[w].head /\ s.tail = merger[w].tail
      /\ s.next = heap.next /\ s.prev = heap.prev
      /\ Merging(Queued(w)) /\ Queued(w)[2] = <<>>
      /\ \A q \in 0 .. 2 : /\ Linked(heap.next, merger[w].head[q], Queued(w)[q])
                           /\ Queued(w)[q] \in RecordLists
                           /\ (Queued(w)[q] = <<>>) <=> (merger[w].head[q] = Nil)
                           /\ Elements(Queued(w)[q]) = Of(merger[w].head[q])
      /\ All(Queued(w)) = RecordsOf(heap.next, QueueHeads(w))
  BY QueuesAre
<1>3. MergerInv(w, b) /\ QueueInv(w, k, b) /\ PcInv(w, b)
  BY DEF OrderInv, MergerInv
<1>4. Queued(w)[k] = List(merger[w].head[k])
  BY DEF Queued
<1>5. s.tail[k] = IF l = <<>> THEN Nil ELSE End(l)
  <2>1. ~Over(c, b)
    BY DEF Over, Ready
  <2>2. merger[w].pc \notin {"forward", "close"}
    BY DEF Open
  <2> QED
    BY <1>2, <1>3, <1>4, <2>1, <2>2 DEF QueueInv
<1>6. /\ l \in RecordLists /\ r \in RecordLists /\ Linked(s.next, s.head[k], l) /\ Linked(s.next, h, r)
      /\ r # <<>> /\ Elements(l) \cap Elements(r) = {} /\ Sorted(l) /\ Sorted(r)
      /\ Ahead(Elements(l), Elements(r))
  BY <1>1, <1>2 DEF Arrives, Merging, Of
<1>7. Appended(s, t, k, h, l, r)
  <2>1. k \in 0 .. 2 /\ s \in MergeState
    BY <1>2
  <2> HIDE DEF l, r, h, s
  <2> QED
    BY <1>5, <1>6, <2>1, AppendLinks
<1>8. /\ t \in MergeState /\ l \o r \in RecordLists /\ Linked(t.next, t.head[k], l \o r)
      /\ Elements(l \o r) = Elements(l) \cup Elements(r) /\ End(l \o r) = End(r) /\ t.head[k] # Nil
      /\ t.prev = s.prev /\ t.tail = [s.tail EXCEPT ![k] = s.prev[h]]
      /\ \A p \in 0 .. 2 : p # k => t.head[p] = s.head[p]
      /\ \A x \in Records \ Elements(l) : t.next[x] = s.next[x]
  BY <1>7 DEF Appended
<1>9. Sorted(l \o r) /\ l \o r # <<>>
  <2>1. Sorted(l \o r)
    BY <1>6, SortedConcat
  <2>2. Elements(l \o r) # {} /\ l \o r \in RecordLists
    BY <1>6, <1>8, ListTypes
  <2> QED
    BY <2>1, <2>2, EmptyList
<1> HIDE DEF l, r
<1>10. /\ m \in [0 .. 2 -> RecordLists] /\ m[k] = l \o r /\ \A q \in 0 .. 2 : q # k => m[q] = Queued(w)[q]
  <2>1. Queued(w) \in [0 .. 2 -> RecordLists] /\ k \in 0 .. 2 /\ l \o r \in RecordLists
    BY <1>2, <1>8 DEF Merging
  <2> QED
    BY <2>1
<1>30. m[2] = Queued(w)[2] /\ Elements(m[k]) = Elements(l) \cup Elements(r)
  <2>1. m[2] = Queued(w)[2]
    BY <1>10
  <2> QED
    BY <1>8, <1>10, <2>1
<1>31. k = 0 => m[1] = Queued(w)[1]
  BY <1>10
<1>32. k = 1 => m[0] = Queued(w)[0]
  BY <1>10
<1>29. Elements(l) = Of(merger[w].head[k]) /\ Elements(r) = Of(h)
  BY <1>2 DEF l, r, Of
<1> HIDE DEF m, t
<1>11. m[2] = <<>>
  BY <1>2, <1>10
<1>12. \A j \in 0 .. 1 : j # k => Elements(Queued(w)[j]) \cap Elements(r) = {} /\ Elements(Queued(w)[j]) \cap Elements(l) = {}
  <2> TAKE j \in 0 .. 1
  <2> HAVE j # k
  <2>1. Elements(Queued(w)[j]) \cap Elements(r) = {}
    BY <1>1, <1>2, <1>29 DEF Arrives
  <2>2. (j = 0 /\ k = 1) \/ (j = 1 /\ k = 0)
    OBVIOUS
  <2> QED
    BY <1>2, <2>1, <2>2 DEF Merging, l
<1>13. Merging(m)
  <2>1. \A q \in 0 .. 2 : Sorted(m[q])
    BY <1>2, <1>9, <1>10 DEF Merging
  <2>2. Elements(m[0]) \cap Elements(m[1]) = {}
    <3>1. CASE k = 0
      <4>1. m[1] = Queued(w)[1] /\ Elements(m[0]) = Elements(l) \cup Elements(r)
        BY <1>30, <1>31, <3>1
      <4> QED
        BY <1>12, <3>1, <4>1
    <3>2. CASE k = 1
      <4>1. m[0] = Queued(w)[0] /\ Elements(m[1]) = Elements(l) \cup Elements(r)
        BY <1>30, <1>32, <3>2
      <4> QED
        BY <1>12, <3>2, <4>1
    <3> QED
      BY <3>1, <3>2
  <2> QED
    BY <1>10, <1>11, <2>1, <2>2, MergingStarts
<1>14. \A q \in 0 .. 2 : Linked(t.next, t.head[q], m[q])
  <2> TAKE q \in 0 .. 2
  <2>1. CASE q = k
    BY <1>8, <1>10, <2>1
  <2>2. CASE q = 2
    <3>1. t.head[q] = Nil
      BY <1>2, <1>8, <2>2
    <3> QED
      BY <1>11, <2>2, <3>1, NilIsEmpty
  <2>3. CASE q \in 0 .. 1 /\ q # k
    <3> DEFINE y == Queued(w)[q]
    <3>1. m[q] = y /\ t.head[q] = merger[w].head[q] /\ y \in RecordLists
      BY <1>2, <1>8, <1>10, <2>3
    <3>2. Linked(s.next, merger[w].head[q], y)
      BY <1>2
    <3>3. Elements(y) \cap Elements(l) = {} /\ Elements(y) \subseteq Records
      BY <1>12, <2>3, <3>1, ListTypes
    <3> HIDE DEF y
    <3>4. \A x \in Elements(y) : t.next[x] = s.next[x]
      BY <1>8, <3>3
    <3>5. Linked(t.next, merger[w].head[q], y)
      BY <3>1, <3>2, <3>4, LinkedFrame
    <3> QED
      BY <3>1, <3>5
  <2> QED
    BY <2>1, <2>2, <2>3
<1>15. All(m) = All(Queued(w)) \cup Elements(r)
  <2>1. CASE k = 0
    <3>1. m[1] = Queued(w)[1] /\ Elements(m[0]) = Elements(l) \cup Elements(r) /\ m[2] = Queued(w)[2]
          /\ l = Queued(w)[0]
      BY <1>30, <1>31, <2>1 DEF l
    <3> QED
      BY <3>1 DEF All
  <2>2. CASE k = 1
    <3>1. m[0] = Queued(w)[0] /\ Elements(m[1]) = Elements(l) \cup Elements(r) /\ m[2] = Queued(w)[2]
          /\ l = Queued(w)[1]
      BY <1>30, <1>32, <2>2 DEF l
    <3> QED
      BY <3>1 DEF All
  <2> QED
    BY <2>1, <2>2
<1>16. All(m) = RecordsOf(heap.next, QueueHeads(w) \cup {h})
  <2>1. Elements(r) = Elements(Chain(heap.next, h))
    BY DEF List, r
  <2>2. RecordsOf(heap.next, QueueHeads(w) \cup {h}) = RecordsOf(heap.next, QueueHeads(w)) \cup Elements(Chain(heap.next, h))
    BY DEF RecordsOf
  <2> QED
    BY <1>2, <1>15, <2>1, <2>2
<1>17. \A x \in Records \ All(m) : t.next[x] = heap.next[x] /\ t.prev[x] = heap.prev[x]
  <2>1. Elements(l) \subseteq All(m)
    <3>1. k = 0 \/ k = 1
      OBVIOUS
    <3> QED
      BY <1>15, <3>1 DEF All, l
  <2> QED
    BY <1>2, <1>8, <2>1
<1>18. t.head[2] = Nil /\ t.tail[2] = Nil
  <2>1. merger[w].head[2] = Nil /\ merger[w].tail[2] = Nil
    BY <1>3 DEF PcInv
  <2> QED
    BY <1>2, <1>8, <2>1 DEF MergeState
<1>19. Reads(w, {c}, {h})
  BY DEF Reads
<1>20. Publish(w, t, pc)
  BY DEF t
<1>21. Publishing(w, t, m, {c}, {h}) /\ Goes(w, t, pc)
  <2> HIDE DEF c, h
  <2> QED
    BY <1>8, <1>13, <1>14, <1>16, <1>17, <1>18, <1>19, <1>20, PublishIs
<1>22. /\ merger'[w].head[k] # Nil /\ \A j \in 0 .. 1 : j # k => merger'[w].head[j] = merger[w].head[j]
  BY <1>2, <1>8, <1>21 DEF Goes
<1>23. PcInv(w, b)'
  BY <1>21, <1>22 DEF t
<1>24. chan'[c] = Tail(chan[c]) /\ \A d \in Channels : d # c => chan'[d] = chan[d]
  BY <1>1 DEF Received, Whole, PipeTypes
<1>25. ContentTypes /\ ContentTypes'
  <2>1. Whole'
    BY <1>21, PublishKeepsLists
  <2> QED
    BY <2>1, ContentIs, ContentIsNext
<1>26. ASSUME NEW j \in 0 .. 1, j # k PROVE Crossing(w, m, j, b) /\ TailKnown(w, m, j, b)
  <2> DEFINE d == MergeInput(w, j)
             Q == Of(merger[w].head[j])
  <2>1. d \in Inner /\ d \in Channels /\ Source(w, j) = d /\ w \in Workers
    BY Topology, ChannelKinds, WorkerKinds
  <2>2. m[j] = Queued(w)[j] /\ Elements(m[j]) = Q
    BY <1>2, <1>10, <1>26
  <2>3. Content(d)' \subseteq Content(d)
    <3>1. Around(w, {c}) \in SUBSET Always /\ Elsewhere(Around(w, {c}), QueueHeads(w) \cup {h})
          /\ Works(w, Around(w, {c}), QueueHeads(w) \cup {h})
      BY <1>21, PublishKeepsLists
    <3> HIDE DEF d, c, h
    <3> QED
      BY <2>1, <3>1, WorkerChannels
  <2>4. Ahead(Q, Content(d))
    <3>1. HandInv(w, b) /\ Pending(w, j) = merger[w].head[j]
      BY <2>1 DEF OrderInv, Pending
    <3> QED
      BY <2>1, <3>1 DEF HandInv, Through, Passing
  <2>5. Crossing(w, m, j, b)
    BY <1>11, <2>2, <2>3, <2>4 DEF Crossing, Ahead, Before
  <2>6. Over(d, b) => Over(d, b)'
    <3>1. chan[d] = <<>> => d # c
      BY DEF Ready
    <3> QED
      BY <1>24, <2>1, <3>1 DEF Over
  <2>7. TailKnown(w, m, j, b)
    <3>1. QueueInv(w, j, b) /\ Queued(w)[j] = List(merger[w].head[j])
      BY <1>3 DEF MergerInv, Queued
    <3>2. (m[j] = <<>>) <=> (merger[w].head[j] = Nil)
      BY <1>2, <2>2
    <3>3. merger'[w].tail[j] = merger[w].tail[j]
      BY <1>2, <1>8, <1>21, <1>26 DEF Goes, MergeState
    <3>4. merger[w].pc \notin {"forward", "close"}
      BY DEF Open
    <3> QED
      BY <2>2, <2>6, <3>1, <3>2, <3>3, <3>4 DEF TailKnown, QueueInv
  <2> QED
    BY <2>5, <2>7
<1>27. Crossing(w, m, k, b) /\ TailKnown(w, m, k, b)
  <2>1. Taken(c, b)
    <3>1. Around(w, {c}) \in SUBSET Always /\ Elsewhere(Around(w, {c}), QueueHeads(w) \cup {h})
          /\ Works(w, Around(w, {c}), QueueHeads(w) \cup {h}) /\ w \in Workers
      BY <1>21, PublishKeepsLists, WorkerKinds
    <3> HIDE DEF c, h
    <3> QED
      BY <1>1, <1>24, <3>1, WorkerChannels DEF c
  <2>2. Ahead(Elements(l), Content(c))
    <3>1. HandInv(w, b) /\ Pending(w, k) = merger[w].head[k] /\ Source(w, k) = c
      BY Topology, WorkerKinds DEF OrderInv, Pending
    <3> QED
      BY <1>29, <3>1 DEF HandInv, Through, Passing
  <2>3. /\ Content(c)' \subseteq Content(c) /\ Ahead(Of(h), Content(c)') /\ Of(h) \subseteq Content(c)
    BY <2>1 DEF Taken
  <2>4. Elements(m[k]) = Elements(l) \cup Of(h)
    BY <1>8, <1>10, <1>29
  <2>5. Crossing(w, m, k, b)
    <3>1. Ahead(Elements(m[k]), Content(c)')
      BY <2>2, <2>3, <2>4 DEF Ahead, Before
    <3> QED
      BY <1>11, <1>29, <2>3, <2>4, <3>1 DEF Crossing
  <2>6. merger'[w].tail[k] = heap.prev[h]
    BY <1>2, <1>8, <1>21 DEF Goes, MergeState
  <2>7. PrevOk(h) \/ Over(c, b)'
    BY <1>1, <1>24 DEF Arrives, Over
  <2>8. End(m[k]) = End(r)
    BY <1>8, <1>10
  <2>9. m[k] # <<>>
    BY <1>9, <1>10
  <2>10. TailKnown(w, m, k, b)
    BY <2>6, <2>7, <2>8, <2>9 DEF TailKnown, PrevOk, r
  <2> QED
    BY <2>5, <2>10
<1>28. \A j \in 0 .. 1 : Crossing(w, m, j, b) /\ TailKnown(w, m, j, b)
  BY <1>26, <1>27
<1> HIDE DEF c, h
<1> QED
  BY <1>11, <1>21, <1>23, <1>28, PublishKeepsOrder

\* A list is appended to one of the queues.
LEMMA GatherKeeps ==
    ASSUME Whole, NEW b, OrderInv(b), NEW w \in Mergers, NEW k \in 0 .. 1, Gather(w, k)
    PROVE  Whole' /\ OrderInv(b)'
<1> DEFINE c == MergeInput(w, k)
           t == AppendTo(With(w), k, Head(chan[c]))
           both == merger[w].pc = "initial" /\ (\E q \in 0 .. 1 : t.head[q] = Nil)
           pc == IF both THEN "initial" ELSE "poll"
<1>1. /\ order # "none" /\ hand[w] = Nil /\ merger[w].pc \in {"initial", "poll", "fetch"}
      /\ Ready(c) /\ chan' = Received(c) /\ Publish(w, t, pc)
      /\ UNCHANGED <<order, produced, closed, splice, exported>>
  BY DEF Gather, At
<1>2. pc \in Stages
  <2> HIDE DEF both
  <2>1. pc = "initial" \/ pc = "poll"
    OBVIOUS
  <2> HIDE DEF pc
  <2> QED
    BY <2>1 DEF Stages
<1>3. \A j \in 0 .. 1 : Open(w, j)
  BY <1>1 DEF Open
<1>4. ASSUME Goes(w, t, pc), merger'[w].head[k] # Nil,
             \A j \in 0 .. 1 : j # k => merger'[w].head[j] = merger[w].head[j]
      PROVE  PcInv(w, b)'
  <2>1. PcInv(w, b)
    BY DEF OrderInv, MergerInv
  <2>2. merger'[w].ok /\ merger'[w].head[2] = Nil /\ merger'[w].tail[2] = Nil /\ merger'[w].pc = pc
    BY <1>1, <1>4, <2>1 DEF Goes, PcInv
  <2>3. pc = "poll" => \A j \in 0 .. 1 : merger'[w].head[j] # Nil
    <3> SUFFICES ASSUME ~both, NEW j \in 0 .. 1 PROVE merger'[w].head[j] # Nil
      OBVIOUS
    <3>1. CASE merger[w].pc = "initial"
      <4>1. t.head[j] # Nil
        BY <3>1
      <4> QED
        BY <1>4, <4>1 DEF Goes
    <3>2. CASE merger[w].pc \in {"poll", "fetch"}
      BY <1>4, <2>1, <3>2 DEF PcInv
    <3> QED
      BY <1>1, <3>1, <3>2
  <2>4. pc \in {"initial", "poll"}
    OBVIOUS
  <2> HIDE DEF pc
  <2> QED
    BY <2>2, <2>3, <2>4 DEF PcInv
<1>5. Publish(w, AppendTo(With(w), k, Head(chan[MergeInput(w, k)])), pc)
  BY <1>1
<1>6. /\ Goes(w, AppendTo(With(w), k, Head(chan[MergeInput(w, k)])), pc)
      /\ merger'[w].head[k] # Nil /\ (\A j \in 0 .. 1 : j # k => merger'[w].head[j] = merger[w].head[j])
      => PcInv(w, b)'
  BY <1>4
<1> HIDE DEF pc, t
<1> QED
  BY <1>1, <1>2, <1>3, <1>5, <1>6, TakesIn

\* What else a merge worker does, without publishing anything.
LEMMA MergerMoves ==
    ASSUME Whole, NEW b, OrderInv(b), order # "none", NEW w \in Mergers, hand[w] = Nil,
           merger' \in [Mergers -> MergerTypes], \A v \in Mergers : v # w => merger'[v] = merger[v],
           merger'[w].head = merger[w].head, merger'[w].tail = merger[w].tail,
           UNCHANGED <<order, heap, produced, chan, closed, hand, splice, exported>>,
           \A k \in 0 .. 1 : Open(w, k)' => Open(w, k),
           merger'[w].pc \notin {"forward", "close"} => merger[w].pc \notin {"forward", "close"},
           PcInv(w, b)'
    PROVE  Whole' /\ OrderInv(b)'
<1> DEFINE t == With(w)
           m == Queued(w)
<1>1. /\ t \in MergeState /\ t.head = merger[w].head /\ t.tail = merger[w].tail
      /\ t.next = heap.next /\ t.prev = heap.prev
      /\ Merging(m) /\ m[2] = <<>>
      /\ \A q \in 0 .. 2 : /\ Linked(heap.next, merger[w].head[q], m[q])
                           /\ m[q] \in RecordLists
                           /\ (m[q] = <<>>) <=> (merger[w].head[q] = Nil)
                           /\ Elements(m[q]) = Of(merger[w].head[q])
      /\ All(m) = RecordsOf(heap.next, QueueHeads(w))
  BY QueuesAre
<1>2. MergerInv(w, b) /\ PcInv(w, b) /\ merger[w].head[2] = Nil
  BY DEF OrderInv, MergerInv, PcInv
<1>3. Reads(w, {}, {})
  BY DEF Reads
<1>4. heap' = [next |-> t.next, prev |-> t.prev]
  <2>1. heap = [next |-> heap.next, prev |-> heap.prev]
    BY DEF Whole, PipeTypes
  <2> QED
    BY <1>1, <2>1
<1>5. hand' = [hand EXCEPT ![w] = t.head[2]]
  <2>1. hand \in [Workers -> Pointer] /\ w \in Workers
    BY WorkerKinds DEF Whole, PipeTypes
  <2>2. hand' = [hand EXCEPT ![w] = hand[w]]
    BY <2>1
  <2> QED
    BY <1>1, <1>2, <2>2
<1>6. merger'[w].head = [t.head EXCEPT ![2] = Nil]
  <2>1. t.head \in [0 .. 2 -> Pointer] /\ t.head[2] = Nil
    BY <1>1, <1>2 DEF MergeState
  <2>2. t.head = [t.head EXCEPT ![2] = Nil]
    BY <2>1
  <2> QED
    BY <1>1, <2>2
<1>7. Publishing(w, t, m, {}, {})
  <2>1. QueueHeads(w) \cup {} = QueueHeads(w)
    OBVIOUS
  <2> HIDE DEF t, m
  <2> QED
    BY <1>1, <1>3, <1>4, <1>5, <1>6, <2>1 DEF Publishing
<1>8. /\ Around(w, {}) \in SUBSET Always /\ Elsewhere(Around(w, {}), QueueHeads(w) \cup {})
      /\ Works(w, Around(w, {}), QueueHeads(w) \cup {}) /\ w \in Workers
  BY <1>7, PublishKeepsLists, WorkerKinds
<1>9. ASSUME NEW k \in 0 .. 1 PROVE Crossing(w, m, k, b) /\ TailKnown(w, m, k, b)
  <2> DEFINE c == MergeInput(w, k)
  <2>1. c \in Inner /\ Source(w, k) = c
    BY Topology, ChannelKinds
  <2>2. Content(c)' \subseteq Content(c)
    BY <1>8, <2>1, WorkerChannels
  <2>3. Ahead(Of(merger[w].head[k]), Content(c))
    <3>1. HandInv(w, b) /\ Pending(w, k) = merger[w].head[k]
      BY WorkerKinds DEF OrderInv, Pending
    <3> QED
      BY <2>1, <3>1 DEF HandInv, Through, Passing
  <2>4. Elements(m[k]) = Of(merger[w].head[k]) /\ m[2] = <<>>
    BY <1>1
  <2>5. Crossing(w, m, k, b)
    <3> HIDE DEF m
    <3>1. Ahead(Elements(m[k]), Content(c)')
      BY <2>2, <2>3, <2>4 DEF Ahead, Before
    <3> QED
      BY <2>4, <3>1 DEF Crossing
  <2>6. QueueInv(w, k, b) /\ m[k] = List(merger[w].head[k]) /\ ((m[k] = <<>>) <=> (merger[w].head[k] = Nil))
    BY <1>1, <1>2 DEF MergerInv, Queued
  <2>7. Over(c, b)' <=> Over(c, b)
    BY DEF Over
  <2> HIDE DEF m, c
  <2>8. TailKnown(w, m, k, b)
    BY <2>6, <2>7 DEF TailKnown, QueueInv, c
  <2> QED
    BY <2>5, <2>8
<1> HIDE DEF m, t
<1> QED
  BY <1>1, <1>7, <1>9, PublishKeepsOrder

\* An input has ended: nothing comes from it any more.
LEMMA InputEndsKeeps ==
    ASSUME Whole, NEW b, OrderInv(b), NEW w \in Mergers, NEW k \in 0 .. 1, InputEnds(w, k)
    PROVE  Whole' /\ OrderInv(b)'
<1>1. /\ order # "none" /\ hand[w] = Nil /\ merger[w].pc \in {"initial", "poll", "fetch"}
      /\ Ended(MergeInput(w, k))
      /\ merger' = [merger EXCEPT ![w].pc = "partial", ![w].stopped = k]
      /\ UNCHANGED <<order, heap, produced, chan, closed, hand, splice, exported>>
  BY DEF InputEnds, At
<1>2. merger \in [Mergers -> MergerTypes]
  BY DEF Whole, PipeTypes
<1>3. merger' \in [Mergers -> MergerTypes] /\ \A v \in Mergers : v # w => merger'[v] = merger[v]
  <2> DEFINE M == merger[w]
             N == [[M EXCEPT !.pc = "partial"] EXCEPT !.stopped = k]
  <2>1. merger' = [merger EXCEPT ![w] = N]
    BY <1>1, <1>2
  <2>2. M \in MergerTypes
    BY <1>2
  <2> HIDE DEF M
  <2>3. [M EXCEPT !.pc = "partial"] \in MergerTypes
    BY <2>2 DEF MergerTypes, Stages
  <2>4. N \in MergerTypes
    BY <2>3 DEF MergerTypes
  <2> HIDE DEF N
  <2> QED
    BY <1>2, <2>1, <2>4
<1>4. /\ merger'[w].head = merger[w].head /\ merger'[w].tail = merger[w].tail /\ merger'[w].ok = merger[w].ok
      /\ merger'[w].pc = "partial" /\ merger'[w].stopped = k
  BY <1>1, <1>2 DEF MergerTypes
<1>5. \A j \in 0 .. 1 : Open(w, j)
  BY <1>1 DEF Open
<1>6. PcInv(w, b) /\ MergeInput(w, k) \in Inner
  BY Topology, ChannelKinds DEF OrderInv, MergerInv
<1>7. Over(MergeInput(w, k), b)'
  <2>1. ChanInv(MergeInput(w, k), b)
    BY <1>6 DEF OrderInv
  <2> QED
    BY <1>1, <2>1 DEF ChanInv, Ended, Over
<1>8. Stopped(w)' = k
  BY <1>4 DEF Stopped
<1>9. PcInv(w, b)'
  <2>1. merger'[w].ok /\ merger'[w].head[2] = Nil /\ merger'[w].tail[2] = Nil
    BY <1>1, <1>4, <1>6 DEF PcInv
  <2> QED
    BY <1>4, <1>7, <1>8, <2>1 DEF PcInv
<1> QED
  BY <1>1, <1>3, <1>4, <1>5, <1>9, MergerMoves

\* A list is appended to the queue of the input that has not ended.
LEMMA MoreKeeps ==
    ASSUME Whole, NEW b, OrderInv(b), NEW w \in Mergers, More(w)
    PROVE  Whole' /\ OrderInv(b)'
<1> DEFINE r == Remaining(w)
           c == MergeInput(w, r)
           t == AppendTo(With(w), r, Head(chan[c]))
<1>1. /\ order # "none" /\ hand[w] = Nil /\ merger[w].pc = "more"
      /\ \/ Ready(c) /\ chan' = Received(c) /\ Publish(w, t, "partial")
         \/ /\ Ended(c) /\ merger' = [merger EXCEPT ![w].pc = "partial", ![w].ok = FALSE]
            /\ UNCHANGED <<heap, chan, hand>>
      /\ UNCHANGED <<order, produced, closed, splice, exported>>
  BY DEF More, At
<1>2. /\ merger \in [Mergers -> MergerTypes] /\ Stopped(w) \in 0 .. 1 /\ r \in 0 .. 1 /\ r # Stopped(w)
      /\ \A k \in 0 .. 1 : k = r \/ k = Stopped(w)
      /\ "partial" \in Stages
  <2>1. merger[w] \in MergerTypes
    BY DEF Whole, PipeTypes
  <2>2. merger[w].stopped \in 0 .. 1
    BY <2>1 DEF MergerTypes
  <2> QED
    BY <2>2 DEF Whole, PipeTypes, Stopped, Remaining, Stages
<1>3. PcInv(w, b) /\ Over(MergeInput(w, Stopped(w)), b)
  BY <1>1 DEF OrderInv, MergerInv, PcInv
<1>4. CASE Ready(c) /\ chan' = Received(c) /\ Publish(w, t, "partial")
  <2>1. Open(w, r)
    BY <1>1 DEF Open
  <2>2. merger[w].ok
    BY <1>3, <1>4 DEF PcInv, Ready, Over
  <2>3. ASSUME Goes(w, t, "partial") PROVE PcInv(w, b)' /\ Stopped(w)' = Stopped(w)
    <3>1. Stopped(w)' = Stopped(w)
      BY <2>3 DEF Goes, Stopped
    <3>2. merger'[w].pc = "partial" /\ merger'[w].ok /\ merger'[w].head[2] = Nil /\ merger'[w].tail[2] = Nil
      BY <2>2, <2>3 DEF Goes
    <3>3. Over(MergeInput(w, Stopped(w)), b)'
      <4> DEFINE d == MergeInput(w, Stopped(w))
      <4>1. d \in Channels /\ chan \in [Channels -> Seq(Records)]
        BY <1>2, Topology, ChannelKinds DEF Whole, PipeTypes
      <4>2. d # c
        BY <1>3, <1>4 DEF Over, Ready
      <4>3. chan'[d] = chan[d]
        BY <1>4, <4>1, <4>2 DEF Received
      <4> QED
        BY <1>3, <3>1, <4>3 DEF Over
    <3> QED
      BY <3>1, <3>2, <3>3 DEF PcInv
  <2>4. \A k \in 0 .. 1 : Open(w, k)' => Open(w, k)
    <3>1. Goes(w, t, "partial") => \A k \in 0 .. 1 : Open(w, k)' => Open(w, k)
      BY <1>1, <2>3 DEF Goes, Open, Remaining, Stopped
    <3>2. merger'[w].pc = "partial" /\ merger'[w].stopped = merger[w].stopped
      <4> DEFINE hd == [t.head EXCEPT ![2] = Nil]
                 tl == IF t.head[2] = Nil THEN t.tail ELSE [t.tail EXCEPT ![2] = Nil]
      <4>1. merger' = [merger EXCEPT ![w].pc = "partial", ![w].head = hd, ![w].tail = tl]
        BY <1>4 DEF Publish
      <4> HIDE DEF hd, tl
      <4> QED
        BY <1>2, <4>1 DEF MergerTypes
    <3> QED
      BY <1>1, <3>2 DEF Open, Remaining
  <2>5. Publish(w, AppendTo(With(w), r, Head(chan[MergeInput(w, r)])), "partial")
    BY <1>4
  <2>6. Goes(w, AppendTo(With(w), r, Head(chan[MergeInput(w, r)])), "partial") => PcInv(w, b)'
    BY <2>3
  <2> HIDE DEF t, r
  <2> QED
    BY <1>1, <1>2, <1>4, <2>1, <2>4, <2>5, <2>6, TakesIn
<1>5. CASE /\ Ended(c) /\ merger' = [merger EXCEPT ![w].pc = "partial", ![w].ok = FALSE]
           /\ UNCHANGED <<heap, chan, hand>>
  <2>1. merger' \in [Mergers -> MergerTypes] /\ \A v \in Mergers : v # w => merger'[v] = merger[v]
    <3> DEFINE M == merger[w]
               N == [[M EXCEPT !.pc = "partial"] EXCEPT !.ok = FALSE]
    <3>1. merger' = [merger EXCEPT ![w] = N]
      BY <1>2, <1>5
    <3>2. M \in MergerTypes
      BY <1>2
    <3> HIDE DEF M
    <3>3. [M EXCEPT !.pc = "partial"] \in MergerTypes
      BY <3>2 DEF MergerTypes, Stages
    <3>4. N \in MergerTypes
      BY <3>3 DEF MergerTypes
    <3> HIDE DEF N
    <3> QED
      BY <1>2, <3>1, <3>4
  <2>2. /\ merger'[w].head = merger[w].head /\ merger'[w].tail = merger[w].tail /\ ~merger'[w].ok
        /\ merger'[w].pc = "partial" /\ merger'[w].stopped = merger[w].stopped
    BY <1>2, <1>5 DEF MergerTypes
  <2>3. \A j \in 0 .. 1 : Open(w, j)' => Open(w, j)
    BY <1>1, <2>2 DEF Open, Remaining
  <2>4. Over(c, b)
    <3>1. ChanInv(c, b)
      BY <1>2, Topology, ChannelKinds DEF OrderInv
    <3> QED
      BY <1>5, <3>1 DEF ChanInv, Ended, Over
  <2>5. Stopped(w)' = Stopped(w) /\ Remaining(w)' = r
    BY <2>2 DEF Stopped, Remaining
  <2>6. Over(MergeInput(w, Stopped(w)), b)' /\ Over(MergeInput(w, Remaining(w)), b)'
    BY <1>3, <1>5, <2>4, <2>5 DEF Over
  <2>7. PcInv(w, b)'
    <3>1. merger'[w].head[2] = Nil /\ merger'[w].tail[2] = Nil
      BY <1>3, <2>2 DEF PcInv
    <3> QED
      BY <2>2, <2>6, <3>1 DEF PcInv
  <2> QED
    BY <1>1, <1>5, <2>1, <2>2, <2>3, <2>7, MergerMoves
<1> QED
  BY <1>1, <1>4, <1>5

\* What the merge loops make of the queues.
LEMMA LoopsMerge ==
    ASSUME Whole, NEW b, OrderInv(b), NEW w \in Mergers, NEW keep \in [0 .. 1 -> 0 .. 1]
    PROVE  \E m : /\ Merged(With(w), Queued(w), MergeDownTo(With(w), keep), m, keep)
                  /\ \E q \in 0 .. 1 : ~HasMoreThan(MergeDownTo(With(w), keep), q, keep[q])
<1> DEFINE s == With(w)
           l == Queued(w)
<1>1. /\ s \in MergeState /\ Merging(l) /\ l[2] = <<>>
      /\ \A q \in 0 .. 2 : Linked(s.next, s.head[q], l[q])
  BY QueuesAre
<1> HIDE DEF s, l
<1>2. \E m : /\ Merged(s, l, MergeDownTo(s, keep), m, keep)
             /\ \E q \in 0 .. 1 : ~HasMoreThan(MergeDownTo(s, keep), q, keep[q])
  BY <1>1, MergeLoops
<1> QED
  BY <1>2 DEF s, l

\* What is merged is published.
LEMMA MergedKeeps ==
    ASSUME Whole, NEW b, OrderInv(b), order # "none", NEW w \in Mergers, NEW keep \in [0 .. 1 -> 0 .. 1],
           NEW pc \in Stages, hand[w] = Nil, chan' = chan, Publish(w, MergeDownTo(With(w), keep), pc),
           UNCHANGED <<order, produced, closed, splice, exported>>, merger[w].pc \notin {"forward", "close"},
           \A k \in 0 .. 1 : keep[k] = 1 \/ Over(MergeInput(w, k), b),
           \A k \in 0 .. 1 : Open(w, k)' => Open(w, k) /\ keep[k] = 1,
           Goes(w, MergeDownTo(With(w), keep), pc)
           /\ (\A k \in 0 .. 1 : keep[k] = 1 /\ merger[w].head[k] # Nil => merger'[w].head[k] # Nil)
           => PcInv(w, b)'
    PROVE  Whole' /\ OrderInv(b)'
<1> DEFINE s == With(w)
           l == Queued(w)
           t == MergeDownTo(s, keep)
<1>1. /\ s \in MergeState /\ s.head = merger[w].head /\ s.tail = merger[w].tail
      /\ s.next = heap.next /\ s.prev = heap.prev
      /\ Merging(l) /\ l[2] = <<>>
      /\ \A q \in 0 .. 2 : /\ Linked(heap.next, merger[w].head[q], l[q])
                           /\ l[q] \in RecordLists
                           /\ (l[q] = <<>>) <=> (merger[w].head[q] = Nil)
                           /\ Elements(l[q]) = Of(merger[w].head[q])
      /\ All(l) = RecordsOf(heap.next, QueueHeads(w))
  BY QueuesAre
<1>2. PICK m : Merged(s, l, t, m, keep)
  BY LoopsMerge
<1>3. MergerInv(w, b) /\ PcInv(w, b) /\ merger[w].tail[2] = Nil
  BY DEF OrderInv, MergerInv, PcInv
<1> HIDE DEF t, l, s
<1>4. /\ t \in MergeState /\ Merging(m) /\ All(m) = All(l)
      /\ \A q \in 0 .. 2 : Linked(t.next, t.head[q], m[q])
      /\ \A x \in Records \ All(l) : t.next[x] = s.next[x] /\ t.prev[x] = s.prev[x]
      /\ m[2] # <<>> => t.tail[2] = End(m[2]) /\ t.prev[t.head[2]] = End(m[2])
      /\ m[2] = <<>> => t.tail[2] = s.tail[2]
      /\ \A q \in 0 .. 1 : t.tail[q] = s.tail[q] /\ Elements(m[q]) \subseteq Elements(l[q])
      /\ \A q \in 0 .. 1 : m[q] # <<>> => End(m[q]) = End(l[q])
      /\ \A q \in 0 .. 1 : keep[q] = 1 /\ l[q] # <<>> => m[q] # <<>>
      /\ m[2] # <<>> => l[0] # <<>> /\ l[1] # <<>>
      /\ \A q \in 0 .. 2 : m[q] \in RecordLists
  BY <1>2 DEF Merged, Merging
<1>5. \A q \in 0 .. 2 : (t.head[q] = Nil) <=> (m[q] = <<>>)
  BY <1>4, LinkedHead
<1>6. t.head[2] = Nil => t.tail[2] = Nil
  BY <1>1, <1>3, <1>4, <1>5
<1>7. Reads(w, {}, {})
  BY DEF Reads
<1>8. Publish(w, t, pc)
  BY DEF t, s
<1>9. /\ All(m) = RecordsOf(heap.next, QueueHeads(w) \cup {})
      /\ \A x \in Records \ All(m) : t.next[x] = heap.next[x] /\ t.prev[x] = heap.prev[x]
  BY <1>1, <1>4
<1>10. Publishing(w, t, m, {}, {}) /\ Goes(w, t, pc)
  BY <1>4, <1>6, <1>7, <1>8, <1>9, PublishIs
<1>11. PcInv(w, b)'
  <2>1. \A k \in 0 .. 1 : keep[k] = 1 /\ merger[w].head[k] # Nil => merger'[w].head[k] # Nil
    BY <1>1, <1>4, <1>5, <1>10 DEF Goes
  <2> QED
    BY <1>10, <2>1 DEF t, s
<1>12. /\ Around(w, {}) \in SUBSET Always /\ Elsewhere(Around(w, {}), QueueHeads(w) \cup {})
       /\ Works(w, Around(w, {}), QueueHeads(w) \cup {}) /\ w \in Workers
  BY <1>10, PublishKeepsLists, WorkerKinds
<1>13. ASSUME NEW k \in 0 .. 1 PROVE Crossing(w, m, k, b) /\ TailKnown(w, m, k, b)
  <2> DEFINE c == MergeInput(w, k)
  <2>1. c \in Inner /\ Source(w, k) = c
    BY Topology, ChannelKinds
  <2>2. Content(c)' \subseteq Content(c)
    BY <1>12, <2>1, WorkerChannels
  <2>3. Ahead(Of(merger[w].head[k]), Content(c))
    <3>1. HandInv(w, b) /\ Pending(w, k) = merger[w].head[k]
      BY WorkerKinds DEF OrderInv, Pending
    <3> QED
      BY <2>1, <3>1 DEF HandInv, Through, Passing
  <2>4. Elements(m[k]) \subseteq Of(merger[w].head[k])
    BY <1>1, <1>4
  <2>5. m[2] = <<>> \/ m[k] # <<>> \/ Over(c, b)
    <3>1. m[2] # <<>> => l[k] # <<>>
      <4>1. k = 0 \/ k = 1
        OBVIOUS
      <4> QED
        BY <1>4, <4>1
    <3> QED
      BY <1>4, <3>1
  <2>6. Crossing(w, m, k, b)
    <3>1. Ahead(Elements(m[k]), Content(c)')
      BY <2>2, <2>3, <2>4 DEF Ahead, Before
    <3> QED
      BY <2>4, <2>5, <3>1 DEF Crossing
  <2>7. QueueInv(w, k, b) /\ l[k] = List(merger[w].head[k])
    BY <1>3 DEF MergerInv, Queued, l
  <2>8. Over(c, b)' <=> Over(c, b)
    BY DEF Over
  <2>9. merger'[w].tail[k] = merger[w].tail[k]
    BY <1>1, <1>4, <1>10 DEF Goes
  <2>10. m[k] # <<>> => End(m[k]) = End(List(merger[w].head[k])) /\ merger[w].head[k] # Nil
    <3>1. m[k] # <<>> => Elements(m[k]) # {}
      <4>1. m[k] \in RecordLists
        BY <1>4
      <4> QED
        BY <4>1, ListTypes
    <3>2. m[k] # <<>> => l[k] # <<>>
      BY <1>4, <3>1, EmptyList
    <3> QED
      BY <1>1, <1>4, <2>7, <3>2
  <2>11. Open(w, k)' /\ m[k] = <<>> => merger'[w].tail[k] = Nil
    <3>1. Open(w, k)' /\ m[k] = <<>> => Open(w, k) /\ l[k] = <<>>
      BY <1>4
    <3> QED
      BY <1>1, <2>7, <2>9, <3>1 DEF QueueInv
  <2>12. m[k] # <<>> => merger'[w].tail[k] = End(m[k]) \/ Over(c, b)'
    BY <2>7, <2>8, <2>9, <2>10 DEF QueueInv
  <2> HIDE DEF c
  <2>13. TailKnown(w, m, k, b)
    BY <2>11, <2>12 DEF TailKnown, c
  <2> QED
    BY <2>6, <2>13
<1> QED
  BY <1>4, <1>10, <1>11, <1>13, PublishKeepsOrder

\* Merging as long as both queues have two records.
LEMMA MergeKeeps ==
    ASSUME Whole, NEW b, OrderInv(b), NEW w \in Mergers, Merge(w)
    PROVE  Whole' /\ OrderInv(b)'
<1> DEFINE keep == [q \in 0 .. 1 |-> 1]
           t == MergeDownTo(With(w), keep)
<1>1. /\ order # "none" /\ hand[w] = Nil /\ merger[w].pc = "poll" /\ chan' = chan
      /\ Publish(w, t, "fetch") /\ UNCHANGED <<order, produced, closed, splice, exported>>
  BY DEF Merge, At
<1>2. keep \in [0 .. 1 -> 0 .. 1] /\ \A k \in 0 .. 1 : keep[k] = 1 /\ Open(w, k)
  BY <1>1 DEF Open
<1>3. PcInv(w, b) /\ "fetch" \in Stages
  BY DEF OrderInv, MergerInv, Stages
<1> HIDE DEF keep
<1>4. ASSUME Goes(w, t, "fetch"), \A k \in 0 .. 1 : keep[k] = 1 /\ merger[w].head[k] # Nil => merger'[w].head[k] # Nil
      PROVE  PcInv(w, b)'
  <2>1. \A k \in 0 .. 1 : merger'[w].head[k] # Nil
    BY <1>1, <1>2, <1>3, <1>4 DEF PcInv
  <2>2. merger'[w].pc = "fetch" /\ merger'[w].ok /\ merger'[w].head[2] = Nil /\ merger'[w].tail[2] = Nil
    BY <1>1, <1>3, <1>4 DEF Goes, PcInv
  <2> QED
    BY <2>1, <2>2 DEF PcInv
<1> QED
  BY <1>1, <1>2, <1>3, <1>4, MergedKeeps

\* Merging until the queue of the ended input is empty.
LEMMA PartialKeeps ==
    ASSUME Whole, NEW b, OrderInv(b), NEW w \in Mergers, Partial(w)
    PROVE  Whole' /\ OrderInv(b)'
<1> DEFINE keep == [q \in 0 .. 1 |-> IF q = Stopped(w) THEN 0 ELSE 1]
           t == MergeDownTo(With(w), keep)
           pc == IF t.head[Stopped(w)] = Nil THEN "flush" ELSE IF merger[w].ok THEN "more" ELSE "last"
<1>1. /\ order # "none" /\ hand[w] = Nil /\ merger[w].pc = "partial" /\ chan' = chan
      /\ Publish(w, t, pc) /\ UNCHANGED <<order, produced, closed, splice, exported>>
  BY DEF Partial, At
<1>2. Stopped(w) \in 0 .. 1 /\ Remaining(w) = 1 - Stopped(w)
  BY DEF Whole, PipeTypes, MergerTypes, Stopped, Remaining
<1>3. /\ keep \in [0 .. 1 -> 0 .. 1] /\ \A k \in 0 .. 1 : k = Stopped(w) \/ keep[k] = 1
      /\ keep[Remaining(w)] = 1
  BY <1>2
<1>4. PcInv(w, b) /\ Over(MergeInput(w, Stopped(w)), b)
  BY <1>1 DEF OrderInv, MergerInv, PcInv
<1>5. pc \in Stages /\ pc \in {"flush", "more", "last"}
  <2>1. pc = "flush" \/ pc = "more" \/ pc = "last"
    <3> HIDE DEF t
    <3> QED
      OBVIOUS
  <2> HIDE DEF pc
  <2> QED
    BY <2>1 DEF Stages
<1>6. ASSUME Goes(w, t, pc) PROVE PcInv(w, b)'
  <2>1. merger'[w].ok = merger[w].ok /\ merger'[w].pc = pc /\ merger'[w].head[2] = Nil /\ merger'[w].tail[2] = Nil
        /\ merger'[w].head[Stopped(w)] = t.head[Stopped(w)]
    BY <1>2, <1>6 DEF Goes
  <2>2. Stopped(w)' = Stopped(w) /\ Remaining(w)' = Remaining(w)
    BY <1>6 DEF Goes, Stopped, Remaining
  <2>3. \A k : Over(MergeInput(w, k), b)' <=> Over(MergeInput(w, k), b)
    BY <1>1 DEF Over
  <2>4. /\ pc \in {"more", "last"} => t.head[Stopped(w)] # Nil
        /\ pc = "flush" => t.head[Stopped(w)] = Nil
        /\ pc = "last" => ~merger[w].ok
    <3> HIDE DEF t
    <3> QED
      OBVIOUS
  <2>5. ~merger[w].ok => Over(MergeInput(w, Remaining(w)), b)
    BY <1>4 DEF PcInv
  <2> HIDE DEF pc, t
  <2> QED
    BY <1>4, <1>5, <2>1, <2>2, <2>3, <2>4, <2>5 DEF PcInv
<1>7. \A k \in 0 .. 1 : keep[k] = 1 \/ Over(MergeInput(w, k), b)
  BY <1>3, <1>4
<1>8. \A k \in 0 .. 1 : Open(w, k)' => Open(w, k) /\ keep[k] = 1
  <2>1. merger'[w].pc = pc /\ merger'[w].stopped = merger[w].stopped
    <3> DEFINE hd == [t.head EXCEPT ![2] = Nil]
               tl == IF t.head[2] = Nil THEN t.tail ELSE [t.tail EXCEPT ![2] = Nil]
    <3>1. merger' = [merger EXCEPT ![w].pc = pc, ![w].head = hd, ![w].tail = tl]
      BY <1>1 DEF Publish
    <3>2. merger \in [Mergers -> MergerTypes]
      BY DEF Whole, PipeTypes
    <3> HIDE DEF hd, tl, pc
    <3> QED
      BY <3>1, <3>2 DEF MergerTypes
  <2> HIDE DEF pc, keep
  <2> QED
    BY <1>1, <1>3, <1>5, <2>1 DEF Open, Remaining
<1>9. Publish(w, MergeDownTo(With(w), keep), pc) /\ (Goes(w, MergeDownTo(With(w), keep), pc) => PcInv(w, b)')
  BY <1>1, <1>6
<1>10. merger[w].pc \notin {"forward", "close"}
  BY <1>1
<1> HIDE DEF keep, t, pc
<1> QED
  BY <1>1, <1>3, <1>5, <1>7, <1>8, <1>9, <1>10, MergedKeeps

\* The worker sends a list on as it is: the rest of a queue, or one that came.
Alone(h) == [q \in 0 .. 2 |-> IF q = 2 THEN h ELSE Nil]
AloneList(l) == [q \in 0 .. 2 |-> IF q = 2 THEN l ELSE <<>>]

\* That is a merge without anything left in the queues.
LEMMA AloneIs ==
    ASSUME NEW next, NEW h \in Pointer, NEW l \in RecordLists, Sorted(l), Linked(next, h, l)
    PROVE  /\ Alone(h) \in [0 .. 2 -> Pointer] /\ Alone(h)[2] = h /\ \A k \in 0 .. 1 : Alone(h)[k] = Nil
           /\ AloneList(l)[2] = l /\ \A k \in 0 .. 1 : AloneList(l)[k] = <<>>
           /\ Merging(AloneList(l)) /\ All(AloneList(l)) = Elements(l)
           /\ \A q \in 0 .. 2 : Linked(next, Alone(h)[q], AloneList(l)[q])
           /\ [Alone(h) EXCEPT ![2] = Nil] = Idle.head
<1>1. \A q \in 0 .. 2 : q = 2 \/ q \in 0 .. 1
  OBVIOUS
<1>2. Nil \in Pointer
  BY DEF Pointer
<1>3. Alone(h) \in [0 .. 2 -> Pointer] /\ Alone(h)[2] = h /\ \A k \in 0 .. 1 : Alone(h)[k] = Nil
  BY <1>2 DEF Alone
<1>4. AloneList(l)[2] = l /\ (\A k \in 0 .. 1 : AloneList(l)[k] = <<>>) /\ AloneList(l)[0] = <<>> /\ AloneList(l)[1] = <<>>
  BY DEF AloneList
<1>5. AloneList(l) \in [0 .. 2 -> RecordLists]
  BY EmptyList DEF AloneList
<1>6. \A q \in 0 .. 2 : Linked(next, Alone(h)[q], AloneList(l)[q])
  BY <1>1, <1>3, <1>4, NilIsEmpty
<1>7. \A q \in 0 .. 2 : Sorted(AloneList(l)[q])
  BY <1>1, <1>4, SortedOne
<1>8. All(AloneList(l)) = Elements(l)
  BY <1>4, EmptyList DEF All
<1>9. Merging(AloneList(l))
  <2>1. \A k \in 0 .. 1 : Elements(AloneList(l)[k]) = {}
    BY <1>4, EmptyList
  <2>2. \A k \in 0 .. 1 : Ahead(Elements(AloneList(l)[2]), Elements(AloneList(l)[k]))
    BY <2>1 DEF Ahead
  <2>3. \A p, q \in 0 .. 2 : p # q => Elements(AloneList(l)[p]) \cap Elements(AloneList(l)[q]) = {}
    BY <1>1, <2>1
  <2> QED
    BY <1>5, <1>7, <2>2, <2>3 DEF Merging
<1>10. [Alone(h) EXCEPT ![2] = Nil] = Idle.head
  BY DEF Alone, Idle
<1> QED
  BY <1>3, <1>4, <1>6, <1>8, <1>9, <1>10

\* The rest of the other queue is sent; its head learns the tail.
LEMMA FlushKeeps ==
    ASSUME Whole, NEW b, OrderInv(b), NEW w \in Mergers, Flush(w)
    PROVE  Whole' /\ OrderInv(b)'
<1> DEFINE r == Remaining(w)
           h == merger[w].head[r]
           l == Queued(w)[r]
           t == [head |-> Alone(h), tail |-> Idle.tail, next |-> heap.next, prev |-> heap'.prev]
           m == AloneList(l)
           c == MergeInput(w, r)
<1>1. /\ order # "none" /\ hand[w] = Nil /\ merger[w].pc = "flush" /\ chan' = chan
      /\ heap' = IF h = Nil THEN heap ELSE [heap EXCEPT !.prev[h] = merger[w].tail[r]]
      /\ hand' = [hand EXCEPT ![w] = h]
      /\ merger' = [merger EXCEPT ![w].pc = "forward", ![w].head = Idle.head, ![w].tail = Idle.tail]
      /\ UNCHANGED <<order, produced, closed, splice, exported>>
  BY DEF Flush, At, With
<1>2. /\ merger \in [Mergers -> MergerTypes] /\ Stopped(w) \in 0 .. 1 /\ r \in 0 .. 1 /\ r # Stopped(w)
      /\ \A k \in 0 .. 1 : k = r \/ k = Stopped(w)
  BY DEF Whole, PipeTypes, MergerTypes, Stopped, Remaining
<1>3. PcInv(w, b) /\ Over(MergeInput(w, Stopped(w)), b) /\ merger[w].head[Stopped(w)] = Nil /\ QueueInv(w, r, b)
  BY <1>1, <1>2 DEF OrderInv, MergerInv, PcInv
<1>4. /\ Merging(Queued(w)) /\ Queued(w)[2] = <<>>
      /\ \A q \in 0 .. 2 : /\ Linked(heap.next, merger[w].head[q], Queued(w)[q])
                           /\ Queued(w)[q] \in RecordLists
                           /\ (Queued(w)[q] = <<>>) <=> (merger[w].head[q] = Nil)
                           /\ Elements(Queued(w)[q]) = Of(merger[w].head[q])
      /\ All(Queued(w)) = RecordsOf(heap.next, QueueHeads(w))
  BY QueuesAre
<1>5. /\ h \in Pointer /\ l \in RecordLists /\ Linked(heap.next, h, l) /\ Sorted(l) /\ Elements(l) = Of(h)
      /\ (l = <<>>) <=> (h = Nil)
  <2>1. h \in Pointer
    BY <1>2 DEF MergerTypes
  <2> QED
    BY <1>2, <1>4, <2>1 DEF Merging
<1>6. /\ heap \in [next : [Records -> Pointer], prev : [Records -> Pointer]]
      /\ merger[w].tail[r] \in Pointer
  BY <1>2 DEF Whole, PipeTypes, MergerTypes
<1>7. h # Nil => h \in Records /\ h \in Elements(l)
  BY <1>5, LinkedHead
<1>8. /\ heap'.next = heap.next /\ heap'.prev \in [Records -> Pointer]
      /\ \A x \in Records \ Elements(l) : heap'.prev[x] = heap.prev[x]
      /\ h # Nil => heap'.prev[h] = merger[w].tail[r]
      /\ heap' = [next |-> heap.next, prev |-> heap'.prev]
  <2> DEFINE tail == merger[w].tail[r]
  <2> HIDE DEF h, l, tail
  <2>1. CASE h = Nil
    BY <1>1, <1>6, <2>1
  <2>2. CASE h # Nil
    <3>1. heap' = [heap EXCEPT !.prev[h] = tail]
      BY <1>1, <2>2 DEF tail
    <3>2. heap' = [next |-> heap.next, prev |-> [heap.prev EXCEPT ![h] = tail]]
      BY <1>6, <3>1
    <3>3. tail \in Pointer /\ h \in Records
      BY <1>6, <1>7, <2>2 DEF tail
    <3> QED
      BY <1>6, <1>7, <2>2, <3>2, <3>3 DEF tail
  <2> QED
    BY <2>1, <2>2
<1>9. /\ Alone(h) \in [0 .. 2 -> Pointer] /\ Alone(h)[2] = h /\ (\A k \in 0 .. 1 : Alone(h)[k] = Nil)
      /\ m[2] = l /\ (\A k \in 0 .. 1 : m[k] = <<>>)
      /\ Merging(m) /\ All(m) = Elements(l)
      /\ \A q \in 0 .. 2 : Linked(heap.next, Alone(h)[q], m[q])
      /\ [Alone(h) EXCEPT ![2] = Nil] = Idle.head
  BY <1>5, AloneIs
<1>10. t \in MergeState /\ t.head = Alone(h) /\ t.next = heap.next /\ t.prev = heap'.prev
  <2>1. Idle.tail \in [0 .. 2 -> Pointer]
    BY DEF Idle, Pointer
  <2> QED
    BY <1>6, <1>8, <1>9, <2>1 DEF MergeState
<1>11. RecordsOf(heap.next, QueueHeads(w)) = Elements(l)
  <2>1. Elements(Queued(w)[Stopped(w)]) = {}
    BY <1>2, <1>3, <1>4, EmptyList
  <2>2. All(Queued(w)) = Elements(Queued(w)[r]) \cup Elements(Queued(w)[Stopped(w)])
    <3>1. (r = 0 /\ Stopped(w) = 1) \/ (r = 1 /\ Stopped(w) = 0)
      BY <1>2
    <3> QED
      BY <1>4, <3>1, EmptyList DEF All
  <2> QED
    BY <1>4, <2>1, <2>2
<1>12. /\ merger' \in [Mergers -> MergerTypes] /\ \A v \in Mergers : v # w => merger'[v] = merger[v]
  <2> DEFINE M == merger[w]
             N == [[[M EXCEPT !.pc = "forward"] EXCEPT !.head = Idle.head] EXCEPT !.tail = Idle.tail]
  <2>1. merger' = [merger EXCEPT ![w] = N]
    BY <1>1, <1>2
  <2>2. M \in MergerTypes /\ Idle.tail \in [0 .. 2 -> Pointer] /\ Idle.head \in [0 .. 2 -> Pointer]
    BY <1>2 DEF Idle, Pointer
  <2> HIDE DEF M
  <2>3. [M EXCEPT !.pc = "forward"] \in MergerTypes
    BY <2>2 DEF MergerTypes, Stages
  <2>4. [[M EXCEPT !.pc = "forward"] EXCEPT !.head = Idle.head] \in MergerTypes
    BY <2>2, <2>3 DEF MergerTypes
  <2>5. N \in MergerTypes
    BY <2>2, <2>4 DEF MergerTypes
  <2> HIDE DEF N
  <2> QED
    BY <1>2, <2>1, <2>5
<1>13. /\ merger'[w].head = Idle.head /\ merger'[w].tail = Idle.tail /\ merger'[w].pc = "forward"
       /\ merger'[w].stopped = merger[w].stopped /\ merger'[w].ok = merger[w].ok
  BY <1>1, <1>2 DEF MergerTypes
<1> HIDE DEF m
<1>14. Publishing(w, t, m, {}, {})
  <2>1. Reads(w, {}, {}) /\ QueueHeads(w) \cup {} = QueueHeads(w)
    BY <1>1 DEF Reads
  <2>2. /\ \A q \in 0 .. 2 : Linked(t.next, t.head[q], m[q])
        /\ \A x \in Records \ All(m) : t.next[x] = heap.next[x] /\ t.prev[x] = heap.prev[x]
        /\ heap' = [next |-> t.next, prev |-> t.prev] /\ hand' = [hand EXCEPT ![w] = t.head[2]]
    BY <1>1, <1>8, <1>9, <1>10
  <2>3. merger'[w].head = [t.head EXCEPT ![2] = Nil]
    BY <1>9, <1>10, <1>13
  <2> HIDE DEF t, l, h
  <2> QED
    BY <1>1, <1>9, <1>10, <1>11, <1>12, <2>1, <2>2, <2>3 DEF Publishing
<1>15. \A k : Over(MergeInput(w, k), b)' <=> Over(MergeInput(w, k), b)
  BY <1>1 DEF Over
<1>16. Stopped(w)' = Stopped(w) /\ Remaining(w)' = r
  BY <1>13 DEF Stopped, Remaining
<1>17. PcInv(w, b)'
  <2>1. \A q \in 0 .. 2 : merger'[w].head[q] = Nil /\ merger'[w].tail[q] = Nil
    BY <1>13 DEF Idle
  <2>2. ~merger[w].ok => Over(MergeInput(w, r), b)
    BY <1>3 DEF PcInv
  <2> QED
    BY <1>3, <1>13, <1>15, <1>16, <2>1, <2>2 DEF PcInv
<1>18. m[2] # <<>> => t.prev[t.head[2]] = End(m[2]) \/ Quiet(w, b)'
  <2>1. m[2] # <<>> => h # Nil /\ t.prev[t.head[2]] = merger[w].tail[r] /\ m[2] = l
    BY <1>5, <1>8, <1>9, <1>10
  <2>2. h # Nil => merger[w].tail[r] = End(l) \/ Over(c, b)
    <3>1. l = List(h)
      BY <1>2 DEF Queued
    <3>2. merger[w].pc = "flush"
      BY <1>1
    <3> HIDE DEF l
    <3> QED
      BY <1>3, <3>1, <3>2 DEF QueueInv
  <2>3. Over(c, b) => Quiet(w, b)'
    <3>1. \A k \in 0 .. 1 : Source(w, k) = MergeInput(w, k) /\ Pending(w, k)' = Nil
      <4>1. \A k \in 0 .. 1 : merger'[w].head[k] = Nil
        BY <1>13 DEF Idle
      <4> QED
        BY <4>1, Topology DEF Pending
    <3>2. Over(c, b) => \A k \in 0 .. 1 : Over(MergeInput(w, k), b)'
      BY <1>2, <1>3, <1>15
    <3> QED
      BY <3>1, <3>2 DEF Quiet
  <2> QED
    BY <2>1, <2>2, <2>3
<1>19. /\ Around(w, {}) \in SUBSET Always /\ Elsewhere(Around(w, {}), QueueHeads(w) \cup {})
       /\ Works(w, Around(w, {}), QueueHeads(w) \cup {}) /\ w \in Workers
  <2> HIDE DEF t
  <2> QED
    BY <1>14, PublishKeepsLists, WorkerKinds
<1>20. ASSUME NEW k \in 0 .. 1 PROVE Crossing(w, m, k, b) /\ TailKnown(w, m, k, b)
  <2>1. TailKnown(w, m, k, b)
    <3>1. ~Open(w, k)'
      BY <1>13 DEF Open
    <3> QED
      BY <1>13, <3>1 DEF TailKnown
  <2>2. m[k] = <<>> /\ Elements(m[k]) = {}
    BY <1>9, EmptyList
  <2>3. CASE k = Stopped(w)
    BY <1>3, <2>1, <2>2, <2>3 DEF Crossing, Ahead, Before
  <2>4. CASE k = r
    <3> DEFINE d == MergeInput(w, k)
    <3>1. d \in Inner /\ Source(w, k) = d /\ d = c
      BY <2>4, Topology, ChannelKinds
    <3>2. Content(d)' \subseteq Content(d)
      BY <1>19, <3>1, WorkerChannels
    <3>3. Ahead(Of(h), Content(d)) /\ Upto(Of(h), b[d])
      <4>1. HandInv(w, b) /\ Pending(w, k) = h
        BY <2>4, WorkerKinds DEF OrderInv, Pending
      <4>2. Passing(b[Output(w)], Of(hand[w]), Of(h), Content(d), b[d])
        BY <3>1, <4>1 DEF HandInv, Through
      <4> QED
        BY <4>2 DEF Passing, Upto
    <3>4. Elements(m[2]) = Of(h)
      BY <1>5, <1>9
    <3>5. Upto(Elements(m[2]), b[d]) /\ Ahead(Elements(m[2]), Content(d)')
      BY <3>2, <3>3, <3>4 DEF Ahead, Before
    <3>7. Crossing(w, m, k, b)
      <4> HIDE DEF r, l
      <4> QED
        BY <2>2, <3>5 DEF Crossing, Ahead, Before
    <3> QED
      BY <2>1, <3>7
  <2> QED
    BY <1>2, <2>3, <2>4
<1> HIDE DEF t
<1> QED
  BY <1>1, <1>14, <1>17, <1>18, <1>20, PublishKeepsOrder

\* A list is passed on as it is.
LEMMA ForwardKeeps ==
    ASSUME Whole, NEW b, OrderInv(b), NEW w \in Mergers, Forward(w)
    PROVE  Whole' /\ OrderInv(b)'
<1>1. PICK r \in 0 .. 1 : r = Remaining(w) /\ r # Stopped(w) /\ \A k \in 0 .. 1 : k = r \/ k = Stopped(w)
  <2>1. Stopped(w) \in 0 .. 1 /\ Remaining(w) = 1 - Stopped(w)
    BY DEF Whole, PipeTypes, MergerTypes, Stopped, Remaining
  <2>2. Remaining(w) \in 0 .. 1 /\ Remaining(w) # Stopped(w) /\ \A k \in 0 .. 1 : k = Remaining(w) \/ k = Stopped(w)
    BY <2>1
  <2> QED
    BY <2>2
<1> DEFINE c == MergeInput(w, r)
           h == Head(chan[c])
           l == List(h)
           t == [head |-> Alone(h), tail |-> Idle.tail, next |-> heap.next, prev |-> heap.prev]
           m == AloneList(l)
<1>2. /\ order # "none" /\ hand[w] = Nil /\ merger[w].pc = "forward" /\ Ready(c) /\ chan' = Received(c)
      /\ hand' = [hand EXCEPT ![w] = h]
      /\ UNCHANGED <<order, heap, produced, closed, merger, splice, exported>>
  BY <1>1 DEF Forward, At
<1>3. /\ PcInv(w, b) /\ Over(MergeInput(w, Stopped(w)), b) /\ (\A k \in 0 .. 1 : merger[w].head[k] = Nil)
      /\ merger[w].head[2] = Nil
  BY <1>2 DEF OrderInv, MergerInv, PcInv
<1>4. merger[w].ok
  BY <1>1, <1>2, <1>3 DEF PcInv, Over, Ready
<1>5. /\ h \in Records /\ l \in RecordLists /\ Linked(heap.next, h, l) /\ l # <<>> /\ Sorted(l)
      /\ Of(h) \subseteq Content(c) /\ (PrevOk(h) \/ (Tail(chan[c]) = <<>> /\ b[c] = Final))
  BY <1>2, ListArrives DEF Arrives
<1>6. /\ heap \in [next : [Records -> Pointer], prev : [Records -> Pointer]]
      /\ merger[w].head \in [0 .. 2 -> Pointer] /\ merger \in [Mergers -> MergerTypes] /\ h \in Pointer
      /\ chan \in [Channels -> Seq(Records)]
  BY <1>5 DEF Whole, PipeTypes, MergerTypes, Pointer
<1>7. /\ Alone(h) \in [0 .. 2 -> Pointer] /\ Alone(h)[2] = h /\ (\A k \in 0 .. 1 : Alone(h)[k] = Nil)
      /\ m[2] = l /\ (\A k \in 0 .. 1 : m[k] = <<>>)
      /\ Merging(m) /\ All(m) = Elements(l)
      /\ \A q \in 0 .. 2 : Linked(heap.next, Alone(h)[q], m[q])
      /\ [Alone(h) EXCEPT ![2] = Nil] = Idle.head
  BY <1>5, <1>6, AloneIs
<1>8. t \in MergeState /\ t.head = Alone(h) /\ t.next = heap.next /\ t.prev = heap.prev
  <2>1. Idle.tail \in [0 .. 2 -> Pointer]
    BY DEF Idle, Pointer
  <2> QED
    BY <1>6, <1>7, <2>1 DEF MergeState
<1>9. merger[w].head = Idle.head
  <2>1. \A q \in 0 .. 2 : merger[w].head[q] = Nil
    BY <1>3
  <2> QED
    BY <1>6, <2>1 DEF Idle
<1>10. QueueHeads(w) = {}
  BY <1>3 DEF QueueHeads
<1>11. Elements(l) = RecordsOf(heap.next, {h})
  BY DEF RecordsOf, List
<1> HIDE DEF m, t
<1>12. Publishing(w, t, m, {c}, {h})
  <2>1. Reads(w, {c}, {h}) /\ QueueHeads(w) \cup {h} = {h}
    BY <1>2, <1>10 DEF Reads
  <2>2. /\ \A q \in 0 .. 2 : Linked(t.next, t.head[q], m[q])
        /\ \A x \in Records \ All(m) : t.next[x] = heap.next[x] /\ t.prev[x] = heap.prev[x]
        /\ hand' = [hand EXCEPT ![w] = t.head[2]]
    BY <1>2, <1>7, <1>8
  <2>3. heap' = [next |-> t.next, prev |-> t.prev]
    BY <1>2, <1>6, <1>8
  <2>4. merger'[w].head = [t.head EXCEPT ![2] = Nil]
    BY <1>2, <1>7, <1>8, <1>9
  <2> HIDE DEF l, h, c
  <2> QED
    BY <1>2, <1>6, <1>7, <1>8, <1>11, <2>1, <2>2, <2>3, <2>4 DEF Publishing
<1>13. c \in Inner /\ c \in Channels /\ Source(w, r) = c
  BY Topology, ChannelKinds
<1>14. chan'[c] = Tail(chan[c]) /\ \A d \in Channels : d # c => chan'[d] = chan[d]
  BY <1>2, <1>6, <1>13 DEF Received
<1>15. Over(MergeInput(w, Stopped(w)), b)'
  <2>1. MergeInput(w, Stopped(w)) \in Channels /\ Stopped(w)' = Stopped(w)
    BY <1>1, <1>2, Topology, ChannelKinds DEF Whole, PipeTypes, MergerTypes, Stopped
  <2>2. MergeInput(w, Stopped(w)) # c
    BY <1>2, <1>3 DEF Over, Ready
  <2> QED
    BY <1>3, <1>14, <2>1, <2>2 DEF Over
<1>16. Stopped(w)' = Stopped(w) /\ Remaining(w)' = Remaining(w)
  BY <1>2 DEF Stopped, Remaining
<1>17. PcInv(w, b)'
  <2>1. merger' = merger
    BY <1>2
  <2> QED
    BY <1>2, <1>3, <1>4, <1>15, <2>1 DEF PcInv
<1>18. m[2] # <<>> => t.prev[t.head[2]] = End(m[2]) \/ Quiet(w, b)'
  <2>1. CASE PrevOk(h)
    BY <1>7, <1>8, <2>1 DEF PrevOk
  <2>2. CASE Tail(chan[c]) = <<>> /\ b[c] = Final
    <3>1. Over(c, b)'
      BY <1>14, <2>2 DEF Over
    <3>2. \A k \in 0 .. 1 : Over(MergeInput(w, k), b)'
      BY <1>1, <1>15, <1>16, <3>1
    <3>3. \A k \in 0 .. 1 : Source(w, k) = MergeInput(w, k) /\ Pending(w, k)' = Nil
      BY <1>2, <1>3, Topology DEF Pending
    <3> QED
      BY <3>2, <3>3 DEF Quiet
  <2> QED
    BY <1>5, <2>1, <2>2
<1>19. /\ Around(w, {c}) \in SUBSET Always /\ Elsewhere(Around(w, {c}), QueueHeads(w) \cup {h})
       /\ Works(w, Around(w, {c}), QueueHeads(w) \cup {h}) /\ w \in Workers
  <2> HIDE DEF c, h
  <2> QED
    BY <1>12, PublishKeepsLists, WorkerKinds
<1>20. ASSUME NEW k \in 0 .. 1 PROVE Crossing(w, m, k, b) /\ TailKnown(w, m, k, b)
  <2>1. TailKnown(w, m, k, b)
    <3>1. ~Open(w, k)' /\ merger'[w].pc = "forward"
      BY <1>2 DEF Open
    <3> QED
      BY <3>1 DEF TailKnown
  <2>2. m[k] = <<>> /\ Elements(m[k]) = {}
    BY <1>7, EmptyList
  <2>3. CASE k = Stopped(w)
    BY <1>3, <2>1, <2>2, <2>3 DEF Crossing, Ahead, Before
  <2>4. CASE k = r
    <3>1. Taken(c, b)
      <4> HIDE DEF c, h
      <4> QED
        BY <1>13, <1>14, <1>2, <1>19, WorkerChannels
    <3>2. Ahead(Of(h), Content(c)')
      BY <3>1 DEF Taken
    <3>3. Upto(Of(h), b[c])
      <4>1. ChanInv(c, b)
        BY <1>13 DEF OrderInv
      <4> QED
        BY <1>5, <4>1 DEF ChanInv, Upto
    <3>4. Elements(m[2]) = Of(h)
      BY <1>7 DEF Of
    <3>5. Crossing(w, m, r, b)
      <4>1. m[r] = <<>> /\ Elements(m[r]) = {}
        BY <2>2, <2>4
      <4> HIDE DEF h
      <4> QED
        BY <3>2, <3>3, <3>4, <4>1 DEF Crossing, Ahead, Before
    <3> QED
      BY <2>1, <2>4, <3>5
  <2> QED
    BY <1>1, <2>3, <2>4
<1> HIDE DEF c, h
<1> QED
  BY <1>2, <1>12, <1>17, <1>18, <1>20, PublishKeepsOrder

\* Merging to the end of one queue, and appending the rest of the other.
LEMMA LastKeeps ==
    ASSUME Whole, NEW b, OrderInv(b), NEW w \in Mergers, Last(w)
    PROVE  Whole' /\ OrderInv(b)'
<1> DEFINE keep == [q \in 0 .. 1 |-> 0]
           s == With(w)
           u == MergeDownTo(s, keep)
           elem == IF u.head[0] # Nil THEN u.head[0] ELSE u.head[1]
           v == AppendTo(u, 2, elem)
           t == [v EXCEPT !.head[0] = Nil, !.head[1] = Nil]
<1>1. /\ order # "none" /\ hand[w] = Nil /\ merger[w].pc = "last" /\ chan' = chan
      /\ Publish(w, t, "close") /\ UNCHANGED <<order, produced, closed, splice, exported>>
  BY DEF Last, At
<1>2. keep \in [0 .. 1 -> 0 .. 1] /\ keep[0] = 0 /\ keep[1] = 0
  OBVIOUS
<1>3. /\ PcInv(w, b) /\ merger[w].tail[2] = Nil /\ ~merger[w].ok /\ merger[w].head[Stopped(w)] # Nil
      /\ Stopped(w) \in 0 .. 1 /\ \A k \in 0 .. 1 : Over(MergeInput(w, k), b)
  <2>1. Stopped(w) \in 0 .. 1 /\ Remaining(w) = 1 - Stopped(w)
    BY DEF Whole, PipeTypes, MergerTypes, Stopped, Remaining
  <2>2. PcInv(w, b)
    BY DEF OrderInv, MergerInv
  <2>3. Over(MergeInput(w, Stopped(w)), b) /\ Over(MergeInput(w, Remaining(w)), b)
    BY <1>1, <2>2 DEF PcInv
  <2>4. \A k \in 0 .. 1 : k = Stopped(w) \/ k = Remaining(w)
    BY <2>1
  <2> QED
    BY <1>1, <2>1, <2>2, <2>3, <2>4 DEF PcInv
<1>4. /\ s \in MergeState /\ s.head = merger[w].head /\ s.tail = merger[w].tail
      /\ s.next = heap.next /\ s.prev = heap.prev
      /\ Merging(Queued(w)) /\ Queued(w)[2] = <<>>
      /\ \A q \in 0 .. 2 : /\ Linked(heap.next, merger[w].head[q], Queued(w)[q])
                           /\ Queued(w)[q] \in RecordLists
                           /\ (Queued(w)[q] = <<>>) <=> (merger[w].head[q] = Nil)
                           /\ Elements(Queued(w)[q]) = Of(merger[w].head[q])
      /\ All(Queued(w)) = RecordsOf(heap.next, QueueHeads(w))
  BY QueuesAre
<1>5. PICK l : /\ Merged(s, Queued(w), u, l, keep)
               /\ \E q \in 0 .. 1 : ~HasMoreThan(u, q, keep[q])
  <2> HIDE DEF keep
  <2> QED
    BY <1>2, LoopsMerge
<1>6. /\ u \in MergeState /\ Merging(l) /\ All(l) = All(Queued(w))
      /\ \A q \in 0 .. 2 : Linked(u.next, u.head[q], l[q]) /\ l[q] \in RecordLists
      /\ \A x \in Records \ All(l) : u.next[x] = heap.next[x] /\ u.prev[x] = heap.prev[x]
      /\ l[2] # <<>> => u.tail[2] = End(l[2])
      /\ l[2] = <<>> => u.tail[2] = Nil
      /\ l[0] # <<>> \/ l[1] # <<>>
  <2>1. Queued(w)[0] # <<>> \/ Queued(w)[1] # <<>>
    <3>1. Queued(w)[Stopped(w)] # <<>>
      BY <1>3, <1>4
    <3>2. Stopped(w) = 0 \/ Stopped(w) = 1
      BY <1>3
    <3> QED
      BY <3>1, <3>2
  <2> HIDE DEF u, s
  <2> QED
    BY <1>3, <1>4, <1>5, <2>1 DEF Merged, Merging
<1>7. PICK p \in 0 .. 1 : l[p] # <<>> /\ l[1 - p] = <<>> /\ elem = u.head[p]
  <2>1. \E q \in 0 .. 1 : l[q] = <<>>
    <3>1. PICK q \in 0 .. 1 : ~HasMoreThan(u, q, keep[q])
      BY <1>5
    <3>2. q \in 0 .. 2 /\ l[q] \in RecordLists /\ Linked(u.next, u.head[q], l[q]) /\ keep[q] = 0
      BY <1>2, <1>6
    <3> HIDE DEF u, keep
    <3>3. l[q] = <<>>
      BY <1>6, <3>1, <3>2, HasMore
    <3> QED
      BY <3>3
  <2>2. (u.head[0] = Nil) <=> (l[0] = <<>>)
    BY <1>6, LinkedHead
  <2>3. CASE l[0] # <<>>
    <3>1. l[1] = <<>>
      BY <2>1, <2>3
    <3>2. elem = u.head[0]
      BY <2>2, <2>3
    <3> HIDE DEF elem, u
    <3> QED
      BY <2>3, <3>1, <3>2
  <2>4. CASE l[0] = <<>>
    <3>1. l[1] # <<>> /\ 1 - 1 = 0
      BY <1>6, <2>4
    <3>2. elem = u.head[1]
      BY <2>2, <2>4
    <3> HIDE DEF elem, u
    <3> QED
      BY <2>4, <3>1, <3>2
  <2> QED
    BY <2>3, <2>4
<1> DEFINE r == l[p]
           m == AloneList(l[2] \o r)
<1> HIDE DEF keep
<1>8. /\ Elements(l[2]) \cap Elements(r) = {} /\ Ahead(Elements(l[2]), Elements(r)) /\ Sorted(l[2]) /\ Sorted(r)
      /\ l[2] \in RecordLists /\ r \in RecordLists /\ Linked(u.next, elem, r)
  <2>1. Ahead(Elements(l[2]), Elements(r)) /\ Sorted(l[2]) /\ Sorted(r) /\ l[2] \in RecordLists /\ r \in RecordLists
    BY <1>6 DEF Merging
  <2>2. Elements(l[2]) \cap Elements(r) = {}
    BY <1>6 DEF Merging
  <2> HIDE DEF u, elem
  <2> QED
    BY <1>6, <1>7, <2>1, <2>2
<1> HIDE DEF u, elem, s
<1>9. Appended(u, v, 2, elem, l[2], r)
  <2>1. u.tail[2] = IF l[2] = <<>> THEN Nil ELSE End(l[2])
    BY <1>6
  <2>2. Linked(u.next, u.head[2], l[2]) /\ r # <<>>
    BY <1>6, <1>7
  <2> DEFINE x == l[2]
  <2>3. /\ u.tail[2] = (IF x = <<>> THEN Nil ELSE End(x)) /\ Linked(u.next, u.head[2], x) /\ r # <<>>
        /\ Elements(x) \cap Elements(r) = {} /\ x \in RecordLists /\ r \in RecordLists
        /\ Linked(u.next, elem, r) /\ u \in MergeState /\ 2 \in 0 .. 2
    BY <1>6, <1>8, <2>1, <2>2
  <2> HIDE DEF r, x
  <2>4. Appended(u, AppendTo(u, 2, elem), 2, elem, x, r)
    BY <2>3, AppendLinks
  <2> QED
    BY <2>4 DEF x
<1>10. /\ v \in MergeState /\ l[2] \o r \in RecordLists /\ Linked(v.next, v.head[2], l[2] \o r)
       /\ Elements(l[2] \o r) = Elements(l[2]) \cup Elements(r)
       /\ v.head[2] # Nil /\ v.prev = u.prev
       /\ \A x \in Records \ Elements(l[2]) : v.next[x] = u.next[x]
  BY <1>9 DEF Appended
<1> HIDE DEF v
<1>11. t \in MergeState /\ t.head = Alone(v.head[2]) /\ t.next = v.next /\ t.prev = v.prev /\ t.tail = v.tail
  <2>1. v.head \in [0 .. 2 -> Pointer] /\ v.tail \in [0 .. 2 -> Pointer] /\ Nil \in Pointer
        /\ v = [head |-> v.head, tail |-> v.tail, next |-> v.next, prev |-> v.prev]
    BY <1>10 DEF MergeState, Pointer
  <2>2. t = [head |-> [[v.head EXCEPT ![0] = Nil] EXCEPT ![1] = Nil], tail |-> v.tail, next |-> v.next, prev |-> v.prev]
    <3> DEFINE a == v.head
               z == v.tail
               n == v.next
               y == v.prev
    <3>1. v = [head |-> a, tail |-> z, next |-> n, prev |-> y]
      BY <2>1
    <3>2. t = [[v EXCEPT !.head = [v.head EXCEPT ![0] = Nil]] EXCEPT !.head = [[v.head EXCEPT ![0] = Nil] EXCEPT ![1] = Nil]]
      BY <3>1
    <3> HIDE DEF a, z, n, y, t
    <3>3. v.head = a /\ v.tail = z /\ v.next = n /\ v.prev = y
      BY <3>1
    <3>4. t = [head |-> [[a EXCEPT ![0] = Nil] EXCEPT ![1] = Nil], tail |-> z, next |-> n, prev |-> y]
      BY <3>1, <3>2, <3>3
    <3> QED
      BY <3>3, <3>4
  <2>3. [[v.head EXCEPT ![0] = Nil] EXCEPT ![1] = Nil] = Alone(v.head[2])
    <3>1. \A q \in 0 .. 2 : q = 0 \/ q = 1 \/ q = 2
      OBVIOUS
    <3> QED
      BY <2>1, <3>1 DEF Alone
  <2>4. Alone(v.head[2]) \in [0 .. 2 -> Pointer]
    BY <2>1 DEF Alone
  <2>5. v.next \in [Records -> Pointer] /\ v.prev \in [Records -> Pointer]
    BY <1>10 DEF MergeState
  <2> HIDE DEF t
  <2> QED
    BY <2>1, <2>2, <2>3, <2>4, <2>5 DEF MergeState
<1>12. /\ Alone(v.head[2])[2] = v.head[2] /\ (\A k \in 0 .. 1 : Alone(v.head[2])[k] = Nil)
       /\ m[2] = l[2] \o r /\ (\A k \in 0 .. 1 : m[k] = <<>>)
       /\ Merging(m) /\ All(m) = Elements(l[2] \o r)
       /\ \A q \in 0 .. 2 : Linked(v.next, Alone(v.head[2])[q], m[q])
  <2>1. v.head[2] \in Pointer
    BY <1>10 DEF MergeState
  <2>2. Sorted(l[2] \o r)
    BY <1>8, SortedConcat
  <2> DEFINE x == l[2] \o r
             h == v.head[2]
             n == v.next
  <2>3. h \in Pointer /\ x \in RecordLists /\ Sorted(x) /\ Linked(n, h, x)
    BY <1>10, <2>1, <2>2
  <2> HIDE DEF x, h, n
  <2>4. /\ Alone(h)[2] = h /\ (\A k \in 0 .. 1 : Alone(h)[k] = Nil)
        /\ AloneList(x)[2] = x /\ (\A k \in 0 .. 1 : AloneList(x)[k] = <<>>)
        /\ Merging(AloneList(x)) /\ All(AloneList(x)) = Elements(x)
        /\ \A q \in 0 .. 2 : Linked(n, Alone(h)[q], AloneList(x)[q])
        /\ Alone(h) \in [0 .. 2 -> Pointer] /\ [Alone(h) EXCEPT ![2] = Nil] = Idle.head
    BY <2>3, AloneIs
  <2>5. m = AloneList(x)
    BY DEF x
  <2> QED
    BY <2>4, <2>5 DEF x, h, n
<1> HIDE DEF m, t
<1>13. All(m) = All(l)
  <2>1. Elements(l[1 - p]) = {}
    BY <1>7, EmptyList
  <2>2. (p = 0 /\ 1 - p = 1) \/ (p = 1 /\ 1 - p = 0)
    OBVIOUS
  <2> QED
    BY <1>10, <1>12, <2>1, <2>2 DEF All
<1>14. /\ All(m) = RecordsOf(heap.next, QueueHeads(w) \cup {})
       /\ \A x \in Records \ All(m) : t.next[x] = heap.next[x] /\ t.prev[x] = heap.prev[x]
  <2>1. Elements(l[2]) \subseteq All(l)
    BY DEF All
  <2> QED
    BY <1>4, <1>6, <1>10, <1>11, <1>13, <2>1
<1>15. Reads(w, {}, {}) /\ "close" \in Stages
  BY <1>1 DEF Reads, Stages
<1>16. /\ \A q \in 0 .. 2 : Linked(t.next, t.head[q], m[q])
       /\ t.head[2] = Nil => t.tail[2] = Nil
  BY <1>10, <1>11, <1>12
<1>17. Publishing(w, t, m, {}, {}) /\ Goes(w, t, "close")
  BY <1>1, <1>11, <1>12, <1>14, <1>15, <1>16, PublishIs
<1>18. \A k \in 0 .. 1 : merger'[w].head[k] = Nil
  BY <1>11, <1>12, <1>17 DEF Goes
<1>19. \A k : Over(MergeInput(w, k), b)' <=> Over(MergeInput(w, k), b)
  BY <1>1 DEF Over
<1>20. PcInv(w, b)'
  <2>1. /\ merger'[w].pc = "close" /\ merger'[w].stopped = merger[w].stopped /\ ~merger'[w].ok
        /\ merger'[w].head[2] = Nil /\ merger'[w].tail[2] = Nil
    BY <1>3, <1>17 DEF Goes
  <2>2. Stopped(w)' = Stopped(w) /\ Remaining(w)' = Remaining(w) /\ Remaining(w) \in 0 .. 1
    BY <1>3, <2>1 DEF Stopped, Remaining
  <2>3. Over(MergeInput(w, Stopped(w)), b)' /\ Over(MergeInput(w, Remaining(w)), b)'
    BY <1>3, <1>19, <2>2
  <2> QED
    BY <1>18, <2>1, <2>2, <2>3 DEF PcInv
<1>21. Quiet(w, b)'
  <2>1. \A k \in 0 .. 1 : Source(w, k) = MergeInput(w, k) /\ Pending(w, k)' = Nil
    BY <1>18, Topology DEF Pending
  <2> QED
    BY <1>3, <1>19, <2>1 DEF Quiet
<1>22. ASSUME NEW k \in 0 .. 1 PROVE Crossing(w, m, k, b) /\ TailKnown(w, m, k, b)
  <2>1. m[k] = <<>> /\ Elements(m[k]) = {}
    BY <1>12, EmptyList
  <2>2. Crossing(w, m, k, b)
    BY <1>3, <2>1 DEF Crossing, Ahead, Before
  <2>3. merger'[w].pc = "close" /\ ~Open(w, k)'
    BY <1>17 DEF Goes, Open
  <2> QED
    BY <2>2, <2>3 DEF TailKnown
<1> QED
  BY <1>1, <1>17, <1>20, <1>21, <1>22, PublishKeepsOrder

--------------------------------------------------------------------------------
(* 16. Sending lists and closing channels                                    *)

\* Lists stay as they are while none is relinked.
LEMMA HeapStays ==
    ASSUME heap' = heap
    PROVE  \A h : Stays(h) /\ List(h)' = List(h) /\ Of(h)' = Of(h)
BY DEF Stays, List, Of

\* A step that moves no list.
LEMMA NothingMoves ==
    ASSUME Whole, UNCHANGED <<order, heap, produced, chan, hand, merger, splice, exported>>,
           closed' \subseteq Channels
    PROVE  Whole'
<1> DEFINE N == [p \in {} |-> {}]
<1>1. PipeTypes'
  BY DEF Whole, PipeTypes
<1>2. Heads({}, N) = {} /\ Apart({}, N)
  BY DEF Heads, Apart
<1>3. RecordsOf(heap'.next, {}) = {} /\ RecordsOf(heap.next, {}) = {}
  BY DEF RecordsOf
<1>4. Relinks(heap.next, heap'.next, {}, {}, {})
  BY <1>3 DEF Relinks, Separate
<1>5. Produced' = Produced \cup {}
  BY DEF Produced
<1>6. {} \in SUBSET Always /\ {} \in SUBSET Records
  OBVIOUS
<1> HIDE DEF N
<1> QED
  BY <1>1, <1>2, <1>3, <1>4, <1>5, <1>6, InnerStep

\* A step of worker g that leaves its queues alone and relinks nothing.
LEMMA FlowStep ==
    ASSUME NEW b, OrderInv(b), NEW d \in Bounds, Whole, Whole', order # "none", NEW g \in Workers,
           UNCHANGED <<order, heap, produced, merger, splice, exported>>,
           \A c \in Inner : ChanInv(c, d)' /\ Feeds(c, b, d) /\ (c = Output(g) \/ d[c] = b[c]),
           \A f \in Workers : f # g => hand'[f] = hand[f],
           \A e \in Exporters : chan'[Out(e)] = chan[Out(e)],
           closed \subseteq closed', g \in Sorters => order = "expiry", HandInv(g, d)'
    PROVE  OrderInv(d)'
<1>1. /\ b \in Bounds /\ d \in [Inner -> 0 .. Final]
      /\ \A f \in Workers : HandInv(f, b)
      /\ \A w \in Mergers : MergerInv(w, b) /\ w \in Workers
      /\ \A t \in Tables : TableInv(t, b)
      /\ \A e \in Exporters : EndInv(e, b)
  BY WorkerKinds DEF OrderInv, Bounds
<1>2. \A h : Stays(h) /\ List(h)' = List(h)
  BY HeapStays
<1>3. ASSUME NEW f \in Workers, f # g PROVE HandInv(f, d)'
  <2>1. \A k \in 0 .. 1 : Feeds(Source(f, k), b, d)
    BY Topology
  <2>2. Output(f) \in Inner /\ Output(f) # Output(g)
    BY <1>3, Topology, ChannelKinds
  <2>3. d[Output(f)] = b[Output(f)]
    BY <2>2
  <2>4. \A k \in 0 .. 1 : Pending(f, k)' = Pending(f, k)
    BY DEF Pending
  <2> QED
    BY <1>1, <1>2, <1>3, <2>1, <2>3, <2>4, HandStays
<1>4. ASSUME NEW w \in Mergers PROVE MergerInv(w, d)'
  <2>1. \A k \in 0 .. 1 : Feeds(MergeInput(w, k), b, d)
    BY Topology, ChannelKinds
  <2>2. merger'[w] = merger[w]
    OBVIOUS
  <2> QED
    BY <1>1, <1>2, <2>1, <2>2, MergerStays
<1>5. ASSUME NEW t \in Tables PROVE TableInv(t, d)'
  <2>1. order \in Orders
    BY DEF Whole, PipeTypes
  <2>2. In(t) \in Inner /\ In(t) # Output(g) /\ In(t)' = In(t)
    BY <2>1, TablesWrite, WorkerKinds DEF In
  <2>3. d[In(t)] = b[In(t)] /\ produced' = produced
    BY <2>2
  <2> QED
    BY <1>1, <2>2, <2>3 DEF TableInv, Above
<1>6. ASSUME NEW e \in Exporters PROVE EndInv(e, d)'
  <2>1. Feeds(SortedQueue, b, d)
    BY Topology, ChannelKinds
  <2>2. splice' = splice /\ exported'[e] = exported[e] /\ chan'[Out(e)] = chan[Out(e)]
    OBVIOUS
  <2> QED
    BY <1>1, <1>2, <2>1, <2>2, EndStays
<1>7. Sorted(List(splice.list))'
  <2>1. splice' = splice /\ Sorted(List(splice.list))
    BY DEF OrderInv
  <2> QED
    BY <1>2, <2>1 DEF List, Stays
<1>8. order' # "expiry" => \A s \in Sorters : hand'[s] = Nil /\ Over(SortInput(s), d)'
  <2> SUFFICES ASSUME order # "expiry", NEW s \in Sorters PROVE hand'[s] = Nil /\ Over(SortInput(s), d)'
    OBVIOUS
  <2>1. s # g /\ s \in Workers /\ Source(s, 0) = SortInput(s) /\ SortInput(s) \in Inner
    BY WorkerKinds, Topology
  <2>2. hand[s] = Nil /\ Over(SortInput(s), b)
    BY DEF OrderInv
  <2>3. Feeds(SortInput(s), b, d)
    BY <2>1
  <2> QED
    BY <2>1, <2>2, <2>3 DEF Feeds, Over
<1>9. \A c \in Inner : ChanInv(c, d)'
  OBVIOUS
<1>10. \A f \in Workers : HandInv(f, d)'
  BY <1>3
<1> QED
  BY <1>1, <1>4, <1>5, <1>6, <1>7, <1>8, <1>9, <1>10 DEF OrderInv

\* A worker that gets nothing any more closes the channel it writes to.
LEMMA CloseKeeps ==
    ASSUME Whole, NEW b, OrderInv(b), order # "none", NEW g \in Workers, g \in Sorters => order = "expiry",
           hand[g] = Nil, Quiet(g, b), CloseOutput(g)
    PROVE  Whole' /\ \E d : OrderInv(d)'
<1>1. PICK d : d = [b EXCEPT ![Output(g)] = Final]
  OBVIOUS
<1>2. b \in [Inner -> 0 .. Final] /\ Output(g) \in Inner /\ Output(g) \in Channels /\ Final \in 0 .. Final
  BY Topology, ChannelKinds, SizesAssumption DEF OrderInv, Final
<1>3. d \in [Inner -> 0 .. Final] /\ d[Output(g)] = Final /\ \A c \in Inner : c # Output(g) => d[c] = b[c]
  BY <1>1, <1>2
<1>4. /\ closed' = closed \cup {Output(g)}
      /\ UNCHANGED <<order, heap, produced, chan, hand, merger, splice, exported>>
  BY DEF CloseOutput
<1>5. Whole'
  <2>1. closed' \subseteq Channels
    BY <1>2, <1>4 DEF Whole, PipeTypes
  <2> QED
    BY <1>4, <2>1, NothingMoves
<1>6. \A h : Stays(h) /\ List(h)' = List(h) /\ Of(h)' = Of(h)
  BY <1>4, HeapStays
<1>7. ASSUME NEW c \in Inner PROVE ChanInv(c, d)' /\ Feeds(c, b, d) /\ (c = Output(g) \/ d[c] = b[c])
  <2>1. ChanInv(c, b) /\ b \in Bounds /\ d \in Bounds
    BY <1>2, <1>3 DEF OrderInv, Bounds
  <2>2. chan'[c] = chan[c] /\ ((d[c] = b[c] /\ (c \in closed' => c \in closed)) \/ d[c] = Final)
    BY <1>3, <1>4
  <2> QED
    BY <1>3, <1>6, <2>1, <2>2, ChanStays
<1>8. HandInv(g, d)'
  <2>1. \A k \in 0 .. 1 : /\ Source(g, k) \in Inner /\ Source(g, k) # Output(g)
                          /\ chan[Source(g, k)] = <<>> /\ b[Source(g, k)] = Final /\ Pending(g, k) = Nil
    BY Topology DEF Quiet, Over
  <2>2. \A k \in 0 .. 1 : /\ chan'[Source(g, k)] = <<>> /\ d[Source(g, k)] = Final /\ Pending(g, k)' = Nil
    BY <1>3, <1>4, <2>1 DEF Pending
  <2>3. hand'[g] = Nil /\ Of(Nil)' = {} /\ List(Nil)' = <<>>
    BY <1>4, NilList
  <2>4. ASSUME NEW k \in 0 .. 1 PROVE Through(g, k, d)'
    <3>1. Content(Source(g, k))' = {}
      BY <2>2 DEF Content
    <3>2. Of(hand[g])' = {} /\ Of(Pending(g, k))' = {}
      BY <2>2, <2>3 DEF Of, List
    <3>3. Passing(Final, {}, {}, {}, Final)
      BY SizesAssumption DEF Passing, Ahead, Before, Upto, Final
    <3> QED
      BY <1>3, <2>2, <3>1, <3>2, <3>3 DEF Through
  <2>5. Sorted(List(hand[g]))'
    BY <2>3, SortedOne DEF List
  <2> QED
    BY <2>3, <2>4, <2>5 DEF HandInv
<1>9. closed \subseteq closed' /\ \A e \in Exporters : chan'[Out(e)] = chan[Out(e)]
  BY <1>4
<1>10. OrderInv(d)'
  BY <1>3, <1>4, <1>5, <1>7, <1>8, <1>9, FlowStep DEF Bounds
<1> QED
  BY <1>5, <1>10

\* A merge worker is at its end.
LEMMA MergeDoneKeeps ==
    ASSUME Whole, NEW b, OrderInv(b), NEW w \in Mergers, MergeDone(w)
    PROVE  Whole' /\ \E d : OrderInv(d)'
<1>1. /\ order # "none" /\ hand[w] = Nil /\ CloseOutput(w)
      /\ \/ merger[w].pc = "close"
         \/ merger[w].pc = "forward" /\ Ended(MergeInput(w, Remaining(w)))
  BY DEF MergeDone, At
<1>2. /\ Over(MergeInput(w, Stopped(w)), b) /\ (~merger[w].ok => Over(MergeInput(w, Remaining(w)), b))
      /\ (merger[w].pc = "close" => ~merger[w].ok) /\ \A k \in 0 .. 1 : merger[w].head[k] = Nil
  BY <1>1 DEF OrderInv, MergerInv, PcInv
<1>3. /\ Stopped(w) \in 0 .. 1 /\ Remaining(w) = 1 - Stopped(w) /\ merger[w].ok \in BOOLEAN
      /\ \A k \in 0 .. 1 : k = Stopped(w) \/ k = Remaining(w)
  BY DEF Whole, PipeTypes, MergerTypes, Stopped, Remaining
<1>4. Over(MergeInput(w, Remaining(w)), b)
  <2>1. CASE merger[w].pc = "close"
    BY <1>2, <2>1
  <2>2. CASE Ended(MergeInput(w, Remaining(w)))
    <3>1. MergeInput(w, Remaining(w)) \in Inner
      BY <1>3, Topology, ChannelKinds
    <3>2. ChanInv(MergeInput(w, Remaining(w)), b)
      BY <3>1 DEF OrderInv
    <3> QED
      BY <2>2, <3>2 DEF ChanInv, Ended, Over
  <2> QED
    BY <1>1, <2>1, <2>2
<1>5. Quiet(w, b)
  <2>1. \A k \in 0 .. 1 : Source(w, k) = MergeInput(w, k) /\ Pending(w, k) = Nil
    BY <1>2, Topology DEF Pending
  <2>2. \A k \in 0 .. 1 : Over(MergeInput(w, k), b)
    BY <1>2, <1>3, <1>4
  <2> QED
    BY <2>1, <2>2 DEF Quiet
<1>6. w \in Workers /\ w \notin Sorters
  BY WorkerKinds
<1> QED
  BY <1>1, <1>5, <1>6, CloseKeeps

\* A sort worker is at its end.
LEMMA SortDoneKeeps ==
    ASSUME Whole, NEW b, OrderInv(b), NEW s \in Sorters, SortDone(s)
    PROVE  Whole' /\ \E d : OrderInv(d)'
<1>1. order = "expiry" /\ hand[s] = Nil /\ Ended(SortInput(s)) /\ CloseOutput(s)
  BY DEF SortDone
<1>2. s \in Workers /\ s \notin Mergers /\ \A k \in 0 .. 1 : Source(s, k) = SortInput(s) /\ SortInput(s) \in Inner
  BY WorkerKinds, Topology
<1>3. SortInput(s) \in Inner
  <2>1. 0 \in 0 .. 1
    OBVIOUS
  <2> QED
    BY <1>2, <2>1
<1>4. Over(SortInput(s), b)
  BY <1>1, <1>3 DEF OrderInv, ChanInv, Ended, Over
<1>5. Quiet(s, b)
  BY <1>2, <1>4 DEF Quiet, Pending
<1> QED
  BY <1>1, <1>2, <1>5, CloseKeeps

\* A worker sends the list in its hand.
LEMMA SendKeeps ==
    ASSUME Whole, NEW b, OrderInv(b), NEW g \in Workers, order # "none", g \in Sorters => order = "expiry", Send(g)
    PROVE  Whole' /\ \E d : OrderInv(d)'
<1> DEFINE h == hand[g]
           o == Output(g)
           l == List(h)
<1>1. /\ h # Nil /\ chan' = [chan EXCEPT ![o] = Append(@, h)] /\ hand' = [hand EXCEPT ![g] = Nil]
      /\ UNCHANGED <<order, heap, produced, closed, merger, splice, exported>>
  BY DEF Send
<1>2. /\ o \in Inner /\ o \in Channels /\ \A k \in 0 .. 1 : Source(g, k) \in Inner /\ Source(g, k) # o
      /\ \A e \in Exporters : Out(e) # o
  BY Topology, ChannelKinds
<1>3. /\ hand \in [Workers -> Pointer] /\ chan \in [Channels -> Seq(Records)] /\ Different(chan[o])
      /\ chan[o] \in Seq(Records) /\ h \in Pointer
  BY <1>2 DEF Whole, PipeTypes
<1>4. 1 \in Exporters /\ View(1)
  BY SizesAssumption DEF Exporters, Whole
<1>5. /\ Hand(g) \in Places(1) /\ h \in HeadsAt(Hand(g)) /\ o \in Places(1) /\ Hand(g) # o
      /\ Hand(g) \in Always /\ o \in Always /\ HeadsAt(o) = Elements(chan[o]) /\ HeadsAt(Hand(g)) = {h}
  BY <1>1, <1>2, <1>4, PlacesAre, HeadsAre
<1>6. /\ h \in Records /\ l \in RecordLists /\ Linked(heap.next, h, l) /\ l # <<>> /\ h \in Elements(l)
      /\ \A x \in Elements(chan[o]) : x # h
  BY <1>4, <1>5, HeadIs DEF Of
<1>7. /\ Append(chan[o], h) \in Seq(Records) /\ Elements(Append(chan[o], h)) = Elements(chan[o]) \cup {h}
      /\ Different(Append(chan[o], h))
  BY <1>3, <1>6, AppendOf
<1>8. /\ hand'[g] = Nil /\ (\A f \in Workers : f # g => hand'[f] = hand[f]) /\ hand' \in [Workers -> Pointer]
      /\ chan'[o] = Append(chan[o], h) /\ (\A c \in Channels : c # o => chan'[c] = chan[c])
      /\ chan' \in [Channels -> Seq(Records)]
  BY <1>1, <1>2, <1>3, <1>7 DEF Pointer
<1> HIDE DEF l
<1>9. Whole'
  <2> DEFINE C == {Hand(g), o}
             N == [p \in C |-> IF p = o THEN {h} ELSE {}]
  <2>1. PipeTypes'
    BY <1>1, <1>8 DEF Whole, PipeTypes
  <2>2. C \in SUBSET Always /\ {} \in SUBSET Records
    BY <1>5
  <2>3. N[o] = {h} /\ N[Hand(g)] = {} /\ Heads(C, N) = {h} /\ Apart(C, N)
    BY <1>5 DEF Heads, Apart
  <2>4. /\ HeadsAt(o)' = Elements(chan'[o])
        /\ \A p : p = Hand(g) => HeadsAt(p)' = {hand'[g]} \ {Nil}
    BY <1>2, <1>4, HeadsAre
  <2>5. \A p \in C : HeadsAt(p)' = (HeadsAt(p) \ {h}) \cup N[p]
    <3>1. HeadsAt(o)' = (HeadsAt(o) \ {h}) \cup {h}
      BY <1>5, <1>7, <1>8, <2>4
    <3>2. \A p : p = Hand(g) => HeadsAt(p)' = {}
      BY <1>8, <2>4
    <3> HIDE DEF N
    <3> QED
      BY <1>5, <2>3, <3>1, <3>2
  <2>6. \A f \in Workers : Hand(f) \in C \/ hand'[f] = hand[f]
    BY <1>8
  <2>7. \A c \in Channels \ C : chan'[c] = chan[c]
    BY <1>8
  <2>8. \A c \in C : c \in Channels => Different(chan'[c])
    <3>1. Hand(g) \notin Channels
      BY <1>4, PlacesAre
    <3> QED
      BY <1>7, <1>8, <3>1
  <2>9. /\ Relinks(heap.next, heap'.next, {h}, {h}, {})
        /\ RecordsOf(heap'.next, {h}) = RecordsOf(heap.next, {h}) \cup {}
    <3>1. Separate(heap.next, {h})
      BY <1>6 DEF Separate
    <3> QED
      BY <1>1, <3>1 DEF Relinks
  <2>10. Produced' = Produced \cup {}
    BY <1>1 DEF Produced
  <2>11. /\ Relinks(heap.next, heap'.next, {h}, Heads(C, N), {})
         /\ RecordsOf(heap'.next, Heads(C, N)) = RecordsOf(heap.next, {h}) \cup {}
         /\ \A x \in Records \ (RecordsOf(heap.next, {h}) \cup {}) : heap'.prev[x] = heap.prev[x]
         /\ {} \cap Produced = {} /\ splice' = splice /\ exported' = exported
         /\ \A w \in Mergers, k \in 0 .. 1 : QueueOf(w, k) \in C \/ merger'[w].head[k] = merger[w].head[k]
    BY <1>1, <2>3, <2>9
  <2>12. \A x \in {h} : \E p \in C : x \in HeadsAt(p)
    BY <1>5
  <2> DEFINE D == {h}
             F == {}
  <2>13. /\ Relinks(heap.next, heap'.next, D, Heads(C, N), F) /\ F \in SUBSET Records
         /\ RecordsOf(heap'.next, Heads(C, N)) = RecordsOf(heap.next, D) \cup F
         /\ \A x \in Records \ (RecordsOf(heap.next, D) \cup F) : heap'.prev[x] = heap.prev[x]
         /\ F \cap Produced = {} /\ Produced' = Produced \cup F
         /\ \A p \in C : HeadsAt(p)' = (HeadsAt(p) \ D) \cup N[p]
         /\ (\A x \in D : \E p \in C : x \in HeadsAt(p))
         /\ splice' = splice /\ exported' = exported
         /\ (\A w \in Mergers, k \in 0 .. 1 : QueueOf(w, k) \in C \/ merger'[w].head[k] = merger[w].head[k])
         /\ C \in SUBSET Always /\ Apart(C, N)
    BY <2>2, <2>3, <2>5, <2>10, <2>11, <2>12
  <2> HIDE DEF N, C, D, F, h
  <2> QED
    BY <2>13, <2>1, <2>6, <2>7, <2>8, InnerStep
<1>10. \A x : Stays(x) /\ List(x)' = List(x) /\ Of(x)' = Of(x)
  BY <1>1, HeapStays
<1>11. /\ HandInv(g, b) /\ Sorted(l) /\ (PrevOk(h) \/ Quiet(g, b)) /\ b \in [Inner -> 0 .. Final]
       /\ \A k \in 0 .. 1 : Passing(b[o], Elements(l), Of(Pending(g, k)), Content(Source(g, k)), b[Source(g, k)])
  BY <1>1 DEF OrderInv, HandInv, Through, Of, l
<1>12. PICK v \in 0 .. Final : /\ b[o] <= v /\ Upto(Elements(l), v) /\ Before({b[o]}, Elements(l))
                               /\ (heap.prev[h] = End(l) \/ v = Final)
                               /\ \A k \in 0 .. 1 :
                                     Passing(v, {}, Of(Pending(g, k)), Content(Source(g, k)), b[Source(g, k)])
  <2>1. Len(l) \in Nat /\ Len(l) # 0 /\ End(l) \in Elements(l) /\ End(l) \in Records
        /\ (\A x \in Elements(l) : \E i \in 1 .. Len(l) : x = l[i]) /\ Elements(l) \subseteq Records
    BY <1>6, ListTypes, EndIs
  <2>2. Upto(Elements(l), End(l))
    <3> SUFFICES ASSUME Ordered PROVE \A x \in Elements(l) : x <= End(l)
      BY DEF Upto
    <3> DEFINE n == Len(l)
    <3>1. n \in Nat /\ n # 0 /\ End(l) = l[n] /\ \A i \in 1 .. n : i < n => l[i] < l[n]
      BY <1>11, <2>1 DEF Sorted, Rising, End
    <3>2. \A x \in Elements(l) : \E i \in 1 .. n : x = l[i]
      BY <2>1
    <3>3. \A x \in Elements(l) : x \in Nat
      BY <2>1 DEF Records
    <3> HIDE DEF n
    <3>4. ASSUME NEW x \in Elements(l) PROVE x <= End(l)
      <4>1. PICK i \in 1 .. n : x = l[i]
        BY <3>2, <3>4
      <4>2. i = n \/ i < n
        BY <3>1
      <4>3. End(l) \in Nat /\ x \in Nat
        BY <2>1, <3>3, <3>4 DEF Records
      <4> QED
        BY <3>1, <4>1, <4>2, <4>3
    <3> QED
      BY <3>4
  <2>3. Before({b[o]}, Elements(l)) /\ b[o] \in 0 .. Final
    <3>1. 0 \in 0 .. 1
      OBVIOUS
    <3> QED
      BY <1>2, <1>11, <3>1 DEF Passing, Ahead, Before
  <2>4. CASE PrevOk(h) /\ Ordered
    <3>1. End(l) \in 0 .. Final /\ b[o] < End(l) /\ heap.prev[h] = End(l)
      BY <2>1, <2>3, <2>4, SizesAssumption DEF Ahead, Before, Records, Final, PrevOk, l
    <3>2. b[o] <= End(l)
      BY <2>3, <3>1
    <3>3. \A k \in 0 .. 1 : Passing(End(l), {}, Of(Pending(g, k)), Content(Source(g, k)), b[Source(g, k)])
      BY <1>11, <2>1, <2>4 DEF Passing, Ahead, Before, Upto
    <3> QED
      BY <2>2, <2>3, <3>1, <3>2, <3>3
  <2>6. CASE PrevOk(h) /\ ~Ordered
    <3>1. heap.prev[h] = End(l) /\ b[o] <= b[o] /\ Upto(Elements(l), b[o])
      BY <2>3, <2>6, SizesAssumption DEF PrevOk, Upto, Final, l
    <3>2. \A k \in 0 .. 1 : Passing(b[o], {}, Of(Pending(g, k)), Content(Source(g, k)), b[Source(g, k)])
      BY <1>11, <2>6 DEF Passing, Ahead, Before, Upto
    <3> QED
      BY <2>3, <3>1, <3>2
  <2>5. CASE Quiet(g, b)
    <3>1. Final \in 0 .. Final /\ b[o] <= Final /\ Upto(Elements(l), Final)
      BY <2>1, <2>3, SizesAssumption DEF Upto, Records, Final
    <3>2. ASSUME NEW k \in 0 .. 1
          PROVE  Passing(Final, {}, Of(Pending(g, k)), Content(Source(g, k)), b[Source(g, k)])
      <4>1. chan[Source(g, k)] = <<>> /\ b[Source(g, k)] = Final /\ Pending(g, k) = Nil
        BY <2>5 DEF Quiet, Over
      <4>2. Content(Source(g, k)) = {} /\ Of(Pending(g, k)) = {}
        BY <4>1, NilList DEF Content
      <4>3. Passing(Final, {}, {}, {}, Final)
        BY SizesAssumption DEF Passing, Ahead, Before, Upto, Final
      <4> QED
        BY <4>1, <4>2, <4>3
    <3> QED
      BY <2>3, <3>1, <3>2
  <2> QED
    BY <1>11, <2>4, <2>5, <2>6
<1>13. PICK d : d = [b EXCEPT ![o] = v]
  OBVIOUS
<1>14. d \in Bounds /\ b \in Bounds /\ d[o] = v /\ b[o] <= d[o] /\ \A c \in Inner : c # o => d[c] = b[c]
  BY <1>2, <1>11, <1>12, <1>13 DEF Bounds
<1>15. ASSUME NEW c \in Inner PROVE ChanInv(c, d)' /\ Feeds(c, b, d) /\ (c = o \/ d[c] = b[c])
  <2>1. ChanInv(c, b) /\ (c \in closed' => c \in closed) /\ c \in Channels
    BY <1>1, ChannelKinds DEF OrderInv
  <2>2. CASE c = o
    <3>1. o[1] = "tree"
      BY Topology, ChannelKinds
    <3>2. Fits(o, l)
      BY <1>11, <3>1 DEF Fits
    <3>3. Chain(heap'.next, h) = l /\ heap'.prev[h] = heap.prev[h]
      BY <1>1 DEF l, List
    <3>4. ChanInv(o, b) /\ (o \in closed' => o \in closed)
      BY <2>1, <2>2
    <3>5. Before({b[o]}, Elements(l)) /\ Upto(Elements(l), d[o]) /\ (heap'.prev[h] = End(l) \/ d[o] = Final)
      BY <1>12, <1>14, <3>3
    <3> HIDE DEF h, o
    <3> QED
      BY <1>2, <1>6, <1>8, <1>10, <1>14, <2>2, <3>2, <3>3, <3>4, <3>5, ChanSends
  <2>3. CASE c # o
    <3>1. chan'[c] = chan[c] /\ d[c] = b[c]
      BY <1>8, <1>14, <2>1, <2>3
    <3> QED
      BY <1>10, <1>14, <2>1, <3>1, ChanStays
  <2> QED
    BY <2>2, <2>3
<1>16. HandInv(g, d)'
  <2>1. ASSUME NEW k \in 0 .. 1 PROVE Through(g, k, d)'
    <3>1. Source(g, k) \in Inner /\ Source(g, k) # o /\ Source(g, k) \in Channels
      BY <1>2, ChannelKinds
    <3>2. chan'[Source(g, k)] = chan[Source(g, k)] /\ d[Source(g, k)] = b[Source(g, k)]
      BY <1>8, <1>14, <3>1
    <3>3. Content(Source(g, k))' = Content(Source(g, k))
      BY <1>10, <3>2 DEF Content
    <3>4. Of(Pending(g, k))' = Of(Pending(g, k)) /\ Of(hand[g])' = {}
      BY <1>1, <1>8, NilList DEF Of, List, Pending
    <3> QED
      BY <1>12, <1>14, <3>2, <3>3, <3>4 DEF Through
  <2>2. Sorted(List(hand[g]))'
    BY <1>8, NilList, SortedOne DEF List
  <2> QED
    BY <1>8, <2>1, <2>2 DEF HandInv
<1>17. \A e \in Exporters : chan'[Out(e)] = chan[Out(e)]
  BY <1>2, <1>8, ChannelKinds
<1>18. OrderInv(d)'
  BY <1>1, <1>8, <1>9, <1>14, <1>15, <1>16, <1>17, FlowStep
<1> QED
  BY <1>9, <1>18

--------------------------------------------------------------------------------
(* 17. A sort worker                                                         *)

\* What becomes of the list l that has come: it is relinked into the list m.
Resorted(s, l, m) ==
    /\ m \in RecordLists /\ Sorted(m) /\ Elements(m) = Elements(l) /\ m # <<>>
    /\ heap' \in [next : [Records -> Pointer], prev : [Records -> Pointer]]
    /\ Linked(heap'.next, m[1], m) /\ hand' = [hand EXCEPT ![s] = m[1]]
    /\ \A x \in Records \ Elements(l) : heap'.next[x] = heap.next[x] /\ heap'.prev[x] = heap.prev[x]
    /\ heap'.prev[m[1]] = End(m) \/ (heap'.prev = heap.prev /\ m = l)

\* What a sort worker takes into its hand is the batch, sorted.
LEMMA SortBatchSorts ==
    ASSUME Whole, NEW s \in Sorters, SortBatch(s), NEW h, NEW l \in RecordLists, h = Head(chan[SortInput(s)]),
           l = List(h), l # <<>>, Linked(heap.next, h, l), Rising(l) \/ Len(l) # 2
    PROVE  \E m : Resorted(s, l, m)
<1> DEFINE heads == findNaturalSublists[l]
           merged == MergeAll(heads)
<1>1. /\ Len(heads) = 1 => /\ heap' = [heap EXCEPT !.next = LinkNext(@, heads[1])]
                           /\ hand' = [hand EXCEPT ![s] = l[1]]
      /\ Len(heads) # 1 => heap' = Link(heap, merged) /\ hand' = [hand EXCEPT ![s] = merged[1]]
  BY DEF SortBatch, List
<1>2. /\ Len(heads) = 1 => heads[1] = l /\ Sorted(l)
      /\ Len(heads) # 1 => merged \in RecordLists /\ Sorted(merged) /\ Elements(merged) = Elements(l)
  BY BatchesAreSorted DEF Sorted
<1>3. heap \in [next : [Records -> Pointer], prev : [Records -> Pointer]]
  BY DEF Whole, PipeTypes
<1> HIDE DEF heads, merged
<1>4. CASE Len(heads) = 1
  <2>1. /\ LinkNext(heap.next, l) \in [Records -> Pointer] /\ Linked(LinkNext(heap.next, l), l[1], l)
        /\ \A x \in Records \ Elements(l) : LinkNext(heap.next, l)[x] = heap.next[x]
    BY <1>3, LinkNextLinks
  <2>2. heap' = [heap EXCEPT !.next = LinkNext(heap.next, l)] /\ hand' = [hand EXCEPT ![s] = l[1]]
    BY <1>1, <1>2, <1>4
  <2>3. heap'.next = LinkNext(heap.next, l) /\ heap'.prev = heap.prev
    BY <1>3, <2>2
  <2>4. heap' \in [next : [Records -> Pointer], prev : [Records -> Pointer]]
    BY <1>3, <2>1, <2>2
  <2>5. Resorted(s, l, l)
    BY <1>2, <1>4, <2>1, <2>2, <2>3, <2>4 DEF Resorted
  <2> QED
    BY <2>5
<1>5. CASE Len(heads) # 1
  <2> DEFINE m == merged
  <2>1. m \in RecordLists /\ Sorted(m) /\ Elements(m) = Elements(l) /\ m # <<>>
    BY <1>2, <1>5, ListTypes
  <2>2. /\ LinkNext(heap.next, m) \in [Records -> Pointer] /\ Linked(LinkNext(heap.next, m), m[1], m)
        /\ \A x \in Records \ Elements(m) : LinkNext(heap.next, m)[x] = heap.next[x]
    BY <1>3, <2>1, LinkNextLinks
  <2>3. heap' = Link(heap, m) /\ hand' = [hand EXCEPT ![s] = m[1]]
    BY <1>1, <1>5
  <2>4. /\ heap'.next = LinkNext(heap.next, m)
        /\ heap' = [next |-> heap'.next, prev |-> heap'.prev]
        /\ heap'.prev = [e \in Records |-> IF e = m[1] THEN m[Len(m)]
                                           ELSE IF e \in Elements(m) THEN Nil ELSE heap.prev[e]]
    BY <2>3 DEF Link
  <2>5. m[1] \in Records /\ m[1] \in Elements(m) /\ m[Len(m)] = End(m) /\ End(m) \in Records
    BY <2>1, ListTail, EndIs DEF End
  <2> HIDE DEF m
  <2>6. /\ heap'.prev[m[1]] = End(m)
        /\ \A x \in Records \ Elements(m) : heap'.prev[x] = heap.prev[x]
        /\ heap'.prev \in [Records -> Pointer]
    <3>1. heap.prev \in [Records -> Pointer]
      BY <1>3
    <3>2. \A e \in Records : m[Len(m)] \in Pointer /\ Nil \in Pointer /\ heap.prev[e] \in Pointer
      BY <2>5, <3>1 DEF Pointer
    <3> QED
      BY <2>4, <2>5, <3>2
  <2>7. heap' \in [next : [Records -> Pointer], prev : [Records -> Pointer]]
    BY <2>2, <2>4, <2>6
  <2>8. Resorted(s, l, m)
    BY <2>1, <2>2, <2>3, <2>4, <2>6, <2>7 DEF Resorted
  <2> QED
    BY <2>8
<1> QED
  BY <1>4, <1>5

\* ... and that keeps lists and order.
LEMMA SortBatchKeeps ==
    ASSUME Whole, NEW b, OrderInv(b), NEW s \in Sorters, SortBatch(s)
    PROVE  Whole' /\ OrderInv(b)'
<1> DEFINE c == SortInput(s)
           h == Head(chan[c])
           l == List(h)
           C == {c, Hand(s)}
<1>1. /\ order = "expiry" /\ hand[s] = Nil /\ Ready(c) /\ chan' = Received(c)
      /\ UNCHANGED <<order, produced, closed, merger, splice, exported>>
  BY DEF SortBatch
<1>2. /\ s \in Workers /\ s \notin Mergers /\ c \in Inner /\ c \in Channels /\ c # Output(s)
      /\ \A k \in 0 .. 1 : Source(s, k) = c
  <2>1. s \in Workers /\ s \notin Mergers
    BY WorkerKinds
  <2>2. \A k \in 0 .. 1 : Source(s, k) \in Inner /\ Source(s, k) # Output(s) /\ Source(s, k) = c
    BY <2>1, Topology
  <2>3. 0 \in 0 .. 1
    OBVIOUS
  <2> QED
    BY <2>1, <2>2, <2>3, ChannelKinds
<1>3. /\ chan \in [Channels -> Seq(Records)] /\ hand \in [Workers -> Pointer] /\ chan[c] # <<>>
      /\ chan[c] \in Seq(Records) /\ Different(chan[c])
  BY <1>1, <1>2 DEF Whole, PipeTypes, Ready
<1>4. /\ Tail(chan[c]) \in Seq(Records) /\ h = chan[c][1] /\ h \in Elements(chan[c]) /\ h \in Records
      /\ Elements(Tail(chan[c])) = Elements(chan[c]) \ {h} /\ Different(Tail(chan[c]))
      /\ Len(chan[c]) \in Nat /\ 1 \in 1 .. Len(chan[c])
  BY <1>3, TailOf
<1>5. 1 \in Exporters /\ View(1)
  BY SizesAssumption DEF Exporters, Whole
<1>6. /\ c \in Places(1) /\ c \in Always /\ Hand(s) \in Always /\ Hand(s) # c /\ Hand(s) \notin Channels
      /\ HeadsAt(c) = Elements(chan[c]) /\ HeadsAt(c)' = Elements(chan'[c])
      /\ \A p : p = Hand(s) => HeadsAt(p) = {hand[s]} \ {Nil} /\ HeadsAt(p)' = {hand'[s]} \ {Nil}
  BY <1>2, <1>5, PlacesAre, HeadsAre
<1>7. l \in RecordLists /\ Linked(heap.next, h, l) /\ l # <<>>
  BY <1>4, <1>5, <1>6, HeadIs
<1>8. ChanInv(c, b) /\ (Rising(l) \/ Len(l) # 2)
  <2>1. ChanInv(c, b)
    BY <1>2 DEF OrderInv
  <2>2. c[1] = "in"
    BY DEF SortInput, In
  <2> QED
    BY <1>4, <2>1, <2>2 DEF ChanInv, AllFit, Fits
<1>9. PICK m : Resorted(s, l, m)
  BY <1>7, <1>8, SortBatchSorts
<1>10. /\ chan' \in [Channels -> Seq(Records)] /\ chan'[c] = Tail(chan[c])
       /\ \A d \in Channels : d # c => chan'[d] = chan[d]
  BY <1>1, <1>2, <1>3, <1>4 DEF Received
<1>11. /\ m \in RecordLists /\ Sorted(m) /\ Elements(m) = Elements(l) /\ m # <<>>
       /\ Linked(heap'.next, m[1], m) /\ m[1] \in Records /\ m[1] # Nil
       /\ hand' \in [Workers -> Pointer] /\ hand'[s] = m[1] /\ \A f \in Workers : f # s => hand'[f] = hand[f]
  <2>1. m \in RecordLists /\ m # <<>> /\ hand' = [hand EXCEPT ![s] = m[1]]
    BY <1>9 DEF Resorted
  <2>2. m[1] \in Records
    BY <2>1, ListTail
  <2> QED
    BY <1>2, <1>3, <1>9, <2>1, <2>2 DEF Resorted, Pointer, Records, Nil
<1>12. Chain(heap'.next, m[1]) = m /\ Chain(heap.next, h) = l
  BY <1>7, <1>11, ChainIs
<1>13. Whole' /\ Elsewhere(C, {h})
  <2> DEFINE N == [p \in C |-> IF p = c THEN {} ELSE {m[1]}]
             D == {h}
             F == {}
  <2>1. PipeTypes'
    <3>1. heap' \in [next : [Records -> Pointer], prev : [Records -> Pointer]]
      BY <1>9 DEF Resorted
    <3> QED
      BY <1>1, <1>10, <1>11, <3>1 DEF Whole, PipeTypes
  <2>2. N[c] = {} /\ N[Hand(s)] = {m[1]} /\ Heads(C, N) = {m[1]} /\ Apart(C, N)
    BY <1>6 DEF Heads, Apart
  <2>3. \A p \in C : HeadsAt(p)' = (HeadsAt(p) \ D) \cup N[p]
    <3>1. HeadsAt(c)' = (HeadsAt(c) \ {h}) \cup {}
      BY <1>4, <1>6, <1>10
    <3>2. \A p : p = Hand(s) => HeadsAt(p)' = (HeadsAt(p) \ {h}) \cup {m[1]}
      BY <1>1, <1>6, <1>11
    <3> HIDE DEF N, c, h
    <3> QED
      BY <2>2, <3>1, <3>2
  <2>4. RecordsOf(heap'.next, {m[1]}) = Elements(m) /\ RecordsOf(heap.next, {h}) = Elements(l)
    BY <1>12 DEF RecordsOf
  <2>5. Relinks(heap.next, heap'.next, D, Heads(C, N), F)
    <3>1. Separate(heap'.next, {m[1]})
      BY <1>11 DEF Separate
    <3>2. \A x \in Records \ Elements(l) : heap'.next[x] = heap.next[x]
      BY <1>9 DEF Resorted
    <3> HIDE DEF h
    <3> QED
      BY <1>11, <2>2, <2>4, <3>1, <3>2 DEF Relinks
  <2>6. /\ RecordsOf(heap'.next, Heads(C, N)) = RecordsOf(heap.next, D) \cup F
        /\ \A x \in Records \ (RecordsOf(heap.next, D) \cup F) : heap'.prev[x] = heap.prev[x]
    <3>1. \A x \in Records \ Elements(l) : heap'.prev[x] = heap.prev[x]
      BY <1>9 DEF Resorted
    <3> HIDE DEF h
    <3> QED
      BY <1>11, <2>2, <2>4, <3>1
  <2>7. /\ F \in SUBSET Records /\ F \cap Produced = {} /\ Produced' = Produced \cup F
        /\ splice' = splice /\ exported' = exported /\ C \in SUBSET Always
    BY <1>1, <1>6 DEF Produced
  <2>8. \A x \in D : \E p \in C : x \in HeadsAt(p)
    BY <1>4, <1>6
  <2>9. /\ \A d \in Channels \ C : chan'[d] = chan[d]
        /\ \A f \in Workers : Hand(f) \in C \/ hand'[f] = hand[f]
        /\ \A w \in Mergers, k \in 0 .. 1 : QueueOf(w, k) \in C \/ merger'[w].head[k] = merger[w].head[k]
        /\ \A d \in C : d \in Channels => Different(chan'[d])
    BY <1>1, <1>4, <1>6, <1>10, <1>11
  <2> HIDE DEF C, N, D, F
  <2>10. Whole' /\ Elsewhere(C, D)
    BY <2>1, <2>2, <2>3, <2>5, <2>6, <2>7, <2>8, <2>9, InnerStep
  <2> QED
    BY <2>10 DEF D
<1>14. Works(s, C, {h})
  <2>1. ASSUME NEW d \in Inner
        PROVE  \/ d \notin C /\ chan'[d] = chan[d]
               \/ (Elements(chan[d]) \cap {h}) = {} /\ chan'[d] = chan[d]
               \/ Ready(d) /\ chan'[d] = Tail(chan[d]) /\ (Elements(Tail(chan[d])) \cap {h}) = {}
    <3>1. CASE d = c
      BY <1>1, <1>4, <1>10, <3>1
    <3>2. CASE d # c
      BY <1>6, <1>10, <3>2, ChannelKinds
    <3> QED
      BY <3>1, <3>2
  <2>2. \A e \in Exporters : chan'[Out(e)] = chan[Out(e)]
    BY <1>2, <1>10, ChannelKinds
  <2> HIDE DEF C, h
  <2> QED
    BY <1>1, <1>11, <2>1, <2>2 DEF Works
<1>15. C \in SUBSET Always /\ C \subseteq Near(s)
  <2>1. c = Source(s, 0)
    BY <1>2
  <2> QED
    BY <1>6, <2>1 DEF Near
<1> HIDE DEF C
<1>16. Taken(c, b)
  BY <1>1, <1>2, <1>10, <1>13, <1>14, <1>15, WorkerChannels
<1>17. HandInv(s, b)'
  <2>1. List(hand[s])' = m /\ Of(hand[s])' = Elements(l)
    BY <1>11, <1>12 DEF List, Of
  <2>2. /\ Of(h) = Elements(l) /\ Elements(l) \subseteq Content(c) /\ Ahead(Elements(l), Content(c)')
        /\ Content(c)' \subseteq Content(c) /\ Upto(Content(c), b[c])
        /\ PrevOk(h) \/ (chan'[c] = <<>> /\ b[c] = Final)
    BY <1>8, <1>16 DEF Taken, Of, ChanInv
  <2>3. HandInv(s, b) /\ Pending(s, 0) = Nil /\ \A k \in 0 .. 1 : Pending(s, k)' = Nil
    BY <1>2 DEF OrderInv, Pending
  <2>4. b[Output(s)] <= b[c] /\ Before({b[Output(s)]}, Content(c))
    <3>1. 0 \in 0 .. 1 /\ Source(s, 0) = c
      BY <1>2
    <3> QED
      BY <2>3, <3>1 DEF HandInv, Through, Passing, Ahead, Before
  <2>5. Passing(b[Output(s)], Elements(l), {}, Content(c)', b[c])
    <3> HIDE DEF c, l
    <3> QED
      BY <2>2, <2>4 DEF Passing, Ahead, Before, Upto
  <2>6. ASSUME NEW k \in 0 .. 1 PROVE Through(s, k, b)'
    <3>1. Of(Pending(s, k))' = {} /\ Source(s, k) = c
      BY <1>2, <2>3, NilList DEF Of, List
    <3>2. Content(Source(s, k))' = Content(c)'
      BY <3>1
    <3> HIDE DEF c, l
    <3> QED
      BY <2>1, <2>5, <3>1, <3>2 DEF Through
  <2>7. PrevOk(hand[s])' \/ Quiet(s, b)'
    <3>1. CASE heap'.prev[m[1]] = End(m)
      BY <1>11, <1>12, <3>1 DEF PrevOk, List
    <3>2. CASE heap'.prev = heap.prev /\ m = l
      <4>1. m[1] = h
        BY <1>7, <1>11, <3>2, LinkedHead
      <4>2. PrevOk(h) => PrevOk(hand[s])'
        BY <1>11, <1>12, <3>2, <4>1 DEF PrevOk, List
      <4>3. chan'[c] = <<>> /\ b[c] = Final => Quiet(s, b)'
        BY <1>2, <2>3 DEF Quiet, Over
      <4> QED
        BY <2>2, <4>2, <4>3
    <3> QED
      BY <1>9, <3>1, <3>2 DEF Resorted
  <2> QED
    BY <1>11, <2>1, <2>6, <2>7 DEF HandInv
<1>18. OrderInv(b)'
  BY <1>1, <1>2, <1>13, <1>14, <1>15, <1>17, WorkerStep
<1> QED
  BY <1>13, <1>18

--------------------------------------------------------------------------------
(* 18. The tables                                                            *)

\* The lists a table may send: without sorting single records, with sorting by start or
\* stop time sorted lists, and with expiry sorting any but two records out of order.
BatchesSound ==
    \A o \in Orders : \A list \in Batches[o] :
        /\ list \in RecordLists /\ list # <<>>
        /\ o = "none" => Len(list) = 1
        /\ o \in {"start", "stop"} => Rising(list)
        /\ o = "expiry" => Rising(list) \/ Len(list) # 2

\* No record is above the highest one.
LEMMA MaxIs ==
    ASSUME NEW S \in SUBSET Records
    PROVE  MaxOf(S) \in 0 .. NumRecords /\ Upto(S, MaxOf(S))
<1> DEFINE T == {n \in 0 .. NumRecords : \A x \in S : x <= n}
<1>1. NumRecords \in Nat /\ \A x \in S : x \in 1 .. NumRecords
  BY SizesAssumption DEF Records
<1>2. T \in SUBSET Nat /\ T # {}
  <2>1. NumRecords \in T
    BY <1>1
  <2> QED
    BY <1>1, <2>1
<1>3. PICK m \in T : \A n \in T : m <= n
  BY <1>2, LeastNatural
<1>4. CASE S = {}
  BY <1>1, <1>4 DEF MaxOf, Upto
<1>5. CASE S # {}
  <2>1. m \in S
    <3> SUFFICES ASSUME m \notin S PROVE FALSE
      OBVIOUS
    <3>1. \A x \in S : x \in 1 .. NumRecords /\ x <= m /\ x # m /\ m \in 0 .. NumRecords
      BY <1>1, <1>3
    <3>2. m - 1 \in 0 .. NumRecords /\ \A x \in S : x <= m - 1
      BY <1>1, <1>5, <3>1
    <3>3. m - 1 \in T
      BY <3>2
    <3>4. m <= m - 1
      BY <1>3, <3>3
    <3> QED
      BY <1>1, <1>3, <3>4
  <2>2. \E x \in S : \A y \in S : y <= x
    BY <1>3, <2>1
  <2>3. MaxOf(S) \in S /\ \A y \in S : y <= MaxOf(S)
    BY <1>5, <2>2 DEF MaxOf
  <2> QED
    BY <1>1, <2>3 DEF Upto
<1> QED
  BY <1>4, <1>5

\* A list that a table sends is linked, and has no record of another.
Sent(t, list) ==
    /\ list \in RecordLists /\ list # <<>> /\ Elements(list) \cap Produced = {}
    /\ heap' \in [next : [Records -> Pointer], prev : [Records -> Pointer]]
    /\ Linked(heap'.next, list[1], list)
    /\ \A x \in Records \ Elements(list) : heap'.next[x] = heap.next[x] /\ heap'.prev[x] = heap.prev[x]
    /\ order # "none" => heap'.prev[list[1]] = End(list)
    /\ In(t) \in Inner /\ chan' = [chan EXCEPT ![In(t)] = Append(@, list[1])]
    /\ Ordered /\ order # "none" => \A e \in Elements(list) : MaxOf(produced[t]) < e
    /\ produced' = [produced EXCEPT ![t] = @ \cup Elements(list)] /\ In(t) \notin closed
    /\ UNCHANGED <<order, closed, hand, merger, splice, exported>>

\* A table that exports sends such a list.
LEMMA ExportSends ==
    ASSUME Whole, BatchesSound, NEW t \in Tables, NEW list \in Batches[order], Export(t, list)
    PROVE  Sent(t, list)
<1>1. /\ In(t) \notin closed /\ \A e \in Elements(list), s \in Tables : e \notin produced[s]
      /\ order \in Steady => \A e \in Elements(list) : e > MaxOf(produced[t])
      /\ heap' = IF order = "none" THEN heap ELSE Link(heap, list)
      /\ produced' = [produced EXCEPT ![t] = @ \cup Elements(list)]
      /\ chan' = [chan EXCEPT ![In(t)] = Append(@, list[1])]
      /\ UNCHANGED <<order, closed, hand, merger, splice, exported>>
  BY DEF Export
<1>2. /\ order \in Orders /\ heap \in [next : [Records -> Pointer], prev : [Records -> Pointer]]
      /\ produced \in [Tables -> SUBSET Records]
  BY DEF Whole, PipeTypes
<1>3. list \in RecordLists /\ list # <<>> /\ (order = "none" => Len(list) = 1)
  BY <1>2 DEF BatchesSound
<1>4. In(t) \in Inner
  BY <1>2, TablesWrite
<1>5. Elements(list) \cap Produced = {}
  BY <1>1 DEF Produced
<1>6. Ordered /\ order # "none" => \A e \in Elements(list) : MaxOf(produced[t]) < e
  <2>1. MaxOf(produced[t]) \in 0 .. NumRecords /\ Elements(list) \subseteq Records
    BY <1>2, <1>3, MaxIs, ListTypes
  <2>2. Ordered /\ order # "none" => order \in Steady
    BY <1>2 DEF Ordered
  <2> QED
    BY <1>1, <2>1, <2>2, SizesAssumption DEF Records
<1>7. CASE order = "none"
  <2>1. list[1] \in Records /\ list[1] \in Elements(list) /\ list[1] \notin Produced
    BY <1>3, <1>5, ListTail
  <2>2. heap.next[list[1]] = Nil
    BY <2>1 DEF Whole, Fresh
  <2>3. Linked(heap.next, list[1], list)
    <3> DEFINE n == Len(list)
    <3>1. n = 1
      BY <1>3, <1>7
    <3> HIDE DEF n
    <3>2. \A i \in 1 .. n : i = n /\ heap.next[list[i]] = Nil
      BY <2>2, <3>1
    <3> QED
      BY <1>3, <3>2 DEF Linked, n
  <2> QED
    BY <1>1, <1>2, <1>3, <1>4, <1>5, <1>6, <1>7, <2>3 DEF Sent
<1>8. CASE order # "none"
  <2>1. /\ LinkNext(heap.next, list) \in [Records -> Pointer]
        /\ Linked(LinkNext(heap.next, list), list[1], list)
        /\ \A x \in Records \ Elements(list) : LinkNext(heap.next, list)[x] = heap.next[x]
    BY <1>2, <1>3, LinkNextLinks
  <2>2. /\ heap'.next = LinkNext(heap.next, list)
        /\ heap' = [next |-> heap'.next, prev |-> heap'.prev]
        /\ heap'.prev = [e \in Records |-> IF e = list[1] THEN list[Len(list)]
                                           ELSE IF e \in Elements(list) THEN Nil ELSE heap.prev[e]]
    BY <1>1, <1>8 DEF Link
  <2>3. list[1] \in Records /\ list[1] \in Elements(list) /\ list[Len(list)] = End(list) /\ End(list) \in Records
    BY <1>3, ListTail, EndIs DEF End
  <2>4. /\ heap'.prev[list[1]] = End(list)
        /\ \A x \in Records \ Elements(list) : heap'.prev[x] = heap.prev[x]
        /\ heap'.prev \in [Records -> Pointer]
    <3>1. heap.prev \in [Records -> Pointer]
      BY <1>2
    <3>2. \A e \in Records : list[Len(list)] \in Pointer /\ Nil \in Pointer /\ heap.prev[e] \in Pointer
      BY <2>3, <3>1 DEF Pointer
    <3> QED
      BY <2>2, <2>3, <3>2
  <2>5. heap' \in [next : [Records -> Pointer], prev : [Records -> Pointer]]
    BY <2>1, <2>2, <2>4
  <2> QED
    BY <1>1, <1>3, <1>4, <1>5, <1>6, <1>8, <2>1, <2>2, <2>4, <2>5 DEF Sent
<1> QED
  BY <1>7, <1>8

\* No list is lost when a table sends one.
LEMMA SentKeepsLists ==
    ASSUME Whole, NEW t \in Tables, NEW list, Sent(t, list)
    PROVE  Whole' /\ Elsewhere({In(t)}, {}) /\ In(t) \in Always
<1>0. PICK c : c = In(t)
  OBVIOUS
<1> DEFINE h == list[1]
           C == {c}
           N == [p \in C |-> {h}]
           D == {}
           F == Elements(list)
<1>1. /\ list \in RecordLists /\ list # <<>> /\ F \cap Produced = {}
      /\ heap' \in [next : [Records -> Pointer], prev : [Records -> Pointer]]
      /\ Linked(heap'.next, h, list)
      /\ (\A x \in Records \ F : heap'.next[x] = heap.next[x] /\ heap'.prev[x] = heap.prev[x])
      /\ c \in Inner /\ chan' = [chan EXCEPT ![c] = Append(@, h)]
      /\ produced' = [produced EXCEPT ![t] = @ \cup F]
      /\ UNCHANGED <<order, closed, hand, merger, splice, exported>>
  BY <1>0 DEF Sent
<1>2. F \subseteq Records /\ h \in Records /\ h \in F
  BY <1>1, ListTypes, ListTail
<1>3. /\ chan \in [Channels -> Seq(Records)] /\ c \in Channels /\ chan[c] \in Seq(Records) /\ Different(chan[c])
      /\ produced \in [Tables -> SUBSET Records]
  BY <1>1, ChannelKinds DEF Whole, PipeTypes
<1>4. 1 \in Exporters /\ View(1)
  BY SizesAssumption DEF Exporters, Whole
<1>5. /\ c \in Places(1) /\ c \in Always /\ HeadsAt(c) = Elements(chan[c]) /\ HeadsAt(c)' = Elements(chan'[c])
  BY <1>1, <1>3, <1>4, PlacesAre, HeadsAre
<1>6. h \notin Elements(chan[c])
  <2> SUFFICES ASSUME h \in Elements(chan[c]) PROVE FALSE
    OBVIOUS
  <2>1. h \in Of(h) /\ Of(h) \subseteq Produced
    BY <1>4, <1>5, HeadIs
  <2> QED
    BY <1>1, <1>2, <2>1
<1>7. /\ Append(chan[c], h) \in Seq(Records) /\ Elements(Append(chan[c], h)) = Elements(chan[c]) \cup {h}
      /\ Different(Append(chan[c], h))
  BY <1>2, <1>3, <1>6, AppendOf
<1>8. /\ chan' \in [Channels -> Seq(Records)] /\ chan'[c] = Append(chan[c], h)
      /\ \A d \in Channels : d # c => chan'[d] = chan[d]
  BY <1>1, <1>3, <1>7
<1>9. PipeTypes'
  <2>1. produced' \in [Tables -> SUBSET Records]
    BY <1>1, <1>2, <1>3
  <2> QED
    BY <1>1, <1>8, <2>1 DEF Whole, PipeTypes
<1>10. Produced' = Produced \cup F
  <2>1. produced'[t] = produced[t] \cup F /\ \A s \in Tables : s # t => produced'[s] = produced[s]
    BY <1>1, <1>3
  <2> QED
    BY <2>1 DEF Produced
<1>11. N[c] = {h} /\ Heads(C, N) = {h} /\ Apart(C, N)
  BY DEF Heads, Apart
<1>12. \A p \in C : HeadsAt(p)' = (HeadsAt(p) \ D) \cup N[p]
  <2>1. HeadsAt(c)' = (HeadsAt(c) \ D) \cup {h}
    BY <1>5, <1>7, <1>8
  <2> HIDE DEF N, D
  <2> QED
    BY <1>11, <2>1
<1>13. RecordsOf(heap'.next, {h}) = F /\ RecordsOf(heap.next, D) = {}
  <2>1. Chain(heap'.next, h) = list
    BY <1>1, ChainIs
  <2> QED
    BY <2>1 DEF RecordsOf
<1>14. Relinks(heap.next, heap'.next, D, Heads(C, N), F)
  <2>1. Separate(heap'.next, {h})
    BY <1>1, <1>2 DEF Separate
  <2> HIDE DEF h, F, D
  <2> QED
    BY <1>1, <1>11, <1>13, <2>1 DEF Relinks
<1>15. /\ RecordsOf(heap'.next, Heads(C, N)) = RecordsOf(heap.next, D) \cup F
       /\ \A x \in Records \ (RecordsOf(heap.next, D) \cup F) : heap'.prev[x] = heap.prev[x]
  <2> HIDE DEF h, F, D
  <2> QED
    BY <1>1, <1>11, <1>13
<1>16. /\ C \in SUBSET Always /\ F \in SUBSET Records
       /\ splice' = splice /\ exported' = exported
       /\ \A x \in D : \E p \in C : x \in HeadsAt(p)
  BY <1>1, <1>2, <1>5
<1>17. /\ \A d \in Channels \ C : chan'[d] = chan[d]
       /\ \A f \in Workers : Hand(f) \in C \/ hand'[f] = hand[f]
       /\ \A w \in Mergers, k \in 0 .. 1 : QueueOf(w, k) \in C \/ merger'[w].head[k] = merger[w].head[k]
       /\ \A d \in C : d \in Channels => Different(chan'[d])
  BY <1>1, <1>7, <1>8
<1> HIDE DEF C, D, F, N
<1>18. Whole' /\ Elsewhere(C, D)
  BY <1>1, <1>9, <1>10, <1>11, <1>12, <1>14, <1>15, <1>16, <1>17, InnerStep
<1> QED
  BY <1>0, <1>5, <1>18 DEF C, D

\* A sort worker that has nothing to do.
LEMMA SorterIdles ==
    ASSUME NEW d \in Bounds, NEW s \in Sorters, hand'[s] = Nil, Over(SortInput(s), d)'
    PROVE  HandInv(s, d)'
<1>1. /\ s \notin Mergers /\ Output(s) \in Inner /\ \A k \in 0 .. 1 : Source(s, k) = SortInput(s)
  BY WorkerKinds, Topology, ChannelKinds
<1>2. chan'[SortInput(s)] = <<>> /\ d[SortInput(s)] = Final /\ d[Output(s)] \in 0 .. Final
  BY <1>1 DEF Over, Bounds
<1>3. Content(SortInput(s))' = {}
  BY <1>2 DEF Content
<1>4. Passing(d[Output(s)], {}, {}, {}, Final)
  BY <1>2, SizesAssumption DEF Passing, Ahead, Before, Upto, Final
<1>5. ASSUME NEW k \in 0 .. 1 PROVE Through(s, k, d)'
  <2>1. Source(s, k) = SortInput(s) /\ Of(hand[s])' = {} /\ Of(Pending(s, k))' = {}
    BY <1>1, NilList DEF Of, List, Pending
  <2> QED
    BY <1>2, <1>3, <1>4, <2>1 DEF Through
<1>6. Sorted(List(hand[s]))'
  BY NilList, SortedOne DEF List
<1> QED
  BY <1>5, <1>6 DEF HandInv

\* A step of the tables: only the bounds of the channels they write to change.
LEMMA TableStep ==
    ASSUME NEW b, OrderInv(b), NEW d \in Bounds, Whole, Whole', order # "none",
           UNCHANGED <<order, hand, merger, splice, exported>>, NEW C \in SUBSET Always, Elsewhere(C, {}),
           \A c \in Inner : ChanInv(c, d)' /\ Feeds(c, b, d) /\ (d[c] = b[c] \/ \E t \in Tables : c = In(t)),
           \A e \in Exporters : chan'[Out(e)] = chan[Out(e)],
           \A t \in Tables : TableInv(t, d)'
    PROVE  OrderInv(d)'
<1>1. /\ b \in Bounds /\ d \in [Inner -> 0 .. Final]
      /\ \A f \in Workers : HandInv(f, b)
      /\ \A w \in Mergers : MergerInv(w, b) /\ w \in Workers
      /\ \A e \in Exporters : EndInv(e, b)
  BY WorkerKinds DEF OrderInv, Bounds
<1>2. OthersStay(C, {})
  BY ElsewhereStays
<1>3. ASSUME order # "expiry", NEW s \in Sorters PROVE hand'[s] = Nil /\ Over(SortInput(s), d)'
  <2>1. Source(s, 0) = SortInput(s) /\ SortInput(s) \in Inner
    BY WorkerKinds, Topology
  <2>2. hand[s] = Nil /\ Over(SortInput(s), b)
    BY <1>3 DEF OrderInv
  <2>3. Feeds(SortInput(s), b, d)
    BY <2>1
  <2> QED
    BY <2>1, <2>2, <2>3 DEF Feeds, Over
<1>4. ASSUME NEW f \in Workers PROVE HandInv(f, d)'
  <2>1. CASE f \in Sorters /\ order # "expiry"
    BY <1>3, <2>1, SorterIdles
  <2>2. CASE f \in Mergers \/ order = "expiry"
    <3>1. order \in Orders
      BY DEF Whole, PipeTypes
    <3>2. Output(f) \in Inner /\ \A t \in Tables : Output(f) # In(t)
      BY <2>2, <3>1, TablesWrite, Topology, ChannelKinds
    <3>3. d[Output(f)] = b[Output(f)]
      BY <3>2
    <3>4. \A k \in 0 .. 1 : Feeds(Source(f, k), b, d)
      BY Topology
    <3>5. hand'[f] = hand[f] /\ Stays(hand[f])
      BY <1>2 DEF OthersStay
    <3>6. \A k \in 0 .. 1 : Pending(f, k)' = Pending(f, k) /\ Stays(Pending(f, k))
      BY <1>2, NilStays DEF OthersStay, Pending
    <3> QED
      BY <1>1, <3>3, <3>4, <3>5, <3>6, HandStays
  <2> QED
    BY <2>1, <2>2, WorkerKinds
<1>5. ASSUME NEW w \in Mergers PROVE MergerInv(w, d)'
  <2>1. \A k \in 0 .. 1 : Feeds(MergeInput(w, k), b, d)
    BY Topology, ChannelKinds
  <2>2. merger'[w] = merger[w] /\ \A k \in 0 .. 1 : Stays(merger[w].head[k])
    BY <1>2 DEF OthersStay
  <2> QED
    BY <1>1, <2>1, <2>2, MergerStays
<1>6. ASSUME NEW e \in Exporters PROVE EndInv(e, d)'
  <2>1. Feeds(SortedQueue, b, d)
    BY Topology, ChannelKinds
  <2>2. /\ splice' = splice /\ exported'[e] = exported[e] /\ chan'[Out(e)] = chan[Out(e)]
        /\ \A h \in HeadsAt(Out(e)) : Stays(h)
        /\ \A h \in HeadsAt(SpliceOf(e)) : Stays(h)
    BY <1>2 DEF OthersStay
  <2> QED
    BY <1>1, <2>1, <2>2, EndStays
<1>7. Sorted(List(splice.list))'
  BY <1>2 DEF OrderInv, OthersStay, Stays, List
<1>8. \A c \in Inner : ChanInv(c, d)'
  OBVIOUS
<1> QED
  BY <1>1, <1>3, <1>4, <1>5, <1>6, <1>7, <1>8 DEF OrderInv

\* ... which keeps the order: it is above what the table sent before.
LEMMA SentKeepsOrder ==
    ASSUME Whole, NEW b, OrderInv(b), order # "none", NEW t \in Tables, NEW list, Sent(t, list),
           Fits(In(t), list)
    PROVE  \E d : OrderInv(d)'
<1>0. PICK c : c = In(t)
  OBVIOUS
<1> DEFINE h == list[1]
<1>1. /\ list \in RecordLists /\ list # <<>>
      /\ Linked(heap'.next, h, list) /\ heap'.prev[h] = End(list)
      /\ c \in Inner /\ chan' = [chan EXCEPT ![c] = Append(@, h)] /\ c \notin closed
      /\ produced' = [produced EXCEPT ![t] = @ \cup Elements(list)]
      /\ UNCHANGED <<order, closed, hand, merger, splice, exported>>
      /\ Ordered => \A e \in Elements(list) : MaxOf(produced[t]) < e
  BY <1>0 DEF Sent
<1>2. PICK v : v = IF Ordered THEN MaxOf(produced'[t]) ELSE 0
  OBVIOUS
<1>3. PICK d : d = [b EXCEPT ![c] = v]
  OBVIOUS
<1>4. produced \in [Tables -> SUBSET Records] /\ chan \in [Channels -> Seq(Records)] /\ order \in Orders
  BY DEF Whole, PipeTypes
<1>5. /\ Elements(list) \subseteq Records /\ h \in Records /\ h \in Elements(list)
  BY <1>1, ListTypes, ListTail
<1>6. v \in 0 .. NumRecords /\ Upto(Elements(list), v) /\ produced'[t] = produced[t] \cup Elements(list)
  <2>1. produced'[t] = produced[t] \cup Elements(list) /\ produced'[t] \in SUBSET Records
    BY <1>1, <1>4, <1>5
  <2>2. MaxOf(produced'[t]) \in 0 .. NumRecords /\ Upto(produced'[t], MaxOf(produced'[t]))
    BY <2>1, MaxIs
  <2> QED
    BY <1>2, <2>1, <2>2, SizesAssumption DEF Upto
<1>7. b \in [Inner -> 0 .. Final] /\ b[c] <= Above(t) /\ MaxOf(produced[t]) \in 0 .. NumRecords
  <2>1. TableInv(t, b) /\ b \in [Inner -> 0 .. Final]
    BY DEF OrderInv
  <2> QED
    BY <1>0, <1>1, <1>4, <2>1, MaxIs DEF TableInv
<1>8. Before({b[c]}, Elements(list)) /\ b[c] <= v /\ b[c] \in 0 .. Final
  <2>1. b[c] \in 0 .. Final
    BY <1>1, <1>7
  <2>2. \A e \in Elements(list) : b[c] < e
    <3>1. CASE Ordered
      BY <1>1, <1>5, <1>7, <2>1, <3>1, SizesAssumption DEF Records, Final, Above
    <3>2. CASE ~Ordered
      BY <1>5, <1>7, <2>1, <3>2, SizesAssumption DEF Records, Final, Above
    <3> QED
      BY <3>1, <3>2
  <2>3. b[c] <= v
    <3>1. CASE Ordered
      <4>1. h <= v /\ b[c] < h
        BY <1>5, <1>6, <2>2, <3>1 DEF Upto
      <4> QED
        BY <1>5, <1>6, <2>1, <4>1, SizesAssumption DEF Records, Final
    <3>2. CASE ~Ordered
      BY <1>2, <1>7, <3>2 DEF Above
    <3> QED
      BY <3>1, <3>2
  <2> QED
    BY <2>1, <2>2, <2>3 DEF Before
<1>9. d \in Bounds /\ b \in Bounds /\ d[c] = v /\ b[c] <= d[c] /\ \A x \in Inner : x # c => d[x] = b[x]
  <2>1. v \in 0 .. Final
    BY <1>6, SizesAssumption DEF Final
  <2> QED
    BY <1>1, <1>3, <1>7, <1>8, <2>1 DEF Bounds
<1>10. Whole' /\ Elsewhere({c}, {}) /\ {c} \in SUBSET Always
  BY <1>0, SentKeepsLists
<1>11. OthersStay({c}, {})
  BY <1>10, ElsewhereStays
<1>12. c \in Channels /\ chan'[c] = Append(chan[c], h) /\ \A x \in Channels : x # c => chan'[x] = chan[x]
  BY <1>1, <1>4, ChannelKinds
<1>13. ASSUME NEW x \in Inner
       PROVE  ChanInv(x, d)' /\ Feeds(x, b, d) /\ (d[x] = b[x] \/ \E s \in Tables : x = In(s))
  <2>1. ChanInv(x, b) /\ x \in Channels /\ \A g \in Elements(chan[x]) : Stays(g)
    BY <1>11, ChannelKinds DEF OrderInv, OthersStay
  <2>2. CASE x = c
    <3>1. Chain(heap'.next, h) = list
      BY <1>1, ChainIs
    <3>2. ChanInv(c, b) /\ (\A g \in Elements(chan[c]) : Stays(g)) /\ (c \in closed' => c \in closed)
      BY <1>1, <2>1, <2>2
    <3>3. Fits(c, list) /\ Upto(Elements(list), d[c])
      BY <1>0, <1>6, <1>9
    <3> HIDE DEF h
    <3>4. ChanInv(c, d)' /\ Feeds(c, b, d)
      BY <1>1, <1>5, <1>8, <1>9, <1>12, <3>1, <3>2, <3>3, ChanSends
    <3> QED
      BY <1>0, <2>2, <3>4
  <2>3. CASE x # c
    <3>1. chan'[x] = chan[x] /\ d[x] = b[x] /\ (x \in closed' => x \in closed)
      BY <1>1, <1>9, <1>12, <2>1, <2>3
    <3> QED
      BY <1>9, <2>1, <3>1, ChanStays
  <2> QED
    BY <2>2, <2>3
<1>14. ASSUME NEW s \in Tables PROVE TableInv(s, d)'
  <2>1. In(s)' = In(s) /\ TableInv(s, b) /\ In(s) \in Inner
    BY <1>1, <1>4, TablesWrite DEF OrderInv, In
  <2>2. CASE s = t
    <3>1. d[In(s)] = v /\ Above(s)' = v /\ v <= v
      <4>1. In(s) = c /\ Above(s)' = v
        BY <1>0, <1>2, <2>2 DEF Above
      <4>2. v \in Int
        BY <1>6, SizesAssumption
      <4>3. v <= v
        BY <4>2
      <4> QED
        BY <1>9, <4>1, <4>3
    <3> QED
      BY <2>1, <3>1 DEF TableInv
  <2>3. CASE s # t
    <3>1. In(s) # c
      BY <1>0, <1>4, <2>3, TablesWrite
    <3>2. d[In(s)] = b[In(s)] /\ produced'[s] = produced[s]
      BY <1>1, <1>4, <1>9, <2>1, <2>3, <3>1
    <3> QED
      BY <1>1, <2>1, <3>2 DEF TableInv, Above
  <2> QED
    BY <2>2, <2>3
<1>15. \A e \in Exporters : chan'[Out(e)] = chan[Out(e)]
  BY <1>1, <1>12, ChannelKinds
<1>16. OrderInv(d)'
  BY <1>1, <1>9, <1>10, <1>13, <1>14, <1>15, TableStep
<1> QED
  BY <1>16

\* The tables are done.
LEMMA ShutdownKeeps ==
    ASSUME Whole, Shutdown
    PROVE  Whole' /\ \A b : OrderInv(b) /\ order # "none" => \E d : OrderInv(d)'
<1>1. /\ closed = {} /\ closed' = {In(t) : t \in Tables}
      /\ UNCHANGED <<order, heap, produced, chan, hand, merger, splice, exported>>
  BY DEF Shutdown
<1>2. order \in Orders /\ \A t \in Tables : In(t) \in Inner /\ In(t)' = In(t)
  BY <1>1, TablesWrite DEF Whole, PipeTypes, In
<1>3. Whole'
  <2>1. closed' \subseteq Channels
    BY <1>1, <1>2, ChannelKinds
  <2> QED
    BY <1>1, <2>1, NothingMoves
<1>4. SUFFICES ASSUME NEW b, OrderInv(b), order # "none" PROVE \E d : OrderInv(d)'
  BY <1>3
<1>5. PICK d : d = [c \in Inner |-> IF \E t \in Tables : c = In(t) THEN Final ELSE b[c]]
  OBVIOUS
<1>6. b \in Bounds /\ d \in Bounds
  <2>1. b \in [Inner -> 0 .. Final] /\ Final \in 0 .. Final
    BY <1>4, SizesAssumption DEF OrderInv, Final
  <2>2. d \in [Inner -> 0 .. Final]
    BY <1>5, <2>1
  <2> QED
    BY <2>1, <2>2 DEF Bounds
<1>7. \A h : Stays(h)
  BY <1>1, HeapStays
<1>8. ASSUME NEW c \in Inner
      PROVE  ChanInv(c, d)' /\ Feeds(c, b, d) /\ (d[c] = b[c] \/ \E t \in Tables : c = In(t))
  <2>1. ChanInv(c, b) /\ chan'[c] = chan[c]
    BY <1>1, <1>4 DEF OrderInv
  <2>2. (d[c] = b[c] /\ (c \in closed' => c \in closed)) \/ d[c] = Final
    BY <1>1, <1>5
  <2>3. d[c] = b[c] \/ \E t \in Tables : c = In(t)
    BY <1>5
  <2> QED
    BY <1>6, <1>7, <2>1, <2>2, <2>3, ChanStays
<1>9. ASSUME NEW t \in Tables PROVE TableInv(t, d)'
  <2>1. d[In(t)] = Final /\ In(t) \in closed'
    BY <1>1, <1>2, <1>5
  <2> QED
    BY <1>2, <2>1 DEF TableInv
<1>10. Elsewhere({}, {}) /\ {} \in SUBSET Always /\ \A e \in Exporters : chan'[Out(e)] = chan[Out(e)]
  BY <1>1, <1>7 DEF Elsewhere
<1>11. OrderInv(d)'
  BY <1>1, <1>3, <1>4, <1>6, <1>8, <1>9, <1>10, TableStep
<1> QED
  BY <1>11

--------------------------------------------------------------------------------
(* 19. The splicer and the exporters                                         *)

\* What is on the way to an exporter whose places are left alone.
LEMMA ViewStays ==
    ASSUME NEW e \in Exporters, View(e), \A p \in Places(e) : HeadsAt(p)' = HeadsAt(p), heap' = heap,
           Produced' = Produced, exported'[e] = exported[e]
    PROVE  View(e)'
<1> DEFINE N == [p \in {} |-> {}]
           C == {}
           D == {}
           F == {}
<1>1. Heads(C, N) = {} /\ Apart(C, N) /\ D \subseteq Heads(C, HeadsOf(e)) /\ C \in SUBSET Places(e)
  BY DEF Heads, Apart
<1>2. RecordsOf(heap'.next, {}) = {} /\ RecordsOf(heap.next, {}) = {}
  BY DEF RecordsOf
<1>3. Relinks(heap.next, heap'.next, D, Heads(C, N), F)
  BY <1>1, <1>2 DEF Relinks, Separate
<1>4. /\ RecordsOf(heap'.next, Heads(C, N)) = RecordsOf(heap.next, D) \cup F
      /\ \A x \in Records \ (RecordsOf(heap.next, D) \cup F) : heap'.prev[x] = heap.prev[x]
      /\ F \cap Produced = {} /\ Produced' = Produced \cup F
      /\ (\A p \in C : HeadsAt(p)' = (HeadsAt(p) \ D) \cup N[p])
      /\ \A p \in Places(e) \ C : HeadsAt(p)' = HeadsAt(p)
  BY <1>1, <1>2
<1> HIDE DEF C, D, F, N
<1> QED
  BY <1>1, <1>3, <1>4, StepView

\* The workers and the tables, when the splicer or an exporter takes a step.
LEMMA EndStep ==
    ASSUME NEW b, OrderInv(b), Whole, Whole', UNCHANGED <<order, heap, produced, hand, merger>>,
           \A c \in Inner : \/ chan'[c] = chan[c]
                            \/ c = SortedQueue /\ Ready(c) /\ chan'[c] = Tail(chan[c]),
           closed \subseteq closed', \A c \in Inner : c \in closed' => c \in closed,
           \A e \in Exporters : EndInv(e, b)', Sorted(List(splice.list))'
    PROVE  OrderInv(b)'
<1>1. /\ b \in Bounds /\ b \in [Inner -> 0 .. Final]
      /\ \A f \in Workers : HandInv(f, b)
      /\ \A w \in Mergers : MergerInv(w, b) /\ w \in Workers
      /\ \A t \in Tables : TableInv(t, b)
  BY WorkerKinds DEF OrderInv, Bounds
<1>2. \A h : Stays(h)
  BY HeapStays
<1>3. ASSUME NEW c \in Inner PROVE ChanInv(c, b)' /\ Feeds(c, b, b)
  <2>1. ChanInv(c, b)
    BY DEF OrderInv
  <2>2. CASE chan'[c] = chan[c]
    BY <1>1, <1>2, <2>1, <2>2, ChanStays
  <2>3. CASE Ready(c) /\ chan'[c] = Tail(chan[c])
    <3>1. Taken(c, b)
      BY <1>1, <1>2, <2>1, <2>3, ChanReceives
    <3> QED
      BY <3>1 DEF Taken
  <2> QED
    BY <2>2, <2>3
<1>4. ASSUME NEW f \in Workers PROVE HandInv(f, b)'
  <2>1. \A k \in 0 .. 1 : Feeds(Source(f, k), b, b)
    BY <1>3, Topology
  <2>2. \A k \in 0 .. 1 : Pending(f, k)' = Pending(f, k)
    BY DEF Pending
  <2>3. hand'[f] = hand[f]
    OBVIOUS
  <2> QED
    BY <1>1, <1>2, <2>1, <2>2, <2>3, HandStays
<1>5. ASSUME NEW w \in Mergers PROVE MergerInv(w, b)'
  <2>1. \A k \in 0 .. 1 : Feeds(MergeInput(w, k), b, b)
    BY <1>3, Topology, ChannelKinds
  <2>2. merger'[w] = merger[w]
    OBVIOUS
  <2> QED
    BY <1>1, <1>2, <2>1, <2>2, MergerStays
<1>6. ASSUME NEW t \in Tables PROVE TableInv(t, b)'
  <2>1. In(t)' = In(t)
    BY DEF In
  <2> QED
    BY <1>1, <2>1 DEF TableInv, Above
<1>7. order' # "expiry" => \A s \in Sorters : hand'[s] = Nil /\ Over(SortInput(s), b)'
  <2> SUFFICES ASSUME order # "expiry", NEW s \in Sorters PROVE hand'[s] = Nil /\ Over(SortInput(s), b)'
    OBVIOUS
  <2>1. Source(s, 0) = SortInput(s) /\ SortInput(s) \in Inner
    BY WorkerKinds, Topology
  <2>2. hand[s] = Nil /\ Over(SortInput(s), b)
    BY DEF OrderInv
  <2>3. Feeds(SortInput(s), b, b)
    BY <1>3, <2>1
  <2> QED
    BY <2>1, <2>2, <2>3 DEF Feeds, Over
<1>8. \A c \in Inner : ChanInv(c, b)'
  BY <1>3
<1>9. \A f \in Workers : HandInv(f, b)'
  BY <1>4
<1> QED
  BY <1>1, <1>5, <1>6, <1>7, <1>8, <1>9 DEF OrderInv

\* The splicer receives a list, which then is on its way to all exporters.
LEMMA SpliceReceiveKeepsLists ==
    ASSUME Whole, SpliceReceive
    PROVE  Whole'
<1> DEFINE c == SortedQueue
           h == Head(chan[c])
<1>1. /\ splice.list = Nil /\ splice.to = 1 /\ chan[c] # <<>> /\ chan' = Received(c)
      /\ splice' = [splice EXCEPT !.list = h]
      /\ UNCHANGED <<order, heap, produced, closed, hand, merger, exported>>
  BY DEF SpliceReceive, Ready, Whole
<1>2. /\ chan \in [Channels -> Seq(Records)] /\ splice \in [list : Pointer, to : 1 .. NumExporters]
      /\ c \in Inner /\ c \in Channels /\ Different(chan[c]) /\ chan[c] \in Seq(Records)
      /\ \A e \in Exporters : Out(e) # c
  BY Topology, ChannelKinds DEF Whole, PipeTypes
<1>3. /\ Tail(chan[c]) \in Seq(Records) /\ h \in Elements(chan[c]) /\ h \in Records
      /\ Elements(Tail(chan[c])) = Elements(chan[c]) \ {h} /\ Different(Tail(chan[c]))
  BY <1>1, <1>2, TailOf
<1>4. /\ chan' \in [Channels -> Seq(Records)] /\ chan'[c] = Tail(chan[c])
      /\ (\A d \in Channels : d # c => chan'[d] = chan[d])
      /\ splice' \in [list : Pointer, to : 1 .. NumExporters] /\ splice'.list = h /\ splice'.to = 1 /\ h # Nil
  BY <1>1, <1>2, <1>3, SizesAssumption DEF Received, Pointer, Records, Nil
<1>5. PipeTypes'
  BY <1>1, <1>4 DEF Whole, PipeTypes
<1>6. ASSUME NEW e \in Exporters PROVE View(e)'
  <2> DEFINE o == SpliceOf(e)
             C == {c, o}
             N == [p \in C |-> IF p = c THEN {} ELSE {h}]
             D == {h}
             F == {}
  <2>1. /\ View(e) /\ c \in Places(e) /\ o \in Places(e) /\ o # c /\ 1 <= e
        /\ HeadsAt(c) = Elements(chan[c]) /\ HeadsAt(c)' = Elements(chan'[c])
        /\ HeadsAt(o) = (IF splice.to <= e THEN {splice.list} \ {Nil} ELSE {})
        /\ HeadsAt(o)' = (IF splice'.to <= e THEN {splice'.list} \ {Nil} ELSE {})
    BY <1>2, PlacesAre, HeadsAre, SizesAssumption DEF Whole, Exporters
  <2>2. N[c] = {} /\ N[o] = {h} /\ Heads(C, N) = {h} /\ Apart(C, N)
    BY <2>1 DEF Heads, Apart
  <2>3. \A p \in C : HeadsAt(p)' = (HeadsAt(p) \ D) \cup N[p]
    <3>1. HeadsAt(c)' = (HeadsAt(c) \ {h}) \cup {}
      BY <1>3, <1>4, <2>1
    <3>2. HeadsAt(o)' = (HeadsAt(o) \ {h}) \cup {h}
      BY <1>1, <1>4, <2>1
    <3> HIDE DEF N, c, h, o
    <3> QED
      BY <2>2, <3>1, <3>2
  <2>4. \A p \in Places(e) \ C : HeadsAt(p)' = HeadsAt(p)
    <3>1. \A d \in Channels \ C : chan'[d] = chan[d]
      BY <1>4
    <3> HIDE DEF C
    <3> QED
      BY <1>1, <3>1, HeadsStay DEF C
  <2>5. D \subseteq Heads(C, HeadsOf(e)) /\ C \in SUBSET Places(e)
    BY <1>3, <2>1 DEF Heads, HeadsOf
  <2>6. Relinks(heap.next, heap'.next, D, Heads(C, N), F)
    <3>1. Separate(heap.next, {h})
      <4>1. \E l \in RecordLists : Linked(heap.next, h, l)
        BY <1>3, <2>1, HeadIs
      <4> QED
        BY <1>3, <4>1 DEF Separate
    <3> HIDE DEF h
    <3> QED
      BY <1>1, <2>2, <3>1 DEF Relinks
  <2>7. /\ RecordsOf(heap'.next, Heads(C, N)) = RecordsOf(heap.next, D) \cup F
        /\ (\A x \in Records \ (RecordsOf(heap.next, D) \cup F) : heap'.prev[x] = heap.prev[x])
        /\ F \cap Produced = {} /\ Produced' = Produced \cup F /\ exported'[e] = exported[e]
    BY <1>1, <2>2 DEF Produced
  <2>8. View(e) /\ Apart(C, N)
    BY <2>1, <2>2
  <2> HIDE DEF C, D, F, N, c, h, o
  <2> QED
    BY <2>3, <2>4, <2>5, <2>6, <2>7, <2>8, StepView
<1>7. \A d \in Channels : Different(chan'[d])
  BY <1>3, <1>4 DEF Whole
<1>8. Fresh'
  BY <1>1 DEF Whole, Fresh, Produced
<1> QED
  BY <1>4, <1>5, <1>6, <1>7, <1>8 DEF Whole

\* ... and above what all exporters got so far.
LEMMA SpliceReceiveKeepsOrder ==
    ASSUME Whole, NEW b, OrderInv(b), SpliceReceive
    PROVE  OrderInv(b)'
<1> DEFINE c == SortedQueue
           h == Head(chan[c])
<1>1. /\ splice.list = Nil /\ splice.to = 1 /\ Ready(c) /\ chan[c] # <<>> /\ chan' = Received(c)
      /\ splice' = [splice EXCEPT !.list = h]
      /\ UNCHANGED <<order, heap, produced, closed, hand, merger, exported>>
  BY DEF SpliceReceive, Ready, Whole
<1>2. /\ chan \in [Channels -> Seq(Records)] /\ splice \in [list : Pointer, to : 1 .. NumExporters]
      /\ c \in Inner /\ c \in Channels /\ c[1] = "tree"
      /\ \A e \in Exporters : Out(e) \in Channels /\ Out(e) \notin Inner
  BY Topology, ChannelKinds DEF Whole, PipeTypes
<1>3. /\ chan'[c] = Tail(chan[c]) /\ (\A d \in Channels : d # c => chan'[d] = chan[d])
      /\ splice'.list = h /\ splice'.to = 1
  BY <1>1, <1>2 DEF Received
<1>4. Whole'
  BY SpliceReceiveKeepsLists
<1>5. \A x : Stays(x) /\ List(x)' = List(x) /\ Of(x)' = Of(x)
  BY <1>1, HeapStays
<1>6. ChanInv(c, b) /\ b \in Bounds
  BY <1>2 DEF OrderInv, Bounds
<1>7. Taken(c, b)
  BY <1>1, <1>2, <1>3, <1>5, <1>6, ChanReceives
<1>8. /\ Of(h) \subseteq Content(c) /\ Ahead(Of(h), Content(c)') /\ Content(c)' \subseteq Content(c)
      /\ Upto(Content(c), b[c]) /\ Sorted(List(h))
  BY <1>2, <1>6, <1>7 DEF Taken, ChanInv, Fits
<1>9. ASSUME NEW e \in Exporters PROVE EndInv(e, b)'
  <2> DEFINE o == Out(e)
             X == Elements(exported[e]) \cup Content(o)
  <2>1. chan'[o] = chan[o] /\ exported' = exported /\ 1 <= e
    BY <1>1, <1>2, <1>3, SizesAssumption DEF Exporters
  <2>2. InOrder(o)' /\ AllFit(o)' /\ Content(o)' = Content(o)
    <3>1. InOrder(o) /\ AllFit(o)
      BY DEF EndInv, OrderInv
    <3> QED
      BY <1>5, <2>1, <3>1 DEF InOrder, AllFit, Content
  <2>3. SplicedFor(e)' = Of(h)
    BY <1>3, <1>5, <2>1 DEF SplicedFor, Of, List
  <2>4. EndInv(e, b) /\ Passing(0, X, SplicedFor(e), Content(c), b[c])
    BY DEF EndInv, OrderInv
  <2>5. Passing(0, X, Of(h), Content(c)', b[c])
    <3> HIDE DEF X, h, c
    <3> QED
      BY <1>8, <2>4 DEF Passing, Ahead, Before, Upto
  <2> QED
    BY <2>1, <2>2, <2>3, <2>4, <2>5 DEF EndInv
<1>10. Sorted(List(splice.list))'
  BY <1>3, <1>5, <1>8 DEF List
<1>11. \A d \in Inner : chan'[d] = chan[d] \/ (d = SortedQueue /\ Ready(d) /\ chan'[d] = Tail(chan[d]))
  BY <1>1, <1>3, ChannelKinds
<1> QED
  BY <1>1, <1>4, <1>9, <1>10, <1>11, EndStep

\* The splicer sends its list to one exporter after the other.
LEMMA SpliceSendIs ==
    ASSUME Whole, SpliceSend
    PROVE  LET t == splice.to
               h == splice.list
               o == Out(t)
           IN  /\ t \in Exporters /\ h # Nil /\ h \in Records /\ o \in Channels /\ o \notin Inner
               /\ \A e \in Exporters : Out(e) = o => e = t
               /\ chan[o] \in Seq(Records) /\ chan'[o] = Append(chan[o], h)
               /\ chan' \in [Channels -> Seq(Records)] /\ \A d \in Channels : d # o => chan'[d] = chan[d]
               /\ \/ t = NumExporters /\ splice' = [list |-> Nil, to |-> 1]
                  \/ t < NumExporters /\ splice' = [list |-> h, to |-> t + 1]
               /\ UNCHANGED <<order, heap, produced, closed, hand, merger, exported>>
<1> DEFINE t == splice.to
           h == splice.list
           o == Out(t)
<1>1. /\ h # Nil /\ chan' = [chan EXCEPT ![o] = Append(@, h)]
      /\ splice' = IF t = NumExporters THEN [list |-> Nil, to |-> 1] ELSE [splice EXCEPT !.to = @ + 1]
      /\ UNCHANGED <<order, heap, produced, closed, hand, merger, exported>>
  BY DEF SpliceSend
<1>2. /\ chan \in [Channels -> Seq(Records)] /\ splice \in [list : Pointer, to : 1 .. NumExporters]
  BY DEF Whole, PipeTypes
<1>3. t \in Exporters /\ h \in Records
  BY <1>1, <1>2 DEF Exporters, Pointer
<1>4. /\ o \in Channels /\ o \notin Inner /\ \A e \in Exporters : Out(e) = o => e = t
  BY <1>3, ChannelKinds
<1>5. chan[o] \in Seq(Records) /\ Append(chan[o], h) \in Seq(Records)
  <2>1. chan[o] \in Seq(Records)
    BY <1>2, <1>4
  <2> QED
    BY <1>3, <2>1, AppendOf
<1>6. /\ chan'[o] = Append(chan[o], h) /\ chan' \in [Channels -> Seq(Records)]
      /\ \A d \in Channels : d # o => chan'[d] = chan[d]
  BY <1>1, <1>2, <1>4, <1>5
<1>7. \/ t = NumExporters /\ splice' = [list |-> Nil, to |-> 1]
      \/ t < NumExporters /\ splice' = [list |-> h, to |-> t + 1]
  <2>1. splice = [list |-> h, to |-> t] /\ t \in 1 .. NumExporters /\ NumExporters \in Nat
    BY <1>2, SizesAssumption
  <2>2. CASE t = NumExporters
    BY <1>1, <2>2
  <2>3. CASE t # NumExporters
    <3>1. splice' = [splice EXCEPT !.to = t + 1]
      BY <1>1, <2>3
    <3>2. splice' = [list |-> h, to |-> t + 1]
      <4> DEFINE x == t
                 y == h
      <4>1. splice = [list |-> y, to |-> x] /\ splice' = [splice EXCEPT !.to = x + 1]
        BY <2>1, <3>1
      <4> HIDE DEF x, y
      <4>2. splice' = [list |-> y, to |-> x + 1]
        BY <4>1
      <4> QED
        BY <4>2 DEF x, y
    <3>3. t < NumExporters
      BY <2>1, <2>3
    <3> QED
      BY <3>2, <3>3
  <2> QED
    BY <2>2, <2>3
<1> QED
  BY <1>1, <1>3, <1>4, <1>5, <1>6, <1>7

\* The list is on its way to one exporter less, and in the channel of this one.
LEMMA SpliceSendKeepsLists ==
    ASSUME Whole, SpliceSend
    PROVE  Whole'
<1>0. PICK t, h, o : t = splice.to /\ h = splice.list /\ o = Out(splice.to)
  OBVIOUS
<1>1. /\ t \in Exporters /\ h # Nil /\ h \in Records /\ o \in Channels /\ o \notin Inner /\ o = Out(t)
      /\ (\A e \in Exporters : Out(e) = o => e = t)
      /\ chan[o] \in Seq(Records) /\ chan'[o] = Append(chan[o], h)
      /\ chan' \in [Channels -> Seq(Records)] /\ (\A d \in Channels : d # o => chan'[d] = chan[d])
      /\ \/ t = NumExporters /\ splice' = [list |-> Nil, to |-> 1]
         \/ t < NumExporters /\ splice' = [list |-> h, to |-> t + 1]
      /\ UNCHANGED <<order, heap, produced, closed, hand, merger, exported>>
      /\ splice.to = t /\ splice.list = h
  BY <1>0, SpliceSendIs
<1>2. t \in 1 .. NumExporters /\ NumExporters \in Nat
  BY <1>1, SizesAssumption DEF Exporters
<1>3. /\ splice' \in [list : Pointer, to : 1 .. NumExporters] /\ (splice'.list = Nil => splice'.to = 1)
      /\ \A e \in Exporters : /\ e # t => (splice.to <= e /\ h = splice.list <=> splice'.to <= e /\ splice'.list = h)
                              /\ e # t /\ ~(splice.to <= e) => ~(splice'.to <= e) \/ splice'.list = Nil
                              /\ ~(splice'.to <= t) \/ splice'.list = Nil
  <2>1. CASE t = NumExporters /\ splice' = [list |-> Nil, to |-> 1]
    BY <1>1, <1>2, <2>1 DEF Pointer, Exporters
  <2>2. CASE t < NumExporters /\ splice' = [list |-> h, to |-> t + 1]
    BY <1>1, <1>2, <2>2 DEF Pointer, Exporters
  <2> QED
    BY <1>1, <2>1, <2>2
<1>4. PipeTypes'
  BY <1>1, <1>3 DEF Whole, PipeTypes
<1>5. /\ View(t) /\ SpliceOf(t) \in Places(t) /\ o \in Places(t) /\ SpliceOf(t) # o
      /\ HeadsAt(o) = Elements(chan[o]) /\ HeadsAt(o)' = Elements(chan'[o])
      /\ \A p : p = SpliceOf(t) => /\ HeadsAt(p) = IF splice.to <= t THEN {splice.list} \ {Nil} ELSE {}
                                  /\ HeadsAt(p)' = IF splice'.to <= t THEN {splice'.list} \ {Nil} ELSE {}
  BY <1>1, PlacesAre, HeadsAre DEF Whole
<1>6. HeadsAt(SpliceOf(t)) = {h} /\ \A p : p = SpliceOf(t) => HeadsAt(p)' = {}
  BY <1>1, <1>2, <1>3, <1>5
<1>7. h \notin Elements(chan[o]) /\ \E l \in RecordLists : Linked(heap.next, h, l)
  BY <1>1, <1>5, <1>6, HeadIs
<1>8. Elements(Append(chan[o], h)) = Elements(chan[o]) \cup {h} /\ Different(Append(chan[o], h))
  <2>1. Different(chan[o])
    BY <1>1 DEF Whole
  <2> QED
    BY <1>1, <1>7, <2>1, AppendOf
<1>9. View(t)'
  <2> DEFINE C == {SpliceOf(t), o}
             N == [p \in C |-> IF p = o THEN {h} ELSE {}]
             D == {h}
             F == {}
  <2>1. N[o] = {h} /\ N[SpliceOf(t)] = {} /\ Heads(C, N) = {h} /\ Apart(C, N)
    BY <1>5 DEF Heads, Apart
  <2>2. \A p \in C : HeadsAt(p)' = (HeadsAt(p) \ D) \cup N[p]
    <3>1. HeadsAt(o)' = (HeadsAt(o) \ {h}) \cup {h}
      BY <1>1, <1>5, <1>8
    <3>2. \A p : p = SpliceOf(t) => HeadsAt(p)' = (HeadsAt(p) \ {h}) \cup {}
      BY <1>6
    <3> HIDE DEF N
    <3> QED
      BY <2>1, <3>1, <3>2
  <2>3. \A p \in Places(t) \ C : HeadsAt(p)' = HeadsAt(p)
    <3>1. \A d \in Channels \ C : chan'[d] = chan[d]
      BY <1>1
    <3> HIDE DEF C
    <3> QED
      BY <1>1, <3>1, HeadsStay DEF C
  <2>4. D \subseteq Heads(C, HeadsOf(t)) /\ C \in SUBSET Places(t)
    BY <1>5, <1>6 DEF Heads, HeadsOf
  <2>5. Relinks(heap.next, heap'.next, D, Heads(C, N), F)
    <3>1. Separate(heap.next, {h})
      BY <1>1, <1>7 DEF Separate
    <3> QED
      BY <1>1, <2>1, <3>1 DEF Relinks
  <2>6. /\ RecordsOf(heap'.next, Heads(C, N)) = RecordsOf(heap.next, D) \cup F
        /\ (\A x \in Records \ (RecordsOf(heap.next, D) \cup F) : heap'.prev[x] = heap.prev[x])
        /\ F \cap Produced = {} /\ Produced' = Produced \cup F /\ exported'[t] = exported[t]
    <3>1. Produced' = Produced /\ exported' = exported /\ heap' = heap
      BY <1>1 DEF Produced
    <3> HIDE DEF C, N
    <3> QED
      BY <2>1, <3>1
  <2>7. View(t) /\ Apart(C, N) /\ t \in Exporters
    BY <1>1, <1>5, <2>1
  <2> HIDE DEF C, D, F, N
  <2> QED
    BY <2>2, <2>3, <2>4, <2>5, <2>6, <2>7, StepView
<1>10. ASSUME NEW e \in Exporters, e # t PROVE View(e)'
  <2>1. /\ View(e) /\ o \notin Places(e)
        /\ \A p : p = SpliceOf(e) => /\ HeadsAt(p) = IF splice.to <= e THEN {splice.list} \ {Nil} ELSE {}
                                    /\ HeadsAt(p)' = IF splice'.to <= e THEN {splice'.list} \ {Nil} ELSE {}
    <3>1. o # Out(e) /\ o # SpliceOf(e)
      BY <1>1, <1>10, PlacesAre
    <3>2. o \notin Places(e)
      BY <1>1, <3>1, PlacesAre
    <3> QED
      BY <3>2, HeadsAre DEF Whole
  <2>2. \A p : p = SpliceOf(e) => HeadsAt(p)' = HeadsAt(p)
    <3>1. CASE splice.to <= e
      BY <1>1, <1>3, <1>10, <2>1, <3>1
    <3>2. CASE ~(splice.to <= e)
      BY <1>1, <1>3, <1>10, <2>1, <3>2
    <3> QED
      BY <3>1, <3>2
  <2> DEFINE C == {SpliceOf(e), o}
  <2>3. \A p \in Places(e) \ C : HeadsAt(p)' = HeadsAt(p)
    <3>1. \A d \in Channels \ C : chan'[d] = chan[d]
      BY <1>1
    <3> HIDE DEF C
    <3> QED
      BY <1>1, <3>1, HeadsStay DEF C
  <2>4. \A p \in Places(e) : HeadsAt(p)' = HeadsAt(p)
    BY <2>1, <2>2, <2>3
  <2>5. Produced' = Produced /\ exported'[e] = exported[e] /\ heap' = heap
    BY <1>1 DEF Produced
  <2> QED
    BY <2>1, <2>4, <2>5, ViewStays
<1>11. \A d \in Channels : Different(chan'[d])
  BY <1>1, <1>8 DEF Whole
<1>12. Fresh'
  BY <1>1 DEF Whole, Fresh, Produced
<1>13. \A e \in Exporters : View(e)'
  BY <1>9, <1>10
<1> QED
  BY <1>3, <1>4, <1>11, <1>12, <1>13 DEF Whole

\* ... at the end of the channel, behind what is below it.
LEMMA SpliceSendKeepsOrder ==
    ASSUME Whole, NEW b, OrderInv(b), SpliceSend
    PROVE  OrderInv(b)'
<1>0. PICK t, h, o : t = splice.to /\ h = splice.list /\ o = Out(splice.to)
  OBVIOUS
<1>1. /\ t \in Exporters /\ h # Nil /\ h \in Records /\ o \in Channels /\ o \notin Inner /\ o = Out(t)
      /\ (\A e \in Exporters : Out(e) = o => e = t)
      /\ chan[o] \in Seq(Records) /\ chan'[o] = Append(chan[o], h)
      /\ chan' \in [Channels -> Seq(Records)] /\ (\A d \in Channels : d # o => chan'[d] = chan[d])
      /\ \/ t = NumExporters /\ splice' = [list |-> Nil, to |-> 1]
         \/ t < NumExporters /\ splice' = [list |-> h, to |-> t + 1]
      /\ UNCHANGED <<order, heap, produced, closed, hand, merger, exported>>
      /\ splice.to = t /\ splice.list = h
  BY <1>0, SpliceSendIs
<1>2. t \in 1 .. NumExporters /\ NumExporters \in Nat
  BY <1>1, SizesAssumption DEF Exporters
<1>3. Whole'
  BY SpliceSendKeepsLists
<1>4. /\ \A x : Stays(x) /\ List(x)' = List(x) /\ Of(x)' = Of(x)
      /\ Of(Nil) = {} /\ List(Nil) = <<>>
  BY <1>1, HeapStays, NilList
<1>5. /\ Sorted(List(splice.list)) /\ Sorted(List(h))
      /\ \A e \in Exporters : EndInv(e, b)
  BY <1>1 DEF OrderInv
<1>6. ASSUME NEW e \in Exporters, e # t PROVE EndInv(e, b)'
  <2>1. chan'[Out(e)] = chan[Out(e)] /\ exported' = exported /\ chan'[SortedQueue] = chan[SortedQueue]
    BY <1>1, <1>6, Topology, ChannelKinds
  <2>2. /\ InOrder(Out(e))' /\ AllFit(Out(e))' /\ Content(Out(e))' = Content(Out(e))
        /\ Content(SortedQueue)' = Content(SortedQueue)
    <3>1. InOrder(Out(e)) /\ AllFit(Out(e))
      BY <1>5 DEF EndInv
    <3> QED
      BY <1>4, <2>1, <3>1 DEF InOrder, AllFit, Content
  <2>3. SplicedFor(e)' = SplicedFor(e)
    <3>1. CASE t = NumExporters /\ splice' = [list |-> Nil, to |-> 1]
      <4>1. ~(splice.to <= e) /\ splice'.list = Nil
        BY <1>1, <1>2, <1>6, <3>1 DEF Exporters
      <4> QED
        BY <1>4, <4>1 DEF SplicedFor, Of, List
    <3>2. CASE t < NumExporters /\ splice' = [list |-> h, to |-> t + 1]
      <4>1. (splice.to <= e <=> splice'.to <= e) /\ splice'.list = h
        BY <1>1, <1>2, <1>6, <3>2 DEF Exporters
      <4> QED
        BY <1>1, <1>4, <4>1 DEF SplicedFor, Of, List
    <3> QED
      BY <1>1, <3>1, <3>2
  <2> QED
    BY <1>5, <2>1, <2>2, <2>3 DEF EndInv
<1>7. EndInv(t, b)'
  <2> DEFINE X == Elements(exported[t])
             Y == Content(o)
             Z == Content(SortedQueue)
             s == chan[o]
  <2>1. /\ Ahead(X, Y) /\ Passing(0, X \cup Y, Of(h), Z, b[SortedQueue]) /\ InOrder(o) /\ AllFit(o)
        /\ Sorted(exported[t])
    <3>1. SplicedFor(t) = Of(h)
      BY <1>1, <1>2 DEF SplicedFor
    <3> QED
      BY <1>1, <1>5, <3>1 DEF EndInv
  <2>2. SplicedFor(t)' = {}
    <3>1. CASE t = NumExporters /\ splice' = [list |-> Nil, to |-> 1]
      BY <1>4, <3>1 DEF SplicedFor, Of, List
    <3>2. CASE t < NumExporters /\ splice' = [list |-> h, to |-> t + 1]
      BY <1>2, <3>2 DEF SplicedFor
    <3> QED
      BY <1>1, <3>1, <3>2
  <2>3. /\ Append(s, h) \in Seq(Records) /\ Len(s) \in Nat /\ Len(Append(s, h)) = Len(s) + 1
        /\ (\A i \in 1 .. Len(s) : Append(s, h)[i] = s[i] /\ s[i] \in Records)
        /\ Append(s, h)[Len(s) + 1] = h
        /\ \A i \in 1 .. Len(s) + 1 : i \in 1 .. Len(s) \/ i = Len(s) + 1
    BY <1>1, AppendOf
  <2> DEFINE n == Len(s)
             m == chan'[o]
  <2>4. /\ n \in Nat /\ Len(m) = n + 1 /\ m[n + 1] = h /\ (\A i \in 1 .. n : m[i] = s[i])
        /\ (\A i \in 1 .. n + 1 : i \in 1 .. n \/ i = n + 1) /\ n + 1 \in 1 .. n + 1
        /\ \A i \in 1 .. n : i \in 1 .. n + 1
    BY <1>1, <2>3
  <2>5. Y = UNION {Of(s[i]) : i \in 1 .. n} /\ \A i \in 1 .. n : Of(s[i]) \subseteq Y
    BY DEF Content
  <2>6. Content(o)' = Y \cup Of(h)
    <3>1. Content(o)' = UNION {Of(m[i]) : i \in 1 .. n + 1}
      BY <1>4, <2>4 DEF Content
    <3> HIDE DEF Y, s, n, m
    <3> QED
      BY <2>4, <2>5, <3>1
  <2>7. Ahead(Y, Of(h)) /\ Ahead(X, Of(h)) /\ Ahead(Of(h), Z)
    BY <2>1 DEF Passing, Ahead, Before
  <2>8. InOrder(o)'
    <3>1. \A i, j \in 1 .. n : i < j => Ahead(Of(s[i]), Of(s[j]))
      BY <2>1 DEF InOrder
    <3> HIDE DEF Y, s, n, m
    <3>2. ASSUME NEW i \in 1 .. n + 1, NEW j \in 1 .. n + 1, i < j PROVE Ahead(Of(m[i]), Of(m[j]))
      <4>1. i \in 1 .. n /\ m[i] = s[i]
        BY <2>4, <3>2
      <4>2. CASE j \in 1 .. n
        BY <2>4, <3>1, <3>2, <4>1, <4>2
      <4>3. CASE j = n + 1
        BY <2>4, <2>5, <2>7, <4>1, <4>3 DEF Ahead, Before
      <4> QED
        BY <2>4, <4>2, <4>3
    <3> QED
      BY <1>4, <2>4, <3>2 DEF InOrder, m
  <2>9. AllFit(o)'
    <3>1. \A i \in 1 .. n : Fits(o, List(s[i]))
      BY <2>1 DEF AllFit
    <3>2. Fits(o, List(h))
      <4>1. o[1] = "out"
        BY <1>1 DEF Out
      <4> QED
        BY <1>5, <4>1 DEF Fits
    <3> HIDE DEF Y, s, n, m
    <3>3. ASSUME NEW i \in 1 .. n + 1 PROVE Fits(o, List(m[i]))
      BY <2>4, <3>1, <3>2
    <3> QED
      BY <1>4, <2>4, <3>3 DEF AllFit, m
  <2>10. Content(SortedQueue)' = Z
    <3>1. chan'[SortedQueue] = chan[SortedQueue]
      BY <1>1, Topology, ChannelKinds
    <3> QED
      BY <1>4, <3>1 DEF Content
  <2> HIDE DEF Y, Z, s, n, m
  <2>11. Ahead(X, Y \cup Of(h))
    BY <2>1, <2>7 DEF Ahead, Before
  <2>12. Passing(0, X \cup (Y \cup Of(h)), {}, Z, b[SortedQueue])
    BY <2>1, <2>7 DEF Passing, Ahead, Before, Upto
  <2>13. exported' = exported
    BY <1>1
  <2> QED
    BY <1>1, <2>1, <2>2, <2>6, <2>8, <2>9, <2>10, <2>11, <2>12, <2>13 DEF EndInv
<1>8. Sorted(List(splice.list))'
  <2>1. splice'.list = Nil \/ splice'.list = h
    BY <1>1
  <2> QED
    BY <1>4, <1>5, <2>1, SortedOne DEF List
<1>9. \A d \in Inner : chan'[d] = chan[d]
  BY <1>1, ChannelKinds
<1>10. \A e \in Exporters : EndInv(e, b)'
  BY <1>6, <1>7
<1> QED
  BY <1>1, <1>3, <1>8, <1>9, <1>10, EndStep

\* An exporter takes the first list of its channel and goes through it.
LEMMA ExportListIs ==
    ASSUME Whole, NEW x \in Exporters, ExportList(x)
    PROVE  LET o == Out(x)
               h == Head(chan[o])
           IN  /\ o \in Channels /\ o \notin Inner /\ \A e \in Exporters : Out(e) = o => e = x
               /\ chan[o] \in Seq(Records) /\ chan[o] # <<>> /\ chan'[o] = Tail(chan[o])
               /\ chan' \in [Channels -> Seq(Records)] /\ (\A d \in Channels : d # o => chan'[d] = chan[d])
               /\ h \in Elements(chan[o]) /\ h \in Records
               /\ Elements(chan'[o]) = Elements(chan[o]) \ {h} /\ Different(chan'[o])
               /\ List(h) \in RecordLists /\ Of(h) \subseteq RecordsOf(heap.next, HeadsOn(x))
               /\ exported[x] \in RecordLists /\ Elements(exported[x]) \cap Of(h) = {}
               /\ exported' \in [Exporters -> Seq(Records)] /\ exported'[x] = exported[x] \o List(h)
               /\ (\A e \in Exporters : e # x => exported'[e] = exported[e])
               /\ UNCHANGED <<order, heap, produced, closed, hand, merger, splice>>
<1> DEFINE o == Out(x)
           h == Head(chan[o])
<1>1. /\ chan[o] # <<>> /\ chan' = [chan EXCEPT ![o] = Tail(@)]
      /\ exported' = [exported EXCEPT ![x] = @ \o List(h)]
      /\ UNCHANGED <<order, heap, produced, closed, hand, merger, splice>>
  BY DEF ExportList, Ready, Received, List
<1>2. /\ chan \in [Channels -> Seq(Records)] /\ exported \in [Exporters -> Seq(Records)]
      /\ View(x) /\ \A d \in Channels : Different(chan[d])
  BY DEF Whole, PipeTypes
<1>3. o \in Channels /\ o \notin Inner /\ \A e \in Exporters : Out(e) = o => e = x
  BY ChannelKinds
<1>4. /\ chan[o] \in Seq(Records) /\ Tail(chan[o]) \in Seq(Records)
      /\ h \in Elements(chan[o]) /\ h \in Records
      /\ Elements(Tail(chan[o])) = Elements(chan[o]) \ {h} /\ Different(Tail(chan[o]))
  BY <1>1, <1>2, <1>3, TailOf
<1>5. /\ chan' \in [Channels -> Seq(Records)] /\ chan'[o] = Tail(chan[o])
      /\ \A d \in Channels : d # o => chan'[d] = chan[d]
  BY <1>1, <1>2, <1>3, <1>4
<1>6. o \in Places(x) /\ HeadsAt(o) = Elements(chan[o])
  BY <1>3, PlacesAre, HeadsAre
<1>7. List(h) \in RecordLists /\ Of(h) \subseteq RecordsOf(heap.next, HeadsOn(x))
  BY <1>2, <1>4, <1>6, HeadIs
<1>8. exported[x] \in RecordLists /\ Elements(exported[x]) \cap Of(h) = {}
  <2>1. exported[x] \in Seq(Records) /\ Different(exported[x])
    BY <1>2 DEF View
  <2> QED
    BY <1>2, <1>7, <2>1, ListsAre DEF View
<1>9. exported[x] \o List(h) \in Seq(Records)
  BY <1>7, <1>8, ListConcat, ListTypes DEF Of
<1>10. /\ exported' \in [Exporters -> Seq(Records)] /\ exported'[x] = exported[x] \o List(h)
       /\ \A e \in Exporters : e # x => exported'[e] = exported[e]
  BY <1>1, <1>2, <1>9
<1> QED
  BY <1>1, <1>3, <1>4, <1>5, <1>7, <1>8, <1>10

\* What an exporter gets was on its way to this exporter, and is no more.
LEMMA ExportListKeepsLists ==
    ASSUME Whole, NEW x \in Exporters, ExportList(x)
    PROVE  Whole'
<1>0. PICK h, o : h = Head(chan[Out(x)]) /\ o = Out(x)
  OBVIOUS
<1>1. /\ o \in Channels /\ o \notin Inner /\ (\A e \in Exporters : Out(e) = o => e = x)
      /\ chan' \in [Channels -> Seq(Records)] /\ (\A d \in Channels : d # o => chan'[d] = chan[d])
      /\ h \in Elements(chan[o]) /\ h \in Records
      /\ Elements(chan'[o]) = Elements(chan[o]) \ {h} /\ Different(chan'[o])
      /\ List(h) \in RecordLists /\ Of(h) \subseteq RecordsOf(heap.next, HeadsOn(x))
      /\ exported[x] \in RecordLists /\ Elements(exported[x]) \cap Of(h) = {}
      /\ exported' \in [Exporters -> Seq(Records)] /\ exported'[x] = exported[x] \o List(h)
      /\ (\A e \in Exporters : e # x => exported'[e] = exported[e])
      /\ UNCHANGED <<order, heap, produced, closed, hand, merger, splice>>
  BY <1>0, ExportListIs
<1>2. PipeTypes'
  BY <1>1 DEF Whole, PipeTypes
<1>3. View(x)'
  <2> DEFINE P == Places(x)
             H == HeadsOf(x)
             G == [p \in P |-> HeadsAt(p)']
             C == {o}
             N == [p \in C |-> {}]
             D == {h}
             F == {}
             R == RecordsOf(heap.next, Heads(P, H))
             X == Elements(exported[x])
  <2>1. /\ Apart(P, H) /\ Separate(heap.next, Heads(P, H)) /\ R \cap X = {} /\ R \cup X = Produced
        /\ Of(h) \subseteq R
    BY <1>1 DEF Whole, View, HeadsOn
  <2>2. o \in P /\ HeadsAt(o) = Elements(chan[o]) /\ HeadsAt(o)' = Elements(chan'[o])
    BY <1>0, <1>1, PlacesAre, HeadsAre
  <2>3. \A p \in P : H[p] = HeadsAt(p) /\ G[p] = HeadsAt(p)'
    BY DEF HeadsOf
  <2>4. \A p \in P \ C : G[p] = H[p]
    <3>1. \A d \in Channels \ C : chan'[d] = chan[d]
      BY <1>1
    <3>2. \A p \in Places(x) \ C : HeadsAt(p)' = HeadsAt(p)
      <4> HIDE DEF C
      <4> QED
        BY <1>1, <3>1, HeadsStay
    <3> QED
      BY <2>3, <3>2
  <2>5. Heads(C, N) = {} /\ Apart(C, N) /\ N[o] = {}
    BY DEF Heads, Apart
  <2>6. \A p \in C : G[p] = (H[p] \ D) \cup N[p]
    BY <1>1, <2>2, <2>3
  <2>7. D \subseteq Heads(C, H) /\ C \in SUBSET P
    BY <1>1, <2>2, <2>3 DEF Heads
  <2>8. RecordsOf(heap.next, {}) = {} /\ RecordsOf(heap.next, D) = Of(h)
    BY DEF RecordsOf, Of, List
  <2>9. Relinks(heap.next, heap.next, D, Heads(C, N), F)
    BY <2>5, <2>8 DEF Relinks, Separate
  <2>10. F \cap RecordsOf(heap.next, Heads(P, H)) = {}
    OBVIOUS
  <2>11. HeadsOn(x)' = Heads(P, G) /\ HeadsOf(x)' = G /\ Places(x)' = P
    BY DEF HeadsOn, HeadsOf
  <2> HIDE DEF P, H, G, C, N, D, F
  <2>12. Relinked(P, C, H, G, heap.next, heap.next, D, Heads(C, N), F)
    BY <2>1, <2>4, <2>5, <2>6, <2>7, <2>9, <2>10, Relink
  <2>13. /\ Apart(P, G) /\ Separate(heap.next, Heads(P, G))
         /\ RecordsOf(heap.next, Heads(P, G)) = R \ Of(h)
    BY <2>5, <2>8, <2>12 DEF Relinked
  <2>14. exported'[x] \in RecordLists /\ Elements(exported'[x]) = X \cup Of(h)
    BY <1>1, ListConcat DEF Of
  <2>15. Different(exported'[x])
    BY <2>14, ListTypes
  <2>16. /\ (R \ Of(h)) \cap (X \cup Of(h)) = {}
         /\ (R \ Of(h)) \cup (X \cup Of(h)) = Produced
    BY <2>1
  <2>17. Produced' = Produced /\ heap' = heap
    BY <1>1 DEF Produced
  <2> HIDE DEF R, X
  <2> QED
    BY <2>11, <2>13, <2>14, <2>15, <2>16, <2>17 DEF View
<1>4. ASSUME NEW e \in Exporters, e # x PROVE View(e)'
  <2> DEFINE C == {o}
  <2>1. View(e) /\ o \notin Places(e)
    <3>1. o # Out(e) /\ o # SpliceOf(e)
      BY <1>1, <1>4, PlacesAre
    <3>2. o \notin Always /\ Places(e) = Always \cup {Out(e), SpliceOf(e)}
      BY <1>0, PlacesAre DEF Places
    <3>3. o \notin Places(e)
      BY <3>1, <3>2
    <3> QED
      BY <3>3 DEF Whole
  <2>2. \A p \in Places(e) \ C : HeadsAt(p)' = HeadsAt(p)
    <3>1. \A d \in Channels \ C : chan'[d] = chan[d]
      BY <1>1
    <3> HIDE DEF C
    <3> QED
      BY <1>1, <3>1, HeadsStay
  <2>3. \A p \in Places(e) : HeadsAt(p)' = HeadsAt(p)
    BY <2>1, <2>2
  <2>4. Produced' = Produced /\ exported'[e] = exported[e] /\ heap' = heap
    BY <1>1, <1>4 DEF Produced
  <2> QED
    BY <2>1, <2>3, <2>4, ViewStays
<1>5. \A d \in Channels : Different(chan'[d])
  BY <1>1 DEF Whole
<1>6. Fresh'
  BY <1>1 DEF Whole, Fresh, Produced
<1>7. \A e \in Exporters : View(e)'
  BY <1>3, <1>4
<1>8. splice'.list = Nil => splice'.to = 1
  BY <1>1 DEF Whole
<1> QED
  BY <1>2, <1>5, <1>6, <1>7, <1>8 DEF Whole

\* ... and it is above what the exporter got before.
LEMMA ExportListKeepsOrder ==
    ASSUME Whole, NEW b, OrderInv(b), NEW x \in Exporters, ExportList(x)
    PROVE  OrderInv(b)'
<1>0. PICK h, o : h = Head(chan[Out(x)]) /\ o = Out(x)
  OBVIOUS
<1>1. /\ o \in Channels /\ o \notin Inner /\ (\A e \in Exporters : Out(e) = o => e = x)
      /\ chan[o] \in Seq(Records) /\ chan[o] # <<>> /\ chan'[o] = Tail(chan[o])
      /\ (\A d \in Channels : d # o => chan'[d] = chan[d])
      /\ List(h) \in RecordLists
      /\ exported[x] \in RecordLists /\ exported'[x] = exported[x] \o List(h)
      /\ Elements(exported[x]) \cap Of(h) = {}
      /\ (\A e \in Exporters : e # x => exported'[e] = exported[e])
      /\ UNCHANGED <<order, heap, produced, closed, hand, merger, splice>>
  BY <1>0, ExportListIs
<1>2. Whole'
  BY ExportListKeepsLists
<1>3. \A g : Stays(g) /\ List(g)' = List(g) /\ Of(g)' = Of(g)
  BY <1>1, HeapStays
<1>4. /\ SortedQueue \in Inner /\ SortedQueue \in Channels /\ SortedQueue # o
      /\ chan'[SortedQueue] = chan[SortedQueue]
  BY <1>1, Topology, ChannelKinds
<1>5. Content(SortedQueue)' = Content(SortedQueue) /\ \A e \in Exporters : SplicedFor(e)' = SplicedFor(e)
  BY <1>1, <1>3, <1>4 DEF Content, SplicedFor
<1>6. ASSUME NEW e \in Exporters, e # x PROVE EndInv(e, b)'
  <2>1. chan'[Out(e)] = chan[Out(e)] /\ exported'[e] = exported[e]
    BY <1>1, <1>6, ChannelKinds
  <2>2. EndInv(e, b)
    BY DEF OrderInv
  <2>3. InOrder(Out(e))' /\ AllFit(Out(e))' /\ Content(Out(e))' = Content(Out(e))
    BY <1>3, <2>1, <2>2 DEF EndInv, InOrder, AllFit, Content
  <2> QED
    BY <1>5, <2>1, <2>2, <2>3 DEF EndInv
<1>7. EndInv(x, b)'
  <2> DEFINE X == Elements(exported[x])
             Y == Content(o)
             Z == Content(SortedQueue)
             s == chan[o]
             t == chan'[o]
             n == Len(s)
             m == Len(t)
             l == List(h)
  <2>1. /\ Sorted(exported[x]) /\ InOrder(o) /\ AllFit(o) /\ Ahead(X, Y)
        /\ Passing(0, X \cup Y, SplicedFor(x), Z, b[SortedQueue])
    BY <1>0 DEF EndInv, OrderInv
  <2>2. /\ n \in Nat /\ 1 \in 1 .. n /\ m = n - 1 /\ h = s[1]
        /\ \A i \in 1 .. m : i + 1 \in 1 .. n /\ t[i] = s[i + 1]
    <3>1. Different(s)
      BY <1>1 DEF Whole
    <3> QED
      BY <1>0, <1>1, <3>1, TailOf
  <2>3. Y = UNION {Of(s[i]) : i \in 1 .. n} /\ Content(o)' = UNION {Of(t[i]) : i \in 1 .. m}
    BY <1>3 DEF Content
  <2>4. \A i, j \in 1 .. n : i < j => Ahead(Of(s[i]), Of(s[j]))
    BY <2>1 DEF InOrder
  <2>5. \A i \in 1 .. n : Fits(o, List(s[i]))
    BY <2>1 DEF AllFit
  <2>6. o[1] = "out"
    BY <1>0 DEF Out
  <2>7. Of(h) = Elements(l) /\ exported'[x] = exported[x] \o l
    BY <1>1 DEF Of
  <2> HIDE DEF Y, Z, s, t, n, m, l
  <2>8. Sorted(l)
    BY <2>2, <2>5, <2>6 DEF Fits, l
  <2>9. Of(h) \subseteq Y /\ Content(o)' \subseteq Y
    BY <2>2, <2>3
  <2>10. Ahead(Of(h), Content(o)')
    <3>1. \A i \in 1 .. m : Ahead(Of(h), Of(t[i]))
      <4>1. \A i \in 1 .. m : 1 < i + 1
        BY <2>2
      <4> QED
        BY <2>2, <2>4, <4>1
    <3> QED
      BY <2>3, <3>1 DEF Ahead, Before
  <2>11. InOrder(o)'
    <3> SUFFICES ASSUME NEW i \in 1 .. m, NEW j \in 1 .. m, i < j PROVE Ahead(Of(t[i]), Of(t[j]))
      BY <1>3 DEF InOrder, t, m
    <3>1. i + 1 < j + 1
      BY <2>2
    <3> QED
      BY <2>2, <2>4, <3>1
  <2>12. AllFit(o)'
    BY <1>3, <2>2, <2>5 DEF AllFit, t, m
  <2>13. Sorted(exported'[x]) /\ Elements(exported'[x]) = X \cup Of(h)
    <3>1. Ahead(X, Elements(l))
      BY <2>1, <2>7, <2>9 DEF Ahead
    <3>2. Sorted(exported'[x])
      BY <1>1, <2>1, <2>7, <2>8, <3>1, SortedConcat DEF l
    <3>3. Elements(exported'[x]) = X \cup Elements(l)
      BY <1>1, <2>7, ListConcat DEF l
    <3> QED
      BY <2>7, <3>2, <3>3
  <2>14. Ahead(X \cup Of(h), Content(o)')
    BY <2>1, <2>9, <2>10 DEF Ahead, Before
  <2>15. Passing(0, (X \cup Of(h)) \cup Content(o)', SplicedFor(x), Z, b[SortedQueue])
    <3>1. (X \cup Of(h)) \cup Content(o)' \subseteq X \cup Y
      BY <2>9
    <3> HIDE DEF X
    <3> QED
      BY <2>1, <3>1 DEF Passing, Ahead, Before, Upto
  <2>16. Content(SortedQueue)' = Z
    BY <1>5 DEF Z
  <2> HIDE DEF X
  <2>17. Out(x)' = o /\ Out(x) = o
    BY <1>0
  <2> QED
    BY <1>5, <2>11, <2>12, <2>13, <2>14, <2>15, <2>16, <2>17 DEF EndInv
<1>8. Sorted(List(splice.list))'
  <2>1. Sorted(List(splice.list)) /\ splice' = splice
    BY <1>1 DEF OrderInv
  <2> QED
    BY <1>3, <2>1 DEF List
<1>9. \A d \in Inner : chan'[d] = chan[d]
  BY <1>1, ChannelKinds
<1>10. \A e \in Exporters : EndInv(e, b)'
  BY <1>6, <1>7
<1> QED
  BY <1>1, <1>2, <1>8, <1>9, <1>10, EndStep

\* The splicer closes the channels of the exporters, which then come to their ends; or
\* nothing changes.
LEMMA EndsKeep ==
    ASSUME Whole, SpliceDone \/ (\E e \in Exporters : ExporterDone(e)) \/ UNCHANGED vars
    PROVE  Whole' /\ \A b : OrderInv(b) => OrderInv(b)'
<1>1. /\ UNCHANGED <<order, heap, produced, chan, hand, merger, splice, exported>>
      /\ closed' = closed \/ closed' = closed \cup {Out(e) : e \in Exporters}
  BY DEF SpliceDone, ExporterDone, vars
<1>2. /\ closed \subseteq Channels /\ {Out(e) : e \in Exporters} \subseteq Channels
      /\ \A e \in Exporters : Out(e) \notin Inner
  BY ChannelKinds DEF Whole, PipeTypes
<1>3. Whole'
  BY <1>1, <1>2, NothingMoves
<1>4. \A g : Stays(g) /\ List(g)' = List(g) /\ Of(g)' = Of(g)
  BY <1>1, HeapStays
<1>5. ASSUME NEW b, OrderInv(b) PROVE OrderInv(b)'
  <2>1. ASSUME NEW e \in Exporters PROVE EndInv(e, b)'
    <3>1. EndInv(e, b)
      BY <1>5 DEF OrderInv
    <3>2. \A c : Content(c)' = Content(c) /\ (InOrder(c) => InOrder(c)') /\ (AllFit(c) => AllFit(c)')
      BY <1>1, <1>4 DEF Content, InOrder, AllFit
    <3>3. SplicedFor(e)' = SplicedFor(e) /\ exported' = exported
      BY <1>1, <1>4 DEF SplicedFor
    <3> QED
      BY <3>1, <3>2, <3>3 DEF EndInv
  <2>2. Sorted(List(splice.list))'
    <3>1. Sorted(List(splice.list)) /\ splice' = splice
      BY <1>1, <1>5 DEF OrderInv
    <3> QED
      BY <1>4, <3>1 DEF List
  <2>3. closed \subseteq closed' /\ (\A c \in Inner : c \in closed' => c \in closed) /\ \A c \in Inner : chan'[c] = chan[c]
    BY <1>1, <1>2
  <2> QED
    BY <1>1, <1>3, <1>5, <2>1, <2>2, <2>3, EndStep
<1> QED
  BY <1>3, <1>5

--------------------------------------------------------------------------------
(* 20. Every step keeps the invariant                                        *)

\* At the beginning there are no lists at all.
LEMMA NothingYet == Init => Whole
<1> SUFFICES ASSUME Init PROVE Whole
  OBVIOUS
<1>1. /\ order \in Orders /\ heap = [next |-> [e \in Records |-> Nil], prev |-> [e \in Records |-> Nil]]
      /\ produced = [t \in Tables |-> {}] /\ chan = [c \in Channels |-> <<>>] /\ closed = {}
      /\ hand = [g \in Workers |-> Nil] /\ merger = [w \in Mergers |-> Idle]
      /\ splice = [list |-> Nil, to |-> 1] /\ exported = [e \in Exporters |-> <<>>]
  BY DEF Init, Workers
<1>2. Nil \in Pointer /\ 1 \in 1 .. NumExporters
  BY SizesAssumption DEF Pointer
<1>3. Idle \in MergerTypes
  <2>1. Idle.pc \in Stages /\ [q \in 0 .. 2 |-> Nil] \in [0 .. 2 -> Pointer]
    BY <1>2 DEF Idle, Stages
  <2> QED
    BY <2>1 DEF Idle, MergerTypes
<1>4. PipeTypes
  <2>1. <<>> \in Seq(Records)
    OBVIOUS
  <2> QED
    BY <1>1, <1>2, <1>3, <2>1 DEF PipeTypes
<1>5. Elements(<<>>) = {} /\ Different(<<>>)
  BY EmptyList, ListTypes
<1>6. Produced = {}
  BY <1>1 DEF Produced
<1>7. ASSUME NEW e \in Exporters PROVE View(e)
  <2>1. ASSUME NEW p \in Places(e) PROVE HeadsAt(p) = {}
    <3>1. CASE p \in Inner \/ p = Out(e)
      <4>1. p \in Channels
        BY <3>1, ChannelKinds
      <4> QED
        BY <1>1, <1>5, <4>1, HeadsAre
    <3>2. CASE p = SpliceOf(e)
      BY <1>1, <3>2, HeadsAre
    <3>3. CASE \E g \in Workers : p = Hand(g)
      BY <1>1, <3>3, HeadsAre
    <3>4. CASE \E w \in Mergers, k \in 0 .. 1 : p = QueueOf(w, k)
      <4>1. PICK w \in Mergers, k \in 0 .. 1 : p = QueueOf(w, k)
        BY <3>4
      <4>2. merger[w].head[k] = Nil
        BY <1>1, <4>1 DEF Idle
      <4> QED
        BY <4>1, <4>2, HeadsAre
    <3> QED
      BY <3>1, <3>2, <3>3, <3>4, PlacesAre
  <2>2. HeadsOn(e) = {} /\ Apart(Places(e), HeadsOf(e))
    BY <2>1 DEF HeadsOn, Heads, HeadsOf, Apart
  <2>3. RecordsOf(heap.next, {}) = {} /\ Separate(heap.next, {})
    BY DEF RecordsOf, Separate
  <2>4. exported[e] = <<>>
    BY <1>1
  <2> QED
    BY <1>5, <1>6, <2>2, <2>3, <2>4 DEF View
<1>8. \A c \in Channels : Different(chan[c])
  BY <1>1, <1>5
<1>9. Fresh /\ splice.to = 1
  BY <1>1 DEF Fresh
<1> QED
  BY <1>4, <1>7, <1>8, <1>9 DEF Whole

\* ... nor bounds, but for the channels that are not used.
LEMMA NothingInOrder == Init => \E b : OrderInv(b)
<1> SUFFICES ASSUME Init PROVE \E b : OrderInv(b)
  OBVIOUS
<1>1. /\ produced = [t \in Tables |-> {}] /\ chan = [c \in Channels |-> <<>>] /\ closed = {}
      /\ hand = [g \in Workers |-> Nil] /\ merger = [w \in Mergers |-> Idle]
      /\ splice = [list |-> Nil, to |-> 1] /\ exported = [e \in Exporters |-> <<>>] /\ order \in Orders
  BY DEF Init, Workers
<1> DEFINE b == [c \in Inner |-> IF order # "expiry" /\ c[1] = "in" THEN Final ELSE 0]
<1>2. 0 \in 0 .. Final /\ Final \in 0 .. Final
  BY SizesAssumption DEF Final
<1>3. b \in [Inner -> 0 .. Final] /\ \A c \in Inner : 0 <= b[c] /\ (c[1] = "tree" => b[c] = 0)
  BY <1>2
<1>4. Elements(<<>>) = {} /\ Sorted(<<>>) /\ Of(Nil) = {} /\ List(Nil) = <<>>
  BY EmptyList, SortedOne, NilList
<1>5. \A c \in Channels : chan[c] = <<>> /\ Content(c) = {} /\ InOrder(c) /\ AllFit(c)
  <2> TAKE c \in Channels
  <2>1. chan[c] = <<>> /\ Len(chan[c]) = 0
    BY <1>1
  <2> QED
    BY <2>1 DEF Content, InOrder, AllFit
<1>6. Inner \subseteq Channels /\ SortedQueue \in Inner /\ \A e \in Exporters : Out(e) \in Channels
  BY Topology, ChannelKinds
<1>7. \A c \in Inner : ChanInv(c, b)
  <2> TAKE c \in Inner
  <2>1. chan[c] = <<>> /\ Len(chan[c]) = 0 /\ c \notin closed
    BY <1>1, <1>5, <1>6
  <2>2. Upto(Content(c), b[c])
    BY <1>5, <1>6 DEF Upto
  <2> QED
    BY <1>5, <1>6, <2>1, <2>2 DEF ChanInv
<1>8. \A t \in Tables : TableInv(t, b)
  <2> TAKE t \in Tables
  <2>1. MaxOf(produced[t]) = 0
    BY <1>1 DEF MaxOf
  <2>2. b[In(t)] = 0
    <3>1. In(t) \in Inner /\ (order # "none" /\ order # "expiry" => In(t)[1] = "tree")
      BY <1>1, TablesWrite
    <3>2. order = "none" => In(t)[1] = "tree"
      BY Topology, ChannelKinds DEF In
    <3> QED
      BY <3>1, <3>2
  <2> QED
    BY <2>1, <2>2 DEF TableInv, Above
<1>9. \A g \in Workers : HandInv(g, b)
  <2> TAKE g \in Workers
  <2>1. hand[g] = Nil
    BY <1>1
  <2>2. ASSUME NEW k \in 0 .. 1 PROVE Through(g, k, b)
    <3>1. /\ Source(g, k) \in Inner /\ Output(g) \in Inner /\ Output(g)[1] = "tree"
          /\ Content(Source(g, k)) = {}
      BY <1>5, <1>6, Topology, ChannelKinds
    <3>2. Pending(g, k) = Nil
      BY <1>1 DEF Pending, Idle
    <3>3. Passing(b[Output(g)], {}, {}, {}, b[Source(g, k)])
      <4>1. b[Output(g)] = 0 /\ 0 <= b[Source(g, k)]
        BY <1>3, <3>1
      <4> QED
        BY <4>1 DEF Passing, Ahead, Before, Upto
    <3> QED
      BY <1>4, <2>1, <3>1, <3>2, <3>3 DEF Through
  <2> QED
    BY <1>4, <2>1, <2>2 DEF HandInv
<1>10. \A w \in Mergers : MergerInv(w, b)
  <2> TAKE w \in Mergers
  <2>1. merger[w] = Idle
    BY <1>1
  <2>2. PcInv(w, b)
    BY <2>1 DEF PcInv, Idle
  <2>3. \A k \in 0 .. 1 : merger[w].head[k] = Nil /\ merger[w].tail[k] = Nil
    BY <2>1 DEF Idle
  <2>4. \A k \in 0 .. 1 : QueueInv(w, k, b)
    BY <1>4, <2>3 DEF QueueInv
  <2> QED
    BY <2>2, <2>4 DEF MergerInv
<1>11. \A e \in Exporters : EndInv(e, b)
  <2> TAKE e \in Exporters
  <2>1. /\ exported[e] = <<>> /\ Content(Out(e)) = {} /\ Content(SortedQueue) = {}
        /\ InOrder(Out(e)) /\ AllFit(Out(e)) /\ SplicedFor(e) = {} /\ 0 <= b[SortedQueue]
    BY <1>1, <1>3, <1>4, <1>5, <1>6 DEF SplicedFor
  <2> HIDE DEF b
  <2> QED
    BY <1>4, <2>1 DEF EndInv, Passing, Ahead, Before, Upto
<1>12. Sorted(List(splice.list))
  BY <1>1, <1>4
<1>13. order # "expiry" => \A s \in Sorters : hand[s] = Nil /\ Over(SortInput(s), b)
  <2> SUFFICES ASSUME order # "expiry", NEW s \in Sorters PROVE hand[s] = Nil /\ Over(SortInput(s), b)
    OBVIOUS
  <2>1. s \in Workers /\ SortInput(s) \in Inner /\ SortInput(s)[1] = "in"
    BY WorkerKinds, Topology DEF SortInput
  <2> QED
    BY <1>1, <1>5, <1>6, <2>1 DEF Over
<1> HIDE DEF b
<1> QED
  BY <1>3, <1>7, <1>8, <1>9, <1>10, <1>11, <1>12, <1>13 DEF OrderInv

\* Without sorting only tables, splicer and exporters take steps.
LEMMA StepUnsorted ==
    ASSUME Whole, IdleInv, order = "none", BatchesSound, Next
    PROVE  Whole' /\ IdleInv' /\ order' = "none"
<1>1. CASE \E t \in Tables, list \in Batches[order] : Export(t, list)
  <2>1. PICK t \in Tables, list \in Batches[order] : Export(t, list)
    BY <1>1
  <2>2. Whole'
    <3>1. Sent(t, list)
      BY <2>1, ExportSends
    <3> QED
      BY <3>1, SentKeepsLists
  <2>3. UNCHANGED <<order, hand, merger>>
    BY <2>1 DEF Export
  <2> QED
    BY <2>2, <2>3 DEF IdleInv
<1>2. CASE Shutdown
  BY <1>2, ShutdownKeeps DEF Shutdown, IdleInv
<1>3. CASE \E g \in Mergers \cup Sorters : Send(g)
  BY <1>3 DEF IdleInv, Send, Workers
<1>4. CASE \E s \in Sorters : SortBatch(s) \/ SortDone(s)
  BY <1>4 DEF SortBatch, SortDone
<1>5. CASE \E w \in Mergers : MergeStep(w)
  <2>1. \A w, places : ~At(w, places)
    BY DEF At
  <2>2. PICK w \in Mergers : MergeStep(w)
    BY <1>5
  <2> QED
    BY <2>1, <2>2 DEF MergeStep, Gather, InputEnds, Merge, Partial, More, Last, Flush, Forward, MergeDone
<1>6. CASE SpliceReceive
  BY <1>6, SpliceReceiveKeepsLists DEF SpliceReceive, IdleInv
<1>7. CASE SpliceSend
  BY <1>7, SpliceSendKeepsLists DEF SpliceSend, IdleInv
<1>8. CASE SpliceDone \/ \E e \in Exporters : ExporterDone(e)
  <2>1. Whole'
    BY <1>8, EndsKeep
  <2>2. UNCHANGED <<order, hand, merger>>
    BY <1>8 DEF SpliceDone, ExporterDone
  <2> QED
    BY <2>1, <2>2 DEF IdleInv
<1>9. CASE \E e \in Exporters : ExportList(e)
  <2>1. Whole'
    BY <1>9, ExportListKeepsLists
  <2>2. UNCHANGED <<order, hand, merger>>
    BY <1>9 DEF ExportList
  <2> QED
    BY <2>1, <2>2 DEF IdleInv
<1> QED
  BY <1>1, <1>2, <1>3, <1>4, <1>5, <1>6, <1>7, <1>8, <1>9 DEF Next, Goroutines

\* A step of a merge worker.
LEMMA MergeStepKeeps ==
    ASSUME Whole, NEW b, OrderInv(b), NEW w \in Mergers, order # "none", MergeStep(w)
    PROVE  Whole' /\ (\E d : OrderInv(d)') /\ order' = order
<1>1. CASE \E k \in 0 .. 1 : Gather(w, k)
  BY <1>1, GatherKeeps DEF Gather
<1>2. CASE \E k \in 0 .. 1 : InputEnds(w, k)
  BY <1>2, InputEndsKeeps DEF InputEnds
<1>3. CASE Merge(w)
  BY <1>3, MergeKeeps DEF Merge
<1>4. CASE Partial(w)
  BY <1>4, PartialKeeps DEF Partial
<1>5. CASE More(w)
  BY <1>5, MoreKeeps DEF More
<1>6. CASE Last(w)
  BY <1>6, LastKeeps DEF Last
<1>7. CASE Flush(w)
  BY <1>7, FlushKeeps DEF Flush
<1>8. CASE Forward(w)
  BY <1>8, ForwardKeeps DEF Forward
<1>9. CASE MergeDone(w)
  <2>1. Whole' /\ \E d : OrderInv(d)'
    BY <1>9, MergeDoneKeeps
  <2> QED
    BY <1>9, <2>1 DEF MergeDone, CloseOutput
<1> QED
  BY <1>1, <1>2, <1>3, <1>4, <1>5, <1>6, <1>7, <1>8, <1>9 DEF MergeStep

\* With sorting every step keeps the order, with bounds that may have grown.
LEMMA StepSorted ==
    ASSUME Whole, NEW b, OrderInv(b), order # "none", BatchesSound, Next
    PROVE  Whole' /\ (\E d : OrderInv(d)') /\ order' # "none"
<1>1. CASE \E t \in Tables, list \in Batches[order] : Export(t, list)
  <2>1. PICK t \in Tables, list \in Batches[order] : Export(t, list)
    BY <1>1
  <2>2. Sent(t, list) /\ order' = order
    BY <2>1, ExportSends DEF Export
  <2>3. Fits(In(t), list)
    <3>1. order \in {"none", "start", "stop", "expiry"} /\ order \in Orders
      BY OrdersAssumption DEF Whole, PipeTypes
    <3>2. CASE order = "expiry"
      <4>1. In(t)[1] = "in"
        BY <3>1, <3>2, TablesWrite
      <4> QED
        BY <3>1, <3>2, <4>1 DEF BatchesSound, Fits
    <3>3. CASE order # "expiry"
      BY <3>1, <3>3 DEF BatchesSound, Fits, Sorted
    <3> QED
      BY <3>2, <3>3
  <2> QED
    BY <2>2, <2>3, SentKeepsLists, SentKeepsOrder
<1>2. CASE Shutdown
  <2>1. Whole' /\ \E d : OrderInv(d)'
    BY <1>2, ShutdownKeeps
  <2> QED
    BY <1>2, <2>1 DEF Shutdown
<1>3. CASE \E g \in Mergers \cup Sorters : Send(g)
  <2>1. PICK g \in Workers : Send(g)
    BY <1>3 DEF Workers
  <2>2. g \in Sorters => order = "expiry"
    BY <2>1 DEF OrderInv, Send
  <2>3. Whole' /\ \E d : OrderInv(d)'
    BY <2>1, <2>2, SendKeeps
  <2> QED
    BY <2>1, <2>3 DEF Send
<1>4. CASE \E s \in Sorters : SortBatch(s) \/ SortDone(s)
  <2>1. PICK s \in Sorters : SortBatch(s) \/ SortDone(s)
    BY <1>4
  <2>2. CASE SortBatch(s)
    BY <2>2, SortBatchKeeps DEF SortBatch
  <2>3. CASE SortDone(s)
    <3>1. Whole' /\ \E d : OrderInv(d)'
      BY <2>3, SortDoneKeeps
    <3> QED
      BY <2>3, <3>1 DEF SortDone, CloseOutput
  <2> QED
    BY <2>1, <2>2, <2>3
<1>5. CASE \E w \in Mergers : MergeStep(w)
  BY <1>5, MergeStepKeeps
<1>6. CASE SpliceReceive
  BY <1>6, SpliceReceiveKeepsLists, SpliceReceiveKeepsOrder DEF SpliceReceive
<1>7. CASE SpliceSend
  BY <1>7, SpliceSendKeepsLists, SpliceSendKeepsOrder DEF SpliceSend
<1>8. CASE SpliceDone \/ \E e \in Exporters : ExporterDone(e)
  <2>1. Whole' /\ OrderInv(b)'
    BY <1>8, EndsKeep
  <2>2. order' = order
    BY <1>8 DEF SpliceDone, ExporterDone
  <2> QED
    BY <2>1, <2>2
<1>9. CASE \E e \in Exporters : ExportList(e)
  <2>1. PICK e \in Exporters : ExportList(e)
    BY <1>9
  <2>2. Whole' /\ OrderInv(b)'
    BY <2>1, ExportListKeepsLists, ExportListKeepsOrder
  <2>3. order' = order
    BY <2>1 DEF ExportList
  <2> QED
    BY <2>2, <2>3
<1> QED
  BY <1>1, <1>2, <1>3, <1>4, <1>5, <1>6, <1>7, <1>8, <1>9 DEF Next, Goroutines

\* Nothing changes.
LEMMA StutterKeeps == PipeInv /\ UNCHANGED vars => PipeInv'
<1> SUFFICES ASSUME PipeInv, UNCHANGED vars PROVE PipeInv'
  OBVIOUS
<1>1. Whole' /\ \A b : OrderInv(b) => OrderInv(b)'
  BY EndsKeep DEF PipeInv
<1>2. UNCHANGED <<order, hand, merger>>
  BY DEF vars
<1> QED
  BY <1>1, <1>2 DEF PipeInv, IdleInv

\* The invariant holds always, as long as no table with expiry sorting hands over two
\* records in the wrong order (flows/sort.go sends the later one of them only).
THEOREM PipeInvariant ==
    ASSUME BatchesSound
    PROVE  Spec => []PipeInv
<1>1. Init => PipeInv
  <2> SUFFICES ASSUME Init PROVE PipeInv
    OBVIOUS
  <2>1. IdleInv
    BY DEF Init, IdleInv, Workers
  <2> QED
    BY <2>1, NothingYet, NothingInOrder DEF PipeInv
<1>2. PipeInv /\ [Next]_vars => PipeInv'
  <2> SUFFICES ASSUME PipeInv, Next PROVE PipeInv'
    BY StutterKeeps
  <2>1. Whole
    BY DEF PipeInv
  <2>2. CASE order = "none"
    <3>1. IdleInv
      BY <2>2 DEF PipeInv
    <3>2. Whole' /\ IdleInv' /\ order' = "none"
      BY <2>1, <2>2, <3>1, StepUnsorted
    <3> QED
      BY <3>2 DEF PipeInv
  <2>3. CASE order # "none"
    <3>1. PICK b : OrderInv(b)
      BY <2>3 DEF PipeInv
    <3>2. Whole' /\ (\E d : OrderInv(d)') /\ order' # "none"
      BY <2>1, <2>3, <3>1, StepSorted
    <3> QED
      BY <3>2 DEF PipeInv
  <2> QED
    BY <2>2, <2>3
<1> QED
  BY <1>1, <1>2, PTL DEF Spec

--------------------------------------------------------------------------------
(* 21. What the invariant says                                               *)

\* A sequence without repetition has as many elements as it is long.
LEMMA DifferentCount ==
    ASSUME NEW s \in Seq(Records), Different(s)
    PROVE  Len(s) = Cardinality(Elements(s))
<1>1. Len(s) \in Nat
  OBVIOUS
<1> DEFINE f == [i \in 1 .. Len(s) |-> s[i]]
<1>2. Elements(s) = {s[i] : i \in 1 .. Len(s)} /\ \A i, j \in 1 .. Len(s) : i # j => s[i] # s[j]
  BY DEF Elements, Different
<1> DEFINE n == Len(s)
           S == Elements(s)
<1>3. \A i \in 1 .. n : f[i] = s[i] /\ s[i] \in S
  BY <1>2
<1>4. f \in [1 .. n -> S]
  BY <1>3
<1>5. \A i, j \in 1 .. n : f[i] = f[j] => i = j
  BY <1>2, <1>3
<1>6. \A x \in S : \E i \in 1 .. n : f[i] = x
  BY <1>2, <1>3
<1> HIDE DEF f, n, S
<1>7. f \in Bijection(1 .. n, S)
  BY <1>4, <1>5, <1>6 DEF Bijection, Injection, Surjection, IsInjective
<1>8. ExistsBijection(1 .. n, S)
  BY <1>7 DEF ExistsBijection
<1> QED
  BY <1>1, <1>8, FS_CountingElements DEF n, S

\* The heads that are on the way to an exporter.
LEMMA HeadsForIs ==
    ASSUME PipeInv, NEW e \in Exporters
    PROVE  HeadsFor(e) = HeadsOn(e)
<1>1. /\ chan \in [Channels -> Seq(Records)] /\ Nil \notin Records
      /\ \A w \in Mergers : merger[w].head[2] = Nil
  <2>1. chan \in [Channels -> Seq(Records)]
    BY DEF PipeInv, Whole, PipeTypes
  <2>2. CASE order = "none"
    BY <2>1, <2>2, SizesAssumption DEF PipeInv, IdleInv, Idle, Nil, Records
  <2>3. CASE order # "none"
    BY <2>1, <2>3, SizesAssumption DEF PipeInv, OrderInv, MergerInv, PcInv, Nil, Records
  <2> QED
    BY <2>2, <2>3
<1>2. Channels \ {Out(x) : x \in Exporters} = Inner
  BY ChannelKinds
<1>3. \A c \in Channels : HeadsAt(c) = Elements(chan[c]) /\ Nil \notin Elements(chan[c])
  BY <1>1, HeadsAre DEF Elements
<1>4. /\ \A g \in Workers : HeadsAt(Hand(g)) = {hand[g]} \ {Nil}
      /\ \A w \in Mergers, k \in 0 .. 1 : HeadsAt(QueueOf(w, k)) = {merger[w].head[k]} \ {Nil}
      /\ HeadsAt(SpliceOf(e)) = IF splice.to <= e THEN {splice.list} \ {Nil} ELSE {}
  BY HeadsAre
<1> DEFINE upstream == UNION {Elements(chan[c]) : c \in Inner}
           held == {hand[g] : g \in Workers} \cup UNION {{merger[w].head[q] : q \in 0 .. 2} : w \in Mergers}
           spliced == IF splice.to <= e THEN {splice.list} ELSE {}
           at == UNION {HeadsAt(p) : p \in Places(e)}
<1>5. HeadsFor(e) = (upstream \cup held \cup spliced \cup Elements(chan[Out(e)])) \ {Nil}
  BY <1>2 DEF HeadsFor, Workers
<1>6. HeadsOn(e) = at
  BY DEF HeadsOn, Heads, HeadsOf
<1>7. Out(e) \in Channels /\ Inner \subseteq Channels
  BY ChannelKinds
<1>8. ASSUME NEW p \in Places(e), NEW h \in HeadsAt(p)
      PROVE  h \in (upstream \cup held \cup spliced \cup Elements(chan[Out(e)])) \ {Nil}
  <2>1. CASE p \in Inner \/ p = Out(e)
    BY <1>3, <1>7, <2>1
  <2>2. CASE p = SpliceOf(e)
    BY <1>4, <2>2
  <2>3. CASE \E g \in Workers : p = Hand(g)
    BY <1>4, <2>3
  <2>4. CASE \E w \in Mergers, k \in 0 .. 1 : p = QueueOf(w, k)
    <3>1. PICK w \in Mergers, k \in 0 .. 1 : p = QueueOf(w, k)
      BY <2>4
    <3>2. h = merger[w].head[k] /\ h # Nil /\ k \in 0 .. 2
      BY <1>4, <3>1
    <3> QED
      BY <3>2
  <2> QED
    BY <2>1, <2>2, <2>3, <2>4, PlacesAre
<1>9. ASSUME NEW h \in (upstream \cup held \cup spliced \cup Elements(chan[Out(e)])) \ {Nil}
      PROVE  \E p \in Places(e) : h \in HeadsAt(p)
  <2>1. CASE h \in upstream \/ h \in Elements(chan[Out(e)])
    BY <1>3, <1>7, <2>1, PlacesAre
  <2>2. CASE h \in spliced
    BY <1>4, <2>2, PlacesAre
  <2>3. CASE \E g \in Workers : h = hand[g]
    BY <1>4, <2>3, PlacesAre
  <2>4. CASE \E w \in Mergers, q \in 0 .. 2 : h = merger[w].head[q]
    <3>1. PICK w \in Mergers, q \in 0 .. 2 : h = merger[w].head[q]
      BY <2>4
    <3>2. q \in 0 .. 1
      BY <1>1, <3>1
    <3>3. QueueOf(w, q) \in Places(e) /\ h \in HeadsAt(QueueOf(w, q))
      BY <1>4, <3>1, <3>2, PlacesAre
    <3> QED
      BY <3>3
  <2> QED
    BY <2>1, <2>2, <2>3, <2>4
<1> HIDE DEF upstream, held, spliced
<1> QED
  BY <1>5, <1>6, <1>8, <1>9

\* The invariant has the three properties in it.
LEMMA InvariantMeans == PipeInv => EachRecordOnce /\ TailsCached /\ (Ordered => OutputOrdered)
<1> SUFFICES ASSUME PipeInv PROVE EachRecordOnce /\ TailsCached /\ (Ordered => OutputOrdered)
  OBVIOUS
<1>1. Whole /\ PipeTypes
  BY DEF PipeInv, Whole
<1>2. EachRecordOnce
  <2> SUFFICES
        ASSUME NEW e \in Exporters
        PROVE  LET heads == HeadsOn(e)
                   list(h) == Elements(Chain(heap.next, h))
               IN  /\ (UNION {list(h) : h \in heads}) \cup Elements(exported[e]) = Produced
                   /\ \A g, h \in heads : g # h => list(g) \cap list(h) = {}
                   /\ \A h \in heads : list(h) \cap Elements(exported[e]) = {}
                   /\ Len(exported[e]) = Cardinality(Elements(exported[e]))
    BY HeadsForIs DEF EachRecordOnce
  <2>1. View(e)
    BY <1>1 DEF Whole
  <2>2. exported[e] \in Seq(Records)
    BY <1>1 DEF PipeTypes
  <2>3. Len(exported[e]) = Cardinality(Elements(exported[e]))
    BY <2>1, <2>2, DifferentCount DEF View
  <2> QED
    BY <2>1, <2>3 DEF View, Separate, RecordsOf
<1>3. TailsCached
  <2> SUFFICES ASSUME NEW w \in Mergers, NEW k \in 0 .. 1,
                      merger[w].pc \notin {"flush", "forward", "close"}, Ready(MergeInput(w, k)),
                      List(merger[w].head[k]) # <<>>
               PROVE  merger[w].tail[k] = End(List(merger[w].head[k]))
    BY DEF TailsCached, List, End
  <2>1. merger[w].head[k] # Nil
    BY NilList
  <2>2. order # "none"
    BY <2>1 DEF PipeInv, IdleInv, Idle
  <2>3. PICK b : OrderInv(b)
    BY <2>2 DEF PipeInv
  <2>4. QueueInv(w, k, b)
    BY <2>3 DEF OrderInv, MergerInv
  <2> QED
    BY <2>1, <2>4 DEF QueueInv, Over, Ready
<1>4. Ordered => OutputOrdered
  BY DEF PipeInv, OrderInv, EndInv, Sorted, Rising, OutputOrdered
<1> QED
  BY <1>2, <1>3, <1>4

\* EachRecordOnce: relinking the lists of others neither loses a record nor joins lists.
THEOREM RecordsOnce ==
    ASSUME BatchesSound
    PROVE  Spec => []EachRecordOnce
<1>1. Spec => []PipeInv
  BY PipeInvariant
<1> QED
  BY <1>1, InvariantMeans, PTL

\* TailsCached: what comes next for a queue is linked to the end of the list it holds.
THEOREM TailsAreEnds ==
    ASSUME BatchesSound
    PROVE  Spec => []TailsCached
<1>1. Spec => []PipeInv
  BY PipeInvariant
<1> QED
  BY <1>1, InvariantMeans, PTL

\* OutputOrdered: with start and stop sorting every exporter gets the records in sort
\* order.  A table sends its batches in order then (OutputSorted of FlowTableOutputProofs);
\* with expiry sorting it does not, and nothing downstream sorts them again.
THEOREM OutputInOrder ==
    ASSUME BatchesSound, "expiry" \notin Orders
    PROVE  Spec => []OutputOrdered
<1>1. Spec => []PipeInv
  BY PipeInvariant
<1>2. Ordered
  BY OrdersAssumption, SteadyAssumption DEF Ordered
<1>3. PipeInv => OutputOrdered
  BY <1>2, InvariantMeans
<1> QED
  BY <1>1, <1>3, PTL
================================================================================
