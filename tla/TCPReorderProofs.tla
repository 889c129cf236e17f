--------------------------- MODULE TCPReorderProofs ----------------------------
(*****************************************************************************)
(* The copies that the reordering filter holds, for any packets and any size *)
(* of the sequence numbers: each is in one list while it is referenced, and  *)
(* given back once.                                                          *)
(*                                                                           *)
(* ForwardOld gives back what its walk meets, one by one, and then cuts as   *)
(* many fragments off the end of the list.  These are the same ones only     *)
(* because a fragment that the walk passed over is never followed by one     *)
(* that it takes, and that holds because neighbours in a list are in order,  *)
(* although Difference does not order all numbers.  Section 1 is about       *)
(* numbers, section 2 about lists, section 3 about the walk, section 4 about *)
(* the operations, and section 5 about the steps of the specification.       *)
(*****************************************************************************)
EXTENDS TCPReorder, SelectionFacts, SequenceTheorems, FiniteSetTheorems

--------------------------------------------------------------------------------
(* 1. Sequence numbers.                                                      *)

\* Sequence.Difference takes back Sequence.Add, and changes its sign with its arguments,
\* for numbers less than a quarter of all numbers apart.
THEOREM DifferenceIsExact ==
    ASSUME NEW s \in Sequence, NEW n \in Nat, n < uint32Size \div 4
    PROVE  /\ Add(s, n) \in Sequence
           /\ Difference(s, Add(s, n)) = n
           /\ Difference(Add(s, n), s) = -n
<1> DEFINE quarter == uint32Size \div 4
<1>1. uint32Size \in Nat /\ quarter \in Nat /\ uint32Size = 4 * quarter /\ quarter >= 1
  BY SizeAssumption
<1> HIDE DEF quarter
<1>2. s \in Nat /\ s < uint32Size /\ n < quarter
  BY <1>1 DEF Sequence, quarter
<1>3. CASE s + n < uint32Size
  <2>1. Add(s, n) = s + n
    BY <1>1, <1>2, <1>3 DEF Add
  <2> QED
    BY <1>1, <1>2, <1>3, <2>1 DEF Difference, Sequence, quarter
<1>4. CASE s + n >= uint32Size
  <2>1. Add(s, n) = s + n - uint32Size
    BY <1>1, <1>2, <1>4 DEF Add
  <2> QED
    BY <1>1, <1>2, <1>4, <2>1 DEF Difference, Sequence, quarter
<1> QED
  BY <1>1, <1>2, <1>3, <1>4

\* Whatever their distance, the order of two numbers turns with them.
LEMMA DifferenceTurns ==
    ASSUME NEW s \in Sequence, NEW t \in Sequence
    PROVE  Difference(s, t) \in Int /\ Difference(t, s) = -Difference(s, t)
<1> DEFINE quarter == uint32Size \div 4
<1>1. uint32Size \in Nat /\ quarter \in Nat /\ uint32Size = 4 * quarter /\ quarter >= 1
  BY SizeAssumption
<1> HIDE DEF quarter
<1> QED
  BY <1>1 DEF Difference, Sequence, quarter

\* Adding to a number gives a number.
LEMMA AddType ==
    ASSUME NEW s \in Int, NEW n \in Int
    PROVE  Add(s, n) \in Sequence
<1>1. uint32Size \in Nat /\ uint32Size > 0
  BY SizeAssumption
<1> QED
  BY <1>1 DEF Add, Sequence

\* What is not before a number that lies two or more ahead of next, is not next, and
\* not one ahead of it, although the order is not transitive.
LEMMA NotInSequence ==
    ASSUME NEW s \in Sequence, NEW t \in Sequence, NEW next \in Sequence,
           Difference(s, t) >= 0, Difference(s, next) < -1
    PROVE  Difference(t, next) \notin {0, -1}
<1> DEFINE quarter == uint32Size \div 4
<1>1. uint32Size \in Nat /\ quarter \in Nat /\ uint32Size = 4 * quarter /\ quarter >= 1
  BY SizeAssumption
<1> HIDE DEF quarter
<1> QED
  BY <1>1 DEF Difference, Sequence, quarter

--------------------------------------------------------------------------------
(* 2. Lists of fragments.                                                    *)

Fragment == [nr : Nat, tcp : BOOLEAN, forward : BOOLEAN, seq : Sequence, plen : Nat,
             mark : BOOLEAN, ack : Sequence]

FilterType(f) ==
    f \in [streams : [BOOLEAN -> [fragments : Seq(Fragment),
                                  nextSeq : Sequence \cup {InvalidSequence}]],
           out : Seq(Fragment), copies : [1 .. MaxPackets -> Int]]

List(f, d) == f.streams[d].fragments

\* Neighbours are in order, the first in sequence last.
Sorted(list) == \A i \in 1 .. Len(list) - 1 : Difference(list[i + 1].seq, list[i].seq) >= 0

Nrs(list) == {list[i].nr : i \in 1 .. Len(list)}
Once(list) == \A i, j \in 1 .. Len(list) : list[i].nr = list[j].nr => i = j

\* The lists of a filter that has received n packets, and its references to them.
Held(f, n) ==
    /\ FilterType(f)
    /\ \A d \in BOOLEAN :
        /\ Sorted(List(f, d)) /\ Once(List(f, d))
        /\ Nrs(List(f, d)) \subseteq 1 .. n
        /\ Nrs(List(f, d)) \cap Nrs(List(f, ~d)) = {}
    /\ \A x \in 1 .. MaxPackets :
        f.copies[x] = IF \E d \in BOOLEAN : x \in Nrs(List(f, d)) THEN 1 ELSE 0

\* The other direction.
LEMMA Directions ==
    \A d \in BOOLEAN : /\ (~d) \in BOOLEAN /\ (~(~d)) = d
                       /\ \A e \in BOOLEAN : e = d \/ e = (~d)
OBVIOUS

\* The parts of a filter.
LEMMA FilterParts ==
    ASSUME NEW f, FilterType(f), NEW d \in BOOLEAN
    PROVE  /\ f.streams[d] \in [fragments : Seq(Fragment),
                                nextSeq : Sequence \cup {InvalidSequence}]
           /\ List(f, d) \in Seq(Fragment) /\ Len(List(f, d)) \in Nat
           /\ f.streams[d].nextSeq \in Sequence \cup {InvalidSequence}
           /\ f.streams[d].nextSeq \in Int
           /\ \A i \in 1 .. Len(List(f, d)) :
                List(f, d)[i] \in Fragment /\ List(f, d)[i].seq \in Sequence
<1>1. f.streams[d] \in [fragments : Seq(Fragment), nextSeq : Sequence \cup {InvalidSequence}]
  BY DEF FilterType
<1>2. /\ List(f, d) \in Seq(Fragment)
      /\ f.streams[d].nextSeq \in Sequence \cup {InvalidSequence}
  BY <1>1 DEF List
<1>3. \A i \in 1 .. Len(List(f, d)) :
            List(f, d)[i] \in Fragment /\ List(f, d)[i].seq \in Sequence
  <2> TAKE i \in 1 .. Len(List(f, d))
  <2>1. List(f, d)[i] \in Fragment
    BY <1>2
  <2> QED
    BY <2>1 DEF Fragment
<1>4. f.streams[d].nextSeq \in Int
  <2>1. uint32Size \in Int
    BY SizeAssumption
  <2> QED
    BY <1>2, <2>1 DEF Sequence, InvalidSequence
<1>5. Len(List(f, d)) \in Nat
  BY <1>2
<1> QED
  BY <1>1, <1>2, <1>3, <1>4, <1>5

\* A filter with the same lists and references.
LEMMA SameHeld ==
    ASSUME NEW f, NEW u, NEW n \in Nat, NEW k \in Nat, n <= k, Held(f, n), FilterType(u),
           u.copies = f.copies, \A d \in BOOLEAN : List(u, d) = List(f, d)
    PROVE  Held(u, k)
<1>1. ASSUME NEW d \in BOOLEAN
      PROVE  /\ Sorted(List(u, d)) /\ Once(List(u, d))
             /\ Nrs(List(u, d)) \subseteq 1 .. k
             /\ Nrs(List(u, d)) \cap Nrs(List(u, ~d)) = {}
  <2>1. List(u, d) = List(f, d) /\ List(u, ~d) = List(f, ~d)
    OBVIOUS
  <2> QED
    BY <2>1 DEF Held
<1>2. ASSUME NEW x \in 1 .. MaxPackets
      PROVE  u.copies[x] = IF \E d \in BOOLEAN : x \in Nrs(List(u, d)) THEN 1 ELSE 0
  BY DEF Held
<1> QED
  BY <1>1, <1>2 DEF Held


\* What is cut off the end of a list, and given back, is not held any more.
LEMMA CutHeld ==
    ASSUME NEW f, NEW n \in Nat, Held(f, n), NEW u, FilterType(u), NEW d \in BOOLEAN,
           NEW k \in 0 .. Len(List(f, d)),
           List(u, d) = SubSeq(List(f, d), 1, k), List(u, ~d) = List(f, ~d),
           \A x \in 1 .. MaxPackets :
                u.copies[x] = IF \E i \in k + 1 .. Len(List(f, d)) : List(f, d)[i].nr = x
                              THEN f.copies[x] - 1 ELSE f.copies[x]
    PROVE  Held(u, n)
<1> DEFINE old == List(f, d)
           new == List(u, d)
           other == List(f, ~d)
<1>1. /\ Sorted(old) /\ Once(old) /\ Nrs(old) \subseteq 1 .. n
      /\ Sorted(other) /\ Once(other) /\ Nrs(other) \subseteq 1 .. n
      /\ Nrs(old) \cap Nrs(other) = {}
  BY DEF Held
<1>2. /\ FilterType(f) /\ (~d) \in BOOLEAN /\ (~(~d)) = d
      /\ \A e \in BOOLEAN : e = d \/ e = (~d)
  BY Directions DEF Held
<1>3. old \in Seq(Fragment) /\ Len(old) \in Nat
  BY <1>2, FilterParts
<1>4. Len(new) = k /\ \A i \in 1 .. k : new[i] = old[i] /\ i \in 1 .. Len(old)
  BY <1>3
<1>5. \A x \in 1 .. MaxPackets :
            f.copies[x] = IF x \in Nrs(old) \/ x \in Nrs(other) THEN 1 ELSE 0
  <2>1. \A x : (\E e \in BOOLEAN : x \in Nrs(List(f, e))) <=> x \in Nrs(old) \/ x \in Nrs(other)
    BY <1>2
  <2> QED
    BY <2>1 DEF Held
<1> HIDE DEF old, new, other
<1>6. Sorted(new) /\ Once(new) /\ Nrs(new) \subseteq Nrs(old)
  <2>1. \A i \in 1 .. Len(new) - 1 : i \in 1 .. k /\ i + 1 \in 1 .. k /\ i \in 1 .. Len(old) - 1
    BY <1>3, <1>4 DEF old
  <2>2. Sorted(new)
    BY <1>1, <1>4, <2>1 DEF Sorted
  <2>3. \A i \in 1 .. Len(new) : i \in 1 .. Len(old) /\ new[i] = old[i]
    BY <1>4
  <2>4. Once(new)
    BY <1>1, <2>3 DEF Once
  <2>5. Nrs(new) \subseteq Nrs(old)
    BY <2>3 DEF Nrs
  <2> QED
    BY <2>2, <2>4, <2>5
<1>7. ASSUME NEW x PROVE x \in Nrs(old) <=>
            (x \in Nrs(new) \/ \E i \in k + 1 .. Len(old) : old[i].nr = x)
  <2>1. \A i \in 1 .. Len(old) : i \in 1 .. k \/ i \in k + 1 .. Len(old)
    BY <1>3
  <2>2. \A i \in k + 1 .. Len(old) : i \in 1 .. Len(old)
    BY <1>3
  <2> QED
    BY <1>4, <2>1, <2>2 DEF Nrs
<1>8. ASSUME NEW x, x \in Nrs(new) PROVE ~ \E i \in k + 1 .. Len(old) : old[i].nr = x
  <2> SUFFICES ASSUME NEW i \in k + 1 .. Len(old), old[i].nr = x PROVE FALSE
    OBVIOUS
  <2>1. PICK j \in 1 .. k : new[j].nr = x
    BY <1>4, <1>8 DEF Nrs
  <2>2. i \in 1 .. Len(old) /\ j \in 1 .. Len(old) /\ old[j].nr = x /\ i # j
    BY <1>3, <1>4, <2>1
  <2> QED
    BY <1>1, <2>2 DEF Once
<1>9. ASSUME NEW x \in 1 .. MaxPackets
      PROVE  u.copies[x] = IF x \in Nrs(new) \/ x \in Nrs(other) THEN 1 ELSE 0
  <2>1. u.copies[x] = IF \E i \in k + 1 .. Len(old) : old[i].nr = x
                      THEN f.copies[x] - 1 ELSE f.copies[x]
    BY DEF old
  <2>2. f.copies[x] = IF x \in Nrs(old) \/ x \in Nrs(other) THEN 1 ELSE 0
    BY <1>5
  <2>3. ~(x \in Nrs(old) /\ x \in Nrs(other))
    BY <1>1
  <2> DEFINE cut == \E i \in k + 1 .. Len(old) : old[i].nr = x
  <2>4. (x \in Nrs(old) <=> (x \in Nrs(new) \/ cut)) /\ (x \in Nrs(new) => ~cut)
    BY <1>7, <1>8
  <2> HIDE DEF cut
  <2>5. u.copies[x] = IF cut THEN f.copies[x] - 1 ELSE f.copies[x]
    BY <2>1 DEF cut
  <2> QED
    BY <2>2, <2>3, <2>4, <2>5
<1>10. List(u, ~d) = other /\ List(u, d) = new
  BY DEF other, new
<1>11. ASSUME NEW e \in BOOLEAN
       PROVE  /\ Sorted(List(u, e)) /\ Once(List(u, e))
              /\ Nrs(List(u, e)) \subseteq 1 .. n
              /\ Nrs(List(u, e)) \cap Nrs(List(u, ~e)) = {}
  BY <1>1, <1>2, <1>6, <1>10
<1>12. \A x : (\E e \in BOOLEAN : x \in Nrs(List(u, e))) <=> x \in Nrs(new) \/ x \in Nrs(other)
  BY <1>2, <1>10
<1> QED
  BY <1>9, <1>11, <1>12 DEF Held

\* A new fragment comes before those at the end of the list that are after it.
LEMMA PlaceOfNew ==
    ASSUME NEW held \in Seq(Fragment), NEW p \in Fragment
    PROVE  LET passed == {i \in 1 .. Len(held) :
                            \A j \in i .. Len(held) : Difference(p.seq, held[j].seq) < 0}
           IN  \E k \in 0 .. Len(held) :
                /\ Cardinality(passed) = Len(held) - k
                /\ \A j \in k + 1 .. Len(held) : Difference(p.seq, held[j].seq) < 0
                /\ k > 0 => Difference(p.seq, held[k].seq) >= 0
<1> DEFINE n == Len(held)
           before(j) == Difference(p.seq, held[j].seq) < 0
           passed == {i \in 1 .. n : \A j \in i .. n : before(j)}
<1>1. n \in Nat
  OBVIOUS
<1>2. \A j \in 1 .. n : ~before(j) => Difference(p.seq, held[j].seq) >= 0
  <2> TAKE j \in 1 .. n
  <2>1. held[j] \in Fragment
    OBVIOUS
  <2>2. Difference(p.seq, held[j].seq) \in Int
    BY <2>1, DifferenceTurns DEF Fragment
  <2> QED
    BY <2>2
<1> HIDE DEF before, n
<1>3. PICK m \in 1 .. n + 1 : passed = m .. n
  <2> DEFINE T == passed \cup {n + 1}
  <2>1. T \in SUBSET Nat /\ T # {}
    BY <1>1
  <2>2. PICK m \in T : \A t \in T : m <= t
    BY <2>1, LeastNatural
  <2>3. m \in 1 .. n + 1
    BY <1>1, <2>2
  <2>4. \A i \in m .. n : i \in passed
    <3> SUFFICES ASSUME NEW i \in m .. n PROVE i \in passed
      OBVIOUS
    <3>1. m \in passed
      BY <1>1, <2>2, <2>3
    <3>2. \A j \in i .. n : j \in m .. n
      BY <1>1, <2>3
    <3> QED
      BY <1>1, <2>3, <3>1, <3>2
  <2>5. ASSUME NEW i \in passed PROVE i \in m .. n
    <3>1. i \in T /\ i \in 1 .. n
      OBVIOUS
    <3>2. m <= i
      BY <2>2, <3>1
    <3> HIDE DEF passed
    <3> QED
      BY <1>1, <2>3, <3>1, <3>2
  <2> HIDE DEF passed
  <2>6. passed \subseteq m .. n /\ m .. n \subseteq passed
    BY <2>4, <2>5
  <2> QED
    BY <2>3, <2>6
<1> HIDE DEF passed
<1>4. Cardinality(passed) = n - (m - 1)
  <2>1. Cardinality(m .. n) = IF m > n THEN 0 ELSE n - m + 1
    BY <1>1, FS_Interval
  <2> QED
    BY <1>1, <1>3, <2>1
<1>5. ASSUME NEW j \in m .. n PROVE before(j)
  <2>1. j \in passed /\ j \in j .. n
    BY <1>1, <1>3
  <2> QED
    BY <2>1 DEF passed
<1>6. m > 1 => ~before(m - 1)
  <2> SUFFICES ASSUME m > 1, before(m - 1) PROVE FALSE
    OBVIOUS
  <2>1. m - 1 \in 1 .. n /\ \A j \in m - 1 .. n : j = m - 1 \/ j \in m .. n
    BY <1>1
  <2>2. m - 1 \in passed
    BY <1>5, <2>1 DEF passed
  <2> QED
    BY <1>1, <1>3, <2>2
<1>7. /\ m - 1 \in 0 .. n /\ (m - 1) + 1 = m
      /\ m - 1 > 0 => m > 1 /\ m - 1 \in 1 .. n
  BY <1>1
<1> DEFINE k == m - 1
<1>8. k \in 0 .. n /\ k + 1 = m /\ Cardinality(passed) = n - k
  BY <1>4, <1>7
<1>9. \A j \in k + 1 .. n : before(j)
  BY <1>5, <1>8
<1>10. k > 0 => Difference(p.seq, held[k].seq) >= 0
  BY <1>2, <1>6, <1>7
<1> HIDE DEF k
<1> QED
  BY <1>8, <1>9, <1>10 DEF passed, before, n

\* p comes after the first k elements of s.
InsertedAfter(new, s, k, p) ==
    /\ Len(new) = Len(s) + 1 /\ new[k + 1] = p
    /\ \A i \in 1 .. k : new[i] = s[i]
    /\ \A i \in k + 1 .. Len(s) : new[i + 1] = s[i]

\* A list with one element more.
LEMMA InsertedAt ==
    ASSUME NEW T, NEW s \in Seq(T), NEW p \in T, NEW k \in 0 .. Len(s)
    PROVE  /\ Seqs!InsertAt(s, k + 1, p) \in Seq(T)
           /\ InsertedAfter(Seqs!InsertAt(s, k + 1, p), s, k, p)
<1> DEFINE front == SubSeq(s, 1, k)
           mid == <<p>>
           back == SubSeq(s, k + 1, Len(s))
           new == Seqs!InsertAt(s, k + 1, p)
           n == Len(s)
<1>1. n \in Nat /\ k \in Nat /\ k <= n
  OBVIOUS
<1>2. /\ front \in Seq(T) /\ Len(front) = k
      /\ \A i \in 1 .. k : front[i] = s[i]
  BY <1>1
<1>3. /\ back \in Seq(T) /\ Len(back) = n - k
      /\ \A i \in 1 .. n - k : back[i] = s[i + k]
  BY <1>1
<1>4. mid \in Seq(T) /\ Len(mid) = 1 /\ mid[1] = p
  OBVIOUS
<1> DEFINE begin == front \o mid
<1>5. new = begin \o back
  <2>1. (k + 1) - 1 = k
    BY <1>1
  <2> QED
    BY <2>1 DEF Seqs!InsertAt
<1> HIDE DEF front, mid, back, new, n
<1>6. /\ begin \in Seq(T) /\ Len(begin) = k + 1 /\ begin[k + 1] = p
      /\ \A i \in 1 .. k : begin[i] = s[i]
  <2>1. /\ begin \in Seq(T) /\ Len(begin) = Len(front) + Len(mid)
        /\ \A i \in 1 .. Len(front) + Len(mid) :
            begin[i] = IF i <= Len(front) THEN front[i] ELSE mid[i - Len(front)]
    BY <1>2, <1>4, ConcatProperties
  <2>2. begin[k + 1] = mid[1]
    BY <1>1, <1>2, <1>4, <2>1
  <2> QED
    BY <1>1, <1>2, <1>4, <2>1, <2>2
<1> HIDE DEF begin
<1>7. /\ new \in Seq(T) /\ Len(new) = Len(begin) + Len(back)
      /\ \A i \in 1 .. Len(begin) + Len(back) :
            new[i] = IF i <= Len(begin) THEN begin[i] ELSE back[i - Len(begin)]
  BY <1>3, <1>5, <1>6, ConcatProperties
<1>8. Len(new) = n + 1
  BY <1>1, <1>3, <1>6, <1>7
<1>9. new[k + 1] = p /\ \A i \in 1 .. k : new[i] = s[i]
  <2>1. \A i \in 1 .. k + 1 : new[i] = begin[i]
    BY <1>1, <1>3, <1>6, <1>7
  <2>2. k + 1 \in 1 .. k + 1 /\ \A i \in 1 .. k : i \in 1 .. k + 1
    BY <1>1
  <2> QED
    BY <1>6, <2>1, <2>2
<1>10. ASSUME NEW i \in k + 1 .. n PROVE new[i + 1] = s[i]
  <2>1. /\ i + 1 \in 1 .. (k + 1) + (n - k) /\ ~(i + 1 <= k + 1)
        /\ (i + 1) - (k + 1) = i - k /\ i - k \in 1 .. n - k /\ (i - k) + k = i
    BY <1>1
  <2>2. new[i + 1] = back[i - k]
    BY <1>3, <1>6, <1>7, <2>1
  <2> QED
    BY <1>3, <2>1, <2>2
<1> QED
  BY <1>7, <1>8, <1>9, <1>10 DEF new, n, InsertedAfter

\* A filter whose list in direction d, and references, are replaced.
WithList(f, d, list, copies) ==
    [f EXCEPT !.copies = copies, !.streams[d].fragments = list]

\* Nothing else changes in it.
LEMMA NewList ==
    ASSUME NEW f, FilterType(f), NEW d \in BOOLEAN, NEW list \in Seq(Fragment),
           NEW copies \in [1 .. MaxPackets -> Int]
    PROVE  LET u == WithList(f, d, list, copies)
           IN  /\ FilterType(u) /\ u.copies = copies
               /\ List(u, d) = list /\ List(u, ~d) = List(f, ~d)
               /\ \A e \in BOOLEAN : u.streams[e].nextSeq = f.streams[e].nextSeq
<1> DEFINE u == WithList(f, d, list, copies)
           s == [f.streams[d] EXCEPT !.fragments = list]
           ss == [f.streams EXCEPT ![d] = s]
<1>1. /\ f.streams[d] \in [fragments : Seq(Fragment), nextSeq : Sequence \cup {InvalidSequence}]
      /\ (~d) \in BOOLEAN /\ (~d) # d
  BY FilterParts, Directions
<1>2. /\ s \in [fragments : Seq(Fragment), nextSeq : Sequence \cup {InvalidSequence}]
      /\ s.fragments = list /\ s.nextSeq = f.streams[d].nextSeq
  BY <1>1
<1>3. u.streams = ss /\ u.copies = copies /\ u.out = f.out
  BY DEF FilterType, WithList
<1> DEFINE g == [f EXCEPT !.copies = copies]
<1>4. u = [g EXCEPT !.streams = ss]
  BY DEF WithList
<1> HIDE DEF s, u
<1>5. /\ ss \in [BOOLEAN -> [fragments : Seq(Fragment),
                             nextSeq : Sequence \cup {InvalidSequence}]]
      /\ ss[d] = s /\ \A e \in BOOLEAN : e # d => ss[e] = f.streams[e]
  BY <1>2 DEF FilterType
<1> HIDE DEF ss
<1>6. FilterType(u)
  <2>1. FilterType(g)
    BY DEF FilterType
  <2> HIDE DEF g
  <2> QED
    BY <1>4, <1>5, <2>1 DEF FilterType
<1>7. /\ List(u, d) = list /\ List(u, ~d) = List(f, ~d)
      /\ \A e \in BOOLEAN : u.streams[e].nextSeq = f.streams[e].nextSeq
  BY <1>1, <1>2, <1>3, <1>5 DEF List
<1> QED
  BY <1>3, <1>6, <1>7 DEF u

\* push: the packet that has just come is held.
LEMMA PushHeld ==
    ASSUME NEW f, NEW n \in Nat, n + 1 \in 1 .. MaxPackets, Held(f, n),
           NEW p \in Fragment, p.nr = n + 1
    PROVE  Held(Push(f, p), n + 1)
<1> DEFINE d == p.forward
           old == List(f, d)
           other == List(f, ~d)
           passed == {i \in 1 .. Len(old) :
                        \A j \in i .. Len(old) : Difference(p.seq, old[j].seq) < 0}
           copies == [f.copies EXCEPT ![n + 1] = @ + 1]
           new == Seqs!InsertAt(old, Len(old) + 1 - Cardinality(passed), p)
           u == WithList(f, d, new, copies)
<1>1. d \in BOOLEAN /\ (~d) \in BOOLEAN /\ FilterType(f) /\ p.seq \in Sequence
  BY Directions DEF Fragment, Held
<1>2. Push(f, p) = u
  BY DEF Push, List, FilterType, Held, WithList
<1>3. /\ old \in Seq(Fragment) /\ Len(old) \in Nat
      /\ \A i \in 1 .. Len(old) : old[i].seq \in Sequence
  BY <1>1, FilterParts
<1>4. PICK k \in 0 .. Len(old) :
        /\ Cardinality(passed) = Len(old) - k
        /\ \A j \in k + 1 .. Len(old) : Difference(p.seq, old[j].seq) < 0
        /\ k > 0 => Difference(p.seq, old[k].seq) >= 0
  <2> HIDE DEF old, d
  <2> QED
    BY <1>3, PlaceOfNew
<1> HIDE DEF passed, old, other, d
<1>5. new = Seqs!InsertAt(old, k + 1, p)
  <2>1. Len(old) + 1 - Cardinality(passed) = k + 1
    BY <1>3, <1>4
  <2> QED
    BY <2>1
<1> HIDE DEF new
<1>6. /\ new \in Seq(Fragment) /\ Len(new) = Len(old) + 1 /\ new[k + 1] = p
      /\ \A i \in 1 .. k : new[i] = old[i]
      /\ \A i \in k + 1 .. Len(old) : new[i + 1] = old[i]
  <2>1. /\ Seqs!InsertAt(old, k + 1, p) \in Seq(Fragment)
        /\ InsertedAfter(Seqs!InsertAt(old, k + 1, p), old, k, p)
    BY <1>3, InsertedAt
  <2> QED
    BY <1>5, <2>1 DEF InsertedAfter
<1>7. copies \in [1 .. MaxPackets -> Int] /\ f.copies \in [1 .. MaxPackets -> Int]
  BY DEF FilterType, Held
<1> HIDE DEF copies
<1>8. /\ FilterType(u) /\ u.copies = copies /\ List(u, d) = new /\ List(u, ~d) = other
  BY <1>1, <1>6, <1>7, NewList DEF other
<1> HIDE DEF u
<1>9. /\ Sorted(old) /\ Once(old) /\ Nrs(old) \subseteq 1 .. n
      /\ Sorted(other) /\ Once(other) /\ Nrs(other) \subseteq 1 .. n
      /\ Nrs(old) \cap Nrs(other) = {}
  BY <1>1 DEF Held, old, other
<1>10. \A i \in 1 .. Len(new) : i = k + 1 \/ i \in 1 .. k \/ (i - 1 \in k + 1 .. Len(old))
  BY <1>3, <1>6
<1>11. Nrs(new) = Nrs(old) \cup {n + 1}
  <2>1. ASSUME NEW i \in 1 .. Len(new) PROVE new[i].nr \in Nrs(old) \cup {n + 1}
    <3>1. CASE i = k + 1
      BY <1>6, <3>1
    <3>2. CASE i \in 1 .. k
      <4>1. i \in 1 .. Len(old)
        BY <1>3, <3>2
      <4> QED
        BY <1>6, <3>2, <4>1 DEF Nrs
    <3>3. CASE i - 1 \in k + 1 .. Len(old)
      <4>1. i - 1 \in 1 .. Len(old) /\ (i - 1) + 1 = i
        BY <1>3, <3>3
      <4>2. new[i] = old[i - 1]
        BY <1>6, <3>3, <4>1
      <4> QED
        BY <4>1, <4>2 DEF Nrs
    <3> QED
      BY <1>10, <3>1, <3>2, <3>3
  <2>2. n + 1 \in Nrs(new)
    <3>1. k + 1 \in 1 .. Len(new)
      BY <1>3, <1>6
    <3> QED
      BY <1>6, <3>1 DEF Nrs
  <2>3. ASSUME NEW i \in 1 .. Len(old) PROVE old[i].nr \in Nrs(new)
    <3>1. CASE i \in 1 .. k
      <4>1. i \in 1 .. Len(new)
        BY <1>3, <1>6
      <4> QED
        BY <1>6, <3>1, <4>1 DEF Nrs
    <3>2. CASE i \in k + 1 .. Len(old)
      <4>1. i + 1 \in 1 .. Len(new)
        BY <1>3, <1>6
      <4> QED
        BY <1>6, <3>2, <4>1 DEF Nrs
    <3> QED
      BY <1>3, <3>1, <3>2
  <2> QED
    BY <2>1, <2>2, <2>3 DEF Nrs
<1>12. Once(new)
  <2> SUFFICES ASSUME NEW i \in 1 .. Len(new), NEW j \in 1 .. Len(new), new[i].nr = new[j].nr
               PROVE  i = j
    BY DEF Once
  <2> DEFINE at(a) == IF a <= k THEN a ELSE a - 1
  <2>1. ASSUME NEW a \in 1 .. Len(new), a # k + 1
        PROVE  /\ at(a) \in 1 .. Len(old) /\ new[a] = old[at(a)] /\ new[a].nr # n + 1
               /\ (a <= k => at(a) <= k) /\ (a > k => at(a) > k)
    <3>1. CASE a \in 1 .. k
      <4>1. a \in 1 .. Len(old) /\ new[a] = old[a]
        BY <1>3, <1>6, <3>1
      <4>2. old[a].nr \in 1 .. n
        BY <1>9, <4>1 DEF Nrs
      <4> QED
        BY <3>1, <4>1, <4>2
    <3>2. CASE a - 1 \in k + 1 .. Len(old)
      <4>1. a - 1 \in 1 .. Len(old) /\ (a - 1) + 1 = a /\ ~(a <= k) /\ a - 1 > k
        BY <1>3, <3>2
      <4>2. new[a] = old[a - 1]
        BY <1>6, <3>2, <4>1
      <4>3. old[a - 1].nr \in 1 .. n
        BY <1>9, <4>1 DEF Nrs
      <4> QED
        BY <4>1, <4>2, <4>3
    <3> QED
      BY <1>10, <2>1, <3>1, <3>2
  <2>2. CASE i = k + 1 \/ j = k + 1
    BY <1>6, <2>1, <2>2
  <2>3. CASE i # k + 1 /\ j # k + 1
    <3>1. /\ at(i) \in 1 .. Len(old) /\ at(j) \in 1 .. Len(old)
          /\ old[at(i)].nr = old[at(j)].nr
      BY <2>1, <2>3
    <3>2. at(i) = at(j)
      BY <1>9, <3>1 DEF Once
    <3>3. i <= k <=> j <= k
      BY <2>1, <2>3, <3>2
    <3> QED
      BY <3>2, <3>3
  <2> QED
    BY <2>2, <2>3
<1>13. Sorted(new)
  <2> SUFFICES ASSUME NEW i \in 1 .. Len(new) - 1
               PROVE  Difference(new[i + 1].seq, new[i].seq) >= 0
    BY DEF Sorted
  <2>1. CASE i < k
    <3>1. i \in 1 .. k /\ i + 1 \in 1 .. k /\ i \in 1 .. Len(old) - 1
      BY <1>3, <2>1
    <3> QED
      BY <1>6, <1>9, <3>1 DEF Sorted
  <2>2. CASE i = k
    <3>1. k \in 1 .. k /\ k > 0
      BY <2>2
    <3> QED
      BY <1>4, <1>6, <2>2, <3>1
  <2>3. CASE i = k + 1
    <3>1. i \in k + 1 .. Len(old) /\ i \in 1 .. Len(old)
      BY <1>3, <1>6, <2>3
    <3>2. new[i] = p /\ new[i + 1] = old[i] /\ Difference(p.seq, old[i].seq) < 0
      BY <1>4, <1>6, <2>3, <3>1
    <3>3. old[i].seq \in Sequence
      BY <1>3, <3>1
    <3> QED
      BY <1>1, <3>2, <3>3, DifferenceTurns
  <2>4. CASE i > k + 1
    <3>1. /\ i \in k + 1 .. Len(old) /\ i - 1 \in k + 1 .. Len(old) /\ (i - 1) + 1 = i
          /\ i - 1 \in 1 .. Len(old) - 1
      BY <1>3, <1>6, <2>4
    <3>2. new[i + 1] = old[i] /\ new[i] = old[i - 1]
      BY <1>6, <3>1
    <3>3. Difference(old[(i - 1) + 1].seq, old[i - 1].seq) >= 0
      BY <1>9, <3>1 DEF Sorted
    <3> QED
      BY <3>1, <3>2, <3>3
  <2> QED
    BY <2>1, <2>2, <2>3, <2>4
<1>14. ASSUME NEW e \in BOOLEAN
       PROVE  /\ Sorted(List(u, e)) /\ Once(List(u, e))
              /\ Nrs(List(u, e)) \subseteq 1 .. n + 1
              /\ Nrs(List(u, e)) \cap Nrs(List(u, ~e)) = {}
  <2>1. Nrs(new) \subseteq 1 .. n + 1 /\ Nrs(other) \subseteq 1 .. n + 1
    BY <1>9, <1>11
  <2>2. Nrs(new) \cap Nrs(other) = {}
    BY <1>9, <1>11
  <2>3. CASE e = d
    BY <1>8, <1>12, <1>13, <2>1, <2>2, <2>3
  <2>4. CASE e = (~d)
    <3>1. (~e) = d
      BY <1>1, <2>4, Directions
    <3> QED
      BY <1>8, <1>9, <2>1, <2>2, <2>4, <3>1
  <2> QED
    BY <1>1, <2>3, <2>4, Directions
<1>15. ASSUME NEW x \in 1 .. MaxPackets
       PROVE  u.copies[x] = IF \E e \in BOOLEAN : x \in Nrs(List(u, e)) THEN 1 ELSE 0
  <2>1. (\E e \in BOOLEAN : x \in Nrs(List(u, e))) <=> x \in Nrs(new) \/ x \in Nrs(other)
    BY <1>1, <1>8, Directions
  <2>2. (\E e \in BOOLEAN : x \in Nrs(List(f, e))) <=> x \in Nrs(old) \/ x \in Nrs(other)
    BY <1>1, Directions DEF old, other
  <2>3. f.copies[x] = IF x \in Nrs(old) \/ x \in Nrs(other) THEN 1 ELSE 0
    BY <2>2 DEF Held
  <2>4. u.copies[x] = IF x = n + 1 THEN f.copies[x] + 1 ELSE f.copies[x]
    BY <1>7, <1>8 DEF copies
  <2>5. n + 1 \notin Nrs(old) /\ n + 1 \notin Nrs(other)
    BY <1>9
  <2> QED
    BY <1>11, <2>1, <2>3, <2>4, <2>5
<1> QED
  BY <1>2, <1>8, <1>14, <1>15 DEF Held

--------------------------------------------------------------------------------
(* 3. The walk of forwardOld.                                                *)

\* A filter with the lists and references of f.
SameLists(f, u) ==
    /\ FilterType(u) /\ u.copies = f.copies
    /\ \A e \in BOOLEAN : List(u, e) = List(f, e)

\* Another next number of a direction.
WithNext(f, d, next) == [f EXCEPT !.streams[d].nextSeq = next]

LEMMA NextChanged ==
    ASSUME NEW f, FilterType(f), NEW d \in BOOLEAN, NEW next \in Sequence
    PROVE  /\ SameLists(f, WithNext(f, d, next))
           /\ WithNext(f, d, next).streams[d].nextSeq = next
           /\ WithNext(f, d, next).out = f.out
<1> DEFINE u == WithNext(f, d, next)
           s == [f.streams[d] EXCEPT !.nextSeq = next]
           ss == [f.streams EXCEPT ![d] = s]
<1>1. /\ f.streams[d] \in [fragments : Seq(Fragment), nextSeq : Sequence \cup {InvalidSequence}]
      /\ f.streams \in [BOOLEAN -> [fragments : Seq(Fragment),
                                    nextSeq : Sequence \cup {InvalidSequence}]]
  BY FilterParts DEF FilterType
<1>2. /\ s \in [fragments : Seq(Fragment), nextSeq : Sequence \cup {InvalidSequence}]
      /\ s.fragments = f.streams[d].fragments /\ s.nextSeq = next
  BY <1>1
<1>3. u.streams = ss /\ u.copies = f.copies /\ u.out = f.out /\ u = [f EXCEPT !.streams = ss]
  BY DEF FilterType, WithNext
<1> HIDE DEF s, u
<1>4. /\ ss \in [BOOLEAN -> [fragments : Seq(Fragment),
                             nextSeq : Sequence \cup {InvalidSequence}]]
      /\ ss[d] = s /\ \A e \in BOOLEAN : e # d => ss[e] = f.streams[e]
  BY <1>1, <1>2
<1> HIDE DEF ss
<1>5. FilterType(u)
  BY <1>3, <1>4 DEF FilterType
<1>6. \A e \in BOOLEAN : List(u, e) = List(f, e)
  BY <1>2, <1>3, <1>4 DEF List
<1> QED
  BY <1>2, <1>3, <1>4, <1>5, <1>6 DEF SameLists, u

\* Handing a packet on.
LEMMA HandedKeeps ==
    ASSUME NEW f, FilterType(f), NEW p \in Fragment
    PROVE  SameLists(f, Handed(f, p)) /\ Handed(f, p).streams = f.streams
<1> DEFINE u == Handed(f, p)
<1>1. u.streams = f.streams /\ u.copies = f.copies /\ FilterType(u)
  <2> DEFINE out == Append(f.out, p)
  <2>1. out \in Seq(Fragment)
    BY DEF FilterType
  <2>2. u = [f EXCEPT !.out = out]
    BY DEF Handed
  <2> HIDE DEF out, u
  <2> QED
    BY <2>1, <2>2 DEF FilterType
<1> QED
  BY <1>1 DEF SameLists, List

\* forward: after it the next number is known.
LEMMA ForwardKeeps ==
    ASSUME NEW f, FilterType(f), NEW d \in BOOLEAN, NEW p \in Fragment
    PROVE  /\ SameLists(f, ForwardPacket(f, d, p))
           /\ ForwardPacket(f, d, p).streams[d].nextSeq \in Sequence
<1> DEFINE next == Add(f.streams[d].nextSeq, p.plen + IF p.mark THEN 1 ELSE 0)
           g == WithNext(f, d, next)
<1>1. next \in Sequence
  <2>1. f.streams[d].nextSeq \in Int
    BY FilterParts
  <2>2. p.plen + (IF p.mark THEN 1 ELSE 0) \in Int
    BY DEF Fragment
  <2> QED
    BY <2>1, <2>2, AddType
<1>2. ForwardPacket(f, d, p) = Handed(g, p)
  BY DEF ForwardPacket, WithNext
<1> HIDE DEF next
<1>3. SameLists(f, g) /\ g.streams[d].nextSeq = next
  BY <1>1, NextChanged
<1> HIDE DEF g
<1>4. SameLists(g, Handed(g, p)) /\ Handed(g, p).streams = g.streams
  BY <1>3, HandedKeeps DEF SameLists
<1> QED
  BY <1>1, <1>2, <1>3, <1>4 DEF SameLists

\* Giving back the copy of a fragment.
LEMMA RecycleOne ==
    ASSUME NEW f, FilterType(f), NEW p \in Fragment, p.nr \in 1 .. MaxPackets
    PROVE  /\ FilterType(Recycle(f, p)) /\ Recycle(f, p).streams = f.streams
           /\ \A x \in 1 .. MaxPackets :
                Recycle(f, p).copies[x] = IF x = p.nr THEN f.copies[x] - 1 ELSE f.copies[x]
<1> DEFINE copies == [f.copies EXCEPT ![p.nr] = @ - 1]
<1>1. f.copies \in [1 .. MaxPackets -> Int]
  BY DEF FilterType
<1>2. /\ copies \in [1 .. MaxPackets -> Int]
      /\ \A x \in 1 .. MaxPackets :
            copies[x] = IF x = p.nr THEN f.copies[x] - 1 ELSE f.copies[x]
  <2> DEFINE c == f.copies
             x == p.nr
             m == c[x] - 1
  <2>1. m \in Int
    <3>1. c \in [1 .. MaxPackets -> Int] /\ x \in 1 .. MaxPackets
      BY <1>1
    <3> HIDE DEF c, x
    <3>2. c[x] \in Int
      BY <3>1
    <3> QED
      BY <3>2
  <2>2. copies = [c EXCEPT ![x] = m]
    OBVIOUS
  <2> HIDE DEF copies, m
  <2>3. copies \in [1 .. MaxPackets -> Int]
    BY <1>1, <2>1, <2>2
  <2>4. \A y \in 1 .. MaxPackets : copies[y] = IF y = p.nr THEN m ELSE f.copies[y]
    BY <1>1, <2>2
  <2> QED
    BY <2>3, <2>4 DEF m
<1>3. Recycle(f, p) = [f EXCEPT !.copies = copies]
  BY DEF Recycle
<1> HIDE DEF copies
<1>4. FilterType(Recycle(f, p))
  BY <1>2, <1>3 DEF FilterType
<1>5. Recycle(f, p).streams = f.streams /\ Recycle(f, p).copies = copies
  BY <1>3 DEF FilterType
<1> QED
  BY <1>2, <1>4, <1>5

\* What the walk has done to filter f when it has looked at n fragments: it has given
\* back as many of the last fragments as it counts, and if it has passed one over and
\* goes on, the last one it has looked at is ahead of the next number.
Walked(f, d, n, w) ==
    /\ w = [f |-> w.f, deleted |-> w.deleted, over |-> w.over]
    /\ w.deleted \in 0 .. n /\ w.over \in BOOLEAN
    /\ FilterType(w.f) /\ \A e \in BOOLEAN : List(w.f, e) = List(f, e)
    /\ w.f.streams[d].nextSeq \in Sequence
    /\ \A x \in 1 .. MaxPackets :
        w.f.copies[x] =
            IF \E i \in Len(List(f, d)) + 1 - w.deleted .. Len(List(f, d)) : List(f, d)[i].nr = x
            THEN f.copies[x] - 1 ELSE f.copies[x]
    /\ \/ w.over \/ w.deleted = n
       \/ n > 0 /\ Difference(List(f, d)[Len(List(f, d)) + 1 - n].seq,
                              w.f.streams[d].nextSeq) < -1

\* A list that the walk can take from.
Walkable(f, d) ==
    /\ FilterType(f) /\ f.streams[d].nextSeq \in Sequence
    /\ Sorted(List(f, d)) /\ Once(List(f, d)) /\ Nrs(List(f, d)) \subseteq 1 .. MaxPackets

\* One more fragment.
LEMMA LookWalks ==
    ASSUME NEW f, NEW d \in BOOLEAN, Walkable(f, d), NEW n \in Nat, n < Len(List(f, d)),
           NEW w, Walked(f, d, n, w)
    PROVE  Walked(f, d, n + 1, Look(w, d, List(f, d)[Len(List(f, d)) - n]))
<1> DEFINE held == List(f, d)
           l == Len(held)
           p == held[l - n]
           next == w.f.streams[d].nextSeq
           diff == Difference(p.seq, next)
           v == Look(w, d, p)
<1>1. /\ FilterType(f) /\ held \in Seq(Fragment) /\ l \in Nat /\ n < l
      /\ \A i \in 1 .. l : held[i] \in Fragment /\ held[i].seq \in Sequence
  BY FilterParts DEF Walkable
<1>2. /\ w = [f |-> w.f, deleted |-> w.deleted, over |-> w.over]
      /\ w.deleted \in 0 .. n /\ w.over \in BOOLEAN
      /\ FilterType(w.f) /\ \A e \in BOOLEAN : List(w.f, e) = List(f, e)
      /\ next \in Sequence
      /\ \A x \in 1 .. MaxPackets :
            w.f.copies[x] = IF \E i \in l + 1 - w.deleted .. l : held[i].nr = x
                            THEN f.copies[x] - 1 ELSE f.copies[x]
      /\ w.over \/ w.deleted = n \/ (n > 0 /\ Difference(held[l + 1 - n].seq, next) < -1)
  BY DEF Walked
<1>3. /\ \A i \in 1 .. l - 1 : Difference(held[i + 1].seq, held[i].seq) >= 0
      /\ \A i, j \in 1 .. l : held[i].nr = held[j].nr => i = j
      /\ \A i \in 1 .. l : held[i].nr \in 1 .. MaxPackets
  BY <1>1 DEF Walkable, Sorted, Once, Nrs
<1>4. /\ v = IF w.over \/ diff < -1 THEN w
             ELSE IF diff > 0 THEN [w EXCEPT !.over = TRUE]
             ELSE [w EXCEPT
                     !.deleted = @ + 1,
                     !.f = Recycle(IF diff = 0 \/ p.plen = 0 THEN ForwardPacket(@, d, p) ELSE @, p)]
      /\ held[l + 1 - (n + 1)] = p
  <2>1. l + 1 - (n + 1) = l - n
    BY <1>1
  <2> QED
    BY <2>1 DEF Look
<1> HIDE DEF held, l
<1>5. /\ l - n \in 1 .. l /\ p \in Fragment /\ p.seq \in Sequence /\ p.nr \in 1 .. MaxPackets
      /\ p.plen \in Nat
  <2>1. l - n \in 1 .. l
    BY <1>1
  <2> QED
    BY <1>1, <1>3, <2>1 DEF Fragment
<1>6. diff \in Int
  BY <1>2, <1>5, DifferenceTurns
<1> HIDE DEF p, next, diff, v
<1>7. CASE w.over
  <2>1. v = w /\ w.deleted \in 0 .. n + 1
    BY <1>2, <1>4, <1>7
  <2> QED
    BY <1>2, <1>7, <2>1 DEF Walked, v, p, l, held, next
<1>8. CASE ~w.over /\ diff < -1
  <2>1. v = w /\ w.deleted \in 0 .. n + 1 /\ n + 1 > 0
    BY <1>2, <1>4, <1>8
  <2>2. Difference(held[l + 1 - (n + 1)].seq, next) < -1
    BY <1>4, <1>8 DEF diff
  <2> QED
    BY <1>2, <2>1, <2>2 DEF Walked, v, p, l, held, next
<1>9. CASE ~w.over /\ diff > 0
  <2>1. v = [w EXCEPT !.over = TRUE]
    BY <1>4, <1>6, <1>9
  <2>2. v.f = w.f /\ v.deleted = w.deleted /\ v.over = TRUE
    BY <1>2, <2>1
  <2>3. v = [f |-> v.f, deleted |-> v.deleted, over |-> v.over]
    BY <1>2, <2>1
  <2>4. v.deleted \in 0 .. n + 1
    BY <1>2, <2>2
  <2> HIDE DEF held, l, next
  <2>5. /\ \A e \in BOOLEAN : List(v.f, e) = List(f, e)
        /\ FilterType(v.f) /\ v.f.streams[d].nextSeq \in Sequence
    BY <1>2, <2>2 DEF next
  <2>6. \A x \in 1 .. MaxPackets :
            v.f.copies[x] = IF \E i \in l + 1 - v.deleted .. l : held[i].nr = x
                            THEN f.copies[x] - 1 ELSE f.copies[x]
    BY <1>2, <2>2
  <2>7. Walked(f, d, n + 1, v)
    BY <2>2, <2>3, <2>4, <2>5, <2>6 DEF Walked, l, held
  <2> QED
    BY <2>7 DEF v, p, l, held
<1>10. CASE ~w.over /\ diff \in {0, -1}
  <2>1. w.deleted = n
    <3> SUFFICES ASSUME n > 0, Difference(held[l + 1 - n].seq, next) < -1 PROVE FALSE
      BY <1>2, <1>10
    <3>1. l + 1 - n \in 1 .. l /\ l - n \in 1 .. l - 1 /\ (l - n) + 1 = l + 1 - n
      BY <1>1
    <3>2. held[l + 1 - n].seq \in Sequence
      BY <1>1, <3>1
    <3>3. Difference(held[l + 1 - n].seq, p.seq) >= 0
      BY <1>3, <3>1 DEF p
    <3> QED
      BY <1>2, <1>5, <1>10, <3>2, <3>3, NotInSequence DEF diff
  <2> DEFINE g == IF diff = 0 \/ p.plen = 0 THEN ForwardPacket(w.f, d, p) ELSE w.f
             h == Recycle(g, p)
  <2>2. v = [w EXCEPT !.deleted = @ + 1, !.f = h]
    BY <1>4, <1>6, <1>10
  <2>3. SameLists(w.f, g) /\ g.streams[d].nextSeq \in Sequence
    <3>1. SameLists(w.f, w.f)
      BY <1>2 DEF SameLists
    <3>2. /\ SameLists(w.f, ForwardPacket(w.f, d, p))
          /\ ForwardPacket(w.f, d, p).streams[d].nextSeq \in Sequence
      BY <1>2, <1>5, ForwardKeeps
    <3> QED
      BY <1>2, <3>1, <3>2 DEF next
  <2> HIDE DEF g
  <2>4. /\ FilterType(h) /\ h.streams = g.streams
        /\ \A x \in 1 .. MaxPackets :
            h.copies[x] = IF x = p.nr THEN g.copies[x] - 1 ELSE g.copies[x]
    BY <1>5, <2>3, RecycleOne DEF SameLists
  <2> HIDE DEF h
  <2>5. /\ v.f = h /\ v.deleted = n + 1 /\ v.over = w.over
        /\ v = [f |-> v.f, deleted |-> v.deleted, over |-> v.over]
    BY <1>2, <2>1, <2>2
  <2>6. \A e \in BOOLEAN : List(h, e) = List(f, e)
    BY <1>2, <2>3, <2>4 DEF List, SameLists
  <2>7. ASSUME NEW x \in 1 .. MaxPackets
        PROVE  h.copies[x] = IF \E i \in l + 1 - (n + 1) .. l : held[i].nr = x
                             THEN f.copies[x] - 1 ELSE f.copies[x]
    <3>1. /\ l + 1 - (n + 1) = l - n
          /\ \A i \in l - n .. l : i = l - n \/ i \in l + 1 - n .. l
          /\ l - n \in l - n .. l
          /\ \A i \in l + 1 - n .. l : i \in l - n .. l /\ i \in 1 .. l /\ i # l - n
      BY <1>1
    <3>2. (\E i \in l - n .. l : held[i].nr = x)
            <=> (p.nr = x \/ \E i \in l + 1 - n .. l : held[i].nr = x)
      BY <3>1 DEF p
    <3>3. \A i \in l + 1 - n .. l : held[i].nr # p.nr
      BY <1>3, <1>5, <3>1 DEF p
    <3>4. g.copies[x] = IF \E i \in l + 1 - n .. l : held[i].nr = x
                        THEN f.copies[x] - 1 ELSE f.copies[x]
      BY <1>2, <2>1, <2>3 DEF SameLists
    <3>5. h.copies[x] = IF x = p.nr THEN g.copies[x] - 1 ELSE g.copies[x]
      BY <2>4
    <3> QED
      BY <3>1, <3>2, <3>3, <3>4, <3>5
  <2>8. n + 1 \in 0 .. n + 1 /\ h.streams[d].nextSeq \in Sequence
    BY <2>3, <2>4
  <2> QED
    BY <1>2, <2>4, <2>5, <2>6, <2>7, <2>8 DEF Walked, v, p, l, held
<1>11. w.over \/ diff < -1 \/ diff > 0 \/ diff \in {0, -1}
  BY <1>6
<1> QED
  BY <1>7, <1>8, <1>9, <1>10, <1>11 DEF v, p, l, held

\* What a step of the recursion of Walk makes of what it has so far.
WalkStep(f, d, r, n) == Look(r, d, List(f, d)[Len(List(f, d)) + 1 - n])
WalkStart(f) == [f |-> f, deleted |-> 0, over |-> FALSE]

\* The recursion of Walk is well defined, as far as any length.
LEMMA WalkExists ==
    ASSUME NEW f, NEW d, NEW n \in Nat
    PROVE  \E g : g = [m \in 0 .. n |-> IF m = 0 THEN WalkStart(f) ELSE WalkStep(f, d, g[m - 1], m)]
<1> DEFINE Good(g, k) ==
        g = [m \in 0 .. k |-> IF m = 0 THEN WalkStart(f) ELSE WalkStep(f, d, g[m - 1], m)]
           S == {k \in Nat : \E g : Good(g, k)}
<1>1. 0 \in S
  <2> DEFINE g == [m \in 0 .. 0 |-> WalkStart(f)]
  <2>1. Good(g, 0)
    OBVIOUS
  <2> QED
    BY <2>1
<1>2. \A k \in S : k + 1 \in S
  <2> TAKE k \in S
  <2>1. PICK g : Good(g, k)
    OBVIOUS
  <2> DEFINE h == [m \in 0 .. k + 1 |-> IF m <= k THEN g[m] ELSE WalkStep(f, d, g[k], m)]
  <2>2. \A m \in 0 .. k : h[m] = g[m]
    OBVIOUS
  <2>3. \A m \in 0 .. k + 1 : h[m] = IF m = 0 THEN WalkStart(f) ELSE WalkStep(f, d, h[m - 1], m)
    <3> TAKE m \in 0 .. k + 1
    <3>1. CASE m = 0
      BY <2>1, <2>2, <3>1
    <3>2. CASE m # 0 /\ m <= k
      <4>1. m \in 0 .. k /\ m - 1 \in 0 .. k /\ h[m] = g[m] /\ h[m - 1] = g[m - 1]
        BY <2>2, <3>2
      <4>2. g[m] = WalkStep(f, d, g[m - 1], m)
        BY <2>1, <3>2, <4>1
      <4> QED
        BY <3>2, <4>1, <4>2
    <3>3. CASE m = k + 1
      <4>1. h[m] = WalkStep(f, d, g[k], m) /\ h[m - 1] = g[k]
        BY <2>2, <3>3
      <4> QED
        BY <3>3, <4>1
    <3> QED
      BY <3>1, <3>2, <3>3
  <2>4. Good(h, k + 1)
    BY <2>3
  <2> HIDE DEF Good, h
  <2> QED
    BY <2>4
<1> HIDE DEF Good
<1>3. S = Nat
  BY <1>1, <1>2, SetInduction
<1> QED
  BY <1>3 DEF Good

\* The walk up to the start of the list.
LEMMA WalkEnds ==
    ASSUME NEW f, NEW d \in BOOLEAN, Walkable(f, d)
    PROVE  Walked(f, d, Len(List(f, d)), Walk(f, d))
<1> DEFINE l == Len(List(f, d))
           F == CHOOSE g : g = [m \in 0 .. l |->
                    IF m = 0 THEN WalkStart(f) ELSE WalkStep(f, d, g[m - 1], m)]
<1>1. l \in Nat
  BY FilterParts DEF Walkable
<1>2. Walk(f, d) = F[l]
  BY DEF Walk, WalkStep, WalkStart, List
<1>3. F = [m \in 0 .. l |-> IF m = 0 THEN WalkStart(f) ELSE WalkStep(f, d, F[m - 1], m)]
  <2> HIDE DEF l
  <2> QED
    BY <1>1, WalkExists
<1> HIDE DEF F, l
<1> DEFINE S == {n \in Nat : n <= l => Walked(f, d, n, F[n])}
<1>4. 0 \in S
  <2> DEFINE w == WalkStart(f)
  <2>1. F[0] = w
    BY <1>1, <1>3
  <2>2. /\ w = [f |-> w.f, deleted |-> w.deleted, over |-> w.over]
        /\ w.f = f /\ w.deleted = 0 /\ w.over = FALSE
    BY DEF WalkStart
  <2>3. \A i : i \notin l + 1 - 0 .. l
    BY <1>1
  <2> HIDE DEF w
  <2>4. w.deleted \in 0 .. 0 /\ w.over \in BOOLEAN /\ w.deleted = 0
    <3>1. w.deleted = 0 /\ w.over = FALSE
      BY <2>2, Zenon
    <3>2. w.deleted \in 0 .. 0
      BY <3>1
    <3>3. w.over \in BOOLEAN
      BY <3>1, Zenon
    <3> QED
      BY <3>1, <3>2, <3>3, Zenon
  <2>5. /\ FilterType(w.f) /\ \A e \in BOOLEAN : List(w.f, e) = List(f, e)
        /\ w.f.streams[d].nextSeq \in Sequence
    BY <2>2 DEF Walkable
  <2>6. ASSUME NEW x \in 1 .. MaxPackets
        PROVE  w.f.copies[x] = IF \E i \in l + 1 - w.deleted .. l : List(f, d)[i].nr = x
                               THEN f.copies[x] - 1 ELSE f.copies[x]
    BY <2>2, <2>3
  <2>7. Walked(f, d, 0, w)
    BY <2>2, <2>4, <2>5, <2>6 DEF Walked, l
  <2> QED
    BY <2>1, <2>7
<1>5. \A n \in S : n + 1 \in S
  <2> SUFFICES ASSUME NEW n \in S, n + 1 <= l PROVE Walked(f, d, n + 1, F[n + 1])
    OBVIOUS
  <2>1. n \in Nat /\ n < l /\ Walked(f, d, n, F[n])
    BY <1>1
  <2>2. F[n + 1] = WalkStep(f, d, F[n], n + 1)
    <3>1. n + 1 \in 0 .. l /\ n + 1 # 0 /\ (n + 1) - 1 = n
      BY <1>1, <2>1
    <3> QED
      BY <1>3, <3>1
  <2>3. l + 1 - (n + 1) = l - n
    BY <1>1, <2>1
  <2>4. F[n + 1] = Look(F[n], d, List(f, d)[Len(List(f, d)) - n])
    BY <2>2, <2>3 DEF WalkStep, l
  <2> QED
    BY <2>1, <2>4, LookWalks DEF l
<1> HIDE DEF S
<1>6. S = Nat
  BY <1>4, <1>5, SetInduction DEF S
<1>7. Walked(f, d, l, F[l])
  BY <1>1, <1>6 DEF S
<1> QED
  BY <1>2, <1>7 DEF l

\* A walkable list of a held filter.
LEMMA HeldWalkable ==
    ASSUME NEW f, NEW n \in Nat, n <= MaxPackets, Held(f, n), NEW d \in BOOLEAN,
           f.streams[d].nextSeq \in Sequence
    PROVE  Walkable(f, d)
<1>1. Nrs(List(f, d)) \subseteq 1 .. MaxPackets
  BY BoundAssumption DEF Held
<1> QED
  BY <1>1 DEF Held, Walkable

\* Another list of direction d.
WithFragments(f, d, list) == [f EXCEPT !.streams[d].fragments = list]

LEMMA FragmentsChanged ==
    ASSUME NEW f, FilterType(f), NEW d \in BOOLEAN, NEW list \in Seq(Fragment)
    PROVE  LET u == WithFragments(f, d, list)
           IN  /\ FilterType(u) /\ u.copies = f.copies
               /\ List(u, d) = list /\ List(u, ~d) = List(f, ~d)
               /\ \A e \in BOOLEAN : u.streams[e].nextSeq = f.streams[e].nextSeq
<1> DEFINE copies == f.copies
           v == WithList(f, d, list, copies)
<1>1. copies \in [1 .. MaxPackets -> Int] /\ copies = f.copies
  BY DEF FilterType
<1>2. [f EXCEPT !.copies = copies] = f
  BY DEF FilterType
<1>3. WithFragments(f, d, list) = v
  BY <1>2 DEF WithFragments, WithList
<1> HIDE DEF copies
<1>4. /\ FilterType(v) /\ v.copies = copies
      /\ List(v, d) = list /\ List(v, ~d) = List(f, ~d)
      /\ \A e \in BOOLEAN : v.streams[e].nextSeq = f.streams[e].nextSeq
  BY <1>1, NewList
<1> QED
  BY <1>1, <1>3, <1>4

\* forwardOld cuts off what its walk has given back.
LEMMA ForwardOldHeld ==
    ASSUME NEW f, NEW n \in Nat, n <= MaxPackets, Held(f, n), NEW d \in BOOLEAN,
           f.streams[d].nextSeq \in Sequence
    PROVE  Held(ForwardOld(f, d), n)
<1> DEFINE w == Walk(f, d)
           g == w.f
           held == List(f, d)
           l == Len(held)
           k == l - w.deleted
           list == SubSeq(held, 1, k)
           u == WithFragments(g, d, list)
<1>1. Walkable(f, d) /\ FilterType(f) /\ (~d) \in BOOLEAN
  BY HeldWalkable, Directions DEF Held
<1>2. Walked(f, d, l, w)
  BY <1>1, WalkEnds
<1>3. held \in Seq(Fragment) /\ l \in Nat
  BY <1>1, FilterParts
<1> HIDE DEF w
<1>4. /\ w.deleted \in 0 .. l /\ FilterType(g) /\ List(g, d) = held /\ List(g, ~d) = List(f, ~d)
      /\ \A x \in 1 .. MaxPackets :
            g.copies[x] = IF \E i \in l + 1 - w.deleted .. l : held[i].nr = x
                          THEN f.copies[x] - 1 ELSE f.copies[x]
  BY <1>1, <1>2 DEF Walked
<1>5. k \in 0 .. l /\ k + 1 = l + 1 - w.deleted
  BY <1>3, <1>4
<1>6. list \in Seq(Fragment)
  BY <1>3, <1>5
<1>7. ForwardOld(f, d) = u
  BY <1>4 DEF ForwardOld, WithFragments, w, List
<1> HIDE DEF g, list, held, k
<1>8. FilterType(u) /\ u.copies = g.copies /\ List(u, d) = list /\ List(u, ~d) = List(g, ~d)
  BY <1>4, <1>6, FragmentsChanged
<1> HIDE DEF u
<1>9. \A x \in 1 .. MaxPackets :
            u.copies[x] = IF \E i \in k + 1 .. Len(List(f, d)) : List(f, d)[i].nr = x
                          THEN f.copies[x] - 1 ELSE f.copies[x]
  BY <1>4, <1>5, <1>8 DEF held
<1>10. /\ k \in 0 .. Len(List(f, d)) /\ List(u, d) = SubSeq(List(f, d), 1, k)
       /\ List(u, ~d) = List(f, ~d)
  BY <1>4, <1>5, <1>8 DEF held, list
<1>11. Held(u, n)
  BY <1>8, <1>9, <1>10, CutHeld
<1> QED
  BY <1>7, <1>11

--------------------------------------------------------------------------------
(* 4. The operations of the filter.                                          *)

\* maybeForwardOld: an acknowledged fragment, and those in sequence behind it.
LEMMA MaybeForwardOldHeld ==
    ASSUME NEW f, NEW n \in Nat, n <= MaxPackets, Held(f, n), NEW d \in BOOLEAN, NEW ack
    PROVE  Held(MaybeForwardOld(f, d, ack), n)
<1> DEFINE held == List(f, d)
           l == Len(held)
           zero == held[l]
           g == WithNext(f, d, zero.seq)
           h == ForwardPacket(g, d, zero)
           r == Recycle(h, zero)
           list == SubSeq(held, 1, l - 1)
           u == WithFragments(r, d, list)
<1>1. FilterType(f) /\ (~d) \in BOOLEAN /\ held \in Seq(Fragment) /\ l \in Nat
  BY FilterParts, Directions DEF Held
<1>2. CASE held = <<>> \/ Difference(zero.seq, ack) < 0
  BY <1>2 DEF MaybeForwardOld, List
<1>3. CASE ~(held = <<>> \/ Difference(zero.seq, ack) < 0)
  <2>1. l \in 1 .. l /\ l - 1 \in 0 .. l /\ (l - 1) + 1 = l
    BY <1>1, <1>3
  <2>2. zero \in Fragment /\ zero.seq \in Sequence /\ zero.nr \in 1 .. MaxPackets
    <3>1. zero \in Fragment /\ zero.seq \in Sequence
      BY <1>1, <2>1, FilterParts
    <3>2. zero.nr \in Nrs(held)
      BY <2>1 DEF Nrs
    <3>3. zero.nr \in 1 .. n
      BY <3>2 DEF Held
    <3> QED
      BY <3>1, <3>3, BoundAssumption
  <2>3. list \in Seq(Fragment)
    BY <1>1, <2>1
  <2> HIDE DEF zero, list
  <2>4. SameLists(f, g)
    BY <1>1, <2>2, NextChanged
  <2> HIDE DEF g
  <2>5. SameLists(g, h) /\ h.streams[d].nextSeq \in Sequence
    BY <2>2, <2>4, ForwardKeeps DEF SameLists
  <2> HIDE DEF h
  <2>6. FilterType(h) /\ h.copies = f.copies /\ \A e \in BOOLEAN : List(h, e) = List(f, e)
    BY <2>4, <2>5 DEF SameLists
  <2>7. /\ FilterType(r) /\ r.streams = h.streams
        /\ \A x \in 1 .. MaxPackets :
            r.copies[x] = IF x = zero.nr THEN h.copies[x] - 1 ELSE h.copies[x]
    BY <2>2, <2>6, RecycleOne
  <2>8. MaybeForwardOld(f, d, ack) = ForwardOld(u, d)
    <3>1. List(r, d) = held
      BY <2>6, <2>7 DEF List
    <3>2. u = [r EXCEPT !.streams[d].fragments = SubSeq(@, 1, Len(@) - 1)]
      BY <3>1 DEF WithFragments, List, list
    <3> QED
      BY <1>3, <3>2 DEF MaybeForwardOld, WithNext, List, g, h, zero
  <2> HIDE DEF r
  <2>9. /\ FilterType(u) /\ u.copies = r.copies /\ List(u, d) = list /\ List(u, ~d) = List(r, ~d)
        /\ \A e \in BOOLEAN : u.streams[e].nextSeq = r.streams[e].nextSeq
    BY <2>3, <2>7, FragmentsChanged
  <2> HIDE DEF u
  <2>10. List(u, ~d) = List(f, ~d) /\ u.streams[d].nextSeq \in Sequence
    BY <1>1, <2>5, <2>6, <2>7, <2>9 DEF List
  <2>11. ASSUME NEW x \in 1 .. MaxPackets
         PROVE  u.copies[x] = IF \E i \in (l - 1) + 1 .. l : held[i].nr = x
                              THEN f.copies[x] - 1 ELSE f.copies[x]
    <3>1. (\E i \in (l - 1) + 1 .. l : held[i].nr = x) <=> x = zero.nr
      <4>1. \A i : i \in (l - 1) + 1 .. l <=> i = l
        BY <1>1, <2>1
      <4> QED
        BY <4>1 DEF zero
    <3> QED
      BY <2>6, <2>7, <2>9, <3>1
  <2>12. Held(u, n)
    <3>1. l - 1 \in 0 .. Len(List(f, d)) /\ List(u, d) = SubSeq(List(f, d), 1, l - 1)
      BY <2>1, <2>9 DEF list
    <3> DEFINE k == l - 1
    <3>2. \A x \in 1 .. MaxPackets :
            u.copies[x] = IF \E i \in k + 1 .. Len(List(f, d)) : List(f, d)[i].nr = x
                          THEN f.copies[x] - 1 ELSE f.copies[x]
      BY <2>11
    <3>3. k \in 0 .. Len(List(f, d)) /\ List(u, d) = SubSeq(List(f, d), 1, k)
      BY <3>1
    <3> HIDE DEF k
    <3> QED
      BY <2>9, <2>10, <3>2, <3>3, CutHeld
  <2>13. Held(ForwardOld(u, d), n)
    BY <2>10, <2>12, ForwardOldHeld
  <2> QED
    BY <2>8, <2>13
<1> QED
  BY <1>2, <1>3

\* A held filter with the same lists and references.
LEMMA KeptHeld ==
    ASSUME NEW f, NEW u, NEW n \in Nat, Held(f, n), SameLists(f, u)
    PROVE  Held(u, n)
<1>1. n <= n
  OBVIOUS
<1> QED
  BY <1>1, SameHeld DEF SameLists

\* tcpReorder.Event: the packet is handed on, held, or dropped.
LEMMA FilterEventHeld ==
    ASSUME NEW f, NEW n \in Nat, n + 1 <= MaxPackets, Held(f, n),
           NEW p \in Fragment, p.nr = n + 1
    PROVE  Held(FilterEvent(f, p), n + 1)
<1> DEFINE d == p.forward
           u == MaybeForwardOld(f, ~d, p.ack)
           at == u.streams[d].nextSeq
           diff == Difference(at, p.seq)
           k == n + 1
           first == WithNext(u, d, p.seq)
<1>1. /\ d \in BOOLEAN /\ (~d) \in BOOLEAN /\ p.seq \in Sequence /\ k \in Nat /\ n <= k
      /\ n <= MaxPackets /\ k <= MaxPackets /\ k \in 1 .. MaxPackets
  BY Directions, BoundAssumption DEF Fragment
<1>2. ASSUME NEW g, Held(g, n) PROVE Held(g, k)
  <2>1. FilterType(g) /\ g.copies = g.copies /\ \A e \in BOOLEAN : List(g, e) = List(g, e)
    BY <1>2 DEF Held
  <2> HIDE DEF k
  <2> QED
    BY <1>1, <1>2, <2>1, SameHeld
<1>3. FilterEvent(f, p) =
        IF ~p.tcp THEN Handed(f, p)
        ELSE IF at = InvalidSequence THEN ForwardPacket(first, d, p)
        ELSE IF diff = 0 THEN ForwardOld(ForwardPacket(u, d, p), d)
        ELSE IF diff > 0 THEN Push(u, p)
        ELSE IF diff = -1 /\ p.plen = 0 THEN Handed(u, p)
        ELSE u
  BY DEF FilterEvent, WithNext
<1> HIDE DEF d, u, k
<1>4. Held(u, n)
  BY <1>1, MaybeForwardOldHeld DEF u
<1>5. FilterType(f) /\ FilterType(u)
  BY <1>4 DEF Held
<1>6. Held(Handed(f, p), k) /\ Held(Handed(u, p), k)
  <2>1. SameLists(f, Handed(f, p)) /\ SameLists(u, Handed(u, p))
    BY <1>5, HandedKeeps
  <2>2. Held(Handed(f, p), n) /\ Held(Handed(u, p), n)
    BY <1>4, <2>1, KeptHeld
  <2> QED
    BY <1>2, <2>2
<1>7. Held(ForwardPacket(first, d, p), k)
  <2>1. SameLists(u, first)
    BY <1>1, <1>5, NextChanged
  <2> HIDE DEF first
  <2>2. SameLists(first, ForwardPacket(first, d, p))
    BY <1>1, <2>1, ForwardKeeps DEF SameLists
  <2>3. Held(first, n)
    BY <1>4, <2>1, KeptHeld
  <2>4. Held(ForwardPacket(first, d, p), n)
    BY <2>2, <2>3, KeptHeld
  <2> QED
    BY <1>2, <2>4
<1>8. Held(ForwardOld(ForwardPacket(u, d, p), d), k)
  <2> DEFINE g == ForwardPacket(u, d, p)
  <2>1. SameLists(u, g) /\ g.streams[d].nextSeq \in Sequence
    BY <1>1, <1>5, ForwardKeeps
  <2> HIDE DEF g
  <2>2. Held(g, n)
    BY <1>4, <2>1, KeptHeld
  <2>3. Held(ForwardOld(g, d), n)
    BY <1>1, <2>1, <2>2, ForwardOldHeld
  <2> QED
    BY <1>2, <2>3 DEF g
<1>9. Held(Push(u, p), k)
  BY <1>1, <1>4, PushHeld DEF k
<1>10. Held(u, k)
  BY <1>2, <1>4
<1> HIDE DEF first, at, diff
<1>11. Held(FilterEvent(f, p), k)
  BY <1>3, <1>6, <1>7, <1>8, <1>9, <1>10
<1> QED
  BY <1>11 DEF k

\* Stop gives back the copy of each fragment of one direction.
LEMMA GivenBack ==
    ASSUME NEW f, FilterType(f), NEW d \in BOOLEAN, Once(List(f, d))
    PROVE  /\ GiveBack(f, d).streams = f.streams /\ FilterType(GiveBack(f, d))
           /\ \A x \in 1 .. MaxPackets :
                GiveBack(f, d).copies[x] = IF x \in Nrs(List(f, d)) THEN f.copies[x] - 1
                                           ELSE f.copies[x]
<1> DEFINE held == List(f, d)
           times(x) == Cardinality({i \in 1 .. Len(held) : held[i].nr = x})
           c == f.copies
           copies == [x \in 1 .. MaxPackets |-> c[x] - times(x)]
<1>1. GiveBack(f, d) = [f EXCEPT !.copies = copies]
  BY DEF GiveBack, List
<1>2. ASSUME NEW x \in 1 .. MaxPackets
      PROVE  times(x) = IF x \in Nrs(held) THEN 1 ELSE 0
  <2> DEFINE T == {i \in 1 .. Len(held) : held[i].nr = x}
  <2>1. CASE x \in Nrs(held)
    <3>1. PICK i \in 1 .. Len(held) : held[i].nr = x
      BY <2>1 DEF Nrs
    <3>2. T = {i}
      BY <3>1 DEF Once
    <3> HIDE DEF T
    <3>3. Cardinality(T) = 1
      BY <3>2, FS_Singleton
    <3> QED
      BY <2>1, <3>3 DEF T
  <2>2. CASE x \notin Nrs(held)
    <3>1. T = {}
      BY <2>2 DEF Nrs
    <3> HIDE DEF T
    <3>2. Cardinality(T) = 0
      BY <3>1, FS_EmptySet
    <3> QED
      BY <2>2, <3>2 DEF T
  <2> QED
    BY <2>1, <2>2
<1>3. c \in [1 .. MaxPackets -> Int] /\ c = f.copies
  BY DEF FilterType
<1> HIDE DEF times, held, c
<1>4. ASSUME NEW x \in 1 .. MaxPackets
      PROVE  /\ copies[x] = IF x \in Nrs(held) THEN c[x] - 1 ELSE c[x]
             /\ c[x] - times(x) \in Int
  <2>1. c[x] \in Int /\ copies[x] = c[x] - times(x)
    BY <1>3
  <2> QED
    BY <1>2, <2>1
<1>5. copies \in [1 .. MaxPackets -> Int]
  BY <1>4
<1> HIDE DEF copies
<1>6. FilterType(GiveBack(f, d))
  BY <1>1, <1>5 DEF FilterType
<1>7. GiveBack(f, d).streams = f.streams /\ GiveBack(f, d).copies = copies
  BY <1>1 DEF FilterType
<1> QED
  BY <1>3, <1>4, <1>6, <1>7 DEF held

\* ... and both directions together all of them.
LEMMA AllGivenBack ==
    ASSUME NEW f, NEW n \in Nat, Held(f, n)
    PROVE  \A x \in 1 .. MaxPackets : GiveBack(GiveBack(f, TRUE), FALSE).copies[x] = 0
<1> DEFINE g == GiveBack(f, TRUE)
           h == GiveBack(g, FALSE)
<1>1. /\ FilterType(f) /\ Once(List(f, TRUE)) /\ Once(List(f, FALSE))
      /\ Nrs(List(f, TRUE)) \cap Nrs(List(f, ~TRUE)) = {}
  BY DEF Held
<1>2. /\ g.streams = f.streams /\ FilterType(g)
      /\ \A x \in 1 .. MaxPackets :
            g.copies[x] = IF x \in Nrs(List(f, TRUE)) THEN f.copies[x] - 1 ELSE f.copies[x]
  BY <1>1, GivenBack
<1> HIDE DEF g
<1>3. List(g, FALSE) = List(f, FALSE) /\ Once(List(g, FALSE))
  BY <1>1, <1>2 DEF List
<1>4. \A x \in 1 .. MaxPackets :
            h.copies[x] = IF x \in Nrs(List(f, FALSE)) THEN g.copies[x] - 1 ELSE g.copies[x]
  BY <1>2, <1>3, GivenBack
<1> HIDE DEF h
<1>5. ASSUME NEW x \in 1 .. MaxPackets PROVE h.copies[x] = 0
  <2>1. f.copies[x] = IF \E d \in BOOLEAN : x \in Nrs(List(f, d)) THEN 1 ELSE 0
    BY DEF Held
  <2>2. (\E d \in BOOLEAN : x \in Nrs(List(f, d)))
            <=> x \in Nrs(List(f, TRUE)) \/ x \in Nrs(List(f, FALSE))
    OBVIOUS
  <2>3. ~(x \in Nrs(List(f, TRUE)) /\ x \in Nrs(List(f, FALSE)))
    BY <1>1
  <2> DEFINE one == x \in Nrs(List(f, TRUE))
             two == x \in Nrs(List(f, FALSE))
  <2>4. f.copies[x] = IF one \/ two THEN 1 ELSE 0
    BY <2>1, <2>2
  <2>5. /\ g.copies[x] = IF one THEN f.copies[x] - 1 ELSE f.copies[x]
        /\ h.copies[x] = IF two THEN g.copies[x] - 1 ELSE g.copies[x]
    BY <1>2, <1>4
  <2>6. ~(one /\ two)
    BY <2>3
  <2> HIDE DEF one, two
  <2> QED
    BY <2>4, <2>5, <2>6
<1> QED
  BY <1>5 DEF g, h

--------------------------------------------------------------------------------
(* 5. The steps of the record.                                               *)

\* While the record lives its filter holds what it references; afterwards it
\* references nothing.
RInv ==
    /\ received \in Seq(Fragment) /\ Len(received) <= MaxPackets
    /\ record \in {"new", "alive", "stopped"}
    /\ record = "new" => received = <<>> /\ filter = Started
    /\ record # "stopped" => Held(filter, Len(received))
    /\ record = "stopped" => \A x \in 1 .. MaxPackets : filter.copies[x] = 0

\* The filter of a new record.
LEMMA StartedHeld == Held(Started, 0)
<1> DEFINE copies == [n \in 1 .. MaxPackets |-> 0]
           streams == [d \in BOOLEAN |-> NewStream]
<1>1. Started = [streams |-> streams, out |-> <<>>, copies |-> copies]
  BY DEF Started
<1>2. /\ copies \in [1 .. MaxPackets -> Int] /\ \A x \in 1 .. MaxPackets : copies[x] = 0
      /\ \A d \in BOOLEAN : streams[d] = NewStream
  OBVIOUS
<1>3. /\ NewStream \in [fragments : Seq(Fragment), nextSeq : Sequence \cup {InvalidSequence}]
      /\ NewStream.fragments = <<>>
  BY DEF NewStream
<1>4. streams \in [BOOLEAN -> [fragments : Seq(Fragment),
                               nextSeq : Sequence \cup {InvalidSequence}]]
  <2> HIDE DEF NewStream
  <2> QED
    BY <1>3
<1> HIDE DEF copies, streams
<1>5. FilterType(Started)
  BY <1>1, <1>2, <1>4 DEF FilterType
<1>6. \A d \in BOOLEAN : List(Started, d) = <<>>
  BY <1>1, <1>2, <1>3 DEF List
<1>7. Sorted(<<>>) /\ Once(<<>>) /\ Nrs(<<>>) = {}
  BY DEF Sorted, Once, Nrs
<1>8. ASSUME NEW d \in BOOLEAN
      PROVE  /\ Sorted(List(Started, d)) /\ Once(List(Started, d))
             /\ Nrs(List(Started, d)) \subseteq 1 .. 0
             /\ Nrs(List(Started, d)) \cap Nrs(List(Started, ~d)) = {}
  BY <1>6, <1>7
<1>9. ASSUME NEW x \in 1 .. MaxPackets
      PROVE  Started.copies[x] = IF \E d \in BOOLEAN : x \in Nrs(List(Started, d)) THEN 1 ELSE 0
  <2>1. Started.copies[x] = 0
    BY <1>1, <1>2
  <2>2. \A d \in BOOLEAN : x \notin Nrs(List(Started, d))
    BY <1>6, <1>7
  <2> QED
    BY <2>1, <2>2
<1> QED
  BY <1>5, <1>8, <1>9 DEF Held

\* A packet of the flow with its number.
LEMMA NumberedType ==
    ASSUME NEW packet \in Packets, NEW n \in Nat
    PROVE  Numbered(packet, n) \in Fragment /\ Numbered(packet, n).nr = n
<1>1. packet \in PacketType
  BY PacketsAssumption
<1> QED
  BY <1>1 DEF PacketType, Numbered, Fragment

LEMMA RInvStarts == Init => RInv
<1> SUFFICES ASSUME Init PROVE RInv
  OBVIOUS
<1>1. filter = Started /\ record = "new" /\ received = <<>>
  BY DEF Init
<1>2. received \in Seq(Fragment) /\ Len(received) = 0 /\ 0 <= MaxPackets
  BY <1>1, BoundAssumption
<1>3. Held(filter, Len(received))
  BY <1>1, <1>2, StartedHeld
<1> QED
  BY <1>1, <1>2, <1>3 DEF RInv

LEMMA RInvStep == RInv /\ [Next]_vars => RInv'
<1> SUFFICES ASSUME RInv, [Next]_vars PROVE RInv'
  OBVIOUS
<1>1. ASSUME NEW packet \in Packets, Event(packet) PROVE RInv'
  <2> DEFINE n == Len(received)
             p == Numbered(packet, n + 1)
             f == IF record = "new" THEN Started ELSE filter
  <2>1. /\ record # "stopped" /\ n < MaxPackets /\ record' = "alive"
        /\ filter' = FilterEvent(f, p) /\ received' = Append(received, p)
    BY <1>1 DEF Event
  <2>2. n \in Nat /\ n + 1 <= MaxPackets /\ n + 1 \in Nat /\ received \in Seq(Fragment)
    BY <2>1, BoundAssumption DEF RInv
  <2>3. f = filter /\ Held(f, n)
    BY <2>1 DEF RInv
  <2> HIDE DEF n
  <2>4. p \in Fragment /\ p.nr = n + 1
    BY <2>2, NumberedType
  <2> HIDE DEF f, p
  <2>5. Held(filter', n + 1)
    BY <2>1, <2>2, <2>3, <2>4, FilterEventHeld
  <2>6. received' \in Seq(Fragment) /\ Len(received') = n + 1
    BY <2>1, <2>2, <2>4 DEF n
  <2>7. record' = "alive" /\ Len(received') <= MaxPackets /\ Held(filter', Len(received'))
    BY <2>1, <2>2, <2>5, <2>6
  <2> QED
    BY <2>6, <2>7 DEF RInv
<1>2. ASSUME Export PROVE RInv'
  <2>1. /\ record = "alive" /\ record' = "stopped" /\ received' = received
        /\ filter' = GiveBack(GiveBack(filter, TRUE), FALSE)
    BY <1>2 DEF Export
  <2>2. Held(filter, Len(received)) /\ Len(received) \in Nat
    BY <2>1 DEF RInv
  <2>3. \A x \in 1 .. MaxPackets : filter'.copies[x] = 0
    BY <2>1, <2>2, AllGivenBack
  <2> QED
    BY <2>1, <2>3 DEF RInv
<1>3. ASSUME UNCHANGED vars PROVE RInv'
  BY <1>3 DEF vars, RInv
<1> QED
  BY <1>1, <1>2, <1>3 DEF Next

\* Whatever packets come in whatever order, the invariant of the filter holds.
THEOREM ReorderInvariance == Spec => []RInv
<1>1. Init => RInv
  BY RInvStarts
<1>2. RInv /\ [Next]_vars => RInv'
  BY RInvStep
<1> QED
  BY <1>1, <1>2, PTL DEF Spec

\* The numbers of what is in the lists.
LEMMA HeldNrsOfLists ==
    ASSUME NEW f, NEW x
    PROVE  x \in HeldNrs(f) <=> \E d \in BOOLEAN : x \in {List(f, d)[i].nr : i \in DOMAIN List(f, d)}
BY DEF HeldNrs, List

\* CopiesReturned for any packets, any number of them and any ring of sequence numbers:
\* the buffer of a packet is referenced exactly while the packet is in one of the lists of
\* transport.go, and no longer once the record has ended.
THEOREM CopiesStayReturned == Spec => []CopiesReturned
<1>1. RInv => CopiesReturned
  <2> SUFFICES ASSUME RInv, NEW n \in 1 .. MaxPackets
               PROVE  filter.copies[n] =
                        IF record # "stopped" /\ n \in HeldNrs(filter) THEN 1 ELSE 0
    BY DEF CopiesReturned
  <2>1. CASE record = "stopped"
    BY <2>1 DEF RInv
  <2>2. CASE record # "stopped"
    <3>1. Held(filter, Len(received)) /\ FilterType(filter)
      BY <2>2 DEF RInv, Held
    <3>2. ASSUME NEW d \in BOOLEAN
          PROVE  {List(filter, d)[i].nr : i \in DOMAIN List(filter, d)} = Nrs(List(filter, d))
      <4>1. List(filter, d) \in Seq(Fragment)
        BY <3>1, FilterParts
      <4>2. DOMAIN List(filter, d) = 1 .. Len(List(filter, d))
        BY <4>1
      <4> QED
        BY <4>2 DEF Nrs
    <3>3. n \in HeldNrs(filter) <=> \E d \in BOOLEAN : n \in Nrs(List(filter, d))
      BY <3>2, HeldNrsOfLists
    <3>4. filter.copies[n] = IF \E d \in BOOLEAN : n \in Nrs(List(filter, d)) THEN 1 ELSE 0
      BY <3>1 DEF Held
    <3> QED
      BY <2>2, <3>3, <3>4
  <2> QED
    BY <2>1, <2>2
<1> QED
  BY <1>1, ReorderInvariance, PTL
================================================================================
