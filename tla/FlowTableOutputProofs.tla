------------------------- MODULE FlowTableOutputProofs -------------------------
(*****************************************************************************)
(* The output of a flow table, for any keys, packets, options, records,      *)
(* outcomes and bounds: unfinished export records belong to living flows,    *)
(* nothing that was exported is lost or sent twice, and what is sent is in   *)
(* order.                                                                    *)
(*                                                                           *)
(* A line is what the table has for one record: the list of export records,  *)
(* what was sent on from it and what was issued.  Section 1 is about lists   *)
(* and those that are left when elements are taken out, section 2 about the  *)
(* operations of ExportList on a line, section 3 about the lines of a table  *)
(* in the operations on a flow, section 4 about the operations on the table, *)
(* and section 5 about the steps of the specification.                       *)
(*****************************************************************************)
EXTENDS FlowTableProofs, SelectionFacts, FiniteSetTheorems

--------------------------------------------------------------------------------
(* 1. Lists                                                                  *)

OpenPlaces(list) == {a \in 1 .. Len(list) : ~list[a].done}
DonePlaces(list) == {a \in 1 .. Len(list) : list[a].done}
DoneOnes(list) == {list[a] : a \in DonePlaces(list)}

\* The flows that have an unfinished export record in list.
OpenFlows(list) == {list[a].flow : a \in OpenPlaces(list)}
OneOpenEach(list) == \A a, b \in OpenPlaces(list) : list[a].flow = list[b].flow => a = b

\* What was issued is done in the list or was sent, once.
Conserved(list, sent, issued) ==
    /\ Len(issued) = Len(sent) + Cardinality(DonePlaces(list))
    /\ Elements(issued) = DoneOnes(list) \cup Elements(sent)

\* new is what old has at the places P, in their order, and m tells where.
Part(old, new, P, m) ==
    /\ m \in [1 .. Len(new) -> P]
    /\ \A a \in 1 .. Len(new) : new[a] = old[m[a]]
    /\ \A a, b \in 1 .. Len(new) : a < b => m[a] < m[b]
    /\ \A p \in P : \E a \in 1 .. Len(new) : m[a] = p

OneToOne(m, n) == \A a, b \in 1 .. n : m[a] = m[b] => a = b

\* The fields of an export record.
LEMMA EntryFields ==
    ASSUME NEW e \in Entry
    PROVE  e.done \in BOOLEAN /\ e.flow \in Nat /\ e.nr \in Nat
BY DEF Entry

\* The places of a list are finitely many.
LEMMA PlacesFinite ==
    ASSUME NEW list \in Seq(Entry), NEW P \in SUBSET (1 .. Len(list))
    PROVE  IsFiniteSet(P) /\ Cardinality(P) \in Nat /\ IsFiniteSet(DonePlaces(list))
<1>1. IsFiniteSet(1 .. Len(list))
  BY FS_Interval
<1>2. DonePlaces(list) \in SUBSET (1 .. Len(list))
  BY DEF DonePlaces
<1>3. IsFiniteSet(P) /\ IsFiniteSet(DonePlaces(list))
  BY <1>1, <1>2, FS_Subset
<1> QED
  BY <1>3, FS_CardinalityType

\* A bijection shows that two sets are of one size.
LEMMA SameSize ==
    ASSUME NEW S, NEW T, IsFiniteSet(T), NEW g \in [S -> T],
           \A x, y \in S : g[x] = g[y] => x = y,
           \A z \in T : \E x \in S : g[x] = z
    PROVE  IsFiniteSet(S) /\ Cardinality(S) = Cardinality(T)
<1>1. g \in Injection(S, T)
  BY DEF Injection, IsInjective
<1>2. g \in Surjection(S, T)
  BY DEF Surjection
<1> QED
  BY <1>1, <1>2, FS_Injection

\* The places of a part are all different.
LEMMA PartOneToOne ==
    ASSUME NEW old \in Seq(Entry), NEW new \in Seq(Entry), NEW P \in SUBSET (1 .. Len(old)),
           NEW m, Part(old, new, P, m)
    PROVE  /\ \A a \in 1 .. Len(new) : m[a] \in P /\ m[a] \in Nat
           /\ OneToOne(m, Len(new))
<1>1. \A a \in 1 .. Len(new) : m[a] \in P /\ m[a] \in Nat
  BY DEF Part
<1>2. ASSUME NEW a \in 1 .. Len(new), NEW b \in 1 .. Len(new), m[a] = m[b], a # b PROVE FALSE
  <2>1. a < b \/ b < a
    BY <1>2
  <2>2. m[a] < m[b] \/ m[b] < m[a]
    BY <2>1 DEF Part
  <2> QED
    BY <1>1, <1>2, <2>2
<1> QED
  BY <1>1, <1>2 DEF OneToOne

\* What is done in a part.
LEMMA PartDone ==
    ASSUME NEW old \in Seq(Entry), NEW new \in Seq(Entry), NEW P \in SUBSET (1 .. Len(old)),
           NEW m, Part(old, new, P, m)
    PROVE  /\ Cardinality(DonePlaces(new)) = Cardinality(DonePlaces(old) \cap P)
           /\ DoneOnes(new) = {old[p] : p \in DonePlaces(old) \cap P}
<1> DEFINE S == DonePlaces(new)
           T == DonePlaces(old) \cap P
           g == [a \in S |-> m[a]]
<1>1. \A a \in 1 .. Len(new) : m[a] \in P /\ new[a] = old[m[a]]
  BY PartOneToOne DEF Part
<1>2. \A a \in S : a \in 1 .. Len(new) /\ g[a] = m[a] /\ g[a] \in T /\ new[a] = old[g[a]]
  BY <1>1 DEF DonePlaces
<1>3. \A z \in T : \E a \in S : g[a] = z
  BY <1>1 DEF DonePlaces, Part
<1>4. \A x, y \in S : g[x] = g[y] => x = y
  <2>1. \A a, b \in 1 .. Len(new) : m[a] = m[b] => a = b
    <3>1. OneToOne(m, Len(new))
      BY PartOneToOne
    <3> QED
      BY <3>1 DEF OneToOne
  <2> HIDE DEF g, S
  <2> QED
    BY <1>2, <2>1
<1>5. IsFiniteSet(T)
  BY PlacesFinite
<1>6. g \in [S -> T]
  BY <1>2
<1> HIDE DEF g, S, T
<1>7. Cardinality(S) = Cardinality(T)
  BY <1>3, <1>4, <1>5, <1>6, SameSize
<1>8. {new[a] : a \in S} = {old[p] : p \in T}
  BY <1>2, <1>3
<1> QED
  BY <1>7, <1>8 DEF DoneOnes, S, T

\* What is not done in a part.
LEMMA PartOpen ==
    ASSUME NEW old \in Seq(Entry), NEW new \in Seq(Entry), NEW P \in SUBSET (1 .. Len(old)),
           NEW m, Part(old, new, P, m), OneOpenEach(old)
    PROVE  /\ OneOpenEach(new)
           /\ OpenFlows(new) = {old[p].flow : p \in OpenPlaces(old) \cap P}
<1>1. \A a \in OpenPlaces(new) :
        a \in 1 .. Len(new) /\ m[a] \in OpenPlaces(old) \cap P /\ new[a] = old[m[a]]
  BY PartOneToOne DEF Part, OpenPlaces
<1>2. OneOpenEach(new)
  <2>1. \A a, b \in 1 .. Len(new) : m[a] = m[b] => a = b
    <3>1. OneToOne(m, Len(new))
      BY PartOneToOne
    <3> QED
      BY <3>1 DEF OneToOne
  <2> SUFFICES ASSUME NEW a \in OpenPlaces(new), NEW b \in OpenPlaces(new),
                      new[a].flow = new[b].flow
               PROVE  a = b
    BY DEF OneOpenEach
  <2>2. m[a] = m[b]
    BY <1>1 DEF OneOpenEach
  <2> QED
    BY <1>1, <2>1, <2>2
<1>3. \A p \in OpenPlaces(old) \cap P : \E a \in OpenPlaces(new) : m[a] = p
  BY DEF Part, OpenPlaces
<1>4. {new[a].flow : a \in OpenPlaces(new)} = {old[p].flow : p \in OpenPlaces(old) \cap P}
  BY <1>1, <1>3
<1> QED
  BY <1>2, <1>4 DEF OpenFlows

\* A list without one of its elements.
LEMMA RemoveAtPart ==
    ASSUME NEW list \in Seq(Entry), NEW k \in 1 .. Len(list)
    PROVE  LET new == Seqs!RemoveAt(list, k)
           IN  new \in Seq(Entry) /\ \E m : Part(list, new, (1 .. Len(list)) \ {k}, m)
<1> DEFINE new == Seqs!RemoveAt(list, k)
           P == (1 .. Len(list)) \ {k}
           m == [a \in 1 .. Len(new) |-> IF a < k THEN a ELSE a + 1]
<1>1. /\ new \in Seq(Entry) /\ Len(new) = Len(list) - 1
      /\ \A a \in 1 .. Len(new) : new[a] = IF a < k THEN list[a] ELSE list[a + 1]
  <2> DEFINE front == SubSeq(list, 1, k - 1)
             back == SubSeq(list, k + 1, Len(list))
  <2>1. /\ front \in Seq(Entry) /\ Len(front) = k - 1
        /\ \A a \in 1 .. k - 1 : front[a] = list[a]
    OBVIOUS
  <2>2. /\ back \in Seq(Entry) /\ Len(back) = Len(list) - k
        /\ \A a \in 1 .. Len(list) - k : back[a] = list[a + k]
    OBVIOUS
  <2>3. new = front \o back
    BY DEF Seqs!RemoveAt
  <2> HIDE DEF new, front, back
  <2>4. /\ new \in Seq(Entry) /\ Len(new) = Len(list) - 1
        /\ \A a \in 1 .. Len(new) : new[a] = IF a <= k - 1 THEN front[a] ELSE back[a - (k - 1)]
    <3>1. k \in Nat /\ k >= 1 /\ k <= Len(list) /\ Len(list) \in Nat
      OBVIOUS
    <3>2. /\ new \in Seq(Entry) /\ Len(new) = Len(front) + Len(back)
          /\ \A a \in 1 .. Len(front) + Len(back) :
                new[a] = IF a <= Len(front) THEN front[a] ELSE back[a - Len(front)]
      BY <2>1, <2>2, <2>3, ConcatProperties
    <3>3. Len(front) + Len(back) = Len(list) - 1
      BY <2>1, <2>2, <3>1
    <3> QED
      BY <2>1, <3>2, <3>3
  <2>5. k \in Nat /\ Len(list) \in Nat
    OBVIOUS
  <2>6. ASSUME NEW a \in 1 .. Len(new) PROVE new[a] = IF a < k THEN list[a] ELSE list[a + 1]
    <3>1. CASE a < k
      <4>1. a \in 1 .. k - 1
        BY <2>5, <3>1
      <4> QED
        BY <2>1, <2>4, <2>5, <3>1, <4>1
    <3>2. CASE ~(a < k)
      <4> DEFINE b == a - (k - 1)
      <4>1. b \in 1 .. Len(list) - k /\ b + k = a + 1 /\ ~(a <= k - 1)
        BY <2>4, <2>5, <3>2
      <4>2. new[a] = back[b]
        BY <2>4, <4>1
      <4> HIDE DEF b
      <4>3. back[b] = list[b + k]
        BY <2>2, <4>1
      <4> QED
        BY <3>2, <4>1, <4>2, <4>3
    <3> QED
      BY <3>1, <3>2
  <2> QED
    BY <2>4, <2>6
<1>2. Len(list) \in Nat /\ k \in Nat
  OBVIOUS
<1> HIDE DEF new
<1>3. ASSUME NEW a \in 1 .. Len(new) PROVE m[a] \in P /\ new[a] = list[m[a]]
  <2>1. m[a] = IF a < k THEN a ELSE a + 1
    OBVIOUS
  <2>2. a \in 1 .. Len(list) - 1 /\ new[a] = IF a < k THEN list[a] ELSE list[a + 1]
    BY <1>1
  <2> HIDE DEF m
  <2> QED
    BY <1>2, <2>1, <2>2
<1>4. \A a, b \in 1 .. Len(new) : a < b => m[a] < m[b]
  BY <1>1, <1>2
<1>5. \A p \in P : \E a \in 1 .. Len(new) : m[a] = p
  <2> TAKE p \in P
  <2>1. CASE p < k
    <3>1. p \in 1 .. Len(new) /\ m[p] = p
      BY <1>1, <1>2, <2>1
    <3> QED
      BY <3>1
  <2>2. CASE p > k
    <3>1. p - 1 \in 1 .. Len(new) /\ m[p - 1] = p
      BY <1>1, <1>2, <2>2
    <3> QED
      BY <3>1
  <2> QED
    BY <1>2, <2>1, <2>2
<1>6. Part(list, new, P, m)
  BY <1>3, <1>4, <1>5 DEF Part
<1> QED
  BY <1>1, <1>6 DEF new

\* The front of a list.
LEMMA PrefixPart ==
    ASSUME NEW list \in Seq(Entry), NEW k \in 0 .. Len(list)
    PROVE  LET new == SubSeq(list, 1, k)
           IN  new \in Seq(Entry) /\ Len(new) = k /\ \E m : Part(list, new, 1 .. k, m)
<1> DEFINE new == SubSeq(list, 1, k)
           m == [a \in 1 .. k |-> a]
<1>1. new \in Seq(Entry) /\ Len(new) = k /\ \A a \in 1 .. k : new[a] = list[a]
  OBVIOUS
<1> HIDE DEF new
<1>2. Part(list, new, 1 .. k, m)
  BY <1>1 DEF Part
<1> QED
  BY <1>1, <1>2 DEF new

\* The elements of a list that are in K.
LEMMA OnlyPart ==
    ASSUME NEW list \in Seq(Entry), NEW K
    PROVE  LET new == Only(list, K)
               P == {p \in 1 .. Len(list) : list[p] \in K}
           IN  new \in Seq(Entry) /\ \E m : Part(list, new, P, m)
<1> DEFINE new == Only(list, K)
           P == {p \in 1 .. Len(list) : list[p] \in K}
<1>1. new \in Seq(Entry) /\ \E m : Picks(list, K, new, Len(list), m)
  BY OnlyPicks
<1>2. PICK m : Picks(list, K, new, Len(list), m)
  BY <1>1
<1> HIDE DEF new
<1>3. Part(list, new, P, m)
  BY <1>2 DEF Part, Picks
<1> QED
  BY <1>1, <1>3 DEF new

\* A list with one more element in front.
LEMMA InsertPart ==
    ASSUME NEW list \in Seq(Entry), NEW e \in Entry
    PROVE  LET new == Insert(list, e)
           IN  /\ new \in Seq(Entry) /\ Len(new) = Len(list) + 1 /\ new[1] = e
               /\ \E m : Part(new, list, 2 .. Len(new), m)
<1> DEFINE new == Insert(list, e)
           m == [a \in 1 .. Len(list) |-> a + 1]
<1>1. /\ new \in Seq(Entry) /\ Len(new) = Len(list) + 1 /\ new[1] = e
      /\ \A a \in 1 .. Len(list) : new[a + 1] = list[a]
  BY DEF Insert
<1>2. Len(list) \in Nat
  OBVIOUS
<1> HIDE DEF new
<1>3. \A p \in 2 .. Len(new) : p - 1 \in 1 .. Len(list) /\ m[p - 1] = p
  BY <1>1, <1>2
<1>4. Part(new, list, 2 .. Len(new), m)
  BY <1>1, <1>2, <1>3 DEF Part
<1> QED
  BY <1>1, <1>4 DEF new

\* An export record in front adds itself.
LEMMA InsertCounts ==
    ASSUME NEW list \in Seq(Entry), NEW e \in Entry
    PROVE  LET new == Insert(list, e)
           IN  /\ new \in Seq(Entry)
               /\ e.done => /\ Cardinality(DonePlaces(new)) = Cardinality(DonePlaces(list)) + 1
                            /\ DoneOnes(new) = DoneOnes(list) \cup {e}
                            /\ OpenFlows(new) = OpenFlows(list)
               /\ ~e.done => /\ Cardinality(DonePlaces(new)) = Cardinality(DonePlaces(list))
                             /\ DoneOnes(new) = DoneOnes(list)
                             /\ OpenFlows(new) = OpenFlows(list) \cup {e.flow}
<1> DEFINE new == Insert(list, e)
           Q == 2 .. Len(new)
           D == DonePlaces(new) \cap Q
           O == OpenPlaces(new) \cap Q
<1>1. PICK m : /\ new \in Seq(Entry) /\ Len(new) = Len(list) + 1 /\ new[1] = e
               /\ Part(new, list, Q, m)
  BY InsertPart
<1>2. Len(list) \in Nat /\ Q \in SUBSET (1 .. Len(new)) /\ 1 .. Len(new) = {1} \cup Q /\ 1 \notin Q
  BY <1>1
<1> HIDE DEF new, Q
<1>3. /\ Cardinality(DonePlaces(list)) = Cardinality(D)
      /\ DoneOnes(list) = {new[p] : p \in D}
  BY <1>1, <1>2, PartDone
<1>4. OpenFlows(list) = {new[p].flow : p \in O}
  <2>1. \A a \in OpenPlaces(list) :
          a \in 1 .. Len(list) /\ m[a] \in O /\ list[a] = new[m[a]]
    BY <1>1, <1>2, PartOneToOne DEF Part, OpenPlaces
  <2>2. \A p \in O : \E a \in OpenPlaces(list) : m[a] = p
    BY <1>1 DEF Part, OpenPlaces
  <2> HIDE DEF O
  <2> QED
    BY <2>1, <2>2 DEF OpenFlows
<1>5. DonePlaces(new) = IF e.done THEN D \cup {1} ELSE D
  BY <1>1, <1>2 DEF DonePlaces
<1>6. OpenPlaces(new) = IF e.done THEN O ELSE O \cup {1}
  BY <1>1, <1>2 DEF OpenPlaces
<1>7. IsFiniteSet(D) /\ 1 \notin D /\ D \in SUBSET (1 .. Len(new))
  <2>1. D \in SUBSET (1 .. Len(new)) /\ 1 \notin D
    BY <1>2
  <2> QED
    BY <1>1, <2>1, PlacesFinite
<1> HIDE DEF D, O
<1>8. Cardinality(D \cup {1}) = Cardinality(D) + 1
  BY <1>7, FS_AddElement
<1>9. {new[p] : p \in D \cup {1}} = {new[p] : p \in D} \cup {e}
  BY <1>1
<1>10. {new[p].flow : p \in O \cup {1}} = {new[p].flow : p \in O} \cup {e.flow}
  BY <1>1
<1>11. CASE e.done
  BY <1>1, <1>3, <1>4, <1>5, <1>6, <1>8, <1>9, <1>11 DEF DoneOnes, OpenFlows, new
<1>12. CASE ~e.done
  BY <1>1, <1>3, <1>4, <1>5, <1>6, <1>10, <1>12 DEF DoneOnes, OpenFlows, new
<1> QED
  BY <1>11, <1>12

\* Numbers of the first or last packet: from the front of a list down, in what is sent
\* up and below those of the list, and all of them below n.
Down(list) == \A a, b \in 1 .. Len(list) : a < b => list[a].nr > list[b].nr
Up(sent) == \A a, b \in 1 .. Len(sent) : a < b => sent[a].nr < sent[b].nr
Before(sent, list) == \A a \in 1 .. Len(sent), b \in 1 .. Len(list) : sent[a].nr < list[b].nr
Below(list, n) == \A a \in 1 .. Len(list) : list[a].nr < n

\* A part is in the same order.
LEMMA PartOrder ==
    ASSUME NEW old \in Seq(Entry), NEW new \in Seq(Entry), NEW P \in SUBSET (1 .. Len(old)),
           NEW m, Part(old, new, P, m), NEW sent, NEW n
    PROVE  /\ Down(old) => Down(new)
           /\ Before(sent, old) => Before(sent, new)
           /\ Below(old, n) => Below(new, n)
<1>1. \A a \in 1 .. Len(new) : m[a] \in 1 .. Len(old) /\ new[a] = old[m[a]]
  BY PartOneToOne DEF Part
<1>2. \A a, b \in 1 .. Len(new) : a < b => m[a] < m[b]
  BY DEF Part
<1>3. Down(old) => Down(new)
  BY <1>1, <1>2 DEF Down
<1>4. Before(sent, old) => Before(sent, new)
  BY <1>1 DEF Before
<1>5. Below(old, n) => Below(new, n)
  BY <1>1 DEF Below
<1> QED
  BY <1>3, <1>4, <1>5

\* The unfinished export record of a flow.
LEMMA OpenIndexHolds ==
    ASSUME NEW list \in Seq(Entry), NEW id
    PROVE  /\ HasOpen(list, id) <=> id \in OpenFlows(list)
           /\ HasOpen(list, id) => OpenIndex(list, id) \in OpenPlaces(list)
                                   /\ list[OpenIndex(list, id)].flow = id
<1>1. HasOpen(list, id) <=> id \in OpenFlows(list)
  BY DEF HasOpen, OpenFlows, OpenPlaces
<1>2. ASSUME HasOpen(list, id)
      PROVE  OpenIndex(list, id) \in OpenPlaces(list) /\ list[OpenIndex(list, id)].flow = id
  BY <1>2 DEF HasOpen, OpenIndex, OpenPlaces
<1> QED
  BY <1>1, <1>2

\* Places that are open are not done, and the other way round.
LEMMA PlacesSplit ==
    ASSUME NEW list \in Seq(Entry)
    PROVE  /\ DonePlaces(list) = (1 .. Len(list)) \ OpenPlaces(list)
           /\ OpenPlaces(list) = (1 .. Len(list)) \ DonePlaces(list)
BY DEF DonePlaces, OpenPlaces

\* exportRecord.unlink takes out the unfinished export record of the flow.
LEMMA UnlinkHolds ==
    ASSUME NEW list \in Seq(Entry), NEW id, OneOpenEach(list)
    PROVE  LET new == Unlink(list, id)
           IN  /\ new \in Seq(Entry) /\ OneOpenEach(new)
               /\ OpenFlows(new) = OpenFlows(list) \ {id}
               /\ Cardinality(DonePlaces(new)) = Cardinality(DonePlaces(list))
               /\ DoneOnes(new) = DoneOnes(list)
               /\ \A sent, n : /\ Down(list) => Down(new)
                               /\ Before(sent, list) => Before(sent, new)
                               /\ Below(list, n) => Below(new, n)
<1> DEFINE new == Unlink(list, id)
           k == OpenIndex(list, id)
           P == (1 .. Len(list)) \ {k}
<1>1. CASE ~HasOpen(list, id)
  BY <1>1, OpenIndexHolds DEF Unlink
<1>2. CASE HasOpen(list, id)
  <2>1. k \in OpenPlaces(list) /\ list[k].flow = id /\ k \in 1 .. Len(list)
    BY <1>2, OpenIndexHolds DEF OpenPlaces
  <2>2. new = Seqs!RemoveAt(list, k)
    BY <1>2 DEF Unlink
  <2>3. P \in SUBSET (1 .. Len(list))
    OBVIOUS
  <2> HIDE DEF new, k
  <2>4. new \in Seq(Entry) /\ \E m : Part(list, new, P, m)
    BY <2>1, <2>2, RemoveAtPart
  <2>5. PICK m : Part(list, new, P, m)
    BY <2>4
  <2> HIDE DEF P
  <2>6. /\ Cardinality(DonePlaces(new)) = Cardinality(DonePlaces(list) \cap P)
        /\ DoneOnes(new) = {list[p] : p \in DonePlaces(list) \cap P}
    BY <2>3, <2>4, <2>5, PartDone
  <2>7. DonePlaces(list) \cap P = DonePlaces(list)
    BY <2>1 DEF P, DonePlaces, OpenPlaces
  <2>8. /\ OneOpenEach(new)
        /\ OpenFlows(new) = {list[p].flow : p \in OpenPlaces(list) \cap P}
    BY <2>3, <2>4, <2>5, PartOpen
  <2>9. OpenPlaces(list) \cap P = OpenPlaces(list) \ {k}
    BY DEF P, OpenPlaces
  <2>10. {list[p].flow : p \in OpenPlaces(list) \ {k}} = OpenFlows(list) \ {id}
    BY <2>1 DEF OpenFlows, OneOpenEach
  <2>11. \A sent, n : /\ Down(list) => Down(new)
                      /\ Before(sent, list) => Before(sent, new)
                      /\ Below(list, n) => Below(new, n)
    BY <2>3, <2>4, <2>5, PartOrder
  <2> QED
    BY <2>4, <2>6, <2>7, <2>8, <2>9, <2>10, <2>11 DEF DoneOnes, new
<1> QED
  BY <1>1, <1>2

\* record.Export fills in the unfinished export record of the flow, which keeps its number.
LEMMA FillInHolds ==
    ASSUME NEW list \in Seq(Entry), NEW id, OneOpenEach(list), HasOpen(list, id),
           NEW e \in Entry, e.done, e.nr = list[OpenIndex(list, id)].nr
    PROVE  LET new == FillIn(list, id, e)
           IN  /\ new \in Seq(Entry) /\ OneOpenEach(new)
               /\ OpenFlows(new) = OpenFlows(list) \ {id}
               /\ Cardinality(DonePlaces(new)) = Cardinality(DonePlaces(list)) + 1
               /\ DoneOnes(new) = DoneOnes(list) \cup {e}
               /\ \A sent, n : /\ Down(list) => Down(new)
                               /\ Before(sent, list) => Before(sent, new)
                               /\ Below(list, n) => Below(new, n)
<1> DEFINE new == FillIn(list, id, e)
           k == OpenIndex(list, id)
<1>1. k \in OpenPlaces(list) /\ list[k].flow = id /\ k \in 1 .. Len(list) /\ e.nr = list[k].nr
  BY OpenIndexHolds DEF OpenPlaces
<1>2. /\ new \in Seq(Entry) /\ Len(new) = Len(list) /\ new[k] = e
      /\ \A a \in 1 .. Len(list) : a # k => new[a] = list[a]
  BY <1>1 DEF FillIn
<1> HIDE DEF new, k
<1>3. OpenPlaces(new) = OpenPlaces(list) \ {k}
  BY <1>1, <1>2 DEF OpenPlaces
<1>4. \A a \in OpenPlaces(list) \ {k} : new[a] = list[a]
  BY <1>2 DEF OpenPlaces
<1>5. OneOpenEach(new)
  BY <1>3, <1>4 DEF OneOpenEach
<1>6. OpenFlows(new) = OpenFlows(list) \ {id}
  <2>1. OpenFlows(new) = {list[a].flow : a \in OpenPlaces(list) \ {k}}
    BY <1>3, <1>4 DEF OpenFlows
  <2>2. \A a \in OpenPlaces(list) : list[a].flow = id => a = k
    BY <1>1 DEF OneOpenEach
  <2> QED
    BY <1>1, <2>1, <2>2 DEF OpenFlows
<1>7. DonePlaces(new) = DonePlaces(list) \cup {k} /\ k \notin DonePlaces(list)
  BY <1>1, <1>2 DEF DonePlaces, OpenPlaces
<1>8. Cardinality(DonePlaces(new)) = Cardinality(DonePlaces(list)) + 1
  <2>1. {} \in SUBSET (1 .. Len(list))
    OBVIOUS
  <2>2. IsFiniteSet(DonePlaces(list))
    BY <2>1, PlacesFinite
  <2> QED
    BY <1>7, <2>2, FS_AddElement
<1>9. DoneOnes(new) = DoneOnes(list) \cup {e}
  <2>1. \A a \in DonePlaces(list) : new[a] = list[a]
    BY <1>2, <1>7 DEF DonePlaces
  <2> QED
    BY <1>2, <1>7, <2>1 DEF DoneOnes
<1>10. \A a \in 1 .. Len(list) : new[a].nr = list[a].nr
  BY <1>1, <1>2
<1>11. \A sent, n : /\ Down(list) => Down(new)
                    /\ Before(sent, list) => Before(sent, new)
                    /\ Below(list, n) => Below(new, n)
  BY <1>2, <1>10 DEF Down, Before, Below
<1> QED
  BY <1>2, <1>5, <1>6, <1>8, <1>9, <1>11 DEF new

\* Where flushExports stops: behind it everything is done.
LEMMA LastOpenHolds ==
    ASSUME NEW list \in Seq(Entry)
    PROVE  LET k == LastOpen(list)
           IN  /\ k \in 0 .. Len(list)
               /\ \A a \in k + 1 .. Len(list) : list[a].done
               /\ k # 0 => k \in OpenPlaces(list)
<1> DEFINE I == OpenPlaces(list)
           n == Len(list)
           D == {n - a : a \in I}
<1>1. LastOpen(list) = IF I # {} THEN Seqs!Max(I) ELSE 0
  BY DEF LastOpen, Seqs!SelectLastInSeq, OpenPlaces
<1>2. n \in Nat /\ I \in SUBSET (1 .. n) /\ \A a \in 1 .. n : a \notin I => list[a].done
  BY DEF OpenPlaces
<1> HIDE DEF I, n
<1>3. CASE I = {}
  BY <1>1, <1>2, <1>3 DEF n
<1>4. CASE I # {}
  <2>1. D \in SUBSET Nat /\ D # {}
    <3>1. \A a \in I : a \in 1 .. n /\ n - a \in Nat
      BY <1>2
    <3>2. PICK i : i \in I
      BY <1>4
    <3>3. n - i \in D
      BY <3>2
    <3>4. \A d \in D : d \in Nat
      BY <3>1
    <3> QED
      BY <3>3, <3>4
  <2>2. PICK d \in D : \A x \in D : d <= x
    BY <2>1, LeastNatural
  <2>3. PICK k \in I : d = n - k
    BY <2>2
  <2>4. \A a \in I : k >= a
    <3> TAKE a \in I
    <3>1. n - k <= n - a
      BY <2>2, <2>3
    <3> QED
      BY <1>2, <3>1
  <2>5. Seqs!Max(I) \in I /\ \A a \in I : Seqs!Max(I) >= a
    BY <2>4 DEF Seqs!Max
  <2> DEFINE l == LastOpen(list)
  <2>6. l \in I /\ \A a \in I : l >= a
    BY <1>1, <1>4, <2>5
  <2> HIDE DEF l
  <2>7. \A a \in l + 1 .. n : a \in 1 .. n /\ a \notin I
    BY <1>2, <2>6
  <2> QED
    BY <1>2, <2>6, <2>7 DEF l, n, I
<1> QED
  BY <1>3, <1>4

\* The back of a list.
LEMMA SuffixPart ==
    ASSUME NEW list \in Seq(Entry), NEW k \in 0 .. Len(list)
    PROVE  LET new == SubSeq(list, k + 1, Len(list))
           IN  /\ new \in Seq(Entry) /\ Len(new) = Len(list) - k
               /\ \E m : Part(list, new, k + 1 .. Len(list), m)
<1> DEFINE new == SubSeq(list, k + 1, Len(list))
           m == [a \in 1 .. Len(list) - k |-> a + k]
<1>1. /\ new \in Seq(Entry) /\ Len(new) = Len(list) - k
      /\ \A a \in 1 .. Len(list) - k : new[a] = list[a + k]
  OBVIOUS
<1>2. Len(list) \in Nat /\ k \in Nat
  OBVIOUS
<1> HIDE DEF new
<1>3. \A p \in k + 1 .. Len(list) : p - k \in 1 .. Len(list) - k /\ m[p - k] = p
  BY <1>2
<1>4. \A a \in 1 .. Len(list) - k : m[a] = a + k /\ m[a] \in k + 1 .. Len(list)
  BY <1>2
<1>5. m \in [1 .. Len(new) -> k + 1 .. Len(list)]
  BY <1>1, <1>4
<1> HIDE DEF m
<1>6. \A a, b \in 1 .. Len(new) : a < b => m[a] < m[b]
  BY <1>1, <1>2, <1>4
<1>7. Part(list, new, k + 1 .. Len(list), m)
  BY <1>1, <1>3, <1>4, <1>5, <1>6 DEF Part
<1> QED
  BY <1>1, <1>7 DEF new

\* A list the other way round.
LEMMA ReverseHolds ==
    ASSUME NEW s \in Seq(Entry)
    PROVE  LET new == Seqs!Reverse(s)
           IN  /\ new \in Seq(Entry) /\ Len(new) = Len(s)
               /\ Elements(new) = Elements(s)
               /\ Down(s) => Up(new)
<1> DEFINE new == Seqs!Reverse(s)
           n == Len(s)
           turn(a) == (n - a) + 1
<1>1. new = [a \in 1 .. n |-> s[turn(a)]]
  BY DEF Seqs!Reverse
<1>2. n \in Nat
  OBVIOUS
<1>3. \A a \in 1 .. n : turn(a) \in 1 .. n /\ turn(turn(a)) = a
  BY <1>2
<1> HIDE DEF turn, n
<1>4. \A a \in 1 .. n : s[turn(a)] \in Entry
  BY <1>3 DEF n
<1>5. new \in Seq(Entry) /\ Len(new) = n /\ \A a \in 1 .. n : new[a] = s[turn(a)]
  BY <1>1, <1>2, <1>4
<1> HIDE DEF new
<1>6. Elements(new) = Elements(s)
  <2>1. \A a \in 1 .. n : new[a] \in Elements(s)
    BY <1>3, <1>5 DEF Elements, n
  <2>2. \A a \in 1 .. n : s[a] \in Elements(new)
    <3> TAKE a \in 1 .. n
    <3>1. turn(a) \in 1 .. n /\ new[turn(a)] = s[a]
      BY <1>3, <1>5
    <3> QED
      BY <1>5, <3>1 DEF Elements
  <2> QED
    BY <1>5, <2>1, <2>2 DEF Elements, n
<1>7. ASSUME Down(s) PROVE Up(new)
  <2> SUFFICES ASSUME NEW a \in 1 .. n, NEW b \in 1 .. n, a < b PROVE new[a].nr < new[b].nr
    BY <1>5 DEF Up
  <2>1. turn(b) < turn(a) /\ turn(a) \in 1 .. n /\ turn(b) \in 1 .. n
    BY <1>2, <1>3 DEF turn
  <2>2. s[turn(b)].nr > s[turn(a)].nr /\ s[turn(b)].nr \in Nat /\ s[turn(a)].nr \in Nat
    BY <1>4, <1>7, <2>1, EntryFields DEF Down, n
  <2> QED
    BY <1>5, <2>2
<1> QED
  BY <1>5, <1>6, <1>7 DEF new, n

\* The places P of a list are kept and the places Q, which are done, leave.
Divided(list, kept, gone, P, Q, m, o) ==
    /\ P \in SUBSET (1 .. Len(list)) /\ Q \in SUBSET (1 .. Len(list))
    /\ P \cup Q = 1 .. Len(list) /\ P \cap Q = {} /\ Q \subseteq DonePlaces(list)
    /\ Part(list, kept, P, m) /\ Part(list, gone, Q, o)

\* What is done is counted where it is kept and where it leaves.
LEMMA SplitDone ==
    ASSUME NEW list \in Seq(Entry), NEW kept \in Seq(Entry), NEW gone \in Seq(Entry),
           NEW P, NEW Q, NEW m, NEW o, Divided(list, kept, gone, P, Q, m, o)
    PROVE  /\ Cardinality(DonePlaces(list)) = Len(gone) + Cardinality(DonePlaces(kept))
           /\ DoneOnes(list) = DoneOnes(kept) \cup Elements(gone)
<1> DEFINE D == DonePlaces(list)
<1>0. /\ P \in SUBSET (1 .. Len(list)) /\ Q \in SUBSET (1 .. Len(list))
      /\ P \cup Q = 1 .. Len(list) /\ P \cap Q = {} /\ Q \subseteq DonePlaces(list)
      /\ Part(list, kept, P, m) /\ Part(list, gone, Q, o)
  BY DEF Divided
<1>1. D \in SUBSET (1 .. Len(list)) /\ D = (D \cap P) \cup Q /\ (D \cap P) \cap Q = {}
  BY <1>0 DEF DonePlaces
<1>2. IsFiniteSet(D \cap P) /\ IsFiniteSet(Q) /\ D \cap P \in SUBSET (1 .. Len(list))
  BY <1>0, <1>1, PlacesFinite
<1>3. /\ Cardinality(DonePlaces(kept)) = Cardinality(D \cap P)
      /\ DoneOnes(kept) = {list[p] : p \in D \cap P}
  BY <1>0, PartDone
<1>4. /\ Cardinality(DonePlaces(gone)) = Cardinality(D \cap Q)
      /\ DoneOnes(gone) = {list[p] : p \in D \cap Q}
  BY <1>0, PartDone
<1>5. DonePlaces(gone) = 1 .. Len(gone) /\ DoneOnes(gone) = Elements(gone)
  <2>1. \A a \in 1 .. Len(gone) : gone[a].done
    <3>1. \A a \in 1 .. Len(gone) : o[a] \in Q
      BY <1>0, PartOneToOne
    <3>2. \A a \in 1 .. Len(gone) : gone[a] = list[o[a]]
      BY <1>0 DEF Part
    <3> QED
      BY <1>0, <3>1, <3>2 DEF DonePlaces
  <2>2. DonePlaces(gone) = 1 .. Len(gone)
    BY <2>1 DEF DonePlaces
  <2> QED
    BY <2>2 DEF DoneOnes, Elements
<1>6. Len(gone) \in Nat /\ Cardinality(1 .. Len(gone)) = Len(gone)
  <2> DEFINE n == Len(gone)
             c == Cardinality(1 .. n)
  <2>1. n \in Nat
    OBVIOUS
  <2> HIDE DEF n
  <2>2. c = IF 1 > n THEN 0 ELSE n - 1 + 1
    BY <2>1, FS_Interval
  <2> HIDE DEF c
  <2>3. c = n
    BY <2>1, <2>2
  <2> QED
    BY <2>1, <2>3 DEF c, n
<1>7. D \cap Q = Q /\ Cardinality(Q) = Len(gone)
  BY <1>0, <1>4, <1>5, <1>6
<1> HIDE DEF D
<1>8. /\ Cardinality(D) = Cardinality(D \cap P) + Cardinality(Q) - Cardinality((D \cap P) \cap Q)
      /\ Cardinality(D \cap P) \in Nat
  <2>1. Cardinality((D \cap P) \cup Q)
            = Cardinality(D \cap P) + Cardinality(Q) - Cardinality((D \cap P) \cap Q)
    BY <1>2, FS_Union
  <2> QED
    BY <1>1, <1>2, <2>1, FS_CardinalityType
<1>9. Cardinality((D \cap P) \cap Q) = 0
  BY <1>1, FS_EmptySet
<1>10. Cardinality(D) = Len(gone) + Cardinality(DonePlaces(kept))
  BY <1>3, <1>6, <1>7, <1>8, <1>9
<1>11. {list[p] : p \in D} = {list[p] : p \in D \cap P} \cup {list[p] : p \in Q}
  BY <1>1
<1> QED
  BY <1>3, <1>4, <1>5, <1>7, <1>10, <1>11 DEF DoneOnes, D

\* A list is split into what is kept and what leaves: nothing is lost, and what leaves
\* comes out from the back to the front.
Splits(list, kept, out) ==
    /\ kept \in Seq(Entry) /\ out \in Seq(Entry)
    /\ OneOpenEach(kept) /\ OpenFlows(kept) = OpenFlows(list)
    /\ Cardinality(DonePlaces(list)) = Len(out) + Cardinality(DonePlaces(kept))
    /\ DoneOnes(list) = DoneOnes(kept) \cup Elements(out)
    /\ Down(list) => Down(kept) /\ Up(out)
    /\ \A sent : Before(sent, list) => Before(sent, kept) /\ Before(sent, out)
    /\ \A n : Below(list, n) => Below(kept, n) /\ Below(out, n)

\* A list is split when the places that leave are done.
LEMMA SplitHolds ==
    ASSUME NEW list \in Seq(Entry), NEW kept \in Seq(Entry), NEW gone \in Seq(Entry),
           NEW P, NEW Q, NEW m, NEW o, Divided(list, kept, gone, P, Q, m, o),
           OneOpenEach(list)
    PROVE  Splits(list, kept, Seqs!Reverse(gone))
<1> DEFINE out == Seqs!Reverse(gone)
<1>0. /\ P \in SUBSET (1 .. Len(list)) /\ Q \in SUBSET (1 .. Len(list))
      /\ P \cup Q = 1 .. Len(list) /\ P \cap Q = {} /\ Q \subseteq DonePlaces(list)
      /\ Part(list, kept, P, m) /\ Part(list, gone, Q, o)
  BY DEF Divided
<1>1. /\ out \in Seq(Entry) /\ Len(out) = Len(gone) /\ Elements(out) = Elements(gone)
      /\ Down(gone) => Up(out)
  BY ReverseHolds
<1> HIDE DEF out
<1>2. /\ Cardinality(DonePlaces(list)) = Len(gone) + Cardinality(DonePlaces(kept))
      /\ DoneOnes(list) = DoneOnes(kept) \cup Elements(gone)
  BY SplitDone
<1>3. OneOpenEach(kept) /\ OpenFlows(kept) = {list[p].flow : p \in OpenPlaces(list) \cap P}
  BY <1>0, PartOpen
<1>4. OpenPlaces(list) \cap P = OpenPlaces(list)
  BY <1>0 DEF OpenPlaces, DonePlaces
<1>5. \A sent, n : /\ Down(list) => Down(kept) /\ Down(gone)
                   /\ Before(sent, list) => Before(sent, kept) /\ Before(sent, gone)
                   /\ Below(list, n) => Below(kept, n) /\ Below(gone, n)
  <2> TAKE sent, n
  <2>1. /\ Down(list) => Down(kept)
        /\ Before(sent, list) => Before(sent, kept)
        /\ Below(list, n) => Below(kept, n)
    BY <1>0, PartOrder
  <2>2. /\ Down(list) => Down(gone)
        /\ Before(sent, list) => Before(sent, gone)
        /\ Below(list, n) => Below(gone, n)
    BY <1>0, PartOrder
  <2> QED
    BY <2>1, <2>2
<1>6. \A a \in 1 .. Len(out) : \E b \in 1 .. Len(gone) : out[a] = gone[b]
  BY <1>1 DEF Elements
<1>7. \A sent, n : /\ Before(sent, gone) => Before(sent, out)
                   /\ Below(gone, n) => Below(out, n)
  BY <1>6 DEF Before, Below
<1> QED
  BY <1>1, <1>2, <1>3, <1>4, <1>5, <1>7 DEF Splits, OpenFlows, out

\* flushExports: what is done at the back leaves, and comes before what is kept.
LEMMA FlushHolds ==
    ASSUME NEW list \in Seq(Entry), OneOpenEach(list)
    PROVE  LET kept == KeptByFlush(list)
           IN  /\ Splits(list, kept, Flushed(list))
               /\ Down(list) => Before(Flushed(list), kept)
               /\ kept # <<>> => ~kept[Len(kept)].done
               /\ list = <<>> => kept = <<>>
<1> DEFINE k == LastOpen(list)
           n == Len(list)
           kept == SubSeq(list, 1, k)
           gone == SubSeq(list, k + 1, n)
           out == Seqs!Reverse(gone)
           P == 1 .. k
           Q == k + 1 .. n
<1>1. /\ k \in 0 .. n
      /\ \A a \in k + 1 .. n : list[a].done
      /\ k # 0 => k \in OpenPlaces(list)
  BY LastOpenHolds
<1>2. n \in Nat
  OBVIOUS
<1> HIDE DEF k
<1>3. kept \in Seq(Entry) /\ Len(kept) = k /\ \E m : Part(list, kept, P, m)
  BY <1>1, PrefixPart
<1>4. gone \in Seq(Entry) /\ Len(gone) = n - k /\ \E o : Part(list, gone, Q, o)
  BY <1>1, SuffixPart
<1>5. kept # <<>> => ~kept[Len(kept)].done
  <2>1. k # 0 => kept[k] = list[k]
    BY <1>1
  <2>2. k = 0 => kept = <<>>
    OBVIOUS
  <2> QED
    BY <1>1, <1>3, <2>1, <2>2 DEF OpenPlaces
<1>6. P \in SUBSET (1 .. n) /\ Q \in SUBSET (1 .. n) /\ P \cup Q = 1 .. n /\ P \cap Q = {}
  BY <1>1, <1>2
<1>7. Q \subseteq DonePlaces(list)
  BY <1>1, <1>6 DEF DonePlaces
<1>8. PICK m : Part(list, kept, P, m)
  BY <1>3
<1>9. PICK o : Part(list, gone, Q, o)
  BY <1>4
<1> HIDE DEF kept, gone
<1>10. Splits(list, kept, out)
  <2> HIDE DEF P, Q
  <2> QED
    <3>1. Divided(list, kept, gone, P, Q, m, o)
      BY <1>6, <1>7, <1>8, <1>9 DEF Divided
    <3> QED
      BY <1>3, <1>4, <3>1, SplitHolds
<1>11. ASSUME Down(list) PROVE Before(out, kept)
  <2>1. /\ \A a \in 1 .. Len(kept) : m[a] \in 1 .. k /\ kept[a] = list[m[a]]
        /\ \A b \in 1 .. Len(gone) : o[b] \in k + 1 .. n /\ gone[b] = list[o[b]]
    BY <1>8, <1>9 DEF Part
  <2>2. \A a \in 1 .. Len(kept), b \in 1 .. Len(gone) : gone[b].nr < kept[a].nr
    <3> TAKE a \in 1 .. Len(kept), b \in 1 .. Len(gone)
    <3>1. m[a] < o[b] /\ m[a] \in 1 .. n /\ o[b] \in 1 .. n
      BY <1>1, <1>2, <2>1
    <3>2. list[m[a]].nr > list[o[b]].nr /\ list[m[a]].nr \in Nat /\ list[o[b]].nr \in Nat
      <4>1. list[m[a]] \in Entry /\ list[o[b]] \in Entry
        BY <3>1
      <4> QED
        BY <1>11, <3>1, <4>1, EntryFields DEF Down
    <3> QED
      BY <2>1, <3>2
  <2>3. Elements(out) = Elements(gone)
    BY <1>4, ReverseHolds
  <2>4. \A a \in 1 .. Len(out) : \E b \in 1 .. Len(gone) : out[a] = gone[b]
    BY <2>3 DEF Elements
  <2> HIDE DEF out
  <2> QED
    BY <2>2, <2>4 DEF Before
<1>12. list = <<>> => kept = <<>>
  BY <1>1, <1>3
<1> QED
  BY <1>5, <1>10, <1>11, <1>12 DEF KeptByFlush, Flushed, kept, gone, k

\* flushAllExports: everything that is done leaves.
LEMMA FlushAllHolds ==
    ASSUME NEW list \in Seq(Entry), OneOpenEach(list)
    PROVE  /\ Splits(list, KeptByFlushAll(list), FlushedAll(list))
           /\ OpenFlows(list) = {} => KeptByFlushAll(list) = <<>>
           /\ list = <<>> => KeptByFlushAll(list) = <<>>
<1> DEFINE n == Len(list)
           K == {e \in Elements(list) : ~e.done}
           L == {e \in Elements(list) : e.done}
           kept == Only(list, K)
           gone == Only(list, L)
           P == {p \in 1 .. n : list[p] \in K}
           Q == {p \in 1 .. n : list[p] \in L}
<1>1. kept \in Seq(Entry) /\ \E m : Part(list, kept, P, m)
  <2> HIDE DEF K
  <2> QED
    BY OnlyPart
<1>2. gone \in Seq(Entry) /\ \E o : Part(list, gone, Q, o)
  <2> HIDE DEF L
  <2> QED
    BY OnlyPart
<1>3. P = OpenPlaces(list) /\ Q = DonePlaces(list)
  BY DEF Elements, OpenPlaces, DonePlaces
<1>4. P \in SUBSET (1 .. n) /\ Q \in SUBSET (1 .. n) /\ P \cup Q = 1 .. n /\ P \cap Q = {}
  BY <1>3 DEF OpenPlaces, DonePlaces
<1>5. PICK m : Part(list, kept, P, m)
  BY <1>1
<1>6. PICK o : Part(list, gone, Q, o)
  BY <1>2
<1> HIDE DEF kept, gone, P, Q
<1>7. Splits(list, kept, Seqs!Reverse(gone))
  <2>1. Divided(list, kept, gone, P, Q, m, o)
    BY <1>3, <1>4, <1>5, <1>6 DEF Divided
  <2> QED
    BY <1>1, <1>2, <2>1, SplitHolds
<1>8. P = {} => kept = <<>>
  <2>1. \A a \in 1 .. Len(kept) : m[a] \in P
    BY <1>5 DEF Part
  <2>2. P = {} => Len(kept) = 0
    BY <1>1, <2>1
  <2> QED
    BY <1>1, <2>2
<1>9. OpenFlows(list) = {} => P = {}
  BY <1>3 DEF OpenFlows
<1>10. list = <<>> => P = {}
  BY <1>4
<1> QED
  BY <1>7, <1>8, <1>9, <1>10 DEF KeptByFlushAll, FlushedAll, kept, gone

--------------------------------------------------------------------------------
(* 2. A line: the list of a record, what was sent on from it, and what was   *)
(* issued.                                                                   *)

InTime(list, sent, n) ==
    Down(list) /\ Up(sent) /\ Before(sent, list) /\ Below(list, n) /\ Below(sent, n)

\* The invariant of a line; packets numbered n and above are still to come.
LineOK(list, sent, issued, n) ==
    /\ list \in Seq(Entry) /\ sent \in Seq(Entry) /\ issued \in Seq(Entry)
    /\ OneOpenEach(list)
    /\ Conserved(list, sent, issued)
    /\ options.sort = "none" => list = <<>>
    /\ options.sort \in {"start", "stop"} => InTime(list, sent, n)

\* One element more at the end.
LEMMA AppendHolds ==
    ASSUME NEW s \in Seq(Entry), NEW e \in Entry
    PROVE  /\ Append(s, e) \in Seq(Entry) /\ Len(Append(s, e)) = Len(s) + 1
           /\ Elements(Append(s, e)) = Elements(s) \cup {e}
<1> DEFINE t == Append(s, e)
<1>1. /\ t \in Seq(Entry) /\ Len(t) = Len(s) + 1 /\ t[Len(s) + 1] = e /\ Len(s) \in Nat
      /\ \A a \in 1 .. Len(s) : t[a] = s[a]
  OBVIOUS
<1> HIDE DEF t
<1>2. 1 .. Len(t) = (1 .. Len(s)) \cup {Len(s) + 1}
  BY <1>1
<1>3. \A a \in 1 .. Len(t) : t[a] \in Elements(s) \cup {e}
  BY <1>1, <1>2 DEF Elements
<1>4. \A x \in Elements(s) \cup {e} : \E a \in 1 .. Len(t) : x = t[a]
  BY <1>1, <1>2 DEF Elements
<1>5. Elements(t) = Elements(s) \cup {e}
  BY <1>3, <1>4 DEF Elements
<1> QED
  BY <1>1, <1>5 DEF t

\* One list behind another.
LEMMA ConcatHolds ==
    ASSUME NEW s \in Seq(Entry), NEW t \in Seq(Entry)
    PROVE  /\ s \o t \in Seq(Entry) /\ Len(s \o t) = Len(s) + Len(t)
           /\ Elements(s \o t) = Elements(s) \cup Elements(t)
           /\ \A a \in 1 .. Len(s) : (s \o t)[a] = s[a]
           /\ \A a \in Len(s) + 1 .. Len(s) + Len(t) :
                (s \o t)[a] = t[a - Len(s)] /\ a - Len(s) \in 1 .. Len(t)
<1> DEFINE u == s \o t
<1>1. /\ u \in Seq(Entry) /\ Len(u) = Len(s) + Len(t)
      /\ \A a \in 1 .. Len(s) + Len(t) : u[a] = IF a <= Len(s) THEN s[a] ELSE t[a - Len(s)]
  BY ConcatProperties
<1>2. Len(s) \in Nat /\ Len(t) \in Nat
  OBVIOUS
<1> HIDE DEF u
<1>3. /\ \A a \in 1 .. Len(s) : u[a] = s[a] /\ a \in 1 .. Len(u)
      /\ \A a \in Len(s) + 1 .. Len(u) : u[a] = t[a - Len(s)] /\ a - Len(s) \in 1 .. Len(t)
  BY <1>1, <1>2
<1>4. \A a \in 1 .. Len(u) : a \in 1 .. Len(s) \/ a \in Len(s) + 1 .. Len(u)
  BY <1>1, <1>2
<1>5. \A b \in 1 .. Len(t) : b + Len(s) \in 1 .. Len(u) /\ u[b + Len(s)] = t[b]
  <2> TAKE b \in 1 .. Len(t)
  <2> DEFINE a == b + Len(s)
  <2>1. a \in Len(s) + 1 .. Len(u) /\ a \in 1 .. Len(u) /\ a - Len(s) = b
    BY <1>1, <1>2
  <2> HIDE DEF a
  <2>2. u[a] = t[b]
    BY <1>3, <2>1
  <2> QED
    BY <2>1, <2>2 DEF a
<1>6. Elements(u) = Elements(s) \cup Elements(t)
  <2>1. \A a \in 1 .. Len(u) : u[a] \in Elements(s) \cup Elements(t)
    BY <1>3, <1>4 DEF Elements
  <2>2. \A x \in Elements(s) \cup Elements(t) : \E a \in 1 .. Len(u) : x = u[a]
    BY <1>3, <1>5 DEF Elements
  <2> QED
    BY <2>1, <2>2 DEF Elements
<1> QED
  BY <1>1, <1>3, <1>6 DEF u

\* Later packets have larger numbers.
LEMMA LineLater ==
    ASSUME NEW list, NEW sent, NEW issued, NEW n \in Nat, NEW k \in Nat, n <= k,
           LineOK(list, sent, issued, n)
    PROVE  LineOK(list, sent, issued, k)
<1>1. ASSUME NEW s \in Seq(Entry), Below(s, n) PROVE Below(s, k)
  <2>1. \A a \in 1 .. Len(s) : s[a].nr \in Nat
    BY EntryFields
  <2> QED
    BY <1>1, <2>1 DEF Below
<1> QED
  BY <1>1 DEF LineOK, InTime

\* An unlinked export record was not done.
LEMMA LineUnlink ==
    ASSUME NEW list, NEW sent, NEW issued, NEW n, NEW id, LineOK(list, sent, issued, n)
    PROVE  /\ LineOK(Unlink(list, id), sent, issued, n)
           /\ OpenFlows(Unlink(list, id)) = OpenFlows(list) \ {id}
<1> DEFINE new == Unlink(list, id)
<1>0. list \in Seq(Entry) /\ OneOpenEach(list)
  BY DEF LineOK
<1>1. /\ new \in Seq(Entry) /\ OneOpenEach(new)
      /\ OpenFlows(new) = OpenFlows(list) \ {id}
      /\ Cardinality(DonePlaces(new)) = Cardinality(DonePlaces(list))
      /\ DoneOnes(new) = DoneOnes(list)
      /\ Down(list) => Down(new)
      /\ Before(sent, list) => Before(sent, new)
      /\ Below(list, n) => Below(new, n)
  BY <1>0, UnlinkHolds
<1>2. list = <<>> => new = <<>>
  BY DEF Unlink, HasOpen
<1> HIDE DEF new
<1> QED
  BY <1>1, <1>2 DEF LineOK, Conserved, InTime, new

\* A new export record for a flow that has none in the list, for the packet that came.
LEMMA LineInsert ==
    ASSUME NEW list, NEW sent, NEW issued, NEW n \in Nat, NEW k \in Nat, n < k,
           NEW e \in Entry, ~e.done, e.nr = n, e.flow \notin OpenFlows(list),
           LineOK(list, sent, issued, n), options.sort # "none"
    PROVE  /\ LineOK(Insert(list, e), sent, issued, k)
           /\ OpenFlows(Insert(list, e)) = OpenFlows(list) \cup {e.flow}
<1> DEFINE new == Insert(list, e)
<1>1. list \in Seq(Entry) /\ sent \in Seq(Entry) /\ OneOpenEach(list)
  BY DEF LineOK
<1>2. /\ new \in Seq(Entry)
      /\ Cardinality(DonePlaces(new)) = Cardinality(DonePlaces(list))
      /\ DoneOnes(new) = DoneOnes(list)
      /\ OpenFlows(new) = OpenFlows(list) \cup {e.flow}
  BY <1>1, InsertCounts
<1>3. /\ Len(new) = Len(list) + 1 /\ new[1] = e /\ Len(list) \in Nat
      /\ \A a \in 2 .. Len(new) : a - 1 \in 1 .. Len(list) /\ new[a] = list[a - 1]
  BY <1>1 DEF Insert
<1> HIDE DEF new
<1>4. OneOpenEach(new)
  <2> SUFFICES ASSUME NEW a \in OpenPlaces(new), NEW b \in OpenPlaces(new),
                      new[a].flow = new[b].flow
               PROVE  a = b
    BY DEF OneOpenEach
  <2>1. \A c \in OpenPlaces(new) : c # 1 => c - 1 \in OpenPlaces(list) /\ new[c] = list[c - 1]
    <3> SUFFICES ASSUME NEW c \in OpenPlaces(new), c # 1
                 PROVE  c - 1 \in OpenPlaces(list) /\ new[c] = list[c - 1]
      OBVIOUS
    <3>1. c \in 2 .. Len(new) /\ ~new[c].done
      BY <1>3 DEF OpenPlaces
    <3>2. c - 1 \in 1 .. Len(list) /\ new[c] = list[c - 1]
      BY <1>3, <3>1
    <3> QED
      BY <3>1, <3>2 DEF OpenPlaces
  <2>2. \A c \in OpenPlaces(new) : c \in Nat
    BY DEF OpenPlaces
  <2>3. \A c \in OpenPlaces(new) : c # 1 => new[c].flow # e.flow
    BY <2>1 DEF OpenFlows
  <2>4. CASE a = 1 \/ b = 1
    BY <1>3, <2>3, <2>4
  <2>5. CASE a # 1 /\ b # 1
    <3>1. a - 1 = b - 1
      BY <1>1, <2>1, <2>5 DEF OneOpenEach
    <3> QED
      BY <2>2, <3>1
  <2> QED
    BY <2>4, <2>5
<1>5. ASSUME InTime(list, sent, n) PROVE InTime(new, sent, k)
  <2>1. /\ \A a \in 1 .. Len(list) : list[a].nr < n /\ list[a].nr \in Nat
        /\ \A a \in 1 .. Len(sent) : sent[a].nr < n /\ sent[a].nr \in Nat
    BY <1>1, <1>5, EntryFields DEF InTime, Below
  <2>2. Down(new)
    <3> SUFFICES ASSUME NEW a \in 1 .. Len(new), NEW b \in 1 .. Len(new), a < b
                 PROVE  new[a].nr > new[b].nr
      BY DEF Down
    <3>1. b \in 2 .. Len(new)
      BY <1>3
    <3>2. CASE a = 1
      BY <1>3, <2>1, <3>1, <3>2
    <3>3. CASE a # 1
      <4>1. a \in 2 .. Len(new) /\ a - 1 < b - 1
        BY <1>3, <3>3
      <4> QED
        BY <1>3, <1>5, <3>1, <4>1 DEF InTime, Down
    <3> QED
      BY <3>2, <3>3
  <2>3. \A a \in 1 .. Len(new) : a = 1 \/ a \in 2 .. Len(new)
    BY <1>3
  <2>4. Before(sent, new)
    <3>1. \A c \in 1 .. Len(sent), a \in 2 .. Len(new) : sent[c].nr < new[a].nr
      BY <1>3, <1>5 DEF InTime, Before
    <3> QED
      BY <1>3, <2>1, <2>3, <3>1 DEF Before
  <2>5. Below(new, k)
    <3>1. \A a \in 2 .. Len(new) : new[a].nr < k
      BY <1>3, <2>1
    <3> QED
      BY <1>3, <2>3, <3>1 DEF Below
  <2>6. Below(sent, k)
    BY <2>1 DEF Below
  <2> QED
    BY <1>5, <2>2, <2>4, <2>5, <2>6 DEF InTime
<1> QED
  BY <1>2, <1>4, <1>5 DEF LineOK, Conserved, new

\* The unfinished export record of a flow is filled in, and keeps its number.
LEMMA LineFillIn ==
    ASSUME NEW list, NEW sent, NEW issued, NEW n, NEW id, LineOK(list, sent, issued, n),
           HasOpen(list, id), NEW e \in Entry, e.done, e.nr = list[OpenIndex(list, id)].nr
    PROVE  /\ LineOK(FillIn(list, id, e), sent, Append(issued, e), n)
           /\ OpenFlows(FillIn(list, id, e)) = OpenFlows(list) \ {id}
<1> DEFINE new == FillIn(list, id, e)
           more == Append(issued, e)
<1>0. /\ list \in Seq(Entry) /\ OneOpenEach(list) /\ issued \in Seq(Entry)
      /\ sent \in Seq(Entry)
  BY DEF LineOK
<1>1. /\ new \in Seq(Entry) /\ OneOpenEach(new)
      /\ OpenFlows(new) = OpenFlows(list) \ {id}
      /\ Cardinality(DonePlaces(new)) = Cardinality(DonePlaces(list)) + 1
      /\ DoneOnes(new) = DoneOnes(list) \cup {e}
      /\ Down(list) => Down(new)
      /\ Before(sent, list) => Before(sent, new)
      /\ Below(list, n) => Below(new, n)
  BY <1>0, FillInHolds
<1>2. /\ more \in Seq(Entry) /\ Len(more) = Len(issued) + 1
      /\ Elements(more) = Elements(issued) \cup {e}
  BY <1>0, AppendHolds
<1>3. list # <<>>
  BY <1>0 DEF HasOpen
<1>4. Cardinality(DonePlaces(list)) \in Nat /\ Len(sent) \in Nat
  <2>1. DonePlaces(list) \in SUBSET (1 .. Len(list))
    BY DEF DonePlaces
  <2> QED
    BY <1>0, <2>1, PlacesFinite
<1> HIDE DEF new, more
<1>5. Conserved(new, sent, more)
  BY <1>1, <1>2, <1>4 DEF LineOK, Conserved
<1> QED
  BY <1>1, <1>2, <1>3, <1>5 DEF LineOK, InTime, new, more

\* With expiry sorting, the export record that was filled in moves to the front.
LEMMA LineToFront ==
    ASSUME NEW list, NEW sent, NEW issued, NEW n, NEW id, LineOK(list, sent, issued, n),
           options.sort = "expiry", NEW e \in Entry, e.done
    PROVE  LET new == Insert(Unlink(list, id), e)
           IN  /\ LineOK(new, sent, Append(issued, e), n)
               /\ OpenFlows(new) = OpenFlows(list) \ {id}
<1> DEFINE mid == Unlink(list, id)
<1>1. LineOK(mid, sent, issued, n) /\ OpenFlows(mid) = OpenFlows(list) \ {id}
  <2>1. LineOK(mid, sent, issued, n)
    BY LineUnlink
  <2>2. OpenFlows(mid) = OpenFlows(list) \ {id}
    BY UnlinkHolds DEF LineOK
  <2> QED
    BY <2>1, <2>2
<1> DEFINE new == Insert(mid, e)
           more == Append(issued, e)
<1> HIDE DEF mid
<1>2. /\ mid \in Seq(Entry) /\ issued \in Seq(Entry) /\ sent \in Seq(Entry)
      /\ OneOpenEach(mid)
  BY <1>1 DEF LineOK
<1>3. /\ new \in Seq(Entry)
      /\ Cardinality(DonePlaces(new)) = Cardinality(DonePlaces(mid)) + 1
      /\ DoneOnes(new) = DoneOnes(mid) \cup {e}
      /\ OpenFlows(new) = OpenFlows(mid)
  BY <1>2, InsertCounts
<1>4. /\ Len(new) = Len(mid) + 1 /\ new[1] = e /\ Len(mid) \in Nat
      /\ \A a \in 2 .. Len(new) : a - 1 \in 1 .. Len(mid) /\ new[a] = mid[a - 1]
  BY <1>2 DEF Insert
<1>5. /\ more \in Seq(Entry) /\ Len(more) = Len(issued) + 1
      /\ Elements(more) = Elements(issued) \cup {e}
  BY <1>2, AppendHolds
<1> HIDE DEF new, more
<1>6. OneOpenEach(new)
  <2> SUFFICES ASSUME NEW a \in OpenPlaces(new), NEW b \in OpenPlaces(new),
                      new[a].flow = new[b].flow
               PROVE  a = b
    BY DEF OneOpenEach
  <2>1. \A c \in OpenPlaces(new) :
          c \in Nat /\ c - 1 \in OpenPlaces(mid) /\ new[c] = mid[c - 1]
    BY <1>4 DEF OpenPlaces
  <2>2. a - 1 = b - 1
    BY <1>2, <2>1 DEF OneOpenEach
  <2> QED
    BY <2>1, <2>2
<1>7. Cardinality(DonePlaces(mid)) \in Nat /\ Len(sent) \in Nat
  <2>1. DonePlaces(mid) \in SUBSET (1 .. Len(mid))
    BY DEF DonePlaces
  <2> QED
    BY <1>2, <2>1, PlacesFinite
<1>8. Conserved(new, sent, more)
  BY <1>1, <1>3, <1>5, <1>7 DEF LineOK, Conserved
<1> QED
  BY <1>1, <1>2, <1>3, <1>5, <1>6, <1>8 DEF LineOK, new, more, mid

\* Without sorting, an export is sent at once.
LEMMA LineSend ==
    ASSUME NEW list, NEW sent, NEW issued, NEW n, LineOK(list, sent, issued, n),
           options.sort = "none", NEW e \in Entry
    PROVE  LineOK(list, Append(sent, e), Append(issued, e), n)
<1>1. list = <<>> /\ sent \in Seq(Entry) /\ issued \in Seq(Entry) /\ OneOpenEach(list)
  BY DEF LineOK
<1>2. /\ Append(sent, e) \in Seq(Entry) /\ Len(Append(sent, e)) = Len(sent) + 1
      /\ Elements(Append(sent, e)) = Elements(sent) \cup {e}
  BY <1>1, AppendHolds
<1>3. /\ Append(issued, e) \in Seq(Entry) /\ Len(Append(issued, e)) = Len(issued) + 1
      /\ Elements(Append(issued, e)) = Elements(issued) \cup {e}
  BY <1>1, AppendHolds
<1>4. Cardinality(DonePlaces(list)) \in Nat /\ Len(sent) \in Nat /\ list \in Seq(Entry)
  <2>1. DonePlaces(list) \in SUBSET (1 .. Len(list)) /\ list \in Seq(Entry)
    BY DEF DonePlaces, LineOK
  <2> QED
    BY <1>1, <2>1, PlacesFinite
<1>5. Conserved(list, Append(sent, e), Append(issued, e))
  BY <1>2, <1>3, <1>4 DEF LineOK, Conserved
<1> QED
  BY <1>1, <1>2, <1>3, <1>4, <1>5 DEF LineOK

\* What leaves the list is sent on, behind what was sent before.
LEMMA LineSplit ==
    ASSUME NEW list, NEW sent, NEW issued, NEW n, LineOK(list, sent, issued, n),
           NEW kept, NEW out, Splits(list, kept, out), list = <<>> => kept = <<>>,
           options.sort \in {"start", "stop"} => Before(out, kept)
    PROVE  LineOK(kept, sent \o out, issued, n)
<1> DEFINE all == sent \o out
<1>1. /\ list \in Seq(Entry) /\ sent \in Seq(Entry) /\ issued \in Seq(Entry)
      /\ kept \in Seq(Entry) /\ out \in Seq(Entry)
  BY DEF LineOK, Splits
<1>2. /\ all \in Seq(Entry) /\ Len(all) = Len(sent) + Len(out)
      /\ Elements(all) = Elements(sent) \cup Elements(out)
      /\ \A a \in 1 .. Len(sent) : all[a] = sent[a]
      /\ \A a \in Len(sent) + 1 .. Len(sent) + Len(out) :
            all[a] = out[a - Len(sent)] /\ a - Len(sent) \in 1 .. Len(out)
  BY <1>1, ConcatHolds
<1>3. Cardinality(DonePlaces(kept)) \in Nat /\ Len(sent) \in Nat /\ Len(out) \in Nat
  <2>1. DonePlaces(kept) \in SUBSET (1 .. Len(kept))
    BY DEF DonePlaces
  <2> QED
    BY <1>1, <2>1, PlacesFinite
<1> HIDE DEF all
<1>4. Conserved(kept, all, issued)
  BY <1>2, <1>3 DEF LineOK, Conserved, Splits
<1>5. ASSUME InTime(list, sent, n), Before(out, kept) PROVE InTime(kept, all, n)
  <2>1. /\ Down(kept) /\ Up(out) /\ Before(sent, kept) /\ Before(sent, list)
        /\ Below(kept, n) /\ Below(out, n) /\ Up(sent) /\ Below(sent, n)
    BY <1>5 DEF InTime, Splits
  <2>2. Before(sent, out)
    BY <2>1 DEF Splits
  <2>3. \A a \in 1 .. Len(all) : a \in 1 .. Len(sent) \/ a \in Len(sent) + 1 .. Len(sent) + Len(out)
    BY <1>2, <1>3
  <2>4. Up(all)
    <3> SUFFICES ASSUME NEW a \in 1 .. Len(all), NEW b \in 1 .. Len(all), a < b
                 PROVE  all[a].nr < all[b].nr
      BY DEF Up
    <3>1. CASE b \in 1 .. Len(sent)
      <4>1. a \in 1 .. Len(sent)
        BY <1>3, <3>1
      <4> QED
        BY <1>2, <2>1, <3>1, <4>1 DEF Up
    <3>2. CASE b \notin 1 .. Len(sent) /\ a \in 1 .. Len(sent)
      <4>1. b - Len(sent) \in 1 .. Len(out) /\ all[b] = out[b - Len(sent)]
        BY <1>2, <2>3, <3>2
      <4> QED
        BY <1>2, <2>2, <3>2, <4>1 DEF Before
    <3>3. CASE b \notin 1 .. Len(sent) /\ a \notin 1 .. Len(sent)
      <4>1. /\ b - Len(sent) \in 1 .. Len(out) /\ all[b] = out[b - Len(sent)]
            /\ a - Len(sent) \in 1 .. Len(out) /\ all[a] = out[a - Len(sent)]
        BY <1>2, <2>3, <3>3
      <4>2. a - Len(sent) < b - Len(sent)
        BY <1>3
      <4> QED
        BY <2>1, <4>1, <4>2 DEF Up
    <3> QED
      BY <3>1, <3>2, <3>3
  <2>5. \A a \in 1 .. Len(all) :
            \/ \E b \in 1 .. Len(sent) : all[a] = sent[b]
            \/ \E b \in 1 .. Len(out) : all[a] = out[b]
    BY <1>2, <2>3
  <2>6. Before(all, kept) /\ Below(all, n)
    BY <1>5, <2>1, <2>5 DEF Before, Below
  <2> QED
    BY <2>1, <2>4, <2>6 DEF InTime
<1> QED
  BY <1>1, <1>2, <1>4, <1>5 DEF LineOK, Splits, all

\* flushExports on a line.
LEMMA LineFlush ==
    ASSUME NEW list, NEW sent, NEW issued, NEW n, LineOK(list, sent, issued, n)
    PROVE  /\ LineOK(KeptByFlush(list), sent \o Flushed(list), issued, n)
           /\ OpenFlows(KeptByFlush(list)) = OpenFlows(list)
           /\ LET kept == KeptByFlush(list) IN kept # <<>> => ~kept[Len(kept)].done
<1>1. list \in Seq(Entry) /\ OneOpenEach(list)
  BY DEF LineOK
<1>2. options.sort \in {"start", "stop"} => Down(list)
  BY DEF LineOK, InTime
<1> DEFINE kept == KeptByFlush(list)
           out == Flushed(list)
<1>3. /\ Splits(list, kept, out)
      /\ Down(list) => Before(out, kept)
      /\ kept # <<>> => ~kept[Len(kept)].done
      /\ list = <<>> => kept = <<>>
  BY <1>1, FlushHolds
<1> HIDE DEF kept, out
<1>4. LineOK(kept, sent \o out, issued, n)
  BY <1>2, <1>3, LineSplit
<1>5. OpenFlows(kept) = OpenFlows(list)
  BY <1>3 DEF Splits
<1> QED
  BY <1>3, <1>4, <1>5 DEF kept, out

\* flushAllExports on a line; the order is kept when nothing is left behind.
LEMMA LineFlushAll ==
    ASSUME NEW list, NEW sent, NEW issued, NEW n, LineOK(list, sent, issued, n),
           options.sort \in {"start", "stop"} => OpenFlows(list) = {}
    PROVE  /\ LineOK(KeptByFlushAll(list), sent \o FlushedAll(list), issued, n)
           /\ OpenFlows(KeptByFlushAll(list)) = OpenFlows(list)
           /\ OpenFlows(list) = {} => KeptByFlushAll(list) = <<>>
<1>1. list \in Seq(Entry) /\ OneOpenEach(list)
  BY DEF LineOK
<1> DEFINE kept == KeptByFlushAll(list)
           out == FlushedAll(list)
<1>2. /\ Splits(list, kept, out)
      /\ OpenFlows(list) = {} => kept = <<>>
      /\ list = <<>> => kept = <<>>
  BY <1>1, FlushAllHolds
<1> HIDE DEF kept, out
<1>3. kept = <<>> => Before(out, kept)
  BY DEF Before
<1>4. LineOK(kept, sent \o out, issued, n)
  BY <1>2, <1>3, LineSplit
<1>5. OpenFlows(kept) = OpenFlows(list)
  BY <1>2 DEF Splits
<1> QED
  BY <1>2, <1>4, <1>5 DEF kept, out

--------------------------------------------------------------------------------
(* 3. The lines of a table in the operations on a flow.                      *)

Line(t, r, n) == LineOK(t.exports[r], t.sent[r], t.issued[r], n)

LinesOK(t, n) ==
    /\ t.exports \in [Records -> Seq(Entry)]
    /\ t.sent \in [Records -> Seq(Entry)]
    /\ t.issued \in [Records -> Seq(Entry)]
    /\ \A r \in Records : Line(t, r, n)

\* Every active record of the flow in slot i has its unfinished export record.
Owns(t, i) ==
    options.sort # "none" =>
        \A r \in t.flowlist[i].recording : t.flowlist[i].id \in OpenFlows(t.exports[r])

\* The unfinished export records of other flows stay.
Others(t, u, id) ==
    \A r \in Records : OpenFlows(u.exports[r]) \ {id} = OpenFlows(t.exports[r]) \ {id}

\* What operations on the flow in slot i find.
Lined(t, i, n) == Here(t, i) /\ LinesOK(t, n) /\ Owns(t, i)

\* The flow goes on and has what its records need, or ends and leaves nothing behind.
GoesOnLined(t, u, i, n) ==
    /\ GoesOn(t, u, i)
    /\ LinesOK(u, n)
    /\ Others(t, u, t.flowlist[i].id)
    /\ Owns(u, i)

EndsLined(t, u, i, n) ==
    /\ Ends(t, u, i)
    /\ LinesOK(u, n)
    /\ Others(t, u, t.flowlist[i].id)
    /\ \A r \in Records : t.flowlist[i].id \notin OpenFlows(u.exports[r])
    /\ u.flowlist[i] # Nil => u.flowlist[i].recording = {}

LinedOp(t, u, i, n) == GoesOnLined(t, u, i, n) \/ EndsLined(t, u, i, n)

\* A flow that goes on has what the next operation needs.
LEMMA GoesOnLinedHere ==
    ASSUME NEW t, NEW u, NEW i, NEW n, Here(t, i), GoesOnLined(t, u, i, n)
    PROVE  Lined(u, i, n) /\ u.flowlist[i].active = t.flowlist[i].active
BY GoesOnHere DEF GoesOnLined, Lined, GoesOn

\* Operations that follow each other.
LEMMA LinedCompose ==
    ASSUME NEW t, NEW u, NEW v, NEW i, NEW n, NEW k,
           GoesOnLined(t, u, i, n), LinedOp(u, v, i, k)
    PROVE  /\ LinedOp(t, v, i, k)
           /\ GoesOnLined(u, v, i, k) => GoesOnLined(t, v, i, k)
           /\ EndsLined(u, v, i, k) => EndsLined(t, v, i, k)
<1>1. u.flowlist[i].id = t.flowlist[i].id
  BY DEF GoesOnLined, GoesOn
<1>2. Others(t, u, t.flowlist[i].id)
  BY DEF GoesOnLined
<1>3. ASSUME Others(u, v, u.flowlist[i].id) PROVE Others(t, v, t.flowlist[i].id)
  BY <1>1, <1>2, <1>3 DEF Others
<1>4. GoesOn(t, u, i) /\ LifeOp(u, v, i)
  BY DEF GoesOnLined, LinedOp, EndsLined, LifeOp
<1>5. (GoesOn(u, v, i) => GoesOn(t, v, i)) /\ (Ends(u, v, i) => Ends(t, v, i))
  BY <1>4, LifeCompose
<1>6. GoesOnLined(u, v, i, k) => GoesOnLined(t, v, i, k)
  BY <1>3, <1>5 DEF GoesOnLined
<1>7. EndsLined(u, v, i, k) => EndsLined(t, v, i, k)
  BY <1>1, <1>3, <1>5 DEF EndsLined
<1> QED
  BY <1>6, <1>7 DEF LinedOp

\* Doing nothing.
LEMMA LinedNothing ==
    ASSUME NEW t, NEW i, NEW n, Lined(t, i, n)
    PROVE  GoesOnLined(t, t, i, n)
BY GoesOnNothing DEF Lined, GoesOnLined, Others

\* Only what concerns the output has to be seen of an operation that goes on.
LEMMA SameOutput ==
    ASSUME NEW t, NEW u, NEW i, NEW n, Lined(t, i, n), GoesOn(t, u, i),
           u.exports = t.exports, u.sent = t.sent, u.issued = t.issued,
           u.flowlist[i].recording = t.flowlist[i].recording
    PROVE  GoesOnLined(t, u, i, n)
<1>1. LinesOK(u, n)
  BY DEF Lined, LinesOK, Line
<1>2. Owns(u, i)
  BY DEF Lined, Owns, GoesOn
<1> QED
  BY <1>1, <1>2 DEF GoesOnLined, Others

\* Without sorting, and in general when nothing is open, no flow has an open one.
LEMMA NoneOpen ==
    ASSUME NEW list, list = <<>>
    PROVE  OpenFlows(list) = {}
BY DEF OpenFlows, OpenPlaces

Reasons == {"none", "idle", "active", "end", "forced", "control"}

\* What record.Export makes of a line with the export record e of flow id.
Issues(list, sent, issued, id, e, list2, sent2, issued2) ==
    /\ options.sort # "none" => id \in OpenFlows(list)
    /\ e \in Entry /\ e.done
    /\ e.nr = (IF options.sort = "none" THEN 0 ELSE list[OpenIndex(list, id)].nr)
    /\ issued2 = Append(issued, e)
    /\ sent2 = (IF options.sort = "none" THEN Append(sent, e) ELSE sent)
    /\ \/ options.sort = "none" /\ list2 = list
       \/ options.sort = "expiry" /\ list2 = Insert(Unlink(list, id), e)
       \/ options.sort # "none" /\ list2 = FillIn(list, id, e)

\* record.Export on one line.
LEMMA ExportLine ==
    ASSUME NEW list, NEW sent, NEW issued, NEW n, LineOK(list, sent, issued, n),
           NEW id, NEW e, NEW list2, NEW sent2, NEW issued2,
           Issues(list, sent, issued, id, e, list2, sent2, issued2)
    PROVE  LineOK(list2, sent2, issued2, n) /\ OpenFlows(list2) = OpenFlows(list) \ {id}
<1>0. /\ options.sort # "none" => id \in OpenFlows(list)
      /\ e \in Entry /\ e.done
      /\ e.nr = (IF options.sort = "none" THEN 0 ELSE list[OpenIndex(list, id)].nr)
      /\ issued2 = Append(issued, e)
      /\ sent2 = (IF options.sort = "none" THEN Append(sent, e) ELSE sent)
      /\ \/ options.sort = "none" /\ list2 = list
         \/ options.sort = "expiry" /\ list2 = Insert(Unlink(list, id), e)
         \/ options.sort # "none" /\ list2 = FillIn(list, id, e)
  BY DEF Issues
<1>1. list \in Seq(Entry) /\ OneOpenEach(list)
  BY DEF LineOK
<1>2. CASE options.sort = "none"
  <2>1. list = <<>>
    BY <1>2 DEF LineOK
  <2>2. OpenFlows(list) = {}
    BY <2>1, NoneOpen
  <2>3. LineOK(list, Append(sent, e), Append(issued, e), n)
    BY <1>0, <1>2, LineSend
  <2> QED
    BY <1>0, <1>2, <2>2, <2>3
<1>3. CASE options.sort = "expiry" /\ list2 = Insert(Unlink(list, id), e)
  <2>1. LineOK(Insert(Unlink(list, id), e), sent, Append(issued, e), n)
    BY <1>0, <1>3, LineToFront
  <2> DEFINE mid == Unlink(list, id)
  <2>2. mid \in Seq(Entry) /\ OpenFlows(mid) = OpenFlows(list) \ {id}
    BY <1>1, UnlinkHolds
  <2> HIDE DEF mid
  <2>3. OpenFlows(Insert(mid, e)) = OpenFlows(mid)
    BY <1>0, <2>2, InsertCounts
  <2> QED
    BY <1>0, <1>3, <2>1, <2>2, <2>3 DEF mid
<1>4. CASE options.sort # "none" /\ list2 = FillIn(list, id, e)
  <2>1. HasOpen(list, id) /\ e.nr = list[OpenIndex(list, id)].nr
    BY <1>0, <1>1, <1>4, OpenIndexHolds
  <2>2. LineOK(FillIn(list, id, e), sent, Append(issued, e), n)
    BY <1>0, <2>1, LineFillIn
  <2>3. OpenFlows(FillIn(list, id, e)) = OpenFlows(list) \ {id}
    BY <1>0, <1>1, <2>1, FillInHolds
  <2> QED
    BY <1>0, <1>4, <2>2, <2>3
<1> QED
  BY <1>0, <1>2, <1>3, <1>4

\* The records rs of a flow that goes on have stopped.
Stopped(t, u, i, n, rs) ==
    GoesOnLined(t, u, i, n) /\ u.flowlist[i].recording = t.flowlist[i].recording \ rs

\* record.Export of some of the records of a flow.
LEMMA ExportRecordsLined ==
    ASSUME NEW t, NEW i, NEW n, Lined(t, i, n), NEW rs, NEW reason \in Reasons,
           NEW at \in Nat, NEW ctx \in Nat \cup {Nil}
    PROVE  Stopped(t, ExportRecords(t, i, rs, reason, at, ctx), i, n, rs)
<1> DEFINE f     == t.flowlist[i]
           id    == f.id
           go    == rs \cap f.recording
           nr(r) == IF options.sort = "none" THEN 0
                    ELSE t.exports[r][OpenIndex(t.exports[r], id)].nr
           e(r)  == [flow |-> id, nr |-> nr(r), done |-> TRUE, at |-> at,
                     now |-> t.when, reason |-> reason, ctx |-> ctx]
           toFront == options.sort = "expiry" /\ ~t.expiring
           issued == [r \in Records |-> IF r \in go THEN Append(t.issued[r], e(r)) ELSE t.issued[r]]
           sent == [r \in Records |-> IF r \in go /\ options.sort = "none"
                                      THEN Append(t.sent[r], e(r)) ELSE t.sent[r]]
           exports == [r \in Records |->
                IF r \notin go \/ options.sort = "none" THEN t.exports[r]
                ELSE IF toFront THEN Insert(Unlink(t.exports[r], id), e(r))
                ELSE FillIn(t.exports[r], id, e(r))]
           u == ExportRecords(t, i, rs, reason, at, ctx)
<1>1. /\ f \in Flow /\ id \in Nat /\ f.recording \in SUBSET Records /\ t.when \in Nat
      /\ i \in 1 .. Len(t.flowlist)
  BY SlotHoldsFlow DEF Lined, Here, TableType, Flow
<1>2. u.issued = issued /\ u.sent = sent /\ u.exports = exports
  BY DEF ExportRecords, Lined, Here, TableType
<1>3. u.flowlist[i].recording = f.recording \ rs
  <2>1. u.flowlist = [t.flowlist EXCEPT ![i] = [f EXCEPT !.recording = @ \ rs]]
    BY DEF ExportRecords, Lined, Here, TableType
  <2>2. u.flowlist[i] = [f EXCEPT !.recording = @ \ rs]
    <3>1. DOMAIN t.flowlist = 1 .. Len(t.flowlist)
      BY DEF Lined, Here, TableType
    <3> QED
      BY <1>1, <2>1, <3>1
  <2> QED
    BY <1>1, <2>2 DEF Flow
<1>4. GoesOn(t, u, i)
  BY ExportRecordsGoesOn DEF Lined
<1> HIDE DEF u
<1>5. \A r \in Records : Line(t, r, n)
  BY DEF Lined, LinesOK
<1>6. ASSUME NEW r \in Records, r \in go
      PROVE  /\ Line(u, r, n)
             /\ OpenFlows(u.exports[r]) = OpenFlows(t.exports[r]) \ {id}
  <2> DEFINE list == t.exports[r]
             x == e(r)
  <2>1. LineOK(list, t.sent[r], t.issued[r], n)
    BY <1>5 DEF Line
  <2>2. list \in Seq(Entry) /\ options.sort # "none" => id \in OpenFlows(list)
    BY <1>6 DEF Lined, Owns
  <2>3. nr(r) \in Nat
    <3>1. CASE options.sort # "none"
      <4>1. list \in Seq(Entry)
        BY <2>1 DEF LineOK
      <4>2. OpenIndex(list, id) \in OpenPlaces(list)
        BY <2>2, <3>1, <4>1, OpenIndexHolds
      <4>3. list[OpenIndex(list, id)] \in Entry
        BY <4>1, <4>2 DEF OpenPlaces
      <4> QED
        BY <3>1, <4>3, EntryFields
    <3>2. CASE options.sort = "none"
      BY <3>2
    <3> QED
      BY <3>1, <3>2
  <2>4. x \in Entry /\ x.done /\ x.nr = nr(r)
    <3> HIDE DEF nr
    <3> QED
      BY <1>1, <2>3 DEF Entry, Reasons
  <2> DEFINE list2 == u.exports[r]
             sent2 == u.sent[r]
             issued2 == u.issued[r]
  <2>5. /\ issued2 = Append(t.issued[r], x)
        /\ sent2 = (IF options.sort = "none" THEN Append(t.sent[r], x) ELSE t.sent[r])
    BY <1>2, <1>6
  <2>6. \/ options.sort = "none" /\ list2 = list
        \/ options.sort = "expiry" /\ list2 = Insert(Unlink(list, id), x)
        \/ options.sort # "none" /\ list2 = FillIn(list, id, x)
    BY <1>2, <1>6
  <2>7. x.nr = (IF options.sort = "none" THEN 0 ELSE list[OpenIndex(list, id)].nr)
    BY <2>4
  <2>8. options.sort # "none" => id \in OpenFlows(list)
    BY <1>6 DEF Lined, Owns
  <2> HIDE DEF x, list, list2, sent2, issued2, toFront, id
  <2>9. LineOK(list2, sent2, issued2, n) /\ OpenFlows(list2) = OpenFlows(list) \ {id}
    <3>1. Issues(list, t.sent[r], t.issued[r], id, x, list2, sent2, issued2)
      BY <2>4, <2>5, <2>6, <2>7, <2>8 DEF Issues
    <3> QED
      BY <2>1, <3>1, ExportLine
  <2> QED
    BY <2>9 DEF Line, list, list2, sent2, issued2, id
<1>7. ASSUME NEW r \in Records, r \notin go
      PROVE  Line(u, r, n) /\ OpenFlows(u.exports[r]) = OpenFlows(t.exports[r])
  <2>1. u.exports[r] = t.exports[r] /\ u.sent[r] = t.sent[r] /\ u.issued[r] = t.issued[r]
    BY <1>2, <1>7
  <2> QED
    BY <1>5, <2>1 DEF Line
<1>8. DOMAIN u.exports = Records /\ DOMAIN u.sent = Records /\ DOMAIN u.issued = Records
  BY <1>2
<1>9. u.exports = [r \in Records |-> u.exports[r]] /\ u.sent = [r \in Records |-> u.sent[r]]
      /\ u.issued = [r \in Records |-> u.issued[r]]
  BY <1>2
<1> HIDE DEF issued, sent, exports, e, nr, toFront
<1>10. \A r \in Records : Line(u, r, n)
  BY <1>6, <1>7
<1>11. LinesOK(u, n)
  BY <1>9, <1>10 DEF LinesOK, Line, LineOK
<1>12. Others(t, u, id)
  BY <1>6, <1>7 DEF Others
<1>13. Owns(u, i)
  BY <1>1, <1>3, <1>4, <1>7 DEF Owns, Lined, GoesOn
<1> QED
  BY <1>3, <1>4, <1>11, <1>12, <1>13 DEF Stopped, GoesOnLined, u

\* BaseFlow.Stop of a flow whose records have stopped: its export records go with it.
LEMMA StopFlowLined ==
    ASSUME NEW t, NEW i, NEW n, Lined(t, i, n), t.flowlist[i].active,
           t.flowlist[i].recording = {}
    PROVE  EndsLined(t, StopFlow(t, i), i, n)
<1> DEFINE f == t.flowlist[i]
           u == StopFlow(t, i)
           m == [t EXCEPT !.exports = [r \in Records |-> Unlink(@[r], f.id)],
                          !.flowlist[i].active = FALSE,
                          !.ended = @ \cup {f.id},
                          !.twice = @ \cup ({f.id} \cap t.ended)]
           exports == [r \in Records |-> Unlink(t.exports[r], f.id)]
<1>1. /\ f \in Flow /\ i \in 1 .. Len(t.flowlist) /\ t.flows[f.key] = i
      /\ DOMAIN t.flowlist = 1 .. Len(t.flowlist)
  <2>1. Here(t, i) /\ TableType(t)
    BY DEF Lined, Here
  <2>2. t.flowlist \in Seq(Flow \cup {Nil})
    BY <2>1 DEF TableType
  <2>3. f \in Flow /\ i \in 1 .. Len(t.flowlist)
    BY <2>1, SlotHoldsFlow DEF Here
  <2> QED
    BY <2>1, <2>2, <2>3 DEF Here
<1>2. /\ m.exports = exports /\ m.sent = t.sent /\ m.issued = t.issued /\ m.flows = t.flows
      /\ m.flowlist = [t.flowlist EXCEPT ![i] = [f EXCEPT !.active = FALSE]]
  BY DEF Lined, Here, TableType
<1>3. u = Remove(m, f.key)
  BY DEF StopFlow
<1>4. i # 0 /\ m.flows[f.key] = i
  BY <1>1, <1>2
<1>5. /\ u.exports = m.exports /\ u.sent = m.sent /\ u.issued = m.issued
      /\ u.flowlist = IF m.eof THEN m.flowlist ELSE [m.flowlist EXCEPT ![i] = Nil]
  <2>1. \A x, y, z : LET w == [m EXCEPT !.flowlist = x, !.freelist = y, !.flows = z]
                     IN  w.exports = m.exports /\ w.sent = m.sent /\ w.issued = m.issued
                         /\ w.flowlist = x
    BY DEF Lined, Here, TableType
  <2>2. u = IF m.eof THEN m
            ELSE [m EXCEPT !.flowlist = [m.flowlist EXCEPT ![i] = Nil],
                           !.freelist = Append(m.freelist, i),
                           !.flows = [m.flows EXCEPT ![f.key] = 0]]
    <3> HIDE DEF m
    <3> QED
      BY <1>3, <1>4 DEF Remove
  <2> HIDE DEF m, u
  <2> QED
    BY <2>1, <2>2
<1>6. u.flowlist[i] # Nil => u.flowlist[i].recording = {}
  <2>1. m.flowlist[i] = [f EXCEPT !.active = FALSE] /\ [m.flowlist EXCEPT ![i] = Nil][i] = Nil
    BY <1>1, <1>2
  <2>2. m.flowlist[i].recording = {}
    BY <1>1, <2>1 DEF Flow
  <2> HIDE DEF m, u
  <2> QED
    BY <1>5, <2>1, <2>2
<1>7. Ends(t, u, i)
  BY StopFlowEnds DEF Lined
<1> HIDE DEF m, u
<1>8. ASSUME NEW r \in Records
      PROVE  /\ Line(u, r, n)
             /\ OpenFlows(u.exports[r]) = OpenFlows(t.exports[r]) \ {f.id}
  <2>1. u.exports[r] = Unlink(t.exports[r], f.id)
        /\ u.sent[r] = t.sent[r] /\ u.issued[r] = t.issued[r]
    BY <1>2, <1>5
  <2>2. LineOK(t.exports[r], t.sent[r], t.issued[r], n)
    BY DEF Lined, LinesOK, Line
  <2> HIDE DEF f, exports
  <2>3. LineOK(Unlink(t.exports[r], f.id), t.sent[r], t.issued[r], n)
    BY <2>2, LineUnlink
  <2>4. t.exports[r] \in Seq(Entry) /\ OneOpenEach(t.exports[r])
    BY <2>2 DEF LineOK
  <2>5. OpenFlows(Unlink(t.exports[r], f.id)) = OpenFlows(t.exports[r]) \ {f.id}
    BY <2>4, UnlinkHolds
  <2> QED
    BY <2>1, <2>3, <2>5 DEF Line
<1>9. u.exports \in [Records -> Seq(Entry)]
  <2>1. u.exports = [r \in Records |-> u.exports[r]]
    BY <1>2, <1>5
  <2> QED
    BY <1>8, <2>1 DEF Line, LineOK
<1>10. LinesOK(u, n)
  BY <1>2, <1>5, <1>8, <1>9 DEF LinesOK, Lined
<1>11. Others(t, u, f.id) /\ \A r \in Records : f.id \notin OpenFlows(u.exports[r])
  BY <1>8 DEF Others
<1> QED
  BY <1>6, <1>7, <1>10, <1>11 DEF EndsLined, u

\* BaseFlow.Export of an active flow.
LEMMA ExportLined ==
    ASSUME NEW t, NEW i, NEW n, Lined(t, i, n), t.flowlist[i].active,
           NEW reason \in Reasons, NEW at \in Nat, NEW ctx \in Nat \cup {Nil}
    PROVE  EndsLined(t, Export(t, i, reason, at, ctx), i, n)
<1> DEFINE v == ExportRecords(t, i, Records, reason, at, ctx)
<1>1. GoesOnLined(t, v, i, n) /\ v.flowlist[i].recording = t.flowlist[i].recording \ Records
  <2>1. Stopped(t, v, i, n, Records)
    BY ExportRecordsLined
  <2> QED
    BY <2>1 DEF Stopped
<1>2. t.flowlist[i].recording \ Records = {}
  BY SlotHoldsFlow DEF Lined, Here, Flow
<1>3. Export(t, i, reason, at, ctx) = StopFlow(v, i)
  BY DEF Export, IsActive, Lined, Here, Slots
<1> HIDE DEF v
<1>4. Lined(v, i, n) /\ v.flowlist[i].active
  BY <1>1, GoesOnLinedHere DEF Lined
<1>5. EndsLined(v, StopFlow(v, i), i, n)
  BY <1>1, <1>2, <1>4, StopFlowLined
<1> QED
  BY <1>1, <1>3, <1>5, LinedCompose DEF LinedOp

\* ... and of one that may have ended before.
LEMMA ExportAfterLined ==
    ASSUME NEW t, NEW u, NEW i, NEW n, Lined(t, i, n), t.flowlist[i].active,
           LinedOp(t, u, i, n),
           NEW reason \in Reasons, NEW at \in Nat, NEW ctx \in Nat \cup {Nil}
    PROVE  EndsLined(t, Export(u, i, reason, at, ctx), i, n)
<1> DEFINE v == Export(u, i, reason, at, ctx)
<1>1. CASE GoesOnLined(t, u, i, n)
  <2>1. Lined(u, i, n) /\ u.flowlist[i].active
    BY <1>1, GoesOnLinedHere DEF Lined
  <2>2. EndsLined(u, v, i, n)
    BY <2>1, ExportLined
  <2> QED
    BY <1>1, <2>2, LinedCompose DEF LinedOp
<1>2. CASE EndsLined(t, u, i, n)
  <2>1. ~IsActive(u, i)
    BY <1>2, EndsInactive DEF EndsLined
  <2>2. v = u
    BY <2>1 DEF Export
  <2> QED
    BY <1>2, <2>2
<1> QED
  BY <1>1, <1>2 DEF LinedOp

\* BaseFlow.expire and the timer callbacks.
LEMMA ExpireFlowLined ==
    ASSUME NEW t, NEW i, NEW n, Lined(t, i, n), t.flowlist[i].active
    PROVE  LinedOp(t, ExpireFlow(t, i), i, n)
<1> DEFINE f    == t.flowlist[i]
           due  == Due(f, t.when)
           left == Disarm(f.timers, due)
           v    == Disarmed(t, i)
           fire(s, id) == IF id \in due THEN Export(s, i, id, f.timers[id], f.id) ELSE s
           w    == fire(v, "idle")
           x    == fire(w, "active")
<1>1. f \in Flow /\ f.id \in Nat /\ f.timers \in [TimerIds -> Nat]
  BY SlotHoldsFlow DEF Lined, Here, Flow
<1>2. Kept(t, v, i) /\ v.flowlist[i] = [f EXCEPT !.timers = left, !.expireNext = Earliest(left)]
  BY DisarmedKept DEF Lined
<1>3. /\ v.ended = t.ended /\ v.twice = t.twice
      /\ v.exports = t.exports /\ v.sent = t.sent /\ v.issued = t.issued
  BY DEF Disarmed, Lined, Here, TableType
<1>4. /\ v.flowlist[i].id = f.id /\ v.flowlist[i].window = f.window
      /\ v.flowlist[i].active = f.active /\ v.flowlist[i].recording = f.recording
  BY <1>1, <1>2 DEF Flow
<1>5. ExpireFlow(t, i) = IF f.expireNext = 0 THEN t ELSE x
  BY DEF ExpireFlow, Disarmed
<1> HIDE DEF v, left, due
<1>6. GoesOn(t, v, i)
  BY <1>2, <1>3, <1>4 DEF GoesOn
<1>7. LinedOp(t, v, i, n)
  BY <1>3, <1>4, <1>6, SameOutput DEF LinedOp
<1>8. ASSUME NEW s, NEW id \in {"idle", "active"}, LinedOp(t, s, i, n)
      PROVE  LinedOp(t, fire(s, id), i, n)
  <2>1. id \in Reasons /\ f.timers[id] \in Nat /\ f.id \in Nat \cup {Nil}
    BY <1>1 DEF Reasons, TimerIds
  <2> DEFINE y == Export(s, i, id, f.timers[id], f.id)
  <2>2. EndsLined(t, y, i, n)
    BY <1>8, <2>1, ExportAfterLined
  <2>3. fire(s, id) = IF id \in due THEN y ELSE s
    OBVIOUS
  <2> HIDE DEF y, fire
  <2> QED
    BY <1>8, <2>2, <2>3 DEF LinedOp
<1> HIDE DEF fire
<1>9. LinedOp(t, x, i, n)
  BY <1>7, <1>8
<1>10. LinedOp(t, t, i, n)
  BY LinedNothing DEF LinedOp
<1> QED
  BY <1>5, <1>9, <1>10

\* Timers that are due end the flow.
LEMMA ExpireIfDueLined ==
    ASSUME NEW t, NEW i, NEW n, Lined(t, i, n), t.flowlist[i].active
    PROVE  LinedOp(t, ExpireIfDue(t, i), i, n)
BY ExpireFlowLined, LinedNothing DEF ExpireIfDue, LinedOp

\* A record that starts has a new export record at the front of its list.
LEMMA StartedLined ==
    ASSUME NEW t, NEW i, NEW o, Lined(t, i, t.packets), NEW k, k = t.packets + 1
    PROVE  GoesOnLined(t, Started(t, i, o), i, k)
<1> DEFINE f == t.flowlist[i]
           n == t.packets
           id == f.id
           e == [flow |-> id, nr |-> n, done |-> FALSE, at |-> 0,
                 now |-> 0, reason |-> "none", ctx |-> Nil]
           moves(r) == \/ r \notin f.recording
                       \/ options.sort \in {"stop", "expiry"} /\ o[r] # "stop"
           u == Started(t, i, o)
<1>1. f \in Flow /\ id \in Nat /\ f.recording \in SUBSET Records /\ n \in Nat /\ k \in Nat
  <2>1. f \in Flow
    BY SlotHoldsFlow DEF Lined, Here
  <2>2. n \in Nat
    BY DEF Lined, Here, TableType
  <2> QED
    BY <2>1, <2>2 DEF Flow
<1>2. /\ u.exports = [r \in Records |->
                        IF options.sort # "none" /\ moves(r)
                        THEN Insert(Unlink(t.exports[r], id), e) ELSE t.exports[r]]
      /\ u.sent = t.sent /\ u.issued = t.issued
      /\ u.ended = t.ended /\ u.twice = t.twice
  BY DEF Started, Lined, Here, TableType
<1>3. /\ Kept(t, u, i)
      /\ u.flowlist[i] = [f EXCEPT !.recording = {r \in Records : o[r] # "stop"}]
  BY StartedKept DEF Lined
<1>4. /\ u.flowlist[i].id = id /\ u.flowlist[i].window = f.window
      /\ u.flowlist[i].active = f.active
      /\ u.flowlist[i].recording = {r \in Records : o[r] # "stop"}
  BY <1>1, <1>3 DEF Flow
<1>5. GoesOn(t, u, i)
  BY <1>2, <1>3, <1>4 DEF GoesOn
<1>6. e \in Entry /\ ~e.done /\ e.nr = n /\ e.flow = id
  BY <1>1 DEF Entry
<1> HIDE DEF u
<1>7. ASSUME NEW r \in Records, options.sort # "none" /\ moves(r)
      PROVE  Line(u, r, k) /\ OpenFlows(u.exports[r]) = OpenFlows(t.exports[r]) \cup {id}
  <2> DEFINE mid == Unlink(t.exports[r], id)
  <2>1. u.exports[r] = Insert(mid, e) /\ u.sent[r] = t.sent[r] /\ u.issued[r] = t.issued[r]
    BY <1>2, <1>7
  <2>2. LineOK(t.exports[r], t.sent[r], t.issued[r], n)
    BY DEF Lined, LinesOK, Line
  <2>3. t.exports[r] \in Seq(Entry) /\ OneOpenEach(t.exports[r])
    BY <2>2 DEF LineOK
  <2> HIDE DEF id
  <2>4. LineOK(mid, t.sent[r], t.issued[r], n)
    BY <2>2, LineUnlink
  <2>5. OpenFlows(mid) = OpenFlows(t.exports[r]) \ {id} /\ mid \in Seq(Entry)
    BY <2>3, UnlinkHolds
  <2> HIDE DEF mid, e, n
  <2>6. n < k /\ n \in Nat /\ k \in Nat
    BY <1>1 DEF n
  <2>7. e.flow \notin OpenFlows(mid)
    BY <1>6, <2>5
  <2>8. LineOK(Insert(mid, e), t.sent[r], t.issued[r], k)
    BY <1>6, <1>7, <2>4, <2>6, <2>7, LineInsert
  <2>9. OpenFlows(Insert(mid, e)) = OpenFlows(mid) \cup {id}
    BY <1>6, <2>5, InsertCounts
  <2> QED
    BY <2>1, <2>5, <2>8, <2>9 DEF Line
<1>8. ASSUME NEW r \in Records, ~(options.sort # "none" /\ moves(r))
      PROVE  Line(u, r, k) /\ u.exports[r] = t.exports[r]
  <2>1. u.exports[r] = t.exports[r] /\ u.sent[r] = t.sent[r] /\ u.issued[r] = t.issued[r]
    BY <1>2, <1>8
  <2>2. LineOK(t.exports[r], t.sent[r], t.issued[r], n)
    BY DEF Lined, LinesOK, Line
  <2>3. n <= k
    BY <1>1
  <2> HIDE DEF n
  <2>4. LineOK(t.exports[r], t.sent[r], t.issued[r], k)
    BY <1>1, <2>2, <2>3, LineLater
  <2> QED
    BY <2>1, <2>4 DEF Line
<1>9. u.exports = [r \in Records |-> u.exports[r]]
  BY <1>2
<1>10. ASSUME NEW r \in Records, r \notin f.recording, options.sort # "none" PROVE moves(r)
  BY <1>10
<1> HIDE DEF e, moves, n
<1>11. LinesOK(u, k)
  <2>1. \A r \in Records : Line(u, r, k)
    BY <1>7, <1>8
  <2>2. u.exports \in [Records -> Seq(Entry)]
    BY <1>9, <2>1 DEF Line, LineOK
  <2> QED
    BY <1>2, <2>1, <2>2 DEF LinesOK, Lined
<1>12. Others(t, u, id)
  BY <1>7, <1>8 DEF Others
<1>13. Owns(u, i)
  <2> SUFFICES ASSUME options.sort # "none", NEW r \in u.flowlist[i].recording
               PROVE  id \in OpenFlows(u.exports[r])
    BY <1>4 DEF Owns
  <2>1. r \in Records
    BY <1>4
  <2>2. CASE moves(r)
    BY <1>7, <2>1, <2>2
  <2>3. CASE ~moves(r)
    <3>1. r \in f.recording /\ u.exports[r] = t.exports[r]
      BY <1>8, <1>10, <2>1, <2>3
    <3> QED
      BY <3>1 DEF Lined, Owns
  <2> QED
    BY <2>2, <2>3
<1> QED
  BY <1>5, <1>11, <1>12, <1>13 DEF GoesOnLined, u

\* record.Event of every record.
LEMMA RecordEventLined ==
    ASSUME NEW t, NEW i, NEW o, Lined(t, i, t.packets), NEW k, k = t.packets + 1
    PROVE  GoesOnLined(t, RecordEvent(t, i, o), i, k)
<1> DEFINE u == Started(t, i, o)
           rs == {r \in Records : o[r] = "export"}
           id == t.flowlist[i].id
           v == ExportRecords(u, i, rs, "control", t.when, id)
<1>1. t.when \in Nat /\ id \in Nat \cup {Nil} /\ "control" \in Reasons
  BY SlotHoldsFlow DEF Lined, Here, TableType, Flow, Reasons
<1>2. GoesOnLined(t, u, i, k)
  BY StartedLined
<1>3. RecordEvent(t, i, o) = v
  BY DEF RecordEvent, Started
<1> HIDE DEF u, rs, id
<1>4. Lined(u, i, k)
  BY <1>2, GoesOnLinedHere DEF Lined
<1>5. Stopped(u, v, i, k, rs)
  BY <1>1, <1>4, ExportRecordsLined
<1> HIDE DEF v
<1>6. GoesOnLined(u, v, i, k)
  BY <1>5 DEF Stopped
<1>7. LinedOp(u, v, i, k)
  BY <1>6 DEF LinedOp
<1> QED
  BY <1>2, <1>3, <1>6, <1>7, LinedCompose

\* The tcp state that has seen a packet leaves the records alone.
LEMMA SeenSame ==
    ASSUME NEW t, NEW i, NEW p, Here(t, i)
    PROVE  LET u == Seen(t, i, p)
           IN  /\ GoesOn(t, u, i)
               /\ u.flowlist[i].recording = t.flowlist[i].recording
               /\ u.exports = t.exports /\ u.sent = t.sent /\ u.issued = t.issued
<1> DEFINE f == t.flowlist[i]
           u == Seen(t, i, p)
<1>1. f \in Flow
  BY SlotHoldsFlow DEF Here
<1>2. Kept(t, u, i)
  BY SeenKept
<1>3. PICK seen : u.flowlist[i] = [f EXCEPT !.tcp = seen]
  BY SeenKept
<1>4. /\ u.flowlist[i].id = f.id /\ u.flowlist[i].window = f.window
      /\ u.flowlist[i].active = f.active /\ u.flowlist[i].recording = f.recording
  BY <1>1, <1>3 DEF Flow
<1>5. /\ u.ended = t.ended /\ u.twice = t.twice
      /\ u.exports = t.exports /\ u.sent = t.sent /\ u.issued = t.issued
  BY DEF Seen, Here, TableType
<1> HIDE DEF u
<1>6. GoesOn(t, u, i)
  BY <1>2, <1>4, <1>5 DEF GoesOn
<1> QED
  BY <1>4, <1>5, <1>6 DEF u

\* The end of a TCP connection.
LEMMA TCPEventLined ==
    ASSUME NEW t, NEW i, NEW p, NEW n, Lined(t, i, n), t.flowlist[i].active
    PROVE  LinedOp(t, TCPEvent(t, i, p), i, n)
<1> DEFINE u == Seen(t, i, p)
<1>1. /\ GoesOn(t, u, i)
      /\ u.flowlist[i].recording = t.flowlist[i].recording
      /\ u.exports = t.exports /\ u.sent = t.sent /\ u.issued = t.issued
  BY SeenSame DEF Lined
<1> HIDE DEF u
<1>2. LinedOp(t, u, i, n)
  BY <1>1, SameOutput DEF LinedOp
<1>3. LinedOp(t, t, i, n)
  BY LinedNothing DEF LinedOp
<1>4. t.when \in Nat /\ t.ctx \in Nat \cup {Nil} /\ "end" \in Reasons
  BY DEF Lined, Here, TableType, Reasons
<1>5. LinedOp(t, Export(u, i, "end", t.when, t.ctx), i, n)
  BY <1>2, <1>4, ExportAfterLined DEF LinedOp
<1>6. LinedOp(t, Export(t, i, "end", t.when, t.ctx), i, n)
  BY <1>3, <1>4, ExportAfterLined DEF LinedOp
<1>7. \/ TCPEvent(t, i, p) \in {t, u}
       \/ TCPEvent(t, i, p) = Export(t, i, "end", t.when, t.ctx)
       \/ TCPEvent(t, i, p) = Export(u, i, "end", t.when, t.ctx)
  BY TCPEventCases DEF u
<1> QED
  BY <1>2, <1>3, <1>5, <1>6, <1>7

\* BaseFlow.Event.
LEMMA FlowEventLined ==
    ASSUME NEW t, NEW i, NEW o, Lined(t, i, t.packets), t.flowlist[i].active,
           options \in Options, NEW k, k = t.packets + 1
    PROVE  LinedOp(t, FlowEvent(t, i, o), i, k)
<1> DEFINE f == t.flowlist[i]
           v == Timed(t, i)
           u == RecordEvent(v, i, o)
<1>0. Here(t, i)
  BY DEF Lined
<1>1. Kept(t, v, i) /\ Here(v, i)
      /\ v.flowlist[i].id = f.id /\ v.flowlist[i].window = f.window
      /\ v.flowlist[i].active = f.active
  BY <1>0, TimedKept
<1>2. /\ v.ended = t.ended /\ v.twice = t.twice /\ v.packets = t.packets
      /\ v.exports = t.exports /\ v.sent = t.sent /\ v.issued = t.issued
  BY DEF Timed, Lined, Here, TableType
<1>3. v.flowlist[i].recording = f.recording
  <2>1. f \in Flow /\ i \in 1 .. Len(t.flowlist) /\ t.flowlist \in Seq(Flow \cup {Nil})
    BY <1>0, SlotHoldsFlow DEF Here, TableType
  <2>2. v.flowlist[i] = IF options.idle = 0 THEN f
                        ELSE AddTimer(f, "idle", t.when + options.idle)
    BY <1>0, <2>1 DEF Timed, Here, TableType
  <2>3. \A w : AddTimer(f, "idle", w).recording = f.recording
    BY <2>1 DEF AddTimer, Flow
  <2> QED
    BY <2>2, <2>3
<1>4. FlowEvent(t, i, o) =
        IF u.flowlist[i].recording = {} THEN StopFlow(u, i)
        ELSE IF options.perPacket THEN Export(u, i, "end", u.when, u.ctx)
        ELSE u
  BY DEF FlowEvent, Timed
<1> HIDE DEF v
<1>5. GoesOn(t, v, i)
  BY <1>1, <1>2 DEF GoesOn
<1>6. GoesOnLined(t, v, i, t.packets)
  BY <1>2, <1>3, <1>5, SameOutput
<1>7. Lined(v, i, v.packets)
  BY <1>0, <1>2, <1>6, GoesOnLinedHere
<1>8. GoesOnLined(v, u, i, k)
  BY <1>2, <1>7, RecordEventLined
<1> HIDE DEF u
<1>9. GoesOnLined(t, u, i, k)
  BY <1>6, <1>8, LinedCompose DEF LinedOp
<1>10. Lined(u, i, k) /\ u.flowlist[i].active
  BY <1>0, <1>9, GoesOnLinedHere
<1>11. u.when \in Nat /\ u.ctx \in Nat \cup {Nil} /\ "end" \in Reasons
  BY <1>10 DEF Lined, Here, TableType, Reasons
<1>12. LinedOp(u, FlowEvent(t, i, o), i, k)
  <2>1. u.flowlist[i].recording = {} => EndsLined(u, StopFlow(u, i), i, k)
    BY <1>10, StopFlowLined
  <2>2. EndsLined(u, Export(u, i, "end", u.when, u.ctx), i, k)
    BY <1>10, <1>11, ExportLined
  <2>3. GoesOnLined(u, u, i, k)
    BY <1>10, LinedNothing
  <2> QED
    BY <1>4, <2>1, <2>2, <2>3 DEF LinedOp
<1> QED
  BY <1>9, <1>12, LinedCompose

\* A packet, all the way.
LEMMA HandlePacketLined ==
    ASSUME NEW t, NEW i, NEW p, NEW o, Lined(t, i, t.packets), t.flowlist[i].active,
           options \in Options, NEW k, k = t.packets + 1
    PROVE  LinedOp(t, HandlePacket(t, i, p, o), i, k)
<1> DEFINE u == FlowEvent(t, i, o)
<1>1. LinedOp(t, u, i, k)
  BY FlowEventLined
<1>2. HandlePacket(t, i, p, o) = IF IsActive(u, i) THEN TCPEvent(u, i, p) ELSE u
  BY DEF HandlePacket
<1> HIDE DEF u
<1>3. CASE GoesOnLined(t, u, i, k)
  <2>1. Lined(u, i, k) /\ u.flowlist[i].active
    BY <1>3, GoesOnLinedHere DEF Lined
  <2>2. LinedOp(u, TCPEvent(u, i, p), i, k)
    BY <2>1, TCPEventLined
  <2> QED
    BY <1>1, <1>2, <1>3, <2>2, LinedCompose
<1>4. CASE EndsLined(t, u, i, k)
  BY <1>1, <1>2, <1>4, EndsInactive DEF EndsLined
<1> QED
  BY <1>1, <1>3, <1>4 DEF LinedOp

\* What the loops that empty the table do with a flow.
LEMMA EndFlowLined ==
    ASSUME NEW t, NEW i, NEW n, Lined(t, i, n), t.flowlist[i].active,
           NEW reason \in Reasons, NEW ctx \in Nat \cup {Nil}
    PROVE  LinedOp(t, EndFlow(t, i, reason, ctx), i, n)
<1> DEFINE v == ExpireIfDue(t, i)
           u == EndFlow(t, i, reason, ctx)
<1>1. LinedOp(t, v, i, n)
  BY ExpireIfDueLined
<1>2. u = IF IsActive(v, i) THEN Export(v, i, reason, v.when, ctx) ELSE v
  BY DEF EndFlow, Lined, Here, Slots
<1>3. v.when \in Nat
  <2>1. FlowOp(t, v, i)
    BY <1>1 DEF LinedOp, GoesOnLined, EndsLined, GoesOn, Ends, FlowOp
  <2> QED
    BY <2>1 DEF FlowOp, Kept, Dropped, TableType
<1> HIDE DEF v, u
<1>4. EndsLined(t, Export(v, i, reason, v.when, ctx), i, n)
  BY <1>1, <1>3, ExportAfterLined
<1> QED
  BY <1>1, <1>2, <1>4 DEF LinedOp, u

--------------------------------------------------------------------------------
(* 4. The lines of a table in the operations on the table.                   *)

AliveIds(t) == {t.flowlist[i].id : i \in {j \in Slots(t) : t.flowlist[j].active}}

\* Unfinished export records belong to active flows, whose records have one each, and
\* the records of an inactive flow have stopped.
Owned(t) ==
    /\ \A r \in Records : OpenFlows(t.exports[r]) \subseteq AliveIds(t)
    /\ \A i \in Slots(t) : Owns(t, i)

Resting(t) == \A i \in Slots(t) : ~t.flowlist[i].active => t.flowlist[i].recording = {}

Output(t, n) == LinesOK(t, n) /\ Owned(t) /\ Resting(t)

\* Active flows have ids of their own.
Distinct(t) ==
    \A i, j \in Slots(t) : t.flowlist[i].active /\ t.flowlist[j].active
                           /\ t.flowlist[i].id = t.flowlist[j].id => i = j

\* A table that accounts for its flows has distinct ones.
LEMMA AccountedDistinct ==
    ASSUME NEW t, Sound(t), Accounted(t)
    PROVE  Distinct(t)
<1> SUFFICES ASSUME NEW i \in Slots(t), NEW j \in Slots(t),
                    t.flowlist[i].active, t.flowlist[j].active,
                    t.flowlist[i].id = t.flowlist[j].id
             PROVE  i = j
  BY DEF Distinct
<1> DEFINE key(a) == t.flowlist[a].key
<1>1. ASSUME NEW a \in Slots(t), t.flowlist[a].active
      PROVE  /\ key(a) \in Keys /\ Living(t)[key(a)] = t.flowlist[a].id
             /\ t.flowlist[a].id # Nil /\ t.flows[key(a)] = a
  <2>1. t.flowlist[a].id # Nil /\ t.flows[key(a)] = a
    BY SlotHoldsFlow, NilAssumption DEF Sound, MapMatchesList, Flow
  <2> QED
    BY <1>1, <2>1, LivingHere
<1>2. /\ key(i) \in Keys /\ Living(t)[key(i)] = t.flowlist[i].id
      /\ t.flowlist[i].id # Nil /\ t.flows[key(i)] = i
  BY <1>1
<1>3. /\ key(j) \in Keys /\ Living(t)[key(j)] = t.flowlist[j].id
      /\ t.flowlist[j].id # Nil /\ t.flows[key(j)] = j
  BY <1>1
<1>4. key(i) = key(j)
  BY <1>2, <1>3 DEF Accounted
<1> QED
  BY <1>2, <1>3, <1>4

\* Operations on a flow keep the other slots.
LEMMA OtherSlotsStay ==
    ASSUME NEW t, NEW u, NEW i, Here(t, i), FlowOp(t, u, i)
    PROVE  \A j \in Slots(t) : j # i => j \in Slots(u) /\ u.flowlist[j] = t.flowlist[j]
<1>1. CASE Kept(t, u, i)
  BY <1>1, KeptSlots DEF Slots
<1>2. CASE Dropped(t, u, i)
  BY <1>2, DroppedSlots DEF Slots
<1> QED
  BY <1>1, <1>2 DEF FlowOp

\* What operations on a flow find in a table.
LEMMA OutputLined ==
    ASSUME NEW t, NEW i, NEW n, Here(t, i), Output(t, n)
    PROVE  Lined(t, i, n)
BY DEF Output, Owned, Lined, Here

\* An operation on a flow keeps the output of the table in order.
LEMMA LinedOutput ==
    ASSUME NEW t, NEW u, NEW i, NEW n, NEW k, Sound(t), Accounted(t), Here(t, i),
           t.flowlist[i].active, Output(t, n), LinedOp(t, u, i, k)
    PROVE  Output(u, k)
<1> DEFINE id == t.flowlist[i].id
<1>1. FlowOp(t, u, i) /\ Distinct(t)
  BY AccountedDistinct DEF LinedOp, GoesOnLined, EndsLined, GoesOn, Ends, FlowOp
<1>2. \A j \in Slots(t) : j # i => j \in Slots(u) /\ u.flowlist[j] = t.flowlist[j]
  BY <1>1, OtherSlotsStay
<1>3. /\ Slots(u) \subseteq Slots(t)
      /\ \A j \in Slots(u) : j # i => u.flowlist[j] = t.flowlist[j]
  BY <1>1, FlowOpSlots
<1>4. LinesOK(u, k) /\ Others(t, u, id)
  BY DEF LinedOp, GoesOnLined, EndsLined
<1>5. i \in Slots(t) /\ \A j \in Slots(t) : t.flowlist[j].recording \subseteq Records
  BY SlotHoldsFlow DEF Here, Flow
<1>6. \/ /\ i \in Slots(u) /\ u.flowlist[i].id = id /\ u.flowlist[i].active
         /\ Owns(u, i)
      \/ /\ \A r \in Records : id \notin OpenFlows(u.exports[r])
         /\ i \in Slots(u) => u.flowlist[i].recording = {}
  <2>1. CASE GoesOnLined(t, u, i, k)
    <3>1. GoesOn(t, u, i) /\ Owns(u, i)
      BY <2>1 DEF GoesOnLined
    <3>2. i \in Slots(u)
      BY <3>1, GoesOnHere DEF Here
    <3> QED
      BY <3>1, <3>2 DEF GoesOn
  <2>2. CASE EndsLined(t, u, i, k)
    BY <2>2 DEF EndsLined, Slots
  <2> QED
    BY <2>1, <2>2 DEF LinedOp
<1>7. ASSUME NEW r \in Records, NEW x \in OpenFlows(u.exports[r]) PROVE x \in AliveIds(u)
  <2>1. CASE x = id
    BY <1>6, <2>1 DEF AliveIds
  <2>2. CASE x # id
    <3>1. x \in OpenFlows(t.exports[r])
      BY <1>4, <2>2 DEF Others
    <3>2. PICK j \in Slots(t) : t.flowlist[j].active /\ t.flowlist[j].id = x
      BY <3>1 DEF Output, Owned, AliveIds
    <3>3. j \in Slots(u) /\ u.flowlist[j] = t.flowlist[j]
      BY <1>2, <2>2, <3>2
    <3> QED
      BY <3>2, <3>3 DEF AliveIds
  <2> QED
    BY <2>1, <2>2
<1>8. ASSUME NEW j \in Slots(u) PROVE Owns(u, j)
  <2>1. CASE j = i
    BY <1>6, <2>1 DEF Owns
  <2>2. CASE j # i
    <3>1. j \in Slots(t) /\ u.flowlist[j] = t.flowlist[j]
      BY <1>3, <2>2
    <3> SUFFICES ASSUME options.sort # "none", NEW r \in t.flowlist[j].recording
                 PROVE  t.flowlist[j].id \in OpenFlows(u.exports[r])
      BY <3>1 DEF Owns
    <3>2. t.flowlist[j].active
      BY <3>1 DEF Output, Resting
    <3>3. t.flowlist[j].id # id
      BY <1>1, <1>5, <2>2, <3>1, <3>2 DEF Distinct
    <3>4. t.flowlist[j].id \in OpenFlows(t.exports[r])
      BY <3>1 DEF Output, Owned, Owns
    <3>5. r \in Records
      BY <1>5, <3>1
    <3> QED
      BY <1>4, <3>3, <3>4, <3>5 DEF Others
  <2> QED
    BY <2>1, <2>2
<1>9. ASSUME NEW j \in Slots(u), ~u.flowlist[j].active PROVE u.flowlist[j].recording = {}
  <2>1. CASE j = i
    BY <1>6, <1>9, <2>1
  <2>2. CASE j # i
    BY <1>3, <1>9, <2>2 DEF Output, Resting
  <2> QED
    BY <2>1, <2>2
<1> QED
  BY <1>4, <1>7, <1>8, <1>9 DEF Output, Owned, Resting

\* A new flow has no records yet.
LEMMA AddFlowOutput ==
    ASSUME NEW t, NEW n, Sound(t), NEW p \in Packets, options \in Options,
           t.flows[p.key] = 0, Output(t, n)
    PROVE  Output(AddFlow(t, p), n)
<1> DEFINE u == AddFlow(t, p)
           s == FreeSlot(t)
<1>1. Here(u, s) /\ \A j \in Slots(u) : j # s => j \in Slots(t) /\ u.flowlist[j] = t.flowlist[j]
  BY AddFlowSound
<1>2. /\ Len(u.flowlist) = IF t.freelist = <<>> THEN Len(t.flowlist) + 1
                           ELSE Len(t.flowlist)
      /\ u.flowlist[s] = InitFlow(t, p)
      /\ \A j \in 1 .. Len(t.flowlist) : j # s => u.flowlist[j] = t.flowlist[j]
  BY AddFlowFields
<1>3. u.exports = t.exports /\ u.sent = t.sent /\ u.issued = t.issued
  BY DEF AddFlow, Sound, TableType
<1>4. s \notin Slots(t) /\ Len(t.flowlist) \in Nat
  BY FreeSlotIsFree
<1>5. InitFlow(t, p).recording = {} /\ InitFlow(t, p).active
  <2>1. InitFlow(t, p).active
    BY InitFlowType DEF Sound
  <2>2. InitFlow(t, p).recording = {}
    BY DEF InitFlow, AddTimer
  <2> QED
    BY <2>1, <2>2
<1> HIDE DEF u, s
<1>6. \A j \in Slots(t) : j \in Slots(u) /\ u.flowlist[j] = t.flowlist[j]
  BY <1>2, <1>4 DEF Slots
<1>7. \A r \in Records : OpenFlows(u.exports[r]) \subseteq AliveIds(u)
  BY <1>3, <1>6 DEF Output, Owned, AliveIds
<1>8. ASSUME NEW j \in Slots(u)
      PROVE  Owns(u, j) /\ (~u.flowlist[j].active => u.flowlist[j].recording = {})
  <2>1. CASE j = s
    BY <1>2, <1>5, <2>1 DEF Owns
  <2>2. CASE j # s
    <3>1. j \in Slots(t) /\ u.flowlist[j] = t.flowlist[j]
      BY <1>1, <2>2
    <3> QED
      BY <1>3, <3>1 DEF Output, Owned, Owns, Resting
  <2> QED
    BY <2>1, <2>2
<1>9. LinesOK(u, n)
  BY <1>3 DEF Output, LinesOK, Line
<1> QED
  BY <1>7, <1>8, <1>9 DEF Output, Owned, Resting, u

\* A packet of a flow.
LEMMA HandledOutput ==
    ASSUME NEW t, NEW i, NEW p, NEW o, Sound(t), Accounted(t), Here(t, i),
           t.flowlist[i].active, options \in Options, Output(t, t.packets),
           NEW k, k = t.packets + 1
    PROVE  Output(HandlePacket(t, i, p, o), k)
<1>1. Lined(t, i, t.packets)
  BY OutputLined
<1>2. LinedOp(t, HandlePacket(t, i, p, o), i, k)
  BY <1>1, HandlePacketLined
<1> QED
  BY <1>2, LinedOutput

\* A packet of a new flow.
LEMMA HandledNewOutput ==
    ASSUME NEW t, NEW p \in Packets, NEW o, Sound(t), Accounted(t), options \in Options,
           t.flows[p.key] = 0, Output(t, t.packets), NEW k, k = t.packets + 1
    PROVE  Output(HandlePacket(AddFlow(t, p), FreeSlot(t), p, o), k)
<1> DEFINE v == AddFlow(t, p)
           s == FreeSlot(t)
<1>1. Sound(v) /\ Here(v, s)
  BY AddFlowSound
<1>2. v.flowlist[s].active /\ Accounted(v)
  BY AddFlowLife
<1>3. v.packets = t.packets
  BY AddFlowFrame DEF Sound
<1>4. Output(v, t.packets)
  BY AddFlowOutput
<1> HIDE DEF v, s
<1>5. Output(HandlePacket(v, s, p, o), k)
  BY <1>1, <1>2, <1>3, <1>4, HandledOutput
<1> QED
  BY <1>5 DEF v, s

\* FlowTable.Event before the output is flushed: a known flow, an expired one, or a
\* new one.
LEMMA DeliveredOutput ==
    ASSUME NEW t, NEW p \in Packets, NEW o, Idle(t), Accounted(t), options \in Options,
           Output(t, t.packets), NEW k, k = t.packets + 1
    PROVE  Output(Delivered(t, p, o), k)
<1> DEFINE i     == t.flows[p.key]
           known == i # 0 /\ t.flowlist[i] # Nil
           late  == known /\ t.when > t.flowlist[i].expireNext
           v     == IF late THEN ExpireFlow(t, i) ELSE t
           done  == IF known /\ (late => IsActive(v, i))
                    THEN HandlePacket(v, i, p, o)
                    ELSE HandlePacket(AddFlow(v, p), FreeSlot(v), p, o)
<1>1. Sound(t) /\ p.key \in Keys /\ t.when \in Nat /\ t.flows \in [Keys -> Nat]
  BY PacketsAssumption DEF PacketType, Idle, Sound, TableType
<1>2. ASSUME i # 0 PROVE known /\ Here(t, i) /\ t.flowlist[i].active
  <2>1. i \in Slots(t) /\ t.flowlist[i].key = p.key
    BY <1>1, <1>2 DEF Sound, MapMatchesList
  <2> QED
    BY <1>2, <2>1 DEF Idle, Sound, AllActive, Here, Slots
<1>3. Delivered(t, p, o) = done
  BY DEF Delivered
<1>4. CASE i = 0
  <2>1. done = HandlePacket(AddFlow(t, p), FreeSlot(t), p, o)
    BY <1>4
  <2> HIDE DEF done
  <2> QED
    BY <1>1, <1>3, <1>4, <2>1, HandledNewOutput
<1>5. CASE i # 0 /\ ~late
  <2>1. done = HandlePacket(t, i, p, o)
    BY <1>2, <1>5
  <2> HIDE DEF done
  <2> QED
    BY <1>1, <1>2, <1>3, <1>5, <2>1, HandledOutput
<1>6. CASE i # 0 /\ late
  <2>1. v = ExpireFlow(t, i) /\ known /\ Here(t, i) /\ t.flowlist[i].active
    BY <1>2, <1>6
  <2>2. done = IF IsActive(v, i) THEN HandlePacket(v, i, p, o)
               ELSE HandlePacket(AddFlow(v, p), FreeSlot(v), p, o)
    BY <1>6, <2>1
  <2> HIDE DEF v, done, i, late, known
  <2>3. LinedOp(t, v, i, t.packets)
    BY <2>1, OutputLined, ExpireFlowLined
  <2>4. LifeOp(t, v, i) /\ FlowOp(t, v, i)
    BY <2>3 DEF LinedOp, GoesOnLined, EndsLined, LifeOp, GoesOn, Ends, FlowOp
  <2>5. v.packets = t.packets
    BY <2>1, <2>4, FlowOpSlots DEF SameFrame
  <2>6. Sound(v) /\ Accounted(v)
    BY <1>1, <2>1, <2>4, FlowOpSound, LifeAccounted
  <2>7. Output(v, v.packets)
    BY <1>1, <2>1, <2>3, <2>5, LinedOutput
  <2>8. CASE GoesOn(t, v, i)
    <3>1. Here(v, i) /\ v.flowlist[i].active
      BY <2>1, <2>8, GoesOnHere DEF GoesOn
    <3>2. IsActive(v, i)
      BY <3>1 DEF Here, Slots, IsActive
    <3> QED
      BY <1>3, <2>2, <2>5, <2>6, <2>7, <3>1, <3>2, HandledOutput
  <2>9. CASE Ends(t, v, i)
    <3>1. ~IsActive(v, i)
      BY <2>9, EndsInactive
    <3>2. v.flows[p.key] = 0
      <4>1. Dropped(t, v, i)
        <5> SUFFICES ASSUME Kept(t, v, i) PROVE FALSE
          BY <2>9 DEF Ends, FlowOp
        <5>1. v.flowlist[i].active /\ v.flowlist[i] # Nil
          BY NilAssumption DEF Kept, Idle
        <5> QED
          BY <3>1, <5>1 DEF IsActive
      <4>2. t.flowlist[i].key = p.key
        BY <1>1, <1>6 DEF Sound, MapMatchesList, i
      <4> QED
        BY <1>1, <4>1, <4>2 DEF Dropped
    <3> QED
      BY <1>3, <2>2, <2>5, <2>6, <2>7, <3>1, <3>2, HandledNewOutput
  <2> QED
    BY <2>4, <2>8, <2>9 DEF LifeOp
<1> QED
  BY <1>4, <1>5, <1>6

\* A table that differs in its output only, with the same unfinished export records.
LEMMA SameOpenOutput ==
    ASSUME NEW t, NEW u, NEW n, TableType(t), Output(t, n), LinesOK(u, n),
           u.flowlist = t.flowlist,
           \A r \in Records : OpenFlows(u.exports[r]) = OpenFlows(t.exports[r])
    PROVE  Output(u, n)
<1>1. Slots(u) = Slots(t) /\ AliveIds(u) = AliveIds(t)
  BY DEF Slots, AliveIds
<1>2. \A j \in Slots(t) : t.flowlist[j].recording \subseteq Records
  BY SlotHoldsFlow DEF Flow
<1>3. \A j \in Slots(u) : Owns(u, j)
  BY <1>1, <1>2 DEF Output, Owned, Owns
<1>4. \A r \in Records : OpenFlows(u.exports[r]) \subseteq AliveIds(u)
  BY <1>1 DEF Output, Owned
<1> QED
  BY <1>1, <1>3, <1>4 DEF Output, Owned, Resting

\* The back of no list is done.
NoneHeld(t) ==
    \A r \in Records :
        LET list == t.exports[r] IN list # <<>> => ~list[Len(list)].done

\* Flushing keeps the output in order and holds nothing back.
LEMMA FlushOutput ==
    ASSUME NEW t, NEW n, TableType(t), Output(t, n)
    PROVE  Output(Flush(t), n) /\ NoneHeld(Flush(t))
<1> DEFINE u == Flush(t)
           sent(r) == t.sent[r] \o Flushed(t.exports[r])
           kept(r) == KeptByFlush(t.exports[r])
<1>1. /\ t.exports \in [Records -> Seq(Entry)] /\ t.sent \in [Records -> Seq(Entry)]
      /\ t.issued \in [Records -> Seq(Entry)] /\ \A r \in Records : Line(t, r, n)
  BY DEF Output, LinesOK
<1>2. /\ u.exports = [r \in Records |-> kept(r)] /\ u.sent = [r \in Records |-> sent(r)]
      /\ u.issued = t.issued /\ u.flowlist = t.flowlist
  BY <1>1 DEF Flush, TableType
<1>3. \A r \in Records : /\ LineOK(kept(r), sent(r), t.issued[r], n)
                         /\ OpenFlows(kept(r)) = OpenFlows(t.exports[r])
                         /\ kept(r) # <<>> => ~kept(r)[Len(kept(r))].done
  BY <1>1, LineFlush DEF Line
<1> HIDE DEF u, sent, kept
<1>4. \A r \in Records : u.exports[r] = kept(r) /\ u.sent[r] = sent(r)
  BY <1>2
<1>5. \A r \in Records : Line(u, r, n)
  BY <1>2, <1>3, <1>4 DEF Line
<1>6. /\ u.exports \in [Records -> Seq(Entry)] /\ u.sent \in [Records -> Seq(Entry)]
      /\ u.issued \in [Records -> Seq(Entry)]
  BY <1>1, <1>2, <1>3 DEF LineOK
<1>7. LinesOK(u, n)
  BY <1>5, <1>6 DEF LinesOK
<1>8. Output(u, n)
  BY <1>2, <1>3, <1>4, <1>7, SameOpenOutput
<1>9. NoneHeld(u)
  BY <1>3, <1>4 DEF NoneHeld
<1> QED
  BY <1>8, <1>9 DEF u

\* Flushing all does so without sorting by time, or when no flow is left, and then it
\* leaves nothing.
LEMMA FlushAllOutput ==
    ASSUME NEW t, NEW n, TableType(t), Output(t, n),
           options.sort \in {"start", "stop"} => Slots(t) = {}
    PROVE  /\ Output(FlushAll(t), n)
           /\ Slots(t) = {} => \A r \in Records : FlushAll(t).exports[r] = <<>>
<1> DEFINE u == FlushAll(t)
           sent(r) == t.sent[r] \o FlushedAll(t.exports[r])
           kept(r) == KeptByFlushAll(t.exports[r])
<1>1. /\ t.exports \in [Records -> Seq(Entry)] /\ t.sent \in [Records -> Seq(Entry)]
      /\ t.issued \in [Records -> Seq(Entry)] /\ \A r \in Records : Line(t, r, n)
  BY DEF Output, LinesOK
<1>2. /\ u.exports = [r \in Records |-> kept(r)] /\ u.sent = [r \in Records |-> sent(r)]
      /\ u.issued = t.issued /\ u.flowlist = t.flowlist
  BY <1>1 DEF FlushAll, TableType
<1>3. Slots(t) = {} => \A r \in Records : OpenFlows(t.exports[r]) = {}
  BY DEF Output, Owned, AliveIds
<1>4. \A r \in Records : /\ LineOK(kept(r), sent(r), t.issued[r], n)
                         /\ OpenFlows(kept(r)) = OpenFlows(t.exports[r])
                         /\ OpenFlows(t.exports[r]) = {} => kept(r) = <<>>
  BY <1>1, <1>3, LineFlushAll DEF Line
<1> HIDE DEF u, sent, kept
<1>5. \A r \in Records : u.exports[r] = kept(r) /\ u.sent[r] = sent(r)
  BY <1>2
<1>6. \A r \in Records : Line(u, r, n)
  BY <1>2, <1>4, <1>5 DEF Line
<1>7. /\ u.exports \in [Records -> Seq(Entry)] /\ u.sent \in [Records -> Seq(Entry)]
      /\ u.issued \in [Records -> Seq(Entry)]
  BY <1>1, <1>2, <1>4 DEF LineOK
<1>8. LinesOK(u, n)
  BY <1>6, <1>7 DEF LinesOK
<1>9. Output(u, n)
  BY <1>2, <1>4, <1>5, <1>8, SameOpenOutput
<1>10. Slots(t) = {} => \A r \in Records : u.exports[r] = <<>>
  BY <1>3, <1>4, <1>5
<1> QED
  BY <1>9, <1>10 DEF u

\* What follows Expire and expireWindow.
LEMMA FlushExpiredOutput ==
    ASSUME NEW t, NEW n, TableType(t), Output(t, n)
    PROVE  /\ Output(FlushExpired(t), n)
           /\ options.sort \in {"start", "stop"} => NoneHeld(FlushExpired(t))
<1>1. Output(Flush(t), n) /\ NoneHeld(Flush(t))
  BY FlushOutput
<1>2. options.sort = "expiry" => Output(FlushAll(t), n)
  BY FlushAllOutput
<1> QED
  BY <1>1, <1>2 DEF FlushExpired

\* FlowTable.Event, which may flush the output in the end.
LEMMA DeliverOutput ==
    ASSUME NEW t, NEW p \in Packets, NEW o, Idle(t), Accounted(t), options \in Options,
           Output(t, t.packets), NEW k, k = t.packets + 1
    PROVE  /\ Output(Deliver(t, p, o), k)
           /\ options.sort \in {"start", "stop"} => NoneHeld(Deliver(t, p, o))
<1> DEFINE done == Delivered(t, p, o)
<1>1. Output(done, k)
  BY DeliveredOutput
<1>2. TableType(done)
  BY DeliveredIdle DEF Idle, Sound
<1>3. Deliver(t, p, o) = IF options.sort \in {"start", "stop"} THEN Flush(done) ELSE done
  BY DeliverIsDelivered
<1> HIDE DEF done
<1>4. Output(Flush(done), k) /\ NoneHeld(Flush(done))
  BY <1>1, <1>2, FlushOutput
<1> QED
  BY <1>1, <1>3, <1>4

\* The end of a loop that empties the table, once no flow is active.
LEMMA ClearOutput ==
    ASSUME NEW t, NEW n, TableType(t), Output(t, n),
           \A i \in Slots(t) : ~t.flowlist[i].active
    PROVE  Output(Clear(t), n) /\ Slots(Clear(t)) = {}
<1> DEFINE u == Clear(t)
<1>1. /\ u.exports = t.exports /\ u.sent = t.sent /\ u.issued = t.issued
      /\ u.flowlist = <<>>
  BY DEF Clear, TableType
<1>2. AliveIds(t) = {} /\ Slots(u) = {}
  BY <1>1 DEF AliveIds, Slots
<1> HIDE DEF u
<1>3. \A r \in Records : OpenFlows(u.exports[r]) \subseteq AliveIds(u)
  BY <1>1, <1>2 DEF Output, Owned
<1>4. LinesOK(u, n)
  BY <1>1 DEF Output, LinesOK, Line
<1>5. Output(u, n)
  BY <1>2, <1>3, <1>4 DEF Output, Owned, Resting
<1> QED
  BY <1>2, <1>5 DEF u

--------------------------------------------------------------------------------
(* 5. The steps of the specification.                                        *)

\* Packets numbered so, and above, are still to come; while a window ends, the packet
\* that opened the next one is counted but not in the table.
Coming == IF loop.op = "window" THEN tab.packets ELSE tab.packets + 1

OInv ==
    /\ LInv
    /\ Output(tab, Coming)
    /\ NothingHeldBack
    /\ EOFEmpties

\* The parts of the invariant, put together for the next state.
LEMMA OInvNext ==
    ASSUME LInv', options' = options, NEW k, Output(tab', k),
           k = IF loop'.op = "window" THEN tab'.packets ELSE tab'.packets + 1,
           options.sort \in {"start", "stop"} /\ loop'.op = "none" => NoneHeld(tab'),
           loop'.op = "done" => \A r \in Records : tab'.exports[r] = <<>>
    PROVE  OInv'
<1>1. k = Coming'
  BY DEF Coming
<1>2. Output(tab, Coming)'
  BY <1>1 DEF Output, LinesOK, Line, LineOK, Owned, Owns, Resting, AliveIds, Slots
<1>3. NothingHeldBack'
  BY DEF NothingHeldBack, NoneHeld
<1>4. EOFEmpties'
  <2> SUFFICES ASSUME loop'.op = "done", NEW r \in Records
               PROVE  tab'.exports[r] = <<>> /\ Len(tab'.issued[r]) = Len(tab'.sent[r])
    BY DEF EOFEmpties
  <2>1. tab'.exports[r] = <<>>
    OBVIOUS
  <2>2. Cardinality(DonePlaces(tab'.exports[r])) = 0
    <3>1. DonePlaces(tab'.exports[r]) = {}
      BY <2>1 DEF DonePlaces
    <3> QED
      BY <3>1, FS_EmptySet
  <2>3. tab'.sent[r] \in Seq(Entry)
    BY DEF Output, LinesOK
  <2>4. Len(tab'.sent[r]) \in Nat
    BY <2>3
  <2>5. Len(tab'.issued[r]) = Len(tab'.sent[r]) + Cardinality(DonePlaces(tab'.exports[r]))
    BY DEF Output, LinesOK, Line, LineOK, Conserved
  <2> QED
    BY <2>1, <2>2, <2>4, <2>5
<1> QED
  BY <1>2, <1>3, <1>4 DEF OInv

\* Tables that differ in the time, the flags or the window have the same output.
LEMMA SameOutputs ==
    ASSUME NEW t, NEW u, NEW n, Output(t, n), u.flowlist = t.flowlist,
           u.exports = t.exports, u.sent = t.sent, u.issued = t.issued
    PROVE  Output(u, n)
BY DEF Output, LinesOK, Line, Owned, Owns, Resting, AliveIds, Slots

\* A packet for the current window.
LEMMA EventOutput ==
    ASSUME OInv, LInv', NEW p \in Packets, NEW when \in Times, Event(p, when)
    PROVE  OInv'
<1> DEFINE u == Arrived(when)
<1>1. /\ when \in Nat /\ loop.op = "none" /\ options \in Options /\ TableType(tab)
      /\ loop' = loop /\ options' = options
  BY BoundsAssumption DEF Event, OInv, LInv, IInv, Sound
<1>2. Idle(tab)
  BY <1>1, TabIdle DEF OInv, LInv
<1>3. SameTable(tab, u) /\ SameLives(tab, u)
  <2>1. SameTable(tab, u)
    BY <1>1, ArrivedSame DEF Arrived
  <2>2. SameLives(tab, u)
    BY <1>1 DEF Arrived, TableType, SameLives
  <2> QED
    BY <2>1, <2>2
<1>4. /\ u.packets = tab.packets + 1 /\ tab.packets \in Nat /\ u.flowlist = tab.flowlist
      /\ u.exports = tab.exports /\ u.sent = tab.sent /\ u.issued = tab.issued
  BY <1>1 DEF Arrived, TableType
<1>5. PICK o \in Outcomes : tab' = Deliver(u, p, o)
  BY DEF Event
<1> HIDE DEF u
<1>6. Idle(u)
  BY <1>2, <1>3, SameTableSound DEF Idle, SameTable, AllActive
<1>7. Accounted(u)
  BY <1>3, SameLivesSame DEF OInv, LInv
<1>8. Output(u, u.packets)
  BY <1>1, <1>4, SameOutputs DEF OInv, Coming
<1> DEFINE k == u.packets + 1
<1>9. /\ Output(tab', k)
      /\ options.sort \in {"start", "stop"} => NoneHeld(tab')
  BY <1>1, <1>5, <1>6, <1>7, <1>8, DeliverOutput
<1>10. tab'.packets = u.packets
  BY <1>1, <1>5, <1>6, <1>7, DeliverLife DEF Handled
<1>11. k = IF loop'.op = "window" THEN tab'.packets ELSE tab'.packets + 1
  BY <1>1, <1>10
<1> HIDE DEF k
<1> QED
  BY <1>1, <1>9, <1>11, OInvNext

\* A packet for another window, Expire and EOF start a loop.
LEMMA LoopStartOutput ==
    ASSUME OInv, LInv', NEW when \in Times,
           \/ \E p \in Packets : EventOfOtherWindow(p, when)
           \/ Expire(when)
           \/ EOF(when)
    PROVE  OInv'
<1>1. TableType(tab) /\ tab.packets \in Nat
  BY DEF OInv, LInv, IInv, Sound, TableType
<1>2. /\ loop.op = "none" /\ options' = options /\ loop'.op \in {"window", "expire", "eof"}
      /\ tab'.flowlist = tab.flowlist
      /\ tab'.exports = tab.exports /\ tab'.sent = tab.sent /\ tab'.issued = tab.issued
      /\ tab'.packets = IF loop'.op = "window" THEN tab.packets + 1 ELSE tab.packets
  <2>1. CASE \E p \in Packets : EventOfOtherWindow(p, when)
    BY <1>1, <2>1 DEF EventOfOtherWindow, Arrived, TableType, LoopFor
  <2>2. CASE Expire(when)
    BY <1>1, <2>2 DEF Expire, TableType, LoopFor
  <2>3. CASE EOF(when)
    BY <1>1, <2>3 DEF EOF, TableType, LoopFor
  <2> QED
    BY <2>1, <2>2, <2>3
<1> DEFINE k == tab.packets + 1
<1>3. Output(tab, k)
  BY <1>2 DEF OInv, Coming
<1>4. k = IF loop'.op = "window" THEN tab'.packets ELSE tab'.packets + 1
  BY <1>1, <1>2
<1> HIDE DEF k
<1>5. Output(tab', k)
  BY <1>2, <1>3, SameOutputs
<1> QED
  BY <1>2, <1>4, <1>5, OInvNext

\* One element of a loop.
LEMMA LoopElementOutput ==
    ASSUME OInv, LInv', loop.op \in {"expire", "window", "eof"},
           loop.at <= Len(tab.flowlist), NextElement,
           tab.flowlist[loop.at] = Nil => tab' = tab,
           Lined(tab, loop.at, Coming) /\ tab.flowlist[loop.at].active
                => LinedOp(tab, tab', loop.at, Coming)
    PROVE  OInv'
<1> DEFINE i == loop.at
           k == Coming
<1>1. /\ i \in 1 .. Len(tab.flowlist) /\ loop'.op = loop.op /\ options' = options
      /\ Sound(tab) /\ Accounted(tab) /\ Output(tab, k)
  BY DEF OInv, LInv, IInv, LoopType, NextElement, Sound, TableType
<1> HIDE DEF i, k
<1>2. Output(tab', k) /\ tab'.packets = tab.packets
  <2>1. CASE tab.flowlist[i] = Nil
    BY <1>1, <2>1 DEF i
  <2>2. CASE tab.flowlist[i] # Nil
    <3>1. i \in Slots(tab)
      BY <1>1, <2>2 DEF Slots
    <3>2. Here(tab, i) /\ tab.flowlist[i].active
      BY <1>1, <3>1 DEF Here, OInv, LInv, IInv, Sound, MapMatchesList, OnlyPassedInactive, i
    <3>3. Lined(tab, i, k)
      BY <1>1, <3>2, OutputLined
    <3>4. LinedOp(tab, tab', i, k)
      BY <3>2, <3>3 DEF i, k
    <3>5. Output(tab', k)
      BY <1>1, <3>2, <3>4, LinedOutput
    <3>6. tab'.packets = tab.packets
      BY <3>2, <3>4, FlowOpSlots
      DEF LinedOp, GoesOnLined, EndsLined, GoesOn, Ends, FlowOp, SameFrame
    <3> QED
      BY <3>5, <3>6
  <2> QED
    BY <2>1, <2>2
<1>3. k = IF loop'.op = "window" THEN tab'.packets ELSE tab'.packets + 1
  BY <1>1, <1>2 DEF Coming, k
<1> QED
  BY <1>1, <1>2, <1>3, OInvNext

\* One flow of an expiry, of EOF or of the end of a window.
LEMMA LoopElementsOutput ==
    ASSUME OInv, LInv', ExpireStep \/ EOFStep \/ WindowStep
    PROVE  OInv'
<1>1. CASE ExpireStep
  <2>1. /\ loop.op = "expire" /\ loop.at <= Len(tab.flowlist) /\ NextElement
        /\ tab' = IF tab.flowlist[loop.at] = Nil THEN tab ELSE ExpireIfDue(tab, loop.at)
    BY <1>1 DEF ExpireStep, InLoop
  <2>2. ASSUME Lined(tab, loop.at, Coming), tab.flowlist[loop.at].active
        PROVE  LinedOp(tab, tab', loop.at, Coming)
    <3>1. tab' = ExpireIfDue(tab, loop.at)
      BY <2>1, <2>2 DEF Lined, Here, Slots
    <3> QED
      BY <2>2, <3>1, ExpireIfDueLined
  <2> QED
    BY <2>1, <2>2, LoopElementOutput
<1>2. ASSUME NEW reason \in Reasons, NEW ctx, tab' = EndFlow(tab, loop.at, reason, ctx),
             loop.op \in {"window", "eof"}, loop.at <= Len(tab.flowlist), NextElement,
             Here(tab, loop.at) => ctx \in Nat \cup {Nil}
      PROVE  OInv'
  <2>1. tab.flowlist[loop.at] = Nil => tab' = tab
    BY <1>2 DEF EndFlow
  <2>2. ASSUME Lined(tab, loop.at, Coming), tab.flowlist[loop.at].active
        PROVE  LinedOp(tab, tab', loop.at, Coming)
    <3>1. ctx \in Nat \cup {Nil}
      BY <1>2, <2>2 DEF Lined
    <3> QED
      BY <1>2, <2>2, <3>1, EndFlowLined
  <2> QED
    BY <1>2, <2>1, <2>2, LoopElementOutput
<1>3. CASE EOFStep
  <2> DEFINE ctx == tab.flowlist[loop.at].id
  <2>1. /\ loop.op = "eof" /\ loop.at <= Len(tab.flowlist) /\ NextElement
        /\ tab' = EndFlow(tab, loop.at, "forced", ctx)
    BY <1>3 DEF EOFStep, InLoop
  <2>2. Here(tab, loop.at) => ctx \in Nat \cup {Nil}
    BY SlotHoldsFlow DEF Here, Flow
  <2>3. "forced" \in Reasons
    BY DEF Reasons
  <2> HIDE DEF ctx
  <2> QED
    BY <1>2, <2>1, <2>2, <2>3
<1>4. CASE WindowStep
  <2>1. /\ loop.op = "window" /\ loop.at <= Len(tab.flowlist) /\ NextElement
        /\ tab' = EndFlow(tab, loop.at, "end", tab.ctx)
    BY <1>4 DEF WindowStep, InLoop
  <2>2. tab.ctx \in Nat \cup {Nil} /\ "end" \in Reasons
    BY DEF Reasons, OInv, LInv, IInv, Sound, TableType
  <2> QED
    BY <1>2, <2>1, <2>2
<1> QED
  BY <1>1, <1>3, <1>4

\* A loop that has passed the whole list leaves a table without flows.
LEMMA PassedOutput ==
    ASSUME OInv, loop.op \in {"window", "eof"}, loop.at > Len(tab.flowlist)
    PROVE  LET t == Clear(tab)
           IN  /\ Output(t, Coming) /\ Slots(t) = {} /\ Idle(t) /\ TableType(t)
               /\ Accounted(t) /\ t.packets = tab.packets
<1> DEFINE t == Clear(tab)
<1>1. TableType(tab) /\ Sound(tab)
  BY DEF OInv, LInv, IInv, Sound
<1>2. \A j \in Slots(tab) : j < loop.at
  BY <1>1 DEF OInv, LInv, IInv, LoopType, TableType, Slots
<1>3. \A j \in Slots(tab) : ~tab.flowlist[j].active
  BY <1>2 DEF OInv, LInv, Passed
<1>4. Output(t, Coming) /\ Slots(t) = {}
  BY <1>1, <1>3, ClearOutput DEF OInv
<1>5. Idle(t)
  BY <1>1, ClearIdle
<1>6. TableType(t)
  BY <1>5 DEF Idle, Sound
<1>7. Accounted(t)
  BY ClearLives DEF OInv
<1>8. t.packets = tab.packets
  BY <1>1 DEF Clear, TableType
<1> QED
  BY <1>4, <1>5, <1>6, <1>7, <1>8

\* The end of an expiry, of EOF or of a window.
LEMMA LoopEndsOutput ==
    ASSUME OInv, LInv', ExpireDone \/ EOFDone \/ WindowDone
    PROVE  OInv'
<1>1. TableType(tab) /\ tab.packets \in Nat /\ options \in Options
  BY DEF OInv, LInv, IInv, Sound, TableType
<1>2. CASE ExpireDone
  <2> DEFINE t == [tab EXCEPT !.expiring = FALSE]
             k == tab.packets + 1
  <2>1. /\ loop.op = "expire" /\ tab' = FlushExpired(t) /\ loop' = NoLoop
        /\ options' = options
    BY <1>2 DEF ExpireDone, LoopOver
  <2>2. /\ TableType(t) /\ t.flowlist = tab.flowlist /\ t.packets = tab.packets
        /\ t.exports = tab.exports /\ t.sent = tab.sent /\ t.issued = tab.issued
    BY <1>1 DEF TableType
  <2>3. Output(tab, k)
    BY <2>1 DEF OInv, Coming
  <2> HIDE DEF t
  <2>4. Output(t, k)
    BY <2>2, <2>3, SameOutputs
  <2>5. Output(tab', k) /\ (options.sort \in {"start", "stop"} => NoneHeld(tab'))
    BY <2>1, <2>2, <2>4, FlushExpiredOutput
  <2>6. tab'.packets = tab.packets
    BY <2>1, <2>2, FlushLives
  <2>7. k = IF loop'.op = "window" THEN tab'.packets ELSE tab'.packets + 1
    BY <2>1, <2>6 DEF NoLoop
  <2> HIDE DEF k
  <2>8. loop'.op # "done"
    BY <2>1 DEF NoLoop
  <2> QED
    BY <2>1, <2>5, <2>7, <2>8, OInvNext
<1>3. CASE EOFDone
  <2> DEFINE t == Clear(tab)
             k == tab.packets + 1
  <2>1. /\ loop.op = "eof" /\ loop.at > Len(tab.flowlist)
        /\ tab' = IF options.sort = "none" THEN t ELSE FlushAll(t)
        /\ loop'.op = "done" /\ options' = options
    BY <1>3 DEF EOFDone, LoopOver, NoLoop
  <2> HIDE DEF t
  <2>2. /\ Output(t, Coming) /\ Slots(t) = {} /\ Idle(t) /\ TableType(t)
        /\ Accounted(t) /\ t.packets = tab.packets
    BY <2>1, PassedOutput DEF t
  <2>3. Output(t, k)
    BY <2>1, <2>2 DEF Coming
  <2>4. /\ Output(FlushAll(t), k)
        /\ \A r \in Records : FlushAll(t).exports[r] = <<>>
    BY <2>2, <2>3, FlushAllOutput
  <2>5. options.sort = "none" => \A r \in Records : t.exports[r] = <<>>
    BY <2>3 DEF Output, LinesOK, Line, LineOK
  <2>6. Output(tab', k) /\ \A r \in Records : tab'.exports[r] = <<>>
    BY <2>1, <2>3, <2>4, <2>5
  <2>7. tab'.packets = tab.packets
    BY <2>1, <2>2, FlushLives
  <2>8. k = IF loop'.op = "window" THEN tab'.packets ELSE tab'.packets + 1
    BY <2>1, <2>7
  <2> HIDE DEF k
  <2> QED
    BY <2>1, <2>6, <2>8, OInvNext
<1>4. CASE WindowDone
  <2> DEFINE c == Clear(tab)
             t == FlushExpired(c)
             p == loop.packet
             u == [t EXCEPT !.window = p.window]
             k == u.packets + 1
  <2>1. /\ loop.op = "window" /\ loop.at > Len(tab.flowlist) /\ loop' = NoLoop
        /\ options' = options
    BY <1>4 DEF WindowDone, LoopOver
  <2>2. PICK o \in Outcomes : tab' = Deliver(u, p, o)
    BY <1>4 DEF WindowDone
  <2>3. p \in Packets /\ p.window \in Nat
    BY <2>1, PacketsAssumption DEF OInv, LInv, IInv, LoopType, PacketType
  <2> HIDE DEF c
  <2>4. /\ Output(c, Coming) /\ Slots(c) = {} /\ Idle(c) /\ TableType(c)
        /\ Accounted(c) /\ c.packets = tab.packets
    BY <2>1, PassedOutput DEF c
  <2> HIDE DEF t, p
  <2>5. SameLives(c, t) /\ Idle(t) /\ t.packets = c.packets
    BY <2>4, FlushLives, FlushIdle DEF t
  <2>6. Output(t, tab.packets)
    BY <2>1, <2>4, FlushExpiredOutput DEF Coming, t
  <2>7. /\ TableType(u) /\ u.flows = t.flows /\ u.flowlist = t.flowlist
        /\ u.freelist = t.freelist /\ u.eof = t.eof
        /\ u.ended = t.ended /\ u.twice = t.twice /\ u.flowID = t.flowID
        /\ u.packets = t.packets
        /\ u.exports = t.exports /\ u.sent = t.sent /\ u.issued = t.issued
    BY <2>3, <2>5 DEF Idle, Sound, TableType
  <2> HIDE DEF u
  <2>8. Idle(u)
    BY <2>5, <2>7, StructureSound DEF Idle, AllActive, Slots
  <2>9. Accounted(u)
    <3>1. Accounted(t)
      BY <2>4, <2>5, SameLivesSame
    <3>2. Living(u) = Living(t)
      BY <2>7 DEF Living, LivingFlow, IsActive
    <3> QED
      BY <2>7, <3>1, <3>2 DEF Accounted
  <2>10. Output(u, u.packets)
    BY <2>4, <2>5, <2>6, <2>7, SameOutputs
  <2>11. /\ Output(tab', k)
         /\ options.sort \in {"start", "stop"} => NoneHeld(tab')
    BY <1>1, <2>2, <2>3, <2>8, <2>9, <2>10, DeliverOutput
  <2>12. tab'.packets = u.packets
    BY <1>1, <2>2, <2>3, <2>8, <2>9, DeliverLife DEF Handled
  <2>13. k = IF loop'.op = "window" THEN tab'.packets ELSE tab'.packets + 1
    BY <2>1, <2>12 DEF NoLoop
  <2> HIDE DEF k
  <2>14. loop'.op # "done"
    BY <2>1 DEF NoLoop
  <2> QED
    BY <2>1, <2>11, <2>13, <2>14, OInvNext
<1> QED
  BY <1>2, <1>3, <1>4

\* An empty table has sent nothing.
LEMMA OutputInit == Init => OInv
<1> SUFFICES ASSUME Init PROVE OInv
  OBVIOUS
<1> DEFINE none == [r \in Records |-> <<>>]
<1>1. /\ tab.flowlist = <<>> /\ tab.exports = none /\ tab.sent = none /\ tab.issued = none
      /\ tab.packets = 0 /\ loop.op = "none"
  BY DEF Init, NewFlowTable, NoLoop
<1>2. LineOK(<<>>, <<>>, <<>>, 1)
  <2>1. DonePlaces(<<>>) = {} /\ DoneOnes(<<>>) = {} /\ Elements(<<>>) = {}
    BY DEF DonePlaces, DoneOnes, Elements
  <2>2. Conserved(<<>>, <<>>, <<>>)
    BY <2>1, FS_EmptySet DEF Conserved
  <2>3. InTime(<<>>, <<>>, 1) /\ OneOpenEach(<<>>)
    BY DEF InTime, Down, Up, Before, Below, OneOpenEach, OpenPlaces
  <2> QED
    BY <2>2, <2>3 DEF LineOK
<1>3. /\ none \in [Records -> Seq(Entry)]
      /\ \A r \in Records : none[r] = <<>>
  OBVIOUS
<1> HIDE DEF none
<1>4. LinesOK(tab, 1)
  BY <1>1, <1>2, <1>3 DEF LinesOK, Line
<1>5. \A r \in Records : OpenFlows(tab.exports[r]) = {}
  BY <1>1, <1>3 DEF OpenFlows, OpenPlaces
<1>6. Slots(tab) = {}
  BY <1>1 DEF Slots
<1>7. Output(tab, 1)
  BY <1>4, <1>5, <1>6 DEF Output, Owned, Resting
<1>8. NothingHeldBack /\ EOFEmpties
  BY <1>1, <1>3 DEF NothingHeldBack, EOFEmpties
<1>9. Coming = 1
  BY <1>1 DEF Coming
<1> QED
  BY <1>7, <1>8, <1>9, LifeInit DEF OInv

\* Every step keeps the invariant of the output.
LEMMA OutputNext == OInv /\ [Next]_vars => OInv'
<1> SUFFICES ASSUME OInv, [Next]_vars PROVE OInv'
  OBVIOUS
<1>1. LInv'
  BY LifeNext DEF OInv, StepHolds
<1>2. CASE UNCHANGED vars
  <2>1. tab' = tab /\ loop' = loop /\ options' = options
    BY <1>2 DEF vars
  <2> DEFINE k == Coming
  <2>2. Output(tab', k) /\ NothingHeldBack /\ EOFEmpties
    BY <2>1 DEF OInv
  <2>3. k = IF loop'.op = "window" THEN tab'.packets ELSE tab'.packets + 1
    BY <2>1 DEF Coming
  <2>4. options.sort \in {"start", "stop"} /\ loop'.op = "none" => NoneHeld(tab')
    BY <2>1, <2>2 DEF NothingHeldBack, NoneHeld
  <2>5. loop'.op = "done" => \A r \in Records : tab'.exports[r] = <<>>
    BY <2>1, <2>2 DEF EOFEmpties
  <2> HIDE DEF k
  <2> QED
    BY <1>1, <2>1, <2>2, <2>3, <2>4, <2>5, OInvNext
<1>3. CASE LoopNext
  BY <1>1, <1>3, LoopElementsOutput, LoopEndsOutput DEF LoopNext
<1>4. CASE \E when \in Times : \E p \in Packets : Event(p, when)
  BY <1>1, <1>4, EventOutput
<1>5. CASE \E when \in Times : (\E p \in Packets : EventOfOtherWindow(p, when))
                               \/ Expire(when) \/ EOF(when)
  BY <1>1, <1>5, LoopStartOutput
<1> QED
  BY <1>2, <1>3, <1>4, <1>5 DEF Next

\* The inductive invariant of a table with its output.
THEOREM OutputInvariance == Spec => []OInv
BY OutputInit, OutputNext, PTL DEF Spec

\* The types of every field, and of the loop that is under way.
THEOREM TableTypes == Spec => []TypeOK
<1>1. OInv => TypeOK
  BY DEF OInv, LInv, IInv, Sound, Output, LinesOK, TypeOK
<1> QED
  BY <1>1, OutputInvariance, PTL

\* Unfinished export records belong to active flows, whose records have one each: the
\* export lists follow Stop, Export, new export records, the flushes and the clearing of
\* the table (flows/flow.go, flows/export.go, flows/table.go), so nothing that is left
\* over holds back the output behind it.
THEOREM OpenEntriesStayOwned == Spec => []OpenEntriesOwned
<1>1. OInv => OpenEntriesOwned
  <2> SUFFICES ASSUME OInv, options.sort # "none", NEW r \in Records
               PROVE  LET list == tab.exports[r]
                          open == {a \in 1 .. Len(list) : ~list[a].done}
                      IN  /\ \A a \in open : \E i \in Slots(tab) :
                              tab.flowlist[i].active /\ tab.flowlist[i].id = list[a].flow
                          /\ \A a, b \in open : list[a].flow = list[b].flow => a = b
                          /\ \A i \in Slots(tab) : r \in tab.flowlist[i].recording =>
                              HasOpen(list, tab.flowlist[i].id)
    BY DEF OpenEntriesOwned
  <2> DEFINE list == tab.exports[r]
  <2>1. /\ OneOpenEach(list) /\ OpenFlows(list) \subseteq AliveIds(tab)
        /\ \A i \in Slots(tab) : r \in tab.flowlist[i].recording =>
              tab.flowlist[i].id \in OpenFlows(list)
    BY DEF OInv, Output, LinesOK, Line, LineOK, Owned, Owns
  <2>2. \A id \in OpenFlows(list) : HasOpen(list, id)
    BY DEF OpenFlows, OpenPlaces, HasOpen
  <2>3. \A a \in OpenPlaces(list) : list[a].flow \in AliveIds(tab)
    BY <2>1 DEF OpenFlows
  <2>4. \A a \in OpenPlaces(list) : \E i \in Slots(tab) :
            tab.flowlist[i].active /\ tab.flowlist[i].id = list[a].flow
    BY <2>3 DEF AliveIds
  <2>5. OpenPlaces(list) = {a \in 1 .. Len(list) : ~list[a].done}
    BY DEF OpenPlaces
  <2> HIDE DEF list
  <2> QED
    BY <2>1, <2>2, <2>4, <2>5 DEF OneOpenEach, list
<1> QED
  BY <1>1, OutputInvariance, PTL

\* What a record exported is in its list or was sent on, once.
THEOREM ExportsStayConserved == Spec => []ExportsConserved
<1>1. OInv => ExportsConserved
  <2> SUFFICES ASSUME OInv, NEW r \in Records
               PROVE  LET done == {a \in 1 .. Len(tab.exports[r]) : tab.exports[r][a].done}
                          here == {tab.exports[r][a] : a \in done}
                          gone == {tab.sent[r][a] : a \in 1 .. Len(tab.sent[r])}
                      IN  /\ Len(tab.issued[r]) = Len(tab.sent[r]) + Cardinality(done)
                          /\ {tab.issued[r][a] : a \in 1 .. Len(tab.issued[r])}
                                = here \cup gone
    BY DEF ExportsConserved
  <2>1. Conserved(tab.exports[r], tab.sent[r], tab.issued[r])
    BY DEF OInv, Output, LinesOK, Line, LineOK
  <2> QED
    BY <2>1 DEF Conserved, DonePlaces, DoneOnes, Elements
<1> QED
  BY <1>1, OutputInvariance, PTL

\* With start or stop sorting a table sends on in the order of the first or last packets,
\* over all flushes.
THEOREM OutputStaysSorted == Spec => []OutputSorted
<1>1. OInv => OutputSorted
  BY DEF OInv, Output, LinesOK, Line, LineOK, InTime, Up, OutputSorted
<1> QED
  BY <1>1, OutputInvariance, PTL

\* ... and every operation leaves nothing at the back of a list that could be sent on.
THEOREM NothingIsHeldBack == Spec => []NothingHeldBack
<1>1. OInv => NothingHeldBack
  BY DEF OInv
<1> QED
  BY <1>1, OutputInvariance, PTL

\* EOF sends everything on.
THEOREM EOFLeavesNothing == Spec => []EOFEmpties
<1>1. OInv => EOFEmpties
  BY DEF OInv
<1> QED
  BY <1>1, OutputInvariance, PTL
================================================================================
