----------------------------- MODULE FlowLifeProofs -----------------------------
(*****************************************************************************)
(* FlowLife by itself: whatever keys there are, its flows are accounted for. *)
(*****************************************************************************)
EXTENDS FlowLife, TLAPS

LifeType == living \in [Keys -> Nat \cup {None}] /\ born \in Nat

LifeInv == LifeType /\ Accounted

\* Ending flows keeps the account of packets.
LEMMA EndAccounted ==
    ASSUME None \notin Nat, LifeInv, NEW K \in SUBSET Busy, End(K)
    PROVE  LifeInv'
<1>1. \A k \in Keys : living'[k] = IF k \in K THEN None ELSE living[k]
  BY DEF End
<1>2. LifeType'
  BY DEF End, LifeInv, LifeType
<1>3. Busy' = Busy \ K
  BY <1>1 DEF Busy
<1>4. \A k \in Busy' : k \in Busy /\ k \notin K /\ living'[k] = living[k]
  BY <1>1, <1>3 DEF Busy
<1>5. {living'[k] : k \in Busy'} = {living[k] : k \in Busy \ K}
  BY <1>3, <1>4
<1>6. ended' = ended \cup {living[k] : k \in K} /\ born' = born
  BY DEF End
<1>7. {living[k] : k \in Busy \ K} \cup {living[k] : k \in K} = {living[k] : k \in Busy}
  OBVIOUS
<1>8. {living[k] : k \in Busy \ K} \cap {living[k] : k \in K} = {}
  BY DEF LifeInv, Accounted
<1>9. Accounted'
  <2>1. {living'[k] : k \in Busy'} \cup ended' = 0 .. born' - 1
    BY <1>5, <1>6, <1>7 DEF LifeInv, Accounted
  <2>2. {living'[k] : k \in Busy'} \cap ended' = {}
    BY <1>5, <1>6, <1>7, <1>8 DEF LifeInv, Accounted
  <2>3. \A k, l \in Busy' : living'[k] = living'[l] => k = l
    BY <1>4 DEF LifeInv, Accounted
  <2> QED
    BY <2>1, <2>2, <2>3 DEF Accounted
<1> QED
  BY <1>2, <1>9 DEF LifeInv

\* A key whose flow becomes x: a new flow, or none.
LEMMA LivingExcept ==
    ASSUME LifeType, NEW k \in Keys, NEW x, living' = [living EXCEPT ![k] = x]
    PROVE  /\ \A l \in Keys : living'[l] = IF l = k THEN x ELSE living[l]
           /\ Busy' = IF x = None THEN Busy \ {k} ELSE Busy \cup {k}
BY DEF LifeType, Busy

\* Counting a packet of a flow keeps the account of packets.
LEMMA CountAccounted ==
    ASSUME None \notin Nat, LifeInv, NEW k \in Keys, Count(k)
    PROVE  LifeInv'
<1>1. CASE UNCHANGED <<living, ended>>
  BY <1>1 DEF Count, LifeInv, LifeType, Accounted, Busy
<1>2. CASE living' = [living EXCEPT ![k] = None] /\ ended' = ended \cup {living[k]}
  <2>1. LifeType'
    BY <1>2 DEF Count, LifeInv, LifeType
  <2>2. k \in Busy /\ Busy' = Busy \ {k} /\ born' = born
        /\ \A l \in Keys : l # k => living'[l] = living[l]
    BY <1>2, LivingExcept DEF Count, Busy, LifeInv
  <2>3. \A l \in Busy' : l \in Busy /\ l # k /\ l \in Keys /\ living'[l] = living[l]
    BY <2>2 DEF Busy
  <2>4. {living'[l] : l \in Busy'} = {living[l] : l \in Busy} \ {living[k]}
    BY <2>2, <2>3 DEF LifeInv, Accounted
  <2>5. \A l, m \in Busy' : living'[l] = living'[m] => l = m
    BY <2>3 DEF LifeInv, Accounted
  <2>6. living[k] \in {living[l] : l \in Busy}
    BY <2>2
  <2> QED
    BY <1>2, <2>1, <2>2, <2>4, <2>5, <2>6 DEF LifeInv, Accounted
<1> QED
  BY <1>1, <1>2 DEF Count

\* Beginning a flow keeps the account of packets.
LEMMA BeginAccounted ==
    ASSUME None \notin Nat, LifeInv, NEW k \in Keys, Begin(k)
    PROVE  LifeInv'
<1> DEFINE ids  == {living[l] : l \in Busy}
           over == {living[k]} \ {None}
<1>1. born \in Nat /\ born' = born + 1 /\ born # None /\ born \notin ids /\ born \notin ended
  BY DEF Begin, LifeInv, LifeType, Accounted
<1>2. 0 .. born' - 1 = (0 .. born - 1) \cup {born}
  BY <1>1
<1>3. over \subseteq ids
  BY DEF Busy
<1>4. {living[l] : l \in Busy \ {k}} = ids \ over
  BY DEF LifeInv, Accounted, Busy
<1>5. CASE living' = [living EXCEPT ![k] = born] /\ ended' = ended \cup over
  <2>1. LifeType'
    BY <1>1, <1>5 DEF LifeInv, LifeType
  <2>2. Busy' = Busy \cup {k} /\ \A l \in Keys : living'[l] = IF l = k THEN born ELSE living[l]
    BY <1>1, <1>5, LivingExcept DEF LifeInv
  <2>3. \A l \in Busy' : l \in Keys /\ (l # k => l \in Busy)
    BY <2>2 DEF Busy
  <2>4. {living'[l] : l \in Busy'} = (ids \ over) \cup {born}
    <3>1. \A l \in Busy \ {k} : l \in Busy' /\ living'[l] = living[l]
      BY <2>2 DEF Busy
    <3>2. {living'[l] : l \in Busy'} = {living[l] : l \in Busy \ {k}} \cup {born}
      BY <2>2, <2>3, <3>1
    <3> QED
      BY <1>4, <3>2
  <2>5. \A l, m \in Busy' : living'[l] = living'[m] => l = m
    BY <1>1, <2>2, <2>3 DEF LifeInv, Accounted
  <2>6. {living'[l] : l \in Busy'} \cup ended' = 0 .. born' - 1
    BY <1>2, <1>3, <1>5, <2>4 DEF LifeInv, Accounted
  <2>7. {living'[l] : l \in Busy'} \cap ended' = {}
    BY <1>1, <1>3, <1>5, <2>4 DEF LifeInv, Accounted
  <2> QED
    BY <2>1, <2>5, <2>6, <2>7 DEF LifeInv, Accounted
<1>6. CASE living' = [living EXCEPT ![k] = None] /\ ended' = ended \cup over \cup {born}
  <2>1. LifeType'
    BY <1>1, <1>6 DEF LifeInv, LifeType
  <2>2. Busy' = Busy \ {k} /\ \A l \in Keys : l # k => living'[l] = living[l]
    BY <1>6, LivingExcept DEF LifeInv
  <2>3. \A l \in Busy' : l \in Busy /\ living'[l] = living[l]
    BY <2>2 DEF Busy
  <2>4. {living'[l] : l \in Busy'} = ids \ over
    BY <1>4, <2>2, <2>3
  <2>5. \A l, m \in Busy' : living'[l] = living'[m] => l = m
    BY <2>3 DEF LifeInv, Accounted
  <2>6. {living'[l] : l \in Busy'} \cup ended' = 0 .. born' - 1
    BY <1>2, <1>3, <1>6, <2>4 DEF LifeInv, Accounted
  <2>7. {living'[l] : l \in Busy'} \cap ended' = {}
    BY <1>1, <1>3, <1>6, <2>4 DEF LifeInv, Accounted
  <2> QED
    BY <2>1, <2>5, <2>6, <2>7 DEF LifeInv, Accounted
<1> QED
  BY <1>5, <1>6 DEF Begin

\* What FlowLife allows loses no flow, ends none twice and lets none live under two
\* keys, which is what a table that implements it (flows/table.go) inherits.
THEOREM AlwaysAccounted ==
    ASSUME None \notin Nat
    PROVE  Spec => []Accounted
<1>1. Init => LifeInv
  <2> SUFFICES ASSUME Init PROVE LifeInv
    OBVIOUS
  <2>1. LifeType /\ Busy = {} /\ ended = {} /\ born = 0
    BY DEF Init, LifeType, Busy
  <2> QED
    BY <2>1 DEF LifeInv, Accounted
<1>2. LifeInv /\ [Next]_vars => LifeInv'
  <2> SUFFICES ASSUME LifeInv, [Next]_vars PROVE LifeInv'
    OBVIOUS
  <2>1. CASE UNCHANGED vars
    BY <2>1 DEF vars, LifeInv, LifeType, Accounted, Busy
  <2>2. CASE Next
    BY <2>2, EndAccounted, CountAccounted, BeginAccounted DEF Next
  <2> QED
    BY <2>1, <2>2
<1>3. LifeInv => Accounted
  BY DEF LifeInv
<1> QED
  BY <1>1, <1>2, <1>3, PTL DEF Spec
===============================================================================
