--------------------------- MODULE PacketInputProofs ---------------------------
(*****************************************************************************)
(* Flow keys of both directions, the packets that are read, time windows,    *)
(* labels, the stop of the sources, and that keys identify flows, for any    *)
(* inputs.                                                                   *)
(*****************************************************************************)
EXTENDS PacketInput, SelectionFacts, FiniteSetTheorems

--------------------------------------------------------------------------------
(* The ends of a key.                                                        *)

\* bytes.Compare is an order: of two different strings exactly one is greater.
LEMMA GreaterIsTotal ==
    ASSUME NEW s \in Seq(Nat), NEW t \in Seq(Nat), s # t
    PROVE  Greater(s, t) \/ Greater(t, s)
<1> DEFINE Differ(n) == n > Len(s) \/ n > Len(t) \/ s[n] # t[n]
           D == {n \in Nat : n >= 1 /\ (n <= Len(s) \/ n <= Len(t)) /\ Differ(n)}
<1>1. D # {}
  <2>1. CASE Len(s) = Len(t)
    <3>1. PICK n \in 1 .. Len(s) : s[n] # t[n]
      BY <2>1
    <3>2. n \in D
      BY <3>1
    <3> QED
      BY <3>2
  <2>2. CASE Len(s) < Len(t)
    <3>1. Len(t) \in D
      BY <2>2
    <3> QED
      BY <3>1
  <2>3. CASE Len(t) < Len(s)
    <3>1. Len(s) \in D
      BY <2>3
    <3> QED
      BY <3>1
  <2> QED
    BY <2>1, <2>2, <2>3
<1>2. PICK n \in D : \A m \in D : n <= m
  BY <1>1, LeastNatural
<1>3. \A i \in 1 .. n - 1 : i <= Len(s) /\ i <= Len(t) /\ s[i] = t[i]
  <2> TAKE i \in 1 .. n - 1
  <2>1. i \notin D /\ i \in Nat /\ i >= 1 /\ (i <= Len(s) \/ i <= Len(t))
    BY <1>2
  <2> QED
    BY <2>1
<1>4. CASE n > Len(t)
  <2>1. n \in 1 .. Len(s)
    BY <1>2, <1>4
  <2> QED
    BY <1>3, <1>4, <2>1 DEF Greater
<1>5. CASE n > Len(s)
  <2>1. n \in 1 .. Len(t)
    BY <1>2, <1>5
  <2> QED
    BY <1>3, <1>5, <2>1, SMTT(30) DEF Greater
<1>6. CASE n <= Len(s) /\ n <= Len(t)
  <2>1. n \in 1 .. Len(s) /\ n \in 1 .. Len(t) /\ s[n] # t[n]
    BY <1>2, <1>6
  <2>2. s[n] \in Nat /\ t[n] \in Nat
    BY <2>1
  <2>3. s[n] > t[n] \/ t[n] > s[n]
    BY <2>1, <2>2
  <2> QED
    BY <1>3, <2>1, <2>3 DEF Greater
<1> QED
  BY <1>2, <1>4, <1>5, <1>6

\* No two sequences are each greater than the other.
LEMMA GreaterIsStrict ==
    ASSUME NEW s \in Seq(Nat), NEW t \in Seq(Nat), Greater(s, t)
    PROVE  ~Greater(t, s)
<1> SUFFICES ASSUME Greater(t, s) PROVE FALSE
  OBVIOUS
<1>1. PICK n \in 1 .. Len(s) :
        (\A i \in 1 .. n - 1 : i <= Len(t) /\ s[i] = t[i]) /\ (n <= Len(t) => s[n] > t[n])
  BY DEF Greater
<1>2. PICK m \in 1 .. Len(t) :
        (\A i \in 1 .. m - 1 : i <= Len(s) /\ t[i] = s[i]) /\ (m <= Len(s) => t[m] > s[m])
  BY DEF Greater
<1>3. CASE n < m
  BY <1>1, <1>2, <1>3
<1>4. CASE m < n
  BY <1>1, <1>2, <1>4
<1>5. CASE n = m
  <2>1. s[n] \in Nat /\ t[n] \in Nat
    BY <1>5
  <2> QED
    BY <1>1, <1>2, <1>5, <2>1
<1> QED
  BY <1>3, <1>4, <1>5

\* The packets of the two directions of a flow, whose ends have changed places, have the
\* same ends in their keys, and differ in the direction unless both ends are the same
\* (addKeyValues and the swap in dynamicKeySelector.Key).
THEOREM SameEndsBothWays ==
    ASSUME NEW s \in Seq(Nat), NEW t \in Seq(Nat)
    PROVE  /\ InOrder(s, t)[1] = InOrder(t, s)[1]
           /\ s # t => InOrder(s, t)[2] # InOrder(t, s)[2]
<1>1. CASE s = t
  BY <1>1
<1>2. CASE s # t /\ Greater(s, t)
  BY <1>2, GreaterIsStrict DEF InOrder
<1>3. CASE s # t /\ Greater(t, s)
  BY <1>3, GreaterIsStrict DEF InOrder
<1> QED
  BY <1>1, <1>2, <1>3, GreaterIsTotal

--------------------------------------------------------------------------------
(* Time windows.                                                             *)

\* A packet that is not before the window lies in the window it gets, at most one duration
\* after its start; the number of the window never goes down, and the start stays as long
\* as the number does (the function of __timeWindow).
THEOREM WindowHolds ==
    ASSUME NEW start \in Nat \ {0}, NEW id \in Nat, NEW duration \in Nat \ {0}, NEW time \in Nat,
           start <= time
    PROVE  LET w == [start |-> start, id |-> id]
               n == NextWindow(w, duration, time)
           IN  /\ n.start <= time /\ time <= n.start + duration
               /\ n.id >= id
               /\ n.id = id => n = w
<1> DEFINE w == [start |-> start, id |-> id]
           n == NextWindow(w, duration, time)
           num == (time - start) \div duration
<1>1. num \in Nat /\ num * duration <= time - start /\ time - start < num * duration + duration
  OBVIOUS
<1>2. CASE start + duration < time
  <2>1. num >= 1
    <3>1. num = 0 => num * duration = 0
      OBVIOUS
    <3> QED
      BY <1>1, <1>2, <3>1
  <2>2. n = [start |-> start + num * duration, id |-> id + num]
    BY <1>2 DEF NextWindow
  <2>3. num * duration \in Nat
    BY <1>1
  <2> QED
    BY <1>1, <2>1, <2>2, <2>3
<1>3. CASE ~(start + duration < time)
  <2>1. n = w
    BY <1>3 DEF NextWindow
  <2> QED
    BY <1>3, <2>1
<1> QED
  BY <1>2, <1>3

--------------------------------------------------------------------------------
(* The sources.                                                              *)

\* While the reader changes sources, Stop has not been followed by a new one.
StopInv ==
    /\ sources = [first |-> sources.first, stopped |-> sources.stopped, after |-> sources.after]
    /\ reader = [pc |-> reader.pc, got |-> reader.got, skipped |-> reader.skipped,
                 filtered |-> reader.filtered]
    /\ sources.stopped \in BOOLEAN /\ sources.after \in {0, 1}
    /\ ~sources.stopped \/ reader.pc \in {"switch", "advance"} => sources.after = 0

\* For all sources, filters, labels and keys, and wherever the reader is when Stop is
\* called: at most one more source is begun after it.
THEOREM StopsInTime == Spec => []StopWithinOneSource
<1>1. Init => StopInv
  BY DEF Init, StopInv
<1>2. StopInv /\ [Next]_vars => StopInv'
  <2> SUFFICES ASSUME StopInv, [Next]_vars PROVE StopInv'
    OBVIOUS
  <2> USE DEF StopInv
  <2>0. CASE Read \/ ReadData \/ ReadStopped
    BY <2>0 DEF Read, ReadData, ReadStopped, GoTo, At
  <2>1. CASE NextFile \/ Filtered \/ Accept
    BY <2>1 DEF NextFile, Filtered, Accept, GoTo, At
  <2>2. CASE SourceEnds
    BY <2>2 DEF SourceEnds, GoTo, At
  <2>3. CASE StopSource
    BY <2>3 DEF StopSource, GoTo, At
  <2>4. CASE NextSource
    <3>1. /\ reader' = [reader EXCEPT !.pc = "read"] /\ sources.after = 0
          /\ sources' = [sources EXCEPT !.first = @ + 1,
                            !.after = IF sources.stopped THEN @ + 1 ELSE @]
      BY <2>4 DEF NextSource, GoTo, At
    <3>2. CASE sources.stopped
      <4>1. sources' = [sources EXCEPT !.first = @ + 1, !.after = 1]
        BY <3>1, <3>2
      <4>2. sources'.stopped = sources.stopped /\ sources'.after = 1 /\ reader'.pc = "read"
        BY <3>1, <4>1
      <4> QED
        BY <3>1, <3>2, <4>1, <4>2
    <3>3. CASE ~sources.stopped
      BY <3>1, <3>3
    <3> QED
      BY <3>2, <3>3
  <2>5. CASE Stop \/ StopPicks \/ StopStores
    BY <2>5 DEF Stop, StopPicks, StopStores
  <2>6. CASE UNCHANGED vars
    BY <2>6 DEF vars
  <2> QED
    BY <2>0, <2>1, <2>2, <2>3, <2>4, <2>5, <2>6 DEF Next
<1>3. StopInv => StopWithinOneSource
  BY DEF StopInv, StopWithinOneSource
<1> QED
  BY <1>1, <1>2, <1>3, PTL DEF Spec
--------------------------------------------------------------------------------
(* Places of the input.                                                      *)

Triples == Nat \X Nat \X Nat

\* What the input is made of.
LEMMA InputTypes ==
    ASSUME input \in Inputs
    PROVE  /\ input.sources \in Seq(Seq(Seq(PacketType))) /\ Len(input.sources) >= 1
           /\ \A s \in DOMAIN input.sources : Len(input.sources[s]) >= 1
<1>1. /\ input.sources \in Seq(Seq(Seq(PacketType))) /\ input.sources # <<>>
      /\ \A s \in DOMAIN input.sources : input.sources[s] # <<>>
  BY InputsAssumption
<1>2. \A s \in DOMAIN input.sources : input.sources[s] \in Seq(Seq(PacketType))
  BY <1>1
<1>3. ASSUME NEW T, NEW s \in Seq(T), s # <<>> PROVE Len(s) >= 1
  BY <1>3
<1> QED
  BY <1>1, <1>2, <1>3

\* The union of finitely many finite sets.
LEMMA FiniteUnions ==
    ASSUME NEW n \in Nat, NEW f, \A i \in 1 .. n : IsFiniteSet(f[i])
    PROVE  IsFiniteSet(UNION {f[i] : i \in 1 .. n})
<1> DEFINE U(k) == UNION {f[i] : i \in 1 .. k}
           S == {k \in Nat : k <= n => IsFiniteSet(U(k))}
<1>1. 0 \in S
  <2>1. U(0) = {}
    OBVIOUS
  <2> QED
    BY <2>1, FS_EmptySet
<1>2. \A k \in S : k + 1 \in S
  <2> TAKE k \in S
  <2>1. k \in Nat /\ (k <= n => IsFiniteSet(U(k)))
    OBVIOUS
  <2>2. ASSUME k + 1 <= n PROVE IsFiniteSet(U(k + 1))
    <3>1. k <= n /\ k + 1 \in 1 .. n
      BY <2>1, <2>2
    <3>2. 1 .. k + 1 = 1 .. k \cup {k + 1}
      BY <2>1
    <3>3. U(k + 1) = U(k) \cup f[k + 1]
      BY <3>2
    <3> DEFINE u == U(k)
               x == f[k + 1]
    <3> HIDE DEF U
    <3>4. IsFiniteSet(u) /\ IsFiniteSet(x) /\ U(k + 1) = u \cup x
      BY <2>1, <3>1, <3>3
    <3> HIDE DEF u, x
    <3>5. IsFiniteSet(u \cup x)
      BY <3>4, FS_Union
    <3> QED
      BY <3>4, <3>5
  <2> HIDE DEF U
  <2> QED
    BY <2>1, <2>2
<1> HIDE DEF U
<1>3. S = Nat
  BY <1>1, <1>2, SetInduction
<1>4. IsFiniteSet(U(n))
  BY <1>3
<1> QED
  BY <1>4 DEF U

\* A place has a source, a file and a packet.
LEMMA PlaceParts ==
    ASSUME input \in Inputs, NEW a \in Places
    PROVE  /\ a \in Triples /\ a[1] >= 1 /\ a[2] >= 1 /\ a[3] >= 1
           /\ a[1] \in 1 .. Len(input.sources) /\ a[2] \in 1 .. Len(input.sources[a[1]])
           /\ a[3] \in 1 .. Len(input.sources[a[1]][a[2]])
           /\ a = <<a[1], a[2], a[3]>>
<1>1. PICK s \in DOMAIN input.sources : \E f \in DOMAIN input.sources[s] : a \in PlacesOf(s, f)
  BY DEF Places
<1>2. PICK f \in DOMAIN input.sources[s] : a \in PlacesOf(s, f)
  BY <1>1
<1>3. PICK i \in DOMAIN input.sources[s][f] : a = <<s, f, i>>
  BY <1>2 DEF PlacesOf
<1>4. /\ s \in 1 .. Len(input.sources) /\ f \in 1 .. Len(input.sources[s])
      /\ i \in 1 .. Len(input.sources[s][f])
  <2>1. input.sources \in Seq(Seq(Seq(PacketType)))
    BY InputTypes
  <2>2. s \in 1 .. Len(input.sources) /\ input.sources[s] \in Seq(Seq(PacketType))
    BY <2>1
  <2>3. f \in 1 .. Len(input.sources[s]) /\ input.sources[s][f] \in Seq(PacketType)
    BY <2>2
  <2>4. i \in 1 .. Len(input.sources[s][f])
    BY <2>3
  <2> QED
    BY <2>2, <2>3, <2>4
<1>5. s \in Nat /\ f \in Nat /\ i \in Nat /\ s >= 1 /\ f >= 1 /\ i >= 1
  BY <1>4, InputTypes
<1>6. a[1] = s /\ a[2] = f /\ a[3] = i
  BY <1>3
<1> QED
  BY <1>3, <1>4, <1>5, <1>6 DEF Triples

\* And what has a source, a file and a packet is a place.
LEMMA IsPlace ==
    ASSUME input \in Inputs, NEW s \in 1 .. Len(input.sources),
           NEW f \in 1 .. Len(input.sources[s]), NEW i \in 1 .. Len(input.sources[s][f])
    PROVE  <<s, f, i>> \in Places
<1>1. s \in DOMAIN input.sources /\ f \in DOMAIN input.sources[s]
      /\ i \in DOMAIN input.sources[s][f]
  BY InputTypes
<1>2. <<s, f, i>> \in PlacesOf(s, f)
  BY <1>1 DEF PlacesOf
<1> QED
  BY <1>1, <1>2 DEF Places

\* There are finitely many places.
LEMMA PlacesFinite ==
    ASSUME input \in Inputs
    PROVE  /\ IsFiniteSet(Places) /\ IsFiniteSet(Offered) /\ IsFiniteSet(Wanted)
           /\ Wanted \subseteq Offered /\ Offered \subseteq Places /\ Places \subseteq Triples
<1>1. ASSUME NEW s \in DOMAIN input.sources, NEW f \in DOMAIN input.sources[s]
      PROVE  IsFiniteSet(PlacesOf(s, f))
  <2> DEFINE D == DOMAIN input.sources[s][f]
             n == Len(input.sources[s][f])
             g == [i \in D |-> <<s, f, i>>]
  <2>1. D = 1 .. n /\ n \in Nat
    BY InputTypes
  <2>2. IsFiniteSet(D)
    BY <2>1, FS_Interval
  <2> HIDE DEF D, n
  <2>3. g \in Surjection(D, PlacesOf(s, f))
    BY DEF Surjection, PlacesOf, D
  <2> HIDE DEF g
  <2> QED
    BY <2>2, <2>3, FS_Surjection
<1>2. ASSUME NEW s \in DOMAIN input.sources
      PROVE  IsFiniteSet(UNION {PlacesOf(s, f) : f \in DOMAIN input.sources[s]})
  <2> DEFINE h == [f \in DOMAIN input.sources[s] |-> PlacesOf(s, f)]
             n == Len(input.sources[s])
  <2>1. n \in Nat /\ DOMAIN input.sources[s] = 1 .. n
    BY InputTypes
  <2>2. \A f \in 1 .. n : h[f] = PlacesOf(s, f) /\ IsFiniteSet(h[f])
    BY <1>1, <2>1
  <2> HIDE DEF n, h
  <2>3. IsFiniteSet(UNION {h[f] : f \in 1 .. n})
    BY <2>1, <2>2, FiniteUnions
  <2>4. {h[f] : f \in 1 .. n} = {PlacesOf(s, f) : f \in 1 .. n}
    BY <2>2
  <2> QED
    BY <2>1, <2>3, <2>4
<1>3. IsFiniteSet(Places)
  <2> DEFINE P(s) == UNION {PlacesOf(s, f) : f \in DOMAIN input.sources[s]}
             h == [s \in DOMAIN input.sources |-> P(s)]
             n == Len(input.sources)
  <2>1. n \in Nat /\ DOMAIN input.sources = 1 .. n
    BY InputTypes
  <2>2. \A s \in 1 .. n : h[s] = P(s) /\ IsFiniteSet(h[s])
    BY <1>2, <2>1
  <2>3. Places = UNION {P(s) : s \in 1 .. n}
    BY <2>1 DEF Places
  <2> HIDE DEF n, h, P
  <2>4. IsFiniteSet(UNION {h[s] : s \in 1 .. n})
    BY <2>1, <2>2, FiniteUnions
  <2>5. {h[s] : s \in 1 .. n} = {P(s) : s \in 1 .. n}
    BY <2>2
  <2> QED
    BY <2>3, <2>4, <2>5
<1>4. Wanted \subseteq Offered /\ Offered \subseteq Places
  BY DEF Wanted, Offered
<1>5. Places \subseteq Triples
  BY PlaceParts
<1> QED
  BY <1>3, <1>4, <1>5, FS_Subset

\* The order of the places.
LEMMA UpToOrder ==
    ASSUME NEW a \in Triples, NEW b \in Triples, NEW c \in Triples
    PROVE  /\ UpTo(a, a) /\ (UpTo(a, b) \/ UpTo(b, a))
           /\ UpTo(a, b) /\ UpTo(b, c) => UpTo(a, c)
           /\ UpTo(a, b) /\ UpTo(b, a) => a = b
<1>1. /\ a[1] \in Nat /\ a[2] \in Nat /\ a[3] \in Nat /\ b[1] \in Nat /\ b[2] \in Nat
      /\ b[3] \in Nat /\ c[1] \in Nat /\ c[2] \in Nat /\ c[3] \in Nat
      /\ a = <<a[1], a[2], a[3]>> /\ b = <<b[1], b[2], b[3]>>
  BY DEF Triples
<1>2. a[1] = b[1] /\ a[2] = b[2] /\ a[3] = b[3] => a = b
  BY <1>1, Zenon
<1> QED
  BY <1>1, <1>2 DEF UpTo

\* The places of S from one mark to another: none of S, and c only.
Skips(S, m, n) == \A b \in S : UpTo(b, m) <=> UpTo(b, n)
Passes(S, m, n, c) ==
    /\ c \in S /\ ~UpTo(c, m)
    /\ \A b \in S : UpTo(b, n) <=> UpTo(b, m) \/ b = c

\* How a rank grows with its mark.
LEMMA RankSteps ==
    ASSUME NEW S, IsFiniteSet(S), NEW m, NEW n, NEW c
    PROVE  /\ Rank(S, m) \in Nat
           /\ Skips(S, m, n) => Rank(S, n) = Rank(S, m)
           /\ Passes(S, m, n, c) => Rank(S, n) = Rank(S, m) + 1
<1> DEFINE M == {b \in S : UpTo(b, m)}
           N == {b \in S : UpTo(b, n)}
<1>1. M \in SUBSET S /\ IsFiniteSet(M) /\ Cardinality(M) \in Nat
  <2>1. M \in SUBSET S
    OBVIOUS
  <2> HIDE DEF M
  <2> QED
    BY <2>1, FS_Subset, FS_CardinalityType
<1>2. Rank(S, m) = Cardinality(M) /\ Rank(S, n) = Cardinality(N)
  BY DEF Rank
<1>3. Skips(S, m, n) => N = M
  BY DEF Skips
<1>4. Passes(S, m, n, c) => N = M \cup {c} /\ c \notin M
  BY DEF Passes
<1>5. Cardinality(M \cup {c}) = IF c \in M THEN Cardinality(M) ELSE Cardinality(M) + 1
  <2> HIDE DEF M
  <2> QED
    BY <1>1, FS_AddElement
<1> HIDE DEF M, N
<1> QED
  BY <1>1, <1>2, <1>3, <1>4, <1>5

\* A place has a rank beyond a mark if and only if it is beyond the mark.
LEMMA RankOrders ==
    ASSUME NEW S \in SUBSET Triples, IsFiniteSet(S), NEW m \in Triples, NEW a \in S
    PROVE  /\ Rank(S, a) \in Nat /\ Rank(S, m) \in Nat /\ Rank(S, a) >= 1
           /\ UpTo(a, m) => Rank(S, a) <= Rank(S, m)
           /\ ~UpTo(a, m) => Rank(S, m) < Rank(S, a)
<1> DEFINE M == {b \in S : UpTo(b, m)}
           A == {b \in S : UpTo(b, a)}
<1>1. M \in SUBSET S /\ A \in SUBSET S /\ a \in Triples
  OBVIOUS
<1>2. IsFiniteSet(M) /\ Cardinality(M) \in Nat /\ IsFiniteSet(A) /\ Cardinality(A) \in Nat
  <2> HIDE DEF M, A
  <2> QED
    BY <1>1, FS_Subset, FS_CardinalityType
<1>3. Rank(S, m) = Cardinality(M) /\ Rank(S, a) = Cardinality(A)
  BY DEF Rank
<1>4. a \in A
  BY <1>1, UpToOrder
<1>5. Cardinality(A) >= 1
  <2> HIDE DEF A
  <2> QED
    BY <1>2, <1>4, FS_EmptySet
<1>6. UpTo(a, m) => A \in SUBSET M
  <2> SUFFICES ASSUME UpTo(a, m), NEW b \in S, UpTo(b, a) PROVE UpTo(b, m)
    OBVIOUS
  <2>1. b \in Triples
    OBVIOUS
  <2> QED
    BY <1>1, <2>1, UpToOrder
<1>7. ~UpTo(a, m) => M \cup {a} \in SUBSET A /\ a \notin M
  <2> SUFFICES ASSUME ~UpTo(a, m), NEW b \in S, UpTo(b, m) PROVE UpTo(b, a)
    BY <1>4
  <2>1. b \in Triples
    OBVIOUS
  <2>2. UpTo(m, a)
    BY <1>1, UpToOrder
  <2> QED
    BY <1>1, <2>1, <2>2, UpToOrder
<1> HIDE DEF M, A
<1>8. IsFiniteSet(M \cup {a})
      /\ Cardinality(M \cup {a}) = IF a \in M THEN Cardinality(M) ELSE Cardinality(M) + 1
  BY <1>2, FS_AddElement
<1>9. UpTo(a, m) => Cardinality(A) <= Cardinality(M)
  BY <1>2, <1>6, FS_Subset
<1>10. ~UpTo(a, m) => Cardinality(M \cup {a}) <= Cardinality(A)
  BY <1>2, <1>7, FS_Subset
<1> QED
  BY <1>2, <1>3, <1>5, <1>7, <1>8, <1>9, <1>10
--------------------------------------------------------------------------------
(* Where the reader is.                                                      *)

PcapType == [stopped : BOOLEAN, which : Nat, at : Nat, handle : {"none", "open", "closed"}]
ReaderType ==
    [pc : {"read", "data", "check", "eof", "switch", "advance", "done"},
     got : {"nothing", "eof", "error", "packet"}, skipped : Nat, filtered : Nat]

InputTyped ==
    /\ input \in Inputs
    /\ sources \in [first : 1 .. Len(input.sources), stopped : BOOLEAN, after : Nat]
    /\ pcaps \in [1 .. Len(input.sources) -> PcapType]
    /\ reader \in ReaderType
    /\ stopper \in [pc : {"idle", "never", "pick", "store", "done"},
                    source : 0 .. Len(input.sources)]
    /\ stopper.pc = "store" => stopper.source # 0
    /\ At("advance") => Current < Len(input.sources)

\* What holds of the source that is read, up to an interrupt: the sources behind it are
\* untouched, it is open, nothing that was read of its file is damaged, and it ends with its
\* last file or with damage there.
Fresh == \A s \in 1 .. Len(input.sources) : s > Current => pcaps[s] = NewLibpcapSource
Opened ==
    /\ Pcap.which = 0 => At("read") /\ Pcap = NewLibpcapSource
    /\ Pcap.which > 0 =>
        /\ Pcap.which \in 1 .. Len(Files) /\ Pcap.at \in 0 .. Len(Files[Pcap.which])
        /\ \A i \in 1 .. Pcap.at - 1 : ~Files[Pcap.which][i].bad
        /\ reader.pc \in {"read", "data", "check"} => Pcap.handle = "open"
    /\ reader.pc \in {"read", "data", "check", "eof", "switch"} => ~Pcap.stopped
Sound == Pcap.at > 0 => ~Packet.bad
Checked ==
    /\ reader.pc \in {"read", "data"} => Sound
    /\ At("check") =>
        /\ reader.got \in {"eof", "error", "packet"}
        /\ reader.got = "eof" => Pcap.at = Len(Files[Pcap.which]) /\ Sound
        /\ reader.got = "error" => Pcap.at > 0 /\ Packet.bad
        /\ reader.got = "packet" => Pcap.at > 0 /\ ~Packet.bad
Ended ==
    reader.pc \in {"eof", "switch", "advance", "done"} =>
        /\ Pcap.which = Len(Files)
        /\ Pcap.at = Len(Files[Pcap.which]) \/ (Pcap.at > 0 /\ Packet.bad)
        /\ At("done") => Current = Len(input.sources)
Undisturbed ==
    stopper.pc \in {"idle", "never"} /\ Fresh /\ Opened /\ Checked /\ Ended

PlaceInv == InputTyped /\ (~sources.stopped => Undisturbed)

\* The source that is read and its files.
LEMMA CurrentFiles ==
    ASSUME InputTyped
    PROVE  /\ Current \in 1 .. Len(input.sources) /\ Len(input.sources) \in Nat
           /\ Pcap \in PcapType /\ Files \in Seq(Seq(PacketType)) /\ Len(Files) >= 1
           /\ \A f \in 1 .. Len(Files) : Files[f] \in Seq(PacketType)
<1>1. Current \in 1 .. Len(input.sources) /\ Len(input.sources) \in Nat /\ Pcap \in PcapType
  BY InputTypes DEF InputTyped, Current, Pcap
<1>2. Files \in Seq(Seq(PacketType)) /\ Len(Files) >= 1
  BY <1>1, InputTypes DEF InputTyped, Files
<1> QED
  BY <1>1, <1>2
\* What is left as it was leaves Undisturbed as it was.
LEMMA SameSources ==
    ASSUME UNCHANGED <<input, pcaps, reader>>, sources.first' = sources.first,
           stopper.pc \in {"idle", "never"} => stopper.pc' \in {"idle", "never"},
           Undisturbed
    PROVE  Undisturbed'
BY DEF Undisturbed, Fresh, Opened, Checked, Sound, Ended, At, Current, Pcap, Files, Packet,
       NewLibpcapSource

\* The source that is read changes, and no other one.
LEMMA CurrentChanges ==
    ASSUME InputTyped, NEW p \in PcapType, pcaps' = [pcaps EXCEPT ![Current] = p],
           UNCHANGED <<input, sources>>
    PROVE  /\ pcaps' \in [1 .. Len(input.sources) -> PcapType]
           /\ Pcap' = p /\ Files' = Files /\ Current' = Current
           /\ Fresh => Fresh'
<1>1. Current \in 1 .. Len(input.sources) /\ pcaps \in [1 .. Len(input.sources) -> PcapType]
  BY CurrentFiles DEF InputTyped
<1>2. pcaps' \in [1 .. Len(input.sources) -> PcapType] /\ pcaps'[Current] = p
      /\ \A s \in 1 .. Len(input.sources) : s # Current => pcaps'[s] = pcaps[s]
  BY <1>1
<1>3. Files' = Files /\ Current' = Current /\ Pcap' = p
  BY <1>2 DEF Files, Current, Pcap
<1>4. Len(input.sources) \in Nat
  BY CurrentFiles
<1>5. Fresh => Fresh'
  BY <1>1, <1>2, <1>3, <1>4 DEF Fresh, NewLibpcapSource
<1> QED
  BY <1>2, <1>3, <1>5

\* A source with its next file.
LEMMA NextFileOpened ==
    ASSUME NEW q \in PcapType
    PROVE  LET p == [q EXCEPT !.which = @ + 1, !.at = 0, !.handle = "open"]
           IN  /\ p \in PcapType /\ p.stopped = q.stopped /\ p.which = q.which + 1 /\ p.at = 0
               /\ p.handle = "open"
<1> DEFINE p1 == [q EXCEPT !.which = @ + 1]
           p2 == [p1 EXCEPT !.at = 0]
           p3 == [p2 EXCEPT !.handle = "open"]
<1>1. p1 \in PcapType /\ p1.stopped = q.stopped /\ p1.which = q.which + 1
  BY DEF PcapType
<1> HIDE DEF p1
<1>2. p2 \in PcapType /\ p2.stopped = q.stopped /\ p2.which = q.which + 1 /\ p2.at = 0
  BY <1>1 DEF PcapType
<1> HIDE DEF p2
<1>3. /\ p3 \in PcapType /\ p3.stopped = q.stopped /\ p3.which = q.which + 1 /\ p3.at = 0
      /\ p3.handle = "open"
  BY <1>2 DEF PcapType
<1>4. [q EXCEPT !.which = @ + 1, !.at = 0, !.handle = "open"] = p3
  BY DEF p1, p2
<1> HIDE DEF p3
<1> QED
  BY <1>3, <1>4

\* The next file is opened.
LEMMA OpenNextHolds ==
    ASSUME InputTyped, OpenNext, UNCHANGED <<input, sources>>
    PROVE  /\ pcaps' \in [1 .. Len(input.sources) -> PcapType]
           /\ Pcap' = [Pcap EXCEPT !.which = @ + 1, !.at = 0, !.handle = "open"]
           /\ Files' = Files /\ Current' = Current /\ (Fresh => Fresh')
<1> DEFINE p == [Pcap EXCEPT !.which = @ + 1, !.at = 0, !.handle = "open"]
<1>1. p \in PcapType
  <2>1. Pcap \in PcapType
    BY CurrentFiles
  <2> QED
    BY <2>1, NextFileOpened
<1>2. pcaps' = [pcaps EXCEPT ![Current] = p]
  BY CurrentFiles DEF OpenNext, Pcap, InputTyped, PcapType
<1> HIDE DEF p
<1>3. pcaps' \in [1 .. Len(input.sources) -> PcapType]
      /\ Pcap' = p /\ Files' = Files /\ Current' = Current /\ (Fresh => Fresh')
  BY <1>1, <1>2, CurrentChanges
<1> QED
  BY <1>3 DEF p
\* ReadPacket of Sources and of its source, up to where a packet is read.
LEMMA ReadPlaces == ASSUME PlaceInv, Read PROVE PlaceInv'
<1>1. /\ InputTyped /\ At("read") /\ UNCHANGED <<input, sources, stopper>>
      /\ reader' = [reader EXCEPT !.pc = "data", !.skipped = 0, !.filtered = 0]
      /\ IF Pcap.which = 0 THEN OpenNext ELSE UNCHANGED pcaps
  BY DEF PlaceInv, Read
<1>2. reader' \in ReaderType /\ reader'.pc = "data"
  BY <1>1 DEF InputTyped, ReaderType
<1>3. CASE Pcap.which = 0
  <2>1. /\ pcaps' \in [1 .. Len(input.sources) -> PcapType]
        /\ Pcap' = [Pcap EXCEPT !.which = @ + 1, !.at = 0, !.handle = "open"]
        /\ Files' = Files /\ Current' = Current /\ (Fresh => Fresh')
    BY <1>1, <1>3, OpenNextHolds
  <2>2. InputTyped'
    BY <1>1, <1>2, <2>1 DEF InputTyped, At, Current
  <2>3. Pcap'.which = 1 /\ Pcap'.at = 0 /\ Pcap'.handle = "open" /\ Pcap'.stopped = Pcap.stopped
    BY <1>3, <2>1, CurrentFiles DEF PcapType
  <2>4. Len(Files) >= 1 /\ Len(Files) \in Nat /\ Files[1] \in Seq(PacketType)
    BY <1>1, CurrentFiles
  <2>5. Undisturbed => Undisturbed'
    BY <1>1, <1>2, <2>1, <2>3, <2>4 DEF Undisturbed, Opened, Checked, Sound, Ended, At
  <2> QED
    BY <1>1, <2>2, <2>5 DEF PlaceInv
<1>4. CASE Pcap.which # 0
  <2>1. UNCHANGED pcaps /\ Pcap' = Pcap /\ Files' = Files /\ Current' = Current /\ Packet' = Packet
    BY <1>1, <1>4 DEF Pcap, Current, Files, Packet
  <2>2. InputTyped'
    BY <1>1, <1>2, <2>1 DEF InputTyped, At, Current
  <2>3. Fresh => Fresh'
    BY <1>1, <2>1 DEF Fresh, NewLibpcapSource
  <2>4. Undisturbed => Undisturbed'
    BY <1>1, <1>2, <1>4, <2>1, <2>3 DEF Undisturbed, Opened, Checked, Sound, Ended, At
  <2> QED
    BY <1>1, <2>2, <2>4 DEF PlaceInv
<1> QED
  BY <1>3, <1>4

\* libpcap gives a packet, an error or the end of the file.
LEMMA ReadDataPlaces == ASSUME PlaceInv, ReadData PROVE PlaceInv'
<1> DEFINE file == Files[Pcap.which]
           more == Pcap.handle = "open" /\ Pcap.at < Len(file)
           p == [Pcap EXCEPT !.at = @ + 1]
<1>1. /\ InputTyped /\ At("data") /\ UNCHANGED <<input, sources, stopper>>
      /\ reader' = [reader EXCEPT !.pc = "check",
                        !.got = IF ~more THEN "eof"
                                ELSE IF file[Pcap.at + 1].bad THEN "error" ELSE "packet"]
      /\ pcaps' = IF more THEN [pcaps EXCEPT ![Current].at = @ + 1] ELSE pcaps
  BY DEF PlaceInv, ReadData
<1>2. Pcap \in PcapType /\ p \in PcapType
  <2>1. Pcap \in PcapType
    BY <1>1, CurrentFiles
  <2> QED
    BY <2>1 DEF PcapType
<1>3. /\ reader' \in ReaderType /\ reader'.pc = "check"
      /\ reader'.got = IF ~more THEN "eof"
                       ELSE IF file[Pcap.at + 1].bad THEN "error" ELSE "packet"
  <2> DEFINE g == IF ~more THEN "eof" ELSE IF file[Pcap.at + 1].bad THEN "error" ELSE "packet"
  <2>1. g \in {"nothing", "eof", "error", "packet"} /\ reader \in ReaderType
        /\ reader' = [reader EXCEPT !.pc = "check", !.got = g]
    BY <1>1 DEF InputTyped
  <2> HIDE DEF g
  <2>2. reader' \in ReaderType /\ reader'.pc = "check" /\ reader'.got = g
    BY <2>1 DEF ReaderType
  <2> QED
    BY <2>2 DEF g
<1>4. CASE more
  <2>1. pcaps' = [pcaps EXCEPT ![Current] = p]
    BY <1>1, <1>4, CurrentFiles DEF Pcap, InputTyped, PcapType
  <2> HIDE DEF p
  <2>2. /\ pcaps' \in [1 .. Len(input.sources) -> PcapType]
        /\ Pcap' = p /\ Files' = Files /\ Current' = Current /\ (Fresh => Fresh')
    BY <1>1, <1>2, <2>1, CurrentChanges
  <2>3. InputTyped'
    BY <1>1, <1>3, <2>2 DEF InputTyped, At, Current
  <2>4. /\ p.which = Pcap.which /\ p.at = Pcap.at + 1 /\ p.handle = Pcap.handle
        /\ p.stopped = Pcap.stopped /\ Pcap.at \in Nat /\ Pcap.which \in Nat
    BY <1>2 DEF PcapType, p
  <2>5. Undisturbed => Undisturbed'
    <3> SUFFICES ASSUME Undisturbed PROVE Undisturbed'
      OBVIOUS
    <3>1. /\ Pcap.which > 0 /\ Pcap.which \in 1 .. Len(Files) /\ Pcap.at \in 0 .. Len(file)
          /\ \A i \in 1 .. Pcap.at - 1 : ~file[i].bad
          /\ ~Pcap.stopped /\ (Pcap.at > 0 => ~file[Pcap.at].bad)
      BY <1>1, <2>4 DEF Undisturbed, Opened, Checked, Sound, Packet, At
    <3>2. file \in Seq(PacketType) /\ Len(file) \in Nat
      BY <1>1, <3>1, CurrentFiles
    <3>3. file' = file /\ Packet' = file[Pcap.at + 1]
      BY <2>2, <2>4 DEF Packet
    <3>4. \A i \in 1 .. Pcap.at : ~file[i].bad
      BY <2>4, <3>1
    <3> HIDE DEF file
    <3>5. Opened'
      BY <1>3, <1>4, <2>2, <2>4, <3>1, <3>2, <3>4, <3>3 DEF Opened, At, file
    <3>6. Checked'
      BY <1>3, <1>4, <2>2, <2>4, <3>3 DEF Checked, At, Sound
    <3>7. Ended'
      BY <1>3 DEF Ended
    <3> QED
      BY <1>1, <2>2, <3>5, <3>6, <3>7 DEF Undisturbed
  <2> QED
    BY <1>1, <2>3, <2>5 DEF PlaceInv
<1>5. CASE ~more
  <2>1. UNCHANGED pcaps /\ Pcap' = Pcap /\ Files' = Files /\ Current' = Current /\ Packet' = Packet
    BY <1>1, <1>5 DEF Pcap, Current, Files, Packet
  <2>2. InputTyped'
    BY <1>1, <1>3, <2>1 DEF InputTyped, At, Current
  <2>3. Fresh => Fresh'
    BY <1>1, <2>1 DEF Fresh, NewLibpcapSource
  <2>4. Undisturbed => Undisturbed'
    <3> SUFFICES ASSUME Undisturbed PROVE Undisturbed'
      OBVIOUS
    <3>1. /\ Pcap.which > 0 /\ Pcap.which \in 1 .. Len(Files) /\ Pcap.at \in 0 .. Len(file)
          /\ Pcap.handle = "open" /\ Sound
      BY <1>1, <1>2 DEF Undisturbed, Opened, Checked, At, PcapType
    <3>2. Len(file) \in Nat
      BY <1>1, <3>1, CurrentFiles
    <3>3. Pcap.at = Len(file)
      BY <1>5, <3>1, <3>2
    <3>4. reader'.got = "eof"
      BY <1>3, <1>5
    <3> QED
      BY <1>1, <1>3, <2>1, <2>3, <3>1, <3>3, <3>4
         DEF Undisturbed, Opened, Checked, Sound, Ended, At
  <2> QED
    BY <1>1, <2>2, <2>4 DEF PlaceInv
<1> QED
  BY <1>4, <1>5
\* A file ends or its rest cannot be read.
LEMMA NextFilePlaces == ASSUME PlaceInv, NextFile PROVE PlaceInv'
<1>1. /\ InputTyped /\ At("check") /\ reader.got # "packet" /\ ~Pcap.stopped
      /\ UNCHANGED <<input, sources, stopper>>
      /\ IF Pcap.which = Len(Files)
         THEN reader' = [reader EXCEPT !.pc = "eof"] /\ UNCHANGED pcaps
         ELSE /\ reader' = [reader EXCEPT !.pc = "data",
                                !.skipped = IF reader.got = "error" THEN @ + 1 ELSE @]
              /\ OpenNext
  BY DEF PlaceInv, NextFile, GoTo
<1>2. CASE Pcap.which = Len(Files)
  <2>1. UNCHANGED pcaps /\ Pcap' = Pcap /\ Files' = Files /\ Current' = Current /\ Packet' = Packet
    BY <1>1, <1>2 DEF Pcap, Current, Files, Packet
  <2>2. reader' \in ReaderType /\ reader'.pc = "eof"
    BY <1>1, <1>2 DEF InputTyped, ReaderType
  <2>3. InputTyped'
    BY <1>1, <2>1, <2>2 DEF InputTyped, At, Current
  <2>4. Fresh => Fresh'
    BY <1>1, <2>1 DEF Fresh, NewLibpcapSource
  <2>5. Undisturbed => Undisturbed'
    BY <1>1, <1>2, <2>1, <2>2, <2>4 DEF Undisturbed, Opened, Checked, Sound, Ended, At
  <2> QED
    BY <1>1, <2>3, <2>5 DEF PlaceInv
<1>3. CASE Pcap.which # Len(Files)
  <2> DEFINE n == IF reader.got = "error" THEN reader.skipped + 1 ELSE reader.skipped
  <2>1. /\ pcaps' \in [1 .. Len(input.sources) -> PcapType]
        /\ Pcap' = [Pcap EXCEPT !.which = @ + 1, !.at = 0, !.handle = "open"]
        /\ Files' = Files /\ Current' = Current /\ (Fresh => Fresh')
    BY <1>1, <1>3, OpenNextHolds
  <2>2. n \in Nat /\ reader \in ReaderType /\ reader' = [reader EXCEPT !.pc = "data", !.skipped = n]
    BY <1>1, <1>3 DEF InputTyped, ReaderType
  <2> HIDE DEF n
  <2>3. reader' \in ReaderType /\ reader'.pc = "data"
    BY <2>2 DEF ReaderType
  <2>4. InputTyped'
    BY <1>1, <2>1, <2>3 DEF InputTyped, At, Current
  <2>5. Pcap \in PcapType
    BY <1>1, CurrentFiles
  <2>6. Pcap'.which = Pcap.which + 1 /\ Pcap'.at = 0 /\ Pcap'.handle = "open"
        /\ Pcap'.stopped = Pcap.stopped /\ Pcap.which \in Nat
    BY <2>1, <2>5 DEF PcapType
  <2>7. Undisturbed => Undisturbed'
    <3> SUFFICES ASSUME Undisturbed PROVE Undisturbed'
      OBVIOUS
    <3>1. Pcap.which \in 1 .. Len(Files)
      BY <1>1, <2>6 DEF Undisturbed, Opened, At
    <3>2. Pcap.which + 1 \in 1 .. Len(Files) /\ Files[Pcap.which + 1] \in Seq(PacketType)
      BY <1>1, <1>3, <3>1, CurrentFiles
    <3> QED
      BY <1>1, <2>1, <2>3, <2>6, <3>2 DEF Undisturbed, Opened, Checked, Sound, Ended, At
  <2> QED
    BY <1>1, <2>4, <2>7 DEF PlaceInv
<1> QED
  BY <1>2, <1>3

\* A packet is filtered, or goes to the engine.
LEMMA PacketPlaces == ASSUME PlaceInv, Filtered \/ Accept PROVE PlaceInv'
<1>1. /\ InputTyped /\ At("check") /\ reader.got = "packet" /\ ~Pcap.stopped
      /\ UNCHANGED <<input, sources, stopper, pcaps>>
      /\ \/ reader' = [reader EXCEPT !.pc = "data", !.filtered = @ + 1]
         \/ reader' = [reader EXCEPT !.pc = "read"]
  BY DEF PlaceInv, Filtered, Accept, GoTo
<1>2. Pcap' = Pcap /\ Files' = Files /\ Current' = Current /\ Packet' = Packet
  BY <1>1 DEF Pcap, Current, Files, Packet
<1>3. reader' \in ReaderType /\ reader'.pc \in {"read", "data"}
  <2>1. reader \in ReaderType
    BY <1>1 DEF InputTyped
  <2>2. CASE reader' = [reader EXCEPT !.pc = "data", !.filtered = @ + 1]
    <3> DEFINE n == reader.filtered + 1
    <3>1. n \in Nat /\ reader' = [reader EXCEPT !.pc = "data", !.filtered = n]
      BY <2>1, <2>2 DEF ReaderType
    <3> HIDE DEF n
    <3> QED
      BY <2>1, <3>1 DEF ReaderType
  <2>3. CASE reader' = [reader EXCEPT !.pc = "read"]
    BY <2>1, <2>3 DEF ReaderType
  <2> QED
    BY <1>1, <2>2, <2>3
<1>4. InputTyped'
  BY <1>1, <1>2, <1>3 DEF InputTyped, At, Current
<1>5. Fresh => Fresh'
  BY <1>1, <1>2 DEF Fresh, NewLibpcapSource
<1>6. Undisturbed => Undisturbed'
  BY <1>1, <1>2, <1>3, <1>5 DEF Undisturbed, Opened, Checked, Sound, Ended, At
<1> QED
  BY <1>1, <1>4, <1>6 DEF PlaceInv

\* A source that was stopped, and the end of a source.
LEMMA EndPlaces == ASSUME PlaceInv, ReadStopped \/ SourceEnds PROVE PlaceInv'
<1>1. /\ InputTyped /\ UNCHANGED <<input, sources, stopper, pcaps>>
      /\ \/ At("check") /\ Pcap.stopped /\ reader' = [reader EXCEPT !.pc = "eof"]
         \/ At("eof") /\ sources.stopped /\ reader' = [reader EXCEPT !.pc = "done"]
         \/ At("eof") /\ ~sources.stopped /\ reader' = [reader EXCEPT !.pc = "switch"]
  BY DEF PlaceInv, ReadStopped, SourceEnds, GoTo
<1>2. Pcap' = Pcap /\ Files' = Files /\ Current' = Current /\ Packet' = Packet
  BY <1>1 DEF Pcap, Current, Files, Packet
<1>3. /\ reader' \in ReaderType /\ reader'.pc \in {"eof", "done", "switch"}
      /\ ~sources.stopped => \/ At("check") /\ Pcap.stopped
                             \/ At("eof") /\ reader'.pc = "switch"
  <2>1. reader \in ReaderType
    BY <1>1 DEF InputTyped
  <2>2. PICK c \in {"eof", "done", "switch"} : reader' = [reader EXCEPT !.pc = c]
    BY <1>1
  <2>3. reader' \in ReaderType /\ reader'.pc = c
    BY <2>1, <2>2 DEF ReaderType
  <2> QED
    BY <1>1, <2>1, <2>3 DEF ReaderType
<1>4. InputTyped'
  BY <1>1, <1>2, <1>3 DEF InputTyped, At, Current
<1>5. Fresh => Fresh'
  BY <1>1, <1>2 DEF Fresh, NewLibpcapSource
<1>6. ~sources.stopped /\ Undisturbed => Undisturbed'
  <2> SUFFICES ASSUME ~sources.stopped, Undisturbed PROVE Undisturbed'
    OBVIOUS
  <2>1. At("eof") /\ reader'.pc = "switch"
    BY <1>3 DEF Undisturbed, Opened, At
  <2> QED
    BY <1>1, <1>2, <1>5, <2>1 DEF Undisturbed, Opened, Checked, Sound, Ended, At
<1> QED
  BY <1>1, <1>4, <1>6 DEF PlaceInv

\* The reader stops the source that has ended.
LEMMA StopSourcePlaces == ASSUME PlaceInv, StopSource PROVE PlaceInv'
<1> DEFINE p == Stopped(Pcap)
           pc == IF Current = Len(input.sources) THEN "done" ELSE "advance"
<1>1. /\ InputTyped /\ At("switch") /\ UNCHANGED <<input, sources, stopper>>
      /\ pcaps' = [pcaps EXCEPT ![Current] = p] /\ reader' = [reader EXCEPT !.pc = pc]
  BY CurrentFiles DEF PlaceInv, StopSource, GoTo, Pcap, InputTyped
<1>2. Pcap \in PcapType
  BY <1>1, CurrentFiles
<1>3. p \in PcapType /\ p.which = Pcap.which /\ p.at = Pcap.at
  <2>1. CASE Pcap.handle = "none"
    BY <1>2, <2>1 DEF Stopped
  <2>2. CASE Pcap.handle # "none"
    <3>1. p = [Pcap EXCEPT !.handle = "closed", !.stopped = TRUE]
      BY <2>2 DEF Stopped
    <3> HIDE DEF p
    <3> QED
      BY <1>2, <3>1 DEF PcapType
  <2> QED
    BY <2>1, <2>2
<1> HIDE DEF p
<1>4. /\ pcaps' \in [1 .. Len(input.sources) -> PcapType]
      /\ Pcap' = p /\ Files' = Files /\ Current' = Current /\ (Fresh => Fresh')
  BY <1>1, <1>3, CurrentChanges
<1>5. reader' \in ReaderType /\ reader'.pc = pc /\ pc \in {"advance", "done"}
  <2>1. pc \in {"advance", "done"} /\ reader \in ReaderType
    BY <1>1 DEF InputTyped
  <2> HIDE DEF pc
  <2> QED
    BY <1>1, <2>1 DEF ReaderType
<1>6. Packet' = Packet
  BY <1>3, <1>4 DEF Packet
<1>7. InputTyped'
  <2>1. Current \in 1 .. Len(input.sources) /\ Len(input.sources) \in Nat
    BY <1>1, CurrentFiles
  <2>2. At("advance")' => Current' < Len(input.sources')
    BY <1>1, <1>4, <1>5, <2>1 DEF At
  <2> QED
    BY <1>1, <1>4, <1>5, <2>2 DEF InputTyped, At
<1>8. Undisturbed => Undisturbed'
  <2>1. pc = "done" => Current = Len(input.sources)
    OBVIOUS
  <2> HIDE DEF pc
  <2> SUFFICES ASSUME Undisturbed PROVE Undisturbed'
    OBVIOUS
  <2>2. Pcap.which # 0
    BY <1>1 DEF Undisturbed, Opened, At
  <2>3. Opened'
    BY <1>1, <1>3, <1>4, <1>5, <1>6, <2>2 DEF Undisturbed, Opened, At
  <2>4. Checked'
    BY <1>5 DEF Checked, At
  <2>5. Ended'
    BY <1>1, <1>3, <1>4, <1>5, <1>6, <2>1 DEF Undisturbed, Ended, At
  <2> QED
    BY <1>1, <1>4, <2>3, <2>4, <2>5 DEF Undisturbed
<1> QED
  BY <1>1, <1>7, <1>8 DEF PlaceInv
\* The next source becomes the current one.
LEMMA NextSourcePlaces == ASSUME PlaceInv, NextSource PROVE PlaceInv'
<1>1. /\ InputTyped /\ At("advance") /\ UNCHANGED <<input, pcaps, stopper>>
      /\ reader' = [reader EXCEPT !.pc = "read"]
      /\ sources' = [sources EXCEPT !.first = @ + 1,
                                    !.after = IF sources.stopped THEN @ + 1 ELSE @]
  BY DEF PlaceInv, NextSource, GoTo
<1>2. Current \in 1 .. Len(input.sources) /\ Len(input.sources) \in Nat
      /\ Current < Len(input.sources)
  BY <1>1, CurrentFiles DEF InputTyped
<1>3. /\ sources' \in [first : 1 .. Len(input.sources), stopped : BOOLEAN, after : Nat]
      /\ sources'.first = Current + 1 /\ sources'.stopped = sources.stopped
  <2> DEFINE f == sources.first + 1
             n == IF sources.stopped THEN sources.after + 1 ELSE sources.after
  <2>1. sources \in [first : 1 .. Len(input.sources), stopped : BOOLEAN, after : Nat]
    BY <1>1 DEF InputTyped
  <2>2. f \in 1 .. Len(input.sources) /\ n \in Nat /\ f = Current + 1
    BY <1>2, <2>1 DEF Current
  <2>3. sources' = [sources EXCEPT !.first = f, !.after = n]
    BY <1>1
  <2> HIDE DEF f, n
  <2> QED
    BY <2>1, <2>2, <2>3
<1>4. reader' \in ReaderType /\ reader'.pc = "read"
  BY <1>1 DEF InputTyped, ReaderType
<1>5. InputTyped'
  BY <1>1, <1>3, <1>4 DEF InputTyped, At
<1>6. Undisturbed => Undisturbed'
  <2> SUFFICES ASSUME Undisturbed PROVE Undisturbed'
    OBVIOUS
  <2>1. Current' = Current + 1 /\ Current + 1 \in 1 .. Len(input.sources)
    BY <1>2, <1>3 DEF Current
  <2>2. Pcap' = NewLibpcapSource
    BY <1>1, <1>2, <2>1 DEF Undisturbed, Fresh, Pcap
  <2>3. Fresh'
    BY <1>1, <1>2, <2>1 DEF Undisturbed, Fresh, NewLibpcapSource
  <2>4. Opened' /\ Checked' /\ Ended'
    BY <1>4, <2>2 DEF NewLibpcapSource, Opened, Checked, Sound, Ended, At
  <2> QED
    BY <1>1, <2>3, <2>4 DEF Undisturbed
<1> QED
  BY <1>3, <1>5, <1>6 DEF PlaceInv

\* Stop, which ends what is known of the source.
LEMMA StopPlaces == ASSUME PlaceInv, Stop \/ StopPicks \/ StopStores PROVE PlaceInv'
<1>1. InputTyped /\ UNCHANGED <<input, reader>> /\ Current \in 1 .. Len(input.sources)
  BY CurrentFiles DEF PlaceInv, Stop, StopPicks, StopStores
<1>2. CASE Stop
  <2>1. /\ sources' = [sources EXCEPT !.stopped = TRUE] /\ UNCHANGED pcaps
        /\ stopper' = [stopper EXCEPT !.pc = "pick"]
    BY <1>2 DEF Stop
  <2>2. sources' \in [first : 1 .. Len(input.sources), stopped : BOOLEAN, after : Nat]
        /\ sources'.first = sources.first /\ sources'.stopped
    BY <1>1, <2>1 DEF InputTyped
  <2>3. stopper' \in [pc : {"idle", "never", "pick", "store", "done"},
                      source : 0 .. Len(input.sources)] /\ stopper'.pc = "pick"
    BY <1>1, <2>1 DEF InputTyped
  <2>4. InputTyped'
    BY <1>1, <2>1, <2>2, <2>3 DEF InputTyped, At, Current
  <2> QED
    BY <2>2, <2>4 DEF PlaceInv
<1>3. CASE StopPicks
  <2> DEFINE q == [Pcap EXCEPT !.handle = "closed"]
  <2>1. /\ stopper.pc = "pick" /\ UNCHANGED sources
        /\ stopper' = [pc |-> IF Pcap.handle = "none" THEN "done" ELSE "store",
                       source |-> Current]
        /\ pcaps' = IF Pcap.handle = "none" THEN pcaps ELSE [pcaps EXCEPT ![Current] = q]
    BY <1>1, <1>3 DEF StopPicks, Pcap, InputTyped
  <2>2. q \in PcapType
    <3>1. Pcap \in PcapType
      BY <1>1, CurrentFiles
    <3> QED
      BY <3>1 DEF PcapType
  <2> HIDE DEF q
  <2>3. pcaps' \in [1 .. Len(input.sources) -> PcapType]
    BY <1>1, <2>1, <2>2 DEF InputTyped
  <2>4. Len(input.sources) \in Nat
    BY <1>1, CurrentFiles
  <2>5. stopper' \in [pc : {"idle", "never", "pick", "store", "done"},
                      source : 0 .. Len(input.sources)] /\ stopper'.source # 0
    BY <1>1, <2>1, <2>4
  <2>6. InputTyped'
    BY <1>1, <2>1, <2>3, <2>5 DEF InputTyped, At, Current
  <2>7. sources.stopped
    BY <2>1 DEF PlaceInv, Undisturbed
  <2> QED
    BY <2>1, <2>6, <2>7 DEF PlaceInv
<1>4. CASE StopStores
  <2> DEFINE o == stopper.source
             q == [pcaps[o] EXCEPT !.stopped = TRUE]
  <2>1. /\ stopper.pc = "store" /\ UNCHANGED sources
        /\ stopper' = [stopper EXCEPT !.pc = "done"]
    BY <1>4 DEF StopStores
  <2>2. stopper' \in [pc : {"idle", "never", "pick", "store", "done"},
                      source : 0 .. Len(input.sources)] /\ stopper'.pc = "done"
    BY <1>1, <2>1 DEF InputTyped
  <2>3. o \in 1 .. Len(input.sources)
    <3>1. o \in 0 .. Len(input.sources) /\ o # 0 /\ Len(input.sources) \in Nat
      BY <1>1, <2>1, CurrentFiles DEF InputTyped
    <3> HIDE DEF o
    <3> QED
      BY <3>1
  <2>4. pcaps' = [pcaps EXCEPT ![o] = q]
    BY <1>1, <1>4, <2>3 DEF StopStores, InputTyped
  <2>5. q \in PcapType
    <3>1. pcaps[o] \in PcapType
      BY <1>1, <2>3 DEF InputTyped
    <3> QED
      BY <3>1 DEF PcapType
  <2> HIDE DEF o, q
  <2>6. pcaps' \in [1 .. Len(input.sources) -> PcapType]
    BY <1>1, <2>3, <2>4, <2>5 DEF InputTyped
  <2>7. InputTyped'
    BY <1>1, <2>1, <2>2, <2>6 DEF InputTyped, At, Current
  <2>8. sources.stopped
    BY <2>1 DEF PlaceInv, Undisturbed
  <2> QED
    BY <2>1, <2>7, <2>8 DEF PlaceInv
<1> QED
  BY <1>2, <1>3, <1>4

\* At the start no source has been read.
LEMMA InitPlaces == ASSUME Init PROVE PlaceInv
<1>1. /\ input \in Inputs /\ pcaps = [s \in DOMAIN input.sources |-> NewLibpcapSource]
      /\ sources = [first |-> 1, stopped |-> FALSE, after |-> 0]
      /\ reader = [pc |-> "read", got |-> "nothing", skipped |-> 0, filtered |-> 0]
      /\ stopper = [pc |-> IF input.stop THEN "idle" ELSE "never", source |-> 0]
  BY DEF Init
<1>2. DOMAIN input.sources = 1 .. Len(input.sources) /\ Len(input.sources) \in Nat
      /\ 1 \in 1 .. Len(input.sources)
  BY <1>1, InputTypes
<1>3. NewLibpcapSource \in PcapType
  BY DEF NewLibpcapSource, PcapType
<1>4. InputTyped
  <2>1. sources \in [first : 1 .. Len(input.sources), stopped : BOOLEAN, after : Nat]
    BY <1>1, <1>2
  <2>2. pcaps \in [1 .. Len(input.sources) -> PcapType]
    BY <1>1, <1>2, <1>3
  <2>3. reader \in ReaderType /\ ~At("advance")
    BY <1>1 DEF ReaderType, At
  <2>4. stopper \in [pc : {"idle", "never", "pick", "store", "done"},
                    source : 0 .. Len(input.sources)] /\ stopper.pc # "store"
    BY <1>1, <1>2
  <2> QED
    BY <1>1, <2>1, <2>2, <2>3, <2>4 DEF InputTyped
<1>5. Undisturbed
  <2>1. Pcap = NewLibpcapSource /\ Fresh
    BY <1>1, <1>2 DEF Pcap, Current, Fresh, NewLibpcapSource
  <2>2. stopper.pc \in {"idle", "never"} /\ At("read")
    BY <1>1 DEF At
  <2> QED
    BY <2>1, <2>2 DEF Undisturbed, Opened, Checked, Sound, Ended, NewLibpcapSource, At
<1> QED
  BY <1>4, <1>5 DEF PlaceInv

\* PlaceInv is an invariant.
LEMMA PlaceStep == ASSUME PlaceInv, [Next]_vars PROVE PlaceInv'
<1>1. CASE UNCHANGED vars
  BY <1>1, SameSources DEF vars, PlaceInv, InputTyped, At, Current
<1> QED
  BY <1>1, ReadPlaces, ReadDataPlaces, NextFilePlaces, PacketPlaces, EndPlaces,
     StopSourcePlaces, NextSourcePlaces, StopPlaces DEF Next
--------------------------------------------------------------------------------
(* What was read.                                                            *)

\* A place of a packet that can be read.
LEMMA OfferedParts ==
    ASSUME input \in Inputs, NEW b \in Offered
    PROVE  /\ b \in Triples /\ b[1] >= 1 /\ b[2] >= 1 /\ b[3] >= 1
           /\ b[1] \in 1 .. Len(input.sources) /\ b[2] \in 1 .. Len(input.sources[b[1]])
           /\ b[3] \in 1 .. Len(input.sources[b[1]][b[2]])
           /\ b = <<b[1], b[2], b[3]>> /\ b[1] \in Nat /\ b[2] \in Nat /\ b[3] \in Nat
           /\ \A i \in 1 .. b[3] - 1 : ~input.sources[b[1]][b[2]][i].bad
<1>1. b \in Places /\ \A i \in 1 .. b[3] - 1 : ~input.sources[b[1]][b[2]][i].bad
  BY DEF Offered
<1>2. b \in Triples
  BY <1>1, PlaceParts
<1>3. b[1] \in Nat /\ b[2] \in Nat /\ b[3] \in Nat
  BY <1>2 DEF Triples
<1> QED
  BY <1>1, <1>3, PlaceParts

\* What a file is.
LEMMA FilesTyped ==
    ASSUME input \in Inputs, NEW s \in 1 .. Len(input.sources),
           NEW f \in 1 .. Len(input.sources[s])
    PROVE  input.sources[s][f] \in Seq(PacketType) /\ Len(input.sources[s][f]) \in Nat
<1>1. input.sources[s] \in Seq(Seq(PacketType))
  BY InputTypes
<1> QED
  BY <1>1

\* The places stay what they are as long as the input does.
LEMMA SamePlaces ==
    ASSUME UNCHANGED input
    PROVE  Wanted' = Wanted /\ Offered' = Offered /\ \A a : PacketAt(a)' = PacketAt(a)
<1>1. \A a : PacketAt(a)' = PacketAt(a)
  BY DEF PacketAt
<1>2. Places' = Places
  <2>1. \A s, f : PlacesOf(s, f)' = PlacesOf(s, f)
    BY DEF PlacesOf
  <2> QED
    BY <2>1 DEF Places
<1>3. Offered' = Offered
  BY <1>2 DEF Offered
<1>4. \A p : Used(p)' = Used(p)
  BY DEF Used
<1>5. Wanted' = Wanted
  BY <1>1, <1>3, <1>4 DEF Wanted
<1> QED
  BY <1>1, <1>3, <1>5

\* Behind the last packet of a file that can be read comes the next file, and behind the
\* last file the next source.
LEMMA BeyondFile ==
    ASSUME input \in Inputs, NEW s \in 1 .. Len(input.sources),
           NEW f \in 1 .. Len(input.sources[s]), NEW i \in Nat,
           \/ i = Len(input.sources[s][f])
           \/ i > 0 /\ input.sources[s][f][i].bad
    PROVE  /\ Skips(Offered, <<s, f, i>>, <<s, f + 1, 0>>)
           /\ f = Len(input.sources[s]) => Skips(Offered, <<s, f, i>>, <<s + 1, 0, 0>>)
<1>1. s \in Nat /\ f \in Nat /\ Len(input.sources[s]) \in Nat
  BY InputTypes
<1>2. ASSUME NEW b \in Offered, b[1] = s
      PROVE  /\ b[2] = f => b[3] <= i
             /\ b[2] <= Len(input.sources[s])
  <2>1. /\ b[3] \in Nat /\ b[3] <= Len(input.sources[b[1]][b[2]]) /\ b[2] <= Len(input.sources[s])
        /\ \A j \in 1 .. b[3] - 1 : ~input.sources[b[1]][b[2]][j].bad
    <3>1. b[2] \in 1 .. Len(input.sources[s]) /\ b[3] \in 1 .. Len(input.sources[b[1]][b[2]])
          /\ b[3] \in Nat
      BY <1>2, OfferedParts
    <3>2. Len(input.sources[b[1]][b[2]]) \in Nat
      BY <1>2, <3>1, FilesTyped
    <3>3. \A j \in 1 .. b[3] - 1 : ~input.sources[b[1]][b[2]][j].bad
      BY OfferedParts
    <3> QED
      BY <1>1, <3>1, <3>2, <3>3
  <2>2. CASE b[2] = f
    <3>1. b[3] <= Len(input.sources[s][f]) /\ \A j \in 1 .. b[3] - 1 : ~input.sources[s][f][j].bad
      BY <1>2, <2>1, <2>2
    <3>2. i > 0 /\ input.sources[s][f][i].bad => ~(i \in 1 .. b[3] - 1)
      BY <3>1
    <3> QED
      BY <2>1, <3>1, <3>2
  <2> QED
    BY <2>1, <2>2
<1>3. ASSUME NEW b \in Offered PROVE UpTo(b, <<s, f, i>>) <=> UpTo(b, <<s, f + 1, 0>>)
  <2>1. b[1] \in Nat /\ b[2] \in Nat /\ b[3] \in Nat /\ b[3] >= 1 /\ (b[1] = s /\ b[2] = f => b[3] <= i)
    BY <1>2, OfferedParts
  <2> QED
    BY <1>1, <2>1 DEF UpTo
<1>4. ASSUME NEW b \in Offered, f = Len(input.sources[s])
      PROVE  UpTo(b, <<s, f, i>>) <=> UpTo(b, <<s + 1, 0, 0>>)
  <2>1. /\ b[1] \in Nat /\ b[2] \in Nat /\ b[3] \in Nat /\ b[2] >= 1
        /\ b[1] = s => b[2] <= f /\ (b[2] = f => b[3] <= i)
    BY <1>2, <1>4, OfferedParts
  <2> QED
    BY <1>1, <2>1 DEF UpTo
<1> QED
  BY <1>3, <1>4 DEF Skips

\* The packet that comes next in a file.
LEMMA NextPlace ==
    ASSUME input \in Inputs, NEW s \in 1 .. Len(input.sources),
           NEW f \in 1 .. Len(input.sources[s]), NEW i \in 1 .. Len(input.sources[s][f]),
           \A j \in 1 .. i - 1 : ~input.sources[s][f][j].bad
    PROVE  /\ <<s, f, i>> \in Offered /\ PacketAt(<<s, f, i>>) = input.sources[s][f][i]
           /\ Passes(Offered, <<s, f, i - 1>>, <<s, f, i>>, <<s, f, i>>)
<1> DEFINE c == <<s, f, i>>
<1>1. s \in Nat /\ f \in Nat /\ i \in Nat /\ i >= 1
  BY InputTypes
<1>2. c[1] = s /\ c[2] = f /\ c[3] = i
  OBVIOUS
<1>3. c \in Places
  BY IsPlace
<1>4. c \in Offered /\ PacketAt(c) = input.sources[s][f][i]
  BY <1>2, <1>3 DEF Offered, PacketAt
<1>5. ~UpTo(c, <<s, f, i - 1>>)
  BY <1>1 DEF UpTo
<1>6. ASSUME NEW b \in Offered PROVE UpTo(b, c) <=> UpTo(b, <<s, f, i - 1>>) \/ b = c
  <2>1. b[1] \in Nat /\ b[2] \in Nat /\ b[3] \in Nat /\ b = <<b[1], b[2], b[3]>>
    BY OfferedParts
  <2>2. b[1] = s /\ b[2] = f /\ b[3] = i => b = c
    BY <2>1, Zenon
  <2>3. b = c => b[1] = s /\ b[2] = f /\ b[3] = i
    BY <1>2
  <2> HIDE DEF c
  <2> QED
    BY <1>1, <1>2, <2>1, <2>2, <2>3 DEF UpTo
<1> QED
  BY <1>4, <1>5, <1>6 DEF Passes

\* Steps of the places that are offered are steps of those that are wanted.
LEMMA WantedSteps ==
    ASSUME input \in Inputs, NEW m, NEW n, NEW c
    PROVE  /\ Skips(Offered, m, n) => Skips(Wanted, m, n)
           /\ Passes(Offered, m, n, c) /\ ~Used(PacketAt(c)) => Skips(Wanted, m, n)
           /\ Passes(Offered, m, n, c) /\ Used(PacketAt(c)) => Passes(Wanted, m, n, c)
           /\ Passes(Offered, m, c, c) /\ Skips(Offered, c, n) => Passes(Offered, m, n, c)
BY DEF Skips, Passes, Wanted

\* The place up to which all is read; a packet that is being looked at is not.
Through == IF At("check") /\ reader.got # "eof" THEN Pcap.at - 1 ELSE Pcap.at
Mark == <<Current, Pcap.which, Through>>

\* Every packet that is wanted, up to there, was asked about, in order.
AskedSoFar ==
    /\ \E T : asked \in Seq(T)
    /\ Len(asked) = Rank(Wanted, Mark)
    /\ \A a \in Wanted : UpTo(a, Mark) =>
        /\ asked[Rank(Wanted, a)].packet = PacketAt(a)
        /\ Len(input.sources) = 1 => asked[Rank(Wanted, a)].nr = Rank(Offered, a)

\* Every packet that is offered, up to there, was counted.
Count == engine.packets + IF At("read") THEN 0 ELSE reader.skipped + reader.filtered
CountSoFar ==
    /\ engine = [packets |-> engine.packets, selector |-> engine.selector,
                 window |-> engine.window, labels |-> engine.labels]
    /\ engine.packets \in Nat
    /\ Len(input.sources) = 1 /\ reader.pc \in {"read", "data", "check"} =>
        Count = Rank(Offered, Mark)

\* A sequence with one more element, of any type.
LEMMA AppendIs ==
    ASSUME NEW T, NEW s \in Seq(T), NEW e
    PROVE  /\ Append(s, e) \in Seq(T \cup {e}) /\ Len(Append(s, e)) = Len(s) + 1
           /\ Append(s, e)[Len(s) + 1] = e /\ Len(s) \in Nat
           /\ \A i \in 1 .. Len(s) : Append(s, e)[i] = s[i]
<1>1. s \in Seq(T \cup {e}) /\ Len(s) \in Nat
  <2>1. s \in [1 .. Len(s) -> T \cup {e}] /\ Len(s) \in Nat
    OBVIOUS
  <2> QED
    BY <2>1
<1> QED
  BY <1>1

\* Nothing was asked about and nothing wanted was passed.
LEMMA AskedStays ==
    ASSUME input \in Inputs, UNCHANGED <<input, asked>>, Skips(Wanted, Mark, Mark'), AskedSoFar
    PROVE  AskedSoFar'
<1>1. Wanted' = Wanted /\ Offered' = Offered
  BY SamePlaces
<1>2. Rank(Wanted, Mark') = Rank(Wanted, Mark)
  BY RankSteps, PlacesFinite
<1>3. \A a \in Wanted : UpTo(a, Mark') => UpTo(a, Mark)
  BY DEF Skips
<1>4. \A a : PacketAt(a)' = PacketAt(a)
  BY SamePlaces
<1> HIDE DEF Mark
<1> QED
  BY <1>1, <1>2, <1>3, <1>4 DEF AskedSoFar

\* The next wanted packet was asked about.
LEMMA AskedGrows ==
    ASSUME input \in Inputs, Mark \in Triples, NEW c, NEW e, UNCHANGED input,
           asked' = Append(asked, e), Mark' = c, Passes(Wanted, Mark, c, c),
           e.packet = PacketAt(c), Len(input.sources) = 1 => e.nr = Rank(Offered, c), AskedSoFar
    PROVE  AskedSoFar'
<1>1. Wanted' = Wanted /\ Offered' = Offered
  BY SamePlaces
<1>2. Rank(Wanted, c) = Rank(Wanted, Mark) + 1
  BY RankSteps, PlacesFinite
<1>3. PICK T : asked \in Seq(T)
  BY DEF AskedSoFar
<1>4. /\ asked' \in Seq(T \cup {e}) /\ Len(asked') = Len(asked) + 1
      /\ asked'[Len(asked) + 1] = e /\ Len(asked) \in Nat
      /\ \A i \in 1 .. Len(asked) : asked'[i] = asked[i]
  BY <1>3, AppendIs
<1>5. Len(asked) = Rank(Wanted, Mark)
  BY DEF AskedSoFar
<1>6. ASSUME NEW a \in Wanted, UpTo(a, c)
      PROVE  /\ asked'[Rank(Wanted, a)].packet = PacketAt(a)
             /\ Len(input.sources) = 1 => asked'[Rank(Wanted, a)].nr = Rank(Offered, a)
  <2>1. CASE UpTo(a, Mark)
    <3>1. Wanted \in SUBSET Triples /\ IsFiniteSet(Wanted)
      BY PlacesFinite
    <3>2. Rank(Wanted, a) \in Nat /\ Rank(Wanted, a) >= 1 /\ Rank(Wanted, a) <= Rank(Wanted, Mark)
      BY <2>1, <3>1, RankOrders
    <3>3. asked'[Rank(Wanted, a)] = asked[Rank(Wanted, a)]
      BY <1>4, <1>5, <3>2
    <3> QED
      BY <2>1, <3>3 DEF AskedSoFar
  <2>2. CASE a = c
    <3>1. asked'[Rank(Wanted, a)] = e
      BY <1>2, <1>4, <1>5, <2>2
    <3> QED
      BY <2>2, <3>1
  <2> QED
    BY <1>6, <2>1, <2>2 DEF Passes
<1>7. \A a : PacketAt(a)' = PacketAt(a)
  BY SamePlaces
<1>8. \E U : asked' \in Seq(U)
  BY <1>4
<1> HIDE DEF Mark
<1>9. Len(asked') = Rank(Wanted', Mark')
  BY <1>1, <1>2, <1>4, <1>5
<1>10. \A a \in Wanted' : UpTo(a, Mark') =>
        /\ asked'[Rank(Wanted', a)].packet = PacketAt(a)'
        /\ Len(input.sources') = 1 => asked'[Rank(Wanted', a)].nr = Rank(Offered', a)
  BY <1>1, <1>6, <1>7
<1> QED
  BY <1>8, <1>9, <1>10 DEF AskedSoFar
\* Where the reader is, as a place.
LEMMA MarkParts ==
    ASSUME PlaceInv, ~sources.stopped
    PROVE  /\ input \in Inputs /\ Current \in 1 .. Len(input.sources) /\ Files = input.sources[Current]
           /\ Current \in Nat /\ Pcap.which \in Nat /\ Pcap.at \in Nat
           /\ Pcap.which > 0 => Pcap.which \in 1 .. Len(input.sources[Current])
                                /\ Pcap.at \in 0 .. Len(input.sources[Current][Pcap.which])
           /\ Through \in Nat /\ Mark = <<Current, Pcap.which, Through>> /\ Mark \in Triples
           /\ reader.skipped \in Nat /\ reader.filtered \in Nat
<1>1. InputTyped /\ Undisturbed /\ input \in Inputs
  BY DEF PlaceInv, InputTyped
<1>2. Current \in 1 .. Len(input.sources) /\ Files = input.sources[Current] /\ Pcap \in PcapType
      /\ Len(input.sources) \in Nat
  BY <1>1, CurrentFiles DEF Files
<1>3. Current \in Nat /\ Pcap.which \in Nat /\ Pcap.at \in Nat
  BY <1>2 DEF PcapType
<1>4. Pcap.which > 0 => Pcap.which \in 1 .. Len(input.sources[Current])
                        /\ Pcap.at \in 0 .. Len(input.sources[Current][Pcap.which])
  BY <1>1, <1>2 DEF Undisturbed, Opened
<1>5. Through \in Nat
  <2>1. At("check") /\ reader.got # "eof" => Pcap.at > 0
    BY <1>1 DEF Undisturbed, Checked
  <2> QED
    BY <1>3, <2>1 DEF Through
<1>6. Mark \in Triples
  BY <1>3, <1>5 DEF Mark, Triples
<1>7. reader.skipped \in Nat /\ reader.filtered \in Nat
  BY <1>1 DEF InputTyped, ReaderType
<1> QED
  BY <1>1, <1>2, <1>3, <1>4, <1>5, <1>6, <1>7 DEF Mark

\* The packet that the reader looks at is the next one that is offered.
LEMMA LooksAtNext ==
    ASSUME PlaceInv, ~sources.stopped, At("check"), reader.got # "eof"
    PROVE  LET c == <<Current, Pcap.which, Pcap.at>>
           IN  Passes(Offered, Mark, c, c) /\ PacketAt(c) = Packet /\ c \in Offered
<1>1. Undisturbed
  BY DEF PlaceInv
<1>2. Pcap.which > 0 /\ Pcap.at > 0
  <2>1. Pcap.which # 0
    BY <1>1 DEF Undisturbed, Opened, At
  <2> QED
    BY <1>1, <2>1, MarkParts DEF Undisturbed, Checked
<1>3. /\ Pcap.which \in 1 .. Len(input.sources[Current])
      /\ Pcap.at \in 1 .. Len(input.sources[Current][Pcap.which])
      /\ \A j \in 1 .. Pcap.at - 1 : ~input.sources[Current][Pcap.which][j].bad
  <2>1. /\ Pcap.which \in 1 .. Len(input.sources[Current]) /\ input \in Inputs
        /\ Pcap.at \in 0 .. Len(input.sources[Current][Pcap.which])
        /\ Current \in 1 .. Len(input.sources) /\ Files = input.sources[Current]
    BY <1>2, MarkParts
  <2>2. Len(input.sources[Current][Pcap.which]) \in Nat
    BY <2>1, FilesTyped
  <2>3. \A j \in 1 .. Pcap.at - 1 : ~Files[Pcap.which][j].bad
    BY <1>1, <1>2 DEF Undisturbed, Opened
  <2> QED
    BY <1>2, <2>1, <2>2, <2>3
<1>4. Mark = <<Current, Pcap.which, Pcap.at - 1>> /\ Packet = input.sources[Current][Pcap.which][Pcap.at]
  BY MarkParts DEF Mark, Through, Packet
<1>5. input \in Inputs /\ Current \in 1 .. Len(input.sources)
  BY MarkParts
<1> HIDE DEF Mark
<1> QED
  BY <1>3, <1>4, <1>5, NextPlace

\* The step of the mark when a file or a source ends.
LEMMA MarkAtEnds ==
    ASSUME PlaceInv, ~sources.stopped,
           Pcap.which > 0 /\ (Pcap.at = Len(Files[Pcap.which]) \/ (Pcap.at > 0 /\ Packet.bad))
    PROVE  LET c == <<Current, Pcap.which, Pcap.at>>
           IN  /\ Skips(Offered, c, <<Current, Pcap.which + 1, 0>>)
               /\ Pcap.which = Len(Files) => Skips(Offered, c, <<Current + 1, 0, 0>>)
<1> DEFINE w == Pcap.which
           i == Pcap.at
           s == Current
<1>1. /\ input \in Inputs /\ s \in 1 .. Len(input.sources) /\ w \in 1 .. Len(input.sources[s])
      /\ i \in Nat /\ Files = input.sources[s]
  BY MarkParts
<1>2. i = Len(input.sources[s][w]) \/ (i > 0 /\ input.sources[s][w][i].bad)
  BY <1>1 DEF Packet
<1>3. Files = input.sources[s]
  BY <1>1
<1> HIDE DEF w, i, s
<1>4. /\ Skips(Offered, <<s, w, i>>, <<s, w + 1, 0>>)
      /\ w = Len(input.sources[s]) => Skips(Offered, <<s, w, i>>, <<s + 1, 0, 0>>)
  BY <1>1, <1>2, BeyondFile
<1> QED
  BY <1>3, <1>4 DEF w, i, s

ReadInv == PlaceInv /\ (~sources.stopped => AskedSoFar /\ CountSoFar)

\* Nothing is passed and nothing is counted.
LEMMA ReadStays ==
    ASSUME ReadInv, ~sources.stopped, UNCHANGED <<input, asked, engine>>,
           Skips(Offered, Mark, Mark'),
           reader.pc' \in {"read", "data", "check"} =>
                reader.pc \in {"read", "data", "check"} /\ Count' = Count
    PROVE  AskedSoFar' /\ CountSoFar'
<1>1. input \in Inputs /\ PlaceInv /\ AskedSoFar /\ CountSoFar
  BY MarkParts DEF ReadInv
<1>2. Skips(Wanted, Mark, Mark')
  BY <1>1, WantedSteps
<1>3. AskedSoFar'
  BY <1>1, <1>2, AskedStays
<1>4. Rank(Offered, Mark') = Rank(Offered, Mark)
  BY <1>1, RankSteps, PlacesFinite
<1>5. Offered' = Offered
  BY SamePlaces
<1> HIDE DEF Mark
<1>6. CountSoFar'
  BY <1>1, <1>4, <1>5 DEF CountSoFar
<1> QED
  BY <1>3, <1>6

\* A packet is passed that is not wanted, and counted.
LEMMA ReadPasses ==
    ASSUME ReadInv, ~sources.stopped, UNCHANGED <<input, asked>>, NEW c,
           Passes(Offered, Mark, Mark', c), ~Used(PacketAt(c)),
           \E n \in Nat : engine' = [engine EXCEPT !.packets = n],
           reader.pc \in {"read", "data", "check"},
           reader.pc' \in {"read", "data", "check"} => Count' = Count + 1
    PROVE  AskedSoFar' /\ CountSoFar'
<1>1. input \in Inputs /\ PlaceInv /\ AskedSoFar /\ CountSoFar
  BY MarkParts DEF ReadInv
<1>2. Skips(Wanted, Mark, Mark')
  BY <1>1, WantedSteps
<1>3. AskedSoFar'
  BY <1>1, <1>2, AskedStays
<1>4. Rank(Offered, Mark') = Rank(Offered, Mark) + 1
  BY <1>1, RankSteps, PlacesFinite
<1>5. Offered' = Offered
  BY SamePlaces
<1>6. /\ engine' = [packets |-> engine'.packets, selector |-> engine'.selector,
                    window |-> engine'.window, labels |-> engine'.labels]
      /\ engine'.packets \in Nat
  BY <1>1 DEF CountSoFar
<1> HIDE DEF Mark
<1>7. CountSoFar'
  BY <1>1, <1>4, <1>5, <1>6 DEF CountSoFar
<1> QED
  BY <1>3, <1>7
\* Read passes nothing: a source that is opened is at its start.
LEMMA ReadReads ==
    ASSUME ReadInv, ~sources.stopped, Read PROVE AskedSoFar' /\ CountSoFar'
<1>1. /\ PlaceInv /\ Undisturbed /\ At("read") /\ UNCHANGED <<input, sources, engine, asked>>
      /\ reader' = [reader EXCEPT !.pc = "data", !.skipped = 0, !.filtered = 0]
      /\ IF Pcap.which = 0 THEN OpenNext ELSE UNCHANGED pcaps
  BY DEF ReadInv, PlaceInv, Read
<1>2. reader'.pc = "data" /\ reader'.skipped = 0 /\ reader'.filtered = 0
  BY <1>1 DEF PlaceInv, InputTyped, ReaderType
<1>3. Count' = Count
  BY <1>1, <1>2, MarkParts DEF Count, At, ReadInv, CountSoFar
<1>4. Skips(Offered, Mark, Mark')
  <2>1. CASE Pcap.which # 0
    <3>1. Mark' = Mark
      BY <1>1, <1>2, <2>1 DEF Mark, Through, Pcap, Current, At
    <3> QED
      BY <3>1 DEF Skips
  <2>2. CASE Pcap.which = 0
    <3>1. Pcap' = [Pcap EXCEPT !.which = @ + 1, !.at = 0, !.handle = "open"] /\ Current' = Current
      BY <1>1, <2>2, OpenNextHolds DEF PlaceInv
    <3>2. Pcap \in PcapType /\ Pcap = NewLibpcapSource
      BY <1>1, <2>2, CurrentFiles DEF PlaceInv, Undisturbed, Opened
    <3>3. Pcap'.which = 1 /\ Pcap'.at = 0 /\ Pcap.at = 0
      BY <2>2, <3>1, <3>2 DEF PcapType, NewLibpcapSource
    <3>4. Mark = <<Current, 0, 0>> /\ Mark' = <<Current, 1, 0>>
      BY <1>1, <1>2, <2>2, <3>1, <3>3 DEF Mark, Through, At
    <3>5. ASSUME NEW b \in Offered
          PROVE  UpTo(b, <<Current, 0, 0>>) <=> UpTo(b, <<Current, 1, 0>>)
      <4>1. b[1] \in Nat /\ b[2] \in Nat /\ b[3] \in Nat /\ b[2] >= 1 /\ b[3] >= 1 /\ Current \in Nat
        BY <1>1, OfferedParts, MarkParts
      <4> QED
        BY <4>1 DEF UpTo
    <3> QED
      BY <3>4, <3>5 DEF Skips
  <2> QED
    BY <2>1, <2>2
<1> HIDE DEF Mark
<1> QED
  BY <1>1, <1>2, <1>3, <1>4, ReadStays DEF At

\* What libpcap gives is not passed yet.
LEMMA ReadDataReads ==
    ASSUME ReadInv, ~sources.stopped, ReadData PROVE AskedSoFar' /\ CountSoFar'
<1> DEFINE file == Files[Pcap.which]
           more == Pcap.handle = "open" /\ Pcap.at < Len(file)
           g == IF ~more THEN "eof" ELSE IF file[Pcap.at + 1].bad THEN "error" ELSE "packet"
<1>1. /\ PlaceInv /\ At("data") /\ UNCHANGED <<input, sources, engine, asked>>
      /\ reader' = [reader EXCEPT !.pc = "check", !.got = g]
      /\ pcaps' = IF more THEN [pcaps EXCEPT ![Current].at = @ + 1] ELSE pcaps
  BY DEF ReadInv, ReadData
<1>2. reader'.pc = "check" /\ reader'.got = g /\ reader'.skipped = reader.skipped
      /\ reader'.filtered = reader.filtered
  BY <1>1 DEF PlaceInv, InputTyped, ReaderType
<1>3. Count' = Count
  BY <1>1, <1>2 DEF Count, At
<1>4. Mark' = Mark
  <2>1. Current' = Current /\ Pcap.at \in Nat /\ Through = Pcap.at
    BY <1>1, MarkParts DEF Current, Through, At
  <2>2. CASE more
    <3>1. g # "eof" /\ Pcap \in PcapType /\ Current \in 1 .. Len(input.sources)
      BY <1>1, <2>2, CurrentFiles DEF PlaceInv
    <3>2. Pcap' = [Pcap EXCEPT !.at = @ + 1]
      BY <1>1, <2>1, <2>2, <3>1 DEF Pcap, PlaceInv, InputTyped
    <3>3. Pcap'.which = Pcap.which /\ Pcap'.at = Pcap.at + 1
      BY <3>1, <3>2 DEF PcapType
    <3> HIDE DEF g
    <3>4. Through' = Pcap'.at - 1
      BY <1>2, <3>1 DEF Through, At
    <3> QED
      BY <2>1, <3>3, <3>4 DEF Mark
  <2>3. CASE ~more
    <3>1. Pcap' = Pcap /\ g = "eof"
      BY <1>1, <2>1, <2>3 DEF Pcap
    <3> HIDE DEF g
    <3>2. Through' = Pcap.at
      BY <1>2, <3>1 DEF Through, At
    <3> QED
      BY <2>1, <3>1, <3>2 DEF Mark
  <2> QED
    BY <2>2, <2>3
<1>5. Skips(Offered, Mark, Mark')
  BY <1>4 DEF Skips
<1> HIDE DEF Mark
<1> QED
  BY <1>1, <1>2, <1>3, <1>5, ReadStays DEF At

\* The end of a file passes nothing, an error the packet that could not be read.
LEMMA NextFileReads ==
    ASSUME ReadInv, ~sources.stopped, NextFile PROVE AskedSoFar' /\ CountSoFar'
<1> DEFINE c == <<Current, Pcap.which, Pcap.at>>
           n == <<Current, Pcap.which + 1, 0>>
           last == Pcap.which = Len(Files)
           skipped == IF reader.got = "error" THEN reader.skipped + 1 ELSE reader.skipped
<1>1. /\ PlaceInv /\ Undisturbed /\ At("check") /\ UNCHANGED <<input, sources, engine, asked>>
      /\ reader.got \in {"eof", "error"} /\ Pcap.which > 0
      /\ Pcap.at = Len(Files[Pcap.which]) \/ (Pcap.at > 0 /\ Packet.bad)
      /\ reader.got = "error" => Packet.bad
      /\ last => reader' = [reader EXCEPT !.pc = "eof"] /\ UNCHANGED pcaps
      /\ ~last => reader' = [reader EXCEPT !.pc = "data", !.skipped = skipped] /\ OpenNext
  <2>1. PlaceInv /\ Undisturbed /\ At("check") /\ UNCHANGED <<input, sources, engine, asked>>
        /\ reader.got # "packet"
    BY DEF ReadInv, PlaceInv, NextFile
  <2>2. Pcap.which > 0
    BY <2>1, MarkParts DEF Undisturbed, Opened, At
  <2>3. /\ reader.got \in {"eof", "error"}
        /\ Pcap.at = Len(Files[Pcap.which]) \/ (Pcap.at > 0 /\ Packet.bad)
        /\ reader.got = "error" => Packet.bad
    BY <2>1 DEF Undisturbed, Checked
  <2> QED
    BY <2>1, <2>2, <2>3 DEF NextFile, GoTo
<1>2. /\ last => reader'.pc = "eof"
      /\ ~last => reader'.pc = "data" /\ reader'.skipped = skipped
                  /\ reader'.filtered = reader.filtered
  BY <1>1 DEF PlaceInv, InputTyped, ReaderType
<1>3. Skips(Offered, c, n)
  BY <1>1, MarkAtEnds
<1>4. /\ last => Mark' = c
      /\ ~last => Mark' = n
  <2>1. CASE last
    <3>1. Pcap' = Pcap /\ Current' = Current
      BY <1>1, <2>1 DEF Pcap, Current
    <3> QED
      BY <1>2, <2>1, <3>1 DEF Mark, Through, At
  <2>2. CASE ~last
    <3>1. Pcap' = [Pcap EXCEPT !.which = @ + 1, !.at = 0, !.handle = "open"] /\ Current' = Current
          /\ Pcap \in PcapType
      BY <1>1, <2>2, OpenNextHolds, CurrentFiles DEF PlaceInv
    <3>2. Pcap'.which = Pcap.which + 1 /\ Pcap'.at = 0
      BY <3>1 DEF PcapType
    <3> QED
      BY <1>2, <2>2, <3>1, <3>2 DEF Mark, Through, At
  <2> QED
    BY <2>1, <2>2
<1>5. Skips(Offered, c, Mark')
  <2>1. Skips(Offered, c, c)
    BY DEF Skips
  <2> HIDE DEF c, n, last, Mark
  <2> QED
    BY <1>3, <1>4, <2>1
<1>6. \/ Count' = IF reader.got = "error" THEN Count + 1 ELSE Count
      \/ reader'.pc = "eof"
  <2>1. /\ reader.skipped \in Nat /\ reader.filtered \in Nat /\ engine.packets \in Nat
        /\ UNCHANGED engine /\ reader.pc = "check"
    BY <1>1, MarkParts DEF ReadInv, CountSoFar, At
  <2> HIDE DEF last
  <2>2. CASE last
    BY <1>2, <2>2
  <2>3. CASE ~last
    BY <1>2, <2>1, <2>3 DEF Count, At
  <2> QED
    BY <2>2, <2>3
<1>7. CASE reader.got = "eof"
  <2>1. Mark = c
    BY <1>1, <1>7 DEF Mark, Through
  <2>2. Count' = Count \/ reader'.pc = "eof"
    BY <1>6, <1>7
  <2> HIDE DEF c, Mark
  <2> QED
    BY <1>1, <1>5, <2>1, <2>2, ReadStays DEF At
<1>8. CASE reader.got = "error"
  <2>1. Passes(Offered, Mark, c, c) /\ PacketAt(c) = Packet
    BY <1>1, <1>8, LooksAtNext
  <2>2. ~Used(PacketAt(c))
    BY <1>1, <1>8, <2>1 DEF Used
  <2>3. Count' = Count + 1 \/ reader'.pc = "eof"
    BY <1>6, <1>8
  <2>4. engine' = [engine EXCEPT !.packets = engine.packets] /\ engine.packets \in Nat
    BY <1>1 DEF ReadInv, CountSoFar
  <2> HIDE DEF c, Mark
  <2>5. Passes(Offered, Mark, Mark', c)
    BY <1>5, <2>1 DEF Passes, Skips
  <2> QED
    BY <1>1, <2>2, <2>3, <2>4, <2>5, ReadPasses DEF At
<1> QED
  BY <1>1, <1>7, <1>8
\* A packet that the filter of libpcap takes out is passed and counted, and not wanted.
LEMMA FilteredReads ==
    ASSUME ReadInv, ~sources.stopped, Filtered PROVE AskedSoFar' /\ CountSoFar'
<1> DEFINE c == <<Current, Pcap.which, Pcap.at>>
<1>1. /\ PlaceInv /\ At("check") /\ UNCHANGED <<input, pcaps, sources, engine, asked>>
      /\ reader.got = "packet" /\ ~Packet.bpf
      /\ reader' = [reader EXCEPT !.pc = "data", !.filtered = @ + 1]
  BY DEF ReadInv, Filtered
<1>2. reader'.pc = "data" /\ reader'.skipped = reader.skipped
      /\ reader'.filtered = reader.filtered + 1
  BY <1>1 DEF PlaceInv, InputTyped, ReaderType
<1>3. Passes(Offered, Mark, c, c) /\ PacketAt(c) = Packet
  BY <1>1, LooksAtNext
<1>4. Mark' = c
  BY <1>1, <1>2 DEF Mark, Through, Pcap, Current, At
<1>5. Count' = Count + 1
  <2>1. /\ reader.skipped \in Nat /\ reader.filtered \in Nat /\ engine.packets \in Nat
        /\ engine' = engine /\ reader.pc = "check"
    BY <1>1, MarkParts DEF ReadInv, CountSoFar, At
  <2> QED
    BY <1>2, <2>1 DEF Count, At
<1>6. ~Used(PacketAt(c))
  BY <1>1, <1>3 DEF Used
<1>7. engine' = [engine EXCEPT !.packets = engine.packets] /\ engine.packets \in Nat
  BY <1>1 DEF ReadInv, CountSoFar
<1>8. Passes(Offered, Mark, Mark', c)
  BY <1>3, <1>4
<1> HIDE DEF c, Mark
<1> QED
  BY <1>1, <1>2, <1>5, <1>6, <1>7, <1>8, ReadPasses DEF At

\* A packet that goes to the engine is passed and counted, and asked about if it is wanted.
LEMMA AcceptReads ==
    ASSUME ReadInv, ~sources.stopped, Accept PROVE AskedSoFar' /\ CountSoFar'
<1> DEFINE c == <<Current, Pcap.which, Pcap.at>>
           nr == engine.packets + reader.skipped + reader.filtered + 1
           label == GetLabel(engine.labels, nr)
           key == Key(engine.selector, input.duration, engine.window, Packet)
           used == FiltersMatch(input.filters, Packet) /\ Packet.decodes
           e == [packet |-> Packet, nr |-> nr, label |-> label.label, ok |-> key.ok,
                 key |-> key.key, forward |-> key.forward, window |-> key.window.id]
<1>1. /\ PlaceInv /\ Undisturbed /\ At("check") /\ UNCHANGED <<input, pcaps, sources>>
      /\ reader.got = "packet" /\ Packet.bpf /\ reader' = [reader EXCEPT !.pc = "read"]
      /\ engine' = IF used THEN [engine EXCEPT !.packets = nr, !.labels = label.labels,
                                               !.window = key.window]
                   ELSE [engine EXCEPT !.packets = nr]
      /\ asked' = IF used THEN Append(asked, e) ELSE asked
  BY DEF ReadInv, PlaceInv, Accept, GoTo
<1>2. reader'.pc = "read"
  BY <1>1 DEF PlaceInv, InputTyped, ReaderType
<1>3. Passes(Offered, Mark, c, c) /\ PacketAt(c) = Packet
  BY <1>1, LooksAtNext
<1>4. Mark' = c
  BY <1>1, <1>2 DEF Mark, Through, Pcap, Current, At
<1>5. nr \in Nat /\ nr = Count + 1
  <2>1. engine.packets \in Nat /\ reader.skipped \in Nat /\ reader.filtered \in Nat
    BY <1>1, MarkParts DEF ReadInv, CountSoFar
  <2>2. Count = engine.packets + reader.skipped + reader.filtered
    BY <1>1, <2>1 DEF Count, At
  <2> QED
    BY <2>1, <2>2
<1>6. ~Packet.bad
  BY <1>1 DEF Undisturbed, Checked
<1>7. Used(PacketAt(c)) <=> used
  BY <1>1, <1>3, <1>6 DEF Used
<1>8. engine'.packets = nr
      /\ engine' = [packets |-> engine'.packets, selector |-> engine'.selector,
                    window |-> engine'.window, labels |-> engine'.labels]
  <2>1. engine = [packets |-> engine.packets, selector |-> engine.selector,
                  window |-> engine.window, labels |-> engine.labels]
    BY DEF ReadInv, CountSoFar
  <2> HIDE DEF used, nr, label, key
  <2> QED
    BY <1>1, <2>1
<1>9. Count' = Count + 1
  BY <1>2, <1>5, <1>8 DEF Count, At
<1>10. CASE used
  <2> DEFINE one == Len(input.sources) = 1
  <2>1. e.packet = PacketAt(c) /\ e.nr = nr
    BY <1>3
  <2>2. input \in Inputs /\ Mark \in Triples /\ AskedSoFar /\ CountSoFar
    BY <1>1, MarkParts DEF ReadInv
  <2>3. Passes(Wanted, Mark, c, c)
    BY <1>3, <1>7, <1>10, <2>2, WantedSteps
  <2>4. Rank(Offered, c) = Rank(Offered, Mark) + 1
    BY <1>3, <2>2, RankSteps, PlacesFinite
  <2>5. one => e.nr = Rank(Offered, c)
    BY <1>1, <1>5, <2>1, <2>2, <2>4 DEF CountSoFar, At
  <2>6. asked' = Append(asked, e) /\ UNCHANGED input
    BY <1>1, <1>10
  <2>7. Offered' = Offered
    BY <2>6, SamePlaces
  <2> HIDE DEF c, e, nr, Mark
  <2>8. AskedSoFar'
    BY <1>4, <2>1, <2>2, <2>3, <2>5, <2>6, AskedGrows
  <2>9. CountSoFar'
    <3>1. one /\ reader'.pc \in {"read", "data", "check"} => Count' = Rank(Offered', Mark')
      BY <1>1, <1>4, <1>9, <2>2, <2>4, <2>7 DEF CountSoFar, At
    <3> QED
      BY <1>5, <1>8, <2>6, <3>1 DEF CountSoFar
  <2> QED
    BY <2>8, <2>9
<1>11. CASE ~used
  <2>1. engine' = [engine EXCEPT !.packets = nr] /\ UNCHANGED asked
    BY <1>1, <1>11
  <2>2. Passes(Offered, Mark, Mark', c) /\ ~Used(PacketAt(c))
    BY <1>3, <1>4, <1>7, <1>11
  <2> HIDE DEF c, nr, used, Mark
  <2> QED
    BY <1>1, <1>5, <1>9, <2>1, <2>2, ReadPasses DEF At
<1> QED
  BY <1>10, <1>11

\* The end of a source passes nothing.
LEMMA SourceReads ==
    ASSUME ReadInv, ~sources.stopped, ReadStopped \/ SourceEnds \/ StopSource
    PROVE  AskedSoFar' /\ CountSoFar'
<1>1. PlaceInv /\ Undisturbed /\ UNCHANGED <<input, sources, engine, asked>> /\ ~At("check")
      /\ reader.pc \in {"eof", "switch"}
  BY DEF ReadInv, PlaceInv, Undisturbed, Opened, ReadStopped, SourceEnds, StopSource, At
<1>2. reader'.pc \in {"switch", "done", "advance"}
  BY <1>1 DEF PlaceInv, InputTyped, ReaderType, ReadStopped, SourceEnds, StopSource, GoTo, At
<1>3. Pcap'.which = Pcap.which /\ Pcap'.at = Pcap.at /\ Current' = Current
  <2>1. CASE UNCHANGED pcaps
    BY <1>1, <2>1 DEF Pcap, Current
  <2>2. CASE pcaps' = [pcaps EXCEPT ![Current] = Stopped(@)]
    <3>1. Pcap' = Stopped(Pcap) /\ Current' = Current /\ Pcap \in PcapType
      BY <1>1, <2>2, CurrentFiles DEF Pcap, Current, PlaceInv, InputTyped
    <3> QED
      BY <3>1 DEF Stopped, PcapType
  <2> QED
    BY <2>1, <2>2 DEF ReadStopped, SourceEnds, StopSource
<1>4. Mark' = Mark
  BY <1>1, <1>2, <1>3 DEF Mark, Through, At
<1>5. Skips(Offered, Mark, Mark')
  BY <1>4 DEF Skips
<1> HIDE DEF Mark
<1> QED
  BY <1>1, <1>2, <1>5, ReadStays
\* The next source begins behind all of the one that ended.
LEMMA NextSourceReads ==
    ASSUME ReadInv, ~sources.stopped, NextSource PROVE AskedSoFar' /\ CountSoFar'
<1> DEFINE c == <<Current, Pcap.which, Pcap.at>>
           n == <<Current + 1, 0, 0>>
<1>1. /\ PlaceInv /\ Undisturbed /\ At("advance") /\ UNCHANGED <<input, pcaps, engine, asked>>
      /\ sources'.first = sources.first + 1 /\ reader'.pc = "read"
  BY DEF ReadInv, PlaceInv, InputTyped, ReaderType, NextSource, GoTo
<1>2. Current \in 1 .. Len(input.sources) /\ Len(input.sources) \in Nat
      /\ Current < Len(input.sources)
  BY <1>1, CurrentFiles DEF PlaceInv, InputTyped
<1>3. /\ Pcap.which = Len(Files) /\ Pcap.which > 0
      /\ Pcap.at = Len(Files[Pcap.which]) \/ (Pcap.at > 0 /\ Packet.bad)
  BY <1>1, MarkParts DEF Undisturbed, Opened, Ended, At
<1>4. Skips(Offered, c, n)
  BY <1>3, <1>1, MarkAtEnds
<1>5. Mark = c
  BY <1>1 DEF Mark, Through, At
<1>6. Mark' = n
  <2>1. Current' = Current + 1 /\ Current + 1 \in 1 .. Len(input.sources)
    BY <1>1, <1>2 DEF Current
  <2>2. Pcap' = NewLibpcapSource
    BY <1>1, <1>2, <2>1 DEF Undisturbed, Fresh, Pcap
  <2> QED
    BY <1>1, <2>1, <2>2 DEF Mark, Through, At, NewLibpcapSource
<1>7. Skips(Offered, Mark, Mark') /\ input \in Inputs /\ AskedSoFar /\ CountSoFar
  BY <1>1, <1>4, <1>5, <1>6, MarkParts DEF ReadInv
<1> HIDE DEF c, n, Mark
<1>8. Skips(Wanted, Mark, Mark')
  BY <1>7, WantedSteps
<1>9. AskedSoFar'
  BY <1>1, <1>7, <1>8, AskedStays
<1>10. Len(input.sources) # 1
  <2> DEFINE l == Len(input.sources)
  <2>1. Current \in 1 .. l /\ l \in Nat /\ Current < l
    BY <1>2
  <2> HIDE DEF l
  <2>2. l # 1
    BY <2>1
  <2> QED
    BY <2>2 DEF l
<1>11. CountSoFar'
  BY <1>1, <1>7, <1>10 DEF CountSoFar
<1> QED
  BY <1>9, <1>11

\* At the start nothing is passed.
LEMMA InitReads == ASSUME Init PROVE AskedSoFar /\ CountSoFar
<1>1. PlaceInv /\ ~sources.stopped /\ input \in Inputs /\ asked = <<>>
      /\ reader.pc = "read" /\ Pcap = NewLibpcapSource /\ Current = 1
  <2>1. PlaceInv
    BY InitPlaces
  <2>2. Current \in 1 .. Len(input.sources) /\ DOMAIN input.sources = 1 .. Len(input.sources)
    BY <2>1, CurrentFiles, InputTypes DEF PlaceInv, Init
  <2> QED
    BY <2>1, <2>2 DEF Init, Pcap, Current
<1>2. Mark = <<1, 0, 0>>
  BY <1>1 DEF Mark, Through, At, NewLibpcapSource
<1>3. \A b \in Offered : ~UpTo(b, Mark)
  <2> SUFFICES ASSUME NEW b \in Offered PROVE ~UpTo(b, <<1, 0, 0>>)
    BY <1>2
  <2>1. b[1] \in Nat /\ b[2] \in Nat /\ b[3] \in Nat /\ b[1] >= 1 /\ b[2] >= 1 /\ b[3] >= 1
    BY <1>1, OfferedParts
  <2> QED
    BY <2>1 DEF UpTo
<1>4. Wanted \subseteq Offered
  BY <1>1, PlacesFinite
<1> HIDE DEF Mark
<1>5. Rank(Wanted, Mark) = 0 /\ Rank(Offered, Mark) = 0
  <2>1. {b \in Wanted : UpTo(b, Mark)} = {} /\ {b \in Offered : UpTo(b, Mark)} = {}
    BY <1>3, <1>4
  <2> QED
    BY <2>1, FS_EmptySet DEF Rank
<1>6. AskedSoFar
  <2>1. asked \in Seq({}) /\ Len(asked) = 0
    BY <1>1
  <2> QED
    BY <1>3, <1>4, <1>5, <2>1 DEF AskedSoFar
<1>7. CountSoFar
  <2>1. PICK selector : engine = [packets |-> 0, selector |-> selector, window |-> NoWindow,
                  labels |-> [l \in DOMAIN input.labels |-> NewCSVLabels(input.labels[l])]]
    BY DEF Init
  <2>2. /\ engine.packets = 0
        /\ engine = [packets |-> engine.packets, selector |-> engine.selector,
                     window |-> engine.window, labels |-> engine.labels]
    BY <2>1
  <2> QED
    BY <1>1, <1>5, <2>2 DEF CountSoFar, Count, At
<1> QED
  BY <1>6, <1>7

\* ReadInv is an invariant.
LEMMA ReadStep == ASSUME ReadInv, [Next]_vars PROVE ReadInv'
<1>1. PlaceInv'
  BY PlaceStep DEF ReadInv
<1>2. ASSUME ~sources'.stopped PROVE AskedSoFar' /\ CountSoFar'
  <2>1. ~sources.stopped /\ PlaceInv
    <3>1. sources \in [first : 1 .. Len(input.sources), stopped : BOOLEAN, after : Nat]
      BY DEF ReadInv, PlaceInv, InputTyped
    <3>2. CASE NextSource
      BY <1>2, <3>1, <3>2 DEF NextSource, ReadInv
    <3>3. CASE Stop
      BY <1>2, <3>1, <3>3 DEF Stop, ReadInv
    <3>4. CASE UNCHANGED sources
      BY <1>2, <3>4 DEF ReadInv
    <3> QED
      BY <3>2, <3>3, <3>4 DEF ReadInv, Next, vars, Read, ReadData, ReadStopped, NextFile, Filtered,
         Accept, SourceEnds, StopSource, StopPicks, StopStores
  <2>2. CASE UNCHANGED vars
    <3>1. Mark' = Mark /\ Count' = Count /\ UNCHANGED <<input, asked, engine, reader>>
      BY <2>2 DEF vars, Mark, Through, Pcap, Current, At, Count
    <3>2. Skips(Offered, Mark, Mark')
      BY <3>1 DEF Skips
    <3> HIDE DEF Mark
    <3> QED
      BY <2>1, <3>1, <3>2, ReadStays
  <2>3. CASE Stop \/ StopPicks \/ StopStores
    BY <1>2, <2>1, <2>3 DEF Stop, StopPicks, StopStores, PlaceInv, Undisturbed, InputTyped
  <2> QED
    BY <2>1, <2>2, <2>3, ReadReads, ReadDataReads, NextFileReads, FilteredReads, AcceptReads,
       SourceReads, NextSourceReads DEF Next
<1> QED
  BY <1>1, <1>2 DEF ReadInv

\* What the invariant says of the packets that were asked about.
LEMMA ReadInvReads == ASSUME ReadInv PROVE EveryPacketRead
<1> SUFFICES ASSUME ~sources.stopped PROVE EveryPacketRead
  BY DEF EveryPacketRead
<1>1. /\ PlaceInv /\ Undisturbed /\ AskedSoFar /\ input \in Inputs /\ Mark \in Triples
      /\ Wanted \in SUBSET Triples /\ IsFiniteSet(Wanted) /\ Wanted \subseteq Offered
  BY MarkParts, PlacesFinite DEF ReadInv, PlaceInv
<1>2. Len(asked) <= Cardinality(Wanted)
  <2> DEFINE M == {b \in Wanted : UpTo(b, Mark)}
  <2>1. M \in SUBSET Wanted /\ Len(asked) = Cardinality(M)
    BY <1>1 DEF AskedSoFar, Rank
  <2> HIDE DEF M
  <2> QED
    BY <1>1, <2>1, FS_Subset
<1>3. ASSUME At("done") PROVE Len(asked) = Cardinality(Wanted)
  <2>1. /\ Pcap.which = Len(Files) /\ Pcap.which > 0 /\ Current = Len(input.sources)
        /\ Pcap.at = Len(Files[Pcap.which]) \/ (Pcap.at > 0 /\ Packet.bad)
    BY <1>1, <1>3, MarkParts DEF Undisturbed, Opened, Ended, At
  <2>2. Skips(Offered, Mark, <<Current + 1, 0, 0>>)
    BY <1>1, <1>3, <2>1, MarkAtEnds DEF Mark, Through, At
  <2>3. ASSUME NEW b \in Offered PROVE UpTo(b, Mark)
    <3>1. b[1] \in 1 .. Len(input.sources) /\ Len(input.sources) \in Nat
      BY <1>1, OfferedParts, InputTypes
    <3>2. UpTo(b, <<Current + 1, 0, 0>>)
      BY <2>1, <3>1 DEF UpTo
    <3> QED
      BY <2>2, <3>2 DEF Skips
  <2>4. {b \in Wanted : UpTo(b, Mark)} = Wanted
    BY <1>1, <2>3
  <2> QED
    BY <1>1, <2>4 DEF AskedSoFar, Rank
<1>4. ASSUME NEW a \in Wanted, Rank(Wanted, a) <= Len(asked)
      PROVE  /\ asked[Rank(Wanted, a)].packet = PacketAt(a)
             /\ Len(input.sources) = 1 => asked[Rank(Wanted, a)].nr = Rank(Offered, a)
  <2>1. UpTo(a, Mark)
    <3>1. Rank(Wanted, a) \in Nat /\ Rank(Wanted, Mark) \in Nat
          /\ (~UpTo(a, Mark) => Rank(Wanted, Mark) < Rank(Wanted, a))
      BY <1>1, RankOrders
    <3>2. Len(asked) = Rank(Wanted, Mark)
      BY <1>1 DEF AskedSoFar
    <3> QED
      BY <1>4, <3>1, <3>2
  <2> QED
    BY <1>1, <2>1 DEF AskedSoFar
<1> QED
  BY <1>2, <1>3, <1>4 DEF EveryPacketRead

\* For all sources, files, packets and filters: until an interrupt every packet that is
\* offered and not filtered reaches the labels and the key, once and in order, and the rest
\* does not; with one source it has the number of its place (ReadPacket of Sources and of
\* libpcapSource, and Run).
THEOREM InputIsRead == Spec => []EveryPacketRead
<1>1. Init => ReadInv
  BY InitPlaces, InitReads DEF ReadInv
<1>2. ReadInv /\ [Next]_vars => ReadInv'
  BY ReadStep
<1>3. ReadInv => EveryPacketRead
  BY ReadInvReads
<1> QED
  BY <1>1, <1>2, <1>3, PTL DEF Spec
--------------------------------------------------------------------------------
(* Keys with a time window.                                                  *)

WindowId(id) == id \in DOMAIN KeyRegistry /\ KeyRegistry[id].field = "window"
                /\ KeyRegistry[id].type = "unidirectional" /\ KeyRegistry[id].pair = 0
HasWindow(selector) ==
    \E i \in DOMAIN KeyFuncs(selector) : KeyRegistry[KeyFuncs(selector)[i]].field = "window"
WindowKey == \E k \in DOMAIN input.key : input.key[k] = "__timeWindow"

\* Two sequences, one after the other.
LEMMA ConcatIs ==
    ASSUME NEW T, NEW s \in Seq(T), NEW t \in Seq(T)
    PROVE  /\ s \o t \in Seq(T) /\ Len(s) \in Nat /\ Len(t) \in Nat
           /\ Len(s \o t) = Len(s) + Len(t) /\ DOMAIN (s \o t) = 1 .. Len(s) + Len(t)
           /\ \A i \in 1 .. Len(t) : (s \o t)[Len(s) + i] = t[i]
OBVIOUS

\* q is s and then t.
Joined(q, s, t, T) ==
    /\ q \in Seq(T) /\ Len(s) \in Nat /\ Len(q) = Len(s) + Len(t)
    /\ 1 \in 1 .. Len(t) => q[Len(s) + 1] = t[1]

\* A sequence after another one.
LEMMA JoinedIs ==
    ASSUME NEW T, NEW s \in Seq(T), NEW t \in Seq(T)
    PROVE  Joined(s \o t, s, t, T)
BY ConcatIs DEF Joined

\* The registry is a sequence; the time window is registered last.
LEMMA WindowIsRegistered ==
    /\ DOMAIN KeyRegistry = 1 .. Len(KeyRegistry) /\ Len(KeyRegistry) \in Nat
    /\ \E id \in DOMAIN KeyRegistry : "__timeWindow" \in KeyRegistry[id].names /\ WindowId(id)
<1> DEFINE T == {NetworkKeys[1], NetworkKeys[2], NetworkKeys[3], TransportKeys[1],
                 TransportKeys[2], LinkKeys[1], LinkKeys[2], LinkKeys[3], LinkKeys[4],
                 TimeKeys[1]}
           A == NetworkKeys \o TransportKeys \o LinkKeys
           n == Len(A)
<1>1. /\ NetworkKeys \in Seq(T) /\ TransportKeys \in Seq(T) /\ LinkKeys \in Seq(T)
      /\ TimeKeys \in Seq(T) /\ Len(TimeKeys) = 1
  BY DEF NetworkKeys, TransportKeys, LinkKeys, TimeKeys
<1>2. TimeKeys[1] = [names |-> {"__timeWindow"}, type |-> "unidirectional", field |-> "window",
                     pair |-> 0]
  BY DEF TimeKeys, Unidirectional, EndKey
<1> HIDE DEF T
<1>3. A \in Seq(T) /\ KeyRegistry = A \o TimeKeys
  BY <1>1 DEF KeyRegistry
<1> HIDE DEF A
<1>4. /\ KeyRegistry \in Seq(T) /\ Len(KeyRegistry) = n + 1 /\ n \in Nat
      /\ KeyRegistry[n + 1] = TimeKeys[1]
  <2>1. A \in Seq(T) /\ TimeKeys \in Seq(T) /\ Len(A) \in Nat /\ Len(TimeKeys) = 1
    BY <1>1, <1>3
  <2>2. Joined(A \o TimeKeys, A, TimeKeys, T)
    BY <2>1, JoinedIs
  <2>3. 1 \in 1 .. Len(TimeKeys)
    BY <2>1
  <2> QED
    BY <1>3, <2>1, <2>2, <2>3 DEF Joined
<1>5. n + 1 \in DOMAIN KeyRegistry /\ DOMAIN KeyRegistry = 1 .. Len(KeyRegistry)
      /\ Len(KeyRegistry) \in Nat
  BY <1>4
<1> HIDE DEF n
<1>6. "__timeWindow" \in KeyRegistry[n + 1].names /\ WindowId(n + 1)
  BY <1>2, <1>4, <1>5 DEF WindowId
<1> QED
  BY <1>5, <1>6

\* The name of the time window means it.
LEMMA WindowIsFound == WindowId(KeyOf("__timeWindow"))
<1>1. PICK id \in DOMAIN KeyRegistry : "__timeWindow" \in KeyRegistry[id].names /\ WindowId(id)
  BY WindowIsRegistered
<1> DEFINE k == KeyOf("__timeWindow")
<1>2. k \in DOMAIN KeyRegistry /\ "__timeWindow" \in KeyRegistry[k].names
  BY <1>1 DEF KeyOf
<1> HIDE DEF k
<1>3. k = id
  BY <1>1, <1>2, RegistryAssumption
<1> QED
  BY <1>1, <1>3 DEF k

\* A selector that is made for a key with a time window has its function.
LEMMA WindowIsSelected ==
    ASSUME input \in Inputs, WindowKey,
           NEW selector \in Selectors(input.key, input.bidirectional, input.allowZero)
    PROVE  HasWindow(selector)
<1> DEFINE key == input.key
           done == IF input.bidirectional THEN Paired(key) ELSE {}
           S == IF input.bidirectional THEN PairedSources(key) ELSE {}
           ids == [i \in DOMAIN key |-> KeyOf(key[i])]
           uni == Only(ids, DOMAIN KeyRegistry \ done)
<1>1. key \in Seq(STRING) /\ MakeSucceeds(key)
  BY InputsAssumption
<1>2. PICK src \in Orders(S) :
        /\ selector.source = src /\ selector.uni = uni
        /\ DOMAIN selector.destination = DOMAIN src
        /\ selector.destination = [i \in DOMAIN src |-> selector.destination[i]]
  <2>1. PICK src \in Orders(S) :
            selector = [source |-> src,
                        destination |-> [i \in DOMAIN src |-> CHOOSE d \in Partner(src[i]) : TRUE],
                        uni |-> uni, noZero |-> ~input.allowZero,
                        bidirectional |-> input.bidirectional,
                        fivetuple |-> input.bidirectional /\ FiveTupleKeys \subseteq KeyIds(key)]
    BY DEF Selectors
  <2> DEFINE g == [i \in DOMAIN src |-> CHOOSE d \in Partner(src[i]) : TRUE]
  <2>2. selector.source = src /\ selector.uni = uni /\ selector.destination = g
    BY <2>1
  <2>3. DOMAIN g = DOMAIN src /\ g = [i \in DOMAIN src |-> g[i]]
    OBVIOUS
  <2> HIDE DEF g
  <2>4. DOMAIN selector.destination = DOMAIN src
        /\ selector.destination = [i \in DOMAIN src |-> selector.destination[i]]
    BY <2>2, <2>3
  <2> QED
    BY <2>2, <2>4
<1>3. \A i \in DOMAIN key : KeyOf(key[i]) \in DOMAIN KeyRegistry
  <2> TAKE i \in DOMAIN key
  <2>1. \E id \in DOMAIN KeyRegistry : key[i] \in KeyRegistry[id].names
    BY <1>1 DEF MakeSucceeds
  <2> QED
    BY <2>1 DEF KeyOf
<1>4. PICK k \in DOMAIN key : key[k] = "__timeWindow"
  BY DEF WindowKey
<1>5. WindowId(ids[k])
  BY <1>4, WindowIsFound
<1>6. ids[k] \notin done
  <2>1. ASSUME NEW id \in PairedSources(key) PROVE ids[k] \notin {id} \cup Partner(id)
    <3>1. KeyRegistry[id].type = "source"
      BY <2>1 DEF PairedSources
    <3>2. ids[k] # id
      BY <1>5, <3>1 DEF WindowId
    <3>3. ids[k] \notin Partner(id)
      BY <1>5 DEF WindowId, Partner
    <3> QED
      BY <3>2, <3>3
  <2>2. ids[k] \notin Paired(key)
    BY <2>1 DEF Paired
  <2> QED
    BY <2>2
<1>7. ids \in Seq(DOMAIN KeyRegistry) /\ k \in 1 .. Len(ids)
  <2>1. DOMAIN key = 1 .. Len(key) /\ Len(key) \in Nat
    BY <1>1
  <2> QED
    BY <1>3, <2>1
<1>8. uni \in Seq(DOMAIN KeyRegistry) /\ \E u \in 1 .. Len(uni) : uni[u] = ids[k]
  <2> DEFINE K == DOMAIN KeyRegistry \ done
  <2>1. ids[k] \in K
    BY <1>5, <1>6 DEF WindowId
  <2> HIDE DEF K, ids
  <2>2. Only(ids, K) \in Seq(DOMAIN KeyRegistry)
        /\ \E m : Picks(ids, K, Only(ids, K), Len(ids), m)
    BY <1>7, OnlyPicks
  <2>3. PICK m : Picks(ids, K, Only(ids, K), Len(ids), m)
    BY <2>2
  <2>4. PICK u \in 1 .. Len(Only(ids, K)) : m[u] = k
    BY <1>7, <2>1, <2>3 DEF Picks
  <2>5. Only(ids, K)[u] = ids[k]
    BY <2>3, <2>4 DEF Picks
  <2> QED
    BY <2>2, <2>4, <2>5 DEF K
<1>9. PICK u \in 1 .. Len(uni) : uni[u] = ids[k]
  BY <1>8
<1>10. IsFiniteSet(S)
  <2>1. PairedSources(key) \in SUBSET DOMAIN KeyRegistry
    BY <1>3 DEF PairedSources, KeyIds
  <2>2. IsFiniteSet(DOMAIN KeyRegistry)
    BY WindowIsRegistered, FS_Interval
  <2>3. IsFiniteSet(PairedSources(key)) /\ IsFiniteSet({})
    BY <2>1, <2>2, FS_Subset, FS_EmptySet
  <2> QED
    BY <2>3
<1>11. \E U : src \in Seq(U)
  <2>1. Cardinality(S) \in Nat
    BY <1>10, FS_CardinalityType
  <2>2. src \in [1 .. Cardinality(S) -> S]
    BY DEF Orders
  <2> HIDE DEF S
  <2>3. src \in Seq(S)
    BY <2>1, <2>2
  <2> QED
    BY <2>3
<1>12. PICK U : src \in Seq(U)
  BY <1>11
<1>13. selector.destination \in Seq({selector.destination[i] : i \in 1 .. Len(src)})
  <2> DEFINE d == selector.destination
  <2>1. DOMAIN src = 1 .. Len(src) /\ Len(src) \in Nat
    BY <1>12
  <2>2. d = [i \in 1 .. Len(src) |-> d[i]]
    BY <1>2, <2>1
  <2> HIDE DEF d
  <2>3. d \in [1 .. Len(src) -> {d[i] : i \in 1 .. Len(src)}]
    BY <2>2
  <2>4. d \in Seq({d[i] : i \in 1 .. Len(src)})
    BY <2>1, <2>3
  <2> QED
    BY <2>4 DEF d
<1> DEFINE V == U \cup {selector.destination[i] : i \in 1 .. Len(src)} \cup DOMAIN KeyRegistry
           n == Len(selector.source \o selector.destination)
<1>14. selector.source \in Seq(V) /\ selector.destination \in Seq(V) /\ selector.uni \in Seq(V)
  <2> DEFINE W == {selector.destination[i] : i \in 1 .. Len(src)}
  <2>1. ASSUME NEW X, NEW Y, NEW s \in Seq(X) PROVE s \in Seq(Y \cup X)
    <3>1. s \in [1 .. Len(s) -> Y \cup X] /\ Len(s) \in Nat
      BY <2>1
    <3> QED
      BY <3>1
  <2>2. selector.destination \in Seq(W) /\ src \in Seq(U) /\ uni \in Seq(DOMAIN KeyRegistry)
    BY <1>8, <1>12, <1>13
  <2> HIDE DEF W, uni
  <2>3. /\ selector.destination \in Seq((U \cup DOMAIN KeyRegistry) \cup W)
        /\ src \in Seq((W \cup DOMAIN KeyRegistry) \cup U)
        /\ uni \in Seq((U \cup W) \cup DOMAIN KeyRegistry)
    BY <2>1, <2>2
  <2>4. /\ V = (U \cup DOMAIN KeyRegistry) \cup W /\ V = (W \cup DOMAIN KeyRegistry) \cup U
        /\ V = (U \cup W) \cup DOMAIN KeyRegistry
    BY DEF W
  <2> QED
    BY <1>2, <2>3, <2>4
<1> HIDE DEF V, uni, ids
<1> DEFINE first == selector.source \o selector.destination
<1>15. first \in Seq(V)
  BY <1>14, ConcatIs
<1>16. n + u \in DOMAIN KeyFuncs(selector) /\ KeyFuncs(selector)[n + u] = ids[k]
  <2> HIDE DEF first
  <2>1. /\ Len(first) \in Nat /\ Len(selector.uni) \in Nat
        /\ DOMAIN (first \o selector.uni) = 1 .. Len(first) + Len(selector.uni)
        /\ \A i \in 1 .. Len(selector.uni) : (first \o selector.uni)[Len(first) + i] = selector.uni[i]
    BY <1>14, <1>15, ConcatIs
  <2>2. KeyFuncs(selector) = first \o selector.uni /\ n = Len(first)
    BY DEF KeyFuncs, first
  <2>3. u \in 1 .. Len(selector.uni) /\ selector.uni[u] = ids[k]
    BY <1>2, <1>9
  <2> HIDE DEF n
  <2> QED
    BY <2>1, <2>2, <2>3
<1> QED
  BY <1>5, <1>16 DEF HasWindow, WindowId

\* Whether something is missing does not depend on the window, whose function always
\* gives something.
LEMMA MissingAnyWindow ==
    ASSUME NEW selector, NEW p, NEW v, NEW w
    PROVE  Missing(selector, p, v) = Missing(selector, p, w)
<1>1. ASSUME NEW id PROVE Empty(KeyFunc(id, p, v)) <=> Empty(KeyFunc(id, p, w))
  <2>1. CASE KeyRegistry[id].field = "window"
    <3>1. KeyFunc(id, p, v) = Sorted(<<v>>) /\ KeyFunc(id, p, w) = Sorted(<<w>>)
      BY <2>1 DEF KeyFunc
    <3> QED
      BY <3>1 DEF Sorted, Empty
  <2>2. CASE KeyRegistry[id].field # "window"
    BY <2>2 DEF KeyFunc
  <2> QED
    BY <2>1, <2>2
<1> QED
  BY <1>1 DEF Missing

\* A packet with a key has gone through the window function, if there is one.
LEMMA WindowReachedWithKey ==
    ASSUME NEW selector, HasWindow(selector), NEW p, NEW duration, NEW window,
           Key(selector, duration, window, p).ok
    PROVE  WindowReached(selector, p)
<1> DEFINE next == WindowAfter(selector, duration, window, p)
<1>1. Missing(selector, p, next.id) = {}
  BY DEF Key
<1>2. Missing(selector, p, 0) = {}
  BY <1>1, MissingAnyWindow
<1> QED
  BY <1>2 DEF HasWindow, WindowReached

\* What comes back as the window.
LEMMA KeyWindow ==
    ASSUME NEW selector, NEW p, NEW duration, NEW window
    PROVE  Key(selector, duration, window, p).window = WindowAfter(selector, duration, window, p)
BY DEF Key

\* A step of the window function from w to n: never back, and on if time has not gone back.
MovesOn(w, n, duration, time) ==
    /\ n \in [start : Nat, id : Nat] /\ n.id >= w.id
    /\ w.start <= time =>
         /\ n.start # 0 /\ n.start <= time /\ time <= n.start + duration
         /\ n.id = w.id /\ w.start # 0 => n = w

\* The step of the window function is one.
LEMMA WindowMoves ==
    ASSUME NEW w \in [start : Nat, id : Nat], NEW duration \in Nat \ {0}, NEW time \in Nat \ {0}
    PROVE  MovesOn(w, NextWindow(w, duration, time), duration, time)
<1> DEFINE n == NextWindow(w, duration, time)
<1> SUFFICES MovesOn(w, n, duration, time)
  OBVIOUS
<1>1. CASE w.start = 0
  <2>1. n = [w EXCEPT !.start = time]
    BY <1>1 DEF NextWindow
  <2>2. n.start = time /\ n.id = w.id /\ n \in [start : Nat, id : Nat]
    BY <2>1
  <2> HIDE DEF n
  <2> QED
    BY <1>1, <2>2 DEF MovesOn
<1>2. CASE w.start # 0 /\ w.start <= time
  <2>1. w.start \in Nat \ {0} /\ w.id \in Nat /\ w = [start |-> w.start, id |-> w.id]
    BY <1>2
  <2>2. /\ n.start <= time /\ time <= n.start + duration
        /\ n.id >= w.id
        /\ n.id = w.id => n = w
    BY <1>2, <2>1, WindowHolds
  <2>3. n \in [start : Nat, id : Nat] /\ n.start # 0
    <3> DEFINE num == (time - w.start) \div duration
               far == w.start + num * duration
    <3>1. num \in Nat
      BY <1>2, <2>1
    <3>2. num * duration \in Nat
      BY <3>1
    <3> HIDE DEF num
    <3>3. far \in Nat /\ far # 0 /\ w.id + num \in Nat
      BY <2>1, <3>1, <3>2
    <3> HIDE DEF far
    <3>4. CASE w.start + duration < time
      <4>1. n = [start |-> far, id |-> w.id + num]
        BY <1>2, <3>4 DEF NextWindow, far, num
      <4> QED
        BY <3>3, <4>1
    <3>5. CASE ~(w.start + duration < time)
      <4>1. n = w
        BY <1>2, <3>5 DEF NextWindow
      <4> QED
        BY <1>2, <4>1
    <3> QED
      BY <3>4, <3>5
  <2> HIDE DEF n
  <2> QED
    BY <1>2, <2>2, <2>3 DEF MovesOn
<1>3. CASE w.start # 0 /\ ~(w.start <= time)
  <2>1. ~(w.start + duration < time)
    BY <1>3
  <2>2. n = w
    BY <1>3, <2>1 DEF NextWindow
  <2> HIDE DEF n
  <2> QED
    BY <1>3, <2>2 DEF MovesOn
<1> QED
  BY <1>1, <1>2, <1>3

\* A packet that the reader has is one of the input, with or without an interrupt.
WhichInFiles == \A s \in 1 .. Len(input.sources) : pcaps[s].which <= Len(input.sources[s])
PacketInv ==
    /\ PlaceInv /\ WhichInFiles
    /\ reader.pc \in {"data", "check"} => Pcap.which > 0
    /\ At("check") /\ reader.got = "packet" => Pcap.at \in 1 .. Len(Files[Pcap.which])

\* The packet has the fields of a packet.
LEMMA PacketIsTyped ==
    ASSUME PacketInv, At("check"), reader.got = "packet"
    PROVE  Packet \in PacketType
<1>1. Files \in Seq(Seq(PacketType)) /\ Pcap \in PcapType /\ Current \in 1 .. Len(input.sources)
      /\ Files = input.sources[Current]
  BY CurrentFiles DEF PacketInv, PlaceInv, Files
<1>2. Pcap.which > 0 /\ Pcap.at \in 1 .. Len(Files[Pcap.which]) /\ Pcap.which <= Len(Files)
  BY <1>1 DEF PacketInv, WhichInFiles, Pcap, At
<1>3. Pcap.which \in 1 .. Len(Files)
  BY <1>1, <1>2 DEF PcapType
<1>4. Files[Pcap.which] \in Seq(PacketType)
  BY <1>1, <1>3
<1> QED
  BY <1>2, <1>4 DEF Packet

\* At the start there is no packet.
LEMMA InitPacket == ASSUME Init PROVE PacketInv
<1>1. PlaceInv
  BY InitPlaces
<1>2. DOMAIN input.sources = 1 .. Len(input.sources)
      /\ \A s \in 1 .. Len(input.sources) : Len(input.sources[s]) >= 1 /\ Len(input.sources[s]) \in Nat
  BY <1>1, InputTypes DEF PlaceInv, InputTyped
<1>3. WhichInFiles
  BY <1>2 DEF Init, WhichInFiles, NewLibpcapSource
<1>4. reader.pc = "read"
  BY DEF Init
<1> QED
  BY <1>1, <1>3, <1>4 DEF PacketInv, At

\* Every step gives a packet of the input or none.
LEMMA PacketStep == ASSUME PacketInv, [Next]_vars PROVE PacketInv'
<1>1. PlaceInv' /\ InputTyped /\ PlaceInv
  BY PlaceStep DEF PacketInv, PlaceInv
<1>2. Current \in 1 .. Len(input.sources) /\ Pcap \in PcapType /\ Files = input.sources[Current]
      /\ pcaps \in [1 .. Len(input.sources) -> PcapType]
      /\ \A s \in 1 .. Len(input.sources) : Len(input.sources[s]) \in Nat
  <2>1. \A s \in 1 .. Len(input.sources) : Len(input.sources[s]) \in Nat
    BY <1>1, InputTypes DEF InputTyped
  <2> QED
    BY <1>1, <2>1, CurrentFiles DEF InputTyped, Files
<1>3. ASSUME OpenNext, UNCHANGED <<input, sources>>, Pcap.which # Len(Files)
      PROVE  WhichInFiles' /\ Pcap'.which > 0
  <2> DEFINE p == [Pcap EXCEPT !.which = @ + 1, !.at = 0, !.handle = "open"]
  <2>1. pcaps' = [pcaps EXCEPT ![Current] = p]
    BY <1>2, <1>3 DEF OpenNext, Pcap, PcapType
  <2>2. p.which = Pcap.which + 1 /\ Pcap.which \in Nat
    BY <1>2 DEF PcapType
  <2> HIDE DEF p
  <2>3. Pcap.which + 1 <= Len(Files)
    BY <1>2, <1>3, <2>2 DEF PacketInv, WhichInFiles, Pcap
  <2>4. Pcap' = p
    BY <1>2, <1>3, <2>1 DEF Pcap, Current
  <2>5. \A s \in 1 .. Len(input.sources) : pcaps'[s] = IF s = Current THEN p ELSE pcaps[s]
    BY <1>2, <2>1
  <2> QED
    BY <1>2, <1>3, <2>2, <2>3, <2>4, <2>5 DEF PacketInv, WhichInFiles
<1>4. CASE Read
  <2>1. At("read") /\ UNCHANGED <<input, sources>> /\ reader'.pc = "data"
        /\ IF Pcap.which = 0 THEN OpenNext ELSE UNCHANGED pcaps
    BY <1>1, <1>4 DEF Read, InputTyped, ReaderType
  <2>2. CASE Pcap.which = 0
    <3>1. Len(Files) >= 1
      BY <1>1, CurrentFiles
    <3> QED
      BY <1>1, <1>3, <2>1, <2>2, <3>1 DEF PacketInv, At
  <2>3. CASE Pcap.which # 0
    <3>1. Pcap' = Pcap /\ WhichInFiles'
      BY <2>1, <2>3 DEF Pcap, Current, PacketInv, WhichInFiles
    <3>2. Pcap.which > 0
      BY <1>2, <2>3 DEF PcapType
    <3> QED
      BY <1>1, <2>1, <3>1, <3>2 DEF PacketInv, At
  <2> QED
    BY <2>2, <2>3
<1>5. CASE ReadData
  <2> DEFINE file == Files[Pcap.which]
             more == Pcap.handle = "open" /\ Pcap.at < Len(file)
             p == [Pcap EXCEPT !.at = @ + 1]
  <2>1. /\ At("data") /\ UNCHANGED <<input, sources>> /\ Pcap.which > 0
        /\ reader'.got = IF ~more THEN "eof" ELSE IF file[Pcap.at + 1].bad THEN "error" ELSE "packet"
        /\ pcaps' = IF more THEN [pcaps EXCEPT ![Current].at = @ + 1] ELSE pcaps
    BY <1>1, <1>5 DEF ReadData, InputTyped, ReaderType, PacketInv, At
  <2>2. Files' = Files
    BY <2>1 DEF Files, Current
  <2>3. CASE more
    <3>1. pcaps' = [pcaps EXCEPT ![Current] = p]
      BY <1>2, <2>1, <2>3 DEF Pcap, PcapType
    <3>2. p.which = Pcap.which /\ p.at = Pcap.at + 1 /\ Pcap.at \in Nat
      BY <1>2 DEF PcapType
    <3> HIDE DEF p
    <3>3. Pcap' = p
      BY <1>2, <2>1, <3>1 DEF Pcap, Current
    <3>4. WhichInFiles'
      BY <1>2, <2>1, <3>1, <3>2 DEF PacketInv, WhichInFiles, Pcap
    <3>5. Len(file) \in Nat
      <4>1. Pcap.which \in 1 .. Len(Files)
        BY <1>2, <2>1 DEF PacketInv, WhichInFiles, PcapType, Pcap
      <4> QED
        BY <1>1, <4>1, CurrentFiles
    <3>6. Pcap.at + 1 \in 1 .. Len(file)
      BY <2>3, <3>2, <3>5
    <3> QED
      BY <1>1, <2>1, <2>2, <3>2, <3>3, <3>4, <3>6 DEF PacketInv
  <2>4. CASE ~more
    <3>1. Pcap' = Pcap /\ WhichInFiles' /\ reader'.got # "packet"
      BY <2>1, <2>4 DEF Pcap, Current, PacketInv, WhichInFiles
    <3> QED
      BY <1>1, <2>1, <3>1 DEF PacketInv
  <2> QED
    BY <2>3, <2>4
<1>6. CASE NextFile
  <2>1. At("check") /\ UNCHANGED <<input, sources>> /\ reader'.pc \in {"eof", "data"}
        /\ IF Pcap.which = Len(Files) THEN reader'.pc = "eof" /\ UNCHANGED pcaps
           ELSE OpenNext
    BY <1>1, <1>6 DEF NextFile, InputTyped, ReaderType, GoTo
  <2>2. CASE Pcap.which = Len(Files)
    <3>1. WhichInFiles' /\ reader'.pc = "eof"
      BY <2>1, <2>2 DEF PacketInv, WhichInFiles
    <3> QED
      BY <1>1, <3>1 DEF PacketInv, At
  <2>3. CASE Pcap.which # Len(Files)
    BY <1>1, <1>3, <2>1, <2>3 DEF PacketInv, At
  <2> QED
    BY <2>2, <2>3
<1>7. CASE Filtered \/ Accept
  <2>1. /\ UNCHANGED <<input, sources, pcaps>> /\ At("check")
        /\ reader'.pc \in {"read", "data"} /\ Pcap' = Pcap
    BY <1>1, <1>7 DEF Filtered, Accept, GoTo, InputTyped, ReaderType, Pcap, Current
  <2> QED
    BY <1>1, <2>1 DEF PacketInv, WhichInFiles, At
<1>8. CASE ReadStopped \/ SourceEnds \/ NextSource
  <2>1. UNCHANGED <<input, pcaps>> /\ reader'.pc \notin {"data", "check"}
    BY <1>1, <1>8 DEF ReadStopped, SourceEnds, NextSource, GoTo, InputTyped, ReaderType
  <2> QED
    BY <1>1, <2>1 DEF PacketInv, WhichInFiles, At
<1>9. CASE StopSource \/ Stop \/ StopPicks \/ StopStores
  <2>1. \A s \in 1 .. Len(input.sources) :
            pcaps'[s].which = pcaps[s].which /\ pcaps'[s].at = pcaps[s].at
    <3>1. PICK o, q : /\ pcaps' = [pcaps EXCEPT ![o] = q] \/ UNCHANGED pcaps
                      /\ o \in 1 .. Len(input.sources) =>
                            q.which = pcaps[o].which /\ q.at = pcaps[o].at
      <4>1. CASE StopSource
        <5>1. Stopped(Pcap).which = Pcap.which /\ Stopped(Pcap).at = Pcap.at
          BY <1>2 DEF Stopped, PcapType
        <5>2. pcaps' = [pcaps EXCEPT ![Current] = Stopped(Pcap)]
          BY <1>2, <4>1 DEF StopSource, Pcap
        <5> QED
          BY <5>1, <5>2 DEF Pcap
      <4>2. CASE Stop
        BY <4>2 DEF Stop
      <4>3. CASE StopPicks
        <5> DEFINE q == [Pcap EXCEPT !.handle = "closed"]
        <5>1. q.which = Pcap.which /\ q.at = Pcap.at
          BY <1>2 DEF PcapType
        <5>2. pcaps' = [pcaps EXCEPT ![Current] = q] \/ UNCHANGED pcaps
          BY <1>2, <4>3 DEF StopPicks, Pcap
        <5> HIDE DEF q
        <5> QED
          BY <5>1, <5>2 DEF Pcap
      <4>4. CASE StopStores
        <5> DEFINE o == stopper.source
                   q == [pcaps[o] EXCEPT !.stopped = TRUE]
        <5>1. o \in 1 .. Len(input.sources) => q.which = pcaps[o].which /\ q.at = pcaps[o].at
          <6> SUFFICES ASSUME o \in 1 .. Len(input.sources)
                       PROVE  q.which = pcaps[o].which /\ q.at = pcaps[o].at
            OBVIOUS
          <6>1. pcaps[o] \in PcapType
            BY <1>2
          <6> QED
            BY <6>1 DEF PcapType
        <5>2. pcaps' = [pcaps EXCEPT ![o] = q]
          BY <4>4 DEF StopStores
        <5> HIDE DEF o, q
        <5> QED
          BY <5>1, <5>2
      <4> QED
        BY <1>9, <4>1, <4>2, <4>3, <4>4
    <3>2. \A s \in 1 .. Len(input.sources) : s # o => pcaps'[s] = pcaps[s]
      BY <1>2, <3>1
    <3>3. o \in 1 .. Len(input.sources) => pcaps'[o] = q \/ pcaps'[o] = pcaps[o]
      BY <1>2, <3>1
    <3> QED
      BY <3>1, <3>2, <3>3
  <2>2. UNCHANGED input /\ sources'.first = sources.first
        /\ (UNCHANGED reader \/ reader'.pc \notin {"data", "check"})
    BY <1>1, <1>9 DEF StopSource, Stop, StopPicks, StopStores, GoTo, InputTyped, ReaderType
  <2>3. Pcap'.which = Pcap.which /\ Pcap'.at = Pcap.at /\ Files' = Files
    BY <1>2, <2>1, <2>2 DEF Pcap, Current, Files
  <2>4. WhichInFiles'
    BY <2>1, <2>2 DEF PacketInv, WhichInFiles
  <2> QED
    BY <1>1, <2>2, <2>3, <2>4 DEF PacketInv, At
<1>10. CASE UNCHANGED vars
  BY <1>1, <1>10 DEF vars, PacketInv, WhichInFiles, Pcap, Files, Current, At
<1> QED
  BY <1>4, <1>5, <1>6, <1>7, <1>8, <1>9, <1>10 DEF Next
\* Time does not go back among the first n packets of s.
TimesRise(s, n) == \A k \in 2 .. n : s[k - 1].packet.time <= s[k].packet.time
LastTime == IF Len(asked) = 0 THEN 0 ELSE asked[Len(asked)].packet.time

\* The parts of the invariant: what the engine has for the window; what is kept of a packet;
\* no number of a window is above the current one or below an earlier one; the packets of
\* any window, and those of the current one, lie where they should if time has not gone back.
WindowTyped ==
    /\ engine = [packets |-> engine.packets, selector |-> engine.selector,
                 window |-> engine.window, labels |-> engine.labels]
    /\ engine.window \in [start : Nat, id : Nat]
    /\ WindowKey => HasWindow(engine.selector)
TimesTyped ==
    /\ \E T : asked \in Seq(T)
    /\ \A i \in 1 .. Len(asked) : asked[i].packet.time \in Nat \ {0} /\ asked[i].window \in Nat
WindowsRise ==
    \A j \in 1 .. Len(asked) :
        /\ asked[j].window <= engine.window.id
        /\ \A i \in 1 .. j : asked[i].window <= asked[j].window
WindowsHold ==
    \A j \in 1 .. Len(asked) : \A i \in 1 .. j :
        asked[i].ok /\ asked[j].ok /\ asked[i].window = asked[j].window /\ TimesRise(asked, j) =>
            asked[j].packet.time - asked[i].packet.time <= input.duration
CurrentHolds ==
    TimesRise(asked, Len(asked)) =>
        /\ engine.window.start <= LastTime
        /\ \A i \in 1 .. Len(asked) : asked[i].ok /\ asked[i].window = engine.window.id =>
            /\ engine.window.start # 0 /\ engine.window.start <= asked[i].packet.time
            /\ asked[i].packet.time <= engine.window.start + input.duration
WindowInv ==
    /\ PacketInv
    /\ WindowTyped /\ TimesTyped /\ WindowsRise
    /\ WindowKey => WindowsHold /\ CurrentHolds

\* A packet is asked about whose window is w: the current one, moved on for a packet with
\* a key, and perhaps for one without.
LEMMA WindowsGrow ==
    ASSUME input.duration \in Nat \ {0},
           TimesTyped, WindowsRise, WindowKey => WindowsHold /\ CurrentHolds,
           engine.window \in [start : Nat, id : Nat],
           NEW w \in [start : Nat, id : Nat], NEW e,
           w.id >= engine.window.id, e.window = w.id, e.packet.time \in Nat \ {0},
           w # engine.window \/ (WindowKey /\ e.ok) =>
               (engine.window.start <= e.packet.time =>
                    /\ w.start # 0 /\ w.start <= e.packet.time
                    /\ e.packet.time <= w.start + input.duration
                    /\ w.id = engine.window.id /\ engine.window.start # 0 => w = engine.window),
           UNCHANGED input, asked' = Append(asked, e), engine'.window = w
    PROVE  TimesTyped' /\ WindowsRise' /\ (WindowKey' => WindowsHold' /\ CurrentHolds')
<1> DEFINE L == Len(asked)
           now == engine.window
<1>1. PICK T : asked \in Seq(T)
  BY DEF TimesTyped
<1>2. /\ asked' \in Seq(T \cup {e}) /\ Len(asked') = L + 1 /\ L \in Nat
      /\ asked'[L + 1] = e /\ \A i \in 1 .. L : asked'[i] = asked[i]
  BY <1>1, AppendIs
<1>3. \A i \in 1 .. L : /\ asked[i].packet.time \in Nat \ {0} /\ asked[i].window \in Nat
                        /\ asked[i].window <= now.id
  BY DEF TimesTyped, WindowsRise
<1>4. now.start \in Nat /\ now.id \in Nat /\ w.start \in Nat /\ w.id \in Nat
  OBVIOUS
<1> HIDE DEF L
<1>5. TimesTyped'
  BY <1>2, <1>3, <1>4 DEF TimesTyped
<1>6. WindowsRise'
  <2> SUFFICES ASSUME NEW j \in 1 .. L + 1
               PROVE  /\ asked'[j].window <= w.id
                      /\ \A i \in 1 .. j : asked'[i].window <= asked'[j].window
    BY <1>2 DEF WindowsRise
  <2>1. CASE j = L + 1
    <3>1. asked'[j] = e /\ \A i \in 1 .. j : i \in 1 .. L \/ i = j
      BY <1>2, <2>1
    <3>2. \A i \in 1 .. L : asked'[i].window = asked[i].window /\ asked[i].window <= w.id
      BY <1>2, <1>3, <1>4
    <3>3. asked'[j].window = w.id
      BY <3>1
    <3> DEFINE top == w.id
    <3>4. top \in Nat /\ top <= top
      BY <1>4
    <3> HIDE DEF top
    <3>5. asked'[j].window <= top
      BY <3>3, <3>4, Zenon DEF top
    <3>6. \A i \in 1 .. j : asked'[i].window <= top
      <4> TAKE i \in 1 .. j
      <4>1. CASE i \in 1 .. L
        BY <3>2, <4>1 DEF top
      <4>2. CASE i = j
        BY <3>5, <4>2
      <4> QED
        BY <3>1, <4>1, <4>2
    <3> QED
      BY <3>3, <3>5, <3>6, Zenon DEF top
  <2>2. CASE j # L + 1
    <3>1. j \in 1 .. L /\ \A i \in 1 .. j : i \in 1 .. L
      BY <1>2, <2>2
    <3>2. asked'[j].window <= w.id
      BY <1>2, <1>3, <1>4, <3>1
    <3>3. \A i \in 1 .. j : asked[i].window <= asked[j].window
      BY <3>1 DEF WindowsRise, L
    <3> QED
      BY <1>2, <3>1, <3>2, <3>3
  <2> QED
    BY <2>1, <2>2
<1>7. ASSUME WindowKey' PROVE WindowsHold' /\ CurrentHolds'
  <2>1. WindowKey /\ WindowsHold /\ CurrentHolds
    BY <1>7 DEF WindowKey
  <2>2. \A n \in 0 .. L : TimesRise(asked', n) => TimesRise(asked, n)
    <3> SUFFICES ASSUME NEW n \in 0 .. L, TimesRise(asked', n), NEW k \in 2 .. n
                 PROVE  asked[k - 1].packet.time <= asked[k].packet.time
      BY DEF TimesRise
    <3>1. k - 1 \in 1 .. L /\ k \in 1 .. L
      BY <1>2
    <3>2. asked'[k - 1] = asked[k - 1] /\ asked'[k] = asked[k]
      BY <1>2, <3>1
    <3>3. asked'[k - 1].packet.time <= asked'[k].packet.time
      BY DEF TimesRise
    <3> QED
      BY <3>2, <3>3
  <2>3. ASSUME TimesRise(asked', L + 1)
        PROVE  /\ TimesRise(asked, L) /\ now.start <= e.packet.time
               /\ \A i \in 1 .. L : asked[i].ok /\ asked[i].window = now.id =>
                    /\ now.start # 0 /\ now.start <= asked[i].packet.time
                    /\ asked[i].packet.time <= now.start + input.duration
    <3>1. TimesRise(asked, L)
      <4>1. L \in 0 .. L /\ 2 .. L \subseteq 2 .. L + 1
        BY <1>2
      <4>2. TimesRise(asked', L)
        BY <2>3, <4>1 DEF TimesRise
      <4> QED
        BY <2>2, <4>1, <4>2
    <3>2. /\ now.start <= LastTime
          /\ \A i \in 1 .. L : asked[i].ok /\ asked[i].window = now.id =>
               /\ now.start # 0 /\ now.start <= asked[i].packet.time
               /\ asked[i].packet.time <= now.start + input.duration
      BY <2>1, <3>1 DEF CurrentHolds, L
    <3>3. LastTime <= e.packet.time /\ LastTime \in Nat
      <4>1. CASE L = 0
        BY <4>1 DEF LastTime, L
      <4>2. CASE L # 0
        <5>1. L \in 1 .. L /\ L + 1 \in 2 .. L + 1 /\ (L + 1) - 1 = L
          BY <1>2, <4>2
        <5>2. asked'[(L + 1) - 1].packet.time <= asked'[L + 1].packet.time
          BY <2>3, <5>1 DEF TimesRise
        <5>3. LastTime = asked[L].packet.time
          BY <4>2 DEF LastTime, L
        <5> QED
          BY <1>2, <1>3, <5>1, <5>2, <5>3
      <4> QED
        BY <4>1, <4>2
    <3> QED
      BY <1>4, <3>1, <3>2, <3>3
  <2>4. ASSUME TimesRise(asked', L + 1), NEW i \in 1 .. L + 1, asked'[i].ok, asked'[i].window = w.id
        PROVE  /\ w.start # 0 /\ w.start <= asked'[i].packet.time
               /\ asked'[i].packet.time <= w.start + input.duration
    <3>1. CASE i = L + 1
      BY <1>2, <1>7, <2>1, <2>3, <2>4, <3>1
    <3>2. CASE i # L + 1
      <4>1. i \in 1 .. L /\ asked'[i] = asked[i]
        BY <1>2, <3>2
      <4>2. asked[i].window = now.id /\ w.id = now.id
        BY <1>3, <1>4, <2>4, <4>1
      <4>3. /\ now.start # 0 /\ now.start <= asked[i].packet.time
            /\ asked[i].packet.time <= now.start + input.duration
        BY <2>3, <2>4, <4>1, <4>2
      <4>4. w = now
        BY <2>3, <2>4, <4>2, <4>3
      <4> QED
        BY <4>1, <4>3, <4>4
    <3> QED
      BY <3>1, <3>2
  <2>5. WindowsHold'
    <3> SUFFICES ASSUME NEW j \in 1 .. L + 1, NEW i \in 1 .. j, asked'[i].ok, asked'[j].ok,
                        asked'[i].window = asked'[j].window, TimesRise(asked', j)
                 PROVE  asked'[j].packet.time - asked'[i].packet.time <= input.duration
      BY <1>2 DEF WindowsHold
    <3>1. CASE j = L + 1
      <4>1. i \in 1 .. L + 1 /\ TimesRise(asked', L + 1) /\ asked'[j].window = w.id
        BY <1>2, <3>1
      <4>2. /\ w.start <= asked'[i].packet.time
            /\ asked'[j].packet.time <= w.start + input.duration
        BY <2>4, <4>1, <3>1
      <4>3. asked'[i].packet.time \in Nat /\ asked'[j].packet.time \in Nat
        BY <1>2, <1>3, <3>1, <4>1
      <4> DEFINE from == asked'[i].packet.time
                 to == asked'[j].packet.time
                 begin == w.start
                 length == input.duration
      <4>4. /\ from \in Nat /\ to \in Nat /\ begin \in Nat /\ length \in Nat
            /\ begin <= from /\ to <= begin + length
        BY <1>4, <4>2, <4>3
      <4> HIDE DEF from, to, begin, length
      <4>5. to - from <= length
        BY <4>4
      <4> QED
        BY <4>5 DEF from, to, length
    <3>2. CASE j # L + 1
      <4>1. j \in 1 .. L /\ i \in 1 .. L /\ j \in 0 .. L
        BY <1>2, <3>2
      <4>2. asked'[i] = asked[i] /\ asked'[j] = asked[j] /\ TimesRise(asked, j)
        BY <1>2, <2>2, <4>1
      <4> QED
        BY <2>1, <4>1, <4>2 DEF WindowsHold, L
    <3> QED
      BY <3>1, <3>2
  <2>6. CurrentHolds'
    <3> SUFFICES ASSUME TimesRise(asked', L + 1)
                 PROVE  /\ w.start <= LastTime'
                        /\ \A i \in 1 .. L + 1 : asked'[i].ok /\ asked'[i].window = w.id =>
                            /\ w.start # 0 /\ w.start <= asked'[i].packet.time
                            /\ asked'[i].packet.time <= w.start + input.duration
      BY <1>2 DEF CurrentHolds
    <3>1. LastTime' = e.packet.time
      BY <1>2 DEF LastTime
    <3>2. w.start <= e.packet.time
      BY <2>3
    <3> QED
      BY <2>4, <3>1, <3>2
  <2> QED
    BY <2>5, <2>6
<1> QED
  BY <1>5, <1>6, <1>7
\* Accept is the step that asks, and it moves the window if the key has one.
LEMMA AcceptWindows ==
    ASSUME WindowInv, Accept
    PROVE  WindowTyped' /\ TimesTyped' /\ WindowsRise' /\ (WindowKey' => WindowsHold' /\ CurrentHolds')
<1> DEFINE nr == engine.packets + reader.skipped + reader.filtered + 1
           label == GetLabel(engine.labels, nr)
           key == Key(engine.selector, input.duration, engine.window, Packet)
           used == FiltersMatch(input.filters, Packet) /\ Packet.decodes
           e == [packet |-> Packet, nr |-> nr, label |-> label.label, ok |-> key.ok,
                 key |-> key.key, forward |-> key.forward, window |-> key.window.id]
           w == key.window
<1>1. /\ At("check") /\ UNCHANGED input /\ reader.got = "packet"
      /\ engine' = IF used THEN [engine EXCEPT !.packets = nr, !.labels = label.labels,
                                               !.window = w]
                   ELSE [engine EXCEPT !.packets = nr]
      /\ asked' = IF used THEN Append(asked, e) ELSE asked
  BY DEF Accept
<1>2. Packet \in PacketType
  BY <1>1, PacketIsTyped DEF WindowInv
<1>3. Packet.time \in Nat \ {0}
  BY <1>2 DEF PacketType
<1>4. input.duration \in Nat \ {0}
  BY InputsAssumption DEF WindowInv, PacketInv, PlaceInv, InputTyped
<1>5. WindowTyped /\ engine.window \in [start : Nat, id : Nat]
  BY DEF WindowInv, WindowTyped
<1>6. w = WindowAfter(engine.selector, input.duration, engine.window, Packet)
  BY KeyWindow
<1>7. WindowKey /\ key.ok => WindowReached(engine.selector, Packet)
  BY <1>5, WindowReachedWithKey DEF WindowTyped
<1>8. e.ok = key.ok /\ e.window = w.id /\ e.packet = Packet
  OBVIOUS
<1>9. CASE used
  <2>1. /\ engine'.window = w /\ engine'.selector = engine.selector
        /\ engine' = [packets |-> engine'.packets, selector |-> engine'.selector,
                      window |-> engine'.window, labels |-> engine'.labels]
    <3>1. engine = [packets |-> engine.packets, selector |-> engine.selector,
                    window |-> engine.window, labels |-> engine.labels]
      BY <1>5 DEF WindowTyped
    <3>2. engine' = [engine EXCEPT !.packets = nr, !.labels = label.labels, !.window = w]
      BY <1>1, <1>9
    <3> HIDE DEF nr, label, w
    <3> QED
      BY <3>1, <3>2
  <2>2. asked' = Append(asked, e)
    BY <1>1, <1>9
  <2> HIDE DEF key, e, w
  <2>3. /\ w \in [start : Nat, id : Nat] /\ w.id >= engine.window.id
        /\ w # engine.window \/ (WindowKey /\ e.ok) =>
               (engine.window.start <= Packet.time =>
                    /\ w.start # 0 /\ w.start <= Packet.time
                    /\ Packet.time <= w.start + input.duration
                    /\ w.id = engine.window.id /\ engine.window.start # 0 => w = engine.window)
    <3>1. CASE WindowReached(engine.selector, Packet)
      <4>1. w = NextWindow(engine.window, input.duration, Packet.time)
        BY <1>6, <3>1 DEF WindowAfter
      <4> DEFINE now == engine.window
                 time == Packet.time
                 duration == input.duration
      <4>2. /\ w = NextWindow(now, duration, time) /\ now \in [start : Nat, id : Nat]
            /\ time \in Nat \ {0} /\ duration \in Nat \ {0}
        BY <1>3, <1>4, <1>5, <4>1
      <4> HIDE DEF now, time, duration
      <4> HIDE DEF w
      <4>3. MovesOn(now, w, duration, time)
        BY <4>2, WindowMoves
      <4> QED
        BY <4>3 DEF MovesOn, now, time, duration
    <3>2. CASE ~WindowReached(engine.selector, Packet)
      <4>1. w = engine.window /\ ~(WindowKey /\ e.ok)
        BY <1>6, <1>7, <1>8, <3>2 DEF WindowAfter
      <4> QED
        BY <1>5, <4>1
    <3> QED
      BY <3>1, <3>2
  <2>4. TimesTyped' /\ WindowsRise' /\ (WindowKey' => WindowsHold' /\ CurrentHolds')
    BY <1>1, <1>3, <1>4, <1>5, <1>8, <2>1, <2>2, <2>3, WindowsGrow DEF WindowInv
  <2>5. WindowTyped'
    BY <1>1, <1>5, <2>1, <2>3 DEF WindowTyped, WindowKey
  <2> QED
    BY <2>4, <2>5
<1>10. CASE ~used
  <2>1. engine' = [engine EXCEPT !.packets = nr] /\ UNCHANGED <<input, asked>>
    BY <1>1, <1>10
  <2>2. /\ engine'.window = engine.window /\ engine'.selector = engine.selector
        /\ engine' = [packets |-> engine'.packets, selector |-> engine'.selector,
                      window |-> engine'.window, labels |-> engine'.labels]
    <3> HIDE DEF nr
    <3> QED
      BY <1>5, <2>1 DEF WindowTyped
  <2> HIDE DEF nr
  <2>3. WindowTyped'
    BY <1>5, <2>1, <2>2 DEF WindowTyped, WindowKey
  <2> QED
    BY <2>1, <2>2, <2>3
       DEF WindowInv, WindowKey, TimesTyped, WindowsRise, WindowsHold, CurrentHolds, LastTime, TimesRise
<1> QED
  BY <1>9, <1>10

\* At the start there is no window, and a selector for a key with one has its function.
LEMMA InitWindows == ASSUME Init PROVE WindowInv
<1>1. PacketInv
  BY InitPacket
<1>2. input \in Inputs /\ asked = <<>>
  BY DEF Init
<1>3. PICK selector \in Selectors(input.key, input.bidirectional, input.allowZero) :
        engine = [packets |-> 0, selector |-> selector, window |-> NoWindow,
                  labels |-> [l \in DOMAIN input.labels |-> NewCSVLabels(input.labels[l])]]
  BY DEF Init
<1> DEFINE labels == [l \in DOMAIN input.labels |-> NewCSVLabels(input.labels[l])]
<1>4. /\ engine.selector = selector /\ engine.window = NoWindow
      /\ engine = [packets |-> engine.packets, selector |-> engine.selector,
                   window |-> engine.window, labels |-> engine.labels]
  <2>1. engine = [packets |-> 0, selector |-> selector, window |-> NoWindow, labels |-> labels]
    BY <1>3
  <2> HIDE DEF labels
  <2> QED
    BY <2>1
<1>5. WindowTyped
  <2>1. NoWindow \in [start : Nat, id : Nat]
    BY DEF NoWindow
  <2>2. WindowKey => HasWindow(selector)
    BY <1>2, <1>3, WindowIsSelected
  <2> QED
    BY <1>4, <2>1, <2>2 DEF WindowTyped
<1>6. Len(asked) = 0 /\ asked \in Seq({})
  BY <1>2
<1>7. TimesTyped /\ WindowsRise /\ WindowsHold
  BY <1>6 DEF TimesTyped, WindowsRise, WindowsHold
<1>8. CurrentHolds
  BY <1>4, <1>6 DEF CurrentHolds, LastTime, NoWindow
<1> QED
  BY <1>1, <1>5, <1>7, <1>8 DEF WindowInv

\* Every step keeps the windows within their duration.
LEMMA WindowStep == ASSUME WindowInv, [Next]_vars PROVE WindowInv'
<1>1. PacketInv'
  BY PacketStep DEF WindowInv
<1>2. CASE Accept
  BY <1>1, <1>2, AcceptWindows DEF WindowInv
<1>3. CASE ~Accept
  <2>1. UNCHANGED <<input, engine, asked>>
    BY <1>3 DEF Next, vars, Read, ReadData, ReadStopped, NextFile, Filtered, SourceEnds,
                StopSource, NextSource, Stop, StopPicks, StopStores
  <2> QED
    BY <1>1, <2>1 DEF WindowInv, WindowTyped, WindowKey, TimesTyped, WindowsRise, WindowsHold,
                      CurrentHolds, LastTime, TimesRise
<1> QED
  BY <1>2, <1>3

\* The invariant says what the property says.
LEMMA WindowInvBounds == ASSUME WindowInv PROVE WindowsBounded
<1>1. DOMAIN asked = 1 .. Len(asked) /\ TimesTyped /\ WindowsRise
  BY DEF WindowInv, TimesTyped
<1> SUFFICES ASSUME NEW j \in 1 .. Len(asked), NEW i \in 1 .. j, asked[i].ok, asked[j].ok
             PROVE  /\ asked[i].window <= asked[j].window
                    /\ asked[i].window = asked[j].window
                        /\ (\A k \in 2 .. j : asked[k - 1].packet.time <= asked[k].packet.time)
                        /\ WindowKey =>
                            asked[j].packet.time - asked[i].packet.time <= input.duration
  BY <1>1 DEF WindowsBounded, WindowKey
<1>2. asked[i].window <= asked[j].window
  BY <1>1 DEF WindowsRise
<1>3. ASSUME asked[i].window = asked[j].window, WindowKey,
             \A k \in 2 .. j : asked[k - 1].packet.time <= asked[k].packet.time
      PROVE  asked[j].packet.time - asked[i].packet.time <= input.duration
  BY <1>3 DEF WindowInv, WindowsHold, TimesRise
<1> QED
  BY <1>2, <1>3

\* For all packets, keys and durations: the number of the time window never goes down, and
\* until time jumps back the packets of a window lie within its duration (timeWindowKey).
THEOREM WindowsStayBounded == Spec => []WindowsBounded
<1>1. Init => WindowInv
  BY InitWindows
<1>2. WindowInv /\ [Next]_vars => WindowInv'
  BY WindowStep
<1>3. WindowInv => WindowsBounded
  BY WindowInvBounds
<1> QED
  BY <1>1, <1>2, <1>3, PTL DEF Spec

--------------------------------------------------------------------------------
(* Sequences of sequences, one after the other.                              *)

\* Concatenation is associative, and the empty sequence adds nothing.
LEMMA ConcatLaws ==
    ASSUME NEW T, NEW a \in Seq(T), NEW b \in Seq(T), NEW c \in Seq(T)
    PROVE  (a \o b) \o c = a \o (b \o c) /\ a \o <<>> = a /\ <<>> \o a = a /\ a \o b \in Seq(T)
<1>1. a \o b \in Seq(T) /\ b \o c \in Seq(T)
  OBVIOUS
<1>2. (a \o b) \o c \in Seq(T) /\ a \o (b \o c) \in Seq(T)
  BY <1>1
<1>3. Len((a \o b) \o c) = Len(a \o (b \o c))
  BY <1>1
<1>4. \A i \in 1 .. Len((a \o b) \o c) : ((a \o b) \o c)[i] = (a \o (b \o c))[i]
  BY <1>1
<1> QED
  BY <1>1, <1>2, <1>3, <1>4

\* g holds the first k sequences of s, one after the other.
FlatRun(s, k, g) == g = [i \in 1 .. k |-> IF i = 1 THEN s[i] ELSE g[i - 1] \o s[i]]

\* The recursion of FlattenSeq is well defined.
LEMMA FlatExists ==
    ASSUME NEW s, NEW n \in Nat
    PROVE  \E g : FlatRun(s, n, g)
<1> DEFINE Good(g, k) == FlatRun(s, k, g)
           S == {k \in Nat : \E g : Good(g, k)}
<1> USE DEF FlatRun
<1>1. 0 \in S
  <2> DEFINE g == [i \in 1 .. 0 |-> s[i]]
  <2>1. Good(g, 0)
    OBVIOUS
  <2> QED
    BY <2>1
<1>2. \A k \in S : k + 1 \in S
  <2> TAKE k \in S
  <2>1. PICK g : Good(g, k)
    OBVIOUS
  <2> DEFINE x == IF k = 0 THEN s[1] ELSE g[k] \o s[k + 1]
             h == [m \in 1 .. k + 1 |-> IF m <= k THEN g[m] ELSE x]
  <2> HIDE DEF x
  <2>2. \A m \in 1 .. k : h[m] = g[m]
    OBVIOUS
  <2>3. \A m \in 1 .. k + 1 : h[m] = IF m = 1 THEN s[m] ELSE h[m - 1] \o s[m]
    <3> TAKE m \in 1 .. k + 1
    <3>1. CASE m <= k /\ m = 1
      BY <2>1, <2>2, <3>1
    <3>2. CASE m <= k /\ m # 1
      <4>1. m \in 1 .. k /\ m - 1 \in 1 .. k
        BY <3>2
      <4>2. h[m] = g[m] /\ h[m - 1] = g[m - 1]
        BY <2>2, <4>1
      <4>3. g[m] = g[m - 1] \o s[m]
        BY <2>1, <3>2, <4>1
      <4> QED
        BY <3>2, <4>2, <4>3
    <3>3. CASE m = k + 1 /\ k = 0
      <4>1. h[m] = x /\ m = 1
        BY <3>3
      <4> QED
        BY <3>3, <4>1 DEF x
    <3>4. CASE m = k + 1 /\ k # 0
      <4>1. h[m] = x /\ h[m - 1] = g[k] /\ m # 1
        BY <2>2, <3>4
      <4> QED
        BY <3>4, <4>1 DEF x
    <3> QED
      BY <3>1, <3>2, <3>3, <3>4
  <2>4. Good(h, k + 1)
    BY <2>3
  <2> HIDE DEF Good, h
  <2> QED
    BY <2>4
<1> HIDE DEF Good, FlatRun
<1>3. S = Nat
  BY <1>1, <1>2, SetInduction
<1> QED
  BY <1>3 DEF Good

\* g[i] is what FlattenSeq makes of the first i sequences of s, of which there are n.
Flats(T, s, n, g) ==
    /\ g \in [1 .. n -> Seq(T)]
    /\ n > 0 => g[1] = s[1]
    /\ \A i \in 1 .. n : i + 1 \in 1 .. n => g[i + 1] = g[i] \o s[i + 1]
    /\ FlattenSeq(s) = IF n = 0 THEN <<>> ELSE g[n]

LEMMA FlatParts ==
    ASSUME NEW T, NEW s \in Seq(Seq(T))
    PROVE  FlattenSeq(s) \in Seq(T) /\ \E g : Flats(T, s, Len(s), g)
<1>1. PICK n : n = Len(s)
  OBVIOUS
<1>2. n \in Nat /\ (n = 0 => s = <<>>) /\ \A i \in 1 .. n : s[i] \in Seq(T)
  BY <1>1
<1>3. PICK F : F = CHOOSE g : FlatRun(s, Len(s), g)
  OBVIOUS
<1>4. FlattenSeq(s) = IF n = 0 THEN <<>> ELSE F[n]
  BY <1>1, <1>2, <1>3 DEF FlattenSeq, FlatRun
<1>5. F = [i \in 1 .. n |-> IF i = 1 THEN s[i] ELSE F[i - 1] \o s[i]]
  <2>1. \E g : FlatRun(s, n, g)
    BY <1>2, FlatExists, Zenon
  <2>2. FlatRun(s, n, F)
    BY <1>1, <1>3, <2>1, Zenon
  <2> QED
    BY <2>2 DEF FlatRun
<1>6. DOMAIN F = 1 .. n /\ (n > 0 => F[1] = s[1])
      /\ \A i \in 1 .. n : i + 1 \in 1 .. n => F[i + 1] = F[i] \o s[i + 1]
  <2>1. DOMAIN F = 1 .. n
    BY <1>5
  <2>2. ASSUME n > 0 PROVE F[1] = s[1]
    BY <1>2, <1>5, <2>2
  <2>3. ASSUME NEW i \in 1 .. n, i + 1 \in 1 .. n PROVE F[i + 1] = F[i] \o s[i + 1]
    <3>1. i + 1 # 1 /\ (i + 1) - 1 = i
      BY <1>2, <2>3
    <3>2. F[i + 1] = IF i + 1 = 1 THEN s[i + 1] ELSE F[(i + 1) - 1] \o s[i + 1]
      BY <1>5, <2>3
    <3> QED
      BY <3>1, <3>2
  <2> QED
    BY <2>1, <2>2, <2>3
<1>7. PICK S : S = {k \in Nat : k \in 1 .. n => F[k] \in Seq(T)}
  OBVIOUS
<1>8. \A k \in S : k + 1 \in S
  <2> SUFFICES ASSUME NEW k \in S, k + 1 \in 1 .. n PROVE F[k + 1] \in Seq(T)
    BY <1>7
  <2>1. k \in Nat /\ s[k + 1] \in Seq(T)
    BY <1>2, <1>7
  <2>2. CASE k = 0
    <3>1. k + 1 = 1 /\ n > 0
      BY <1>2, <2>2
    <3> QED
      BY <1>6, <2>1, <3>1
  <2>3. CASE k # 0
    <3>1. k \in 1 .. n /\ F[k] \in Seq(T)
      BY <1>2, <1>7, <2>1, <2>3
    <3>2. F[k + 1] = F[k] \o s[k + 1]
      BY <1>6, <3>1
    <3> QED
      BY <2>1, <3>1, <3>2
  <2> QED
    BY <2>2, <2>3
<1>9. \A k \in 1 .. n : F[k] \in Seq(T)
  <2>1. S \in SUBSET Nat /\ 0 \in S
    BY <1>7
  <2>2. S = Nat
    BY <1>8, <2>1, SetInduction
  <2> QED
    BY <1>2, <1>7, <2>2
<1>10. F \in [1 .. n -> Seq(T)]
  BY <1>5, <1>6, <1>9
<1>11. Flats(T, s, n, F)
  BY <1>4, <1>6, <1>10 DEF Flats
<1>12. FlattenSeq(s) \in Seq(T)
  <2>1. n > 0 => n \in 1 .. n
    BY <1>2
  <2> QED
    BY <1>2, <1>4, <1>9, <2>1
<1> QED
  BY <1>1, <1>11, <1>12

\* The first one, and then the others.
LEMMA FlatHead ==
    ASSUME NEW T, NEW s \in Seq(Seq(T)), s # <<>>
    PROVE  Tail(s) \in Seq(Seq(T)) /\ s[1] \in Seq(T)
           /\ FlattenSeq(Tail(s)) \in Seq(T)
           /\ FlattenSeq(s) = s[1] \o FlattenSeq(Tail(s))
<1>1. PICK t : t = Tail(s)
  OBVIOUS
<1>2. PICK n : n = Len(t)
  OBVIOUS
<1>3. /\ t \in Seq(Seq(T)) /\ n \in Nat /\ Len(s) = n + 1 /\ s[1] \in Seq(T)
      /\ \A i \in 1 .. n : t[i] = s[i + 1] /\ t[i] \in Seq(T)
  BY <1>1, <1>2
<1>4. PICK g : Flats(T, s, n + 1, g)
  BY <1>3, FlatParts
<1>5. PICK h : Flats(T, t, n, h)
  BY <1>2, <1>3, FlatParts
<1>6. /\ g[1] = s[1] /\ FlattenSeq(s) = g[n + 1]
      /\ \A i \in 1 .. n : g[i + 1] = g[i] \o s[i + 1]
  <2>1. n + 1 > 0 /\ n + 1 # 0
    BY <1>3
  <2>2. \A i \in 1 .. n : i \in 1 .. n + 1 /\ i + 1 \in 1 .. n + 1
    BY <1>3
  <2> QED
    BY <1>4, <2>1, <2>2 DEF Flats
<1>7. /\ h \in [1 .. n -> Seq(T)] /\ FlattenSeq(t) = IF n = 0 THEN <<>> ELSE h[n]
      /\ n > 0 => h[1] = t[1]
      /\ \A i \in 1 .. n : i + 1 \in 1 .. n => h[i + 1] = h[i] \o t[i + 1]
  BY <1>5 DEF Flats
<1>8. ASSUME NEW k \in Nat, k \in 1 .. n => g[k + 1] = s[1] \o h[k], k + 1 \in 1 .. n
      PROVE  g[(k + 1) + 1] = s[1] \o h[k + 1]
  <2>1. g[(k + 1) + 1] = g[k + 1] \o t[k + 1] /\ t[k + 1] \in Seq(T)
    BY <1>3, <1>6, <1>8
  <2>2. CASE k = 0
    <3>1. k + 1 = 1 /\ n > 0
      BY <1>3, <1>8, <2>2
    <3>2. g[k + 1] = s[1] /\ h[k + 1] = t[k + 1]
      BY <1>6, <1>7, <3>1
    <3> QED
      BY <2>1, <3>2
  <2>3. CASE k # 0
    <3>0. k \in 1 .. n
      BY <1>3, <1>8, <2>3
    <3>1. k \in 1 .. n /\ g[k + 1] = s[1] \o h[k]
      BY <1>8, <3>0
    <3>2. h[k] \in Seq(T) /\ h[k + 1] = h[k] \o t[k + 1]
      BY <1>7, <1>8, <3>1
    <3>3. (s[1] \o h[k]) \o t[k + 1] = s[1] \o (h[k] \o t[k + 1])
      <4>1. \A a, b, c \in Seq(T) : (a \o b) \o c = a \o (b \o c)
        BY ConcatLaws
      <4> QED
        BY <1>3, <2>1, <3>2, <4>1
    <3> QED
      BY <2>1, <3>1, <3>2, <3>3
  <2> QED
    BY <2>2, <2>3
<1>9. PICK c : c = [k \in 1 .. n |-> s[1] \o h[k]]
  OBVIOUS
<1>10. \A k \in 1 .. n : g[k + 1] = c[k]
  <2>1. PICK S : S = {k \in Nat : k \in 1 .. n => g[k + 1] = c[k]}
    OBVIOUS
  <2>2. ASSUME NEW k \in S PROVE k + 1 \in S
    <3>1. k \in Nat /\ (k \in 1 .. n => g[k + 1] = c[k])
      BY <2>1
    <3>2. CASE k + 1 \in 1 .. n
      <4>1. k \in 1 .. n => g[k + 1] = s[1] \o h[k]
        BY <1>9, <3>1
      <4>2. g[(k + 1) + 1] = s[1] \o h[k + 1]
        BY <1>8, <3>1, <3>2, <4>1
      <4>3. g[(k + 1) + 1] = c[k + 1]
        BY <1>9, <3>2, <4>2
      <4> QED
        BY <2>1, <3>1, <4>3
    <3>3. CASE k + 1 \notin 1 .. n
      BY <2>1, <3>1, <3>3
    <3> QED
      BY <3>2, <3>3
  <2>3. S \in SUBSET Nat /\ 0 \in S
    BY <2>1
  <2>4. S = Nat
    BY <2>2, <2>3, SetInduction
  <2> TAKE k \in 1 .. n
  <2>5. k \in Nat /\ k \in S
    BY <1>3, <2>4
  <2> QED
    BY <2>1, <2>5
<1>11. FlattenSeq(s) = s[1] \o FlattenSeq(t)
  <2>1. CASE n = 0
    <3>1. s[1] \o <<>> = s[1]
      BY <1>3, ConcatLaws
    <3>2. g[n + 1] = s[1]
      BY <1>6, <2>1
    <3> QED
      BY <1>6, <1>7, <2>1, <3>1, <3>2
  <2>2. CASE n # 0
    <3>1. n \in 1 .. n
      BY <1>3, <2>2
    <3> QED
      BY <1>6, <1>7, <1>9, <1>10, <2>2, <3>1
  <2> QED
    BY <2>1, <2>2
<1>12. FlattenSeq(t) \in Seq(T)
  BY <1>3, FlatParts
<1> QED
  BY <1>1, <1>3, <1>11, <1>12

\* The head of a sequence, and the rest of it behind some element.
LEMMA SeqFacts ==
    ASSUME NEW T, NEW s \in Seq(T)
    PROVE  /\ Len(s) \in Nat /\ (s = <<>> <=> Len(s) = 0)
           /\ \A i \in 1 .. Len(s) : s[i] \in T
           /\ s # <<>> => /\ Tail(s) \in Seq(T) /\ Len(Tail(s)) = Len(s) - 1
                          /\ SubSeq(s, 2, Len(s)) = Tail(s) /\ Head(s) = s[1]
                          /\ \A i \in 1 .. Len(s) - 1 : Tail(s)[i] = s[i + 1]
OBVIOUS

LEMMA RestFacts ==
    ASSUME NEW T, NEW s \in Seq(T), NEW k \in Nat, k + 1 <= Len(s)
    PROVE  /\ SubSeq(s, k + 2, Len(s)) \in Seq(T)
           /\ Len(SubSeq(s, k + 2, Len(s))) = Len(s) - (k + 1)
           /\ \A i \in 1 .. Len(s) - (k + 1) : SubSeq(s, k + 2, Len(s))[i] = s[i + (k + 1)]
           /\ k + 2 <= Len(s) =>
                  SubSeq(Tail(s), k + 2, Len(s) - 1) = SubSeq(s, (k + 1) + 2, Len(s))
<1>1. PICK n : n = Len(s)
  OBVIOUS
<1>2. n \in Nat /\ k + 1 <= n /\ \A i \in 1 .. n : s[i] \in T
  BY <1>1
<1>3. PICK u : u = SubSeq(s, k + 2, n)
  OBVIOUS
<1>4. u \in Seq(T) /\ Len(u) = n - (k + 1)
  BY <1>1, <1>2, <1>3
<1>5. \A i \in 1 .. n - (k + 1) : u[i] = s[i + (k + 1)]
  <2> TAKE i \in 1 .. n - (k + 1)
  <2>1. u[i] = s[(k + 2) + i - 1]
    BY <1>1, <1>2, <1>3
  <2> QED
    BY <1>2, <2>1
<1>6. ASSUME k + 2 <= n
      PROVE  SubSeq(Tail(s), k + 2, n - 1) = SubSeq(s, (k + 1) + 2, n)
  <2>1. PICK t : t = Tail(s)
    OBVIOUS
  <2>2. t \in Seq(T) /\ Len(t) = n - 1 /\ \A i \in 1 .. n - 1 : t[i] = s[i + 1]
    BY <1>1, <1>6, <2>1
  <2>3. PICK v : v = SubSeq(t, k + 2, n - 1)
    OBVIOUS
  <2>4. PICK w : w = SubSeq(s, (k + 1) + 2, n)
    OBVIOUS
  <2>5. v \in Seq(T) /\ w \in Seq(T) /\ Len(v) = n - (k + 2) /\ Len(w) = n - (k + 2)
    BY <1>1, <1>2, <1>6, <2>2, <2>3, <2>4
  <2>6. \A i \in 1 .. n - (k + 2) : v[i] = w[i]
    <3> TAKE i \in 1 .. n - (k + 2)
    <3>1. v[i] = t[(k + 2) + i - 1]
      BY <1>1, <1>2, <1>6, <2>2, <2>3
    <3>2. w[i] = s[((k + 1) + 2) + i - 1]
      BY <1>1, <1>2, <1>6, <2>4
    <3>3. t[(k + 2) + i - 1] = s[((k + 2) + i - 1) + 1]
      BY <1>2, <1>6, <2>2
    <3>4. ((k + 2) + i - 1) + 1 = ((k + 1) + 2) + i - 1
      BY <1>2
    <3> QED
      BY <3>1, <3>2, <3>3, <3>4
  <2>7. v = w
    BY <2>5, <2>6
  <2> QED
    BY <2>1, <2>3, <2>4, <2>7
<1> QED
  BY <1>1, <1>3, <1>4, <1>5, <1>6

\* Only empty sequences make an empty one.
LEMMA FlatEmpty ==
    ASSUME NEW T, NEW s \in Seq(Seq(T)), \A i \in 1 .. Len(s) : s[i] = <<>>
    PROVE  FlattenSeq(s) = <<>>
<1>1. PICK n : n = Len(s)
  OBVIOUS
<1>2. n \in Nat /\ (n = 0 => s = <<>>)
  BY <1>1, SeqFacts
<1>3. CASE n = 0
  BY <1>1, <1>2, <1>3 DEF FlattenSeq
<1>4. CASE n # 0
  <2>1. PICK g : Flats(T, s, n, g)
    BY <1>1, FlatParts
  <2>2. /\ g[1] = s[1] /\ FlattenSeq(s) = g[n]
        /\ \A i \in 1 .. n : i + 1 \in 1 .. n => g[i + 1] = g[i] \o s[i + 1]
    BY <1>2, <1>4, <2>1 DEF Flats
  <2>3. PICK S : S = {k \in Nat : k + 1 \in 1 .. n => g[k + 1] = <<>>}
    OBVIOUS
  <2>4. 0 \in S
    BY <1>1, <2>2, <2>3
  <2>5. ASSUME NEW k \in S PROVE k + 1 \in S
    <3>1. k \in Nat /\ (k + 1 \in 1 .. n => g[k + 1] = <<>>)
      BY <2>3
    <3>2. CASE (k + 1) + 1 \in 1 .. n
      <4>1. k + 1 \in 1 .. n
        BY <1>2, <3>1, <3>2
      <4>2. g[(k + 1) + 1] = g[k + 1] \o s[(k + 1) + 1]
        BY <2>2, <3>2, <4>1
      <4>3. g[k + 1] = <<>> /\ s[(k + 1) + 1] = <<>>
        BY <1>1, <3>1, <3>2, <4>1
      <4>4. g[(k + 1) + 1] = <<>>
        BY <4>2, <4>3
      <4> QED
        BY <2>3, <3>1, <4>4
    <3>3. CASE (k + 1) + 1 \notin 1 .. n
      BY <2>3, <3>1, <3>3
    <3> QED
      BY <3>2, <3>3
  <2>6. S = Nat
    <3>1. S \in SUBSET Nat
      BY <2>3
    <3> QED
      BY <2>4, <2>5, <3>1, SetInduction
  <2>7. n - 1 \in S /\ (n - 1) + 1 = n /\ n \in 1 .. n
    BY <1>2, <1>4, <2>6
  <2>8. g[(n - 1) + 1] = <<>>
    BY <2>3, <2>7
  <2> QED
    BY <2>2, <2>7, <2>8
<1> QED
  BY <1>3, <1>4

\* What is in front of sequence k + 1 of s is empty.
SkipsTo(s, k) == k + 1 \in 1 .. Len(s) /\ \A i \in 1 .. k : s[i] = <<>>
Skipped(s, k) == FlattenSeq(s) = s[k + 1] \o FlattenSeq(SubSeq(s, k + 2, Len(s)))

\* Empty sequences at the beginning can be left out.
LEMMA FlatSkips ==
    ASSUME NEW T
    PROVE  \A k \in Nat : \A s \in Seq(Seq(T)) : SkipsTo(s, k) => Skipped(s, k)
<1>1. PICK S : S = {k \in Nat : \A s \in Seq(Seq(T)) : SkipsTo(s, k) => Skipped(s, k)}
  OBVIOUS
<1>2. ASSUME NEW s \in Seq(Seq(T)), SkipsTo(s, 0) PROVE Skipped(s, 0)
  <2>0. 0 + 1 \in 1 .. Len(s)
    BY <1>2 DEF SkipsTo
  <2>1. s # <<>> /\ SubSeq(s, 2, Len(s)) = Tail(s)
    BY <2>0, SeqFacts
  <2>2. FlattenSeq(s) = s[1] \o FlattenSeq(Tail(s))
    BY <2>1, FlatHead
  <2>3. 0 + 1 = 1 /\ 0 + 2 = 2
    OBVIOUS
  <2>4. FlattenSeq(s) = s[0 + 1] \o FlattenSeq(SubSeq(s, 0 + 2, Len(s)))
    BY <2>1, <2>2, <2>3, Zenon
  <2> QED
    BY <2>4 DEF Skipped
<1>3. ASSUME NEW k \in Nat, \A s \in Seq(Seq(T)) : SkipsTo(s, k) => Skipped(s, k),
             NEW s \in Seq(Seq(T)), SkipsTo(s, k + 1)
      PROVE  Skipped(s, k + 1)
  <2>1. PICK t : t = Tail(s)
    OBVIOUS
  <2>2. PICK n : n = Len(s)
    OBVIOUS
  <2>3. n \in Nat /\ k + 2 \in 1 .. n /\ s[1] = <<>> /\ s # <<>>
        /\ \A i \in 1 .. k + 1 : s[i] = <<>>
    <3>1. (k + 1) + 1 \in 1 .. n /\ \A i \in 1 .. k + 1 : s[i] = <<>>
      BY <1>3, <2>2 DEF SkipsTo
    <3>2. n \in Nat /\ (s = <<>> <=> n = 0)
      BY <2>2, SeqFacts
    <3>3. 1 \in 1 .. k + 1
      OBVIOUS
    <3> QED
      BY <3>1, <3>2, <3>3
  <2>4. t \in Seq(Seq(T)) /\ Len(t) = n - 1 /\ \A i \in 1 .. n - 1 : t[i] = s[i + 1]
    BY <2>1, <2>2, <2>3, SeqFacts
  <2>5. SkipsTo(t, k)
    <3>1. k + 1 \in 1 .. n - 1
      BY <1>3, <2>3
    <3>2. \A i \in 1 .. k : i + 1 \in 1 .. k + 1 /\ i \in 1 .. n - 1
      BY <1>3, <2>3
    <3>3. \A i \in 1 .. k : t[i] = <<>>
      BY <2>3, <2>4, <3>2
    <3> QED
      BY <2>4, <3>1, <3>3 DEF SkipsTo
  <2>6. FlattenSeq(t) = t[k + 1] \o FlattenSeq(SubSeq(t, k + 2, n - 1))
    BY <1>3, <2>4, <2>5 DEF Skipped
  <2>7. FlattenSeq(s) = FlattenSeq(t)
    <3>1. FlattenSeq(s) = s[1] \o FlattenSeq(t) /\ FlattenSeq(t) \in Seq(T)
      BY <2>1, <2>3, FlatHead
    <3>2. <<>> \o FlattenSeq(t) = FlattenSeq(t)
      BY <3>1, ConcatLaws
    <3> QED
      BY <2>3, <3>1, <3>2
  <2>8. t[k + 1] = s[(k + 1) + 1]
    BY <2>3, <2>4
  <2>9. SubSeq(t, k + 2, n - 1) = SubSeq(s, (k + 1) + 2, n)
    BY <2>1, <2>2, <2>3, RestFacts
  <2> QED
    BY <2>2, <2>6, <2>7, <2>8, <2>9 DEF Skipped
<1>4. S = Nat
  <2>1. S \in SUBSET Nat /\ 0 \in S
    BY <1>1, <1>2
  <2>2. \A k \in S : k + 1 \in S
    <3> TAKE k \in S
    <3>1. k \in Nat /\ \A s \in Seq(Seq(T)) : SkipsTo(s, k) => Skipped(s, k)
      BY <1>1
    <3>2. \A s \in Seq(Seq(T)) : SkipsTo(s, k + 1) => Skipped(s, k + 1)
      BY <1>3, <3>1
    <3>3. k + 1 \in Nat
      BY <3>1
    <3> QED
      BY <1>1, <3>2, <3>3
  <2> QED
    BY <2>1, <2>2, SetInduction
<1> QED
  BY <1>1, <1>4

--------------------------------------------------------------------------------
(* Labels.                                                                   *)

LabelState == [files : Seq(Seq(RowType)), rows : Seq(RowType), nextPos : Nat,
               nextData : Nat \cup {None}]

\* A label source, and its rows that were not read.
GoodSource(l) == l \in LabelState /\ \A f \in 1 .. Len(l.files) : l.files[f] # <<>>
RestOf(l) == l.rows \o FlattenSeq(l.files)

\* The first one of two sequences gives the head.
LEMMA ConcatTail ==
    ASSUME NEW T, NEW a \in Seq(T), NEW b \in Seq(T), a # <<>>
    PROVE  a \o b \in Seq(T) /\ a \o b # <<>> /\ (a \o b)[1] = a[1] /\ Tail(a \o b) = Tail(a) \o b
<1>1. PICK c : c = a \o b
  OBVIOUS
<1>2. PICK m, n : m = Len(a) /\ n = Len(b)
  OBVIOUS
<1>3. m \in Nat /\ n \in Nat /\ m # 0 /\ c \in Seq(T) /\ Len(c) = m + n
  BY <1>1, <1>2, SeqFacts
<1>4. \A i \in 1 .. m + n : c[i] = IF i <= m THEN a[i] ELSE b[i - m]
  BY <1>1, <1>2, <1>3
<1>5. c # <<>> /\ c[1] = a[1]
  BY <1>3, <1>4, SeqFacts
<1>6. Tail(a) \in Seq(T) /\ Len(Tail(a)) = m - 1 /\ \A i \in 1 .. m - 1 : Tail(a)[i] = a[i + 1]
  BY <1>2, SeqFacts
<1>7. Tail(c) \in Seq(T) /\ Len(Tail(c)) = m + n - 1
      /\ \A i \in 1 .. m + n - 1 : Tail(c)[i] = c[i + 1]
  BY <1>3, <1>5, SeqFacts
<1>8. PICK d : d = Tail(a) \o b
  OBVIOUS
<1>9. d \in Seq(T) /\ Len(d) = m + n - 1
      /\ \A i \in 1 .. m + n - 1 : d[i] = IF i <= m - 1 THEN Tail(a)[i] ELSE b[i - (m - 1)]
  BY <1>2, <1>3, <1>6, <1>8
<1>10. \A i \in 1 .. m + n - 1 : Tail(c)[i] = d[i]
  <2> TAKE i \in 1 .. m + n - 1
  <2>1. i + 1 \in 1 .. m + n /\ Tail(c)[i] = c[i + 1]
    BY <1>3, <1>7
  <2>2. CASE i <= m - 1
    BY <1>3, <1>4, <1>6, <1>9, <2>1, <2>2
  <2>3. CASE ~(i <= m - 1)
    <3>1. (i + 1) - m = i - (m - 1) /\ ~(i + 1 <= m)
      BY <1>3, <2>3
    <3>2. c[i + 1] = b[(i + 1) - m]
      BY <1>4, <2>1, <3>1
    <3> QED
      BY <1>9, <2>1, <2>3, <3>1, <3>2
  <2> QED
    BY <2>2, <2>3
<1>11. Tail(c) = d
  BY <1>7, <1>9, <1>10
<1> QED
  BY <1>1, <1>3, <1>5, <1>8, <1>11

\* The rows of a source are rows; a source without files has none but those it reads from.
LEMMA RestIsTyped ==
    ASSUME NEW l, GoodSource(l)
    PROVE  /\ RestOf(l) \in Seq(RowType) /\ FlattenSeq(l.files) \in Seq(RowType)
           /\ l.rows = <<>> /\ l.files = <<>> => RestOf(l) = <<>>
<1>1. l.files \in Seq(Seq(RowType)) /\ l.rows \in Seq(RowType)
  BY DEF GoodSource, LabelState
<1>2. FlattenSeq(l.files) \in Seq(RowType)
  BY <1>1, FlatParts
<1>3. l.files = <<>> => FlattenSeq(l.files) = <<>>
  <2>1. \A i \in 1 .. Len(<<>>) : <<>>[i] = <<>>
    OBVIOUS
  <2> QED
    BY <1>1, <2>1, FlatEmpty
<1> QED
  BY <1>1, <1>2, <1>3, ConcatLaws DEF RestOf

\* The next file is opened: no row gets lost.
Reopened(l) == [l EXCEPT !.rows = Head(l.files), !.files = Tail(@)]
LEMMA OpensFile ==
    ASSUME NEW l, GoodSource(l), l.rows = <<>>, l.files # <<>>
    PROVE  LET o == Reopened(l)
           IN  /\ GoodSource(o) /\ o.rows # <<>> /\ RestOf(o) = RestOf(l)
               /\ o.nextPos = l.nextPos /\ o.nextData = l.nextData
<1> DEFINE o == Reopened(l)
<1>1. l.files \in Seq(Seq(RowType)) /\ l \in LabelState
  BY DEF GoodSource, LabelState
<1>2. /\ Head(l.files) = l.files[1] /\ l.files[1] \in Seq(RowType) /\ l.files[1] # <<>>
      /\ Tail(l.files) \in Seq(Seq(RowType)) /\ Len(Tail(l.files)) = Len(l.files) - 1
      /\ \A i \in 1 .. Len(l.files) - 1 : Tail(l.files)[i] = l.files[i + 1]
      /\ Len(l.files) \in Nat /\ Len(l.files) # 0
  <2>1. Len(l.files) \in Nat /\ Len(l.files) # 0
    BY <1>1, SeqFacts
  <2>2. 1 \in 1 .. Len(l.files)
    BY <2>1
  <2> QED
    BY <1>1, <2>1, <2>2, SeqFacts DEF GoodSource
<1>3. /\ o \in LabelState /\ o.rows = l.files[1] /\ o.files = Tail(l.files)
      /\ o.nextPos = l.nextPos /\ o.nextData = l.nextData
  BY <1>1, <1>2 DEF LabelState, Reopened
<1>4. \A f \in 1 .. Len(o.files) : o.files[f] # <<>>
  BY <1>2, <1>3 DEF GoodSource
<1>5. RestOf(l) = FlattenSeq(l.files)
  BY RestIsTyped, ConcatLaws DEF RestOf
<1>6. FlattenSeq(l.files) = l.files[1] \o FlattenSeq(Tail(l.files))
  BY <1>1, FlatHead
<1> HIDE DEF o
<1>7. RestOf(o) = RestOf(l)
  BY <1>3, <1>5, <1>6 DEF RestOf
<1> QED
  BY <1>2, <1>3, <1>4, <1>7 DEF GoodSource, o

\* The first row is read.
LEMMA ReadsRow ==
    ASSUME NEW o, GoodSource(o), o.rows # <<>>
    PROVE  LET r == [o EXCEPT !.rows = Tail(@)]
           IN  /\ GoodSource(r) /\ RestOf(o) # <<>> /\ RestOf(o)[1] = Head(o.rows)
               /\ Head(o.rows) \in RowType
               /\ RestOf(r) = Tail(RestOf(o)) /\ r.nextPos = o.nextPos /\ r.nextData = o.nextData
<1> DEFINE r == [o EXCEPT !.rows = Tail(@)]
<1>1. o \in LabelState /\ o.rows \in Seq(RowType)
  BY DEF GoodSource, LabelState
<1>2. FlattenSeq(o.files) \in Seq(RowType)
  BY RestIsTyped
<1>3. Head(o.rows) = o.rows[1] /\ Head(o.rows) \in RowType /\ Tail(o.rows) \in Seq(RowType)
  <2>1. Len(o.rows) \in Nat /\ Len(o.rows) # 0
    BY <1>1, SeqFacts
  <2>2. 1 \in 1 .. Len(o.rows)
    BY <2>1
  <2> QED
    BY <1>1, <2>2, SeqFacts
<1>4. /\ RestOf(o) # <<>> /\ RestOf(o)[1] = o.rows[1]
      /\ Tail(RestOf(o)) = Tail(o.rows) \o FlattenSeq(o.files)
  BY <1>1, <1>2, ConcatTail DEF RestOf
<1>5. /\ r \in LabelState /\ r.rows = Tail(o.rows) /\ r.files = o.files
      /\ r.nextPos = o.nextPos /\ r.nextData = o.nextData
  BY <1>1, <1>3 DEF LabelState
<1> HIDE DEF r
<1>6. GoodSource(r) /\ RestOf(r) = Tail(RestOf(o))
  BY <1>4, <1>5 DEF GoodSource, RestOf
<1> QED
  BY <1>3, <1>4, <1>5, <1>6 DEF r

\* What a source answers for a packet that does not come before what it has read, if it
\* has another row: it reads that row.
Answers(a, l, nr) ==
    LET row == RestOf(l)[1]
    IN  /\ ~a.eof /\ row \in RowType
        /\ a.label = IF row.pos = 0 \/ row.pos = nr THEN row.label ELSE None
        /\ GoodSource(a.next) /\ RestOf(a.next) = Tail(RestOf(l))
        /\ a.next.nextPos = IF row.pos = 0 THEN l.nextPos ELSE row.pos
        /\ row.pos # 0 /\ row.pos # nr => a.next.nextData = row.label

\* csvLabels.GetLabel
LEMMA AskIs ==
    ASSUME NEW l, GoodSource(l), NEW nr \in Nat \ {0}
    PROVE  LET a == CSVLabel(l, nr)
           IN  /\ l.nextPos >= nr =>
                    /\ ~a.eof /\ a.next = l
                    /\ a.label = IF l.nextPos = nr THEN l.nextData ELSE None
               /\ l.nextPos < nr /\ RestOf(l) = <<>> => a.eof
               /\ l.nextPos < nr /\ RestOf(l) # <<>> => Answers(a, l, nr)
<1> DEFINE a == CSVLabel(l, nr)
<1>1. l \in LabelState /\ l.nextPos \in Nat /\ nr \in Nat
  BY DEF GoodSource, LabelState
<1>2. CASE l.nextPos = nr
  BY <1>1, <1>2 DEF CSVLabel
<1>3. CASE l.nextPos > nr
  BY <1>1, <1>3 DEF CSVLabel
<1>4. CASE l.nextPos < nr
  <2>0. l.nextPos # nr /\ ~(l.nextPos > nr) /\ ~(l.nextPos >= nr)
    BY <1>1, <1>4
  <2>1. CASE l.rows = <<>> /\ l.files = <<>>
    <3>1. a.eof /\ RestOf(l) = <<>>
      BY <1>4, <2>0, <2>1, RestIsTyped DEF CSVLabel
    <3> QED
      BY <2>0, <3>1
  <2>2. CASE ~(l.rows = <<>> /\ l.files = <<>>)
    <3>1. PICK o : o = IF l.rows = <<>> THEN Reopened(l) ELSE l
      OBVIOUS
    <3>2. /\ GoodSource(o) /\ o.rows # <<>> /\ RestOf(o) = RestOf(l)
          /\ o.nextPos = l.nextPos /\ o.nextData = l.nextData
      BY <2>2, <3>1, OpensFile
    <3>3. PICK r : r = [o EXCEPT !.rows = Tail(@)]
      OBVIOUS
    <3>4. PICK row : row = Head(o.rows)
      OBVIOUS
    <3>5. /\ GoodSource(r) /\ RestOf(l) # <<>> /\ RestOf(l)[1] = row /\ row \in RowType
          /\ RestOf(r) = Tail(RestOf(l)) /\ r.nextPos = l.nextPos /\ r.nextData = l.nextData
      BY <3>2, <3>3, <3>4, ReadsRow
    <3>6. a = IF row.pos = 0 THEN [eof |-> FALSE, label |-> row.label, next |-> r]
              ELSE IF row.pos = nr
              THEN [eof |-> FALSE, label |-> row.label, next |-> [r EXCEPT !.nextPos = nr]]
              ELSE [eof |-> FALSE, label |-> None,
                    next |-> [r EXCEPT !.nextPos = row.pos, !.nextData = row.label]]
      BY <2>0, <2>2, <3>1, <3>3, <3>4 DEF CSVLabel, Reopened
    <3>7. row.pos \in Nat /\ row.label \in Nat /\ r \in LabelState
      BY <3>5 DEF GoodSource, RowType
    <3> HIDE DEF a
    <3>8. CASE row.pos = 0
      <4>1. ~a.eof /\ a.label = row.label /\ a.next = r
        BY <3>6, <3>8
      <4> QED
        BY <2>0, <3>5, <3>8, <4>1 DEF Answers, a
    <3>9. CASE row.pos # 0 /\ row.pos = nr
      <4>1. PICK n : n = [r EXCEPT !.nextPos = nr]
        OBVIOUS
      <4>2. /\ n \in LabelState /\ n.files = r.files /\ n.rows = r.rows
            /\ n.nextPos = nr
        BY <1>1, <3>7, <4>1 DEF LabelState
      <4>3. GoodSource(n) /\ RestOf(n) = RestOf(r)
        BY <3>5, <4>2 DEF GoodSource, RestOf
      <4>4. ~a.eof /\ a.label = row.label /\ a.next = n
        BY <3>6, <3>9, <4>1
      <4> QED
        BY <2>0, <3>5, <3>9, <4>2, <4>3, <4>4 DEF Answers, a
    <3>10. CASE row.pos # 0 /\ row.pos # nr
      <4>1. PICK n : n = [r EXCEPT !.nextPos = row.pos, !.nextData = row.label]
        OBVIOUS
      <4>2. /\ n \in LabelState /\ n.files = r.files /\ n.rows = r.rows
            /\ n.nextPos = row.pos /\ n.nextData = row.label
        BY <3>7, <4>1 DEF LabelState
      <4>3. GoodSource(n) /\ RestOf(n) = RestOf(r)
        BY <3>5, <4>2 DEF GoodSource, RestOf
      <4>4. ~a.eof /\ a.label = None /\ a.next = n
        BY <3>6, <3>10, <4>1
      <4> QED
        BY <2>0, <3>5, <3>10, <4>2, <4>3, <4>4 DEF Answers, a
    <3> QED
      BY <3>8, <3>9, <3>10
  <2> QED
    BY <2>1, <2>2
<1> QED
  BY <1>1, <1>2, <1>3, <1>4

\* The label sources of the engine: only the first one has been asked.  Their rows that were
\* not read are those of one source after the other.
GoodLabels(labels) ==
    /\ labels \in Seq(LabelState)
    /\ \A i \in 1 .. Len(labels) : GoodSource(labels[i]) /\ (i > 1 => labels[i].nextPos = 0)
RestsOf(labels) == [i \in 1 .. Len(labels) |-> RestOf(labels[i])]
Unread(labels) == FlattenSeq(RestsOf(labels))

LEMMA RestsAreTyped ==
    ASSUME NEW labels, GoodLabels(labels)
    PROVE  /\ RestsOf(labels) \in Seq(Seq(RowType)) /\ Len(RestsOf(labels)) = Len(labels)
           /\ \A i \in 1 .. Len(labels) : RestsOf(labels)[i] = RestOf(labels[i])
           /\ Unread(labels) \in Seq(RowType) /\ Len(labels) \in Nat
<1>1. Len(labels) \in Nat
  BY SeqFacts DEF GoodLabels
<1>2. \A i \in 1 .. Len(labels) : RestOf(labels[i]) \in Seq(RowType)
  BY RestIsTyped DEF GoodLabels
<1>3. PICK n : n = Len(labels)
  OBVIOUS
<1>4. PICK r : r = RestsOf(labels)
  OBVIOUS
<1>5. r = [i \in 1 .. n |-> RestOf(labels[i])] /\ \A i \in 1 .. n : r[i] = RestOf(labels[i])
  BY <1>3, <1>4 DEF RestsOf
<1>6. r \in [1 .. n -> Seq(RowType)]
  BY <1>2, <1>3, <1>5
<1>7. r \in Seq(Seq(RowType)) /\ Len(r) = n
  BY <1>1, <1>3, <1>6
<1>8. FlattenSeq(r) \in Seq(RowType)
  BY <1>7, FlatParts
<1> QED
  BY <1>1, <1>3, <1>4, <1>5, <1>7, <1>8 DEF Unread

\* The packet comes at or before the row that was read last; labels stay as they are.
Waits(labels, nr) == labels # <<>> /\ labels[1].nextPos >= nr

\* The next row is read.
Takes(g, labels, nr) ==
    LET row == Unread(labels)[1]
    IN  /\ row \in RowType
        /\ g.label = IF row.pos = 0 \/ row.pos = nr THEN row.label ELSE None
        /\ GoodLabels(g.labels) /\ g.labels # <<>> /\ Unread(g.labels) = Tail(Unread(labels))
        /\ IF row.pos = 0 THEN g.labels[1].nextPos < nr ELSE g.labels[1].nextPos = row.pos
        /\ row.pos # 0 /\ row.pos # nr => g.labels[1].nextData = row.label

\* One more sequence in front of others.
LEMMA PrefixIs ==
    ASSUME NEW T, NEW x \in T, NEW s \in Seq(T)
    PROVE  /\ <<x>> \o s \in Seq(T) /\ Len(<<x>> \o s) = Len(s) + 1
           /\ (<<x>> \o s)[1] = x /\ <<x>> \o s # <<>>
           /\ \A i \in 1 .. Len(s) : (<<x>> \o s)[i + 1] = s[i]
           /\ Tail(<<x>> \o s) = s
OBVIOUS

\* Only one number is the least of a set of numbers.
LEMMA LeastIs ==
    ASSUME NEW S \in SUBSET Nat, NEW m \in S, \A k \in S : m <= k
    PROVE  (CHOOSE l \in S : \A k \in S : l <= k) = m
<1>1. \A l \in S : (\A k \in S : l <= k) => l = m
  OBVIOUS
<1>2. \E l \in S : \A k \in S : l <= k
  OBVIOUS
<1>3. PICK c : c = CHOOSE l \in S : \A k \in S : l <= k
  OBVIOUS
<1>4. c \in S /\ \A k \in S : c <= k
  BY <1>2, <1>3, Zenon
<1> QED
  BY <1>1, <1>3, <1>4

\* Labels.GetLabel
LEMMA LabelIs ==
    ASSUME NEW labels, GoodLabels(labels), NEW nr \in Nat \ {0}
    PROVE  LET g == GetLabel(labels, nr)
           IN  /\ Waits(labels, nr) =>
                    /\ g.labels = labels
                    /\ g.label = IF labels[1].nextPos = nr THEN labels[1].nextData ELSE None
               /\ ~Waits(labels, nr) /\ Unread(labels) = <<>> =>
                    g.labels = <<>> /\ g.label = None
               /\ ~Waits(labels, nr) /\ Unread(labels) # <<>> => Takes(g, labels, nr)
<1>1. PICK n : n = Len(labels)
  OBVIOUS
<1>2. /\ n \in Nat /\ labels \in Seq(LabelState) /\ DOMAIN labels = 1 .. n
      /\ (labels = <<>> <=> n = 0) /\ nr \in Nat /\ nr # 0
      /\ \A l \in 1 .. n : GoodSource(labels[l]) /\ (l > 1 => labels[l].nextPos = 0)
  BY <1>1, SeqFacts DEF GoodLabels
<1>3. PICK asks : asks = [l \in DOMAIN labels |-> CSVLabel(labels[l], nr)]
  OBVIOUS
<1>4. PICK left : left = {l \in DOMAIN labels : ~asks[l].eof}
  OBVIOUS
<1>5. PICK first : first = CHOOSE l \in left : \A k \in left : l <= k
  OBVIOUS
<1>6. PICK g : g = GetLabel(labels, nr)
  OBVIOUS
<1>7. g = IF left = {} THEN [label |-> None, labels |-> <<>>]
          ELSE [label |-> asks[first].label,
                labels |-> <<asks[first].next>> \o SubSeq(labels, first + 1, n)]
  BY <1>1, <1>3, <1>4, <1>5, <1>6 DEF GetLabel
<1>8. \A l \in 1 .. n :
        /\ asks[l] = CSVLabel(labels[l], nr) /\ labels[l].nextPos \in Nat
        /\ labels[l].nextPos >= nr =>
            /\ ~asks[l].eof /\ asks[l].next = labels[l]
            /\ asks[l].label = IF labels[l].nextPos = nr THEN labels[l].nextData ELSE None
        /\ labels[l].nextPos < nr /\ RestOf(labels[l]) = <<>> => asks[l].eof
        /\ labels[l].nextPos < nr /\ RestOf(labels[l]) # <<>> => Answers(asks[l], labels[l], nr)
  <2> TAKE l \in 1 .. n
  <2>1. asks[l] = CSVLabel(labels[l], nr)
    BY <1>2, <1>3
  <2>2. GoodSource(labels[l])
    BY <1>2
  <2>3. labels[l].nextPos \in Nat
    BY <2>2 DEF GoodSource, LabelState
  <2> QED
    BY <2>1, <2>2, <2>3, AskIs
<1>9. left \in SUBSET Nat /\ left \subseteq 1 .. n
  BY <1>2, <1>4
<1>10. \A m \in left : (\A k \in left : m <= k) => first = m
  BY <1>5, <1>9, LeastIs
<1>11. CASE Waits(labels, nr)
  <2>1. n # 0 /\ 1 \in 1 .. n /\ labels[1].nextPos >= nr
    BY <1>2, <1>11 DEF Waits
  <2>2. 1 \in left
    BY <1>2, <1>4, <1>8, <2>1
  <2>3. first = 1
    <3>1. \A k \in left : 1 <= k
      BY <1>9
    <3> QED
      BY <1>10, <2>2, <3>1
  <2>4. g.label = asks[1].label /\ g.labels = <<labels[1]>> \o SubSeq(labels, 2, n)
    <3>1. first + 1 = 2 /\ left # {} /\ asks[1].next = labels[1]
      BY <1>8, <2>1, <2>2, <2>3
    <3>2. g = [label |-> asks[1].label,
               labels |-> <<labels[1]>> \o SubSeq(labels, 2, n)]
      BY <1>7, <2>3, <3>1
    <3> QED
      BY <3>2
  <2>5. <<labels[1]>> \o SubSeq(labels, 2, n) = labels
    <3>1. PICK t : t = Tail(labels)
      OBVIOUS
    <3>2. t \in Seq(LabelState) /\ Len(t) = n - 1 /\ SubSeq(labels, 2, n) = t
          /\ \A i \in 1 .. n - 1 : t[i] = labels[i + 1]
      BY <1>1, <1>2, <2>1, <3>1, SeqFacts
    <3>3. labels[1] \in LabelState
      BY <1>1, <1>2, <2>1, SeqFacts
    <3>4. PICK u : u = <<labels[1]>> \o t
      OBVIOUS
    <3>5. /\ u \in Seq(LabelState) /\ Len(u) = n /\ u[1] = labels[1]
          /\ \A i \in 1 .. n - 1 : u[i + 1] = t[i]
      BY <1>2, <3>2, <3>3, <3>4, PrefixIs
    <3>6. \A i \in 1 .. n : u[i] = labels[i]
      <4> TAKE i \in 1 .. n
      <4>1. CASE i = 1
        BY <3>5, <4>1
      <4>2. CASE i # 1
        <5>1. i - 1 \in 1 .. n - 1 /\ (i - 1) + 1 = i
          BY <1>2, <4>2
        <5> QED
          BY <3>2, <3>5, <5>1
      <4> QED
        BY <4>1, <4>2
    <3>7. u = labels
      BY <1>1, <1>2, <3>5, <3>6
    <3> QED
      BY <3>2, <3>4, <3>7
  <2> QED
    BY <1>6, <1>8, <1>11, <2>1, <2>4, <2>5
<1>12. CASE ~Waits(labels, nr)
  <2>1. \A l \in 1 .. n : labels[l].nextPos < nr
    <3> TAKE l \in 1 .. n
    <3>1. CASE l = 1
      BY <1>2, <1>8, <1>12, <3>1 DEF Waits
    <3>2. CASE l # 1
      BY <1>2, <3>2
    <3> QED
      BY <3>1, <3>2
  <2>2. PICK r : r = RestsOf(labels)
    OBVIOUS
  <2>3. /\ r \in Seq(Seq(RowType)) /\ Len(r) = n /\ Unread(labels) = FlattenSeq(r)
        /\ \A l \in 1 .. n : r[l] = RestOf(labels[l])
    BY <1>1, <2>2, RestsAreTyped DEF Unread
  <2>4. \A l \in 1 .. n : /\ l \in left <=> r[l] # <<>>
                          /\ r[l] # <<>> => Answers(asks[l], labels[l], nr)
    BY <1>2, <1>4, <1>8, <2>1, <2>3 DEF Answers
  <2>5. CASE left = {}
    <3>1. \A l \in 1 .. n : r[l] = <<>>
      BY <2>4, <2>5
    <3>2. Unread(labels) = <<>>
      BY <2>3, <3>1, FlatEmpty
    <3>3. g.label = None /\ g.labels = <<>>
      BY <1>7, <2>5
    <3> QED
      BY <1>6, <1>12, <3>2, <3>3
  <2>6. CASE left # {}
    <3>1. PICK m \in left : \A k \in left : m <= k
      BY <1>9, <2>6, LeastNatural
    <3>2. PICK k : k = m - 1
      OBVIOUS
    <3>3. k \in Nat /\ m = k + 1 /\ m \in 1 .. n /\ first = m
      BY <1>9, <1>10, <3>1, <3>2
    <3>4. SkipsTo(r, k)
      <4>1. \A i \in 1 .. k : i \in 1 .. n /\ i \notin left
        BY <1>2, <1>9, <3>1, <3>3
      <4> QED
        BY <2>3, <2>4, <3>3, <4>1 DEF SkipsTo
    <3>5. PICK more : more = SubSeq(r, k + 2, n)
      OBVIOUS
    <3>6. more \in Seq(Seq(RowType)) /\ Len(more) = n - m
          /\ \A i \in 1 .. n - m : more[i] = r[i + m]
      BY <2>3, <3>3, <3>5, RestFacts
    <3>7. PICK rest : rest = FlattenSeq(more)
      OBVIOUS
    <3>8. Unread(labels) = r[m] \o rest /\ rest \in Seq(RowType)
      <4>1. FlattenSeq(r) = r[k + 1] \o FlattenSeq(SubSeq(r, k + 2, n))
        BY <2>3, <3>3, <3>4, FlatSkips DEF Skipped
      <4> QED
        BY <2>3, <3>3, <3>5, <3>6, <3>7, <4>1, FlatParts
    <3>9. r[m] \in Seq(RowType) /\ r[m] # <<>> /\ r[m] = RestOf(labels[m])
          /\ Answers(asks[m], labels[m], nr)
      BY <2>3, <2>4, <3>3, SeqFacts
    <3>10. /\ Unread(labels) # <<>> /\ Unread(labels)[1] = r[m][1]
           /\ Tail(Unread(labels)) = Tail(r[m]) \o rest
      BY <3>8, <3>9, ConcatTail
    <3>11. PICK next : next = asks[m].next
      OBVIOUS
    <3>12. PICK t : t = SubSeq(labels, k + 2, n)
      OBVIOUS
    <3>13. t \in Seq(LabelState) /\ Len(t) = n - m /\ \A i \in 1 .. n - m : t[i] = labels[i + m]
      BY <1>1, <1>2, <3>3, <3>12, RestFacts
    <3>14. GoodSource(next) /\ next \in LabelState /\ RestOf(next) = Tail(r[m])
      BY <3>9, <3>11 DEF Answers, GoodSource
    <3>15. PICK u : u = <<next>> \o t
      OBVIOUS
    <3>16. /\ u \in Seq(LabelState) /\ Len(u) = (n - m) + 1 /\ u[1] = next /\ u # <<>>
           /\ \A i \in 1 .. n - m : u[i + 1] = t[i]
      BY <3>13, <3>14, <3>15, PrefixIs
    <3>17. g.labels = u /\ g.label = asks[m].label
      <4>1. first + 1 = k + 2
        BY <3>3
      <4> QED
        BY <1>7, <2>6, <3>3, <3>11, <3>12, <3>15, <4>1
    <3>18. \A i \in 2 .. Len(u) : i - 1 \in 1 .. n - m /\ u[i] = labels[(i - 1) + m]
                                  /\ (i - 1) + m \in 1 .. n /\ (i - 1) + m > 1
      <4> TAKE i \in 2 .. Len(u)
      <4>1. i - 1 \in 1 .. n - m /\ (i - 1) + 1 = i /\ (i - 1) + m \in 1 .. n /\ (i - 1) + m > 1
        BY <1>2, <3>3, <3>16
      <4>2. u[i] = t[i - 1]
        BY <3>16, <4>1
      <4> QED
        BY <3>13, <4>1, <4>2
    <3>19. GoodLabels(u)
      <4>1. \A i \in 1 .. Len(u) : i = 1 \/ i \in 2 .. Len(u)
        BY <1>2, <3>3, <3>16
      <4>2. \A i \in 1 .. Len(u) : GoodSource(u[i]) /\ (i > 1 => u[i].nextPos = 0)
        BY <1>2, <3>14, <3>16, <3>18, <4>1
      <4> QED
        BY <3>16, <4>2 DEF GoodLabels
    <3>20. PICK v : v = RestsOf(u)
      OBVIOUS
    <3>21. v \in Seq(Seq(RowType)) /\ Len(v) = (n - m) + 1 /\ Unread(u) = FlattenSeq(v)
           /\ \A i \in 1 .. (n - m) + 1 : v[i] = RestOf(u[i])
      BY <3>16, <3>19, <3>20, RestsAreTyped DEF Unread
    <3>22. v # <<>> /\ v[1] = Tail(r[m])
      <4>1. Len(v) # 0 /\ 1 \in 1 .. (n - m) + 1
        BY <1>2, <3>3, <3>21
      <4> QED
        BY <3>14, <3>16, <3>21, <4>1, SeqFacts
    <3>23. Tail(v) = more
      <4>1. Tail(v) \in Seq(Seq(RowType)) /\ Len(Tail(v)) = n - m
            /\ \A i \in 1 .. n - m : Tail(v)[i] = v[i + 1]
        <5>1. Len(v) - 1 = n - m
          BY <1>2, <3>3, <3>21
        <5> QED
          BY <3>21, <3>22, <5>1, SeqFacts
      <4>2. \A i \in 1 .. n - m : Tail(v)[i] = more[i]
        <5> TAKE i \in 1 .. n - m
        <5>1. i + 1 \in 1 .. (n - m) + 1 /\ i + m \in 1 .. n
          BY <1>2, <3>3
        <5>2. v[i + 1] = RestOf(t[i]) /\ t[i] = labels[i + m]
          BY <3>13, <3>16, <3>21, <5>1
        <5>3. more[i] = RestOf(labels[i + m])
          BY <2>3, <3>6, <5>1
        <5> QED
          BY <4>1, <5>2, <5>3
      <4>3. PICK w : w = Tail(v)
        OBVIOUS
      <4>4. w = more
        BY <3>6, <4>1, <4>2, <4>3
      <4> QED
        BY <4>3, <4>4
    <3>24. Unread(u) = Tail(Unread(labels))
      <4>1. FlattenSeq(v) = v[1] \o FlattenSeq(Tail(v))
        BY <3>21, <3>22, FlatHead
      <4> QED
        BY <3>7, <3>10, <3>21, <3>22, <3>23, <4>1
    <3>25. /\ r[m][1] \in RowType
           /\ g.label = IF r[m][1].pos = 0 \/ r[m][1].pos = nr THEN r[m][1].label ELSE None
           /\ u[1].nextPos = IF r[m][1].pos = 0 THEN labels[m].nextPos ELSE r[m][1].pos
           /\ r[m][1].pos # 0 /\ r[m][1].pos # nr => u[1].nextData = r[m][1].label
      BY <3>9, <3>11, <3>16, <3>17 DEF Answers
    <3>26. Takes(g, labels, nr)
      BY <2>1, <3>3, <3>10, <3>16, <3>17, <3>19, <3>24, <3>25 DEF Takes
    <3> QED
      BY <1>6, <1>12, <3>10, <3>26
  <2> QED
    BY <2>5, <2>6
<1> QED
  BY <1>11, <1>12

\* Rows with positions; without; and in the order of the packets.
Numbered(rows) == \A r \in 1 .. Len(rows) : rows[r].pos # 0
Unnumbered(rows) == \A r \in 1 .. Len(rows) : rows[r].pos = 0
Rising(rows) ==
    Numbered(rows) /\ \A q, r \in 1 .. Len(rows) : q < r => rows[q].pos < rows[r].pos

\* The first n rows were read, and the one of them that is ahead of the packets is kept.
ReadTo(rows, labels, n) ==
    /\ n \in 0 .. Len(rows) /\ GoodLabels(labels)
    /\ Unread(labels) = SubSeq(rows, n + 1, Len(rows))
Ahead(rows, labels, n, packets) ==
    labels # <<>> /\ labels[1].nextPos > packets =>
        n > 0 /\ rows[n].pos = labels[1].nextPos /\ rows[n].label = labels[1].nextData

\* A row is read for each packet that asks, or until there is one for a later packet.
AllRead(rows, n, count) == n = IF count <= Len(rows) THEN count ELSE Len(rows)
UpToDate(rows, labels, n, packets) ==
    /\ \A r \in n + 1 .. Len(rows) : rows[r].pos > packets
    /\ \A r \in 1 .. n : \/ rows[r].pos <= packets
                         \/ r = n /\ labels # <<>> /\ labels[1].nextPos = rows[n].pos

\* Where the labels are after some packets, of which some number has asked.
LabelsAt(rows, labels, n, packets, count) ==
    /\ ReadTo(rows, labels, n) /\ Ahead(rows, labels, n, packets)
    /\ Unnumbered(rows) => AllRead(rows, n, count)
    /\ Rising(rows) /\ packets = count => UpToDate(rows, labels, n, packets)

\* The label of packet nr, before which some number of packets asked.
LabelFits(rows, label, nr, count) ==
    /\ Numbered(rows) /\ label # None =>
            \E r \in 1 .. Len(rows) : rows[r].pos = nr /\ rows[r].label = label
    /\ Rising(rows) /\ nr = count + 1 /\ (\E r \in 1 .. Len(rows) : rows[r].pos = nr) =>
            label # None
    /\ Unnumbered(rows) /\ count + 1 <= Len(rows) => label = rows[count + 1].label

\* The rest of a sequence.
LEMMA TailsAre ==
    ASSUME NEW T, NEW s \in Seq(T), NEW n \in 0 .. Len(s)
    PROVE  LET u == SubSeq(s, n + 1, Len(s))
           IN  /\ u = <<>> <=> n = Len(s)
               /\ n # Len(s) => u[1] = s[n + 1] /\ Tail(u) = SubSeq(s, (n + 1) + 1, Len(s))
<1>1. PICK u : u = SubSeq(s, n + 1, Len(s))
  OBVIOUS
<1>2. PICK m : m = Len(s)
  OBVIOUS
<1>3. m \in Nat /\ n \in Nat /\ n <= m
  BY <1>2
<1>4. u \in Seq(T) /\ Len(u) = m - n /\ \A i \in 1 .. m - n : u[i] = s[(n + 1) + i - 1]
  BY <1>1, <1>2, <1>3
<1>5. u = <<>> <=> n = m
  <2>1. u = <<>> <=> Len(u) = 0
    BY <1>4, SeqFacts
  <2> QED
    BY <1>3, <1>4, <2>1
<1>6. ASSUME n # m PROVE u[1] = s[n + 1] /\ Tail(u) = SubSeq(s, (n + 1) + 1, m)
  <2>1. 1 \in 1 .. m - n /\ (n + 1) + 1 - 1 = n + 1
    BY <1>3, <1>6
  <2>2. PICK t : t = Tail(u)
    OBVIOUS
  <2>3. t \in Seq(T) /\ Len(t) = (m - n) - 1 /\ \A i \in 1 .. (m - n) - 1 : t[i] = u[i + 1]
    BY <1>4, <1>5, <1>6, <2>2, SeqFacts
  <2>4. PICK v : v = SubSeq(s, (n + 1) + 1, m)
    OBVIOUS
  <2>5. v \in Seq(T) /\ Len(v) = (m - n) - 1
        /\ \A i \in 1 .. (m - n) - 1 : v[i] = s[((n + 1) + 1) + i - 1]
    BY <1>2, <1>3, <1>6, <2>4
  <2>6. \A i \in 1 .. (m - n) - 1 : t[i] = v[i]
    <3> TAKE i \in 1 .. (m - n) - 1
    <3>1. i + 1 \in 1 .. m - n /\ (n + 1) + (i + 1) - 1 = ((n + 1) + 1) + i - 1
      BY <1>3
    <3>2. u[i + 1] = s[(n + 1) + (i + 1) - 1]
      BY <1>4, <3>1
    <3> QED
      BY <2>3, <2>5, <3>1, <3>2
  <2>7. t = v
    BY <2>3, <2>5, <2>6
  <2>8. u[1] = s[(n + 1) + 1 - 1]
    BY <1>4, <2>1
  <2> QED
    BY <2>1, <2>2, <2>4, <2>7, <2>8
<1> QED
  BY <1>1, <1>2, <1>5, <1>6

\* One packet asks: the label fits, and the labels go on as they should.
LEMMA LabelNext ==
    ASSUME NEW rows \in Seq(RowType), NEW labels, NEW n, NEW packets \in Nat, NEW count \in Nat,
           count <= packets, LabelsAt(rows, labels, n, packets, count),
           NEW nr \in Nat, nr > packets
    PROVE  LET g == GetLabel(labels, nr)
           IN  /\ \E m : LabelsAt(rows, g.labels, m, nr, count + 1)
               /\ LabelFits(rows, g.label, nr, count)
<1>1. PICK g : g = GetLabel(labels, nr)
  OBVIOUS
<1>2. PICK z : z = Len(rows)
  OBVIOUS
<1>3. /\ z \in Nat /\ n \in Nat /\ n <= z /\ nr # 0 /\ nr \in Nat \ {0} /\ packets < nr
      /\ \A r \in 1 .. z : rows[r] \in RowType /\ rows[r].pos \in Nat /\ rows[r].label \in Nat
                           /\ rows[r].label # None
  <2>1. \A r \in 1 .. z : rows[r] \in RowType
    BY <1>2, SeqFacts
  <2> QED
    BY <1>2, <2>1, NoneAssumption DEF LabelsAt, ReadTo, RowType
<1>4. /\ GoodLabels(labels) /\ Unread(labels) = SubSeq(rows, n + 1, z)
      /\ Ahead(rows, labels, n, packets)
      /\ Unnumbered(rows) => AllRead(rows, n, count)
      /\ Rising(rows) /\ packets = count => UpToDate(rows, labels, n, packets)
  BY <1>2 DEF LabelsAt, ReadTo
<1>5. labels # <<>> => labels[1].nextPos \in Nat
  <2>1. labels # <<>> => 1 \in 1 .. Len(labels)
    <3>1. Len(labels) \in Nat /\ (labels = <<>> <=> Len(labels) = 0)
      BY <1>4, SeqFacts DEF GoodLabels
    <3> QED
      BY <3>1
  <2> QED
    BY <1>4, <2>1 DEF GoodLabels, GoodSource, LabelState
<1>6. /\ Waits(labels, nr) =>
            /\ g.labels = labels
            /\ g.label = IF labels[1].nextPos = nr THEN labels[1].nextData ELSE None
      /\ ~Waits(labels, nr) /\ Unread(labels) = <<>> => g.labels = <<>> /\ g.label = None
      /\ ~Waits(labels, nr) /\ Unread(labels) # <<>> => Takes(g, labels, nr)
  BY <1>1, <1>3, <1>4, LabelIs
<1>7. /\ Unread(labels) = <<>> <=> n = z
      /\ n # z => /\ Unread(labels)[1] = rows[n + 1]
                  /\ Tail(Unread(labels)) = SubSeq(rows, (n + 1) + 1, z)
  <2>1. n \in 0 .. Len(rows) /\ Unread(labels) = SubSeq(rows, n + 1, Len(rows))
    BY <1>2, <1>3, <1>4
  <2>2. /\ SubSeq(rows, n + 1, Len(rows)) = <<>> <=> n = Len(rows)
        /\ n # Len(rows) => /\ SubSeq(rows, n + 1, Len(rows))[1] = rows[n + 1]
                            /\ Tail(SubSeq(rows, n + 1, Len(rows)))
                                = SubSeq(rows, (n + 1) + 1, Len(rows))
    BY <2>1, TailsAre
  <2> QED
    BY <1>2, <2>1, <2>2
<1>8. CASE Waits(labels, nr)
  <2>1. /\ labels # <<>> /\ labels[1].nextPos >= nr /\ labels[1].nextPos > packets
        /\ n \in 1 .. z /\ rows[n].pos = labels[1].nextPos /\ rows[n].label = labels[1].nextData
    BY <1>3, <1>4, <1>5, <1>8 DEF Waits, Ahead
  <2>2. Ahead(rows, labels, n, nr)
    BY <2>1 DEF Ahead
  <2>3. ~Unnumbered(rows)
    BY <1>2, <1>3, <2>1 DEF Unnumbered
  <2>4. ASSUME Rising(rows), nr = count + 1
        PROVE  UpToDate(rows, labels, n, nr)
               /\ ((\E r \in 1 .. z : rows[r].pos = nr) => g.label # None)
    <3>1. UpToDate(rows, labels, n, packets)
      BY <1>3, <1>4, <2>4
    <3>2. \A r \in n + 1 .. z : rows[r].pos > nr
      <4> TAKE r \in n + 1 .. z
      <4>1. rows[n].pos < rows[r].pos
        BY <1>2, <1>3, <2>1, <2>4 DEF Rising
      <4>2. r \in 1 .. z
        BY <1>3
      <4> QED
        BY <1>3, <1>5, <2>1, <4>1, <4>2
    <3>3. \A r \in 1 .. n : \/ rows[r].pos <= nr
                            \/ r = n /\ labels # <<>> /\ labels[1].nextPos = rows[n].pos
      BY <1>2, <1>3, <2>1, <3>1 DEF UpToDate
    <3>4. ASSUME NEW r \in 1 .. z, rows[r].pos = nr PROVE g.label # None
      <4>1. r \in 1 .. n
        BY <1>3, <3>2, <3>4
      <4>2. ~(rows[r].pos <= packets)
        BY <1>3, <3>4
      <4>3. r = n
        BY <3>1, <4>1, <4>2 DEF UpToDate
      <4> QED
        BY <1>3, <1>6, <1>8, <2>1, <3>4, <4>3
    <3> QED
      BY <1>2, <3>2, <3>3, <3>4 DEF UpToDate
  <2>5. ASSUME g.label # None
        PROVE  \E r \in 1 .. z : rows[r].pos = nr /\ rows[r].label = g.label
    BY <1>6, <1>8, <2>1, <2>5
  <2>6. LabelsAt(rows, g.labels, n, nr, count + 1)
    BY <1>2, <1>3, <1>4, <1>6, <1>8, <2>2, <2>3, <2>4 DEF LabelsAt, ReadTo
  <2>7. LabelFits(rows, g.label, nr, count)
    BY <1>2, <2>3, <2>4, <2>5 DEF LabelFits
  <2> QED
    BY <1>1, <2>6, <2>7
<1>9. CASE ~Waits(labels, nr) /\ n = z
  <2>1. g.labels = <<>> /\ g.label = None
    BY <1>6, <1>7, <1>9
  <2>2. GoodLabels(<<>>) /\ Unread(<<>>) = <<>>
    <3>1. GoodLabels(<<>>)
      BY DEF GoodLabels
    <3>2. RestsOf(<<>>) = <<>>
      BY DEF RestsOf
    <3>3. FlattenSeq(<<>>) = <<>>
      <4>1. <<>> \in Seq(Seq(RowType)) /\ \A i \in 1 .. Len(<<>>) : <<>>[i] = <<>>
        OBVIOUS
      <4> QED
        BY <4>1, FlatEmpty
    <3> QED
      BY <3>1, <3>2, <3>3 DEF Unread
  <2>3. ReadTo(rows, <<>>, n)
    <3>1. Unread(<<>>) = SubSeq(rows, n + 1, Len(rows))
      BY <1>2, <1>4, <1>7, <1>9, <2>2
    <3>2. n \in 0 .. Len(rows)
      BY <1>2, <1>3
    <3> QED
      BY <2>2, <3>1, <3>2 DEF ReadTo
  <2>4. Ahead(rows, <<>>, n, nr)
    BY DEF Ahead
  <2>5. ASSUME Unnumbered(rows) PROVE z <= count
    BY <1>2, <1>3, <1>4, <1>9, <2>5 DEF AllRead
  <2>6. ASSUME Rising(rows), nr = count + 1
        PROVE  UpToDate(rows, <<>>, n, nr) /\ \A r \in 1 .. z : rows[r].pos # nr
    <3>1. UpToDate(rows, labels, n, packets)
      BY <1>3, <1>4, <2>6
    <3>2. \A r \in 1 .. z : rows[r].pos < nr
      <4> TAKE r \in 1 .. z
      <4>1. \/ rows[r].pos <= packets
            \/ labels # <<>> /\ labels[1].nextPos = rows[r].pos
        BY <1>9, <3>1 DEF UpToDate
      <4> QED
        BY <1>3, <1>5, <1>9, <4>1 DEF Waits
    <3> QED
      BY <1>2, <1>3, <1>9, <3>2 DEF UpToDate
  <2>7. LabelsAt(rows, <<>>, n, nr, count + 1)
    <3>1. Unnumbered(rows) => AllRead(rows, n, count + 1)
      BY <1>2, <1>3, <1>9, <2>5 DEF AllRead
    <3> QED
      BY <2>3, <2>4, <2>6, <3>1 DEF LabelsAt
  <2>8. LabelFits(rows, None, nr, count)
    <3>1. Unnumbered(rows) => ~(count + 1 <= Len(rows))
      BY <1>2, <1>3, <2>5
    <3> QED
      BY <1>2, <2>6, <3>1 DEF LabelFits
  <2> QED
    BY <1>1, <2>1, <2>7, <2>8
<1>10. CASE ~Waits(labels, nr) /\ n # z
  <2>1. PICK row : row = rows[n + 1]
    OBVIOUS
  <2>2. PICK new : new = g.labels
    OBVIOUS
  <2>3. /\ row \in RowType /\ GoodLabels(new) /\ new # <<>>
        /\ g.label = IF row.pos = 0 \/ row.pos = nr THEN row.label ELSE None
        /\ Unread(new) = SubSeq(rows, (n + 1) + 1, z)
        /\ IF row.pos = 0 THEN new[1].nextPos < nr ELSE new[1].nextPos = row.pos
        /\ row.pos # 0 /\ row.pos # nr => new[1].nextData = row.label
    <3>1. Takes(g, labels, nr) /\ Unread(labels)[1] = row
      BY <1>6, <1>7, <1>10, <2>1
    <3> QED
      BY <1>7, <1>10, <2>2, <3>1 DEF Takes
  <2>4. n + 1 \in 1 .. z /\ row.pos \in Nat /\ row.label # None
    <3>1. n + 1 \in 1 .. z
      BY <1>3, <1>10
    <3> QED
      BY <1>3, <2>1, <3>1
  <2>5. new[1].nextPos \in Nat
    <3>1. 1 \in 1 .. Len(new)
      <4>1. Len(new) \in Nat /\ (new = <<>> <=> Len(new) = 0)
        BY <2>3, SeqFacts DEF GoodLabels
      <4> QED
        BY <2>3, <4>1
    <3> QED
      BY <2>3, <3>1 DEF GoodLabels, GoodSource, LabelState
  <2>6. ReadTo(rows, new, n + 1)
    BY <1>2, <1>3, <2>3, <2>4 DEF ReadTo
  <2>7. Ahead(rows, new, n + 1, nr)
    BY <1>3, <2>1, <2>3, <2>4, <2>5 DEF Ahead
  <2>8. ASSUME Unnumbered(rows)
        PROVE  n = count /\ row.pos = 0
    <3>1. row.pos = 0
      BY <1>2, <2>1, <2>4, <2>8 DEF Unnumbered
    <3> QED
      BY <1>2, <1>3, <1>4, <1>10, <2>8, <3>1 DEF AllRead
  <2>9. ASSUME Rising(rows), nr = count + 1
        PROVE  UpToDate(rows, new, n + 1, nr)
               /\ ((\E r \in 1 .. z : rows[r].pos = nr) => g.label # None)
    <3>1. UpToDate(rows, labels, n, packets) /\ nr = packets + 1
      BY <1>3, <1>4, <2>9
    <3>2. row.pos >= nr
      <4>1. n + 1 \in n + 1 .. z
        BY <1>3, <2>4
      <4>2. row.pos > packets
        BY <1>2, <2>1, <3>1, <4>1 DEF UpToDate
      <4> QED
        BY <2>4, <3>1, <4>2
    <3>3. \A r \in (n + 1) + 1 .. z : rows[r].pos > row.pos
      <4> TAKE r \in (n + 1) + 1 .. z
      <4>1. r \in 1 .. z /\ n + 1 < r
        BY <1>3
      <4>2. rows[n + 1].pos < rows[r].pos
        BY <1>2, <2>4, <2>9, <4>1 DEF Rising
      <4> QED
        BY <1>3, <2>1, <2>4, <4>1, <4>2
    <3>4. \A r \in 1 .. n : rows[r].pos < nr
      <4> TAKE r \in 1 .. n
      <4>1. \/ rows[r].pos <= packets
            \/ labels # <<>> /\ labels[1].nextPos = rows[r].pos
        BY <3>1 DEF UpToDate
      <4>2. r \in 1 .. z
        BY <1>3
      <4> QED
        BY <1>3, <1>5, <1>10, <4>1, <4>2 DEF Waits
    <3>5. \A r \in 1 .. z : r \in 1 .. n \/ r = n + 1 \/ r \in (n + 1) + 1 .. z
      BY <1>3
    <3>6. UpToDate(rows, new, n + 1, nr)
      <4>1. \A r \in (n + 1) + 1 .. Len(rows) : rows[r].pos > nr
        <5> TAKE r \in (n + 1) + 1 .. Len(rows)
        <5>1. r \in 1 .. z /\ rows[r].pos > row.pos
          BY <1>2, <1>3, <3>3
        <5> QED
          BY <1>3, <2>4, <3>2, <5>1
      <4>2. \A r \in 1 .. n + 1 :
              \/ rows[r].pos <= nr
              \/ r = n + 1 /\ new # <<>> /\ new[1].nextPos = rows[n + 1].pos
        <5> TAKE r \in 1 .. n + 1
        <5>1. CASE r = n + 1
          BY <1>3, <2>1, <2>3, <2>4, <3>2, <5>1
        <5>2. CASE r # n + 1
          <6>1. r \in 1 .. n /\ r \in 1 .. z
            BY <1>3, <5>2
          <6> QED
            BY <1>3, <3>4, <6>1
        <5> QED
          BY <5>1, <5>2
      <4> QED
        BY <4>1, <4>2 DEF UpToDate
    <3>7. ASSUME NEW r \in 1 .. z, rows[r].pos = nr PROVE g.label # None
      <4>1. r = n + 1
        BY <1>3, <2>4, <3>2, <3>3, <3>4, <3>5, <3>7
      <4> QED
        BY <2>1, <2>3, <2>4, <3>7, <4>1
    <3> QED
      BY <3>6, <3>7
  <2>10. LabelsAt(rows, new, n + 1, nr, count + 1)
    <3>1. Unnumbered(rows) => AllRead(rows, n + 1, count + 1)
      BY <1>2, <2>4, <2>8 DEF AllRead
    <3> QED
      BY <2>6, <2>7, <2>9, <3>1 DEF LabelsAt
  <2>11. LabelFits(rows, g.label, nr, count)
    <3>1. ASSUME Numbered(rows), g.label # None
          PROVE  \E r \in 1 .. z : rows[r].pos = nr /\ rows[r].label = g.label
      <4>1. row.pos # 0
        BY <1>2, <2>1, <2>4, <3>1 DEF Numbered
      <4> QED
        BY <2>1, <2>3, <2>4, <3>1, <4>1
    <3>2. Unnumbered(rows) => g.label = rows[count + 1].label
      BY <2>1, <2>3, <2>8
    <3> QED
      BY <1>2, <2>9, <3>1, <3>2 DEF LabelFits
  <2> QED
    BY <1>1, <2>2, <2>10, <2>11
<1> QED
  BY <1>8, <1>9, <1>10

\* The rows of all files of all label sources.
RowsOf(files) == FlattenSeq([l \in DOMAIN files |-> FlattenSeq(files[l])])
Rows == RowsOf(input.labels)

\* A packet never gets the label of another one.
OwnLabels ==
    \A i \in DOMAIN asked :
        (\A r \in DOMAIN Rows : Rows[r].pos # 0) /\ asked[i].label # None =>
            \E r \in DOMAIN Rows : Rows[r].pos = asked[i].nr /\ Rows[r].label = asked[i].label

\* The labels go on with the packets.
LabelInv ==
    /\ WindowInv
    /\ engine.packets \in Nat /\ Len(asked) <= engine.packets
    /\ \E n : LabelsAt(Rows, engine.labels, n, engine.packets, Len(asked))
    /\ \A i \in 1 .. Len(asked) : LabelFits(Rows, asked[i].label, asked[i].nr, i - 1)

\* What the files of labels are made of.
LEMMA LabelTypes ==
    ASSUME input \in Inputs
    PROVE  /\ input.labels \in Seq(Seq(Seq(RowType))) /\ Rows \in Seq(RowType)
           /\ \A l \in 1 .. Len(input.labels) :
                /\ input.labels[l] \in Seq(Seq(RowType))
                /\ FlattenSeq(input.labels[l]) \in Seq(RowType)
                /\ \A f \in 1 .. Len(input.labels[l]) : input.labels[l][f] # <<>>
           /\ [l \in DOMAIN input.labels |-> FlattenSeq(input.labels[l])]
                \in [1 .. Len(input.labels) -> Seq(RowType)]
           /\ DOMAIN input.labels = 1 .. Len(input.labels) /\ Len(input.labels) \in Nat
<1>1. PICK s : s = input.labels
  OBVIOUS
<1>2. s \in Seq(Seq(Seq(RowType)))
      /\ \A l \in DOMAIN s : \A f \in DOMAIN s[l] : s[l][f] # <<>>
  BY <1>1, InputsAssumption
<1>3. PICK n : n = Len(s)
  OBVIOUS
<1>4. n \in Nat /\ DOMAIN s = 1 .. n /\ \A l \in 1 .. n : s[l] \in Seq(Seq(RowType))
  BY <1>2, <1>3
<1>5. \A l \in 1 .. n : FlattenSeq(s[l]) \in Seq(RowType)
  BY <1>4, FlatParts
<1>6. \A l \in 1 .. n : \A f \in 1 .. Len(s[l]) : s[l][f] # <<>>
  <2> TAKE l \in 1 .. n
  <2>1. DOMAIN s[l] = 1 .. Len(s[l])
    BY <1>4
  <2> QED
    BY <1>2, <1>4, <2>1
<1>7. PICK v : v = [l \in DOMAIN s |-> FlattenSeq(s[l])]
  OBVIOUS
<1>8. v \in [1 .. n -> Seq(RowType)]
  BY <1>4, <1>5, <1>7
<1>9. v \in Seq(Seq(RowType))
  BY <1>4, <1>8
<1>10. FlattenSeq(v) \in Seq(RowType)
  BY <1>9, FlatParts
<1> QED
  BY <1>1, <1>2, <1>3, <1>4, <1>5, <1>6, <1>7, <1>8, <1>10 DEF Rows, RowsOf

\* At the start no row was read.
LEMMA InitLabels == ASSUME Init PROVE LabelInv
<1>1. WindowInv
  BY InitWindows
<1>2. input \in Inputs /\ asked = <<>>
  BY DEF Init
<1>3. PICK labels : labels = [l \in DOMAIN input.labels |-> NewCSVLabels(input.labels[l])]
  OBVIOUS
<1>4. engine.packets = 0 /\ engine.labels = labels
  <2>1. PICK selector \in Selectors(input.key, input.bidirectional, input.allowZero) :
          engine = [packets |-> 0, selector |-> selector, window |-> NoWindow,
                    labels |-> [l \in DOMAIN input.labels |-> NewCSVLabels(input.labels[l])]]
    BY DEF Init
  <2> QED
    BY <1>3, <2>1
<1>5. PICK n : n = Len(input.labels)
  OBVIOUS
<1>6. /\ n \in Nat /\ DOMAIN input.labels = 1 .. n /\ Rows \in Seq(RowType)
      /\ \A l \in 1 .. n : /\ labels[l] = NewCSVLabels(input.labels[l])
                           /\ input.labels[l] \in Seq(Seq(RowType))
                           /\ FlattenSeq(input.labels[l]) \in Seq(RowType)
                           /\ \A f \in 1 .. Len(input.labels[l]) : input.labels[l][f] # <<>>
  BY <1>2, <1>3, <1>5, LabelTypes
<1>7. \A l \in 1 .. n : /\ GoodSource(labels[l]) /\ labels[l].nextPos = 0
                        /\ labels[l] \in LabelState
                        /\ RestOf(labels[l]) = FlattenSeq(input.labels[l])
  <2> TAKE l \in 1 .. n
  <2>1. PICK files : files = input.labels[l]
    OBVIOUS
  <2>2. labels[l] = [files |-> files, rows |-> <<>>, nextPos |-> 0, nextData |-> None]
    BY <1>6, <2>1 DEF NewCSVLabels
  <2>3. /\ files \in Seq(Seq(RowType)) /\ FlattenSeq(files) \in Seq(RowType)
        /\ \A f \in 1 .. Len(files) : files[f] # <<>>
    BY <1>6, <2>1
  <2>4. labels[l] \in LabelState
    BY <2>2, <2>3 DEF LabelState
  <2>5. RestOf(labels[l]) = FlattenSeq(files)
    <3>1. <<>> \o FlattenSeq(files) = FlattenSeq(files)
      BY <2>3, ConcatLaws
    <3> QED
      BY <2>2, <3>1 DEF RestOf
  <2> QED
    BY <2>1, <2>2, <2>3, <2>4, <2>5 DEF GoodSource
<1>8. labels \in Seq(LabelState) /\ Len(labels) = n
  <2>1. labels \in [1 .. n -> LabelState]
    <3>1. DOMAIN labels = 1 .. n /\ labels = [l \in 1 .. n |-> labels[l]]
      BY <1>3, <1>6
    <3> QED
      BY <1>7, <3>1
  <2> QED
    BY <1>6, <2>1
<1>9. GoodLabels(labels)
  BY <1>7, <1>8 DEF GoodLabels
<1>10. Unread(labels) = Rows
  <2>1. PICK u : u = RestsOf(labels)
    OBVIOUS
  <2>2. PICK v : v = [l \in DOMAIN input.labels |-> FlattenSeq(input.labels[l])]
    OBVIOUS
  <2>3. u = [l \in 1 .. n |-> RestOf(labels[l])]
    BY <1>8, <2>1 DEF RestsOf
  <2>4. u = v
    BY <1>6, <1>7, <2>2, <2>3
  <2> QED
    BY <2>1, <2>2, <2>4 DEF Unread, Rows, RowsOf
<1>11. LabelsAt(Rows, labels, 0, 0, 0)
  <2>1. ReadTo(Rows, labels, 0)
    <3>1. PICK rows : rows = Rows
      OBVIOUS
    <3>2. rows \in Seq(RowType)
      BY <1>6, <3>1
    <3>3. SubSeq(rows, 0 + 1, Len(rows)) = rows /\ 0 \in 0 .. Len(rows)
      BY <3>2
    <3> QED
      BY <1>9, <1>10, <3>1, <3>3 DEF ReadTo
  <2>2. Ahead(Rows, labels, 0, 0)
    <3>1. labels # <<>> => n # 0
      BY <1>8, SeqFacts
    <3>2. labels # <<>> => 1 \in 1 .. n
      BY <1>6, <3>1
    <3>3. labels # <<>> => labels[1].nextPos = 0
      BY <1>7, <3>2
    <3> QED
      BY <3>3 DEF Ahead
  <2>3. Len(Rows) \in Nat /\ \A r \in 1 .. Len(Rows) : Rows[r].pos \in Nat
    <3>1. Len(Rows) \in Nat /\ \A r \in 1 .. Len(Rows) : Rows[r] \in RowType
      BY <1>6, SeqFacts
    <3> QED
      BY <3>1 DEF RowType
  <2>4. AllRead(Rows, 0, 0)
    BY <2>3 DEF AllRead
  <2>5. Rising(Rows) => UpToDate(Rows, labels, 0, 0)
    <3> SUFFICES ASSUME Rising(Rows) PROVE UpToDate(Rows, labels, 0, 0)
      OBVIOUS
    <3>1. \A r \in 0 + 1 .. Len(Rows) : Rows[r].pos > 0
      BY <2>3 DEF Rising, Numbered
    <3> QED
      BY <3>1 DEF UpToDate
  <2> QED
    BY <2>1, <2>2, <2>4, <2>5 DEF LabelsAt
<1>12. Len(asked) = 0
  BY <1>2
<1> QED
  BY <1>1, <1>4, <1>11, <1>12 DEF LabelInv

\* Accept is the step that asks for labels.
LEMMA AcceptLabels ==
    ASSUME LabelInv, Accept, WindowInv'
    PROVE  LabelInv'
<1>1. PICK nr : nr = engine.packets + reader.skipped + reader.filtered + 1
  OBVIOUS
<1>2. PICK g : g = GetLabel(engine.labels, nr)
  OBVIOUS
<1>3. PICK used : used = (FiltersMatch(input.filters, Packet) /\ Packet.decodes)
  OBVIOUS
<1>4. PICK key : key = Key(engine.selector, input.duration, engine.window, Packet)
  OBVIOUS
<1>5. PICK e : e = [packet |-> Packet, nr |-> nr, label |-> g.label, ok |-> key.ok,
                    key |-> key.key, forward |-> key.forward, window |-> key.window.id]
  OBVIOUS
<1>6. /\ UNCHANGED input
      /\ engine' = IF used THEN [engine EXCEPT !.packets = nr, !.labels = g.labels,
                                               !.window = key.window]
                   ELSE [engine EXCEPT !.packets = nr]
      /\ asked' = IF used THEN Append(asked, e) ELSE asked
  BY <1>1, <1>2, <1>3, <1>4, <1>5 DEF Accept
<1>7. /\ engine = [packets |-> engine.packets, selector |-> engine.selector,
                   window |-> engine.window, labels |-> engine.labels]
      /\ \E T : asked \in Seq(T)
  BY DEF LabelInv, WindowInv, WindowTyped, TimesTyped
<1>8. reader.skipped \in Nat /\ reader.filtered \in Nat /\ input \in Inputs
  BY DEF LabelInv, WindowInv, PacketInv, PlaceInv, InputTyped, ReaderType
<1>9. PICK count : count = Len(asked)
  OBVIOUS
<1>10. PICK packets : packets = engine.packets
  OBVIOUS
<1>11. packets \in Nat /\ count \in Nat /\ count <= packets /\ nr \in Nat /\ nr > packets
  <2>1. packets \in Nat /\ count <= packets
    BY <1>9, <1>10 DEF LabelInv
  <2>2. count \in Nat
    BY <1>7, <1>9, SeqFacts
  <2> QED
    BY <1>1, <1>8, <1>10, <2>1, <2>2
<1>12. PICK n : LabelsAt(Rows, engine.labels, n, packets, count)
  BY <1>9, <1>10 DEF LabelInv
<1>13. Rows \in Seq(RowType) /\ Rows' = Rows
  BY <1>6, <1>8, LabelTypes DEF Rows
<1>14. CASE used
  <2>1. engine'.packets = nr /\ engine'.labels = g.labels
    BY <1>6, <1>7, <1>14
  <2>2. /\ Len(asked') = count + 1 /\ asked'[count + 1] = e
        /\ \A i \in 1 .. count : asked'[i] = asked[i]
    <3>1. PICK T : asked \in Seq(T)
      BY <1>7
    <3>2. asked' = Append(asked, e)
      BY <1>6, <1>14
    <3> QED
      BY <1>9, <3>1, <3>2, AppendIs
  <2>3. (\E m : LabelsAt(Rows, g.labels, m, nr, count + 1)) /\ LabelFits(Rows, g.label, nr, count)
    BY <1>2, <1>11, <1>12, <1>13, LabelNext
  <2>4. \A i \in 1 .. count + 1 : LabelFits(Rows, asked'[i].label, asked'[i].nr, i - 1)
    <3> TAKE i \in 1 .. count + 1
    <3>1. CASE i = count + 1
      <4>1. asked'[i].label = g.label /\ asked'[i].nr = nr /\ i - 1 = count
        BY <1>5, <1>11, <2>2, <3>1
      <4> QED
        BY <2>3, <4>1
    <3>2. CASE i # count + 1
      <4>1. i \in 1 .. count
        BY <1>11, <3>2
      <4> QED
        BY <1>9, <2>2, <4>1 DEF LabelInv
    <3> QED
      BY <3>1, <3>2
  <2>5. count + 1 <= nr
    BY <1>11
  <2> QED
    BY <1>11, <1>13, <2>1, <2>2, <2>3, <2>4, <2>5 DEF LabelInv
<1>15. CASE ~used
  <2>1. engine'.packets = nr /\ engine'.labels = engine.labels /\ asked' = asked
    BY <1>6, <1>7, <1>15
  <2>2. LabelsAt(Rows, engine.labels, n, nr, count)
    <3>1. Ahead(Rows, engine.labels, n, nr)
      <4>1. Ahead(Rows, engine.labels, n, packets) /\ GoodLabels(engine.labels)
        BY <1>12 DEF LabelsAt, ReadTo
      <4>2. engine.labels # <<>> => engine.labels[1].nextPos \in Nat
        <5>1. engine.labels # <<>> => 1 \in 1 .. Len(engine.labels)
          <6>1. Len(engine.labels) \in Nat /\ (engine.labels = <<>> <=> Len(engine.labels) = 0)
            BY <4>1, SeqFacts DEF GoodLabels
          <6> QED
            BY <6>1
        <5> QED
          BY <4>1, <5>1 DEF GoodLabels, GoodSource, LabelState
      <4> QED
        BY <1>11, <4>1, <4>2 DEF Ahead
    <3>2. nr # count
      BY <1>11
    <3> QED
      BY <1>12, <3>1, <3>2 DEF LabelsAt
  <2>3. count <= nr
    BY <1>11
  <2> QED
    BY <1>9, <1>11, <1>13, <2>1, <2>2, <2>3 DEF LabelInv
<1> QED
  BY <1>14, <1>15

\* No other step does.
LEMMA LabelStep == ASSUME LabelInv, [Next]_vars PROVE LabelInv'
<1>1. WindowInv'
  BY WindowStep DEF LabelInv
<1>2. CASE Accept
  BY <1>1, <1>2, AcceptLabels
<1>3. CASE ~Accept
  <2>1. UNCHANGED <<input, engine, asked>>
    BY <1>3 DEF Next, vars, Read, ReadData, ReadStopped, NextFile, Filtered, SourceEnds,
                StopSource, NextSource, Stop, StopPicks, StopStores
  <2>2. Rows' = Rows
    BY <2>1 DEF Rows
  <2> QED
    BY <1>1, <2>1, <2>2 DEF LabelInv
<1> QED
  BY <1>2, <1>3

LEMMA AskedRange ==
    ASSUME LabelInv
    PROVE  /\ DOMAIN asked = 1 .. Len(asked) /\ Len(asked) \in Nat
           /\ DOMAIN Rows = 1 .. Len(Rows) /\ Len(Rows) \in Nat /\ input \in Inputs
<1>1. \E T : asked \in Seq(T)
  BY DEF LabelInv, WindowInv, TimesTyped
<1>2. input \in Inputs
  BY DEF LabelInv, WindowInv, PacketInv, PlaceInv, InputTyped
<1>3. Rows \in Seq(RowType)
  BY <1>2, LabelTypes
<1> QED
  BY <1>1, <1>2, <1>3

\* For all sources, filters and files of labels, whatever the positions in them and however
\* many packets are filtered on the way: a packet never gets the label of another packet
\* (csvLabels.GetLabel keeps the row that it has read ahead).
THEOREM LabelsAreOwn == Spec => []OwnLabels
<1>1. Init => LabelInv
  BY InitLabels
<1>2. LabelInv /\ [Next]_vars => LabelInv'
  BY LabelStep
<1>3. LabelInv => OwnLabels
  <2> SUFFICES ASSUME LabelInv, NEW i \in DOMAIN asked,
                      \A r \in DOMAIN Rows : Rows[r].pos # 0, asked[i].label # None
               PROVE  \E r \in DOMAIN Rows : Rows[r].pos = asked[i].nr
                                             /\ Rows[r].label = asked[i].label
    BY DEF OwnLabels
  <2>1. i \in 1 .. Len(asked) /\ DOMAIN Rows = 1 .. Len(Rows)
    BY AskedRange
  <2>2. LabelFits(Rows, asked[i].label, asked[i].nr, i - 1)
    BY <2>1 DEF LabelInv
  <2> QED
    BY <2>1, <2>2 DEF LabelFits, Numbered
<1> QED
  BY <1>1, <1>2, <1>3, PTL DEF Spec

\* The files of a run have rows without positions, or the rows are in the order of the
\* packets, across files and label sources.
Orderly(files) == Unnumbered(RowsOf(files)) \/ Rising(RowsOf(files))

\* The property for packet i.
Fits(rows, i) ==
    LET own(nr) == {rows[r].label : r \in {x \in DOMAIN rows : rows[x].pos = nr}}
        byPosition == \A r \in DOMAIN rows : rows[r].pos # 0
    IN  /\ byPosition /\ asked[i].label # None => asked[i].label \in own(asked[i].nr)
        /\ byPosition /\ asked[i].nr = i /\ own(i) # {} => asked[i].label # None
        /\ ~byPosition /\ i <= Len(rows) => asked[i].label = rows[i].label

\* What the invariant says of orderly files.
LEMMA LabelsFit ==
    ASSUME LabelInv, Orderly(input.labels)
    PROVE  LabelsMatch
<1>1. PICK rows : rows = Rows
  OBVIOUS
<1>2. PICK z : z = Len(rows)
  OBVIOUS
<1>3. /\ DOMAIN asked = 1 .. Len(asked) /\ Len(asked) \in Nat
      /\ DOMAIN rows = 1 .. z /\ z \in Nat
  BY <1>1, <1>2, AskedRange
<1>4. Unnumbered(rows) \/ Rising(rows)
  BY <1>1 DEF Orderly, Rows
<1>5. ASSUME NEW i \in 1 .. Len(asked) PROVE Fits(rows, i)
  <2>1. PICK byPosition : byPosition = (\A r \in DOMAIN rows : rows[r].pos # 0)
    OBVIOUS
  <2>2. PICK label, nr : label = asked[i].label /\ nr = asked[i].nr
    OBVIOUS
  <2>3. LabelFits(rows, label, nr, i - 1)
    BY <1>1, <2>2 DEF LabelInv
  <2>4. (i - 1) + 1 = i
    BY <1>3
  <2>5. byPosition => Numbered(rows)
    BY <1>2, <1>3, <2>1 DEF Numbered
  <2>6. ASSUME byPosition, label # None
        PROVE  label \in {rows[r].label : r \in {x \in DOMAIN rows : rows[x].pos = nr}}
    <3>1. PICK r \in 1 .. z : rows[r].pos = nr /\ rows[r].label = label
      BY <1>2, <2>3, <2>5, <2>6 DEF LabelFits
    <3> QED
      BY <1>3, <3>1
  <2>7. ASSUME byPosition, nr = i,
               {rows[r].label : r \in {x \in DOMAIN rows : rows[x].pos = i}} # {}
        PROVE  label # None
    <3>1. PICK r \in 1 .. z : rows[r].pos = i
      BY <1>3, <2>7
    <3>2. Rising(rows)
      BY <1>2, <1>3, <1>4, <3>1 DEF Unnumbered
    <3> QED
      BY <1>2, <2>3, <2>4, <2>7, <3>1, <3>2 DEF LabelFits
  <2>8. ASSUME ~byPosition, i <= Len(rows) PROVE label = rows[i].label
    <3>1. Unnumbered(rows)
      BY <1>2, <1>3, <1>4, <2>1, <2>8 DEF Rising, Numbered
    <3> QED
      BY <2>3, <2>4, <2>8, <3>1 DEF LabelFits
  <2> QED
    BY <2>1, <2>2, <2>6, <2>7, <2>8 DEF Fits
<1>6. \A i \in DOMAIN asked : Fits(Rows, i)
  BY <1>1, <1>3, <1>5
<1> QED
  BY <1>6 DEF LabelsMatch, Fits, Rows, RowsOf

\* Where the rows of the files are in the order of the packets, or have no positions, each
\* packet gets the label a file has for it as long as every packet asks for one: whatever
\* the files, the label sources and the filters (csvLabels.GetLabel, Labels.GetLabel).
THEOREM LabelsAreFound ==
    ASSUME \A in \in Inputs : Orderly(in.labels)
    PROVE  Spec => []LabelsMatch
<1>1. Init => LabelInv
  BY InitLabels
<1>2. LabelInv /\ [Next]_vars => LabelInv'
  BY LabelStep
<1>3. LabelInv => LabelsMatch
  <2> SUFFICES ASSUME LabelInv PROVE LabelsMatch
    OBVIOUS
  <2>1. Orderly(input.labels)
    BY AskedRange
  <2> QED
    BY <2>1, LabelsFit
<1> QED
  BY <1>1, <1>2, <1>3, PTL DEF Spec

--------------------------------------------------------------------------------
(* What a selector is made of.                                               *)

\* A key is an end of a pair of keys for one field, or in no pair.
KindOf(id) ==
    \/ /\ KeyRegistry[id].type \in {"source", "destination"} /\ KeyRegistry[id].pair # 0
       /\ KeyRegistry[id].field \in {"ip", "ports", "mac"}
    \/ /\ KeyRegistry[id].type = "unidirectional" /\ KeyRegistry[id].pair = 0
       /\ KeyRegistry[id].field \in {"proto", "ether", "vlan", "window"}

LEMMA RegistryKinds == \A id \in DOMAIN KeyRegistry : KindOf(id)
<1> DEFINE Kind(k) ==
              \/ /\ k.type \in {"source", "destination"} /\ k.pair # 0
                 /\ k.field \in {"ip", "ports", "mac"}
              \/ /\ k.type = "unidirectional" /\ k.pair = 0
                 /\ k.field \in {"proto", "ether", "vlan", "window"}
<1>1. PICK T : T = {NetworkKeys[1], NetworkKeys[2], NetworkKeys[3], TransportKeys[1],
                    TransportKeys[2], LinkKeys[1], LinkKeys[2], LinkKeys[3], LinkKeys[4],
                    TimeKeys[1]}
  OBVIOUS
<1>2. NetworkKeys \in Seq(T) /\ TransportKeys \in Seq(T) /\ LinkKeys \in Seq(T) /\ TimeKeys \in Seq(T)
  BY <1>1 DEF NetworkKeys, TransportKeys, LinkKeys, TimeKeys
<1>3. \A k \in T : Kind(k)
  <2>1. Kind(NetworkKeys[1]) /\ Kind(NetworkKeys[2]) /\ Kind(NetworkKeys[3])
    BY DEF NetworkKeys, Source, Destination, Unidirectional, EndKey
  <2>2. Kind(TransportKeys[1]) /\ Kind(TransportKeys[2]) /\ Kind(TimeKeys[1])
    BY DEF TransportKeys, TimeKeys, Source, Destination, Unidirectional, EndKey
  <2>3. Kind(LinkKeys[1]) /\ Kind(LinkKeys[2]) /\ Kind(LinkKeys[3]) /\ Kind(LinkKeys[4])
    BY DEF LinkKeys, Source, Destination, Unidirectional, EndKey
  <2> HIDE DEF Kind
  <2> QED
    BY <1>1, <2>1, <2>2, <2>3
<1>4. KeyRegistry \in Seq(T)
  <2>1. NetworkKeys \o TransportKeys \in Seq(T)
    BY <1>2, ConcatIs
  <2>2. NetworkKeys \o TransportKeys \o LinkKeys \in Seq(T)
    BY <1>2, <2>1, ConcatIs
  <2> QED
    BY <1>2, <2>2, ConcatIs DEF KeyRegistry
<1>5. \A id \in DOMAIN KeyRegistry : KeyRegistry[id] \in T
  BY <1>4
<1> HIDE DEF Kind
<1>6. \A id \in DOMAIN KeyRegistry : Kind(KeyRegistry[id])
  BY <1>3, <1>5
<1> QED
  BY <1>6 DEF Kind, KindOf

\* The other end of a source is one destination, for the same field.
LEMMA PartnerIs ==
    ASSUME NEW id \in DOMAIN KeyRegistry, KeyRegistry[id].type = "source",
           NEW d \in Partner(id)
    PROVE  /\ d \in DOMAIN KeyRegistry /\ KeyRegistry[d].type = "destination"
           /\ KeyRegistry[d].field = KeyRegistry[id].field
           /\ \A e \in Partner(id) : e = d
<1>1. \A e \in Partner(id) : /\ e \in DOMAIN KeyRegistry /\ e # id /\ KeyRegistry[id].pair # 0
                             /\ KeyRegistry[e].pair = KeyRegistry[id].pair
                             /\ KeyRegistry[e].pair # 0
  BY DEF Partner
<1>2. \A a, b \in DOMAIN KeyRegistry :
        a # b /\ KeyRegistry[a].pair # 0 /\ KeyRegistry[a].pair = KeyRegistry[b].pair =>
            /\ {KeyRegistry[a].type, KeyRegistry[b].type} = {"source", "destination"}
            /\ KeyRegistry[a].field = KeyRegistry[b].field
  BY RegistryAssumption
<1>3. \A e \in Partner(id) : /\ e \in DOMAIN KeyRegistry /\ KeyRegistry[e].type = "destination"
                             /\ KeyRegistry[e].field = KeyRegistry[id].field
  <2> TAKE e \in Partner(id)
  <2>1. {KeyRegistry[id].type, KeyRegistry[e].type} = {"source", "destination"}
        /\ KeyRegistry[id].field = KeyRegistry[e].field
    BY <1>1, <1>2
  <2> QED
    BY <1>1, <2>1
<1>4. ASSUME NEW e \in Partner(id), e # d PROVE FALSE
  <2>1. {KeyRegistry[e].type, KeyRegistry[d].type} = {"source", "destination"}
    BY <1>1, <1>2, <1>4
  <2> QED
    BY <1>3, <2>1
<1> QED
  BY <1>3, <1>4

\* A key that a selector can be made for.
GoodKey(key) == key \in Seq(STRING) /\ MakeSucceeds(key)

LEMMA KeyIdsAre ==
    ASSUME NEW key, GoodKey(key)
    PROVE  /\ KeyIds(key) \in SUBSET DOMAIN KeyRegistry /\ IsFiniteSet(PairedSources(key))
           /\ PairedSources(key) \subseteq KeyIds(key)
           /\ \A id \in PairedSources(key) :
                /\ id \in DOMAIN KeyRegistry /\ KeyRegistry[id].type = "source"
                /\ Partner(id) \subseteq KeyIds(key) /\ Partner(id) # {}
                /\ id \in Paired(key) /\ Partner(id) \subseteq Paired(key)
           /\ \A id \in Paired(key) :
                id \in PairedSources(key) \/ \E s \in PairedSources(key) : id \in Partner(s)
<1>1. KeyIds(key) \in SUBSET DOMAIN KeyRegistry
  <2>1. \A i \in DOMAIN key : KeyOf(key[i]) \in DOMAIN KeyRegistry
    BY DEF GoodKey, MakeSucceeds, KeyOf
  <2> QED
    BY <2>1 DEF KeyIds
<1>2. PairedSources(key) \subseteq KeyIds(key)
  BY DEF PairedSources
<1>3. IsFiniteSet(PairedSources(key))
  <2>1. IsFiniteSet(DOMAIN KeyRegistry)
    BY WindowIsRegistered, FS_Interval
  <2>2. PairedSources(key) \in SUBSET DOMAIN KeyRegistry
    BY <1>1, <1>2
  <2> QED
    BY <2>1, <2>2, FS_Subset
<1>4. ASSUME NEW id \in PairedSources(key)
      PROVE  /\ id \in DOMAIN KeyRegistry /\ KeyRegistry[id].type = "source"
             /\ Partner(id) \subseteq KeyIds(key) /\ Partner(id) # {}
             /\ id \in Paired(key) /\ Partner(id) \subseteq Paired(key)
  <2>1. id \in DOMAIN KeyRegistry /\ KeyRegistry[id].type = "source"
        /\ Partner(id) \cap KeyIds(key) # {}
    BY <1>1, <1>2 DEF PairedSources
  <2>2. PICK d \in Partner(id) : d \in KeyIds(key)
    BY <2>1
  <2>3. \A e \in Partner(id) : e = d
    BY <2>1, PartnerIs
  <2>4. id \in Paired(key) /\ Partner(id) \subseteq Paired(key)
    BY DEF Paired
  <2> QED
    BY <2>1, <2>2, <2>3, <2>4
<1>5. \A id \in Paired(key) :
        id \in PairedSources(key) \/ \E s \in PairedSources(key) : id \in Partner(s)
  BY DEF Paired
<1> QED
  BY <1>1, <1>2, <1>3, <1>4, <1>5

\* The sources of a selector, the ids it pairs up, and its destinations and other keys.
SourcesOf(key, bi) == IF bi THEN PairedSources(key) ELSE {}
DoneOf(key, bi) == IF bi THEN Paired(key) ELSE {}
SelectorFor(selector, key, bi) ==
    /\ selector.source \in Seq(SourcesOf(key, bi))
    /\ \A id \in SourcesOf(key, bi) : \E i \in 1 .. Len(selector.source) : selector.source[i] = id
    /\ selector.destination \in Seq(KeyIds(key)) /\ Len(selector.destination) = Len(selector.source)
    /\ \A i \in 1 .. Len(selector.source) : selector.destination[i] \in Partner(selector.source[i])
    /\ selector.uni \in Seq(KeyIds(key) \ DoneOf(key, bi))
    /\ \A id \in KeyIds(key) \ DoneOf(key, bi) :
            \E i \in 1 .. Len(selector.uni) : selector.uni[i] = id

LEMMA SelectorIs ==
    ASSUME NEW key, GoodKey(key), NEW bi \in BOOLEAN, NEW zero,
           NEW selector \in Selectors(key, bi, zero)
    PROVE  SelectorFor(selector, key, bi)
<1>1. PICK S : S = SourcesOf(key, bi)
  OBVIOUS
<1>2. PICK done : done = DoneOf(key, bi)
  OBVIOUS
<1>3. PICK ids : ids = [i \in DOMAIN key |-> KeyOf(key[i])]
  OBVIOUS
<1>4. PICK K : K = DOMAIN KeyRegistry \ done
  OBVIOUS
<1>5. PICK src \in Orders(S) :
        /\ selector.source = src /\ selector.uni = Only(ids, K)
        /\ selector.destination = [i \in DOMAIN src |-> CHOOSE d \in Partner(src[i]) : TRUE]
  <2>1. S = (IF bi THEN PairedSources(key) ELSE {}) /\ done = IF bi THEN Paired(key) ELSE {}
    BY <1>1, <1>2 DEF SourcesOf, DoneOf
  <2>2. PICK src \in Orders(S) :
            selector = [source |-> src,
                        destination |-> [i \in DOMAIN src |-> CHOOSE d \in Partner(src[i]) : TRUE],
                        uni |-> Only(ids, K), noZero |-> ~zero, bidirectional |-> bi,
                        fivetuple |-> bi /\ FiveTupleKeys \subseteq KeyIds(key)]
    BY <1>3, <1>4, <2>1 DEF Selectors
  <2>3. PICK g : g = [i \in DOMAIN src |-> CHOOSE d \in Partner(src[i]) : TRUE]
    OBVIOUS
  <2>4. PICK u : u = Only(ids, K)
    OBVIOUS
  <2>5. selector.source = src /\ selector.uni = u /\ selector.destination = g
    BY <2>2, <2>3, <2>4
  <2> QED
    BY <2>3, <2>4, <2>5
<1>6. /\ S \subseteq PairedSources(key) /\ IsFiniteSet(S) /\ Cardinality(S) \in Nat
      /\ KeyIds(key) \subseteq DOMAIN KeyRegistry
  <2>1. S \subseteq PairedSources(key)
    BY <1>1 DEF SourcesOf
  <2> QED
    BY <2>1, KeyIdsAre, FS_Subset, FS_CardinalityType
<1>7. PICK n : n = Cardinality(S)
  OBVIOUS
<1>8. src \in [1 .. n -> S] /\ Cardinality(Range(src)) = n /\ src \in Seq(S) /\ Len(src) = n
  BY <1>5, <1>6, <1>7 DEF Orders
<1>9. \A id \in S : \E i \in 1 .. n : src[i] = id
  <2>1. Range(src) = {src[i] : i \in 1 .. n}
    BY <1>8 DEF Range
  <2>2. Range(src) \in SUBSET S
    BY <1>8, <2>1
  <2>3. S = Range(src)
    BY <1>6, <1>7, <1>8, <2>2, FS_Subset
  <2> QED
    BY <2>1, <2>3
<1>10. PICK dst : dst = [i \in DOMAIN src |-> CHOOSE d \in Partner(src[i]) : TRUE]
  OBVIOUS
<1>11. \A i \in 1 .. n : dst[i] \in Partner(src[i]) /\ dst[i] \in KeyIds(key)
  <2> TAKE i \in 1 .. n
  <2>1. src[i] \in PairedSources(key)
    BY <1>6, <1>8
  <2>2. Partner(src[i]) # {} /\ Partner(src[i]) \subseteq KeyIds(key)
    BY <2>1, KeyIdsAre
  <2>3. dst[i] = CHOOSE d \in Partner(src[i]) : TRUE
    BY <1>8, <1>10
  <2>4. dst[i] \in Partner(src[i])
    BY <2>2, <2>3, Zenon
  <2> QED
    BY <2>2, <2>4
<1>12. dst \in Seq(KeyIds(key)) /\ Len(dst) = n
  <2>1. DOMAIN dst = 1 .. n /\ dst = [i \in 1 .. n |-> dst[i]]
    BY <1>8, <1>10
  <2>2. dst \in [1 .. n -> KeyIds(key)]
    BY <1>11, <2>1
  <2> QED
    BY <1>6, <1>7, <2>2
<1>13. /\ Only(ids, K) \in Seq(KeyIds(key) \ done)
       /\ \A id \in KeyIds(key) \ done : \E i \in 1 .. Len(Only(ids, K)) : Only(ids, K)[i] = id
  <2>1. DOMAIN key = 1 .. Len(key) /\ Len(key) \in Nat
    BY DEF GoodKey
  <2>2. \A i \in 1 .. Len(key) : ids[i] = KeyOf(key[i]) /\ ids[i] \in KeyIds(key)
    BY <1>3, <2>1 DEF KeyIds
  <2>3. ids \in Seq(KeyIds(key)) /\ Len(ids) = Len(key)
    <3>1. ids \in [1 .. Len(key) -> KeyIds(key)]
      BY <1>3, <2>1, <2>2
    <3> QED
      BY <2>1, <3>1
  <2>4. PICK u : u = Only(ids, K)
    OBVIOUS
  <2>5. u \in Seq(KeyIds(key)) /\ \E m : Picks(ids, K, u, Len(ids), m)
    BY <2>3, <2>4, OnlyPicks
  <2>6. PICK m : Picks(ids, K, u, Len(ids), m)
    BY <2>5
  <2>7. \A i \in 1 .. Len(u) : u[i] \in KeyIds(key) \ done
    <3> TAKE i \in 1 .. Len(u)
    <3>1. u[i] \in K
      BY <2>6 DEF Picks
    <3>2. u[i] \in KeyIds(key)
      BY <2>5
    <3> QED
      BY <1>4, <3>1, <3>2
  <2>8. u \in Seq(KeyIds(key) \ done)
    <3>1. u \in [1 .. Len(u) -> KeyIds(key) \ done] /\ Len(u) \in Nat
      BY <2>5, <2>7
    <3> QED
      BY <3>1
  <2>9. ASSUME NEW id \in KeyIds(key) \ done PROVE \E i \in 1 .. Len(u) : u[i] = id
    <3>1. PICK k \in 1 .. Len(ids) : ids[k] = id
      BY <2>1, <2>2, <2>3 DEF KeyIds
    <3>2. id \in K
      BY <1>4, <1>6
    <3>3. PICK i \in 1 .. Len(u) : m[i] = k
      BY <2>6, <3>1, <3>2 DEF Picks
    <3> QED
      BY <2>6, <3>1, <3>3 DEF Picks
  <2> QED
    BY <2>4, <2>8, <2>9
<1> QED
  BY <1>1, <1>2, <1>5, <1>8, <1>9, <1>10, <1>11, <1>12, <1>13 DEF SelectorFor

--------------------------------------------------------------------------------
(* What one sequence tells of its parts.                                     *)

\* x begins with s, and what is left of it is t.
Halves(x, s, t) ==
    /\ Len(s) \in Nat /\ Len(t) \in Nat /\ Len(x) = Len(s) + Len(t)
    /\ \A i \in 1 .. Len(s) : x[i] = s[i]
    /\ \A i \in 1 .. Len(t) : x[Len(s) + i] = t[i]

LEMMA ConcatParts ==
    ASSUME NEW T, NEW s \in Seq(T), NEW t \in Seq(T)
    PROVE  Halves(s \o t, s, t)
BY DEF Halves

\* Two sequences are the same if they are as long and have the same elements.
LEMMA SameSeq ==
    ASSUME NEW T, NEW s \in Seq(T), NEW t \in Seq(T), Len(s) = Len(t),
           \A i \in 1 .. Len(s) : s[i] = t[i]
    PROVE  s = t
OBVIOUS

\* Where the first parts are as long, the parts are the same.
LEMMA ConcatSplits ==
    ASSUME NEW T, NEW a \in Seq(T), NEW b \in Seq(T), NEW c \in Seq(T), NEW d \in Seq(T),
           Len(a) = Len(c), a \o b = c \o d
    PROVE  a = c /\ b = d
<1>1. PICK x : x = a \o b
  OBVIOUS
<1>2. Halves(x, a, b) /\ Halves(x, c, d)
  BY <1>1, ConcatParts
<1>3. PICK m : m = Len(a)
  OBVIOUS
<1>4. /\ m \in Nat /\ Len(c) = m /\ Len(x) = m + Len(b) /\ Len(b) \in Nat
      /\ \A i \in 1 .. m : x[i] = a[i]
      /\ \A i \in 1 .. Len(b) : x[m + i] = b[i]
  BY <1>2, <1>3 DEF Halves
<1>5. /\ Len(x) = m + Len(d) /\ Len(d) \in Nat
      /\ \A i \in 1 .. m : x[i] = c[i]
      /\ \A i \in 1 .. Len(d) : x[m + i] = d[i]
  BY <1>2, <1>4 DEF Halves
<1>6. a = c
  <2>1. \A i \in 1 .. Len(a) : a[i] = c[i]
    BY <1>3, <1>4, <1>5
  <2> QED
    BY <1>3, <1>4, <2>1, SameSeq
<1>7. b = d
  <2>1. Len(b) = Len(d)
    BY <1>4, <1>5
  <2>2. \A i \in 1 .. Len(b) : b[i] = d[i]
    BY <1>4, <1>5, <2>1
  <2> QED
    BY <2>1, <2>2, SameSeq
<1> QED
  BY <1>6, <1>7

\* Sequences of sequences of the same lengths.
SameLengths(u, v) == Len(u) = Len(v) /\ \A i \in 1 .. Len(u) : Len(u[i]) = Len(v[i])
Told(u, v) == FlattenSeq(u) = FlattenSeq(v) => u = v

\* They are the same if they make the same sequence, and this has the same length in any case.
LEMMA FlatTells ==
    ASSUME NEW T, NEW u \in Seq(Seq(T)), NEW v \in Seq(Seq(T)), SameLengths(u, v)
    PROVE  Len(FlattenSeq(u)) = Len(FlattenSeq(v)) /\ Told(u, v)
<1> DEFINE Good(x, y) == Len(FlattenSeq(x)) = Len(FlattenSeq(y)) /\ Told(x, y)
<1>1. PICK S : S = {n \in Nat : \A x, y \in Seq(Seq(T)) :
                        SameLengths(x, y) /\ Len(x) = n => Good(x, y)}
  OBVIOUS
<1>2. 0 \in S
  <2>1. \A x, y \in Seq(Seq(T)) : Len(x) = 0 /\ SameLengths(x, y) => x = <<>> /\ y = <<>>
    BY SeqFacts DEF SameLengths
  <2> QED
    BY <1>1, <2>1 DEF Told
<1>3. ASSUME NEW n \in S PROVE n + 1 \in S
  <2>1. n \in Nat /\ \A x, y \in Seq(Seq(T)) : SameLengths(x, y) /\ Len(x) = n => Good(x, y)
    BY <1>1
  <2>2. ASSUME NEW x \in Seq(Seq(T)), NEW y \in Seq(Seq(T)), SameLengths(x, y), Len(x) = n + 1
        PROVE  Good(x, y)
    <3>1. x # <<>> /\ y # <<>> /\ Len(y) = n + 1
      <4>1. Len(x) # 0 /\ Len(y) # 0 /\ Len(y) = n + 1
        BY <2>1, <2>2 DEF SameLengths
      <4> QED
        BY <4>1, SeqFacts
    <3>2. PICK s, t : s = Tail(x) /\ t = Tail(y)
      OBVIOUS
    <3>3. /\ s \in Seq(Seq(T)) /\ t \in Seq(Seq(T)) /\ Len(s) = n /\ Len(t) = n
          /\ \A i \in 1 .. n : s[i] = x[i + 1] /\ t[i] = y[i + 1]
      <4>1. Len(x) - 1 = n /\ Len(y) - 1 = n
        BY <2>1, <2>2, <3>1
      <4> QED
        BY <3>1, <3>2, <4>1, SeqFacts
    <3>4. SameLengths(s, t) /\ Len(x[1]) = Len(y[1])
      <4>1. \A i \in 1 .. n : i + 1 \in 1 .. n + 1
        BY <2>1
      <4>2. 1 \in 1 .. n + 1
        BY <2>1
      <4> QED
        BY <2>2, <3>3, <4>1, <4>2 DEF SameLengths
    <3>5. Good(s, t)
      BY <2>1, <3>3, <3>4
    <3>6. PICK fs, ft : fs = FlattenSeq(s) /\ ft = FlattenSeq(t)
      OBVIOUS
    <3>7. /\ x[1] \in Seq(T) /\ y[1] \in Seq(T) /\ fs \in Seq(T) /\ ft \in Seq(T)
          /\ FlattenSeq(x) = x[1] \o fs /\ FlattenSeq(y) = y[1] \o ft
      BY <3>1, <3>2, <3>6, FlatHead
    <3>8. Len(FlattenSeq(x)) = Len(FlattenSeq(y))
      <4>1. Len(fs) = Len(ft)
        BY <3>5, <3>6
      <4> QED
        BY <3>4, <3>7, <4>1
    <3>9. ASSUME FlattenSeq(x) = FlattenSeq(y) PROVE x = y
      <4>1. x[1] = y[1] /\ fs = ft
        <5>1. x[1] \o fs = y[1] \o ft /\ Len(x[1]) = Len(y[1])
          BY <3>4, <3>7, <3>9
        <5> QED
          BY <3>7, <5>1, ConcatSplits
      <4>2. s = t
        BY <3>5, <3>6, <4>1 DEF Told
      <4>3. \A i \in 1 .. n + 1 : x[i] = y[i]
        <5> TAKE i \in 1 .. n + 1
        <5>1. CASE i = 1
          BY <4>1, <5>1
        <5>2. CASE i # 1
          <6>1. i - 1 \in 1 .. n /\ (i - 1) + 1 = i
            BY <2>1, <5>2
          <6> QED
            BY <3>3, <4>2, <6>1
        <5> QED
          BY <5>1, <5>2
      <4> QED
        BY <2>2, <3>1, <4>3
    <3> QED
      BY <3>8, <3>9 DEF Told
  <2> HIDE DEF Good
  <2>3. n + 1 \in Nat
    BY <2>1
  <2> QED
    BY <1>1, <2>2, <2>3
<1> HIDE DEF Good
<1>4. S = Nat
  <2>1. S \in SUBSET Nat
    BY <1>1
  <2> QED
    BY <1>2, <1>3, <2>1, SetInduction
<1>5. Len(u) \in S
  BY <1>4, SeqFacts
<1>6. Good(u, v)
  BY <1>1, <1>5
<1> QED
  BY <1>6 DEF Good

--------------------------------------------------------------------------------
(* What the functions of a selector write.                                   *)

\* The part of a packet that a key names at one of its ends.
EndPart(id, p, end) ==
    IF KeyRegistry[id].field = "ports" /\ p.icmp # <<>> THEN <<>> ELSE p[KeyRegistry[id].field][end]

\* A key function writes sequences, and the same ones in any window unless it is the window's.
WindowFree(id) == KeyRegistry[id].field # "window"
PartOf(k) == k.sort \in Seq(Nat) /\ k.plain \in Seq(Nat)

LEMMA FieldsTyped ==
    ASSUME NEW p \in PacketType
    PROVE  /\ \A f \in {"ip", "ports", "mac"} : \A e \in {"src", "dst"} : p[f][e] \in Seq(Nat)
           /\ \A f \in {"proto", "ether", "vlan"} : p[f] \in Seq(Nat)
           /\ p.icmp \in Seq(Nat)
BY DEF PacketType, EndsType

LEMMA KeyFuncParts ==
    ASSUME NEW id \in DOMAIN KeyRegistry, NEW p \in PacketType, NEW w \in Nat
    PROVE  /\ PartOf(KeyFunc(id, p, w))
           /\ WindowFree(id) => KeyFunc(id, p, w) = KeyFunc(id, p, 0)
           /\ ~WindowFree(id) => KeyFunc(id, p, w) = Sorted(<<w>>)
<1>1. PICK field : field = KeyRegistry[id].field
  OBVIOUS
<1>2. field \in {"ip", "ports", "mac", "proto", "ether", "vlan", "window"}
  BY <1>1, RegistryKinds DEF KindOf
<1>3. PICK end : end = End(id)
  OBVIOUS
<1>4. end \in {"src", "dst"}
  BY <1>3 DEF End
<1>5. \A v : v \in Seq(Nat) => PartOf(Sorted(v)) /\ PartOf(Unsorted(v))
  <2>1. <<>> \in Seq(Nat)
    OBVIOUS
  <2> QED
    BY <2>1 DEF PartOf, Sorted, Unsorted
<1>6. CASE field = "ip"
  <2>1. \A x : KeyFunc(id, p, x) = Sorted(p.ip[end])
    BY <1>1, <1>3, <1>6 DEF KeyFunc, AddressKey
  <2>2. p.ip[end] \in Seq(Nat)
    BY <1>4, FieldsTyped
  <2> QED
    BY <1>1, <1>5, <1>6, <2>1, <2>2 DEF WindowFree
<1>7. CASE field = "mac"
  <2>1. \A x : KeyFunc(id, p, x) = Sorted(p.mac[end])
    BY <1>1, <1>3, <1>7 DEF KeyFunc, MacAddressKey
  <2>2. p.mac[end] \in Seq(Nat)
    BY <1>4, FieldsTyped
  <2> QED
    BY <1>1, <1>5, <1>7, <2>1, <2>2 DEF WindowFree
<1>8. CASE field = "ports"
  <2>1. \A x : KeyFunc(id, p, x) = IF p.icmp = <<>> THEN Sorted(p.ports[end])
                                   ELSE Unsorted(ICMPFlow(p)[end])
    BY <1>1, <1>3, <1>8 DEF KeyFunc, TransportPortKey
  <2>2. p.ports[end] \in Seq(Nat) /\ p.icmp \in Seq(Nat)
    BY <1>4, FieldsTyped
  <2>3. ICMPFlow(p)[end] \in Seq(Nat)
    <3>1. NoPort \in Seq(Nat)
      BY DEF NoPort
    <3> QED
      BY <1>4, <2>2, <3>1 DEF ICMPFlow
  <2> QED
    BY <1>1, <1>5, <1>8, <2>1, <2>2, <2>3 DEF WindowFree
<1>9. CASE field = "window"
  <2>1. KeyFunc(id, p, w) = Sorted(<<w>>)
    BY <1>1, <1>9 DEF KeyFunc
  <2>2. <<w>> \in Seq(Nat)
    OBVIOUS
  <2> QED
    BY <1>1, <1>5, <1>9, <2>1, <2>2 DEF WindowFree
<1>10. CASE field \in {"proto", "ether", "vlan"}
  <2>1. \A x : KeyFunc(id, p, x) = Sorted(p[field])
    BY <1>1, <1>10 DEF KeyFunc
  <2>2. p[field] \in Seq(Nat)
    BY <1>10, FieldsTyped
  <2> QED
    BY <1>1, <1>5, <1>10, <2>1, <2>2 DEF WindowFree
<1> QED
  BY <1>2, <1>6, <1>7, <1>8, <1>9, <1>10

\* What the function of an end writes to be ordered is the part of the packet at this end.
LEMMA EndFunc ==
    ASSUME NEW id \in DOMAIN KeyRegistry, KeyRegistry[id].type \in {"source", "destination"},
           NEW p \in PacketType, NEW w
    PROVE  KeyFunc(id, p, w).sort = EndPart(id, p, End(id))
<1>1. PICK field : field = KeyRegistry[id].field
  OBVIOUS
<1>2. field \in {"ip", "ports", "mac"}
  BY <1>1, RegistryKinds DEF KindOf
<1>3. CASE field = "ip"
  BY <1>1, <1>3 DEF KeyFunc, AddressKey, EndPart, Sorted
<1>4. CASE field = "mac"
  BY <1>1, <1>4 DEF KeyFunc, MacAddressKey, EndPart, Sorted
<1>5. CASE field = "ports"
  BY <1>1, <1>5 DEF KeyFunc, TransportPortKey, EndPart, Sorted, Unsorted
<1> QED
  BY <1>2, <1>3, <1>4, <1>5

\* The ends of a pair.
LEMMA PairFuncs ==
    ASSUME NEW id \in DOMAIN KeyRegistry, KeyRegistry[id].type = "source", NEW d \in Partner(id),
           NEW p \in PacketType, NEW w
    PROVE  /\ KeyFunc(id, p, w).sort = EndPart(id, p, "src")
           /\ KeyFunc(d, p, w).sort = EndPart(id, p, "dst")
           /\ EndPart(id, p, "src") \in Seq(Nat) /\ EndPart(id, p, "dst") \in Seq(Nat)
<1>1. /\ d \in DOMAIN KeyRegistry /\ KeyRegistry[d].type = "destination"
      /\ KeyRegistry[d].field = KeyRegistry[id].field
  BY PartnerIs
<1>2. End(id) = "src" /\ End(d) = "dst"
  BY <1>1 DEF End
<1>3. KeyFunc(id, p, w).sort = EndPart(id, p, "src")
  BY <1>2, EndFunc
<1>4. KeyFunc(d, p, w).sort = EndPart(d, p, "dst")
  BY <1>1, <1>2, EndFunc
<1>5. EndPart(d, p, "dst") = EndPart(id, p, "dst")
  BY <1>1 DEF EndPart
<1>6. EndPart(id, p, "src") \in Seq(Nat) /\ EndPart(id, p, "dst") \in Seq(Nat)
  <2>1. KeyRegistry[id].field \in {"ip", "ports", "mac"} /\ <<>> \in Seq(Nat)
    BY RegistryKinds DEF KindOf
  <2> QED
    BY <2>1, FieldsTyped DEF EndPart
<1> QED
  BY <1>3, <1>4, <1>5, <1>6

--------------------------------------------------------------------------------
(* The bytes of a key.                                                       *)

SortParts(ids, p, w) == [i \in DOMAIN ids |-> KeyFunc(ids[i], p, w).sort]
PlainParts(ids, p, w) == [i \in DOMAIN ids |-> KeyFunc(ids[i], p, w).plain]
TwoParts(ids, p, w) ==
    [i \in DOMAIN ids |-> KeyFunc(ids[i], p, w).plain \o KeyFunc(ids[i], p, w).sort]
EndParts(ids, p, end) == [i \in DOMAIN ids |-> EndPart(ids[i], p, end)]

\* The key of a packet: its ends, smaller one first, and the rest.
BytesOfEnds(sel, p) ==
    InOrder(FlattenSeq(EndParts(sel.source, p, "src")), FlattenSeq(EndParts(sel.source, p, "dst")))
BytesOfRest(sel, p, w) ==
    FlattenSeq(PlainParts(sel.source \o sel.destination, p, w)) \o FlattenSeq(TwoParts(sel.uni, p, w))
BytesOf(sel, p, w) == BytesOfEnds(sel, p)[1] \o BytesOfRest(sel, p, w)

LEMMA PartsTyped ==
    ASSUME NEW ids \in Seq(DOMAIN KeyRegistry), NEW p \in PacketType, NEW w \in Nat
    PROVE  /\ Len(ids) \in Nat
           /\ PlainParts(ids, p, w) \in Seq(Seq(Nat)) /\ Len(PlainParts(ids, p, w)) = Len(ids)
           /\ TwoParts(ids, p, w) \in Seq(Seq(Nat)) /\ Len(TwoParts(ids, p, w)) = Len(ids)
           /\ \A i \in 1 .. Len(ids) :
                /\ ids[i] \in DOMAIN KeyRegistry
                /\ PlainParts(ids, p, w)[i] = KeyFunc(ids[i], p, w).plain
                /\ TwoParts(ids, p, w)[i]
                     = KeyFunc(ids[i], p, w).plain \o KeyFunc(ids[i], p, w).sort
<1>1. PICK n : n = Len(ids)
  OBVIOUS
<1>2. n \in Nat /\ DOMAIN ids = 1 .. n /\ \A i \in 1 .. n : ids[i] \in DOMAIN KeyRegistry
  BY <1>1
<1>3. PICK k : k = [i \in 1 .. n |-> KeyFunc(ids[i], p, w)]
  OBVIOUS
<1>4. \A i \in 1 .. n : k[i].plain \in Seq(Nat) /\ k[i].sort \in Seq(Nat)
                        /\ k[i] = KeyFunc(ids[i], p, w)
  BY <1>2, <1>3, KeyFuncParts DEF PartOf
<1>5. \A i \in 1 .. n : k[i].plain \o k[i].sort \in Seq(Nat)
  BY <1>4, ConcatIs
<1>6. PICK u : u = PlainParts(ids, p, w)
  OBVIOUS
<1>7. u = [i \in 1 .. n |-> k[i].plain]
  BY <1>2, <1>4, <1>6 DEF PlainParts
<1>8. u \in [1 .. n -> Seq(Nat)]
  BY <1>4, <1>7
<1>9. PICK v : v = TwoParts(ids, p, w)
  OBVIOUS
<1>10. v = [i \in 1 .. n |-> k[i].plain \o k[i].sort]
  BY <1>2, <1>4, <1>9 DEF TwoParts
<1>11. v \in [1 .. n -> Seq(Nat)]
  BY <1>5, <1>10
<1>12. u \in Seq(Seq(Nat)) /\ Len(u) = n /\ v \in Seq(Seq(Nat)) /\ Len(v) = n
  BY <1>2, <1>8, <1>11
<1>13. \A i \in 1 .. n : u[i] = KeyFunc(ids[i], p, w).plain
                         /\ v[i] = KeyFunc(ids[i], p, w).plain \o KeyFunc(ids[i], p, w).sort
  BY <1>4, <1>7, <1>10
<1> QED
  BY <1>1, <1>2, <1>6, <1>9, <1>12, <1>13

\* What a selector calls.
IsPair(a, d, key) ==
    /\ a \in PairedSources(key) /\ a \in DOMAIN KeyRegistry /\ KeyRegistry[a].type = "source"
    /\ d \in Partner(a)
Covers(s, S) == \A id \in S : \E i \in 1 .. Len(s) : s[i] = id

LEMMA SelectorTyped ==
    ASSUME NEW key, GoodKey(key), NEW bi \in BOOLEAN, NEW sel, SelectorFor(sel, key, bi)
    PROVE  /\ sel.source \in Seq(DOMAIN KeyRegistry) /\ sel.destination \in Seq(DOMAIN KeyRegistry)
           /\ sel.uni \in Seq(DOMAIN KeyRegistry)
           /\ sel.source \o sel.destination \in Seq(DOMAIN KeyRegistry)
           /\ \A i \in 1 .. Len(sel.source) : IsPair(sel.source[i], sel.destination[i], key)
           /\ \A i \in 1 .. Len(sel.source \o sel.destination) :
                (sel.source \o sel.destination)[i] \in KeyIds(key)
           /\ Covers(sel.source \o sel.destination, DoneOf(key, bi))
<1>1. PICK s, d, u : s = sel.source /\ d = sel.destination /\ u = sel.uni
  OBVIOUS
<1>2. PICK K : K = KeyIds(key)
  OBVIOUS
<1>3. PICK S : S = SourcesOf(key, bi)
  OBVIOUS
<1>4. /\ s \in Seq(S) /\ Len(d) = Len(s) /\ d \in Seq(K)
      /\ \A id \in S : \E i \in 1 .. Len(s) : s[i] = id
      /\ \A i \in 1 .. Len(s) : d[i] \in Partner(s[i])
      /\ u \in Seq(K \ DoneOf(key, bi))
  BY <1>1, <1>2, <1>3 DEF SelectorFor
<1>5. S \subseteq PairedSources(key) /\ PairedSources(key) \subseteq K /\ K \subseteq DOMAIN KeyRegistry
  <2>1. S \subseteq PairedSources(key)
    BY <1>3 DEF SourcesOf
  <2> QED
    BY <1>2, <2>1, KeyIdsAre
<1>6. s \in Seq(K) /\ u \in Seq(K)
  BY <1>4, <1>5
<1>7. PICK D : D = DOMAIN KeyRegistry
  OBVIOUS
<1>8. s \in Seq(D) /\ d \in Seq(D) /\ u \in Seq(D)
  BY <1>4, <1>5, <1>6, <1>7
<1>9. PICK x : x = s \o d
  OBVIOUS
<1>10. Halves(x, s, d) /\ x \in Seq(K) /\ x \in Seq(D)
  BY <1>4, <1>6, <1>8, <1>9, ConcatParts, ConcatIs
<1>11. \A i \in 1 .. Len(x) : x[i] \in K
  BY <1>10
<1>12. \A i \in 1 .. Len(s) : IsPair(s[i], d[i], key)
  <2> TAKE i \in 1 .. Len(s)
  <2>1. s[i] \in PairedSources(key)
    BY <1>4, <1>5
  <2> QED
    BY <1>4, <2>1, KeyIdsAre DEF IsPair
<1>13. ASSUME NEW id \in DoneOf(key, bi) PROVE \E i \in 1 .. Len(x) : x[i] = id
  <2>1. Len(s) \in Nat /\ Len(d) = Len(s) /\ Len(x) = Len(s) + Len(s)
        /\ \A i \in 1 .. Len(s) : x[i] = s[i] /\ x[Len(s) + i] = d[i]
    BY <1>4, <1>10 DEF Halves
  <2>2. bi /\ id \in Paired(key) /\ S = PairedSources(key)
    BY <1>3, <1>13 DEF DoneOf, SourcesOf
  <2>3. CASE id \in S
    <3>1. PICK i \in 1 .. Len(s) : s[i] = id
      BY <1>4, <2>3
    <3>2. i \in 1 .. Len(x) /\ x[i] = id
      BY <2>1, <3>1
    <3> QED
      BY <3>2
  <2>4. CASE id \notin S
    <3>1. PICK a \in S : id \in Partner(a)
      BY <2>2, <2>4, KeyIdsAre
    <3>2. PICK i \in 1 .. Len(s) : s[i] = a
      BY <1>4, <3>1
    <3>3. d[i] \in Partner(a)
      BY <1>4, <3>2
    <3>4. d[i] = id
      <4>1. a \in DOMAIN KeyRegistry /\ KeyRegistry[a].type = "source"
        BY <2>2, <3>1, KeyIdsAre
      <4>2. \A e \in Partner(a) : e = id
        BY <3>1, <4>1, PartnerIs
      <4> QED
        BY <3>3, <4>2
    <3>5. Len(s) + i \in 1 .. Len(x) /\ x[Len(s) + i] = id
      BY <2>1, <3>2, <3>4
    <3> QED
      BY <3>5
  <2> QED
    BY <2>3, <2>4
<1>14. Covers(x, DoneOf(key, bi))
  BY <1>13 DEF Covers
<1> QED
  BY <1>1, <1>2, <1>4, <1>7, <1>8, <1>9, <1>10, <1>11, <1>12, <1>14

\* The parts at the ends of a packet, as the selector writes them.
LEMMA EndPartsTyped ==
    ASSUME NEW key, GoodKey(key), NEW bi \in BOOLEAN, NEW sel, SelectorFor(sel, key, bi),
           NEW p \in PacketType, NEW end \in {"src", "dst"}
    PROVE  /\ Len(sel.source) \in Nat
           /\ EndParts(sel.source, p, end) \in Seq(Seq(Nat))
           /\ Len(EndParts(sel.source, p, end)) = Len(sel.source)
           /\ \A i \in 1 .. Len(sel.source) :
                EndParts(sel.source, p, end)[i] = EndPart(sel.source[i], p, end)
<1>1. PICK s, n : s = sel.source /\ n = Len(s)
  OBVIOUS
<1>2. n \in Nat /\ DOMAIN s = 1 .. n
  <2>1. s \in Seq(DOMAIN KeyRegistry)
    BY <1>1, SelectorTyped
  <2> QED
    BY <1>1, <2>1
<1>3. \A i \in 1 .. n : EndPart(s[i], p, end) \in Seq(Nat)
  <2> TAKE i \in 1 .. n
  <2>1. s[i] \in DOMAIN KeyRegistry /\ KeyRegistry[s[i]].type = "source"
        /\ sel.destination[i] \in Partner(s[i])
    <3>1. \A j \in 1 .. Len(sel.source) : IsPair(sel.source[j], sel.destination[j], key)
      BY SelectorTyped
    <3> QED
      BY <1>1, <3>1 DEF IsPair
  <2> QED
    BY <2>1, PairFuncs
<1>4. PICK u : u = EndParts(s, p, end)
  OBVIOUS
<1>5. u = [i \in 1 .. n |-> EndPart(s[i], p, end)]
  BY <1>2, <1>4 DEF EndParts
<1>6. u \in [1 .. n -> Seq(Nat)]
  BY <1>3, <1>5
<1>7. u \in Seq(Seq(Nat)) /\ Len(u) = n /\ \A i \in 1 .. n : u[i] = EndPart(s[i], p, end)
  BY <1>2, <1>5, <1>6
<1> QED
  BY <1>1, <1>2, <1>4, <1>7

\* A packet with a key has these bytes and this direction.
LEMMA KeyIs ==
    ASSUME NEW key, GoodKey(key), NEW bi \in BOOLEAN, NEW sel, SelectorFor(sel, key, bi),
           NEW p \in PacketType, NEW duration, NEW window,
           Key(sel, duration, window, p).ok
    PROVE  LET k == Key(sel, duration, window, p)
           IN  /\ k.key = BytesOf(sel, p, k.window.id)
               /\ k.forward = BytesOfEnds(sel, p)[2]
<1>1. PICK next : next = WindowAfter(sel, duration, window, p)
  OBVIOUS
<1>2. PICK w : w = next.id
  OBVIOUS
<1>3. PICK n, S, D : n = Len(sel.source) /\ S = sel.source /\ D = sel.destination
  OBVIOUS
<1>4. /\ DOMAIN sel.source = 1 .. n /\ DOMAIN sel.destination = 1 .. n
      /\ \A i \in 1 .. n : KeyFunc(sel.source[i], p, w).sort = EndPart(sel.source[i], p, "src")
                           /\ KeyFunc(sel.destination[i], p, w).sort = EndPart(sel.source[i], p, "dst")
  <2>1. DOMAIN sel.source = 1 .. n /\ DOMAIN sel.destination = 1 .. n
    <3>1. sel.source \in Seq(DOMAIN KeyRegistry) /\ sel.destination \in Seq(DOMAIN KeyRegistry)
      BY SelectorTyped
    <3>2. Len(sel.destination) = Len(sel.source)
      BY DEF SelectorFor
    <3> QED
      BY <1>3, <3>1, <3>2
  <2>2. ASSUME NEW i \in 1 .. n
        PROVE  /\ KeyFunc(sel.source[i], p, w).sort = EndPart(sel.source[i], p, "src")
               /\ KeyFunc(sel.destination[i], p, w).sort = EndPart(sel.source[i], p, "dst")
    <3>1. /\ sel.source[i] \in DOMAIN KeyRegistry /\ KeyRegistry[sel.source[i]].type = "source"
          /\ sel.destination[i] \in Partner(sel.source[i])
      <4>1. i \in 1 .. Len(sel.source)
        BY <1>3
      <4>2. IsPair(sel.source[i], sel.destination[i], key)
        BY <4>1, SelectorTyped
      <4> QED
        BY <4>2 DEF IsPair
    <3> QED
      BY <3>1, PairFuncs
  <2> QED
    BY <2>1, <2>2
<1>5. SortPart(sel.source, p, w) = FlattenSeq(EndParts(sel.source, p, "src"))
  <2>1. PICK u : u = [i \in 1 .. n |-> EndPart(S[i], p, "src")]
    OBVIOUS
  <2>2. u = [i \in DOMAIN S |-> KeyFunc(S[i], p, w).sort]
    BY <1>3, <1>4, <2>1
  <2>3. u = EndParts(S, p, "src")
    BY <1>3, <1>4, <2>1 DEF EndParts
  <2> QED
    BY <1>3, <2>2, <2>3 DEF SortPart
<1>6. SortPart(sel.destination, p, w) = FlattenSeq(EndParts(sel.source, p, "dst"))
  <2>1. PICK u : u = [i \in 1 .. n |-> EndPart(S[i], p, "dst")]
    OBVIOUS
  <2>2. u = [i \in DOMAIN D |-> KeyFunc(D[i], p, w).sort]
    BY <1>3, <1>4, <2>1
  <2>3. u = EndParts(S, p, "dst")
    BY <1>3, <1>4, <2>1 DEF EndParts
  <2> QED
    BY <1>3, <2>2, <2>3 DEF SortPart
<1>7. PICK rest : rest = BytesOfRest(sel, p, w)
  OBVIOUS
<1>8. PlainPart(sel.source \o sel.destination, p, w) \o BothParts(sel.uni, p, w) = rest
  BY <1>7 DEF BytesOfRest, PlainPart, BothParts, PlainParts, TwoParts
<1>9. PICK ends : ends = BytesOfEnds(sel, p)
  OBVIOUS
<1>10. InOrder(SortPart(sel.source, p, w), SortPart(sel.destination, p, w)) = ends
  BY <1>5, <1>6, <1>9 DEF BytesOfEnds
<1>11. Missing(sel, p, w) = {}
  BY <1>1, <1>2 DEF Key
<1>12. Key(sel, duration, window, p)
        = [ok |-> TRUE, key |-> ends[1] \o rest, forward |-> ends[2], window |-> next]
  BY <1>1, <1>2, <1>8, <1>10, <1>11 DEF Key
<1>13. PICK bytes, forward : bytes = ends[1] \o rest /\ forward = ends[2]
  OBVIOUS
<1>14. PICK k : k = Key(sel, duration, window, p)
  OBVIOUS
<1>15. k.key = bytes /\ k.forward = forward /\ k.window = next
  BY <1>12, <1>13, <1>14
<1>16. bytes = BytesOf(sel, p, w)
  BY <1>7, <1>9, <1>13 DEF BytesOf
<1> QED
  BY <1>2, <1>9, <1>13, <1>14, <1>15, <1>16

--------------------------------------------------------------------------------
(* One flow.                                                                 *)

\* Two packets agree in what has no end, and in what has, as they are or the other way round.
RestSame(key, done, p, w, q, x) ==
    \A id \in KeyIds(key) :
        /\ KeyFunc(id, p, w).plain = KeyFunc(id, q, x).plain
        /\ id \notin done => KeyFunc(id, p, w).sort = KeyFunc(id, q, x).sort
Straight(key, p, q) ==
    \A id \in PairedSources(key) :
        EndPart(id, p, "src") = EndPart(id, q, "src") /\ EndPart(id, p, "dst") = EndPart(id, q, "dst")
Crossed(key, p, q) ==
    \A id \in PairedSources(key) :
        EndPart(id, p, "src") = EndPart(id, q, "dst") /\ EndPart(id, p, "dst") = EndPart(id, q, "src")

SameEnds(key, p, a, q, b) == \A id \in PairedSources(key) : EndPart(id, p, a) = EndPart(id, q, b)

LEMMA EndsAgree ==
    ASSUME NEW key, NEW p, NEW q, NEW a, NEW b
    PROVE  EndOf(key, p, a) = EndOf(key, q, b)
             <=> \A id \in PairedSources(key) : EndPart(id, p, a) = EndPart(id, q, b)
<1>1. PICK S : S = PairedSources(key)
  OBVIOUS
<1>2. PICK f, g : f = EndOf(key, p, a) /\ g = EndOf(key, q, b)
  OBVIOUS
<1>3. f = [id \in S |-> EndPart(id, p, a)] /\ g = [id \in S |-> EndPart(id, q, b)]
  BY <1>1, <1>2 DEF EndOf, EndPart
<1>4. f = g <=> \A id \in S : EndPart(id, p, a) = EndPart(id, q, b)
  <2>1. f = g => \A id \in S : EndPart(id, p, a) = EndPart(id, q, b)
    BY <1>3
  <2>2. (\A id \in S : EndPart(id, p, a) = EndPart(id, q, b)) => f = g
    BY <1>3
  <2> QED
    BY <2>1, <2>2
<1> QED
  BY <1>1, <1>2, <1>4

LEMMA RestsAgree ==
    ASSUME NEW key, NEW done, NEW p, NEW w, NEW q, NEW x
    PROVE  Rest(key, p, w, done) = Rest(key, q, x, done) <=> RestSame(key, done, p, w, q, x)
<1>1. PICK K : K = KeyIds(key)
  OBVIOUS
<1> DEFINE V(id, r, y) == IF id \in done THEN KeyFunc(id, r, y).plain
                          ELSE <<KeyFunc(id, r, y).plain, KeyFunc(id, r, y).sort>>
<1>2. PICK f, g : f = Rest(key, p, w, done) /\ g = Rest(key, q, x, done)
  OBVIOUS
<1>3. f = [id \in K |-> V(id, p, w)] /\ g = [id \in K |-> V(id, q, x)]
  BY <1>1, <1>2 DEF Rest
<1>4. \A id \in K : V(id, p, w) = V(id, q, x) <=>
            /\ KeyFunc(id, p, w).plain = KeyFunc(id, q, x).plain
            /\ id \notin done => KeyFunc(id, p, w).sort = KeyFunc(id, q, x).sort
  OBVIOUS
<1> HIDE DEF V
<1>5. f = g => \A id \in K : V(id, p, w) = V(id, q, x)
  BY <1>3
<1>6. (\A id \in K : V(id, p, w) = V(id, q, x)) => f = g
  BY <1>3
<1> QED
  BY <1>1, <1>2, <1>4, <1>5, <1>6 DEF RestSame

LEMMA SameFlowIs ==
    ASSUME NEW key, NEW bi \in BOOLEAN, NEW p, NEW w, NEW q, NEW x
    PROVE  SameFlow(key, bi, p, w, q, x)
             <=> /\ RestSame(key, DoneOf(key, bi), p, w, q, x)
                 /\ Straight(key, p, q) \/ (bi /\ Crossed(key, p, q))
<1>1. PICK done : done = DoneOf(key, bi)
  OBVIOUS
<1>2. done = IF bi THEN Paired(key) ELSE {}
  BY <1>1 DEF DoneOf
<1>3. SameFlow(key, bi, p, w, q, x) <=>
        /\ Rest(key, p, w, done) = Rest(key, q, x, done)
        /\ \/ EndOf(key, p, "src") = EndOf(key, q, "src") /\ EndOf(key, p, "dst") = EndOf(key, q, "dst")
           \/ /\ bi
              /\ EndOf(key, p, "src") = EndOf(key, q, "dst")
              /\ EndOf(key, p, "dst") = EndOf(key, q, "src")
  BY <1>2 DEF SameFlow
<1>4. Rest(key, p, w, done) = Rest(key, q, x, done) <=> RestSame(key, done, p, w, q, x)
  BY RestsAgree
<1>5. EndOf(key, p, "src") = EndOf(key, q, "src") /\ EndOf(key, p, "dst") = EndOf(key, q, "dst")
        <=> Straight(key, p, q)
  BY EndsAgree DEF Straight
<1>6. EndOf(key, p, "src") = EndOf(key, q, "dst") /\ EndOf(key, p, "dst") = EndOf(key, q, "src")
        <=> Crossed(key, p, q)
  BY EndsAgree DEF Crossed
<1> QED
  BY <1>1, <1>3, <1>4, <1>5, <1>6

\* What has no end is written the same.
LEMMA RestBytes ==
    ASSUME NEW key, GoodKey(key), NEW bi \in BOOLEAN, NEW sel, SelectorFor(sel, key, bi),
           NEW p \in PacketType, NEW q \in PacketType, NEW w \in Nat, NEW x \in Nat,
           RestSame(key, DoneOf(key, bi), p, w, q, x)
    PROVE  BytesOfRest(sel, p, w) = BytesOfRest(sel, q, x)
<1>1. PICK a, u : a = sel.source \o sel.destination /\ u = sel.uni
  OBVIOUS
<1>2. \A i \in DOMAIN a : a[i] \in KeyIds(key)
  <2>1. a \in Seq(DOMAIN KeyRegistry)
    BY <1>1, SelectorTyped
  <2>2. \A i \in 1 .. Len(a) : a[i] \in KeyIds(key)
    BY <1>1, SelectorTyped
  <2> QED
    BY <2>1, <2>2
<1>3. \A i \in DOMAIN u : u[i] \in KeyIds(key) /\ u[i] \notin DoneOf(key, bi)
  <2>1. u \in Seq(KeyIds(key) \ DoneOf(key, bi))
    BY <1>1 DEF SelectorFor
  <2> QED
    BY <2>1
<1>4. PlainParts(a, p, w) = PlainParts(a, q, x)
  <2>1. \A i \in DOMAIN a : KeyFunc(a[i], p, w).plain = KeyFunc(a[i], q, x).plain
    BY <1>2 DEF RestSame
  <2> QED
    BY <2>1 DEF PlainParts
<1>5. TwoParts(u, p, w) = TwoParts(u, q, x)
  <2>1. \A i \in DOMAIN u : /\ KeyFunc(u[i], p, w).plain = KeyFunc(u[i], q, x).plain
                            /\ KeyFunc(u[i], p, w).sort = KeyFunc(u[i], q, x).sort
    BY <1>3 DEF RestSame
  <2>2. \A i \in DOMAIN u : KeyFunc(u[i], p, w).plain \o KeyFunc(u[i], p, w).sort
                              = KeyFunc(u[i], q, x).plain \o KeyFunc(u[i], q, x).sort
    BY <2>1
  <2> QED
    BY <2>2 DEF TwoParts
<1> QED
  BY <1>1, <1>4, <1>5 DEF BytesOfRest

\* The ends are the same sequences, as they are or the other way round.
LEMMA EndsBytes ==
    ASSUME NEW key, GoodKey(key), NEW bi \in BOOLEAN, NEW sel, SelectorFor(sel, key, bi),
           NEW p \in PacketType, NEW q \in PacketType
    PROVE  /\ Straight(key, p, q) =>
                /\ EndParts(sel.source, p, "src") = EndParts(sel.source, q, "src")
                /\ EndParts(sel.source, p, "dst") = EndParts(sel.source, q, "dst")
           /\ Crossed(key, p, q) =>
                /\ EndParts(sel.source, p, "src") = EndParts(sel.source, q, "dst")
                /\ EndParts(sel.source, p, "dst") = EndParts(sel.source, q, "src")
<1>1. PICK s : s = sel.source
  OBVIOUS
<1>2. \A i \in DOMAIN s : s[i] \in PairedSources(key)
  <2>1. s \in Seq(DOMAIN KeyRegistry)
    BY <1>1, SelectorTyped
  <2>2. \A i \in 1 .. Len(s) : IsPair(s[i], sel.destination[i], key)
    BY <1>1, SelectorTyped
  <2> QED
    BY <2>1, <2>2 DEF IsPair
<1>3. ASSUME Straight(key, p, q)
      PROVE  EndParts(s, p, "src") = EndParts(s, q, "src") /\ EndParts(s, p, "dst") = EndParts(s, q, "dst")
  <2>1. \A i \in DOMAIN s : /\ EndPart(s[i], p, "src") = EndPart(s[i], q, "src")
                            /\ EndPart(s[i], p, "dst") = EndPart(s[i], q, "dst")
    BY <1>2, <1>3 DEF Straight
  <2> QED
    BY <2>1 DEF EndParts
<1>4. ASSUME Crossed(key, p, q)
      PROVE  EndParts(s, p, "src") = EndParts(s, q, "dst") /\ EndParts(s, p, "dst") = EndParts(s, q, "src")
  <2>1. \A i \in DOMAIN s : /\ EndPart(s[i], p, "src") = EndPart(s[i], q, "dst")
                            /\ EndPart(s[i], p, "dst") = EndPart(s[i], q, "src")
    BY <1>2, <1>4 DEF Crossed
  <2> QED
    BY <2>1 DEF EndParts
<1> QED
  BY <1>1, <1>3, <1>4

\* With flows of both directions the selector has every pair of the key.
LEMMA EndsAll ==
    ASSUME NEW key, GoodKey(key), NEW sel, SelectorFor(sel, key, TRUE),
           NEW p \in PacketType, NEW q \in PacketType,
           NEW a \in {"src", "dst"}, NEW b \in {"src", "dst"},
           EndParts(sel.source, p, a) = EndParts(sel.source, q, b)
    PROVE  SameEnds(key, p, a, q, b)
<1> SUFFICES ASSUME NEW id \in PairedSources(key) PROVE EndPart(id, p, a) = EndPart(id, q, b)
  BY DEF SameEnds
<1>1. PICK i \in 1 .. Len(sel.source) : sel.source[i] = id
  BY DEF SelectorFor, SourcesOf
<1>2. PICK bi \in BOOLEAN : bi = TRUE
  OBVIOUS
<1>3. SelectorFor(sel, key, bi)
  BY <1>2
<1>4. EndParts(sel.source, p, a)[i] = EndPart(sel.source[i], p, a)
  BY <1>3, EndPartsTyped
<1>5. EndParts(sel.source, q, b)[i] = EndPart(sel.source[i], q, b)
  BY <1>3, EndPartsTyped
<1> QED
  BY <1>1, <1>4, <1>5

\* The ends of a packet, one after the other.
LEMMA EndsTyped ==
    ASSUME NEW key, GoodKey(key), NEW bi \in BOOLEAN, NEW sel, SelectorFor(sel, key, bi),
           NEW p \in PacketType, NEW end \in {"src", "dst"}
    PROVE  FlattenSeq(EndParts(sel.source, p, end)) \in Seq(Nat)
BY EndPartsTyped, FlatParts

\* Packets of one flow have the same key, whatever the order of the pairs in the selector.
LEMMA FlowHasKey ==
    ASSUME NEW key, GoodKey(key), NEW bi \in BOOLEAN, NEW sel, SelectorFor(sel, key, bi),
           NEW p \in PacketType, NEW q \in PacketType, NEW w \in Nat, NEW x \in Nat,
           SameFlow(key, bi, p, w, q, x)
    PROVE  BytesOf(sel, p, w) = BytesOf(sel, q, x)
<1>1. /\ RestSame(key, DoneOf(key, bi), p, w, q, x)
      /\ Straight(key, p, q) \/ (bi /\ Crossed(key, p, q))
  BY SameFlowIs
<1>2. BytesOfRest(sel, p, w) = BytesOfRest(sel, q, x)
  BY <1>1, RestBytes
<1>3. BytesOfEnds(sel, p)[1] = BytesOfEnds(sel, q)[1]
  <2>1. CASE Straight(key, p, q)
    BY <2>1, EndsBytes DEF BytesOfEnds
  <2>2. CASE Crossed(key, p, q)
    <3>1. PICK s, t : s = FlattenSeq(EndParts(sel.source, p, "src"))
                      /\ t = FlattenSeq(EndParts(sel.source, p, "dst"))
      OBVIOUS
    <3>2. s \in Seq(Nat) /\ t \in Seq(Nat)
      BY <3>1, EndsTyped
    <3>3. t = FlattenSeq(EndParts(sel.source, q, "src")) /\ s = FlattenSeq(EndParts(sel.source, q, "dst"))
      BY <2>2, <3>1, EndsBytes
    <3>4. BytesOfEnds(sel, p) = InOrder(s, t) /\ BytesOfEnds(sel, q) = InOrder(t, s)
      BY <3>1, <3>3 DEF BytesOfEnds
    <3> QED
      BY <3>2, <3>4, SameEndsBothWays
  <2> QED
    BY <1>1, <2>1, <2>2
<1> QED
  BY <1>2, <1>3 DEF BytesOf

\* Where all is the same that has no end, and no pair is made of ends, packets are the same.
LEMMA RestStraight ==
    ASSUME NEW key, GoodKey(key), NEW p \in PacketType, NEW q \in PacketType, NEW w, NEW x,
           RestSame(key, {}, p, w, q, x)
    PROVE  Straight(key, p, q)
<1> SUFFICES ASSUME NEW id \in PairedSources(key)
             PROVE  /\ EndPart(id, p, "src") = EndPart(id, q, "src")
                    /\ EndPart(id, p, "dst") = EndPart(id, q, "dst")
  BY DEF Straight
<1>1. /\ id \in KeyIds(key) /\ id \in DOMAIN KeyRegistry /\ KeyRegistry[id].type = "source"
      /\ Partner(id) \subseteq KeyIds(key) /\ Partner(id) # {}
  BY KeyIdsAre
<1>2. PICK d \in Partner(id) : d \in KeyIds(key)
  BY <1>1
<1>3. KeyFunc(id, p, w).sort = KeyFunc(id, q, x).sort /\ KeyFunc(d, p, w).sort = KeyFunc(d, q, x).sort
  BY <1>1, <1>2 DEF RestSame
<1>4. KeyFunc(id, p, w).sort = EndPart(id, p, "src") /\ KeyFunc(d, p, w).sort = EndPart(id, p, "dst")
  BY <1>1, PairFuncs
<1>5. KeyFunc(id, q, x).sort = EndPart(id, q, "src") /\ KeyFunc(d, q, x).sort = EndPart(id, q, "dst")
  BY <1>1, PairFuncs
<1> QED
  BY <1>3, <1>4, <1>5

\* Conversely the ends are all that is left of a pair.
LEMMA StraightRest ==
    ASSUME NEW key, GoodKey(key), NEW p \in PacketType, NEW q \in PacketType, NEW w, NEW x,
           RestSame(key, Paired(key), p, w, q, x), Straight(key, p, q)
    PROVE  RestSame(key, {}, p, w, q, x)
<1> SUFFICES ASSUME NEW id \in KeyIds(key), id \in Paired(key)
             PROVE  KeyFunc(id, p, w).sort = KeyFunc(id, q, x).sort
  BY DEF RestSame
<1>1. PICK a \in PairedSources(key) : id = a \/ id \in Partner(a)
  BY KeyIdsAre
<1>2. a \in DOMAIN KeyRegistry /\ KeyRegistry[a].type = "source" /\ Partner(a) # {}
  BY KeyIdsAre
<1>3. PICK d \in Partner(a) : id = a \/ id = d
  BY <1>1, <1>2
<1>4. KeyFunc(a, p, w).sort = EndPart(a, p, "src") /\ KeyFunc(d, p, w).sort = EndPart(a, p, "dst")
  BY <1>2, PairFuncs
<1>5. KeyFunc(a, q, x).sort = EndPart(a, q, "src") /\ KeyFunc(d, q, x).sort = EndPart(a, q, "dst")
  BY <1>2, PairFuncs
<1>6. EndPart(a, p, "src") = EndPart(a, q, "src") /\ EndPart(a, p, "dst") = EndPart(a, q, "dst")
  BY DEF Straight
<1> QED
  BY <1>3, <1>4, <1>5, <1>6

\* Packets of one flow are of one direction if their ends are as they are.
LEMMA FlowOneWay ==
    ASSUME NEW key, GoodKey(key), NEW bi \in BOOLEAN, NEW p \in PacketType, NEW q \in PacketType,
           NEW w, NEW x, SameFlow(key, bi, p, w, q, x)
    PROVE  SameFlow(key, FALSE, p, w, q, x) <=> Straight(key, p, q)
<1>1. /\ RestSame(key, DoneOf(key, bi), p, w, q, x)
      /\ Straight(key, p, q) \/ (bi /\ Crossed(key, p, q))
  BY SameFlowIs
<1>2. SameFlow(key, FALSE, p, w, q, x) <=> RestSame(key, {}, p, w, q, x) /\ Straight(key, p, q)
  <2>1. DoneOf(key, FALSE) = {}
    BY DEF DoneOf
  <2> QED
    BY <2>1, SameFlowIs
<1>3. ASSUME Straight(key, p, q) PROVE RestSame(key, {}, p, w, q, x)
  <2>1. CASE bi
    <3>1. RestSame(key, Paired(key), p, w, q, x)
      BY <1>1, <2>1 DEF DoneOf
    <3> QED
      BY <1>3, <3>1, StraightRest
  <2>2. CASE ~bi
    BY <1>1, <2>2 DEF DoneOf
  <2> QED
    BY <2>1, <2>2
<1> QED
  BY <1>2, <1>3

--------------------------------------------------------------------------------
(* What the key of a packet tells of it.                                     *)

\* The ends of the pairs of the key are as long as each other (an uneven link-layer address
\* would show which end was written first).
EvenEnds(key, p) ==
    \A id \in PairedSources(key) : Len(EndPart(id, p, "src")) = Len(EndPart(id, p, "dst"))

Directed(sel, key, p, w, q, x) ==
    BytesOfEnds(sel, p)[2] = BytesOfEnds(sel, q)[2] <=> SameFlow(key, FALSE, p, w, q, x)

\* Packets of one flow go in one direction if and only if their ends are as they are.
LEMMA FlowHasDirection ==
    ASSUME NEW key, GoodKey(key), NEW bi \in BOOLEAN, NEW sel, SelectorFor(sel, key, bi),
           NEW p \in PacketType, NEW q \in PacketType, NEW w, NEW x,
           SameFlow(key, bi, p, w, q, x), bi => EvenEnds(key, p)
    PROVE  Directed(sel, key, p, w, q, x)
<1> USE DEF Directed
<1>1. SameFlow(key, FALSE, p, w, q, x) <=> Straight(key, p, q)
  BY FlowOneWay
<1>2. Straight(key, p, q) \/ (bi /\ Crossed(key, p, q))
  BY SameFlowIs
<1>3. CASE Straight(key, p, q)
  <2>1. BytesOfEnds(sel, p) = BytesOfEnds(sel, q)
    BY <1>3, EndsBytes DEF BytesOfEnds
  <2> QED
    BY <1>1, <1>3, <2>1
<1>4. CASE ~Straight(key, p, q)
  <2>1. Crossed(key, p, q) /\ EvenEnds(key, p) /\ SelectorFor(sel, key, TRUE)
    BY <1>2, <1>4
  <2>2. PICK u, v : u = EndParts(sel.source, p, "src") /\ v = EndParts(sel.source, p, "dst")
    OBVIOUS
  <2>3. PICK s, t : s = FlattenSeq(u) /\ t = FlattenSeq(v)
    OBVIOUS
  <2>4. v = EndParts(sel.source, q, "src") /\ u = EndParts(sel.source, q, "dst")
    BY <2>1, <2>2, EndsBytes
  <2>5. BytesOfEnds(sel, p) = InOrder(s, t) /\ BytesOfEnds(sel, q) = InOrder(t, s)
    BY <2>2, <2>3, <2>4 DEF BytesOfEnds
  <2>6. s \in Seq(Nat) /\ t \in Seq(Nat)
    BY <2>2, <2>3, EndsTyped
  <2>7. u # v
    <3> SUFFICES ASSUME u = v PROVE FALSE
      OBVIOUS
    <3>1. \A id \in PairedSources(key) : EndPart(id, p, "src") = EndPart(id, p, "dst")
      <4>1. SameEnds(key, p, "src", p, "dst")
        BY <2>1, <2>2, EndsAll
      <4> QED
        BY <4>1 DEF SameEnds
    <3>2. Straight(key, p, q)
      BY <2>1, <3>1 DEF Straight, Crossed
    <3> QED
      BY <1>4, <3>2
  <2>8. u \in Seq(Seq(Nat)) /\ v \in Seq(Seq(Nat)) /\ SameLengths(u, v)
    <3>1. PICK n : n = Len(sel.source)
      OBVIOUS
    <3>2. u \in Seq(Seq(Nat)) /\ Len(u) = n /\ \A i \in 1 .. n : u[i] = EndPart(sel.source[i], p, "src")
      BY <2>2, <3>1, EndPartsTyped
    <3>3. v \in Seq(Seq(Nat)) /\ Len(v) = n /\ \A i \in 1 .. n : v[i] = EndPart(sel.source[i], p, "dst")
      BY <2>2, <3>1, EndPartsTyped
    <3>4. \A i \in 1 .. n : sel.source[i] \in PairedSources(key)
      <4>1. \A i \in 1 .. Len(sel.source) : IsPair(sel.source[i], sel.destination[i], key)
        BY SelectorTyped
      <4> QED
        BY <3>1, <4>1 DEF IsPair
    <3>5. \A i \in 1 .. n : Len(u[i]) = Len(v[i])
      BY <2>1, <3>2, <3>3, <3>4 DEF EvenEnds
    <3> QED
      BY <3>2, <3>3, <3>5 DEF SameLengths
  <2>9. s # t
    BY <2>3, <2>7, <2>8, FlatTells DEF Told
  <2>10. BytesOfEnds(sel, p)[2] # BytesOfEnds(sel, q)[2]
    BY <2>5, <2>6, <2>9, SameEndsBothWays
  <2> QED
    BY <1>1, <1>4, <2>10
<1> QED
  BY <1>3, <1>4

\* Two packets whose keys have parts of the same widths.
AsWide(k, l) == Len(k.plain) = Len(l.plain) /\ Len(k.sort) = Len(l.sort)
SameWidths(key, p, w, q, x) == \A id \in KeyIds(key) : AsWide(KeyFunc(id, p, w), KeyFunc(id, q, x))

\* The number of a window is as wide as any other.
LEMMA WindowWidths ==
    ASSUME NEW key, GoodKey(key), NEW p \in PacketType, NEW q \in PacketType,
           NEW w \in Nat, NEW x \in Nat
    PROVE  /\ SameWidths(key, p, w, p, 0)
           /\ SameWidths(key, p, 0, q, 0) => SameWidths(key, p, w, q, x)
<1>1. ASSUME NEW id \in DOMAIN KeyRegistry, NEW r \in PacketType, NEW y \in Nat
      PROVE  AsWide(KeyFunc(id, r, y), KeyFunc(id, r, 0))
  <2>1. CASE WindowFree(id)
    <3>1. KeyFunc(id, r, y) = KeyFunc(id, r, 0)
      BY <2>1, KeyFuncParts
    <3> QED
      BY <3>1 DEF AsWide
  <2>2. CASE ~WindowFree(id)
    <3>1. KeyFunc(id, r, y) = Sorted(<<y>>) /\ KeyFunc(id, r, 0) = Sorted(<<0>>)
      BY <2>2, KeyFuncParts
    <3> QED
      BY <3>1 DEF AsWide, Sorted
  <2> QED
    BY <2>1, <2>2
<1>2. KeyIds(key) \subseteq DOMAIN KeyRegistry
  BY KeyIdsAre
<1>3. ASSUME NEW id \in KeyIds(key), AsWide(KeyFunc(id, p, 0), KeyFunc(id, q, 0))
      PROVE  AsWide(KeyFunc(id, p, w), KeyFunc(id, q, x))
  <2>1. AsWide(KeyFunc(id, p, w), KeyFunc(id, p, 0)) /\ AsWide(KeyFunc(id, q, x), KeyFunc(id, q, 0))
    BY <1>1, <1>2
  <2> QED
    BY <1>3, <2>1 DEF AsWide
<1> QED
  BY <1>1, <1>2, <1>3 DEF SameWidths

\* Parts of the same widths make keys of the same length, and what has no end is told.
LEMMA RestTells ==
    ASSUME NEW key, GoodKey(key), NEW bi \in BOOLEAN, NEW sel, SelectorFor(sel, key, bi),
           NEW p \in PacketType, NEW q \in PacketType, NEW w \in Nat, NEW x \in Nat,
           SameWidths(key, p, w, q, x)
    PROVE  /\ BytesOfRest(sel, p, w) \in Seq(Nat) /\ BytesOfRest(sel, q, x) \in Seq(Nat)
           /\ Len(BytesOfRest(sel, p, w)) = Len(BytesOfRest(sel, q, x))
           /\ BytesOfRest(sel, p, w) = BytesOfRest(sel, q, x) =>
                RestSame(key, DoneOf(key, bi), p, w, q, x)
<1>1. PICK a, u : a = sel.source \o sel.destination /\ u = sel.uni
  OBVIOUS
<1>2. PICK done : done = DoneOf(key, bi)
  OBVIOUS
<1>3. a \in Seq(DOMAIN KeyRegistry) /\ u \in Seq(DOMAIN KeyRegistry)
  BY <1>1, SelectorTyped
<1>4. \A i \in 1 .. Len(a) : a[i] \in KeyIds(key)
  BY <1>1, SelectorTyped
<1>5. \A id \in done : \E i \in 1 .. Len(a) : a[i] = id
  <2>1. Covers(a, done)
    BY <1>1, <1>2, SelectorTyped
  <2> QED
    BY <2>1 DEF Covers
<1>6. /\ \A i \in 1 .. Len(u) : u[i] \in KeyIds(key)
      /\ \A id \in KeyIds(key) \ done : \E i \in 1 .. Len(u) : u[i] = id
  <2>1. u \in Seq(KeyIds(key) \ done)
        /\ \A id \in KeyIds(key) \ done : \E i \in 1 .. Len(u) : u[i] = id
    BY <1>1, <1>2 DEF SelectorFor
  <2> QED
    BY <2>1
<1>7. PICK ap, aq, up, uq : /\ ap = PlainParts(a, p, w) /\ aq = PlainParts(a, q, x)
                            /\ up = TwoParts(u, p, w) /\ uq = TwoParts(u, q, x)
  OBVIOUS
<1>8. /\ ap \in Seq(Seq(Nat)) /\ Len(ap) = Len(a)
      /\ \A i \in 1 .. Len(a) : ap[i] = KeyFunc(a[i], p, w).plain
  BY <1>3, <1>7, PartsTyped
<1>9. /\ aq \in Seq(Seq(Nat)) /\ Len(aq) = Len(a)
      /\ \A i \in 1 .. Len(a) : aq[i] = KeyFunc(a[i], q, x).plain
  BY <1>3, <1>7, PartsTyped
<1>10. /\ up \in Seq(Seq(Nat)) /\ Len(up) = Len(u)
       /\ \A i \in 1 .. Len(u) : up[i] = KeyFunc(u[i], p, w).plain \o KeyFunc(u[i], p, w).sort
  BY <1>3, <1>7, PartsTyped
<1>11. /\ uq \in Seq(Seq(Nat)) /\ Len(uq) = Len(u)
       /\ \A i \in 1 .. Len(u) : uq[i] = KeyFunc(u[i], q, x).plain \o KeyFunc(u[i], q, x).sort
  BY <1>3, <1>7, PartsTyped
<1>12. ASSUME NEW id \in KeyIds(key)
       PROVE  /\ PartOf(KeyFunc(id, p, w)) /\ PartOf(KeyFunc(id, q, x))
              /\ AsWide(KeyFunc(id, p, w), KeyFunc(id, q, x))
  <2>1. id \in DOMAIN KeyRegistry
    BY KeyIdsAre
  <2> QED
    BY <2>1, KeyFuncParts DEF SameWidths
<1>13. SameLengths(ap, aq)
  <2>1. \A i \in 1 .. Len(a) : Len(ap[i]) = Len(aq[i])
    BY <1>4, <1>8, <1>9, <1>12 DEF AsWide
  <2> QED
    BY <1>8, <1>9, <2>1 DEF SameLengths
<1>14. SameLengths(up, uq)
  <2>1. ASSUME NEW i \in 1 .. Len(u) PROVE Len(up[i]) = Len(uq[i])
    <3>1. PICK k, l : k = KeyFunc(u[i], p, w) /\ l = KeyFunc(u[i], q, x)
      OBVIOUS
    <3>2. PartOf(k) /\ PartOf(l) /\ AsWide(k, l)
      BY <1>6, <1>12, <3>1
    <3>3. Len(k.plain \o k.sort) = Len(k.plain) + Len(k.sort)
      BY <3>2, ConcatIs DEF PartOf
    <3>4. Len(l.plain \o l.sort) = Len(l.plain) + Len(l.sort)
      BY <3>2, ConcatIs DEF PartOf
    <3> QED
      BY <1>10, <1>11, <3>1, <3>2, <3>3, <3>4 DEF AsWide
  <2> QED
    BY <1>10, <1>11, <2>1 DEF SameLengths
<1>15. PICK bp, bq, cp, cq : /\ bp = FlattenSeq(ap) /\ bq = FlattenSeq(aq)
                             /\ cp = FlattenSeq(up) /\ cq = FlattenSeq(uq)
  OBVIOUS
<1>16. /\ bp \in Seq(Nat) /\ bq \in Seq(Nat) /\ Len(bp) = Len(bq) /\ (bp = bq => ap = aq)
       /\ cp \in Seq(Nat) /\ cq \in Seq(Nat) /\ Len(cp) = Len(cq) /\ (cp = cq => up = uq)
  <2>1. bp \in Seq(Nat) /\ bq \in Seq(Nat) /\ cp \in Seq(Nat) /\ cq \in Seq(Nat)
    BY <1>8, <1>9, <1>10, <1>11, <1>15, FlatParts
  <2>2. Len(bp) = Len(bq) /\ (bp = bq => ap = aq)
    BY <1>8, <1>9, <1>13, <1>15, FlatTells DEF Told
  <2>3. Len(cp) = Len(cq) /\ (cp = cq => up = uq)
    BY <1>10, <1>11, <1>14, <1>15, FlatTells DEF Told
  <2> QED
    BY <2>1, <2>2, <2>3
<1>17. BytesOfRest(sel, p, w) = bp \o cp /\ BytesOfRest(sel, q, x) = bq \o cq
  BY <1>1, <1>7, <1>15 DEF BytesOfRest
<1>18. /\ bp \o cp \in Seq(Nat) /\ bq \o cq \in Seq(Nat)
       /\ Len(bp \o cp) = Len(bp) + Len(cp) /\ Len(bq \o cq) = Len(bq) + Len(cq)
  BY <1>16, ConcatIs
<1>19. ASSUME bp \o cp = bq \o cq PROVE RestSame(key, done, p, w, q, x)
  <2>1. bp = bq /\ cp = cq
    BY <1>16, <1>19, ConcatSplits
  <2>2. ap = aq /\ up = uq
    BY <1>16, <2>1
  <2>3. ASSUME NEW id \in KeyIds(key), id \in done
        PROVE  KeyFunc(id, p, w).plain = KeyFunc(id, q, x).plain
    <3>1. PICK i \in 1 .. Len(a) : a[i] = id
      BY <1>5, <2>3
    <3> QED
      BY <1>8, <1>9, <2>2, <3>1
  <2>4. ASSUME NEW id \in KeyIds(key), id \notin done
        PROVE  /\ KeyFunc(id, p, w).plain = KeyFunc(id, q, x).plain
               /\ KeyFunc(id, p, w).sort = KeyFunc(id, q, x).sort
    <3>1. PICK i \in 1 .. Len(u) : u[i] = id
      BY <1>6, <2>4
    <3>2. PICK k, l : k = KeyFunc(id, p, w) /\ l = KeyFunc(id, q, x)
      OBVIOUS
    <3>3. PartOf(k) /\ PartOf(l) /\ AsWide(k, l)
      BY <1>12, <3>2
    <3>4. k.plain \o k.sort = l.plain \o l.sort
      BY <1>10, <1>11, <2>2, <3>1, <3>2
    <3>5. k.plain = l.plain /\ k.sort = l.sort
      BY <3>3, <3>4, ConcatSplits DEF PartOf, AsWide
    <3> QED
      BY <3>2, <3>5
  <2> QED
    BY <2>3, <2>4 DEF RestSame
<1> QED
  BY <1>2, <1>16, <1>17, <1>18, <1>19

\* The ends of two packets with parts of the same widths are as wide.
LEMMA EndWidths ==
    ASSUME NEW key, GoodKey(key), NEW bi \in BOOLEAN, NEW sel, SelectorFor(sel, key, bi),
           NEW p \in PacketType, NEW q \in PacketType, NEW w \in Nat, NEW x \in Nat,
           SameWidths(key, p, w, q, x), NEW end \in {"src", "dst"}
    PROVE  SameLengths(EndParts(sel.source, p, end), EndParts(sel.source, q, end))
<1>1. PICK n : n = Len(sel.source)
  OBVIOUS
<1>2. PICK u, v : u = EndParts(sel.source, p, end) /\ v = EndParts(sel.source, q, end)
  OBVIOUS
<1>3. Len(u) = n /\ \A i \in 1 .. n : u[i] = EndPart(sel.source[i], p, end)
  BY <1>1, <1>2, EndPartsTyped
<1>4. Len(v) = n /\ \A i \in 1 .. n : v[i] = EndPart(sel.source[i], q, end)
  BY <1>1, <1>2, EndPartsTyped
<1>5. ASSUME NEW i \in 1 .. n PROVE Len(u[i]) = Len(v[i])
  <2>1. PICK a, d : a = sel.source[i] /\ d = sel.destination[i]
    OBVIOUS
  <2>2. IsPair(a, d, key)
    BY <1>1, <2>1, SelectorTyped
  <2>3. /\ a \in DOMAIN KeyRegistry /\ KeyRegistry[a].type = "source" /\ d \in Partner(a)
        /\ a \in PairedSources(key)
    BY <2>2 DEF IsPair
  <2>4. a \in KeyIds(key) /\ d \in KeyIds(key)
    BY <2>3, KeyIdsAre
  <2>5. /\ Len(KeyFunc(a, p, w).sort) = Len(KeyFunc(a, q, x).sort)
        /\ Len(KeyFunc(d, p, w).sort) = Len(KeyFunc(d, q, x).sort)
    BY <2>4 DEF SameWidths, AsWide
  <2>6. KeyFunc(a, p, w).sort = EndPart(a, p, "src") /\ KeyFunc(d, p, w).sort = EndPart(a, p, "dst")
    BY <2>3, PairFuncs
  <2>7. KeyFunc(a, q, x).sort = EndPart(a, q, "src") /\ KeyFunc(d, q, x).sort = EndPart(a, q, "dst")
    BY <2>3, PairFuncs
  <2> QED
    BY <1>3, <1>4, <2>1, <2>5, <2>6, <2>7
<1> QED
  BY <1>2, <1>3, <1>4, <1>5 DEF SameLengths

\* Both ends of a packet, in one order or the other.
LEMMA EndsOrdered ==
    ASSUME NEW s \in Seq(Nat), NEW t \in Seq(Nat)
    PROVE  /\ InOrder(s, t)[1] = s \o t \/ InOrder(s, t)[1] = t \o s
           /\ InOrder(s, t)[1] \in Seq(Nat) /\ Len(InOrder(s, t)[1]) = Len(s) + Len(t)
<1>1. InOrder(s, t)[1] = s \o t \/ InOrder(s, t)[1] = t \o s
  BY DEF InOrder
<1>2. s \o t \in Seq(Nat) /\ Len(s) \in Nat /\ Len(t) \in Nat /\ Len(s \o t) = Len(s) + Len(t)
  BY ConcatIs
<1>3. t \o s \in Seq(Nat) /\ Len(t \o s) = Len(t) + Len(s)
  BY ConcatIs
<1>4. Len(t) + Len(s) = Len(s) + Len(t)
  BY <1>2
<1> QED
  BY <1>1, <1>2, <1>3, <1>4

\* Keys of parts of the same widths have ends of the same length.
LEMMA EndLengths ==
    ASSUME NEW key, GoodKey(key), NEW bi \in BOOLEAN, NEW sel, SelectorFor(sel, key, bi),
           NEW p \in PacketType, NEW q \in PacketType, NEW w \in Nat, NEW x \in Nat,
           SameWidths(key, p, w, q, x)
    PROVE  /\ BytesOfEnds(sel, p)[1] \in Seq(Nat) /\ BytesOfEnds(sel, q)[1] \in Seq(Nat)
           /\ Len(BytesOfEnds(sel, p)[1]) = Len(BytesOfEnds(sel, q)[1])
<1>1. PICK u, v, y, z : /\ u = EndParts(sel.source, p, "src") /\ v = EndParts(sel.source, p, "dst")
                        /\ y = EndParts(sel.source, q, "src") /\ z = EndParts(sel.source, q, "dst")
  OBVIOUS
<1>2. u \in Seq(Seq(Nat)) /\ v \in Seq(Seq(Nat)) /\ y \in Seq(Seq(Nat)) /\ z \in Seq(Seq(Nat))
  BY <1>1, EndPartsTyped
<1>3. SameLengths(u, y) /\ SameLengths(v, z)
  BY <1>1, EndWidths
<1>4. PICK fu, fv, fy, fz : /\ fu = FlattenSeq(u) /\ fv = FlattenSeq(v)
                            /\ fy = FlattenSeq(y) /\ fz = FlattenSeq(z)
  OBVIOUS
<1>5. fu \in Seq(Nat) /\ fv \in Seq(Nat) /\ fy \in Seq(Nat) /\ fz \in Seq(Nat)
  BY <1>2, <1>4, FlatParts
<1>6. Len(fu) = Len(fy) /\ Len(fv) = Len(fz)
  BY <1>2, <1>3, <1>4, FlatTells
<1>7. BytesOfEnds(sel, p) = InOrder(fu, fv) /\ BytesOfEnds(sel, q) = InOrder(fy, fz)
  BY <1>1, <1>4 DEF BytesOfEnds
<1> QED
  BY <1>5, <1>6, <1>7, EndsOrdered

\* With ends that are as long as each other, the ordered ends tell the ends of the packets.
LEMMA EndsTell ==
    ASSUME NEW key, GoodKey(key), NEW sel, SelectorFor(sel, key, TRUE),
           NEW p \in PacketType, NEW q \in PacketType, NEW w \in Nat, NEW x \in Nat,
           SameWidths(key, p, w, q, x), EvenEnds(key, p), EvenEnds(key, q),
           BytesOfEnds(sel, p)[1] = BytesOfEnds(sel, q)[1]
    PROVE  Straight(key, p, q) \/ Crossed(key, p, q)
<1>1. PICK u, v, y, z : /\ u = EndParts(sel.source, p, "src") /\ v = EndParts(sel.source, p, "dst")
                        /\ y = EndParts(sel.source, q, "src") /\ z = EndParts(sel.source, q, "dst")
  OBVIOUS
<1>2. u \in Seq(Seq(Nat)) /\ v \in Seq(Seq(Nat)) /\ y \in Seq(Seq(Nat)) /\ z \in Seq(Seq(Nat))
  BY <1>1, EndPartsTyped
<1>3. SameLengths(u, y) /\ SameLengths(v, z)
  BY <1>1, EndWidths
<1>4. SameLengths(u, v) /\ SameLengths(y, z)
  <2>0. PICK bi \in BOOLEAN : bi = TRUE
    OBVIOUS
  <2>1. PICK n : n = Len(sel.source) /\ SelectorFor(sel, key, bi)
    BY <2>0
  <2>2. Len(u) = n /\ \A i \in 1 .. n : u[i] = EndPart(sel.source[i], p, "src")
    BY <1>1, <2>1, EndPartsTyped
  <2>3. Len(v) = n /\ \A i \in 1 .. n : v[i] = EndPart(sel.source[i], p, "dst")
    BY <1>1, <2>1, EndPartsTyped
  <2>4. Len(y) = n /\ \A i \in 1 .. n : y[i] = EndPart(sel.source[i], q, "src")
    BY <1>1, <2>1, EndPartsTyped
  <2>5. Len(z) = n /\ \A i \in 1 .. n : z[i] = EndPart(sel.source[i], q, "dst")
    BY <1>1, <2>1, EndPartsTyped
  <2>6. \A i \in 1 .. n : sel.source[i] \in PairedSources(key)
    <3>1. \A i \in 1 .. Len(sel.source) : IsPair(sel.source[i], sel.destination[i], key)
      BY SelectorTyped
    <3> QED
      BY <2>1, <3>1 DEF IsPair
  <2>7. \A i \in 1 .. n : Len(u[i]) = Len(v[i]) /\ Len(y[i]) = Len(z[i])
    BY <2>2, <2>3, <2>4, <2>5, <2>6 DEF EvenEnds
  <2> QED
    BY <2>2, <2>3, <2>4, <2>5, <2>7 DEF SameLengths
<1>5. SameLengths(u, z) /\ SameLengths(v, y)
  BY <1>3, <1>4 DEF SameLengths
<1>6. PICK fu, fv, fy, fz : /\ fu = FlattenSeq(u) /\ fv = FlattenSeq(v)
                            /\ fy = FlattenSeq(y) /\ fz = FlattenSeq(z)
  OBVIOUS
<1>7. fu \in Seq(Nat) /\ fv \in Seq(Nat) /\ fy \in Seq(Nat) /\ fz \in Seq(Nat)
  BY <1>2, <1>6, FlatParts
<1>8. /\ Len(fu) = Len(fy) /\ (fu = fy => u = y)
      /\ Len(fv) = Len(fz) /\ (fv = fz => v = z)
  BY <1>2, <1>3, <1>6, FlatTells DEF Told
<1>9. /\ Len(fu) = Len(fz) /\ (fu = fz => u = z)
      /\ Len(fv) = Len(fy) /\ (fv = fy => v = y)
  BY <1>2, <1>5, <1>6, FlatTells DEF Told
<1>10. BytesOfEnds(sel, p) = InOrder(fu, fv) /\ BytesOfEnds(sel, q) = InOrder(fy, fz)
  BY <1>1, <1>6 DEF BytesOfEnds
<1>11. PICK a, b : a = BytesOfEnds(sel, p)[1] /\ b = BytesOfEnds(sel, q)[1]
  OBVIOUS
<1>12. (a = fu \o fv \/ a = fv \o fu) /\ (b = fy \o fz \/ b = fz \o fy) /\ a = b
  BY <1>7, <1>10, <1>11, EndsOrdered
<1>13. (fu = fy /\ fv = fz) \/ (fu = fz /\ fv = fy)
  <2>1. CASE fu \o fv = fy \o fz
    BY <1>7, <1>8, <2>1, ConcatSplits
  <2>2. CASE fu \o fv = fz \o fy
    BY <1>7, <1>9, <2>2, ConcatSplits
  <2>3. CASE fv \o fu = fy \o fz
    BY <1>7, <1>9, <2>3, ConcatSplits
  <2>4. CASE fv \o fu = fz \o fy
    BY <1>7, <1>8, <2>4, ConcatSplits
  <2> QED
    BY <1>12, <2>1, <2>2, <2>3, <2>4
<1>14. CASE u = y /\ v = z
  <2>1. SameEnds(key, p, "src", q, "src") /\ SameEnds(key, p, "dst", q, "dst")
    BY <1>1, <1>14, EndsAll
  <2> QED
    BY <2>1 DEF SameEnds, Straight
<1>15. CASE u = z /\ v = y
  <2>1. SameEnds(key, p, "src", q, "dst") /\ SameEnds(key, p, "dst", q, "src")
    BY <1>1, <1>15, EndsAll
  <2> QED
    BY <2>1 DEF SameEnds, Crossed
<1> QED
  BY <1>8, <1>9, <1>13, <1>14, <1>15

\* Parts of the same widths: the key has the same length, and it tells the flow.
LEMMA WidthsTell ==
    ASSUME NEW key, GoodKey(key), NEW bi \in BOOLEAN, NEW sel, SelectorFor(sel, key, bi),
           NEW p \in PacketType, NEW q \in PacketType, NEW w \in Nat, NEW x \in Nat,
           SameWidths(key, p, w, q, x)
    PROVE  /\ Len(BytesOf(sel, p, w)) = Len(BytesOf(sel, q, x))
           /\ BytesOf(sel, p, w) = BytesOf(sel, q, x) /\ (bi => EvenEnds(key, p) /\ EvenEnds(key, q))
                => SameFlow(key, bi, p, w, q, x)
<1>1. PICK ep, eq : ep = BytesOfEnds(sel, p)[1] /\ eq = BytesOfEnds(sel, q)[1]
  OBVIOUS
<1>2. PICK rp, rq : rp = BytesOfRest(sel, p, w) /\ rq = BytesOfRest(sel, q, x)
  OBVIOUS
<1>3. ep \in Seq(Nat) /\ eq \in Seq(Nat) /\ Len(ep) = Len(eq)
  BY <1>1, EndLengths
<1>4. /\ rp \in Seq(Nat) /\ rq \in Seq(Nat) /\ Len(rp) = Len(rq)
      /\ rp = rq => RestSame(key, DoneOf(key, bi), p, w, q, x)
  BY <1>2, RestTells
<1>5. BytesOf(sel, p, w) = ep \o rp /\ BytesOf(sel, q, x) = eq \o rq
  BY <1>1, <1>2 DEF BytesOf
<1>6. Len(ep \o rp) = Len(ep) + Len(rp) /\ Len(eq \o rq) = Len(eq) + Len(rq)
  BY <1>3, <1>4, ConcatIs
<1>7. ASSUME ep \o rp = eq \o rq, bi => EvenEnds(key, p) /\ EvenEnds(key, q)
      PROVE  SameFlow(key, bi, p, w, q, x)
  <2>1. ep = eq /\ rp = rq
    BY <1>3, <1>4, <1>7, ConcatSplits
  <2>2. RestSame(key, DoneOf(key, bi), p, w, q, x)
    BY <1>4, <2>1
  <2>3. CASE bi
    <3>1. SelectorFor(sel, key, TRUE) /\ EvenEnds(key, p) /\ EvenEnds(key, q)
      BY <1>7, <2>3
    <3>2. Straight(key, p, q) \/ Crossed(key, p, q)
      BY <1>1, <2>1, <3>1, EndsTell
    <3> QED
      BY <2>2, <2>3, <3>2, SameFlowIs
  <2>4. CASE ~bi
    <3>1. RestSame(key, {}, p, w, q, x)
      BY <2>2, <2>4 DEF DoneOf
    <3>2. Straight(key, p, q)
      BY <3>1, RestStraight
    <3> QED
      BY <2>2, <3>2, SameFlowIs
  <2> QED
    BY <2>3, <2>4
<1> QED
  BY <1>3, <1>4, <1>5, <1>6, <1>7

LEMMA ConcatIsAssociative == \A a, b, c \in Seq(Nat) : (a \o b) \o c = a \o (b \o c)
<1>1. PICK T : T = Nat
  OBVIOUS
<1>2. \A a, b, c \in Seq(T) : (a \o b) \o c = a \o (b \o c)
  BY ConcatLaws
<1> QED
  BY <1>1, <1>2

\* What is written before two sequences of parts does not matter for a part that is
\* followed by parts as wide as those of the other.
WideFrom(u, v, k) == \A i \in k .. Len(u) : Len(u[i]) = Len(v[i])
Same(T, k) ==
    \A u, v \in Seq(Seq(T)) : \A e, f \in Seq(T) :
        /\ Len(u) = Len(v) /\ k <= Len(u) /\ WideFrom(u, v, k)
        /\ e \o FlattenSeq(u) = f \o FlattenSeq(v)
        => u[k] = v[k]

LEMMA BehindFirst ==
    ASSUME NEW T, NEW u \in Seq(Seq(T)), NEW v \in Seq(Seq(T)), NEW e \in Seq(T), NEW f \in Seq(T),
           Len(u) = Len(v), 1 <= Len(u), WideFrom(u, v, 1),
           e \o FlattenSeq(u) = f \o FlattenSeq(v)
    PROVE  u[1] = v[1]
<1>1. SameLengths(u, v)
  BY DEF WideFrom, SameLengths
<1>2. PICK a, b : a = FlattenSeq(u) /\ b = FlattenSeq(v)
  OBVIOUS
<1>3. a \in Seq(T) /\ b \in Seq(T)
  BY <1>2, FlatParts
<1>4. Len(a) = Len(b) /\ (a = b => u = v)
  BY <1>1, <1>2, FlatTells DEF Told
<1>5. Len(e) \in Nat /\ Len(a) \in Nat /\ Len(e \o a) = Len(e) + Len(a)
  BY <1>3, ConcatIs
<1>6. Len(f) \in Nat /\ Len(f \o b) = Len(f) + Len(b)
  BY <1>3, ConcatIs
<1>7. e \o a = f \o b
  BY ONLY e \o FlattenSeq(u) = f \o FlattenSeq(v), <1>2
<1>8. Len(e \o a) = Len(f \o b)
  BY ONLY <1>7
<1>9. Len(e) + Len(a) = Len(f) + Len(a)
  BY ONLY <1>4, <1>5, <1>6, <1>8
<1>10. Len(e) = Len(f)
  BY ONLY <1>5, <1>6, <1>9
<1>11. a = b
  BY <1>3, <1>7, <1>10, ConcatSplits
<1> QED
  BY <1>4, <1>11

LEMMA FlatBehind ==
    ASSUME NEW T, NEW k \in Nat \ {0}
    PROVE  Same(T, k)
<1>1. PICK S : S = {n \in Nat : Same(T, n + 1)}
  OBVIOUS
<1>2. 0 \in S
  <2>1. Same(T, 1)
    BY BehindFirst DEF Same
  <2> QED
    BY <1>1, <2>1
<1>3. ASSUME NEW n \in S PROVE n + 1 \in S
  <2>1. n \in Nat /\ Same(T, n + 1)
    BY <1>1
  <2>2. PICK m : m = n + 1
    OBVIOUS
  <2>3. ASSUME NEW u \in Seq(Seq(T)), NEW v \in Seq(Seq(T)), NEW e \in Seq(T), NEW f \in Seq(T),
               Len(u) = Len(v), m + 1 <= Len(u), WideFrom(u, v, m + 1),
               e \o FlattenSeq(u) = f \o FlattenSeq(v)
        PROVE  u[m + 1] = v[m + 1]
    <3>1. u # <<>> /\ v # <<>> /\ Len(u) \in Nat
      <4>1. Len(u) \in Nat /\ Len(u) # 0 /\ Len(v) # 0
        BY <2>1, <2>2, <2>3, SeqFacts
      <4> QED
        BY <4>1, SeqFacts
    <3>2. PICK s, t : s = Tail(u) /\ t = Tail(v)
      OBVIOUS
    <3>3. s \in Seq(Seq(T)) /\ Len(s) = Len(u) - 1 /\ \A i \in 1 .. Len(u) - 1 : s[i] = u[i + 1]
      BY <3>1, <3>2, SeqFacts
    <3>4. t \in Seq(Seq(T)) /\ Len(t) = Len(v) - 1 /\ \A i \in 1 .. Len(v) - 1 : t[i] = v[i + 1]
      BY <3>1, <3>2, SeqFacts
    <3>5. Len(s) = Len(t) /\ m <= Len(s) /\ m \in 1 .. Len(u) - 1
      BY <2>1, <2>2, <2>3, <3>1, <3>3, <3>4
    <3>6. WideFrom(s, t, m)
      <4>1. ASSUME NEW i \in m .. Len(s) PROVE Len(s[i]) = Len(t[i])
        <5>1. i \in 1 .. Len(u) - 1 /\ i + 1 \in m + 1 .. Len(u)
          BY <2>1, <2>2, <3>1, <3>3
        <5> QED
          BY <2>3, <3>3, <3>4, <5>1 DEF WideFrom
      <4> QED
        BY <4>1 DEF WideFrom
    <3>7. PICK fs, ft : fs = FlattenSeq(s) /\ ft = FlattenSeq(t)
      OBVIOUS
    <3>8. u[1] \in Seq(T) /\ fs \in Seq(T) /\ FlattenSeq(u) = u[1] \o fs
      BY <3>1, <3>2, <3>7, FlatHead
    <3>9. v[1] \in Seq(T) /\ ft \in Seq(T) /\ FlattenSeq(v) = v[1] \o ft
      BY <3>1, <3>2, <3>7, FlatHead
    <3>10. PICK a, b : a = e \o u[1] /\ b = f \o v[1]
      OBVIOUS
    <3>11. a \in Seq(T) /\ b \in Seq(T)
      BY <3>8, <3>9, <3>10, ConcatIs
    <3>12. a \o fs = e \o (u[1] \o fs) /\ b \o ft = f \o (v[1] \o ft)
      <4>1. \A x, y, z \in Seq(T) : (x \o y) \o z = x \o (y \o z)
        BY ConcatLaws
      <4> QED
        BY <3>8, <3>9, <3>10, <4>1
    <3>13. a \o FlattenSeq(s) = b \o FlattenSeq(t)
      BY <2>3, <3>7, <3>8, <3>9, <3>12
    <3>14. s[m] = t[m]
      BY <2>1, <2>2, <3>3, <3>4, <3>5, <3>6, <3>11, <3>13 DEF Same
    <3> QED
      BY <2>3, <3>3, <3>4, <3>5, <3>14
  <2>4. Same(T, m + 1)
    BY <2>3 DEF Same
  <2>5. n + 1 \in Nat
    BY <2>1
  <2> QED
    BY <1>1, <2>2, <2>4, <2>5
<1>4. S = Nat
  <2>1. S \in SUBSET Nat
    BY <1>1
  <2> QED
    BY <1>2, <1>3, <2>1, SetInduction
<1>5. k - 1 \in Nat /\ (k - 1) + 1 = k
  OBVIOUS
<1>6. Same(T, (k - 1) + 1)
  BY <1>1, <1>4, <1>5
<1> QED
  BY <1>5, <1>6

\* What the functions of the keys without an end write, in the first window.
PartBytes(id, p) == KeyFunc(id, p, 0).plain \o KeyFunc(id, p, 0).sort

\* One of them differs, and it and all behind it are as wide as each other.
PartApart(sel, p, q) ==
    \E k \in DOMAIN sel.uni :
        /\ PartBytes(sel.uni[k], p) # PartBytes(sel.uni[k], q)
        /\ \A i \in k .. Len(sel.uni) :
               Len(PartBytes(sel.uni[i], p)) = Len(PartBytes(sel.uni[i], q))

\* b is the part of a key.
IsPart(b, id, p, w) == b = KeyFunc(id, p, w).plain \o KeyFunc(id, p, w).sort

LEMMA PartsAre ==
    ASSUME NEW ids \in Seq(DOMAIN KeyRegistry), NEW p \in PacketType, NEW w \in Nat
    PROVE  \A i \in 1 .. Len(ids) : IsPart(TwoParts(ids, p, w)[i], ids[i], p, w)
BY PartsTyped DEF IsPart

\* A part is as wide in any window, and the same unless it is the number of the window.
LEMMA PartInWindow ==
    ASSUME NEW id \in DOMAIN KeyRegistry, NEW p \in PacketType, NEW w \in Nat,
           NEW b, IsPart(b, id, p, w)
    PROVE  /\ Len(b) = Len(PartBytes(id, p)) /\ b \in Seq(Nat)
           /\ WindowFree(id) => b = PartBytes(id, p)
           /\ ~WindowFree(id) => PartBytes(id, p) = <<>> \o <<0>>
<1>1. PICK plain, sort : plain = KeyFunc(id, p, w).plain /\ sort = KeyFunc(id, p, w).sort
  OBVIOUS
<1>4. b = plain \o sort /\ plain \in Seq(Nat) /\ sort \in Seq(Nat)
  <2>1. PartOf(KeyFunc(id, p, w))
    BY KeyFuncParts
  <2> QED
    BY <1>1, <2>1 DEF PartOf, IsPart
<1>5. b \in Seq(Nat) /\ Len(b) = Len(plain) + Len(sort)
  BY <1>4, ConcatIs
<1>2. CASE WindowFree(id)
  <2>1. KeyFunc(id, p, w) = KeyFunc(id, p, 0)
    BY <1>2, KeyFuncParts
  <2>2. b = PartBytes(id, p)
    BY <2>1 DEF PartBytes, IsPart
  <2> QED
    BY <1>2, <1>5, <2>2
<1>3. CASE ~WindowFree(id)
  <2>1. KeyFunc(id, p, w) = Sorted(<<w>>)
    BY <1>3, KeyFuncParts
  <2>2. KeyFunc(id, p, 0) = Sorted(<<0>>)
    <3>1. PICK z \in Nat : z = 0
      OBVIOUS
    <3>2. KeyFunc(id, p, z) = Sorted(<<z>>)
      BY <1>3, KeyFuncParts
    <3> QED
      BY <3>1, <3>2
  <2>3. Sorted(<<0>>).plain = <<>> /\ Sorted(<<0>>).sort = <<0>>
    BY DEF Sorted
  <2>4. PartBytes(id, p) = <<>> \o <<0>>
    BY <2>2, <2>3, Zenon DEF PartBytes
  <2>5. Len(PartBytes(id, p)) = 1
    BY <2>4
  <2>6. plain = <<>> /\ sort = <<w>>
    BY <1>1, <2>1 DEF Sorted
  <2>7. Len(b) = 1
    BY <1>5, <2>6
  <2> QED
    BY <1>3, <1>5, <2>4, <2>5, <2>7
<1> QED
  BY <1>2, <1>3

\* A key ends with the parts of the keys without an end.
LEMMA KeyEnds ==
    ASSUME NEW key, GoodKey(key), NEW bi \in BOOLEAN, NEW sel, SelectorFor(sel, key, bi),
           NEW p \in PacketType, NEW w \in Nat
    PROVE  \E front \in Seq(Nat) : BytesOf(sel, p, w) = front \o FlattenSeq(TwoParts(sel.uni, p, w))
<1>1. PICK u, all : u = sel.uni /\ all = sel.source \o sel.destination
  OBVIOUS
<1>2. u \in Seq(DOMAIN KeyRegistry) /\ all \in Seq(DOMAIN KeyRegistry)
  BY <1>1, SelectorTyped
<1>3. PICK parts, plain : parts = TwoParts(u, p, w) /\ plain = PlainParts(all, p, w)
  OBVIOUS
<1>4. parts \in Seq(Seq(Nat)) /\ plain \in Seq(Seq(Nat))
  BY <1>2, <1>3, PartsTyped
<1>5. PICK ends, fp, last : /\ ends = BytesOfEnds(sel, p)[1] /\ fp = FlattenSeq(plain)
                            /\ last = FlattenSeq(parts)
  OBVIOUS
<1>6. ends \in Seq(Nat) /\ fp \in Seq(Nat) /\ last \in Seq(Nat)
  <2>1. SameWidths(key, p, w, p, w)
    BY DEF SameWidths, AsWide
  <2> QED
    BY <1>4, <1>5, <2>1, EndLengths, FlatParts
<1>7. BytesOf(sel, p, w) = ends \o (fp \o last)
  BY <1>1, <1>3, <1>5 DEF BytesOf, BytesOfRest
<1>8. (ends \o fp) \o last = ends \o (fp \o last)
  BY <1>6, ConcatIsAssociative, Zenon
<1>9. ends \o fp \in Seq(Nat)
  BY <1>6, ConcatIs
<1> QED
  BY <1>1, <1>3, <1>5, <1>7, <1>8, <1>9

\* Where a part differs and this is told, keys differ.
LEMMA PartTells ==
    ASSUME NEW key, GoodKey(key), NEW bi \in BOOLEAN, NEW sel, SelectorFor(sel, key, bi),
           NEW p \in PacketType, NEW q \in PacketType, NEW w \in Nat, NEW x \in Nat,
           PartApart(sel, p, q)
    PROVE  BytesOf(sel, p, w) # BytesOf(sel, q, x)
<1>1. PICK u, n : u = sel.uni /\ n = Len(u)
  OBVIOUS
<1>2. u \in Seq(DOMAIN KeyRegistry)
  BY <1>1, SelectorTyped
<1>3. n \in Nat /\ DOMAIN u = 1 .. n /\ \A i \in 1 .. n : u[i] \in DOMAIN KeyRegistry
  BY <1>1, <1>2
<1>4. PICK k \in 1 .. n :
        /\ PartBytes(u[k], p) # PartBytes(u[k], q)
        /\ \A i \in k .. n : Len(PartBytes(u[i], p)) = Len(PartBytes(u[i], q))
  BY <1>1, <1>3 DEF PartApart
<1>5. PICK a, b : a = TwoParts(u, p, w) /\ b = TwoParts(u, q, x)
  OBVIOUS
<1>6. /\ a \in Seq(Seq(Nat)) /\ Len(a) = n
      /\ \A i \in 1 .. n : IsPart(a[i], u[i], p, w)
  <2>1. TwoParts(u, p, w) \in Seq(Seq(Nat)) /\ Len(TwoParts(u, p, w)) = Len(u)
    BY <1>2, PartsTyped
  <2>2. \A i \in 1 .. Len(u) : IsPart(TwoParts(u, p, w)[i], u[i], p, w)
    BY <1>2, PartsAre
  <2> QED
    BY <1>1, <1>5, <2>1, <2>2
<1>7. /\ b \in Seq(Seq(Nat)) /\ Len(b) = n
      /\ \A i \in 1 .. n : IsPart(b[i], u[i], q, x)
  <2>1. TwoParts(u, q, x) \in Seq(Seq(Nat)) /\ Len(TwoParts(u, q, x)) = Len(u)
    BY <1>2, PartsTyped
  <2>2. \A i \in 1 .. Len(u) : IsPart(TwoParts(u, q, x)[i], u[i], q, x)
    BY <1>2, PartsAre
  <2> QED
    BY <1>1, <1>5, <2>1, <2>2
<1>8. ASSUME NEW i \in 1 .. n
      PROVE  /\ Len(a[i]) = Len(PartBytes(u[i], p)) /\ Len(b[i]) = Len(PartBytes(u[i], q))
             /\ WindowFree(u[i]) => a[i] = PartBytes(u[i], p) /\ b[i] = PartBytes(u[i], q)
             /\ ~WindowFree(u[i]) => PartBytes(u[i], p) = PartBytes(u[i], q)
  <2>1. u[i] \in DOMAIN KeyRegistry
    BY <1>3
  <2>2. /\ Len(a[i]) = Len(PartBytes(u[i], p))
        /\ WindowFree(u[i]) => a[i] = PartBytes(u[i], p)
        /\ ~WindowFree(u[i]) => PartBytes(u[i], p) = <<>> \o <<0>>
    BY <1>6, <2>1, PartInWindow
  <2>3. /\ Len(b[i]) = Len(PartBytes(u[i], q))
        /\ WindowFree(u[i]) => b[i] = PartBytes(u[i], q)
        /\ ~WindowFree(u[i]) => PartBytes(u[i], q) = <<>> \o <<0>>
    BY <1>7, <2>1, PartInWindow
  <2> QED
    BY <2>2, <2>3
<1>9. a[k] # b[k]
  BY <1>4, <1>8
<1>10. WideFrom(a, b, k)
  <2>1. \A i \in k .. n : i \in 1 .. n
    BY <1>3, <1>4
  <2>2. \A i \in k .. n : Len(a[i]) = Len(b[i])
    BY <1>4, <1>8, <2>1
  <2> QED
    BY <1>6, <2>2 DEF WideFrom
<1>11. PICK e \in Seq(Nat) : BytesOf(sel, p, w) = e \o FlattenSeq(a)
  BY <1>1, <1>5, KeyEnds
<1>12. PICK f \in Seq(Nat) : BytesOf(sel, q, x) = f \o FlattenSeq(b)
  BY <1>1, <1>5, KeyEnds
<1>13. ASSUME e \o FlattenSeq(a) = f \o FlattenSeq(b) PROVE FALSE
  <2>1. k \in Nat \ {0} /\ Len(a) = Len(b) /\ k <= Len(a)
    BY <1>3, <1>4, <1>6, <1>7
  <2>2. Same(Nat, k)
    BY <2>1, FlatBehind
  <2>3. a[k] = b[k]
    BY <1>6, <1>7, <1>10, <1>13, <2>1, <2>2 DEF Same
  <2> QED
    BY <1>9, <2>3
<1> QED
  BY <1>11, <1>12, <1>13

\* The packets of a run.
PacketsOf(in) ==
    UNION {UNION {{in.sources[s][f][i] : i \in DOMAIN in.sources[s][f]} :
                      f \in DOMAIN in.sources[s]} : s \in DOMAIN in.sources}

\* The shapes of two packets do not make one key of two flows: all parts of their keys are
\* as wide as each other's, or the keys differ in their length, or in a part without an end
\* behind which all are as wide.
ShapesTold(sel, key, p, q) ==
    \/ SameWidths(key, p, 0, q, 0)
    \/ Len(BytesOf(sel, p, 0)) # Len(BytesOf(sel, q, 0))
    \/ PartApart(sel, p, q)
FlowsTold(in) ==
    \A p, q \in PacketsOf(in) :
        /\ in.bidirectional => EvenEnds(in.key, p)
        /\ \A sel \in Selectors(in.key, in.bidirectional, in.allowZero) : ShapesTold(sel, in.key, p, q)

\* Packets with the same key belong to one flow.
LEMMA KeyTellsFlow ==
    ASSUME NEW key, GoodKey(key), NEW bi \in BOOLEAN, NEW sel, SelectorFor(sel, key, bi),
           NEW p \in PacketType, NEW q \in PacketType, NEW w \in Nat, NEW x \in Nat,
           ShapesTold(sel, key, p, q), bi => EvenEnds(key, p) /\ EvenEnds(key, q),
           BytesOf(sel, p, w) = BytesOf(sel, q, x)
    PROVE  SameFlow(key, bi, p, w, q, x)
<1>1. PICK z \in Nat : z = 0
  OBVIOUS
<1>2. SameWidths(key, p, w, p, z) /\ SameWidths(key, q, x, q, z)
  BY <1>1, WindowWidths
<1>3. Len(BytesOf(sel, p, w)) = Len(BytesOf(sel, p, z)) /\ Len(BytesOf(sel, q, x)) = Len(BytesOf(sel, q, z))
  BY <1>2, WidthsTell
<1>4. SameWidths(key, p, 0, q, 0)
  <2>1. ~(Len(BytesOf(sel, p, 0)) # Len(BytesOf(sel, q, 0)))
    BY <1>1, <1>3
  <2>2. ~PartApart(sel, p, q)
    BY PartTells
  <2> QED
    BY <2>1, <2>2 DEF ShapesTold
<1>5. SameWidths(key, p, w, q, x)
  BY <1>4, WindowWidths
<1> QED
  BY <1>5, WidthsTell

--------------------------------------------------------------------------------
(* The keys of the packets that were read.                                   *)

Keyed(e) ==
    /\ e.packet \in PacketsOf(input)
    /\ e.ok => /\ e.key = BytesOf(engine.selector, e.packet, e.window)
               /\ e.forward = BytesOfEnds(engine.selector, e.packet)[2]
KeyInv ==
    /\ WindowInv
    /\ engine.selector \in Selectors(input.key, input.bidirectional, input.allowZero)
    /\ \A i \in 1 .. Len(asked) : Keyed(asked[i])

LEMMA InitKeys == ASSUME Init PROVE KeyInv
<1>1. WindowInv
  BY InitWindows
<1>2. PICK labels : labels = [l \in DOMAIN input.labels |-> NewCSVLabels(input.labels[l])]
  OBVIOUS
<1>3. PICK selector \in Selectors(input.key, input.bidirectional, input.allowZero) :
        engine = [packets |-> 0, selector |-> selector, window |-> NoWindow, labels |-> labels]
  BY <1>2 DEF Init
<1>4. engine.selector = selector
  BY <1>3
<1>5. asked = <<>>
  BY DEF Init
<1> QED
  BY <1>1, <1>3, <1>4, <1>5 DEF KeyInv

\* The selector is one for the key of the run.
LEMMA InputSelector ==
    ASSUME KeyInv
    PROVE  /\ GoodKey(input.key) /\ input.bidirectional \in BOOLEAN /\ input \in Inputs
           /\ SelectorFor(engine.selector, input.key, input.bidirectional)
<1>1. input \in Inputs
  BY DEF KeyInv, WindowInv, PacketInv, PlaceInv, InputTyped
<1>2. GoodKey(input.key) /\ input.bidirectional \in BOOLEAN
  BY <1>1, InputsAssumption DEF GoodKey
<1> QED
  BY <1>1, <1>2, SelectorIs DEF KeyInv

\* The packet that was read is one of the run.
LEMMA PacketIsOfRun ==
    ASSUME PacketInv, At("check"), reader.got = "packet"
    PROVE  Packet \in PacketsOf(input)
<1>1. Files \in Seq(Seq(PacketType)) /\ Pcap \in PcapType /\ Current \in 1 .. Len(input.sources)
      /\ Files = input.sources[Current]
  BY CurrentFiles DEF PacketInv, PlaceInv, Files
<1>2. Pcap.which > 0 /\ Pcap.at \in 1 .. Len(Files[Pcap.which]) /\ Pcap.which <= Len(Files)
  BY <1>1 DEF PacketInv, WhichInFiles, Pcap, At
<1>3. Pcap.which \in 1 .. Len(Files)
  BY <1>1, <1>2 DEF PcapType
<1>4. Files[Pcap.which] \in Seq(PacketType)
  BY <1>1, <1>3
<1>5. PICK s, f, i : s = Current /\ f = Pcap.which /\ i = Pcap.at
  OBVIOUS
<1>6. input.sources \in Seq(Seq(Seq(PacketType)))
  BY InputTypes DEF PacketInv, PlaceInv, InputTyped
<1>7. s \in DOMAIN input.sources /\ f \in DOMAIN input.sources[s] /\ i \in DOMAIN input.sources[s][f]
  BY <1>1, <1>2, <1>3, <1>4, <1>5, <1>6
<1>8. Packet = input.sources[s][f][i]
  BY <1>1, <1>5 DEF Packet
<1> QED
  BY <1>7, <1>8 DEF PacketsOf

\* Accept is the step that makes a key.
LEMMA AcceptKeys ==
    ASSUME KeyInv, Accept, WindowInv'
    PROVE  KeyInv'
<1>1. PICK nr : nr = engine.packets + reader.skipped + reader.filtered + 1
  OBVIOUS
<1>2. PICK g : g = GetLabel(engine.labels, nr)
  OBVIOUS
<1>3. PICK used : used = (FiltersMatch(input.filters, Packet) /\ Packet.decodes)
  OBVIOUS
<1>4. PICK key : key = Key(engine.selector, input.duration, engine.window, Packet)
  OBVIOUS
<1>5. PICK e : e = [packet |-> Packet, nr |-> nr, label |-> g.label, ok |-> key.ok,
                    key |-> key.key, forward |-> key.forward, window |-> key.window.id]
  OBVIOUS
<1>6. /\ UNCHANGED input /\ At("check") /\ reader.got = "packet"
      /\ engine' = IF used THEN [engine EXCEPT !.packets = nr, !.labels = g.labels,
                                               !.window = key.window]
                   ELSE [engine EXCEPT !.packets = nr]
      /\ asked' = IF used THEN Append(asked, e) ELSE asked
  BY <1>1, <1>2, <1>3, <1>4, <1>5 DEF Accept
<1>7. /\ engine = [packets |-> engine.packets, selector |-> engine.selector,
                   window |-> engine.window, labels |-> engine.labels]
      /\ \E T : asked \in Seq(T)
  BY DEF KeyInv, WindowInv, WindowTyped, TimesTyped
<1>8. engine'.selector = engine.selector
  BY <1>6, <1>7
<1>9. Packet \in PacketsOf(input) /\ Packet \in PacketType
  BY <1>6, PacketIsOfRun, PacketIsTyped DEF KeyInv, WindowInv
<1>10. Keyed(e)
  <2>1. e.packet = Packet /\ e.ok = key.ok /\ e.key = key.key /\ e.forward = key.forward
        /\ e.window = key.window.id
    BY <1>5
  <2>2. ASSUME key.ok
        PROVE  /\ key.key = BytesOf(engine.selector, Packet, key.window.id)
               /\ key.forward = BytesOfEnds(engine.selector, Packet)[2]
    BY <1>4, <1>9, <2>2, InputSelector, KeyIs
  <2> QED
    BY <1>9, <2>1, <2>2 DEF Keyed
<1>11. \A d : Keyed(d) => Keyed(d)'
  BY <1>6, <1>8 DEF Keyed
<1>12. \A i \in 1 .. Len(asked') : Keyed(asked'[i])
  <2>1. CASE used
    <3>1. PICK T : asked \in Seq(T)
      BY <1>7
    <3>2. asked' = Append(asked, e)
      BY <1>6, <2>1
    <3>3. /\ Len(asked') = Len(asked) + 1 /\ asked'[Len(asked) + 1] = e
          /\ \A i \in 1 .. Len(asked) : asked'[i] = asked[i]
      BY <3>1, <3>2, AppendIs
    <3>4. Len(asked) \in Nat
      BY <3>1, SeqFacts
    <3> QED
      BY <1>10, <3>3, <3>4 DEF KeyInv
  <2>2. CASE ~used
    BY <1>6, <2>2 DEF KeyInv
  <2> QED
    BY <2>1, <2>2
<1>13. \A i \in 1 .. Len(asked') : Keyed(asked[i])'
  BY <1>6, <1>8, <1>12 DEF Keyed
<1> QED
  BY <1>6, <1>8, <1>13 DEF KeyInv

LEMMA KeyStep == ASSUME KeyInv, [Next]_vars PROVE KeyInv'
<1>1. WindowInv'
  BY WindowStep DEF KeyInv
<1>2. CASE Accept
  BY <1>1, <1>2, AcceptKeys
<1>3. CASE ~Accept
  <2>1. UNCHANGED <<input, engine, asked>>
    BY <1>3 DEF Next, vars, Read, ReadData, ReadStopped, NextFile, Filtered, SourceEnds,
                StopSource, NextSource, Stop, StopPicks, StopStores
  <2> QED
    BY <1>1, <2>1 DEF KeyInv, Keyed
<1> QED
  BY <1>2, <1>3

LEMMA KeyedRange ==
    ASSUME KeyInv
    PROVE  /\ DOMAIN asked = 1 .. Len(asked)
           /\ \A i \in 1 .. Len(asked) :
                /\ asked[i].packet \in PacketType /\ asked[i].packet \in PacketsOf(input)
                /\ asked[i].window \in Nat
<1>1. \E T : asked \in Seq(T)
  BY DEF KeyInv, WindowInv, TimesTyped
<1>2. \A i \in 1 .. Len(asked) : asked[i].window \in Nat
  BY DEF KeyInv, WindowInv, TimesTyped
<1>3. \A i \in 1 .. Len(asked) : asked[i].packet \in PacketsOf(input)
  BY DEF KeyInv, Keyed
<1>4. PacketsOf(input) \subseteq PacketType
  <2>1. input.sources \in Seq(Seq(Seq(PacketType)))
    BY InputSelector, InputTypes
  <2>2. ASSUME NEW s \in DOMAIN input.sources, NEW f \in DOMAIN input.sources[s],
               NEW i \in DOMAIN input.sources[s][f]
        PROVE  input.sources[s][f][i] \in PacketType
    <3>1. input.sources[s] \in Seq(Seq(PacketType))
      BY <2>1
    <3>2. input.sources[s][f] \in Seq(PacketType)
      BY <3>1
    <3> QED
      BY <3>2
  <2> QED
    BY <2>2 DEF PacketsOf
<1> QED
  BY <1>1, <1>2, <1>3, <1>4

\* Packets that agree in all key features get the same key.
FlowsKeepKey ==
    \A i, j \in DOMAIN asked : asked[i].ok /\ asked[j].ok =>
        (SameFlow(input.key, input.bidirectional, asked[i].packet, asked[i].window,
                  asked[j].packet, asked[j].window) => asked[i].key = asked[j].key)

\* For all keys, packets and windows, and whatever order the map of pairs gives to the
\* selector: two packets that agree in all key features, up to a change of their ends where
\* flows are bidirectional, get the same key, so that no flow is split (dynamicKeySelector.Key).
THEOREM FlowsAreNotSplit == Spec => []FlowsKeepKey
<1>1. Init => KeyInv
  BY InitKeys
<1>2. KeyInv /\ [Next]_vars => KeyInv'
  BY KeyStep
<1>3. KeyInv => FlowsKeepKey
  <2> SUFFICES ASSUME KeyInv, NEW i \in DOMAIN asked, NEW j \in DOMAIN asked,
                      asked[i].ok, asked[j].ok,
                      SameFlow(input.key, input.bidirectional, asked[i].packet, asked[i].window,
                               asked[j].packet, asked[j].window)
               PROVE  asked[i].key = asked[j].key
    BY DEF FlowsKeepKey
  <2>1. i \in 1 .. Len(asked) /\ j \in 1 .. Len(asked)
    BY KeyedRange
  <2>2. PICK p, q, w, x : /\ p = asked[i].packet /\ q = asked[j].packet
                          /\ w = asked[i].window /\ x = asked[j].window
    OBVIOUS
  <2>3. p \in PacketType /\ q \in PacketType /\ w \in Nat /\ x \in Nat
    BY <2>1, <2>2, KeyedRange
  <2>4. BytesOf(engine.selector, p, w) = BytesOf(engine.selector, q, x)
    BY <2>2, <2>3, InputSelector, FlowHasKey
  <2> QED
    BY <2>1, <2>2, <2>4 DEF KeyInv, Keyed
<1> QED
  BY <1>1, <1>2, <1>3, PTL DEF Spec

\* The property for packets i and j.
KeysTell(i, j) ==
    LET p == asked[i].packet
        q == asked[j].packet
        same == SameFlow(input.key, input.bidirectional, p, asked[i].window,
                         q, asked[j].window)
    IN  /\ asked[i].key = asked[j].key <=> same
        /\ same => (asked[i].forward = asked[j].forward
                    <=> SameFlow(input.key, FALSE, p, asked[i].window, q, asked[j].window))

\* Where the ends of a packet are as long as each other and the shapes of packets are told:
\* packets have the same key if and only if they belong to one flow, and the same direction
\* if and only if their ends are not changed, for all keys, packets, windows and orders of
\* the pairs (dynamicKeySelector.Key).
THEOREM KeysIdentifyFlows ==
    ASSUME \A in \in Inputs : FlowsTold(in)
    PROVE  Spec => []KeyIdentifiesFlow
<1>1. Init => KeyInv
  BY InitKeys
<1>2. KeyInv /\ [Next]_vars => KeyInv'
  BY KeyStep
<1>3. KeyInv => KeyIdentifiesFlow
  <2> SUFFICES ASSUME KeyInv, NEW i \in DOMAIN asked, NEW j \in DOMAIN asked,
                      asked[i].ok, asked[j].ok
               PROVE  KeysTell(i, j)
    BY DEF KeyIdentifiesFlow, KeysTell
  <2>1. i \in 1 .. Len(asked) /\ j \in 1 .. Len(asked)
    BY KeyedRange
  <2>2. PICK p, q, w, x : /\ p = asked[i].packet /\ q = asked[j].packet
                          /\ w = asked[i].window /\ x = asked[j].window
    OBVIOUS
  <2>3. PICK sel, key, bi : sel = engine.selector /\ key = input.key /\ bi = input.bidirectional
    OBVIOUS
  <2>4. GoodKey(key) /\ bi \in BOOLEAN /\ input \in Inputs /\ SelectorFor(sel, key, bi)
    BY <2>3, InputSelector
  <2>5. /\ p \in PacketType /\ q \in PacketType /\ w \in Nat /\ x \in Nat
        /\ p \in PacketsOf(input) /\ q \in PacketsOf(input)
    BY <2>1, <2>2, KeyedRange
  <2>6. /\ bi => EvenEnds(key, p) /\ EvenEnds(key, q)
        /\ ShapesTold(sel, key, p, q)
    <3>1. FlowsTold(input)
      BY <2>4
    <3>2. sel \in Selectors(key, bi, input.allowZero)
      BY <2>3 DEF KeyInv
    <3> QED
      BY <2>3, <2>5, <3>1, <3>2 DEF FlowsTold
  <2>7. /\ asked[i].key = BytesOf(sel, p, w) /\ asked[j].key = BytesOf(sel, q, x)
        /\ asked[i].forward = BytesOfEnds(sel, p)[2] /\ asked[j].forward = BytesOfEnds(sel, q)[2]
    BY <2>1, <2>2, <2>3 DEF KeyInv, Keyed
  <2>8. SameFlow(key, bi, p, w, q, x) => BytesOf(sel, p, w) = BytesOf(sel, q, x)
    BY <2>4, <2>5, FlowHasKey
  <2>9. BytesOf(sel, p, w) = BytesOf(sel, q, x) => SameFlow(key, bi, p, w, q, x)
    BY <2>4, <2>5, <2>6, KeyTellsFlow
  <2>10. ASSUME SameFlow(key, bi, p, w, q, x)
         PROVE  Directed(sel, key, p, w, q, x)
    <3>1. bi => EvenEnds(key, p)
      BY <2>6
    <3> QED
      BY <2>4, <2>5, <2>10, <3>1, FlowHasDirection
  <2> QED
    BY <2>2, <2>3, <2>7, <2>8, <2>9, <2>10 DEF KeysTell, Directed
<1> QED
  BY <1>1, <1>2, <1>3, PTL DEF Spec
================================================================================
