--------------------------- MODULE PacketPoolProofs ----------------------------
(*****************************************************************************)
(* The pool of buffers, for batches of any size and any number of tables,    *)
(* buffers and packets: no buffer is used twice or lost, numFree is exact,   *)
(* and the reader gets full batches.  Every packet reaches one table once,   *)
(* in the order in which it was read, or is dropped.                         *)
(*****************************************************************************)
EXTENDS PacketPool, FiniteSetTheorems, SelectionFacts

--------------------------------------------------------------------------------
(* 1. Sequences and sums                                                     *)

Injective(s) == \A i, j \in 1 .. Len(s) : s[i] = s[j] => i = j

\* A sequence with one more element.
LEMMA AppendHolds ==
    ASSUME NEW T, NEW s \in Seq(T), NEW x \in T
    PROVE  /\ Append(s, x) \in Seq(T)
           /\ Len(Append(s, x)) = Len(s) + 1
           /\ Elements(Append(s, x)) = Elements(s) \cup {x}
           /\ Injective(s) /\ x \notin Elements(s) => Injective(Append(s, x))
<1> DEFINE t == Append(s, x)
           l == Len(s)
<1>1. /\ t \in Seq(T) /\ Len(t) = l + 1 /\ t[l + 1] = x /\ l \in Nat
      /\ \A i \in 1 .. l : t[i] = s[i]
  OBVIOUS
<1> HIDE DEF t, l
<1>2. 1 .. Len(t) = 1 .. l \cup {l + 1}
  BY <1>1
<1>3. Elements(t) = Elements(s) \cup {x}
  <2>1. Elements(t) = {t[i] : i \in 1 .. l} \cup {t[l + 1]}
    BY <1>2 DEF Elements
  <2>2. {t[i] : i \in 1 .. l} = {s[i] : i \in 1 .. l}
    BY <1>1
  <2> QED
    BY <1>1, <2>1, <2>2 DEF Elements, l
<1>4. ASSUME Injective(s), x \notin Elements(s) PROVE Injective(t)
  <2>1. \A i \in 1 .. l : s[i] # x
    BY <1>4 DEF Elements, l
  <2>2. \A i, j \in 1 .. l : s[i] = s[j] => i = j
    BY <1>4 DEF Injective, l
  <2> QED
    BY <1>1, <1>2, <2>1, <2>2 DEF Injective
<1> QED
  BY <1>1, <1>3, <1>4 DEF t, l

\* Only keeps the elements that are asked for, each of them once.
LEMMA OnlyHolds ==
    ASSUME NEW T, NEW s \in Seq(T), NEW K
    PROVE  /\ Only(s, K) \in Seq(T)
           /\ Elements(Only(s, K)) = Elements(s) \cap K
           /\ Injective(s) => Injective(Only(s, K))
<1> DEFINE F == CHOOSE g : OnlyRun(s, K, Len(s), g)
<1>1. Only(s, K) = F[Len(s)]
  BY DEF Only, OnlyStep, OnlyRun
<1>2. F = [m \in 0 .. Len(s) |-> IF m = 0 THEN <<>> ELSE OnlyStep(s, K, F[m - 1], m)]
  <2>1. Len(s) \in Nat
    OBVIOUS
  <2>2. \E g : OnlyRun(s, K, Len(s), g)
    BY <2>1, OnlyExists, Zenon
  <2>3. OnlyRun(s, K, Len(s), F)
    BY <2>2, Zenon
  <2> QED
    BY <2>3 DEF OnlyRun
<1> HIDE DEF F
<1> DEFINE Good(n) == /\ F[n] \in Seq(T)
                      /\ Elements(F[n]) = {s[i] : i \in 1 .. n} \cap K
                      /\ Injective(s) => Injective(F[n])
           S == {n \in Nat : n <= Len(s) => Good(n)}
<1>3. 0 \in S
  BY <1>2 DEF Elements, Injective
<1>4. \A n \in S : n + 1 \in S
  <2> HIDE DEF Good
  <2> SUFFICES ASSUME NEW n \in S, n + 1 <= Len(s) PROVE Good(n + 1)
    OBVIOUS
  <2>0. n \in Nat /\ Good(n)
    OBVIOUS
  <2> USE DEF Good
  <2>1. n + 1 \in 1 .. Len(s) /\ s[n + 1] \in T
    BY <2>0
  <2>2. F[n + 1] = OnlyStep(s, K, F[n], n + 1)
    BY <1>2, <2>0, <2>1
  <2>3. {s[i] : i \in 1 .. n + 1} = {s[i] : i \in 1 .. n} \cup {s[n + 1]}
    BY <2>0
  <2>4. CASE s[n + 1] \notin K
    BY <2>0, <2>2, <2>3, <2>4 DEF OnlyStep
  <2>5. CASE s[n + 1] \in K
    <3>1. F[n + 1] = Append(F[n], s[n + 1])
      BY <2>2, <2>5 DEF OnlyStep
    <3>2. Injective(s) => s[n + 1] \notin Elements(F[n])
      BY <2>0, <2>1 DEF Injective
    <3> QED
      BY <2>0, <2>1, <2>3, <2>5, <3>1, <3>2, AppendHolds
  <2> QED
    BY <2>4, <2>5
<1> HIDE DEF Good
<1>5. S = Nat
  BY <1>3, <1>4, SetInduction
<1>6. Good(Len(s))
  BY <1>5
<1> QED
  BY <1>1, <1>6 DEF Elements, Good

\* The recursion of Sum is well defined, as far as any index.
LEMMA SumExists ==
    ASSUME NEW f, NEW n \in Nat
    PROVE  \E g : g = [m \in 0 .. n |-> f[m] + (IF m = 0 THEN 0 ELSE g[m - 1])]
<1> DEFINE Good(g, k) == g = [m \in 0 .. k |-> f[m] + (IF m = 0 THEN 0 ELSE g[m - 1])]
           S == {k \in Nat : \E g : Good(g, k)}
<1>1. 0 \in S
  <2> DEFINE g == [m \in 0 .. 0 |-> f[m] + 0]
  <2>1. Good(g, 0)
    OBVIOUS
  <2> QED
    BY <2>1
<1>2. \A k \in S : k + 1 \in S
  <2> TAKE k \in S
  <2>1. PICK g : Good(g, k)
    OBVIOUS
  <2> DEFINE h == [m \in 0 .. k + 1 |-> IF m <= k THEN g[m] ELSE f[m] + g[k]]
  <2>2. \A m \in 0 .. k : h[m] = g[m]
    OBVIOUS
  <2>3. \A m \in 0 .. k + 1 : h[m] = f[m] + (IF m = 0 THEN 0 ELSE h[m - 1])
    <3> TAKE m \in 0 .. k + 1
    <3>1. CASE m = 0
      BY <2>1, <2>2, <3>1
    <3>2. CASE m # 0 /\ m <= k
      <4>1. m \in 0 .. k /\ m - 1 \in 0 .. k /\ h[m] = g[m] /\ h[m - 1] = g[m - 1]
        BY <2>2, <3>2
      <4>2. g[m] = f[m] + g[m - 1]
        BY <2>1, <3>2, <4>1
      <4> QED
        BY <3>2, <4>1, <4>2
    <3>3. CASE m = k + 1
      <4>1. h[m] = f[m] + g[k] /\ h[m - 1] = g[k]
        BY <2>2, <3>3
      <4> QED
        BY <3>3, <4>1
    <3> QED
      BY <3>1, <3>2, <3>3
  <2>4. Good(h, k + 1)
    BY <2>3
  <2> HIDE DEF Good, h
  <2> QED
    BY <2>4
<1> HIDE DEF Good
<1>3. S = Nat
  BY <1>1, <1>2, SetInduction
<1> QED
  BY <1>3 DEF Good

\* The partial sums.
LEMMA SumSteps ==
    ASSUME NEW f, NEW n \in Nat
    PROVE  \E F : /\ Sum(f, n) = F[n]
                  /\ F[0] = f[0] + 0
                  /\ \A m \in 1 .. n : F[m] = f[m] + F[m - 1]
<1> DEFINE F == CHOOSE g : g = [m \in 0 .. n |-> f[m] + (IF m = 0 THEN 0 ELSE g[m - 1])]
<1>1. Sum(f, n) = F[n]
  BY DEF Sum
<1>2. F = [m \in 0 .. n |-> f[m] + (IF m = 0 THEN 0 ELSE F[m - 1])]
  BY SumExists
<1> HIDE DEF F
<1>3. F[0] = f[0] + 0 /\ \A m \in 1 .. n : F[m] = f[m] + F[m - 1]
  BY <1>2
<1> QED
  BY <1>1, <1>3

\* A sum of naturals is a natural.
LEMMA SumOfNaturals ==
    ASSUME NEW n \in Nat, NEW f \in [0 .. n -> Nat]
    PROVE  Sum(f, n) \in Nat
<1>1. PICK F : /\ Sum(f, n) = F[n]
               /\ F[0] = f[0] + 0
               /\ \A m \in 1 .. n : F[m] = f[m] + F[m - 1]
  BY SumSteps, ZenonT(30)
<1> DEFINE S == {m \in Nat : m <= n => F[m] \in Nat}
<1>2. 0 \in S
  BY <1>1
<1>3. \A m \in S : m + 1 \in S
  <2> SUFFICES ASSUME NEW m \in S, m + 1 <= n PROVE F[m + 1] \in Nat
    OBVIOUS
  <2>1. m + 1 \in 1 .. n /\ F[m] \in Nat /\ (m + 1) - 1 = m
    OBVIOUS
  <2> QED
    BY <1>1, <2>1
<1>4. S = Nat
  BY <1>2, <1>3, SetInduction
<1> QED
  BY <1>1, <1>4

\* One number of a sum changes.
LEMMA SumChanges ==
    ASSUME NEW n \in Nat, NEW f \in [0 .. n -> Nat], NEW g \in [0 .. n -> Nat], NEW w \in 0 .. n
    PROVE  (\A v \in 0 .. n : v # w => g[v] = f[v]) => Sum(g, n) = Sum(f, n) + g[w] - f[w]
<1>1. PICK F : /\ Sum(f, n) = F[n]
               /\ F[0] = f[0] + 0
               /\ \A m \in 1 .. n : F[m] = f[m] + F[m - 1]
  BY SumSteps, ZenonT(30)
<1>2. PICK G : /\ Sum(g, n) = G[n]
               /\ G[0] = g[0] + 0
               /\ \A m \in 1 .. n : G[m] = g[m] + G[m - 1]
  BY SumSteps, ZenonT(30)
<1> HAVE \A v \in 0 .. n : v # w => g[v] = f[v]
<1> DEFINE Good(m) == /\ F[m] \in Int /\ G[m] \in Int
                      /\ G[m] = F[m] + IF m >= w THEN g[w] - f[w] ELSE 0
           S == {m \in Nat : m <= n => Good(m)}
<1>3. 0 \in S
  BY <1>1, <1>2
<1>4. \A m \in S : m + 1 \in S
  <2> HIDE DEF Good
  <2> SUFFICES ASSUME NEW m \in S, m + 1 <= n PROVE Good(m + 1)
    OBVIOUS
  <2>1. m + 1 \in 1 .. n /\ m \in Nat /\ (m + 1) - 1 = m /\ Good(m)
    OBVIOUS
  <2>2. F[m + 1] = f[m + 1] + F[m] /\ G[m + 1] = g[m + 1] + G[m]
    BY <1>1, <1>2, <2>1
  <2>3. f[m + 1] \in Nat /\ g[m + 1] \in Nat /\ g[w] \in Nat /\ f[w] \in Nat
    BY <2>1
  <2>4. m + 1 # w => g[m + 1] = f[m + 1]
    BY <2>1
  <2> USE DEF Good
  <2>5. CASE m + 1 < w
    BY <2>1, <2>2, <2>3, <2>4, <2>5
  <2>6. CASE m + 1 = w
    <3>1. G[m] = F[m]
      BY <2>1, <2>6
    <3> QED
      BY <2>1, <2>2, <2>3, <2>6, <3>1
  <2>7. CASE m + 1 > w
    <3>1. m >= w /\ g[m + 1] = f[m + 1]
      BY <2>1, <2>4, <2>7
    <3>2. F[m] \in Int /\ G[m] \in Int /\ G[m] = F[m] + (g[w] - f[w])
      BY <2>1, <3>1
    <3> DEFINE a == F[m]
               b == G[m]
               c == f[m + 1]
               d == g[w] - f[w]
    <3>3. a \in Int /\ b \in Int /\ c \in Int /\ d \in Int /\ b = a + d
      BY <2>3, <3>2
    <3>4. F[m + 1] = c + a /\ G[m + 1] = c + b
      BY <2>2, <3>1
    <3> HIDE DEF a, b, c, d
    <3>5. G[m + 1] = F[m + 1] + d /\ F[m + 1] \in Int /\ G[m + 1] \in Int
      BY <3>3, <3>4
    <3> QED
      BY <2>7, <3>5 DEF d
  <2> HIDE DEF Good
  <2> QED
    BY <2>1, <2>5, <2>6, <2>7
<1> HIDE DEF Good
<1>5. S = Nat
  BY <1>3, <1>4, SetInduction
<1>6. Good(n)
  BY <1>5, SMTT(30)
<1> QED
  BY <1>1, <1>2, <1>6 DEF Good

--------------------------------------------------------------------------------
(* 2. The invariant                                                          *)

ReaderRecord == [pc : ReaderPlaces, cur : Seq(Buffer), rindex : Nat, at : Nat, num : Nat,
                 alloc : BOOLEAN, stop : BOOLEAN]
RingRecord == [full : Seq(Batch), count : Int, closed : BOOLEAN, empty : Int]
WorkerRecord == [pc : WorkerPlaces, batch : Batch, rindex : Nat, discard : SUBSET Buffer, free : Nat]

Types ==
    /\ size \in Sizes
    /\ list \in Seq(Buffer) /\ inUse \in SUBSET Buffer /\ numFree \in Int
    /\ refcnt \in [Buffer -> Nat]
    /\ reader \in ReaderRecord
    /\ ring \in [Workers -> RingRecord]
    /\ worker \in [Workers -> WorkerRecord]
    /\ held \in [Tables -> SUBSET Buffer]

\* The batch of the reader is empty, full and being written, or being fetched.
ReaderStage ==
    /\ Injective(reader.cur)
    /\ \/ reader.pc \in {"read", "assign"} /\ Len(reader.cur) = BatchSize /\ reader.rindex < BatchSize
       \/ /\ reader.pc = "scan" /\ reader.rindex = 0 /\ reader.num = Len(reader.cur)
          /\ reader.num <= BatchSize /\ reader.at <= Len(list)
       \/ /\ reader.pc = "popped" /\ reader.rindex = 0 /\ reader.num = Len(reader.cur)
          /\ reader.num = BatchSize
       \/ reader.pc \notin {"assign", "scan", "popped"} /\ reader.cur = <<>> /\ reader.rindex = 0

RingStage == \A r \in Workers : \A i \in 1 .. Len(ring[r].full) : Injective(ring[r].full[i].bufs)

\* What worker w has where, in its record k.
StageOf(w, k) ==
    /\ Injective(k.batch.bufs)
    /\ k.free # 0 => k.pc \in {"free", "events", "eof"}
    /\ k.pc \in {"idle", "done", "eof", "end"} => k.batch.bufs = <<>>
    /\ k.pc = "free" /\ w # Decoder /\ k.batch.bufs = <<>> => k.free = 0
    /\ w # Decoder \/ k.pc \notin {"event", "expiry", "discard"} => k.discard = {}
    /\ w = Decoder /\ k.pc \in {"free", "expiry", "discard"} => k.batch.bufs = <<>>
    /\ k.discard \cap Elements(k.batch.bufs) = {}
WorkerStage(w) == StageOf(w, worker[w])

Lines == {Current} \cup Workers

\* A buffer is at one place at most.
Exclusive ==
    \A b \in Buffer : \A r, s \in Lines : \A i, j \in Nat :
        b \in Part(r, i) /\ b \in Part(s, j) => r = s /\ i = j

Placed(b) == \E r \in Lines : \E i \in Nat : b \in Part(r, i)

InUse ==
    /\ \A b \in Buffer : b \in inUse <=> Placed(b) \/ Copied(b)
    /\ inUse \subseteq Elements(list)

Seen(t, b) == \E k \in 1 .. worker[t].rindex :
                k <= Len(worker[t].batch.bufs) /\ worker[t].batch.bufs[k] = b

\* A copy belongs to one table, and its buffer is nowhere else than among those the table
\* has handled.
Copies ==
    \A t \in Tables : \A b \in held[t] :
        /\ \A u \in Tables : b \in held[u] => u = t
        /\ \A r \in Lines : \A i \in Nat : b \in Part(r, i) => r = t /\ i = 0 /\ Seen(t, b)

Written(b) == \E k \in 1 .. reader.rindex : k <= Len(reader.cur) /\ reader.cur[k] = b
Live(b) == Written(b) \/ \E r \in Workers : \E i \in Nat : b \in Part(r, i)

\* There is a reference for the batch, and one for the copy.
References ==
    \A b \in Buffer : refcnt[b] = (IF Live(b) THEN 1 ELSE 0) + (IF Copied(b) THEN 1 ELSE 0)

Ahead == {list[i] : i \in reader.at + 1 .. Len(list)}

\* The buffers that are still needed will be found.
ScanFinds ==
    reader.pc = "scan" => Cardinality(Ahead \ inUse) + reader.num >= BatchSize

Stages == ReaderStage /\ RingStage /\ \A w \in Workers : WorkerStage(w)
Ownership == Exclusive /\ InUse /\ Copies /\ References
PoolInv == Types /\ Stages /\ Ownership /\ FreeAccounted /\ ScanFinds

\* What the types of the instance say of workers, tables and lines.
LEMMA SizeTypes ==
    ASSUME size \in Sizes
    PROVE  /\ BatchSize \in Nat /\ BatchSize >= 1 /\ NumTables \in Nat /\ NumTables >= 1
           /\ size.buffers \in Nat /\ Workers = 0 .. NumTables /\ Tables = 1 .. NumTables
           /\ Tables \subseteq Workers /\ Decoder \in Workers /\ Decoder \notin Tables
           /\ Current \notin Workers /\ Current \in Lines /\ Workers \subseteq Lines
           /\ \A w \in Workers : w = Decoder \/ w \in Tables
BY SizesAssumption DEF SizeType, BatchSize, NumTables, Workers, Tables, Decoder, Current, Lines

\* What is read of a batch at each place, once for this state and once for the next.
LEMMA PartIs ==
    /\ Part(Current, 0) = Elements(reader.cur)
    /\ \A r \in Workers : Part(r, 0) =
        worker[r].discard \cup (IF At(r, "free") THEN {} ELSE Elements(worker[r].batch.bufs))
    /\ \A r \in Lines : \A i \in Nat \ {0} : Part(r, i) =
        IF r \in Workers /\ i <= Len(ring[r].full) THEN Elements(ring[r].full[i].bufs) ELSE {}
BY DEF Part, Current, Workers, Lines, Decoder

\* The same in the next state.
LEMMA PartWillBe ==
    /\ Part(Current, 0)' = Elements(reader'.cur)
    /\ \A r \in Workers' : Part(r, 0)' =
        worker'[r].discard \cup (IF At(r, "free")' THEN {} ELSE Elements(worker'[r].batch.bufs))
    /\ \A r \in Lines' : \A i \in Nat \ {0} : Part(r, i)' =
        IF r \in Workers' /\ i <= Len(ring'[r].full) THEN Elements(ring'[r].full[i].bufs) ELSE {}
BY DEF Part, Current, Workers, Lines, Decoder

--------------------------------------------------------------------------------
(* 3. What the steps have in common                                          *)

\* The instance does not change.
LEMMA SameSize ==
    ASSUME size' = size
    PROVE  /\ Workers' = Workers /\ Tables' = Tables /\ Lines' = Lines /\ Buffer' = Buffer
           /\ Batch' = Batch /\ BatchSize' = BatchSize /\ NumTables' = NumTables
           /\ ReaderRecord' = ReaderRecord /\ RingRecord' = RingRecord
           /\ WorkerRecord' = WorkerRecord
BY DEF Workers, Tables, Lines, Buffer, Batch, BatchSize, NumTables, Decoder, Current,
       ReaderRecord, RingRecord, WorkerRecord, ReaderPlaces, WorkerPlaces

\* The types hold in the next state when each variable has its type.
LEMMA TypesGo ==
    ASSUME Types, size' = size, list' \in Seq(Buffer), inUse' \in SUBSET Buffer, numFree' \in Int,
           refcnt' \in [Buffer -> Nat], reader' \in ReaderRecord, ring' \in [Workers -> RingRecord],
           worker' \in [Workers -> WorkerRecord], held' \in [Tables -> SUBSET Buffer]
    PROVE  Types'
BY SameSize DEF Types

\* The buffers are where they were.
SameParts == \A r \in Lines : \A i \in Nat : Part(r, i)' = Part(r, i)

\* A worker has the same buffers in the same place.
SameWork(w) ==
    /\ worker'[w].discard = worker[w].discard /\ worker'[w].batch.bufs = worker[w].batch.bufs
    /\ (worker'[w].pc = "free") <=> (worker[w].pc = "free")

\* A worker that works on the same buffers has the same buffers.
LEMMA PartStays ==
    ASSUME size' = size, NEW w \in Workers, SameWork(w)
    PROVE  Part(w, 0)' = Part(w, 0)
<1>1. At(w, "free")' = At(w, "free")
  BY DEF SameWork, At
<1>2. Elements(worker'[w].batch.bufs) = Elements(worker[w].batch.bufs)
  BY DEF SameWork
<1> QED
  BY PartIs, PartWillBe, SameSize, <1>1, <1>2 DEF SameWork

\* The batches in the ring of a worker.
LEMMA LineOf ==
    ASSUME NEW w \in Workers, NEW i \in Nat \ {0}
    PROVE  /\ Part(w, i) = IF i <= Len(ring[w].full) THEN Elements(ring[w].full[i].bufs) ELSE {}
           /\ size' = size =>
              Part(w, i)' = IF i <= Len(ring'[w].full) THEN Elements(ring'[w].full[i].bufs) ELSE {}
<1>1. w \in Lines
  BY DEF Lines
<1> QED
  BY PartIs, PartWillBe, SameSize, <1>1

\* A ring that does not change holds the same buffers.
LEMMA LineStays ==
    ASSUME size' = size, NEW w \in Workers, ring'[w].full = ring[w].full
    PROVE  \A i \in Nat \ {0} : Part(w, i)' = Part(w, i)
BY LineOf

\* The reader has one batch and no line of them.
LEMMA ReaderLine ==
    ASSUME Types
    PROVE  /\ \A i \in Nat \ {0} : Part(Current, i) = {}
           /\ size' = size => \A i \in Nat \ {0} : Part(Current, i)' = {}
<1>1. Current \in Lines /\ Current \notin Workers
  BY SizeTypes DEF Types
<1>2. \A i \in Nat \ {0} : Part(Current, i) = {}
  BY PartIs, <1>1
<1>3. size' = size => \A i \in Nat \ {0} : Part(Current, i)' = {}
  BY PartWillBe, SameSize, <1>1
<1> QED
  BY <1>2, <1>3

\* Every buffer stays when the reader, the workers and the rings keep theirs.
LEMMA PartsStay ==
    ASSUME Types, size' = size, reader'.cur = reader.cur,
           \A w \in Workers : SameWork(w) /\ ring'[w].full = ring[w].full
    PROVE  SameParts
<1>1. Part(Current, 0)' = Part(Current, 0)
  BY PartIs, PartWillBe
<1>2. \A i \in Nat : Part(Current, i)' = Part(Current, i)
  BY <1>1, ReaderLine
<1>3. \A w \in Workers : \A i \in Nat : Part(w, i)' = Part(w, i)
  BY PartStays, LineStays
<1> QED
  BY <1>2, <1>3 DEF SameParts, Lines

\* No buffer moves, and none is copied or given back.
LEMMA PlacesStay ==
    ASSUME Types, Ownership, SameParts,
           \A t \in Tables : \A b \in Part(t, 0) : Seen(t, b) => Seen(t, b)',
           inUse \subseteq Elements(list'), UNCHANGED <<inUse, held, size>>
    PROVE  Exclusive' /\ InUse' /\ Copies'
<1>1. /\ Workers' = Workers /\ Lines' = Lines /\ Tables' = Tables /\ Buffer' = Buffer
      /\ Tables \subseteq Lines
  BY SizeTypes, SameSize DEF Types
<1>2. \A r \in Lines : \A i \in Nat : Part(r, i)' = Part(r, i)
  BY DEF SameParts
<1>3. \A b \in Buffer : Copied(b)' = Copied(b)
  BY <1>1 DEF Copied
<1>4. \A b \in Buffer : Placed(b)' = Placed(b)
  BY <1>1, <1>2 DEF Placed
<1>5. Exclusive'
  BY <1>1, <1>2 DEF Exclusive, Ownership
<1>6. InUse'
  BY <1>1, <1>3, <1>4 DEF InUse, Ownership, Elements
<1>7. Copies'
  <2> SUFFICES ASSUME NEW t \in Tables, NEW b \in held[t]
               PROVE  /\ \A u \in Tables : b \in held[u] => u = t
                      /\ \A r \in Lines : \A i \in Nat :
                            b \in Part(r, i)' => r = t /\ i = 0 /\ Seen(t, b)'
    BY <1>1 DEF Copies
  <2>1. /\ \A u \in Tables : b \in held[u] => u = t
        /\ \A r \in Lines : \A i \in Nat : b \in Part(r, i) => r = t /\ i = 0 /\ Seen(t, b)
    BY DEF Ownership, Copies
  <2> QED
    BY <1>2, <2>1
<1> QED
  BY <1>5, <1>6, <1>7

\* Where no buffer moves, the references are right as well.
LEMMA OwnershipStays ==
    ASSUME Types, Ownership, SameParts,
           \A t \in Tables : \A b \in Part(t, 0) : Seen(t, b) => Seen(t, b)',
           reader'.cur = reader.cur, reader'.rindex = reader.rindex,
           inUse \subseteq Elements(list'), UNCHANGED <<inUse, refcnt, held, size>>
    PROVE  Ownership'
<1>1. /\ Workers' = Workers /\ Lines' = Lines /\ Tables' = Tables /\ Buffer' = Buffer
  BY SameSize
<1>2. \A b \in Buffer : Copied(b)' = Copied(b)
  BY <1>1 DEF Copied
<1>3. \A b \in Buffer : Live(b)' = Live(b)
  BY <1>1 DEF Live, Written, Lines, SameParts
<1>4. References'
  BY <1>1, <1>2, <1>3 DEF References, Ownership
<1> QED
  BY <1>4, PlacesStay DEF Ownership

\* The sum of what workers are about to add to numFree.
LEMMA SumIsNatural ==
    ASSUME Types
    PROVE  SumOfFree \in Nat
<1>1. NumTables \in Nat /\ Workers = 0 .. NumTables
  BY SizeTypes DEF Types
<1>2. [w \in Workers |-> worker[w].free] \in [0 .. NumTables -> Nat]
  BY <1>1 DEF Types, WorkerRecord
<1> QED
  BY <1>1, <1>2, SumOfNaturals DEF SumOfFree

\* What is being given back stays as it is.
LEMMA SumStays ==
    ASSUME Types, size' = size, \A w \in Workers : worker'[w].free = worker[w].free
    PROVE  SumOfFree' = SumOfFree
<1>1. Workers' = Workers /\ NumTables' = NumTables
  BY SameSize
<1>2. [w \in Workers |-> worker[w].free]' = [w \in Workers |-> worker[w].free]
  BY <1>1
<1> QED
  BY <1>1, <1>2 DEF SumOfFree

\* One worker has another number to give back.
LEMMA SumGoes ==
    ASSUME Types, size' = size, NEW w \in Workers, worker'[w].free \in Nat,
           \A v \in Workers : v # w => worker'[v].free = worker[v].free
    PROVE  SumOfFree' = SumOfFree + worker'[w].free - worker[w].free
<1>1. /\ Workers' = Workers /\ NumTables' = NumTables
      /\ NumTables \in Nat /\ Workers = 0 .. NumTables
  BY SizeTypes, SameSize DEF Types
<1> DEFINE f == [v \in Workers |-> worker[v].free]
           g == [v \in Workers |-> worker'[v].free]
<1>2. f \in [0 .. NumTables -> Nat]
  BY <1>1 DEF Types, WorkerRecord
<1>3. g \in [0 .. NumTables -> Nat]
  <2>1. \A v \in Workers : worker'[v].free \in Nat
    BY <1>2
  <2> QED
    BY <1>1, <2>1
<1>4. \A v \in 0 .. NumTables : v # w => g[v] = f[v]
  BY <1>1
<1>5. g[w] = worker'[w].free /\ f[w] = worker[w].free
  OBVIOUS
<1>6. SumOfFree = Sum(f, NumTables) /\ SumOfFree' = Sum(g, NumTables)
  BY <1>1 DEF SumOfFree
<1> HIDE DEF f, g
<1>7. Sum(g, NumTables) = Sum(f, NumTables) + g[w] - f[w]
  BY <1>1, <1>2, <1>3, <1>4, SumChanges
<1> QED
  BY <1>5, <1>6, <1>7

\* Sets of buffers are finite.
LEMMA BuffersAreFinite ==
    ASSUME Types, NEW S \in SUBSET Buffer
    PROVE  IsFiniteSet(S) /\ Cardinality(S) \in Nat
<1>0. Buffer = 1 .. size.buffers /\ size.buffers \in Int
  BY SizeTypes DEF Buffer, Types
<1>1. IsFiniteSet(Buffer)
  BY <1>0, FS_Interval
<1>2. IsFiniteSet(S)
  BY <1>1, FS_Subset
<1> QED
  BY <1>2, FS_CardinalityType

\* The elements of a sequence of buffers are buffers.
LEMMA ElementsAre ==
    ASSUME NEW T, NEW s \in Seq(T)
    PROVE  Elements(s) \in SUBSET T
BY DEF Elements

\* The size of two sets of buffers that have none in common.
LEMMA DisjointSets ==
    ASSUME Types, NEW A \in SUBSET Buffer, NEW B \in SUBSET Buffer, A \cap B = {}
    PROVE  Cardinality(A \cup B) = Cardinality(A) + Cardinality(B)
<1>1. IsFiniteSet(A) /\ IsFiniteSet(B) /\ Cardinality(A) \in Nat /\ Cardinality(B) \in Nat
  BY BuffersAreFinite
<1>2. Cardinality(A \cup B) = Cardinality(A) + Cardinality(B) - Cardinality(A \cap B)
  BY <1>1, FS_Union
<1>3. Cardinality(A \cap B) = 0
  BY FS_EmptySet
<1> QED
  BY <1>1, <1>2, <1>3

\* Buffers B join the set that is not in use.
LEMMA MoreUnused ==
    ASSUME Types, NEW E \in SUBSET Buffer, NEW B \in SUBSET inUse, B \subseteq E
    PROVE  Cardinality(E \ (inUse \ B)) = Cardinality(E \ inUse) + Cardinality(B)
<1>1. E \ (inUse \ B) = (E \ inUse) \cup B /\ (E \ inUse) \cap B = {}
  OBVIOUS
<1>2. B \in SUBSET Buffer /\ E \ inUse \in SUBSET Buffer
  BY DEF Types
<1> QED
  BY <1>1, <1>2, DisjointSets

\* numFree and the search for buffers in steps that touch neither.
SameScan ==
    \/ reader'.pc \notin {"scan", "popped"} /\ reader.pc \notin {"scan", "popped"}
    \/ reader'.pc = reader.pc /\ reader'.at = reader.at /\ reader'.num = reader.num

\* numFree stays exact where neither it nor inUse nor the search changes.
LEMMA CountStays ==
    ASSUME Types, FreeAccounted, ScanFinds, SameScan,
           \A w \in Workers : worker'[w].free = worker[w].free,
           UNCHANGED <<list, inUse, numFree, size>>
    PROVE  FreeAccounted' /\ ScanFinds'
<1>1. SumOfFree' = SumOfFree /\ BatchSize' = BatchSize
  BY SumStays, SameSize
<1>2. FreeAccounted'
  BY <1>1 DEF FreeAccounted, SameScan
<1>3. ScanFinds'
  BY <1>1 DEF ScanFinds, SameScan, Ahead
<1> QED
  BY <1>2, <1>3

\* Batches in rings that do not change have no buffer twice.
LEMMA RingStays ==
    ASSUME RingStage, size' = size, \A w \in Workers : ring'[w].full = ring[w].full
    PROVE  RingStage'
BY SameSize DEF RingStage, Injective

\* Workers that do nothing stay as they are.
LEMMA WorkersStay ==
    ASSUME \A w \in Workers : WorkerStage(w), UNCHANGED <<worker, size>>
    PROVE  \A w \in Workers' : WorkerStage(w)'
BY SameSize DEF WorkerStage, StageOf, Injective, Elements

\* One worker goes on and the others stay as they are.
LEMMA WorkerGoes ==
    ASSUME \A w \in Workers : WorkerStage(w), size' = size, NEW w \in Workers,
           StageOf(w, worker[w])', \A v \in Workers : v # w => worker'[v] = worker[v]
    PROVE  \A v \in Workers' : WorkerStage(v)'
<1>1. WorkerStage(w)'
  BY DEF WorkerStage
<1>2. \A v \in Workers : v # w => WorkerStage(v)'
  BY DEF WorkerStage, StageOf, Injective, Elements
<1> QED
  BY <1>1, <1>2, SameSize

--------------------------------------------------------------------------------
(* 4. Steps of the reader                                                    *)

\* A step of the reader that leaves its batch alone.
LEMMA QuietReader ==
    ASSUME PoolInv, reader' \in ReaderRecord, ReaderStage', ScanFinds', FreeAccounted',
           reader'.cur = reader.cur, reader'.rindex = reader.rindex,
           list' \in Seq(Buffer), inUse \subseteq Elements(list'), numFree' \in Int,
           ring' \in [Workers -> RingRecord], \A w \in Workers : ring'[w].full = ring[w].full,
           UNCHANGED <<inUse, refcnt, worker, held, size>>
    PROVE  PoolInv'
<1>1. Types'
  BY TypesGo DEF PoolInv, Types
<1>2. SameParts
  BY PartsStay DEF PoolInv, SameWork
<1>3. Ownership'
  <2>1. \A t \in Tables : \A b \in Part(t, 0) : Seen(t, b) => Seen(t, b)'
    BY DEF Seen
  <2> QED
    BY <1>2, <2>1, OwnershipStays DEF PoolInv
<1>4. Stages'
  BY RingStays, WorkersStay DEF Stages, PoolInv
<1> QED
  BY <1>1, <1>3, <1>4 DEF PoolInv

\* The reader has no batch.
LEMMA PlainReader ==
    ASSUME PoolInv, reader.pc \notin {"scan", "popped", "assign"},
           reader.pc = "read" => reader.cur = <<>>,
           reader' \in ReaderRecord, reader'.pc \notin {"scan", "popped", "assign"},
           reader'.cur = reader.cur, reader'.rindex = reader.rindex,
           ring' \in [Workers -> RingRecord], \A w \in Workers : ring'[w].full = ring[w].full,
           UNCHANGED <<pool, worker, held, size>>
    PROVE  PoolInv'
<1>1. reader.cur = <<>> /\ reader.rindex = 0
  <2>1. CASE reader.pc = "read"
    <3>1. BatchSize >= 1 /\ Len(reader.cur) = 0 /\ BatchSize \in Nat
      BY <2>1, SizeTypes DEF PoolInv, Types
    <3> QED
      BY <2>1, <3>1 DEF PoolInv, Stages, ReaderStage
  <2>2. CASE reader.pc # "read"
    BY <2>2 DEF PoolInv, Stages, ReaderStage
  <2> QED
    BY <2>1, <2>2
<1>2. ReaderStage'
  BY <1>1 DEF ReaderStage, Injective
<1>3. FreeAccounted' /\ ScanFinds'
  BY CountStays DEF PoolInv, SameScan, pool
<1>4. list' \in Seq(Buffer) /\ inUse \subseteq Elements(list') /\ numFree' \in Int
  BY DEF pool, PoolInv, Types, Ownership, InUse
<1> QED
  BY <1>2, <1>3, <1>4, QuietReader DEF pool

\* The reader goes on, and only its place is another.
LEMMA Going ==
    ASSUME Types, NEW q \in ReaderPlaces, GoTo(q)
    PROVE  /\ reader' \in ReaderRecord /\ reader'.pc = q
           /\ reader'.cur = reader.cur /\ reader'.rindex = reader.rindex
           /\ reader'.at = reader.at /\ reader'.num = reader.num
BY DEF Types, GoTo, ReaderRecord

\* The types, out of the invariant.
LEMMA PoolTypes ==
    ASSUME PoolInv
    PROVE  /\ Types /\ reader \in ReaderRecord /\ ring \in [Workers -> RingRecord]
           /\ worker \in [Workers -> WorkerRecord] /\ list \in Seq(Buffer) /\ numFree \in Int
           /\ inUse \in SUBSET Buffer /\ inUse \subseteq Elements(list)
BY DEF PoolInv, Types, Ownership, InUse

\* The counts of a ring change.
LEMMA RingNumbers ==
    ASSUME ring \in [Workers -> RingRecord], NEW r \in Workers, NEW e \in Int, NEW c \in Int,
           ring' = [ring EXCEPT ![r].empty = e, ![r].count = c]
    PROVE  /\ ring' \in [Workers -> RingRecord]
           /\ \A w \in Workers : ring'[w].full = ring[w].full
BY DEF RingRecord

\* What FreeAccounted says where nothing is being fetched.
LEMMA FreeIs ==
    ASSUME PoolInv, reader.pc \notin {"scan", "popped"}
    PROVE  numFree = Cardinality(Elements(list) \ inUse) - SumOfFree
<1>1. SumOfFree \in Nat /\ Cardinality(Elements(list) \ inUse) \in Nat
  BY PoolTypes, SumIsNatural, BuffersAreFinite, ElementsAre
<1> QED
  BY <1>1 DEF PoolInv, FreeAccounted

\* A packet is read.
LEMMA ReadPacketStep == ASSUME PoolInv, ReadPacket PROVE PoolInv'
<1>1. /\ UNCHANGED <<pool, ring, worker, held, size>> /\ reader.pc = "read"
      /\ GoTo(IF reader.cur = <<>> THEN "pop" ELSE "assign")
  BY DEF ReadPacket, Reading
<1>2. CASE reader.cur = <<>>
  BY <1>1, <1>2, PoolTypes, Going, PlainReader DEF ReaderPlaces
<1>3. CASE reader.cur # <<>>
  <2>1. /\ reader' \in ReaderRecord /\ reader'.pc = "assign"
        /\ reader'.cur = reader.cur /\ reader'.rindex = reader.rindex
    BY <1>1, <1>3, PoolTypes, Going DEF ReaderPlaces
  <2>2. ReaderStage'
    BY <1>1, <1>3, <2>1 DEF ReaderStage, PoolInv, Stages, BatchSize, Injective
  <2>3. FreeAccounted' /\ ScanFinds'
    BY <1>1, <2>1, CountStays DEF PoolInv, SameScan, pool
  <2> QED
    BY <1>1, <2>1, <2>2, <2>3, PoolTypes, QuietReader DEF pool
<1> QED
  BY <1>2, <1>3

\* The reader takes an empty batch.
LEMMA NextBatchStep == ASSUME PoolInv, NextBatch PROVE PoolInv'
<1>1. /\ UNCHANGED <<pool, worker, held, size>> /\ reader.pc = "next" /\ GoTo("read")
      /\ ring' = [ring EXCEPT ![Decoder].empty = @ - 1]
  BY DEF NextBatch, Reading
<1>2. Decoder \in Workers
  BY SizeTypes, PoolTypes DEF Types
<1>3. ring' \in [Workers -> RingRecord] /\ \A w \in Workers : ring'[w].full = ring[w].full
  <2>1. ring \in [Workers -> RingRecord]
    BY PoolTypes
  <2>2. ring[Decoder].empty - 1 \in Int /\ ring[Decoder].count \in Int
    BY <1>2, <2>1 DEF RingRecord
  <2>3. ring' = [ring EXCEPT ![Decoder].empty = ring[Decoder].empty - 1,
                             ![Decoder].count = ring[Decoder].count]
    BY <1>1, <1>2, <2>1 DEF RingRecord
  <2> QED
    BY <1>2, <2>1, <2>2, <2>3, RingNumbers
<1>4. /\ reader' \in ReaderRecord /\ reader'.pc = "read"
      /\ reader'.cur = reader.cur /\ reader'.rindex = reader.rindex
  BY <1>1, PoolTypes, Going DEF ReaderPlaces
<1> QED
  BY <1>1, <1>3, <1>4, PlainReader

\* Rings are closed, which moves no batch.
LEMMA Closing ==
    ASSUME PoolInv, NEW R, CloseRings(R)
    PROVE  /\ ring' \in [Workers -> RingRecord] /\ \A w \in Workers : ring'[w].full = ring[w].full
           /\ UNCHANGED <<pool, worker, held, size>>
<1>1. /\ ring' = [x \in Workers |-> IF x \in R THEN [ring[x] EXCEPT !.closed = TRUE] ELSE ring[x]]
      /\ UNCHANGED <<pool, worker, held, size>>
  BY DEF CloseRings
<1>2. ring \in [Workers -> RingRecord]
  BY PoolTypes
<1>3. \A x \in Workers : [ring[x] EXCEPT !.closed = TRUE] \in RingRecord
                         /\ [ring[x] EXCEPT !.closed = TRUE].full = ring[x].full
  BY <1>2 DEF RingRecord
<1> QED
  BY <1>1, <1>2, <1>3

\* The ring of the decoder is closed.
LEMMA CloseDecodeStep == ASSUME PoolInv, CloseDecode PROVE PoolInv'
<1>1. reader.pc = "close" /\ GoTo("join") /\ CloseRings({Decoder})
  BY DEF CloseDecode, Reading
<1>2. /\ reader' \in ReaderRecord /\ reader'.pc = "join"
      /\ reader'.cur = reader.cur /\ reader'.rindex = reader.rindex
  BY <1>1, PoolTypes, Going DEF ReaderPlaces
<1> QED
  BY <1>1, <1>2, Closing, PlainReader

\* The rings of the tables are closed.
LEMMA FlushTablesStep == ASSUME PoolInv, FlushTables PROVE PoolInv'
<1>1. reader.pc = "join" /\ GoTo("flush") /\ CloseRings(Tables)
  BY DEF FlushTables, Reading
<1>2. /\ reader' \in ReaderRecord /\ reader'.pc = "flush"
      /\ reader'.cur = reader.cur /\ reader'.rindex = reader.rindex
  BY <1>1, PoolTypes, Going DEF ReaderPlaces
<1> QED
  BY <1>1, <1>2, Closing, PlainReader

\* The reader has finished.
LEMMA FinishedStep == ASSUME PoolInv, Finished PROVE PoolInv'
<1>1. /\ UNCHANGED <<pool, ring, worker, held, size>> /\ reader.pc = "eof" /\ GoTo("finished")
  BY DEF Finished, Reading
<1> QED
  BY <1>1, PoolTypes, Going, PlainReader DEF ReaderPlaces

\* numFree is looked at again before the reader waits.
LEMMA RecheckStep == ASSUME PoolInv, Recheck PROVE PoolInv'
<1>1. /\ UNCHANGED <<pool, ring, worker, held, size>> /\ reader.pc = "recheck"
      /\ GoTo(IF numFree < BatchSize THEN "wait" ELSE "pop")
  BY DEF Recheck, Reading
<1> DEFINE q == IF numFree < BatchSize THEN "wait" ELSE "pop"
<1>2. q \in ReaderPlaces /\ q \notin {"scan", "popped", "assign"}
  BY DEF ReaderPlaces
<1> HIDE DEF q
<1>3. GoTo(q)
  BY <1>1 DEF q
<1> QED
  BY <1>1, <1>2, <1>3, PoolTypes, Going, PlainReader

\* The reader waits.
LEMMA WaitStep == ASSUME PoolInv, Wait PROVE PoolInv'
<1>1. UNCHANGED <<pool, ring, worker, held, size>> /\ reader.pc = "wait" /\ GoTo("waiting")
  BY DEF Wait, Reading
<1> QED
  BY <1>1, PoolTypes, Going, PlainReader DEF ReaderPlaces

\* The usage of one ring is looked at.
LEMMA UsageStep == ASSUME PoolInv, Usage PROVE PoolInv'
<1> DEFINE n == reader.at + 1
           a == reader.alloc \/ ring[reader.at].count < size.low
           s == reader.stop \/ ring[reader.at].count > size.high
<1>1. /\ UNCHANGED <<pool, ring, worker, held, size>> /\ reader.pc = "starved"
      /\ reader' = [reader EXCEPT !.at = n, !.alloc = a, !.stop = s]
  BY DEF Usage, Reading
<1>2. reader \in ReaderRecord
  BY PoolTypes
<1>3. n \in Nat /\ a \in BOOLEAN /\ s \in BOOLEAN
  BY <1>2 DEF ReaderRecord
<1> HIDE DEF n, a, s
<1>4. /\ reader' \in ReaderRecord /\ reader'.pc = reader.pc
      /\ reader'.cur = reader.cur /\ reader'.rindex = reader.rindex
  BY <1>1, <1>2, <1>3 DEF ReaderRecord
<1> QED
  BY <1>1, <1>4, PoolTypes, PlainReader

\* numFree is looked at: with enough of it the search will find enough buffers.
LEMMA PopStep == ASSUME PoolInv, Pop PROVE PoolInv'
<1> DEFINE q == IF numFree < BatchSize THEN "starved" ELSE "scan"
<1>1. /\ UNCHANGED <<pool, ring, worker, held, size>> /\ reader.pc = "pop"
      /\ reader' = [reader EXCEPT !.pc = q, !.at = 0, !.num = 0, !.alloc = FALSE, !.stop = FALSE]
  BY DEF Pop, Reading
<1>2. q \in ReaderPlaces
  BY DEF ReaderPlaces
<1>3. q = "scan" \/ q = "starved"
  OBVIOUS
<1>4. q = "scan" => ~(numFree < BatchSize)
  OBVIOUS
<1> HIDE DEF q
<1>5. /\ reader' \in ReaderRecord /\ reader'.pc = q /\ reader'.at = 0 /\ reader'.num = 0
      /\ reader'.cur = reader.cur /\ reader'.rindex = reader.rindex
  BY <1>1, <1>2, PoolTypes DEF ReaderRecord
<1>6. CASE q = "starved"
  BY <1>1, <1>5, <1>6, PoolTypes, PlainReader
<1>7. CASE q = "scan"
  <2>1. reader.cur = <<>> /\ reader.rindex = 0
    BY <1>1 DEF PoolInv, Stages, ReaderStage
  <2>2. /\ BatchSize' = BatchSize /\ BatchSize \in Nat /\ numFree \in Int /\ list \in Seq(Buffer)
        /\ list' = list /\ inUse' = inUse /\ numFree' = numFree
    BY <1>1, SameSize, SizeTypes, PoolTypes DEF pool, Types
  <2>3. ReaderStage'
    BY <1>5, <1>7, <2>1, <2>2 DEF ReaderStage, Injective
  <2>4. SumOfFree' = SumOfFree /\ SumOfFree \in Nat
    BY <1>1, PoolTypes, SumStays, SumIsNatural
  <2>5. numFree = Cardinality(Elements(list) \ inUse) - SumOfFree
    BY <1>1, PoolTypes, <2>2, <2>4, FreeIs
  <2>6. Cardinality(Elements(list) \ inUse) \in Nat
    BY PoolTypes, BuffersAreFinite, ElementsAre
  <2>7. FreeAccounted'
    BY <1>5, <2>2, <2>4, <2>5, <2>6 DEF FreeAccounted
  <2>8. ScanFinds'
    <3>1. Ahead' = Elements(list)
      BY <1>5, <2>2 DEF Ahead, Elements
    <3>2. Cardinality(Elements(list) \ inUse) >= BatchSize
      BY <1>4, <1>7, <2>2, <2>4, <2>5, <2>6
    <3> QED
      BY <1>5, <2>2, <2>6, <3>1, <3>2 DEF ScanFinds
  <2> QED
    BY <1>1, <1>5, <2>2, <2>3, <2>7, <2>8, PoolTypes, QuietReader DEF pool
<1> QED
  BY <1>3, <1>6, <1>7

\* Newly allocated buffers are new, and as many as a batch has.
LEMMA FreshHolds ==
    ASSUME Types, Cardinality(Unallocated) >= BatchSize
    PROVE  /\ Fresh \in Seq(Buffer) /\ Elements(Fresh) \in SUBSET Unallocated
           /\ Cardinality(Elements(Fresh)) = BatchSize
<1>1. /\ BatchSize \in Nat /\ Unallocated \in SUBSET Buffer
  BY SizeTypes DEF Types, Unallocated
<1> DEFINE m == Cardinality(Unallocated)
<1>2. m \in Nat /\ ExistsBijection(1 .. m, Unallocated)
  BY <1>1, BuffersAreFinite, FS_CardinalityType
<1>3. PICK f : f \in Bijection(1 .. m, Unallocated)
  BY <1>2 DEF ExistsBijection
<1>4. m >= BatchSize
  OBVIOUS
<1> HIDE DEF m
<1> DEFINE g == [i \in 1 .. BatchSize |-> f[i]]
<1>5. f \in [1 .. m -> Unallocated] /\ \A i, j \in 1 .. m : f[i] = f[j] => i = j
  BY <1>3 DEF Bijection, Injection, IsInjective
<1>6. 1 .. BatchSize \subseteq 1 .. m
  BY <1>1, <1>2, <1>4
<1>7. g \in [1 .. BatchSize -> Unallocated] /\ \A i, j \in 1 .. BatchSize : g[i] = g[j] => i = j
  BY <1>5, <1>6
<1>8. /\ Fresh \in [1 .. BatchSize -> Unallocated]
      /\ \A i, j \in 1 .. BatchSize : Fresh[i] = Fresh[j] => i = j
  BY <1>7 DEF Fresh
<1>9. Fresh \in Seq(Buffer) /\ Len(Fresh) = BatchSize
  <2>1. Fresh \in [1 .. BatchSize -> Buffer]
    BY <1>1, <1>8
  <2> QED
    BY <1>1, <2>1
<1>10. Elements(Fresh) \in SUBSET Unallocated
  BY <1>8, <1>9 DEF Elements
<1>11. Fresh \in Bijection(1 .. BatchSize, Elements(Fresh))
  <2>1. Fresh \in [1 .. BatchSize -> Elements(Fresh)]
    BY <1>8, <1>9 DEF Elements
  <2>2. \A b \in Elements(Fresh) : \E i \in 1 .. BatchSize : Fresh[i] = b
    BY <1>9 DEF Elements
  <2> QED
    BY <1>8, <2>1, <2>2 DEF Bijection, Injection, Surjection, IsInjective
<1>12. Cardinality(Elements(Fresh)) = BatchSize
  BY <1>1, <1>11, FS_CountingElements DEF ExistsBijection
<1> QED
  BY <1>9, <1>10, <1>12

\* Two sequences, one after the other.
LEMMA Joined ==
    ASSUME NEW T, NEW s \in Seq(T), NEW t \in Seq(T)
    PROVE  s \o t \in Seq(T) /\ Elements(s \o t) = Elements(s) \cup Elements(t)
<1> DEFINE u == s \o t
           m == Len(s)
           n == Len(t)
<1>1. /\ u \in Seq(T) /\ m \in Nat /\ n \in Nat /\ Len(u) = m + n
      /\ \A i \in 1 .. m + n : u[i] = IF i <= m THEN s[i] ELSE t[i - m]
  OBVIOUS
<1> HIDE DEF u, m, n
<1>2. \A i \in 1 .. m : i \in 1 .. m + n /\ u[i] = s[i]
  BY <1>1
<1>3. \A j \in 1 .. n : m + j \in 1 .. m + n /\ u[m + j] = t[j]
  <2> TAKE j \in 1 .. n
  <2>1. m + j \in 1 .. m + n /\ ~(m + j <= m) /\ (m + j) - m = j
    BY <1>1
  <2>2. u[m + j] = t[(m + j) - m]
    BY <1>1, <2>1
  <2> QED
    BY <2>1, <2>2
<1>4. \A i \in 1 .. m + n : i \in 1 .. m \/ (i - m \in 1 .. n /\ u[i] = t[i - m])
  BY <1>1
<1>5. {u[i] : i \in 1 .. m + n} = {s[i] : i \in 1 .. m} \cup {t[i] : i \in 1 .. n}
  BY <1>2, <1>3, <1>4
<1> QED
  BY <1>1, <1>5 DEF Elements, u, m, n

\* New buffers are allocated, or not.
LEMMA StarvedStep == ASSUME PoolInv, Starved PROVE PoolInv'
<1>1. /\ UNCHANGED <<inUse, refcnt, ring, worker, held, size>>
      /\ reader.pc = "starved" /\ GoTo("recheck")
      /\ \/ UNCHANGED <<list, numFree>>
         \/ /\ Cardinality(Unallocated) >= BatchSize
            /\ list' = list \o Fresh /\ numFree' = numFree + BatchSize
  BY DEF Starved, Reading
<1>2. /\ reader' \in ReaderRecord /\ reader'.pc = "recheck"
      /\ reader'.cur = reader.cur /\ reader'.rindex = reader.rindex
  BY <1>1, PoolTypes, Going DEF ReaderPlaces
<1>3. CASE UNCHANGED <<list, numFree>>
  BY <1>1, <1>2, <1>3, PoolTypes, PlainReader DEF pool
<1>4. CASE /\ Cardinality(Unallocated) >= BatchSize
           /\ list' = list \o Fresh /\ numFree' = numFree + BatchSize
  <2> DEFINE E == Elements(list)
             F == Elements(Fresh)
  <2>1. Fresh \in Seq(Buffer) /\ F \in SUBSET Unallocated /\ Cardinality(F) = BatchSize
    BY <1>4, PoolTypes, FreshHolds
  <2>2. list' \in Seq(Buffer) /\ Elements(list') = E \cup F
    BY <1>4, <2>1, PoolTypes, Joined
  <2>3. E \in SUBSET Buffer /\ inUse \subseteq E /\ F \in SUBSET Buffer /\ F \cap E = {}
    BY <2>1, PoolTypes, ElementsAre DEF Unallocated
  <2> HIDE DEF E, F
  <2>4. (E \cup F) \ inUse = (E \ inUse) \cup F
    BY <2>3
  <2>5. Cardinality((E \ inUse) \cup F) = Cardinality(E \ inUse) + Cardinality(F)
    BY <2>3, PoolTypes, DisjointSets
  <2>6. SumOfFree' = SumOfFree /\ SumOfFree \in Nat
    BY <1>1, PoolTypes, SumStays, SumIsNatural
  <2>7. numFree = Cardinality(E \ inUse) - SumOfFree
    BY <1>1, FreeIs DEF E
  <2>8. Cardinality(E \ inUse) \in Nat /\ BatchSize \in Nat
    BY <2>3, PoolTypes, BuffersAreFinite, SizeTypes DEF Types
  <2>9. Elements(list)' = E \cup F
    BY <2>2 DEF Elements
  <2>10. FreeAccounted'
    <3>1. Cardinality(Elements(list)' \ inUse') = Cardinality(E \ inUse) + BatchSize
      BY <1>1, <2>1, <2>4, <2>5, <2>9 DEF F
    <3>2. numFree' = Cardinality(Elements(list)' \ inUse') - SumOfFree'
      BY <1>4, <2>6, <2>7, <2>8, <3>1
    <3> QED
      BY <1>2, <2>8, <2>6, <3>1, <3>2 DEF FreeAccounted
  <2>11. ScanFinds'
    BY <1>2 DEF ScanFinds
  <2>12. ReaderStage'
    <3>1. reader.cur = <<>> /\ reader.rindex = 0
      BY <1>1 DEF PoolInv, Stages, ReaderStage
    <3> QED
      BY <1>2, <3>1 DEF ReaderStage, Injective
  <2>13. numFree' \in Int
    BY <1>4, <2>8, PoolTypes
  <2> QED
    BY <1>1, <1>2, <2>2, <2>3, <2>10, <2>11, <2>12, <2>13, PoolTypes, QuietReader
<1> QED
  BY <1>1, <1>3, <1>4

\* The buffers that were found leave numFree, and some may leave the pool.
LEMMA PoppedStep == ASSUME PoolInv, Popped PROVE PoolInv'
<1> DEFINE have == numFree - reader.num
<1>1. /\ UNCHANGED <<inUse, refcnt, ring, worker, held, size>>
      /\ reader.pc = "popped" /\ GoTo("assign")
      /\ \/ numFree' = have /\ UNCHANGED list
         \/ /\ list' = Only(list, Elements(list) \ Released)
            /\ numFree' = have - Cardinality(Released)
  BY DEF Popped, Reading
<1>2. /\ reader' \in ReaderRecord /\ reader'.pc = "assign"
      /\ reader'.cur = reader.cur /\ reader'.rindex = reader.rindex
  BY <1>1, PoolTypes, Going DEF ReaderPlaces
<1>3. /\ reader.rindex = 0 /\ reader.num = Len(reader.cur) /\ reader.num = BatchSize
      /\ Injective(reader.cur)
  BY <1>1 DEF PoolInv, Stages, ReaderStage
<1>4. ReaderStage'
  <2>1. BatchSize' = BatchSize /\ BatchSize >= 1 /\ BatchSize \in Nat
    BY <1>1, SameSize, SizeTypes, PoolTypes DEF Types
  <2> QED
    BY <1>2, <1>3, <2>1 DEF ReaderStage, Injective
<1>5. ScanFinds'
  BY <1>2 DEF ScanFinds
<1> DEFINE E == Elements(list)
<1>6. E \in SUBSET Buffer /\ inUse \subseteq E /\ Released \in SUBSET E /\ Released \cap inUse = {}
  BY PoolTypes, ElementsAre DEF Released, Unused, Elements
<1>7. SumOfFree' = SumOfFree /\ SumOfFree \in Nat
  BY <1>1, PoolTypes, SumStays, SumIsNatural
<1>8. reader.num \in Nat /\ numFree \in Int
  BY PoolTypes DEF ReaderRecord
<1>9. Cardinality(E \ inUse) \in Nat
  BY <1>6, PoolTypes, BuffersAreFinite
<1>10. have = Cardinality(E \ inUse) - SumOfFree
  BY <1>1, <1>7, <1>8, <1>9 DEF PoolInv, FreeAccounted
<1>11. have \in Int
  BY <1>8
<1> HIDE DEF have, E
<1>12. CASE numFree' = have /\ UNCHANGED list
  <2>1. Elements(list)' = E
    BY <1>12 DEF Elements, E
  <2>2. FreeAccounted'
    BY <1>1, <1>2, <1>7, <1>9, <1>10, <1>12, <2>1 DEF FreeAccounted
  <2> QED
    BY <1>1, <1>2, <1>4, <1>5, <1>11, <1>12, <2>2, PoolTypes, QuietReader
<1>13. CASE /\ list' = Only(list, Elements(list) \ Released)
            /\ numFree' = have - Cardinality(Released)
  <2>1. list' \in Seq(Buffer) /\ Elements(list') = E \ Released
    <3>1. list \in Seq(Buffer)
      BY PoolTypes
    <3>2. /\ Only(list, Elements(list) \ Released) \in Seq(Buffer)
          /\ Elements(Only(list, Elements(list) \ Released))
                = Elements(list) \cap (Elements(list) \ Released)
      BY <3>1, OnlyHolds
    <3> QED
      BY <1>13, <3>2 DEF E
  <2> DEFINE rest == (E \ Released) \ inUse
  <2>2. E \ inUse = rest \cup Released /\ rest \cap Released = {}
    BY <1>6
  <2>3. rest \in SUBSET Buffer /\ Released \in SUBSET Buffer
    BY <1>6
  <2> HIDE DEF rest
  <2>4. /\ Cardinality(rest \cup Released) = Cardinality(rest) + Cardinality(Released)
        /\ Cardinality(rest) \in Nat /\ Cardinality(Released) \in Nat
    BY <2>2, <2>3, PoolTypes, DisjointSets, BuffersAreFinite
  <2>5. Elements(list)' \ inUse' = rest
    BY <1>1, <2>1 DEF Elements, rest
  <2>6. numFree' = Cardinality(rest) - SumOfFree' /\ numFree' \in Int
    <3>1. Cardinality(E \ inUse) = Cardinality(rest) + Cardinality(Released)
      BY <2>2, <2>4
    <3> QED
      BY <1>7, <1>10, <1>11, <1>13, <2>4, <3>1
  <2>7. FreeAccounted'
    <3>1. reader'.pc \notin {"scan", "popped"}
      BY <1>2
    <3>2. numFree' = Cardinality(rest) - SumOfFree' + 0
      BY <1>7, <2>4, <2>6
    <3> QED
      BY <2>5, <3>1, <3>2 DEF FreeAccounted
  <2>8. inUse \subseteq Elements(list')
    BY <1>6, <2>1
  <2> QED
    BY <1>1, <1>2, <1>4, <1>5, <2>1, <2>6, <2>7, <2>8, PoolTypes, QuietReader
<1> QED
  BY <1>1, <1>12, <1>13

\* One buffer less.
LEMMA OneLess ==
    ASSUME Types, NEW S \in SUBSET Buffer, NEW x
    PROVE  /\ x \in S => Cardinality(S \ {x}) = Cardinality(S) - 1
           /\ x \notin S => S \ {x} = S
<1>1. IsFiniteSet(S)
  BY BuffersAreFinite
<1> QED
  BY <1>1, FS_RemoveElement

\* The search goes past a buffer that is in use.
LEMMA ScanPasses ==
    ASSUME PoolInv, reader.pc = "scan", NEW i, i = reader.at + 1, i <= Len(list), list[i] \in inUse,
           reader' = [reader EXCEPT !.at = i],
           UNCHANGED <<pool, ring, worker, held, size>>
    PROVE  PoolInv'
<1>1. /\ reader.at \in Nat /\ reader \in ReaderRecord /\ list \in Seq(Buffer)
  BY PoolTypes DEF ReaderRecord
<1>2. /\ reader' \in ReaderRecord /\ reader'.pc = "scan" /\ reader'.at = i
      /\ reader'.cur = reader.cur /\ reader'.rindex = reader.rindex /\ reader'.num = reader.num
  BY <1>1 DEF ReaderRecord
<1>3. BatchSize' = BatchSize
  BY SameSize
<1>4. ReaderStage'
  BY <1>2, <1>3 DEF PoolInv, Stages, ReaderStage, Injective, pool
<1>5. SumOfFree' = SumOfFree
  BY PoolTypes, SumStays
<1>6. FreeAccounted'
  BY <1>2, <1>5 DEF PoolInv, FreeAccounted, pool
<1>7. ScanFinds'
  <2>1. Ahead = Ahead' \cup {list[i]}
    <3>1. reader.at + 1 .. Len(list) = (i + 1 .. Len(list)) \cup {i}
      BY <1>1
    <3> QED
      BY <1>1, <1>2, <3>1 DEF Ahead, pool
  <2>2. Ahead \ inUse = Ahead' \ inUse'
    BY <2>1 DEF pool
  <2> QED
    BY <1>2, <1>3, <2>2 DEF PoolInv, ScanFinds
<1> QED
  BY <1>2, <1>4, <1>6, <1>7, PoolTypes, QuietReader DEF pool

\* A buffer that is not in use is taken.
LEMMA ScanTakes ==
    ASSUME PoolInv, reader.pc = "scan", NEW i, i = reader.at + 1, i <= Len(list), list[i] \notin inUse,
           Len(reader.cur) # BatchSize,
           reader' = [reader EXCEPT !.at = i, !.cur = Append(@, list[i]), !.num = @ + 1],
           inUse' = inUse \cup {list[i]},
           UNCHANGED <<list, numFree, refcnt, ring, worker, held, size>>
    PROVE  PoolInv'
<1> DEFINE x == list[i]
           E == Elements(list)
<1>1. /\ reader.at \in Nat /\ reader.num \in Nat /\ reader \in ReaderRecord
      /\ reader.cur \in Seq(Buffer) /\ list \in Seq(Buffer) /\ i \in 1 .. Len(list)
      /\ numFree \in Int /\ BatchSize \in Nat
  BY PoolTypes, SizeTypes DEF ReaderRecord, Types
<1>2. x \in Buffer /\ x \in E /\ E \in SUBSET Buffer /\ inUse \in SUBSET E
  BY <1>1, PoolTypes, ElementsAre DEF Elements
<1>3. /\ Injective(reader.cur) /\ reader.rindex = 0 /\ reader.num = Len(reader.cur)
      /\ reader.num <= BatchSize
  BY DEF PoolInv, Stages, ReaderStage
<1>4. Ownership
  BY DEF PoolInv
<1>5. \A r \in Lines : \A j \in Nat : x \notin Part(r, j)
  BY <1>2, <1>4 DEF Ownership, InUse, Placed
<1>6. /\ Workers' = Workers /\ Tables' = Tables /\ Lines' = Lines /\ Buffer' = Buffer
      /\ BatchSize' = BatchSize /\ Current \in Lines /\ Current \notin Workers
      /\ Tables \subseteq Workers /\ Lines = {Current} \cup Workers
  BY SameSize, SizeTypes, PoolTypes DEF Types, Lines
<1>7. x \notin Elements(reader.cur)
  BY <1>5, <1>6, PartIs
<1>8. /\ Append(reader.cur, x) \in Seq(Buffer)
      /\ Len(Append(reader.cur, x)) = Len(reader.cur) + 1
      /\ Elements(Append(reader.cur, x)) = Elements(reader.cur) \cup {x}
      /\ Injective(Append(reader.cur, x))
  BY <1>1, <1>2, <1>3, <1>7, AppendHolds
<1>9. /\ reader'.pc = "scan" /\ reader'.at = i /\ reader'.num = reader.num + 1
      /\ reader'.cur = Append(reader.cur, x) /\ reader'.rindex = 0
      /\ reader' \in ReaderRecord
  <2> DEFINE c == Append(reader.cur, x)
             n == reader.num + 1
  <2>1. reader' = [reader EXCEPT !.at = i, !.cur = c, !.num = n]
    BY <1>1 DEF ReaderRecord
  <2>2. c \in Seq(Buffer) /\ n \in Nat /\ i \in Nat
    BY <1>1, <1>8
  <2> HIDE DEF c, n
  <2>3. /\ reader'.pc = reader.pc /\ reader'.at = i /\ reader'.num = n /\ reader'.cur = c
        /\ reader'.rindex = reader.rindex /\ reader' \in ReaderRecord
    BY <1>1, <2>1, <2>2 DEF ReaderRecord
  <2> QED
    BY <1>3, <2>3 DEF c, n
<1>10. inUse' = inUse \cup {x}
  OBVIOUS
<1> HIDE DEF x, E
<1>11. Types'
  BY <1>2, <1>9, <1>10, TypesGo, PoolTypes DEF Types
<1>12. Stages'
  <2>1. ReaderStage'
    <3>1. reader.num + 1 <= BatchSize
      BY <1>1, <1>3
    <3>2. Injective(reader'.cur) /\ Len(reader'.cur) = reader'.num
      BY <1>3, <1>8, <1>9
    <3>3. Injective(reader.cur)' /\ Len(list') = Len(list)
      BY <3>2 DEF Injective
    <3> QED
      BY <1>6, <1>9, <3>1, <3>2, <3>3 DEF ReaderStage
  <2>2. RingStage'
    BY RingStays DEF PoolInv, Stages
  <2> QED
    BY <2>1, <2>2, WorkersStay DEF PoolInv, Stages
<1>13. \A r \in Lines : \A j \in Nat :
          Part(r, j)' = Part(r, j) \cup (IF r = Current /\ j = 0 THEN {x} ELSE {})
  <2>1. Part(Current, 0)' = Part(Current, 0) \cup {x}
    BY <1>8, <1>9, PartIs, PartWillBe
  <2>2. \A j \in Nat \ {0} : Part(Current, j)' = Part(Current, j)
    BY ReaderLine, PoolTypes
  <2>3. \A w \in Workers : \A j \in Nat : Part(w, j)' = Part(w, j)
    BY PartStays, LineStays DEF SameWork
  <2> QED
    BY <1>6, <2>1, <2>2, <2>3
<1>14. Exclusive'
  BY <1>4, <1>5, <1>6, <1>13 DEF Ownership, Exclusive
<1>15. \A b \in Buffer : Copied(b)' = Copied(b)
  BY <1>6 DEF Copied
<1>16. InUse'
  <2>1. \A b \in Buffer : Placed(b)' <=> Placed(b) \/ b = x
    <3> TAKE b \in Buffer
    <3>1. Placed(b) => Placed(b)'
      BY <1>6, <1>13 DEF Placed
    <3>2. x \in Part(Current, 0)' /\ Current \in Lines' /\ 0 \in Nat
      BY <1>6, <1>13
    <3>3. b = x => Placed(b)'
      BY <3>2 DEF Placed
    <3>4. Placed(b)' /\ b # x => Placed(b)
      BY <1>6, <1>13 DEF Placed
    <3> QED
      BY <3>1, <3>3, <3>4
  <2>2. Elements(list)' = E
    BY DEF Elements, E
  <2> QED
    BY <1>2, <1>4, <1>6, <1>10, <1>15, <2>1, <2>2 DEF Ownership, InUse, E
<1>17. Copies'
  <2> SUFFICES ASSUME NEW t \in Tables, NEW b \in held[t]
               PROVE  /\ \A u \in Tables : b \in held[u] => u = t
                      /\ \A r \in Lines : \A j \in Nat :
                            b \in Part(r, j)' => r = t /\ j = 0 /\ Seen(t, b)'
    BY <1>6 DEF Copies
  <2>1. /\ \A u \in Tables : b \in held[u] => u = t
        /\ \A r \in Lines : \A j \in Nat : b \in Part(r, j) => r = t /\ j = 0 /\ Seen(t, b)
    BY <1>4 DEF Ownership, Copies
  <2>2. b \in inUse /\ b # x
    <3>1. b \in Buffer
      BY PoolTypes DEF Types
    <3> QED
      BY <1>4, <3>1 DEF Ownership, InUse, Copied, x
  <2>3. Seen(t, b)' = Seen(t, b)
    BY DEF Seen
  <2> QED
    BY <1>13, <2>1, <2>2, <2>3
<1>18. References'
  <2>1. \A b \in Buffer : Live(b)' = Live(b)
    BY <1>3, <1>6, <1>9, <1>13 DEF Live, Written
  <2> QED
    BY <1>4, <1>6, <1>15, <2>1 DEF Ownership, References
<1>19. /\ Cardinality(E \ inUse') = Cardinality(E \ inUse) - 1 /\ Cardinality(E \ inUse) \in Nat
  <2>1. E \ inUse' = (E \ inUse) \ {x}
    BY <1>10
  <2>2. x \in E \ inUse /\ E \ inUse \in SUBSET Buffer
    BY <1>2 DEF x
  <2>3. Cardinality((E \ inUse) \ {x}) = Cardinality(E \ inUse) - 1
    BY <2>2, PoolTypes, OneLess
  <2> QED
    BY <2>1, <2>2, <2>3, PoolTypes, BuffersAreFinite
<1>20. FreeAccounted'
  <2>1. SumOfFree' = SumOfFree /\ SumOfFree \in Nat
    BY PoolTypes, SumStays, SumIsNatural
  <2>2. numFree = Cardinality(E \ inUse) - SumOfFree + reader.num
    BY DEF PoolInv, FreeAccounted, E
  <2>3. Elements(list)' = E
    BY DEF Elements, E
  <2>4. numFree = Cardinality(E \ inUse') - SumOfFree' + (reader.num + 1)
    BY <1>1, <1>19, <2>1, <2>2
  <2> QED
    BY <1>9, <2>3, <2>4 DEF FreeAccounted
<1>21. ScanFinds'
  <2>1. Ahead = Ahead' \cup {x}
    <3>1. reader.at + 1 .. Len(list) = (i + 1 .. Len(list)) \cup {i}
      BY <1>1
    <3> QED
      BY <1>1, <1>9, <3>1 DEF Ahead, x
  <2>2. Ahead' \ inUse' = (Ahead \ inUse) \ {x}
    BY <1>10, <2>1
  <2>3. Ahead \in SUBSET Buffer /\ x \in Ahead \ inUse
    <3>1. Ahead \in SUBSET Buffer
      BY <1>1 DEF Ahead
    <3> QED
      BY <2>1, <3>1 DEF x
  <2>4. /\ Cardinality((Ahead \ inUse) \ {x}) = Cardinality(Ahead \ inUse) - 1
        /\ Cardinality(Ahead \ inUse) \in Nat
    <3>1. Ahead \ inUse \in SUBSET Buffer
      BY <2>3
    <3> QED
      BY <2>3, <3>1, PoolTypes, OneLess, BuffersAreFinite
  <2>5. Cardinality(Ahead \ inUse) + reader.num >= BatchSize
    BY DEF PoolInv, ScanFinds
  <2>6. Cardinality(Ahead' \ inUse') = Cardinality(Ahead \ inUse) - 1
    BY <2>2, <2>4
  <2>7. Cardinality(Ahead' \ inUse') + (reader.num + 1) >= BatchSize
    BY <1>1, <2>4, <2>5, <2>6
  <2> QED
    BY <1>6, <1>9, <2>7 DEF ScanFinds
<1> QED
  BY <1>11, <1>12, <1>14, <1>16, <1>17, <1>18, <1>20, <1>21 DEF PoolInv, Ownership

\* One step of the search for buffers.
LEMMA ScanStep == ASSUME PoolInv, Scan PROVE PoolInv'
<1> DEFINE i == reader.at + 1
<1>1. /\ reader.pc = "scan" /\ UNCHANGED <<list, numFree, refcnt, ring, worker, held, size>>
      /\ \/ /\ i > Len(list) \/ (list[i] \notin inUse /\ Len(reader.cur) = BatchSize)
            /\ GoTo("popped") /\ UNCHANGED inUse
         \/ /\ ~(i > Len(list)) /\ list[i] \in inUse
            /\ reader' = [reader EXCEPT !.at = i] /\ UNCHANGED inUse
         \/ /\ ~(i > Len(list)) /\ list[i] \notin inUse /\ Len(reader.cur) # BatchSize
            /\ reader' = [reader EXCEPT !.at = i, !.cur = Append(@, list[i]), !.num = @ + 1]
            /\ inUse' = inUse \cup {list[i]}
  BY DEF Scan, Reading
<1>2. /\ i \in Nat /\ Len(list) \in Nat /\ reader.num \in Nat /\ BatchSize \in Nat
      /\ reader.cur \in Seq(Buffer)
  BY PoolTypes, SizeTypes DEF Types, ReaderRecord
<1>3. i = reader.at + 1
  OBVIOUS
<1> HIDE DEF i
<1>4. CASE /\ i > Len(list) \/ (list[i] \notin inUse /\ Len(reader.cur) = BatchSize)
           /\ GoTo("popped") /\ UNCHANGED inUse
  <2>1. /\ reader' \in ReaderRecord /\ reader'.pc = "popped"
        /\ reader'.cur = reader.cur /\ reader'.rindex = reader.rindex
        /\ reader'.at = reader.at /\ reader'.num = reader.num
    BY <1>4, PoolTypes, Going DEF ReaderPlaces
  <2>2. /\ Injective(reader.cur) /\ reader.rindex = 0 /\ reader.num = Len(reader.cur)
        /\ reader.num <= BatchSize
    BY <1>1 DEF PoolInv, Stages, ReaderStage
  <2>3. i > Len(list) => reader.num >= BatchSize
    <3> HAVE i > Len(list)
    <3>1. Ahead = {}
      BY <1>2, <1>3 DEF Ahead
    <3>2. Cardinality(Ahead \ inUse) = 0
      BY <3>1, FS_EmptySet
    <3> QED
      BY <1>1, <1>2, <3>2 DEF PoolInv, ScanFinds
  <2>4. reader.num = BatchSize /\ BatchSize' = BatchSize
    BY <1>1, <1>2, <1>4, <2>2, <2>3, SameSize
  <2>5. ReaderStage'
    BY <2>1, <2>2, <2>4 DEF ReaderStage, Injective
  <2>6. FreeAccounted' /\ ScanFinds'
    <3>1. SumOfFree' = SumOfFree
      BY <1>1, PoolTypes, SumStays
    <3>2. FreeAccounted'
      BY <1>1, <1>4, <2>1, <3>1 DEF PoolInv, FreeAccounted
    <3>3. ScanFinds'
      BY <2>1 DEF ScanFinds
    <3> QED
      BY <3>2, <3>3
  <2> QED
    BY <1>1, <1>4, <2>1, <2>5, <2>6, PoolTypes, QuietReader
<1>5. CASE /\ ~(i > Len(list)) /\ list[i] \in inUse
           /\ reader' = [reader EXCEPT !.at = i] /\ UNCHANGED inUse
  <2>1. i <= Len(list)
    BY <1>2, <1>5
  <2> QED
    BY <1>1, <1>3, <1>5, <2>1, ScanPasses DEF pool
<1>6. CASE /\ ~(i > Len(list)) /\ list[i] \notin inUse /\ Len(reader.cur) # BatchSize
           /\ reader' = [reader EXCEPT !.at = i, !.cur = Append(@, list[i]), !.num = @ + 1]
           /\ inUse' = inUse \cup {list[i]}
  <2>1. i <= Len(list)
    BY <1>2, <1>6
  <2> QED
    BY <1>1, <1>3, <1>6, <2>1, ScanTakes
<1> QED
  BY <1>1, <1>4, <1>5, <1>6

\* A buffer of the reader that is not written yet has no reference.
LEMMA Unwritten ==
    ASSUME PoolInv, NEW k \in 1 .. Len(reader.cur), k > reader.rindex
    PROVE  LET b == reader.cur[k]
           IN  /\ b \in Buffer /\ b \in Part(Current, 0) /\ b \in inUse
               /\ ~Written(b) /\ ~Live(b) /\ ~Copied(b) /\ refcnt[b] = 0
<1> DEFINE b == reader.cur[k]
<1>1. reader.cur \in Seq(Buffer) /\ reader.rindex \in Nat
  BY PoolTypes DEF ReaderRecord
<1>2. b \in Buffer /\ b \in Part(Current, 0)
  BY <1>1, PartIs DEF Elements
<1>3. ~Written(b)
  <2>1. \A j \in 1 .. Len(reader.cur) : reader.cur[j] = reader.cur[k] => j = k
    BY DEF PoolInv, Stages, ReaderStage, Injective
  <2> SUFFICES ASSUME NEW j \in 1 .. reader.rindex, j <= Len(reader.cur), reader.cur[j] = b
               PROVE  FALSE
    BY DEF Written
  <2>2. j \in 1 .. Len(reader.cur)
    BY <1>1
  <2> QED
    BY <1>1, <2>1, <2>2
<1>4. Current \in Lines /\ Current \notin Workers /\ Workers \subseteq Lines /\ Tables \subseteq Workers
  BY SizeTypes, PoolTypes DEF Types
<1> HIDE DEF b
<1>5. ~Copied(b)
  BY <1>2, <1>4 DEF Copied, PoolInv, Ownership, Copies
<1>6. ~Live(b)
  BY <1>2, <1>3, <1>4 DEF Live, PoolInv, Ownership, Exclusive
<1>7. b \in inUse
  BY <1>2, <1>4 DEF PoolInv, Ownership, InUse, Placed
<1>8. refcnt[b] = 0
  BY <1>2, <1>5, <1>6 DEF PoolInv, Ownership, References
<1> QED
  BY <1>2, <1>3, <1>5, <1>6, <1>7, <1>8 DEF b

\* The batch of the reader is sent on with the buffers W of B; the others are given back.
LEMMA Sent ==
    ASSUME PoolInv, NEW B \in Seq(Buffer), Injective(B),
           Elements(B) \subseteq Elements(reader.cur),
           reader' \in ReaderRecord, reader'.cur = <<>>, reader'.rindex = 0,
           reader'.pc \notin {"assign", "scan", "popped"},
           ring' = [ring EXCEPT ![Decoder] = Filled(@, [NoBatch EXCEPT !.bufs = B])],
           \A c \in Elements(reader.cur) \ Elements(B) : ~Written(c),
           inUse' = inUse \ (Elements(reader.cur) \ Elements(B)),
           refcnt' \in [Buffer -> Nat],
           \A c \in Buffer : refcnt'[c] = IF c \in Elements(B) THEN 1 ELSE refcnt[c],
           numFree' \in Int, FreeAccounted',
           UNCHANGED <<list, worker, held, size>>
    PROVE  PoolInv'
<1> DEFINE W == Elements(B)
           P == Elements(reader.cur)
           new == [NoBatch EXCEPT !.bufs = B]
           q == ring'[Decoder].full
           full == ring[Decoder].full
<1>1. /\ Workers' = Workers /\ Tables' = Tables /\ Lines' = Lines /\ Buffer' = Buffer
      /\ BatchSize' = BatchSize /\ Current \in Lines /\ Current \notin Workers
      /\ Tables \subseteq Workers /\ Lines = {Current} \cup Workers /\ Decoder \in Workers
      /\ Decoder \notin Tables
  BY SameSize, SizeTypes, PoolTypes DEF Types, Lines
<1>2. Ownership
  BY DEF PoolInv
<1>3. Part(Current, 0) = P /\ W \subseteq P /\ P \in SUBSET Buffer
  BY PartIs, PoolTypes, ElementsAre DEF ReaderRecord
<1>4. new \in Batch /\ new.bufs = B /\ full \in Seq(Batch) /\ ring[Decoder] \in RingRecord
  <2>1. NoBatch \in Batch
    BY DEF NoBatch, Batch
  <2>2. new \in Batch /\ new.bufs = B
    BY <2>1 DEF Batch
  <2>3. ring[Decoder] \in RingRecord
    BY <1>1, PoolTypes
  <2>4. full \in Seq(Batch)
    BY <2>3 DEF RingRecord
  <2> QED
    BY <2>2, <2>3, <2>4
<1>5. /\ ring' \in [Workers -> RingRecord] /\ q = Append(full, new)
      /\ \A w \in Workers : w # Decoder => ring'[w].full = ring[w].full
  <2>1. Append(full, new) \in Seq(Batch)
    BY <1>4
  <2> DEFINE f == Append(full, new)
             c == ring[Decoder].count + 1
  <2>2. ring' = [ring EXCEPT ![Decoder] = [ring[Decoder] EXCEPT !.full = f, !.count = c]]
    BY DEF Filled
  <2>3. f \in Seq(Batch) /\ c \in Int
    BY <1>4, <2>1 DEF RingRecord
  <2> HIDE DEF f, c
  <2>4. /\ [ring[Decoder] EXCEPT !.full = f, !.count = c] \in RingRecord
        /\ [ring[Decoder] EXCEPT !.full = f, !.count = c].full = f
    BY <1>4, <2>3 DEF RingRecord
  <2> QED
    BY <1>1, <2>2, <2>4, PoolTypes, ZenonT(30) DEF f
<1> HIDE DEF full, new, q
<1>0. PICK n \in Nat : n = Len(full)
  BY <1>4
<1>6. Len(q) = n + 1 /\ q[n + 1].bufs = B /\ \A i \in 1 .. n : q[i] = full[i]
  BY <1>0, <1>4, <1>5
<1>7. inUse' \in SUBSET Buffer
  BY PoolTypes
<1> HIDE DEF W, P
<1>8. Types'
  BY <1>5, <1>7, TypesGo, PoolTypes DEF Types
<1>9. Stages'
  <2>1. ReaderStage'
    BY <1>1 DEF ReaderStage, Injective
  <2>2. RingStage'
    <3> SUFFICES ASSUME NEW w \in Workers, NEW i \in 1 .. Len(ring'[w].full)
                 PROVE  Injective(ring[w].full[i].bufs)'
      BY <1>1 DEF RingStage
    <3>1. Injective(ring'[w].full[i].bufs)
      <4>1. CASE w # Decoder
        BY <1>5, <4>1 DEF PoolInv, Stages, RingStage
      <4>2. CASE w = Decoder /\ i # n + 1
        <5>0. ring'[w].full = q /\ i \in 1 .. Len(q)
          BY <4>2 DEF q
        <5>1. i \in 1 .. n /\ ring'[w].full[i] = full[i]
          BY <1>4, <1>6, <4>2, <5>0
        <5> QED
          BY <1>0, <1>1, <4>2, <5>1 DEF PoolInv, Stages, RingStage, full
      <4>3. CASE w = Decoder /\ i = n + 1
        BY <1>6, <4>3 DEF q
      <4> QED
        BY <4>1, <4>2, <4>3
    <3> QED
      BY <3>1 DEF Injective
  <2> QED
    BY <2>1, <2>2, WorkersStay DEF PoolInv, Stages
<1>10. \A r \in Lines : \A i \in Nat :
          Part(r, i)' = IF r = Current /\ i = 0 THEN {}
                        ELSE IF r = Decoder /\ i = n + 1 THEN W ELSE Part(r, i)
  <2>1. Part(Current, 0)' = {}
    BY PartWillBe DEF Elements
  <2>2. \A i \in Nat \ {0} : Part(Current, i)' = Part(Current, i)
    BY ReaderLine, PoolTypes
  <2>3. \A w \in Workers : Part(w, 0)' = Part(w, 0)
    BY PartStays DEF SameWork
  <2>4. \A w \in Workers : w # Decoder => \A i \in Nat \ {0} : Part(w, i)' = Part(w, i)
    BY <1>5, LineStays
  <2>5. \A i \in Nat \ {0} : i # n + 1 => Part(Decoder, i)' = Part(Decoder, i)
    <3> SUFFICES ASSUME NEW i \in Nat \ {0}, i # n + 1
                 PROVE  Part(Decoder, i)' = Part(Decoder, i)
      OBVIOUS
    <3>1. Part(Decoder, i) = IF i <= n THEN Elements(full[i].bufs) ELSE {}
      BY <1>0, <1>1, PartIs DEF full
    <3>2. Part(Decoder, i)' = IF i <= n + 1 THEN Elements(q[i].bufs) ELSE {}
      BY <1>1, <1>6, LineOf DEF q
    <3>3. CASE i <= n
      BY <1>4, <1>6, <3>1, <3>2, <3>3
    <3>4. CASE ~(i <= n)
      BY <1>4, <3>1, <3>2, <3>4
    <3> QED
      BY <3>3, <3>4
  <2>6. Part(Decoder, n + 1)' = W
    <3> DEFINE k == n + 1
    <3>1. k \in Nat \ {0} /\ k <= Len(ring'[Decoder].full)
      BY <1>4, <1>6 DEF q
    <3>2. ring'[Decoder].full[k].bufs = B
      BY <1>6 DEF q
    <3> HIDE DEF k
    <3>3. Part(Decoder, k)' = W
      BY <1>1, <3>1, <3>2, LineOf DEF W
    <3> QED
      BY <3>3 DEF k
  <2> SUFFICES ASSUME NEW r \in Lines, NEW i \in Nat
               PROVE  Part(r, i)' = IF r = Current /\ i = 0 THEN {}
                                    ELSE IF r = Decoder /\ i = n + 1 THEN W ELSE Part(r, i)
    OBVIOUS
  <2>7. n + 1 # 0 /\ Decoder # Current
    BY <1>1, <1>4
  <2>8. CASE r = Current
    BY <2>1, <2>2, <2>7, <2>8
  <2>9. CASE r = Decoder
    <3>1. Part(Decoder, i)' = IF i = n + 1 THEN W ELSE Part(Decoder, i)
      BY <1>1, <2>3, <2>5, <2>6, <2>7
    <3> QED
      BY <2>7, <2>9, <3>1
  <2>10. CASE r \notin {Current, Decoder}
    BY <1>1, <2>3, <2>4, <2>10
  <2> QED
    BY <2>8, <2>9, <2>10
<1>11. Part(Decoder, n + 1) = {} /\ n + 1 \in Nat /\ n + 1 # 0
  <2>1. n + 1 \in Nat \ {0} /\ ~(n + 1 <= n)
    BY <1>4
  <2> QED
    BY <1>0, <1>1, <2>1, PartIs DEF full
<1>12. \A b \in P : \A r \in Lines : \A i \in Nat : b \in Part(r, i) => r = Current /\ i = 0
  BY <1>1, <1>2, <1>3 DEF Ownership, Exclusive
<1>13. Exclusive'
  <2> SUFFICES ASSUME NEW b \in Buffer, NEW r \in Lines, NEW s \in Lines, NEW i \in Nat, NEW j \in Nat,
                      b \in Part(r, i)', b \in Part(s, j)'
               PROVE  r = s /\ i = j
    BY <1>1 DEF Exclusive
  <2>1. CASE b \in P
    BY <1>10, <1>12, <2>1
  <2>2. CASE b \notin P
    <3>1. b \in Part(r, i) /\ b \in Part(s, j)
      BY <1>3, <1>10, <2>2, SMTT(30)
    <3> QED
      BY <1>2, <3>1 DEF Ownership, Exclusive
  <2> QED
    BY <2>1, <2>2
<1>14. \A b \in Buffer : Copied(b)' = Copied(b)
  BY <1>1 DEF Copied
<1>15. \A b \in P : ~Copied(b)
  BY <1>1, <1>2, <1>3 DEF Copied, Ownership, Copies
<1>16. \A b \in P : (Placed(b)' <=> b \in W) /\ (Live(b)' <=> b \in W)
  <2> TAKE b \in P
  <2>1. b \in W => Placed(b)' /\ Live(b)'
    BY <1>1, <1>10, <1>11 DEF Placed, Live
  <2>2. b \notin W => \A r \in Lines : \A i \in Nat : b \notin Part(r, i)'
    BY <1>10, <1>12
  <2>3. ~Written(b)'
    BY DEF Written
  <2> QED
    BY <1>1, <2>1, <2>2, <2>3 DEF Placed, Live
<1>17. \A b \in Buffer \ P : (Placed(b)' <=> Placed(b)) /\ (Live(b)' <=> Live(b))
  <2> TAKE b \in Buffer \ P
  <2>1. ~Written(b)' /\ ~Written(b)
    <3>1. reader.cur \in Seq(Buffer) /\ reader.rindex \in Nat
      BY PoolTypes DEF ReaderRecord
    <3> QED
      BY <3>1 DEF Written, P, Elements
  <2>2. \A r \in Lines : \A i \in Nat : b \in Part(r, i)' <=> b \in Part(r, i)
    BY <1>3, <1>10, <1>11
  <2> QED
    BY <1>1, <2>1, <2>2 DEF Placed, Live
<1>18. InUse'
  <2>1. inUse' = inUse \ (P \ W)
    BY DEF P, W
  <2>2. \A b \in P : b \in inUse
    BY <1>1, <1>2, <1>3 DEF Ownership, InUse, Placed
  <2>3. Elements(list)' = Elements(list)
    BY DEF Elements
  <2> QED
    BY <1>1, <1>2, <1>14, <1>15, <1>16, <1>17, <2>1, <2>2, <2>3 DEF Ownership, InUse
<1>19. Copies'
  <2> SUFFICES ASSUME NEW t \in Tables, NEW b \in held[t]
               PROVE  /\ \A u \in Tables : b \in held[u] => u = t
                      /\ \A r \in Lines : \A i \in Nat :
                            b \in Part(r, i)' => r = t /\ i = 0 /\ Seen(t, b)'
    BY <1>1 DEF Copies
  <2>1. /\ \A u \in Tables : b \in held[u] => u = t
        /\ \A r \in Lines : \A i \in Nat : b \in Part(r, i) => r = t /\ i = 0 /\ Seen(t, b)
    BY <1>2 DEF Ownership, Copies
  <2>2. b \notin P
    BY <1>15 DEF Copied
  <2>3. Seen(t, b)' = Seen(t, b)
    BY DEF Seen
  <2> QED
    BY <1>3, <1>10, <2>1, <2>2, <2>3, SMTT(30)
<1>20. References'
  <2>1. \A b \in P \ W : ~Live(b)
    <3> TAKE b \in P \ W
    <3>1. ~Written(b)
      BY DEF P, W
    <3> QED
      BY <1>1, <1>12, <3>1 DEF Live
  <2>2. \A b \in Buffer : refcnt'[b] = IF b \in W THEN 1 ELSE refcnt[b]
    BY DEF W
  <2>3. \A b \in Buffer :
            refcnt'[b] = (IF Live(b)' THEN 1 ELSE 0) + (IF Copied(b)' THEN 1 ELSE 0)
    <3> TAKE b \in Buffer
    <3>1. refcnt[b] = (IF Live(b) THEN 1 ELSE 0) + (IF Copied(b) THEN 1 ELSE 0)
      BY <1>2 DEF Ownership, References
    <3>2. CASE b \in W
      BY <1>3, <1>14, <1>15, <1>16, <2>2, <3>2
    <3>3. CASE b \in P \ W
      BY <1>14, <1>15, <1>16, <2>1, <2>2, <3>1, <3>3
    <3>4. CASE b \notin P
      BY <1>3, <1>14, <1>17, <2>2, <3>1, <3>4
    <3> QED
      BY <3>2, <3>3, <3>4
  <2> QED
    BY <1>1, <2>3 DEF References
<1>21. ScanFinds'
  BY DEF ScanFinds
<1> QED
  BY <1>8, <1>9, <1>13, <1>18, <1>19, <1>20, <1>21 DEF PoolInv, Ownership

\* A packet is written to a batch that has room for more.
LEMMA AssignMore ==
    ASSUME PoolInv, reader.pc = "assign", NEW k, k = reader.rindex + 1, k < Len(reader.cur),
           refcnt' = [refcnt EXCEPT ![reader.cur[k]] = 1],
           reader' = [reader EXCEPT !.pc = "read", !.rindex = k],
           UNCHANGED <<list, inUse, numFree, ring, worker, held, size>>
    PROVE  PoolInv'
<1>1. /\ reader \in ReaderRecord /\ reader.rindex \in Nat /\ reader.cur \in Seq(Buffer)
      /\ Len(reader.cur) \in Nat
  BY PoolTypes DEF ReaderRecord
<1>2. k \in Nat /\ k \in 1 .. Len(reader.cur) /\ k > reader.rindex
  BY <1>1
<1> DEFINE b == reader.cur[k]
<1>3. b \in Buffer /\ ~Live(b) /\ ~Copied(b)
  BY <1>2, Unwritten
<1>4. /\ reader' \in ReaderRecord /\ reader'.pc = "read" /\ reader'.cur = reader.cur
      /\ reader'.rindex = k
  BY <1>1, <1>2 DEF ReaderRecord, ReaderPlaces
<1>5. refcnt \in [Buffer -> Nat]
  BY PoolTypes DEF Types
<1>6. /\ Workers' = Workers /\ Tables' = Tables /\ Lines' = Lines /\ Buffer' = Buffer
      /\ BatchSize' = BatchSize /\ Workers \subseteq Lines
  BY SameSize, SizeTypes, PoolTypes DEF Types
<1>7. refcnt' \in [Buffer -> Nat] /\ \A c \in Buffer : refcnt'[c] = IF c = b THEN 1 ELSE refcnt[c]
  BY <1>3, <1>5
<1>8. Types'
  BY <1>4, <1>7, TypesGo, PoolTypes DEF Types
<1>9. Stages'
  <2>1. ReaderStage'
    BY <1>4, <1>6 DEF PoolInv, Stages, ReaderStage, Injective
  <2> QED
    BY <2>1, RingStays, WorkersStay DEF PoolInv, Stages
<1>10. SameParts
  BY <1>4, PoolTypes, PartsStay DEF SameWork
<1>11. Exclusive' /\ InUse' /\ Copies'
  <2>1. \A t \in Tables : \A c \in Part(t, 0) : Seen(t, c) => Seen(t, c)'
    BY DEF Seen
  <2>2. inUse \subseteq Elements(list')
    BY PoolTypes
  <2> QED
    BY <1>10, <2>1, <2>2, PoolTypes, PlacesStay DEF PoolInv
<1>12. \A c \in Buffer : Live(c)' <=> Live(c) \/ c = b
  <2>1. \A c \in Buffer : Written(c)' <=> Written(c) \/ c = b
    <3>1. 1 .. k = 1 .. reader.rindex \cup {k}
      BY <1>1
    <3> QED
      BY <1>1, <1>2, <1>4, <3>1 DEF Written
  <2>2. \A c \in Buffer : (\E r \in Workers : \E i \in Nat : c \in Part(r, i)')
                            <=> \E r \in Workers : \E i \in Nat : c \in Part(r, i)
    BY <1>6, <1>10 DEF SameParts
  <2> QED
    BY <1>6, <2>1, <2>2 DEF Live
<1>13. \A c \in Buffer : Copied(c)' = Copied(c)
  BY <1>6 DEF Copied
<1> HIDE DEF b
<1>14. References'
  <2>1. \A c \in Buffer :
            refcnt'[c] = (IF Live(c)' THEN 1 ELSE 0) + (IF Copied(c)' THEN 1 ELSE 0)
    BY <1>3, <1>7, <1>12, <1>13 DEF PoolInv, Ownership, References
  <2> QED
    BY <1>6, <2>1 DEF References
<1>15. FreeAccounted' /\ ScanFinds'
  BY <1>4, PoolTypes, CountStays DEF PoolInv, SameScan
<1> QED
  BY <1>8, <1>9, <1>11, <1>14, <1>15 DEF PoolInv, Ownership

\* A packet is written to the last buffer of a batch.
LEMMA AssignLast ==
    ASSUME PoolInv, reader.pc = "assign", NEW k, k = reader.rindex + 1, k = Len(reader.cur),
           refcnt' = [refcnt EXCEPT ![reader.cur[k]] = 1],
           reader' = [reader EXCEPT !.pc = "next", !.cur = <<>>, !.rindex = 0],
           ring' = [ring EXCEPT ![Decoder] = Filled(@, [NoBatch EXCEPT !.bufs = reader.cur])],
           UNCHANGED <<list, inUse, numFree, worker, held, size>>
    PROVE  PoolInv'
<1> DEFINE B == reader.cur
           b == reader.cur[k]
<1>1. /\ reader \in ReaderRecord /\ reader.rindex \in Nat /\ B \in Seq(Buffer)
      /\ Len(B) \in Nat
  BY PoolTypes DEF ReaderRecord
<1>2. k \in Nat /\ k \in 1 .. Len(B) /\ k > reader.rindex
  BY <1>1
<1>3. b \in Buffer /\ ~Live(b) /\ ~Copied(b) /\ b \in Elements(B)
  BY <1>2, Unwritten DEF Elements
<1>4. Injective(B)
  BY DEF PoolInv, Stages, ReaderStage
<1>5. reader' \in ReaderRecord /\ reader'.pc = "next" /\ reader'.cur = <<>> /\ reader'.rindex = 0
  <2>1. <<>> \in Seq(Buffer)
    OBVIOUS
  <2> QED
    BY <1>1, <2>1 DEF ReaderRecord, ReaderPlaces
<1>6. refcnt \in [Buffer -> Nat]
  BY PoolTypes DEF Types
<1>7. refcnt' \in [Buffer -> Nat] /\ \A c \in Buffer : refcnt'[c] = IF c = b THEN 1 ELSE refcnt[c]
  BY <1>3, <1>6
<1>8. \A c \in Elements(B) : c # b => refcnt[c] = 1
  <2> SUFFICES ASSUME NEW i \in 1 .. Len(B), B[i] # b PROVE refcnt[B[i]] = 1
    BY DEF Elements
  <2>1. i \in 1 .. reader.rindex /\ i <= Len(reader.cur)
    BY <1>1
  <2>2. Live(B[i])
    BY <2>1 DEF Live, Written
  <2>3. ~Copied(B[i])
    <3>1. B[i] \in Buffer /\ B[i] \in Part(Current, 0)
      BY <1>1, PartIs DEF Elements
    <3>2. Current \in Lines /\ Current \notin Workers /\ Tables \subseteq Workers
      BY SizeTypes, PoolTypes DEF Types
    <3> QED
      BY <3>1, <3>2 DEF Copied, PoolInv, Ownership, Copies
  <2>4. B[i] \in Buffer
    BY <1>1
  <2> QED
    BY <2>2, <2>3, <2>4 DEF PoolInv, Ownership, References
<1>9. \A c \in Buffer : refcnt'[c] = IF c \in Elements(B) THEN 1 ELSE refcnt[c]
  BY <1>3, <1>7, <1>8
<1>10. inUse' = inUse \ (Elements(reader.cur) \ Elements(B))
  OBVIOUS
<1>11. FreeAccounted'
  BY <1>5, PoolTypes, CountStays DEF PoolInv, SameScan
<1>12. \A c \in Elements(reader.cur) \ Elements(B) : ~Written(c)
  OBVIOUS
<1>13. ring' = [ring EXCEPT ![Decoder] = Filled(@, [NoBatch EXCEPT !.bufs = B])]
  OBVIOUS
<1>14. Elements(B) \subseteq Elements(reader.cur) /\ numFree' \in Int
  BY PoolTypes
<1> HIDE DEF B, b
<1> QED
  BY <1>1, <1>4, <1>5, <1>7, <1>9, <1>10, <1>11, <1>12, <1>13, <1>14, Sent

\* A packet is written to a buffer.
LEMMA AssignStep == ASSUME PoolInv, Assign PROVE PoolInv'
<1> DEFINE k == reader.rindex + 1
<1>1. /\ reader.pc = "assign" /\ reader.rindex < Len(reader.cur)
      /\ refcnt' = [refcnt EXCEPT ![reader.cur[k]] = 1]
      /\ UNCHANGED <<list, inUse, numFree, worker, held, size>>
      /\ \/ /\ k = Len(reader.cur)
            /\ ring' = [ring EXCEPT ![Decoder] = Filled(@, [NoBatch EXCEPT !.bufs = reader.cur])]
            /\ reader' = [reader EXCEPT !.pc = "next", !.cur = <<>>, !.rindex = 0]
         \/ /\ k # Len(reader.cur) /\ ring' = ring
            /\ reader' = [reader EXCEPT !.pc = "read", !.rindex = k]
  BY DEF Assign, Reading
<1>2. k = reader.rindex + 1
  OBVIOUS
<1>3. k # Len(reader.cur) => k < Len(reader.cur)
  <2>1. reader.rindex \in Nat /\ Len(reader.cur) \in Nat
    BY PoolTypes DEF ReaderRecord
  <2> QED
    BY <1>1, <2>1
<1> HIDE DEF k
<1> QED
  BY <1>1, <1>2, <1>3, AssignMore, AssignLast

\* The start of a sequence.
LEMMA StartOf ==
    ASSUME NEW T, NEW s \in Seq(T), NEW n \in Nat, n <= Len(s)
    PROVE  /\ SubSeq(s, 1, n) \in Seq(T)
           /\ Elements(SubSeq(s, 1, n)) = {s[i] : i \in 1 .. n}
           /\ Injective(s) => Injective(SubSeq(s, 1, n))
<1> DEFINE t == SubSeq(s, 1, n)
<1>1. t \in Seq(T) /\ Len(t) = n /\ \A i \in 1 .. n : t[i] = s[i] /\ i \in 1 .. Len(s)
  OBVIOUS
<1> HIDE DEF t
<1>2. Elements(t) = {s[i] : i \in 1 .. n}
  BY <1>1 DEF Elements
<1>3. Injective(s) => Injective(t)
  BY <1>1 DEF Injective
<1> QED
  BY <1>1, <1>2, <1>3 DEF t

\* The written part of the batch is sent on and the rest is given back.
LEMMA Finalized ==
    ASSUME PoolInv, NEW q \in {"next", "close"}, reader.pc = "read", FinalizeWritten(q),
           size' = size
    PROVE  PoolInv'
<1> DEFINE B == SubSeq(reader.cur, 1, reader.rindex)
           unread == {reader.cur[i] : i \in reader.rindex + 1 .. Len(reader.cur)}
           back == {b \in unread : refcnt[b] <= 1}
<1>1. /\ inUse' = inUse \ back /\ numFree' = numFree + Cardinality(back)
      /\ refcnt' = [b \in Buffer |-> IF b \in unread /\ refcnt[b] > 0 THEN refcnt[b] - 1
                                     ELSE refcnt[b]]
      /\ ring' = [ring EXCEPT ![Decoder] = Filled(@, [NoBatch EXCEPT !.bufs = B])]
      /\ reader' = [reader EXCEPT !.pc = q, !.cur = <<>>, !.rindex = 0]
      /\ UNCHANGED <<list, worker, held, size>>
  BY DEF FinalizeWritten
<1>2. /\ reader \in ReaderRecord /\ reader.rindex \in Nat /\ reader.cur \in Seq(Buffer)
      /\ Len(reader.cur) \in Nat /\ refcnt \in [Buffer -> Nat]
  BY PoolTypes DEF ReaderRecord, Types
<1>3. reader.rindex <= Len(reader.cur) /\ Injective(reader.cur)
  <2>1. BatchSize \in Nat
    BY SizeTypes, PoolTypes DEF Types
  <2> QED
    BY <1>2, <2>1 DEF PoolInv, Stages, ReaderStage
<1>4. reader' \in ReaderRecord /\ reader'.pc = q /\ reader'.cur = <<>> /\ reader'.rindex = 0
  <2>1. <<>> \in Seq(Buffer) /\ q \in ReaderPlaces
    BY DEF ReaderPlaces
  <2> QED
    BY <1>1, <1>2, <2>1 DEF ReaderRecord
<1>5. /\ B \in Seq(Buffer) /\ Injective(B)
      /\ Elements(B) = {reader.cur[i] : i \in 1 .. reader.rindex}
  BY <1>2, <1>3, StartOf, SMTT(30)
<1>6. \A b \in unread : /\ b \in Buffer /\ b \in inUse /\ b \in Elements(reader.cur)
                        /\ ~Written(b) /\ refcnt[b] = 0 /\ b \notin Elements(B)
  <2> SUFFICES ASSUME NEW i \in reader.rindex + 1 .. Len(reader.cur)
               PROVE  LET b == reader.cur[i]
                      IN  /\ b \in Buffer /\ b \in inUse /\ b \in Elements(reader.cur)
                          /\ ~Written(b) /\ refcnt[b] = 0 /\ b \notin Elements(B)
    OBVIOUS
  <2>1. i \in 1 .. Len(reader.cur) /\ i > reader.rindex
    BY <1>2
  <2>2. LET b == reader.cur[i]
        IN  b \in Buffer /\ b \in inUse /\ ~Written(b) /\ refcnt[b] = 0
    BY <2>1, Unwritten
  <2>3. reader.cur[i] \in Elements(reader.cur)
    BY <2>1 DEF Elements
  <2>4. reader.cur[i] \notin Elements(B)
    BY <1>2, <1>3, <1>5, <2>1, SMTT(30) DEF Injective
  <2> QED
    BY <2>2, <2>3, <2>4
<1>7. Elements(B) \subseteq Elements(reader.cur)
  BY <1>2, <1>3, <1>5 DEF Elements
<1>8. unread = Elements(reader.cur) \ Elements(B)
  <2>1. 1 .. Len(reader.cur) = (1 .. reader.rindex) \cup (reader.rindex + 1 .. Len(reader.cur))
    BY <1>2, <1>3
  <2>2. Elements(reader.cur) = {reader.cur[i] : i \in 1 .. reader.rindex} \cup unread
    BY <2>1 DEF Elements
  <2> QED
    BY <1>5, <1>6, <2>2
<1>9. back = unread
  BY <1>6
<1>10. \A c \in Elements(B) : refcnt[c] = 1
  <2> SUFFICES ASSUME NEW i \in 1 .. reader.rindex PROVE refcnt[reader.cur[i]] = 1
    BY <1>5
  <2>1. i <= Len(reader.cur) /\ i \in 1 .. Len(reader.cur)
    BY <1>2, <1>3
  <2>2. Live(reader.cur[i])
    BY <2>1 DEF Live, Written
  <2>3. reader.cur[i] \in Buffer /\ reader.cur[i] \in Part(Current, 0)
    BY <1>2, <2>1, PartIs DEF Elements
  <2>4. ~Copied(reader.cur[i])
    <3>1. Current \in Lines /\ Current \notin Workers /\ Tables \subseteq Workers
      BY SizeTypes, PoolTypes DEF Types
    <3> QED
      BY <2>3, <3>1 DEF Copied, PoolInv, Ownership, Copies
  <2> QED
    BY <2>2, <2>3, <2>4 DEF PoolInv, Ownership, References
<1>11. refcnt' = refcnt
  <2> HIDE DEF unread
  <2>1. \A b \in Buffer : ~(b \in unread /\ refcnt[b] > 0)
    BY <1>6
  <2>2. refcnt' = [b \in Buffer |-> refcnt[b]]
    BY <1>1, <2>1
  <2> QED
    BY <1>2, <2>2
<1>12. \A c \in Buffer : refcnt'[c] = IF c \in Elements(B) THEN 1 ELSE refcnt[c]
  BY <1>10, <1>11
<1>13. numFree' \in Int /\ FreeAccounted'
  <2> DEFINE E == Elements(list)
  <2>1. E \in SUBSET Buffer /\ unread \in SUBSET inUse /\ unread \subseteq E
    BY <1>6, PoolTypes, ElementsAre
  <2> HIDE DEF E, unread, back
  <2>2. Cardinality(E \ (inUse \ unread)) = Cardinality(E \ inUse) + Cardinality(unread)
    BY <2>1, PoolTypes, MoreUnused
  <2>3. Cardinality(unread) \in Nat /\ Cardinality(E \ inUse) \in Nat
    <3>1. unread \in SUBSET Buffer /\ E \ inUse \in SUBSET Buffer
      BY <2>1, PoolTypes
    <3> QED
      BY <3>1, PoolTypes, BuffersAreFinite
  <2>4. SumOfFree' = SumOfFree /\ SumOfFree \in Nat
    BY <1>1, PoolTypes, SumStays, SumIsNatural
  <2>5. numFree = Cardinality(E \ inUse) - SumOfFree
    BY FreeIs DEF E
  <2>6. numFree' = numFree + Cardinality(unread) /\ inUse' = inUse \ unread
    BY <1>1, <1>9
  <2>7. Elements(list)' = E
    BY <1>1 DEF Elements, E
  <2>8. numFree' = Cardinality(E \ inUse') - SumOfFree' + 0
    BY <2>2, <2>3, <2>4, <2>5, <2>6
  <2>9. reader'.pc \notin {"scan", "popped"}
    BY <1>4
  <2>10. numFree' \in Int
    BY <2>3, <2>6, PoolTypes
  <2> QED
    BY <2>7, <2>8, <2>9, <2>10 DEF FreeAccounted
<1>14. /\ inUse' = inUse \ (Elements(reader.cur) \ Elements(B))
       /\ \A c \in Elements(reader.cur) \ Elements(B) : ~Written(c)
  BY <1>1, <1>6, <1>8, <1>9
<1>15. reader'.pc \notin {"assign", "scan", "popped"} /\ refcnt' \in [Buffer -> Nat]
  BY <1>2, <1>4, <1>11
<1> HIDE DEF B, unread, back
<1> QED
  BY <1>1, <1>4, <1>5, <1>7, <1>12, <1>13, <1>14, <1>15, Sent

\* The source has timed out.
LEMMA TimeoutStep == ASSUME PoolInv, Timeout PROVE PoolInv'
<1>1. reader.pc = "read" /\ FinalizeWritten("next") /\ size' = size
  BY DEF Timeout, Reading, FinalizeWritten
<1> QED
  BY <1>1, Finalized

\* The source has ended.
LEMMA SourceEndsStep == ASSUME PoolInv, SourceEnds PROVE PoolInv'
<1>1. CASE reader.pc = "read" /\ FinalizeWritten("close") /\ size' = size
  BY <1>1, Finalized
<1>2. CASE /\ reader.pc = "read" /\ reader.cur = <<>> /\ GoTo("close")
           /\ UNCHANGED <<pool, ring, worker, held, size>>
  BY <1>2, PoolTypes, Going, PlainReader DEF ReaderPlaces
<1> QED
  BY <1>1, <1>2 DEF SourceEnds, Reading, FinalizeWritten

--------------------------------------------------------------------------------
(* 5. Steps of the workers                                                   *)

\* The types and the stage of a worker, out of the invariant.
LEMMA WorkerTypes ==
    ASSUME PoolInv, NEW w \in Workers
    PROVE  /\ worker \in [Workers -> WorkerRecord] /\ worker[w] \in WorkerRecord
           /\ worker[w].batch \in Batch /\ worker[w].batch.bufs \in Seq(Buffer)
           /\ worker[w].rindex \in Nat /\ worker[w].free \in Nat
           /\ worker[w].discard \in SUBSET Buffer /\ StageOf(w, worker[w])
<1>1. worker \in [Workers -> WorkerRecord] /\ worker[w] \in WorkerRecord
  BY PoolTypes
<1>2. /\ worker[w].batch \in Batch /\ worker[w].rindex \in Nat /\ worker[w].free \in Nat
      /\ worker[w].discard \in SUBSET Buffer
  BY <1>1 DEF WorkerRecord
<1>3. worker[w].batch.bufs \in Seq(Buffer)
  BY <1>2 DEF Batch
<1>4. StageOf(w, worker[w])
  BY DEF PoolInv, Stages, WorkerStage
<1> QED
  BY <1>1, <1>2, <1>3, <1>4

\* A stage is that of the record with which the worker goes on.
LEMMA NextStage ==
    ASSUME NEW w, NEW k, worker'[w] = k, StageOf(w, k)
    PROVE  StageOf(w, worker[w])'
BY DEF StageOf, Injective, Elements

\* The buffers of the worker stay in their place.
LEMMA SteadyWorker ==
    ASSUME PoolInv, NEW w \in Workers, NEW k \in WorkerRecord, worker' = [worker EXCEPT ![w] = k],
           k.free = worker[w].free, StageOf(w, k), Part(w, 0)' = Part(w, 0),
           w \in Tables => \A b \in Part(w, 0) : Seen(w, b) => Seen(w, b)',
           ring' \in [Workers -> RingRecord], \A v \in Workers : ring'[v].full = ring[v].full,
           UNCHANGED <<pool, reader, held, size>>
    PROVE  PoolInv'
<1>1. /\ worker \in [Workers -> WorkerRecord] /\ Workers' = Workers /\ Tables \subseteq Workers
      /\ Lines = {Current} \cup Workers
  BY WorkerTypes, SameSize, SizeTypes, PoolTypes DEF Types, Lines
<1>2. /\ worker' \in [Workers -> WorkerRecord] /\ worker'[w] = k
      /\ \A v \in Workers : v # w => worker'[v] = worker[v]
  BY <1>1
<1>3. Types'
  BY <1>2, TypesGo, PoolTypes DEF Types, pool
<1>4. Stages'
  <2>1. StageOf(w, worker[w])'
    BY <1>2 DEF StageOf, Injective, Elements
  <2>2. \A v \in Workers' : WorkerStage(v)'
    BY <1>2, <2>1, WorkerGoes DEF PoolInv, Stages
  <2>3. RingStage'
    BY RingStays DEF PoolInv, Stages
  <2>4. ReaderStage'
    BY SameSize DEF PoolInv, Stages, ReaderStage, Injective, pool
  <2> QED
    BY <2>2, <2>3, <2>4 DEF Stages
<1>5. SameParts
  <2>1. \A v \in Workers : Part(v, 0)' = Part(v, 0)
    <3>1. \A v \in Workers : v # w => SameWork(v)
      BY <1>2 DEF SameWork
    <3> QED
      BY <3>1, PartStays
  <2>2. \A v \in Workers : \A i \in Nat \ {0} : Part(v, i)' = Part(v, i)
    BY LineStays
  <2>3. Part(Current, 0)' = Part(Current, 0)
    BY PartIs, PartWillBe
  <2>4. \A i \in Nat \ {0} : Part(Current, i)' = Part(Current, i)
    BY ReaderLine, PoolTypes
  <2> QED
    BY <1>1, <2>1, <2>2, <2>3, <2>4 DEF SameParts
<1>6. Ownership'
  <2>1. \A t \in Tables : \A b \in Part(t, 0) : Seen(t, b) => Seen(t, b)'
    <3> SUFFICES ASSUME NEW t \in Tables, NEW b \in Part(t, 0), t # w
                 PROVE  Seen(t, b) => Seen(t, b)'
      OBVIOUS
    <3>1. worker'[t] = worker[t]
      BY <1>1, <1>2
    <3> QED
      BY <3>1 DEF Seen
  <2> QED
    BY <1>5, <2>1, OwnershipStays, PoolTypes DEF PoolInv, pool
<1>7. FreeAccounted' /\ ScanFinds'
  <2>1. \A v \in Workers : worker'[v].free = worker[v].free
    BY <1>2
  <2>2. SameScan
    BY DEF SameScan
  <2> QED
    BY <2>1, <2>2, CountStays, PoolTypes DEF PoolInv, pool
<1> QED
  BY <1>3, <1>4, <1>6, <1>7 DEF PoolInv

\* The worker has the same buffers in the same place.
LEMMA QuietWorker ==
    ASSUME PoolInv, NEW w \in Workers, NEW k \in WorkerRecord, worker' = [worker EXCEPT ![w] = k],
           k.free = worker[w].free, k.discard = worker[w].discard,
           k.batch.bufs = worker[w].batch.bufs, k.rindex = worker[w].rindex,
           (k.pc = "free") <=> (worker[w].pc = "free"),
           worker[w].free # 0 => k.pc \in {"free", "events", "eof"},
           k.pc \in {"idle", "done", "eof", "end"} => k.batch.bufs = <<>>,
           w # Decoder \/ k.pc \notin {"event", "expiry", "discard"} => k.discard = {},
           w = Decoder /\ k.pc \in {"free", "expiry", "discard"} => k.batch.bufs = <<>>,
           ring' \in [Workers -> RingRecord], \A v \in Workers : ring'[v].full = ring[v].full,
           UNCHANGED <<pool, reader, held, size>>
    PROVE  PoolInv'
<1>1. worker \in [Workers -> WorkerRecord] /\ StageOf(w, worker[w])
  BY WorkerTypes
<1>2. worker'[w] = k
  BY <1>1
<1>3. StageOf(w, k)
  <2>1. k.discard \cap Elements(k.batch.bufs) = {} /\ Injective(k.batch.bufs)
    BY <1>1 DEF StageOf
  <2>2. k.pc = "free" /\ w # Decoder /\ k.batch.bufs = <<>> => k.free = 0
    BY <1>1 DEF StageOf
  <2> QED
    BY <2>1, <2>2 DEF StageOf
<1>4. Part(w, 0)' = Part(w, 0)
  BY <1>2, PartStays DEF SameWork
<1>5. w \in Tables => \A b \in Part(w, 0) : Seen(w, b) => Seen(w, b)'
  BY <1>2 DEF Seen
<1> QED
  BY <1>3, <1>4, <1>5, SteadyWorker

\* Only the place of the worker is another.
LEMMA WorkerPlace ==
    ASSUME PoolInv, NEW w \in Workers, NEW q \in WorkerPlaces \ {"free"}, worker[w].pc # "free",
           Goes(w, q),
           worker[w].free # 0 => q \in {"events", "eof"},
           q \in {"idle", "done", "eof", "end"} => worker[w].batch.bufs = <<>>,
           w # Decoder \/ q \notin {"event", "expiry", "discard"} => worker[w].discard = {},
           w = Decoder /\ q \in {"expiry", "discard"} => worker[w].batch.bufs = <<>>,
           ring' \in [Workers -> RingRecord], \A v \in Workers : ring'[v].full = ring[v].full,
           UNCHANGED <<pool, reader, held, size>>
    PROVE  PoolInv'
<1> DEFINE k == [worker[w] EXCEPT !.pc = q]
<1>1. worker[w] \in WorkerRecord /\ worker' = [worker EXCEPT ![w] = k]
  BY WorkerTypes DEF Goes
<1>2. /\ k \in WorkerRecord /\ k.pc = q
      /\ k.free = worker[w].free /\ k.discard = worker[w].discard
      /\ k.batch = worker[w].batch /\ k.rindex = worker[w].rindex
  BY <1>1 DEF WorkerRecord
<1> HIDE DEF k
<1> QED
  BY <1>1, <1>2, QuietWorker

\* A worker finds its ring closed and empty.
LEMMA RingClosedStep == ASSUME PoolInv, NEW w \in Workers, RingClosed(w) PROVE PoolInv'
<1>1. /\ worker[w].pc = "idle" /\ Goes(w, "done") /\ UNCHANGED <<pool, ring, reader, held, size>>
  BY DEF RingClosed, At
<1>2. worker[w].free = 0 /\ worker[w].discard = {} /\ worker[w].batch.bufs = <<>>
  BY <1>1, WorkerTypes DEF StageOf
<1>3. "done" \in WorkerPlaces \ {"free"}
  BY DEF WorkerPlaces
<1> QED
  BY <1>1, <1>2, <1>3, WorkerPlace, PoolTypes

\* A table starts with its batch.
LEMMA StartStep == ASSUME PoolInv, NEW t \in Tables, Start(t) PROVE PoolInv'
<1>1. /\ worker[t].pc = "got" /\ Goes(t, "events") /\ UNCHANGED <<pool, reader, held, size>>
      /\ ring' = [ring EXCEPT ![t].count = @ - 1]
  BY DEF Start, At
<1>2. t \in Workers /\ t # Decoder
  BY SizeTypes, PoolTypes DEF Types
<1>3. worker[t].discard = {}
  BY <1>2, WorkerTypes DEF StageOf
<1>4. "events" \in WorkerPlaces \ {"free"}
  BY DEF WorkerPlaces
<1>5. ring' \in [Workers -> RingRecord] /\ \A w \in Workers : ring'[w].full = ring[w].full
  <2>1. ring \in [Workers -> RingRecord]
    BY PoolTypes
  <2>2. ring[t].empty \in Int /\ ring[t].count - 1 \in Int
    BY <1>2, <2>1 DEF RingRecord
  <2>3. ring' = [ring EXCEPT ![t].empty = ring[t].empty, ![t].count = ring[t].count - 1]
    BY <1>1, <1>2, <2>1 DEF RingRecord
  <2> QED
    BY <1>2, <2>1, <2>2, <2>3, RingNumbers
<1> QED
  BY <1>1, <1>2, <1>3, <1>4, <1>5, WorkerPlace

\* The decoder has nothing to forward.
LEMMA EventEmptyStep == ASSUME PoolInv, EventEmpty PROVE PoolInv'
<1>1. /\ worker[Decoder].pc = "event" /\ Goes(Decoder, "discard")
      /\ worker[Decoder].batch.bufs = <<>> /\ UNCHANGED <<pool, ring, reader, held, size>>
  BY DEF EventEmpty, At, Forward
<1>2. Decoder \in Workers
  BY SizeTypes, PoolTypes DEF Types
<1>3. worker[Decoder].free = 0
  BY <1>1, <1>2, WorkerTypes DEF StageOf
<1>4. "discard" \in WorkerPlaces \ {"free"}
  BY DEF WorkerPlaces
<1> QED
  BY <1>1, <1>2, <1>3, <1>4, WorkerPlace, PoolTypes

\* The tables are done with the expiry.
LEMMA ExpiryOverStep == ASSUME PoolInv, ExpiryOver PROVE PoolInv'
<1>1. /\ worker[Decoder].pc = "expiry" /\ Goes(Decoder, "discard")
      /\ UNCHANGED <<pool, ring, reader, held, size>>
  BY DEF ExpiryOver, At
<1>2. Decoder \in Workers
  BY SizeTypes, PoolTypes DEF Types
<1>3. worker[Decoder].free = 0 /\ worker[Decoder].batch.bufs = <<>>
  BY <1>1, <1>2, WorkerTypes DEF StageOf
<1>4. "discard" \in WorkerPlaces \ {"free"}
  BY DEF WorkerPlaces
<1> QED
  BY <1>1, <1>2, <1>3, <1>4, WorkerPlace, PoolTypes

\* A table has ended all its flows.
LEMMA EOFDoneStep == ASSUME PoolInv, NEW t \in Tables, EOFDone(t) PROVE PoolInv'
<1>1. /\ worker[t].pc = "eof" /\ worker[t].free = 0 /\ Goes(t, "end")
      /\ UNCHANGED <<pool, ring, reader, held, size>>
  BY DEF EOFDone, At
<1>2. t \in Workers /\ t # Decoder
  BY SizeTypes, PoolTypes DEF Types
<1>3. worker[t].discard = {} /\ worker[t].batch.bufs = <<>>
  BY <1>1, <1>2, WorkerTypes DEF StageOf
<1>4. "end" \in WorkerPlaces \ {"free"}
  BY DEF WorkerPlaces
<1> QED
  BY <1>1, <1>2, <1>3, <1>4, WorkerPlace, PoolTypes

\* A table is done with its expiry.
LEMMA ExpireDoneStep == ASSUME PoolInv, NEW t \in Tables, ExpireDone(t) PROVE PoolInv'
<1>1. /\ worker' = [worker EXCEPT ![t].batch.expire = FALSE] /\ worker[t].pc = "events"
      /\ UNCHANGED <<pool, ring, reader, held, size>>
  BY DEF ExpireDone, BatchDone, At
<1>2. t \in Workers /\ t # Decoder
  BY SizeTypes, PoolTypes DEF Types
<1>3. worker[t] \in WorkerRecord /\ worker[t].batch \in Batch /\ worker[t].discard = {}
  BY <1>2, WorkerTypes DEF StageOf
<1> DEFINE c == [worker[t].batch EXCEPT !.expire = FALSE]
           k == [worker[t] EXCEPT !.batch = c]
<1>4. c \in Batch /\ c.bufs = worker[t].batch.bufs
  BY <1>3 DEF Batch
<1>5. worker' = [worker EXCEPT ![t] = k]
  BY <1>1
<1> HIDE DEF c
<1>6. /\ k \in WorkerRecord /\ k.pc = "events" /\ k.batch = c
      /\ k.free = worker[t].free /\ k.discard = worker[t].discard /\ k.rindex = worker[t].rindex
  BY <1>1, <1>3, <1>4 DEF WorkerRecord
<1> HIDE DEF k
<1> QED
  BY <1>1, <1>2, <1>3, <1>4, <1>5, <1>6, QuietWorker, PoolTypes

\* The tables are told to end their flows.
LEMMA EOFStep == ASSUME PoolInv, EOF PROVE PoolInv'
<1>1. /\ reader.pc = "flush" /\ GoTo("eof") /\ \A t \in Tables : worker[t].pc = "done"
      /\ worker' = [w \in Workers |-> IF w = Decoder THEN worker[w]
                                      ELSE [worker[w] EXCEPT !.pc = "eof"]]
      /\ UNCHANGED <<pool, ring, held, size>>
  BY DEF EOF, At, Reading
<1>2. /\ Workers' = Workers /\ Tables' = Tables /\ Tables \subseteq Workers
      /\ Decoder \in Workers /\ \A w \in Workers : w = Decoder \/ w \in Tables
  BY <1>1, SameSize, SizeTypes, PoolTypes DEF Types
<1>3. \A w \in Workers :
          LET k == [worker[w] EXCEPT !.pc = "eof"]
          IN  /\ k \in WorkerRecord /\ k.pc = "eof" /\ k.batch = worker[w].batch
              /\ k.discard = worker[w].discard /\ k.free = worker[w].free
              /\ k.rindex = worker[w].rindex
  <2> TAKE w \in Workers
  <2>1. worker[w] \in WorkerRecord
    BY WorkerTypes
  <2>2. "eof" \in WorkerPlaces
    BY DEF WorkerPlaces
  <2> QED
    BY <2>1, <2>2 DEF WorkerRecord
<1>4. \A w \in Workers :
          /\ worker'[w].batch = worker[w].batch /\ worker'[w].discard = worker[w].discard
          /\ worker'[w].free = worker[w].free /\ worker'[w].rindex = worker[w].rindex
          /\ worker'[w] \in WorkerRecord
          /\ w # Decoder => worker[w].pc = "done" /\ worker'[w].pc = "eof"
  <2> TAKE w \in Workers
  <2>1. CASE w = Decoder
    BY <1>1, <2>1, WorkerTypes
  <2>2. CASE w # Decoder
    BY <1>1, <1>2, <1>3, <2>2
  <2> QED
    BY <2>1, <2>2
<1>5. worker'[Decoder] = worker[Decoder]
  BY <1>1, <1>2
<1>6. worker' \in [Workers -> WorkerRecord]
  BY <1>1, <1>4
<1>7. /\ reader' \in ReaderRecord /\ reader'.pc = "eof"
      /\ reader'.cur = reader.cur /\ reader'.rindex = reader.rindex
  BY <1>1, PoolTypes, Going DEF ReaderPlaces
<1>8. Types'
  BY <1>1, <1>6, <1>7, TypesGo, PoolTypes DEF Types, pool
<1>9. Stages'
  <2>1. \A w \in Workers : WorkerStage(w)'
    <3> TAKE w \in Workers
    <3>1. StageOf(w, worker[w])
      BY WorkerTypes
    <3>2. CASE w = Decoder
      BY <1>5, <3>1, <3>2 DEF WorkerStage, StageOf, Injective, Elements
    <3>3. CASE w # Decoder
      <4>1. worker[w].batch.bufs = <<>> /\ worker[w].discard = {} /\ worker[w].free = 0
        BY <1>4, <3>1, <3>3 DEF StageOf
      <4> QED
        BY <1>4, <3>3, <4>1 DEF WorkerStage, StageOf, Injective
    <3> QED
      BY <3>2, <3>3
  <2>2. RingStage'
    BY <1>1, RingStays DEF PoolInv, Stages
  <2>3. ReaderStage'
    <3>1. reader.cur = <<>> /\ reader.rindex = 0
      BY <1>1 DEF PoolInv, Stages, ReaderStage
    <3> QED
      BY <1>7, <3>1 DEF ReaderStage, Injective
  <2> QED
    BY <1>2, <2>1, <2>2, <2>3 DEF Stages
<1>10. SameParts
  <2>1. \A w \in Workers : SameWork(w)
    BY <1>4, <1>5 DEF SameWork
  <2> QED
    BY <1>1, <1>7, <2>1, PoolTypes, PartsStay
<1>11. Ownership'
  <2>1. \A t \in Tables : \A b \in Part(t, 0) : Seen(t, b) => Seen(t, b)'
    BY <1>2, <1>4 DEF Seen
  <2> QED
    BY <1>1, <1>7, <1>10, <2>1, OwnershipStays, PoolTypes DEF PoolInv, pool
<1>12. FreeAccounted' /\ ScanFinds'
  BY <1>1, <1>4, <1>7, PoolTypes, CountStays DEF PoolInv, SameScan, pool
<1> QED
  BY <1>8, <1>9, <1>11, <1>12 DEF PoolInv

\* A worker adds the buffers that it has given back to numFree, which may wake the reader.
LEMMA WorkerFrees ==
    ASSUME PoolInv, NEW w \in Workers, NEW k \in WorkerRecord, worker' = [worker EXCEPT ![w] = k],
           k.free = 0, StageOf(w, k), Part(w, 0)' = Part(w, 0),
           Free(worker[w].free) \/ (worker[w].free = 0 /\ UNCHANGED <<numFree, reader>>),
           Part(w, 0) = {} \/ (k.batch.bufs = worker[w].batch.bufs /\ k.rindex = worker[w].rindex),
           ring' \in [Workers -> RingRecord], \A v \in Workers : ring'[v].full = ring[v].full,
           UNCHANGED <<list, inUse, refcnt, held, size>>
    PROVE  PoolInv'
<1>1. /\ worker \in [Workers -> WorkerRecord] /\ worker[w].free \in Nat
      /\ Workers' = Workers /\ Tables \subseteq Workers /\ BatchSize' = BatchSize
      /\ Lines = {Current} \cup Workers
  BY WorkerTypes, SameSize, SizeTypes, PoolTypes DEF Types, Lines
<1>2. /\ worker' \in [Workers -> WorkerRecord] /\ worker'[w] = k
      /\ \A v \in Workers : v # w => worker'[v] = worker[v]
  BY <1>1
<1>3. numFree' = numFree + worker[w].free /\ numFree' \in Int /\ numFree \in Int
  BY <1>1, PoolTypes DEF Free
<1>4. \/ reader' = reader
      \/ reader.pc = "waiting" /\ reader' = [reader EXCEPT !.pc = "pop"]
  BY DEF Free
<1>5. /\ reader' \in ReaderRecord /\ reader'.cur = reader.cur /\ reader'.rindex = reader.rindex
      /\ reader'.at = reader.at /\ reader'.num = reader.num
      /\ reader'.pc = reader.pc \/ (reader.pc = "waiting" /\ reader'.pc = "pop")
  <2>1. reader \in ReaderRecord
    BY PoolTypes
  <2>2. CASE reader' = reader
    BY <2>1, <2>2
  <2>3. CASE reader.pc = "waiting" /\ reader' = [reader EXCEPT !.pc = "pop"]
    BY <2>1, <2>3 DEF ReaderRecord, ReaderPlaces
  <2> QED
    BY <1>4, <2>2, <2>3
<1>6. Types'
  BY <1>2, <1>3, <1>5, TypesGo, PoolTypes DEF Types
<1>7. Stages'
  <2>1. StageOf(w, worker[w])'
    BY <1>2 DEF StageOf, Injective, Elements
  <2>2. \A v \in Workers' : WorkerStage(v)'
    BY <1>2, <2>1, WorkerGoes DEF PoolInv, Stages
  <2>3. RingStage'
    BY RingStays DEF PoolInv, Stages
  <2>4. ReaderStage'
    <3>1. CASE reader'.pc = reader.pc
      BY <1>1, <1>5, <3>1 DEF PoolInv, Stages, ReaderStage, Injective
    <3>2. CASE reader.pc = "waiting" /\ reader'.pc = "pop"
      BY <1>1, <1>5, <3>2 DEF PoolInv, Stages, ReaderStage, Injective
    <3> QED
      BY <1>5, <3>1, <3>2
  <2> QED
    BY <2>2, <2>3, <2>4 DEF Stages
<1>8. SameParts
  <2>1. \A v \in Workers : Part(v, 0)' = Part(v, 0)
    <3>1. \A v \in Workers : v # w => SameWork(v)
      BY <1>2 DEF SameWork
    <3> QED
      BY <3>1, PartStays
  <2>2. \A v \in Workers : \A i \in Nat \ {0} : Part(v, i)' = Part(v, i)
    BY LineStays
  <2>3. Part(Current, 0)' = Part(Current, 0)
    BY <1>5, PartIs, PartWillBe
  <2>4. \A i \in Nat \ {0} : Part(Current, i)' = Part(Current, i)
    BY ReaderLine, PoolTypes
  <2> QED
    BY <1>1, <2>1, <2>2, <2>3, <2>4 DEF SameParts
<1>9. Ownership'
  <2>1. \A t \in Tables : \A b \in Part(t, 0) : Seen(t, b) => Seen(t, b)'
    <3> SUFFICES ASSUME NEW t \in Tables, NEW b \in Part(t, 0) PROVE Seen(t, b) => Seen(t, b)'
      OBVIOUS
    <3>1. /\ worker'[t].batch.bufs = worker[t].batch.bufs
          /\ worker'[t].rindex = worker[t].rindex
      BY <1>1, <1>2
    <3> QED
      BY <3>1 DEF Seen
  <2> QED
    BY <1>5, <1>8, <2>1, OwnershipStays, PoolTypes DEF PoolInv
<1>10. FreeAccounted'
  <2>1. SumOfFree' = SumOfFree + worker'[w].free - worker[w].free
    BY <1>1, <1>2, SumGoes, PoolTypes
  <2>2. SumOfFree' = SumOfFree - worker[w].free /\ SumOfFree \in Nat
    BY <1>1, <1>2, <2>1, SumIsNatural, PoolTypes
  <2> DEFINE c == Cardinality(Elements(list) \ inUse)
             x == IF reader.pc \in {"scan", "popped"} THEN reader.num ELSE 0
             y == IF reader'.pc \in {"scan", "popped"} THEN reader'.num ELSE 0
  <2>3. c \in Nat
    BY PoolTypes, BuffersAreFinite, ElementsAre
  <2>4. x \in Nat /\ y = x
    BY <1>5, PoolTypes DEF ReaderRecord
  <2>5. numFree = c - SumOfFree + x
    BY DEF PoolInv, FreeAccounted
  <2>6. Cardinality(Elements(list) \ inUse)' = c
    BY DEF Elements
  <2> HIDE DEF c, x
  <2>7. numFree' = c - SumOfFree' + x
    BY <1>1, <1>3, <2>2, <2>3, <2>4, <2>5
  <2> QED
    BY <2>4, <2>6, <2>7 DEF FreeAccounted
<1>11. ScanFinds'
  BY <1>1, <1>5 DEF PoolInv, ScanFinds, Ahead
<1> QED
  BY <1>6, <1>7, <1>9, <1>10, <1>11 DEF PoolInv

\* The decoder counts the buffers that it has given back.
LEMMA DiscardFreeStep == ASSUME PoolInv, DiscardFree PROVE PoolInv'
<1>1. /\ worker[Decoder].pc = "free" /\ Free(worker[Decoder].free)
      /\ worker' = [worker EXCEPT ![Decoder].pc = "idle", ![Decoder].free = 0]
      /\ UNCHANGED <<list, inUse, refcnt, ring, held, size>>
  BY DEF DiscardFree, At
<1>2. Decoder \in Workers /\ Workers' = Workers
  BY <1>1, SameSize, SizeTypes, PoolTypes DEF Types
<1>3. worker[Decoder] \in WorkerRecord /\ worker \in [Workers -> WorkerRecord]
  BY <1>2, WorkerTypes
<1> DEFINE k == [worker[Decoder] EXCEPT !.pc = "idle", !.free = 0]
<1>4. worker' = [worker EXCEPT ![Decoder] = k]
  BY <1>1, <1>3
<1>5. /\ k \in WorkerRecord /\ k.pc = "idle" /\ k.free = 0 /\ k.batch = worker[Decoder].batch
      /\ k.discard = worker[Decoder].discard /\ k.rindex = worker[Decoder].rindex
  BY <1>3 DEF WorkerRecord, WorkerPlaces
<1>6. worker[Decoder].batch.bufs = <<>> /\ worker[Decoder].discard = {}
  BY <1>1, <1>2, WorkerTypes DEF StageOf
<1> HIDE DEF k
<1>7. StageOf(Decoder, k)
  BY <1>5, <1>6 DEF StageOf, Injective, Elements
<1>8. worker'[Decoder] = k
  BY <1>2, <1>3, <1>4
<1>9. Part(Decoder, 0)' = {} /\ Part(Decoder, 0) = {}
  <2>1. Elements(worker[Decoder].batch.bufs) = {} /\ Elements(worker'[Decoder].batch.bufs) = {}
    BY <1>5, <1>6, <1>8 DEF Elements
  <2> QED
    BY <1>2, <1>5, <1>6, <1>8, <2>1, PartIs, PartWillBe
<1> QED
  BY <1>1, <1>2, <1>4, <1>5, <1>7, <1>9, WorkerFrees, PoolTypes

\* A table counts the buffer of a copy that it has given back.
LEMMA CopyFreeStep == ASSUME PoolInv, NEW t \in Tables, CopyFree(t) PROVE PoolInv'
<1>1. /\ worker[t].pc \in {"events", "eof"} /\ Free(worker[t].free)
      /\ worker' = [worker EXCEPT ![t].free = 0]
      /\ UNCHANGED <<list, inUse, refcnt, ring, held, size>>
  BY DEF CopyFree
<1>2. t \in Workers /\ Workers' = Workers
  BY <1>1, SameSize, SizeTypes, PoolTypes DEF Types
<1>3. worker[t] \in WorkerRecord /\ worker \in [Workers -> WorkerRecord] /\ StageOf(t, worker[t])
  BY <1>2, WorkerTypes
<1> DEFINE k == [worker[t] EXCEPT !.free = 0]
<1>4. worker' = [worker EXCEPT ![t] = k]
  BY <1>1, <1>3
<1>5. /\ k \in WorkerRecord /\ k.pc = worker[t].pc /\ k.free = 0 /\ k.batch = worker[t].batch
      /\ k.discard = worker[t].discard /\ k.rindex = worker[t].rindex
  BY <1>3 DEF WorkerRecord
<1> HIDE DEF k
<1>6. StageOf(t, k)
  BY <1>3, <1>5 DEF StageOf
<1>7. worker'[t] = k
  BY <1>2, <1>3, <1>4
<1>8. Part(t, 0)' = Part(t, 0)
  BY <1>1, <1>2, <1>5, <1>7, PartStays DEF SameWork
<1> QED
  BY <1>1, <1>2, <1>4, <1>5, <1>6, <1>8, WorkerFrees, PoolTypes

\* A table counts the buffers of a batch that it has given back.
LEMMA BatchFreeStep == ASSUME PoolInv, NEW t \in Tables, BatchFree(t) PROVE PoolInv'
<1>1. /\ worker[t].pc = "free"
      /\ IF worker[t].batch.bufs = <<>> THEN UNCHANGED <<numFree, reader>>
         ELSE Free(worker[t].free)
      /\ ring' = [ring EXCEPT ![t].empty = @ + 1]
      /\ worker' = [worker EXCEPT ![t].pc = "idle", ![t].free = 0, ![t].batch = NoBatch,
                                  ![t].rindex = 0]
      /\ UNCHANGED <<list, inUse, refcnt, held, size>>
  BY DEF BatchFree, At
<1>2. t \in Workers /\ Workers' = Workers /\ t # Decoder
  BY <1>1, SameSize, SizeTypes, PoolTypes DEF Types
<1>3. worker[t] \in WorkerRecord /\ worker \in [Workers -> WorkerRecord] /\ StageOf(t, worker[t])
  BY <1>2, WorkerTypes
<1> DEFINE k == [worker[t] EXCEPT !.pc = "idle", !.free = 0, !.batch = NoBatch, !.rindex = 0]
<1>4. worker' = [worker EXCEPT ![t] = k]
  BY <1>1, <1>3
<1>5. /\ k \in WorkerRecord /\ k.pc = "idle" /\ k.free = 0 /\ k.batch = NoBatch
      /\ k.discard = worker[t].discard
  <2>1. NoBatch \in Batch
    BY DEF NoBatch, Batch
  <2> QED
    BY <1>3, <2>1 DEF WorkerRecord, WorkerPlaces
<1>6. worker[t].discard = {} /\ NoBatch.bufs = <<>>
  BY <1>2, <1>3 DEF StageOf, NoBatch
<1> HIDE DEF k
<1>7. StageOf(t, k)
  BY <1>2, <1>5, <1>6 DEF StageOf, Injective, Elements
<1>8. worker'[t] = k
  BY <1>2, <1>3, <1>4
<1>9. Part(t, 0)' = {} /\ Part(t, 0) = {}
  <2>1. Elements(worker'[t].batch.bufs) = {}
    BY <1>5, <1>6, <1>8 DEF Elements
  <2>2. Part(t, 0) = {}
    BY <1>1, <1>2, <1>6, PartIs DEF At
  <2>3. Part(t, 0)' = {}
    BY <1>2, <1>5, <1>6, <1>8, <2>1, PartWillBe
  <2> QED
    BY <2>2, <2>3
<1>10. ring' \in [Workers -> RingRecord] /\ \A w \in Workers : ring'[w].full = ring[w].full
  <2>1. ring \in [Workers -> RingRecord]
    BY PoolTypes
  <2>2. ring[t].empty + 1 \in Int /\ ring[t].count \in Int
    BY <1>2, <2>1 DEF RingRecord
  <2>3. ring' = [ring EXCEPT ![t].empty = ring[t].empty + 1, ![t].count = ring[t].count]
    BY <1>1, <1>2, <2>1 DEF RingRecord
  <2> QED
    BY <1>2, <2>1, <2>2, <2>3, RingNumbers
<1>11. Free(worker[t].free) \/ (worker[t].free = 0 /\ UNCHANGED <<numFree, reader>>)
  <2>1. worker[t].batch.bufs = <<>> => worker[t].free = 0
    BY <1>1, <1>2, <1>3 DEF StageOf
  <2> QED
    BY <1>1, <2>1
<1> QED
  BY <1>1, <1>2, <1>4, <1>5, <1>7, <1>9, <1>10, <1>11, WorkerFrees

\* Some buffers of the batch are set apart.
LEMMA DecodeStep == ASSUME PoolInv, Decode PROVE PoolInv'
<1>1. PICK S \in SUBSET Elements(worker[Decoder].batch.bufs) :
          worker' = [worker EXCEPT ![Decoder].pc = "event", ![Decoder].discard = S,
                        ![Decoder].batch.bufs = Only(@, Elements(@) \ S)]
  BY DEF Decode
<1>2. /\ worker[Decoder].pc = "got"
      /\ ring' = [ring EXCEPT ![Decoder].count = @ - 1, ![Decoder].empty = @ + 1]
      /\ UNCHANGED <<pool, reader, held, size>>
  BY DEF Decode, At
<1>3. Decoder \in Workers /\ Decoder \notin Tables /\ Workers' = Workers
  BY <1>2, SameSize, SizeTypes, PoolTypes DEF Types
<1> DEFINE bufs == worker[Decoder].batch.bufs
           rest == Only(bufs, Elements(bufs) \ S)
           c == [worker[Decoder].batch EXCEPT !.bufs = rest]
           k == [worker[Decoder] EXCEPT !.pc = "event", !.discard = S, !.batch = c]
<1>4. /\ worker[Decoder] \in WorkerRecord /\ worker \in [Workers -> WorkerRecord]
      /\ worker[Decoder].batch \in Batch /\ bufs \in Seq(Buffer)
      /\ StageOf(Decoder, worker[Decoder])
  BY <1>3, WorkerTypes
<1>5. worker' = [worker EXCEPT ![Decoder] = k]
  BY <1>1, <1>3, <1>4
<1>6. /\ rest \in Seq(Buffer) /\ Elements(rest) = Elements(bufs) \cap (Elements(bufs) \ S)
      /\ Injective(bufs) => Injective(rest)
  BY <1>4, OnlyHolds
<1>7. Elements(rest) = Elements(bufs) \ S /\ S \in SUBSET Buffer
  BY <1>4, <1>6, ElementsAre
<1>8. worker[Decoder].discard = {} /\ worker[Decoder].free = 0 /\ Injective(bufs)
  BY <1>2, <1>3, <1>4 DEF StageOf
<1> HIDE DEF rest
<1>9. c \in Batch /\ c.bufs = rest
  BY <1>4, <1>6 DEF Batch
<1> HIDE DEF c
<1>10. /\ k \in WorkerRecord /\ k.pc = "event" /\ k.discard = S /\ k.batch = c
       /\ k.free = worker[Decoder].free
  BY <1>4, <1>7, <1>9 DEF WorkerRecord, WorkerPlaces
<1> HIDE DEF k
<1>11. worker'[Decoder] = k
  BY <1>3, <1>4, <1>5
<1>12. StageOf(Decoder, k)
  BY <1>6, <1>7, <1>8, <1>9, <1>10 DEF StageOf
<1>13. Part(Decoder, 0)' = Part(Decoder, 0)
  <2>1. Part(Decoder, 0) = Elements(bufs)
    BY <1>2, <1>3, <1>8, PartIs DEF At
  <2>2. Part(Decoder, 0)' = S \cup Elements(rest)
    BY <1>3, <1>9, <1>10, <1>11, PartWillBe DEF At
  <2> QED
    BY <1>7, <2>1, <2>2
<1>14. ring' \in [Workers -> RingRecord] /\ \A v \in Workers : ring'[v].full = ring[v].full
  <2>1. ring \in [Workers -> RingRecord]
    BY PoolTypes
  <2>2. ring[Decoder].empty + 1 \in Int /\ ring[Decoder].count - 1 \in Int
    BY <1>3, <2>1 DEF RingRecord
  <2>3. ring' = [ring EXCEPT ![Decoder].empty = ring[Decoder].empty + 1,
                             ![Decoder].count = ring[Decoder].count - 1]
    BY <1>2, <1>3, <2>1 DEF RingRecord
  <2> QED
    BY <1>3, <2>1, <2>2, <2>3, RingNumbers
<1> QED
  BY <1>2, <1>3, <1>5, <1>10, <1>12, <1>13, <1>14, SteadyWorker

\* The batches of a ring move up.
LEMMA ReceiveStep == ASSUME PoolInv, NEW w \in Workers, Receive(w) PROVE PoolInv'
<1> DEFINE full == ring[w].full
           h == Head(full)
           k == [worker[w] EXCEPT !.pc = "got", !.batch = h, !.rindex = 0]
<1>1. /\ worker[w].pc = "idle" /\ full # <<>>
      /\ worker' = [worker EXCEPT ![w].pc = "got", ![w].batch = Head(full), ![w].rindex = 0]
      /\ ring' = [ring EXCEPT ![w].full = Tail(full)]
      /\ UNCHANGED <<pool, reader, held, size>>
  BY DEF Receive, At
<1>2. /\ Workers' = Workers /\ Tables' = Tables /\ Lines' = Lines /\ Buffer' = Buffer
      /\ BatchSize' = BatchSize /\ Current \notin Workers /\ Tables \subseteq Workers
      /\ Lines = {Current} \cup Workers
  BY <1>1, SameSize, SizeTypes, PoolTypes DEF Types, Lines
<1>3. /\ worker[w] \in WorkerRecord /\ worker \in [Workers -> WorkerRecord]
      /\ StageOf(w, worker[w])
  BY WorkerTypes
<1>4. ring \in [Workers -> RingRecord] /\ ring[w] \in RingRecord /\ full \in Seq(Batch)
  <2>1. ring \in [Workers -> RingRecord]
    BY PoolTypes
  <2> QED
    BY <2>1 DEF RingRecord
<1>5. /\ Tail(full) \in Seq(Batch) /\ Len(full) \in Nat \ {0} /\ Len(Tail(full)) = Len(full) - 1
      /\ \A i \in 1 .. Len(Tail(full)) : Tail(full)[i] = full[i + 1]
      /\ Head(full) = full[1] /\ Head(full) \in Batch
  BY <1>1, <1>4
<1>6. worker' = [worker EXCEPT ![w] = k]
  BY <1>1, <1>3
<1> DEFINE rest == Tail(full)
<1>7. /\ ring' \in [Workers -> RingRecord] /\ ring'[w].full = rest
      /\ \A v \in Workers : v # w => ring'[v] = ring[v]
  <2>1. rest \in Seq(Batch) /\ ring' = [ring EXCEPT ![w] = [ring[w] EXCEPT !.full = rest]]
    BY <1>1, <1>5
  <2> HIDE DEF rest
  <2>2. [ring[w] EXCEPT !.full = rest] \in RingRecord /\ [ring[w] EXCEPT !.full = rest].full = rest
    BY <1>4, <2>1 DEF RingRecord
  <2> QED
    BY <1>4, <2>1, <2>2
<1>8. /\ k \in WorkerRecord /\ k.pc = "got" /\ k.batch = full[1]
      /\ k.discard = worker[w].discard /\ k.free = worker[w].free /\ k.rindex = 0
  <2>1. h \in Batch /\ h = full[1]
    BY <1>5
  <2> HIDE DEF h
  <2> QED
    BY <1>3, <2>1 DEF WorkerRecord, WorkerPlaces
<1> HIDE DEF k, h, full, rest
<1>9. worker'[w] = k /\ worker' \in [Workers -> WorkerRecord]
      /\ \A v \in Workers : v # w => worker'[v] = worker[v]
  BY <1>3, <1>6, <1>8
<1>10. worker[w].batch.bufs = <<>> /\ worker[w].discard = {} /\ worker[w].free = 0
  BY <1>1, <1>3 DEF StageOf
<1>11. \A i \in 1 .. Len(full) : Injective(full[i].bufs)
  BY DEF PoolInv, Stages, RingStage, full
<1>12. Types'
  BY <1>1, <1>7, <1>9, TypesGo, PoolTypes DEF Types, pool
<1>13. Stages'
  <2>1. StageOf(w, k)
    <3>1. Injective(full[1].bufs)
      BY <1>5, <1>11
    <3> QED
      BY <1>8, <1>10, <3>1 DEF StageOf
  <2>2. StageOf(w, worker[w])'
    BY <1>9, <2>1 DEF StageOf, Injective, Elements
  <2>3. \A v \in Workers' : WorkerStage(v)'
    BY <1>1, <1>9, <2>2, WorkerGoes DEF PoolInv, Stages
  <2>4. RingStage'
    <3> SUFFICES ASSUME NEW v \in Workers, NEW i \in 1 .. Len(ring'[v].full)
                 PROVE  Injective(ring'[v].full[i].bufs)
      BY <1>2 DEF RingStage, Injective
    <3>1. CASE v # w
      BY <1>7, <3>1 DEF PoolInv, Stages, RingStage
    <3>2. CASE v = w
      <4>1. ring'[v].full = rest /\ i \in 1 .. Len(rest)
        BY <1>7, <3>2
      <4>2. rest[i] = full[i + 1] /\ i + 1 \in 1 .. Len(full)
        BY <1>5, <4>1 DEF rest
      <4> QED
        BY <1>11, <4>1, <4>2
    <3> QED
      BY <3>1, <3>2
  <2>5. ReaderStage'
    BY <1>1, <1>2 DEF PoolInv, Stages, ReaderStage, Injective, pool
  <2> QED
    BY <2>3, <2>4, <2>5 DEF Stages
<1>14. \A i \in Nat : Part(w, i)' = Part(w, i + 1)
  <2>1. Part(w, 0)' = Part(w, 1)
    <3>1. Part(w, 0)' = Elements(full[1].bufs)
      BY <1>2, <1>8, <1>9, <1>10, PartWillBe, ZenonT(30) DEF At
    <3>2. 1 \in Nat \ {0} /\ 1 <= Len(full)
      BY <1>5
    <3>3. Part(w, 1) = Elements(full[1].bufs)
      BY <3>2, LineOf DEF full
    <3> QED
      BY <3>1, <3>3
  <2>2. \A i \in Nat \ {0} : Part(w, i)' = Part(w, i + 1)
    <3> TAKE i \in Nat \ {0}
    <3>1. Part(w, i)' = IF i <= Len(rest) THEN Elements(rest[i].bufs) ELSE {}
      BY <1>1, <1>7, LineOf
    <3>0. i + 1 \in Nat \ {0}
      OBVIOUS
    <3>2. Part(w, i + 1) = IF i + 1 <= Len(full) THEN Elements(full[i + 1].bufs) ELSE {}
      BY <3>0, LineOf DEF full
    <3>3. CASE i <= Len(rest)
      <4>1. i \in 1 .. Len(rest) /\ i + 1 <= Len(full) /\ rest[i] = full[i + 1]
        BY <1>5, <3>3 DEF rest
      <4> QED
        BY <3>1, <3>2, <3>3, <4>1
    <3>4. CASE ~(i <= Len(rest))
      <4>1. ~(i + 1 <= Len(full))
        BY <1>5, <3>4 DEF rest
      <4> QED
        BY <3>1, <3>2, <3>4, <4>1
    <3> QED
      BY <3>3, <3>4
  <2> QED
    BY <2>1, <2>2
<1>15. \A r \in Lines : r # w => \A i \in Nat : Part(r, i)' = Part(r, i)
  <2>1. Part(Current, 0)' = Part(Current, 0)
    BY <1>1, PartIs, PartWillBe
  <2>2. \A i \in Nat \ {0} : Part(Current, i)' = Part(Current, i)
    BY <1>1, ReaderLine, PoolTypes
  <2>3. \A v \in Workers : v # w => \A i \in Nat : Part(v, i)' = Part(v, i)
    BY <1>1, <1>7, <1>9, PartStays, LineStays DEF SameWork
  <2> QED
    BY <1>2, <2>1, <2>2, <2>3
<1>16. Part(w, 0) = {}
  BY <1>10, PartIs DEF Elements
<1>17. \A b : \A r \in Lines : \A i \in Nat :
          b \in Part(r, i)' <=> b \in Part(r, IF r = w THEN i + 1 ELSE i)
  BY <1>14, <1>15
<1>18. \A r \in Lines : \A b : (\E i \in Nat : b \in Part(r, i)') <=> \E i \in Nat : b \in Part(r, i)
  <2> TAKE r \in Lines
  <2> TAKE b
  <2>1. CASE r # w
    BY <1>15, <2>1
  <2>2. CASE r = w
    <3>1. ASSUME NEW i \in Nat, b \in Part(w, i)' PROVE \E j \in Nat : b \in Part(w, j)
      <4>1. b \in Part(w, i + 1) /\ i + 1 \in Nat
        BY <1>14, <3>1
      <4> QED
        BY <4>1
    <3>2. ASSUME NEW i \in Nat, b \in Part(w, i) PROVE \E j \in Nat : b \in Part(w, j)'
      <4>1. i # 0
        BY <1>16, <3>2
      <4>2. i - 1 \in Nat /\ (i - 1) + 1 = i
        BY <4>1
      <4>3. b \in Part(w, i - 1)'
        BY <1>14, <3>2, <4>2
      <4> QED
        BY <4>2, <4>3
    <3> QED
      BY <2>2, <3>1, <3>2
  <2> QED
    BY <2>1, <2>2
<1>19. Exclusive'
  <2> SUFFICES ASSUME NEW b \in Buffer, NEW r \in Lines, NEW s \in Lines, NEW i \in Nat, NEW j \in Nat,
                      b \in Part(r, i)', b \in Part(s, j)'
               PROVE  r = s /\ i = j
    BY <1>2 DEF Exclusive
  <2> DEFINE x == IF r = w THEN i + 1 ELSE i
             y == IF s = w THEN j + 1 ELSE j
  <2>1. b \in Part(r, x) /\ b \in Part(s, y) /\ x \in Nat /\ y \in Nat
    BY <1>17
  <2>2. r = s /\ x = y
    BY <2>1 DEF PoolInv, Ownership, Exclusive
  <2> QED
    BY <2>2
<1>20. /\ \A b \in Buffer : Copied(b)' = Copied(b)
       /\ \A b \in Buffer : Placed(b)' = Placed(b)
       /\ \A b \in Buffer : Live(b)' = Live(b)
  <2>1. \A b \in Buffer : Copied(b)' = Copied(b)
    BY <1>1, <1>2 DEF Copied
  <2>2. \A b \in Buffer : Placed(b)' = Placed(b)
    BY <1>2, <1>18 DEF Placed
  <2>3. \A b \in Buffer : Live(b)' = Live(b)
    BY <1>1, <1>2, <1>18 DEF Live, Written
  <2> QED
    BY <2>1, <2>2, <2>3
<1>21. InUse'
  <2>1. list' = list /\ inUse' = inUse /\ Elements(list)' = Elements(list)
    BY <1>1 DEF Elements, pool
  <2> QED
    BY <1>2, <1>20, <2>1 DEF InUse, PoolInv, Ownership
<1>22. Copies'
  <2> SUFFICES ASSUME NEW t \in Tables, NEW b \in held[t]
               PROVE  /\ \A u \in Tables : b \in held[u] => u = t
                      /\ \A r \in Lines : \A i \in Nat :
                            b \in Part(r, i)' => r = t /\ i = 0 /\ Seen(t, b)'
    BY <1>1, <1>2 DEF Copies
  <2>1. /\ \A u \in Tables : b \in held[u] => u = t
        /\ \A r \in Lines : \A i \in Nat : b \in Part(r, i) => r = t /\ i = 0 /\ Seen(t, b)
    BY DEF PoolInv, Ownership, Copies
  <2>2. \A i \in Nat : b \notin Part(w, i)'
    <3> TAKE i \in Nat
    <3>1. i + 1 \in Nat /\ i + 1 # 0 /\ w \in Lines
      BY <1>2
    <3> QED
      BY <1>14, <2>1, <3>1
  <2>3. t # w => Seen(t, b)' = Seen(t, b)
    BY <1>2, <1>9 DEF Seen
  <2> QED
    BY <1>15, <2>1, <2>2, <2>3
<1>23. References'
  BY <1>1, <1>2, <1>20 DEF PoolInv, Ownership, References, pool
<1>24. FreeAccounted' /\ ScanFinds'
  <2>1. \A v \in Workers : worker'[v].free = worker[v].free
    BY <1>8, <1>9
  <2>2. SameScan
    BY <1>1 DEF SameScan
  <2> QED
    BY <1>1, <2>1, <2>2, CountStays, PoolTypes DEF PoolInv, pool
<1> QED
  BY <1>12, <1>13, <1>19, <1>21, <1>22, <1>23, <1>24 DEF PoolInv, Ownership

\* A feature keeps a copy of the packet that is handled.
LEMMA CopyKept ==
    ASSUME PoolInv, NEW t \in Tables, NEW j \in Nat, j = worker[t].rindex + 1,
           worker[t].pc = "events", j <= Len(worker[t].batch.bufs),
           NEW b, b = worker[t].batch.bufs[j],
           refcnt' = [refcnt EXCEPT ![b] = @ + 1], held' = [held EXCEPT ![t] = @ \cup {b}],
           worker' = [worker EXCEPT ![t].rindex = j],
           UNCHANGED <<list, inUse, numFree, reader, ring, size>>
    PROVE  PoolInv'
<1> DEFINE k == [worker[t] EXCEPT !.rindex = j]
           bufs == worker[t].batch.bufs
<1>1. /\ Workers' = Workers /\ Tables' = Tables /\ Lines' = Lines /\ Buffer' = Buffer
      /\ BatchSize' = BatchSize /\ t \in Workers /\ t # Decoder /\ t \in Lines
      /\ Lines = {Current} \cup Workers /\ Tables \subseteq Workers
  BY SameSize, SizeTypes, PoolTypes DEF Types, Lines
<1>2. /\ worker[t] \in WorkerRecord /\ worker \in [Workers -> WorkerRecord]
      /\ bufs \in Seq(Buffer) /\ worker[t].rindex \in Nat /\ StageOf(t, worker[t])
  BY <1>1, WorkerTypes
<1>3. j \in 1 .. Len(bufs) /\ b \in Buffer /\ b \in Elements(bufs) /\ Injective(bufs)
  BY <1>2 DEF Elements, StageOf
<1>4. /\ k \in WorkerRecord /\ k.pc = "events" /\ k.batch = worker[t].batch /\ k.rindex = j
      /\ k.free = worker[t].free /\ k.discard = worker[t].discard
      /\ worker' = [worker EXCEPT ![t] = k]
  BY <1>2 DEF WorkerRecord
<1> HIDE DEF k
<1>5. /\ worker'[t] = k /\ worker' \in [Workers -> WorkerRecord]
      /\ \A v \in Workers : v # t => worker'[v] = worker[v]
  BY <1>1, <1>2, <1>4
<1>6. refcnt \in [Buffer -> Nat] /\ held \in [Tables -> SUBSET Buffer]
  BY PoolTypes DEF Types
<1>7. /\ refcnt' \in [Buffer -> Nat]
      /\ \A c \in Buffer : refcnt'[c] = IF c = b THEN refcnt[c] + 1 ELSE refcnt[c]
      /\ held' \in [Tables -> SUBSET Buffer]
      /\ \A u \in Tables : held'[u] = IF u = t THEN held[u] \cup {b} ELSE held[u]
  <2>1. refcnt[b] + 1 \in Nat
    BY <1>3, <1>6
  <2>2. /\ refcnt' \in [Buffer -> Nat]
        /\ \A c \in Buffer : refcnt'[c] = IF c = b THEN refcnt[c] + 1 ELSE refcnt[c]
    BY <1>3, <1>6, <2>1
  <2>3. held[t] \cup {b} \in SUBSET Buffer
    BY <1>3, <1>6
  <2>4. /\ held' \in [Tables -> SUBSET Buffer]
        /\ \A u \in Tables : held'[u] = IF u = t THEN held[u] \cup {b} ELSE held[u]
    BY <1>6, <2>3
  <2> QED
    BY <2>2, <2>4
<1>8. Types'
  BY <1>5, <1>7, TypesGo, PoolTypes DEF Types
<1>9. Stages'
  <2>1. StageOf(t, k)
    BY <1>2, <1>4 DEF StageOf
  <2>2. StageOf(t, worker[t])'
    BY <1>5, <2>1, NextStage
  <2>3. \A v \in Workers' : WorkerStage(v)'
    BY <1>1, <1>5, <2>2, WorkerGoes DEF PoolInv, Stages
  <2>4. ReaderStage'
    BY <1>1 DEF PoolInv, Stages, ReaderStage, Injective
  <2> QED
    BY <2>3, <2>4, RingStays DEF PoolInv, Stages
<1>10. SameParts
  <2>1. \A v \in Workers : SameWork(v)
    BY <1>4, <1>5 DEF SameWork
  <2> QED
    BY <2>1, PoolTypes, PartsStay
<1>11. b \in Part(t, 0)
  BY <1>1, <1>3, PartIs DEF At
<1>12. ~Copied(b)
  <2> SUFFICES ASSUME NEW u \in Tables, b \in held[u] PROVE FALSE
    BY DEF Copied
  <2>1. t = u /\ Seen(u, b)
    BY <1>1, <1>11 DEF PoolInv, Ownership, Copies
  <2>2. PICK i \in 1 .. worker[t].rindex : i <= Len(bufs) /\ bufs[i] = b
    BY <2>1 DEF Seen
  <2>3. i \in 1 .. Len(bufs) /\ i # j
    BY <1>2, <2>2
  <2> QED
    BY <1>3, <2>2, <2>3 DEF Injective
<1>13. Live(b)
  BY <1>1, <1>11 DEF Live
<1>14. \A c \in Buffer : Copied(c)' <=> Copied(c) \/ c = b
  BY <1>1, <1>7, SMTT(30) DEF Copied
<1>15. /\ \A c \in Buffer : Placed(c)' = Placed(c)
       /\ \A c \in Buffer : Live(c)' = Live(c)
  BY <1>1, <1>10, ZenonT(30) DEF Placed, Live, Written, SameParts
<1>16. Exclusive'
  <2>1. Exclusive /\ \A r \in Lines : \A i \in Nat : Part(r, i)' = Part(r, i)
    BY <1>10 DEF SameParts, PoolInv, Ownership
  <2>2. Lines' = Lines /\ Buffer' = Buffer
    BY <1>1
  <2> QED
    BY <2>1, <2>2 DEF Exclusive
<1>17. InUse'
  <2>1. Placed(b)
    BY <1>1, <1>11 DEF Placed
  <2>2. Elements(list)' = Elements(list)
    BY DEF Elements
  <2> QED
    BY <1>1, <1>14, <1>15, <2>1, <2>2 DEF PoolInv, Ownership, InUse
<1>18. Copies'
  <2> SUFFICES ASSUME NEW u \in Tables, NEW c \in held'[u]
               PROVE  /\ \A v \in Tables : c \in held'[v] => v = u
                      /\ \A r \in Lines : \A i \in Nat :
                            c \in Part(r, i)' => r = u /\ i = 0 /\ Seen(u, c)'
    BY <1>1 DEF Copies
  <2>1. CASE c = b
    <3>1. \A v \in Tables : b \in held'[v] => v = t
      BY <1>7, <1>12 DEF Copied
    <3>2. u = t
      BY <2>1, <3>1
    <3>3. \A r \in Lines : \A i \in Nat : b \in Part(r, i)' => r = t /\ i = 0
      <4>1. Exclusive /\ \A r \in Lines : \A i \in Nat : Part(r, i)' = Part(r, i)
        BY <1>10 DEF SameParts, PoolInv, Ownership
      <4>2. t \in Lines /\ b \in Buffer /\ 0 \in Nat
        BY <1>1, <1>3
      <4> QED
        BY <1>11, <4>1, <4>2 DEF Exclusive
    <3>4. Seen(t, b)'
      <4>1. /\ worker'[t].rindex = j /\ j \in 1 .. j /\ j <= Len(worker'[t].batch.bufs)
            /\ worker'[t].batch.bufs[j] = b
        BY <1>3, <1>4, <1>5
      <4> QED
        BY <4>1 DEF Seen
    <3> QED
      BY <2>1, <3>1, <3>2, <3>3, <3>4
  <2>2. CASE c # b
    <3>1. c \in held[u]
      BY <1>7, <2>2
    <3>2. /\ \A v \in Tables : c \in held[v] => v = u
          /\ \A r \in Lines : \A i \in Nat : c \in Part(r, i) => r = u /\ i = 0 /\ Seen(u, c)
      BY <3>1 DEF PoolInv, Ownership, Copies
    <3>3. Seen(u, c) => Seen(u, c)'
      <4>1. CASE u = t
        <5>1. /\ worker'[u].batch.bufs = worker[u].batch.bufs
              /\ 1 .. worker[u].rindex \subseteq 1 .. worker'[u].rindex
          BY <1>2, <1>4, <1>5, <4>1
        <5> QED
          BY <5>1 DEF Seen
      <4>2. CASE u # t
        BY <1>1, <1>5, <4>2 DEF Seen
      <4> QED
        BY <4>1, <4>2
    <3>4. \A v \in Tables : c \in held'[v] => c \in held[v]
      BY <1>7, <2>2
    <3> QED
      BY <1>10, <3>2, <3>3, <3>4 DEF SameParts
  <2> QED
    BY <2>1, <2>2
<1>19. References'
  <2>1. \A c \in Buffer :
            refcnt'[c] = (IF Live(c)' THEN 1 ELSE 0) + (IF Copied(c)' THEN 1 ELSE 0)
    <3> TAKE c \in Buffer
    <3>1. refcnt[c] = (IF Live(c) THEN 1 ELSE 0) + (IF Copied(c) THEN 1 ELSE 0)
      BY DEF PoolInv, Ownership, References
    <3>2. CASE c = b
      <4>1. refcnt[b] = 1
        BY <1>12, <1>13, <3>1, <3>2, SMTT(30)
      <4>2. refcnt'[c] = 2
        BY <1>7, <3>2, <4>1
      <4>3. Live(c)' /\ Copied(c)'
        BY <1>13, <1>14, <1>15, <3>2
      <4> QED
        BY <4>2, <4>3
    <3>3. CASE c # b
      BY <1>7, <1>14, <1>15, <3>1, <3>3
    <3> QED
      BY <3>2, <3>3
  <2> QED
    BY <1>1, <2>1 DEF References
<1>20. FreeAccounted' /\ ScanFinds'
  <2>1. \A v \in Workers : worker'[v].free = worker[v].free
    BY <1>4, <1>5
  <2>2. SameScan
    BY DEF SameScan
  <2> QED
    BY <2>1, <2>2, CountStays, PoolTypes DEF PoolInv
<1> QED
  BY <1>8, <1>9, <1>16, <1>17, <1>18, <1>19, <1>20 DEF PoolInv, Ownership

\* A table handles a packet, and may keep a copy of it.
LEMMA HandlePacketStep == ASSUME PoolInv, NEW t \in Tables, HandlePacket(t) PROVE PoolInv'
<1> DEFINE bufs == worker[t].batch.bufs
<1>1. /\ worker[t].pc = "events" /\ worker[t].rindex < Len(bufs)
      /\ worker' = [worker EXCEPT ![t].rindex = @ + 1]
      /\ \/ UNCHANGED <<refcnt, held>>
         \/ /\ refcnt' = [refcnt EXCEPT ![bufs[worker[t].rindex + 1]] = @ + 1]
            /\ held' = [held EXCEPT ![t] = @ \cup {bufs[worker[t].rindex + 1]}]
      /\ UNCHANGED <<list, inUse, numFree, reader, ring, size>>
  BY DEF HandlePacket, At
<1>2. t \in Workers /\ Tables \subseteq Workers
  BY SizeTypes, PoolTypes DEF Types
<1>3. /\ worker[t] \in WorkerRecord /\ worker \in [Workers -> WorkerRecord]
      /\ bufs \in Seq(Buffer) /\ worker[t].rindex \in Nat /\ StageOf(t, worker[t])
  BY <1>2, WorkerTypes
<1>4. PICK j \in Nat : j = worker[t].rindex + 1
  BY <1>3
<1>5. j <= Len(bufs)
  BY <1>1, <1>3, <1>4
<1>6. worker' = [worker EXCEPT ![t].rindex = j]
  BY <1>1, <1>3, <1>4
<1>7. CASE /\ refcnt' = [refcnt EXCEPT ![bufs[worker[t].rindex + 1]] = @ + 1]
           /\ held' = [held EXCEPT ![t] = @ \cup {bufs[worker[t].rindex + 1]}]
  <2>1. PICK b : b = bufs[j]
    OBVIOUS
  <2>2. refcnt' = [refcnt EXCEPT ![b] = @ + 1] /\ held' = [held EXCEPT ![t] = @ \cup {b}]
    BY <1>4, <1>7, <2>1
  <2> QED
    BY <1>1, <1>4, <1>5, <1>6, <2>1, <2>2, CopyKept
<1>8. CASE UNCHANGED <<refcnt, held>>
  <2> DEFINE k == [worker[t] EXCEPT !.rindex = j]
  <2>1. worker' = [worker EXCEPT ![t] = k]
    BY <1>3, <1>6
  <2>2. /\ k \in WorkerRecord /\ k.pc = "events" /\ k.batch = worker[t].batch /\ k.rindex = j
        /\ k.free = worker[t].free /\ k.discard = worker[t].discard
    BY <1>1, <1>3 DEF WorkerRecord
  <2> HIDE DEF k
  <2>3. worker'[t] = k
    BY <1>2, <1>3, <2>1
  <2>4. StageOf(t, k)
    BY <1>1, <1>3, <2>2 DEF StageOf
  <2>5. Part(t, 0)' = Part(t, 0)
    BY <1>1, <1>2, <2>2, <2>3, PartStays DEF SameWork
  <2>6. \A b \in Part(t, 0) : Seen(t, b) => Seen(t, b)'
    <3>1. /\ worker'[t].batch.bufs = worker[t].batch.bufs
          /\ 1 .. worker[t].rindex \subseteq 1 .. worker'[t].rindex
      BY <1>3, <1>4, <2>2, <2>3
    <3> QED
      BY <3>1 DEF Seen
  <2> QED
    BY <1>1, <1>2, <1>8, <2>1, <2>2, <2>4, <2>5, <2>6, SteadyWorker, PoolTypes DEF pool
<1> QED
  BY <1>1, <1>7, <1>8

\* The buffers of back are not in use any longer, and the worker will add their number to
\* numFree.
LEMMA CountGivenBack ==
    ASSUME PoolInv, NEW w \in Workers, NEW back \in SUBSET inUse, inUse' = inUse \ back,
           worker[w].free = 0, worker'[w].free = Cardinality(back),
           \A v \in Workers : v # w => worker'[v].free = worker[v].free,
           UNCHANGED <<list, numFree, reader, size>>
    PROVE  FreeAccounted' /\ ScanFinds'
<1> DEFINE E == Elements(list)
<1>1. /\ E \in SUBSET Buffer /\ inUse \subseteq E /\ inUse \in SUBSET Buffer
      /\ back \in SUBSET Buffer /\ back \subseteq E
  BY PoolTypes, ElementsAre
<1>2. Cardinality(back) \in Nat /\ Cardinality(E \ inUse) \in Nat
  <2>1. E \ inUse \in SUBSET Buffer
    BY <1>1
  <2> QED
    BY <1>1, <2>1, PoolTypes, BuffersAreFinite
<1>3. E' = E /\ BatchSize' = BatchSize
  BY SameSize DEF Elements
<1>4. FreeAccounted'
  <2>1. SumOfFree' = SumOfFree + worker'[w].free - worker[w].free
    BY <1>2, SumGoes, PoolTypes
  <2>2. SumOfFree' = SumOfFree + Cardinality(back) /\ SumOfFree \in Nat
    BY <1>2, <2>1, SumIsNatural, PoolTypes
  <2> HIDE DEF E
  <2>3. Cardinality(E \ inUse') = Cardinality(E \ inUse) + Cardinality(back)
    BY <1>1, MoreUnused, PoolTypes
  <2> DEFINE x == IF reader.pc \in {"scan", "popped"} THEN reader.num ELSE 0
  <2>4. x \in Nat
    BY PoolTypes DEF ReaderRecord
  <2>5. numFree = Cardinality(E \ inUse) - SumOfFree + x
    BY DEF PoolInv, FreeAccounted, E
  <2>6. x' = x
    OBVIOUS
  <2> HIDE DEF x
  <2>7. numFree = Cardinality(E \ inUse') - SumOfFree' + x
    BY <1>2, <2>2, <2>3, <2>4, <2>5
  <2>8. numFree' = Cardinality(E \ inUse') - SumOfFree' + x'
    BY <2>6, <2>7
  <2> QED
    BY <1>3, <2>8 DEF FreeAccounted, E, x
<1>5. ScanFinds'
  <2>1. Ahead' = Ahead /\ Ahead \in SUBSET Buffer
    <3>1. reader.at \in Nat /\ list \in Seq(Buffer)
      BY PoolTypes DEF ReaderRecord
    <3> QED
      BY <3>1 DEF Ahead
  <2>2. Ahead \ inUse \in SUBSET (Ahead \ inUse') /\ Ahead \ inUse' \in SUBSET Buffer
    BY <2>1
  <2>3. /\ IsFiniteSet(Ahead \ inUse') /\ Cardinality(Ahead \ inUse') \in Nat
        /\ Cardinality(Ahead \ inUse) \in Nat
    BY <2>2, PoolTypes, BuffersAreFinite
  <2>4. Cardinality(Ahead \ inUse) <= Cardinality(Ahead \ inUse')
    BY <2>2, <2>3, FS_Subset
  <2>5. reader.num \in Nat /\ BatchSize \in Nat
    BY PoolTypes, SizeTypes DEF ReaderRecord, Types
  <2>6. reader.pc = "scan" => Cardinality(Ahead \ inUse') + reader.num >= BatchSize
    BY <2>3, <2>4, <2>5 DEF PoolInv, ScanFinds
  <2> QED
    BY <1>3, <2>1, <2>6 DEF ScanFinds
<1> QED
  BY <1>4, <1>5

\* A worker gives up all the buffers that it has.
LEMMA BatchGivenBack ==
    ASSUME PoolInv, NEW w \in Workers, NEW k \in WorkerRecord, worker' = [worker EXCEPT ![w] = k],
           StageOf(w, k), NEW S, S = Part(w, 0), Part(w, 0)' = {},
           NEW back, back = {b \in S : refcnt[b] <= 1},
           worker[w].free = 0, k.free = Cardinality(back),
           refcnt' = [b \in Buffer |-> IF b \in S THEN refcnt[b] - 1 ELSE refcnt[b]],
           inUse' = inUse \ back,
           UNCHANGED <<list, numFree, reader, ring, held, size>>
    PROVE  PoolInv'
<1>1. /\ Workers' = Workers /\ Tables' = Tables /\ Lines' = Lines /\ Buffer' = Buffer
      /\ BatchSize' = BatchSize /\ w \in Lines /\ Current \notin Workers /\ Current \in Lines
      /\ Lines = {Current} \cup Workers /\ Tables \subseteq Workers
  BY SameSize, SizeTypes, PoolTypes DEF Types, Lines
<1>2. worker \in [Workers -> WorkerRecord] /\ S \in SUBSET Buffer
  <2>1. /\ worker \in [Workers -> WorkerRecord] /\ worker[w].batch.bufs \in Seq(Buffer)
        /\ worker[w].discard \in SUBSET Buffer
    BY WorkerTypes
  <2>2. Elements(worker[w].batch.bufs) \in SUBSET Buffer
    BY <2>1, ElementsAre
  <2> QED
    BY <2>1, <2>2, PartIs
<1>3. /\ worker'[w] = k /\ worker' \in [Workers -> WorkerRecord]
      /\ \A v \in Workers : v # w => worker'[v] = worker[v]
  BY <1>2
<1>4. Exclusive /\ InUse /\ Copies /\ References
  BY DEF PoolInv, Ownership
<1>5. \A b \in S : \A r \in Lines : \A i \in Nat : b \in Part(r, i) => r = w /\ i = 0
  <2>1. w \in Lines /\ 0 \in Nat /\ S \in SUBSET Buffer
    BY <1>1, <1>2
  <2> QED
    BY <1>4, <2>1 DEF Exclusive
<1>6. \A b \in S : Live(b) /\ Placed(b) /\ b \in inUse /\ ~Written(b)
  <2> TAKE b \in S
  <2>1. Live(b) /\ Placed(b)
    BY <1>1 DEF Live, Placed
  <2>2. b \in inUse
    BY <1>2, <1>4, <2>1 DEF InUse
  <2>3. b \notin Part(Current, 0)
    BY <1>1, <1>5
  <2>4. reader.cur \in Seq(Buffer) /\ reader.rindex \in Nat
    BY PoolTypes DEF ReaderRecord
  <2>5. ~Written(b)
    BY <2>3, <2>4, PartIs DEF Written, Elements
  <2> QED
    BY <2>1, <2>2, <2>5
<1>7. \A b \in S : refcnt[b] = 1 + (IF Copied(b) THEN 1 ELSE 0)
  BY <1>2, <1>4, <1>6 DEF References
<1>8. \A b \in S : b \in back <=> ~Copied(b)
  BY <1>7
<1>9. refcnt \in [Buffer -> Nat]
  BY PoolTypes DEF Types
<1>10. refcnt' \in [Buffer -> Nat]
  <2>1. \A b \in Buffer : (IF b \in S THEN refcnt[b] - 1 ELSE refcnt[b]) \in Nat
    BY <1>7, <1>9
  <2> QED
    BY <2>1
<1>11. Types'
  <2>1. inUse' \in SUBSET Buffer
    BY PoolTypes
  <2> QED
    BY <1>3, <1>10, <2>1, TypesGo, PoolTypes DEF Types
<1>12. Stages'
  <2>1. StageOf(w, worker[w])'
    BY <1>3, NextStage
  <2>2. \A v \in Workers' : WorkerStage(v)'
    BY <1>3, <2>1, WorkerGoes DEF PoolInv, Stages
  <2>3. ReaderStage'
    BY <1>1 DEF PoolInv, Stages, ReaderStage, Injective
  <2> QED
    BY <2>2, <2>3, RingStays DEF PoolInv, Stages
<1>13. \A r \in Lines : \A i \in Nat :
          Part(r, i)' = IF r = w /\ i = 0 THEN {} ELSE Part(r, i)
  <2>1. Part(Current, 0)' = Part(Current, 0)
    BY PartIs, PartWillBe
  <2>2. \A i \in Nat \ {0} : Part(Current, i)' = Part(Current, i)
    BY ReaderLine, PoolTypes
  <2>3. \A v \in Workers : v # w => Part(v, 0)' = Part(v, 0)
    BY <1>3, PartStays DEF SameWork
  <2>4. \A v \in Workers : \A i \in Nat \ {0} : Part(v, i)' = Part(v, i)
    BY LineStays
  <2> QED
    BY <1>1, <2>1, <2>2, <2>3, <2>4
<1>14. \A b \in S : \A r \in Lines : \A i \in Nat : b \notin Part(r, i)'
  BY <1>5, <1>13
<1>15. \A b : b \notin S => \A r \in Lines : \A i \in Nat : b \in Part(r, i)' <=> b \in Part(r, i)
  BY <1>13
<1>16. Exclusive'
  <2>1. \A b : \A r \in Lines : \A i \in Nat : b \in Part(r, i)' => b \in Part(r, i)
    BY <1>13
  <2>2. Lines' = Lines /\ Buffer' = Buffer
    BY <1>1
  <2> QED
    BY <1>4, <2>1, <2>2 DEF Exclusive
<1>17. \A b \in Buffer : Copied(b)' = Copied(b)
  BY <1>1 DEF Copied
<1>18. \A b \in S : ~Placed(b)' /\ ~Live(b)'
  <2> TAKE b \in S
  <2>1. ~Written(b)'
    BY <1>6 DEF Written
  <2> QED
    BY <1>1, <1>14, <2>1 DEF Placed, Live
<1>19. \A b : b \notin S => Placed(b)' = Placed(b) /\ Live(b)' = Live(b)
  <2> SUFFICES ASSUME NEW b, b \notin S PROVE Placed(b)' = Placed(b) /\ Live(b)' = Live(b)
    OBVIOUS
  <2>1. Written(b)' = Written(b)
    BY DEF Written
  <2>2. Placed(b)' = Placed(b)
    BY <1>1, <1>15 DEF Placed
  <2>3. Live(b)' = Live(b)
    BY <1>1, <1>15, <2>1 DEF Live
  <2> QED
    BY <2>2, <2>3
<1>20. InUse'
  <2>1. \A b \in Buffer : b \in inUse' <=> Placed(b)' \/ Copied(b)'
    <3> TAKE b \in Buffer
    <3>1. CASE b \in S
      BY <1>6, <1>8, <1>17, <1>18, <3>1
    <3>2. CASE b \notin S
      <4>1. b \notin back /\ (b \in inUse <=> Placed(b) \/ Copied(b))
        BY <1>4, <3>2 DEF InUse
      <4> QED
        BY <1>17, <1>19, <3>2, <4>1
    <3> QED
      BY <3>1, <3>2
  <2>2. inUse' \subseteq Elements(list')
    BY PoolTypes
  <2> QED
    BY <1>1, <2>1, <2>2 DEF InUse, Elements
<1>21. Copies'
  <2> SUFFICES ASSUME NEW t \in Tables, NEW b \in held[t]
               PROVE  /\ \A u \in Tables : b \in held[u] => u = t
                      /\ \A r \in Lines : \A i \in Nat :
                            b \in Part(r, i)' => r = t /\ i = 0 /\ Seen(t, b)'
    BY <1>1 DEF Copies
  <2>1. /\ \A u \in Tables : b \in held[u] => u = t
        /\ \A r \in Lines : \A i \in Nat : b \in Part(r, i) => r = t /\ i = 0 /\ Seen(t, b)
    BY <1>4 DEF Copies
  <2>2. t # w => Seen(t, b)' = Seen(t, b)
    BY <1>1, <1>3 DEF Seen
  <2> QED
    BY <1>13, <2>1, <2>2
<1>22. References'
  <2>1. \A b \in Buffer :
            refcnt'[b] = (IF Live(b)' THEN 1 ELSE 0) + (IF Copied(b)' THEN 1 ELSE 0)
    <3> TAKE b \in Buffer
    <3>1. CASE b \in S
      BY <1>7, <1>17, <1>18, <3>1
    <3>2. CASE b \notin S
      <4>1. refcnt[b] = (IF Live(b) THEN 1 ELSE 0) + (IF Copied(b) THEN 1 ELSE 0)
        BY <1>4 DEF References
      <4> QED
        BY <1>17, <1>19, <3>2, <4>1
    <3> QED
      BY <3>1, <3>2
  <2> QED
    BY <1>1, <2>1 DEF References
<1>23. FreeAccounted' /\ ScanFinds'
  <2>1. back \in SUBSET inUse
    BY <1>6
  <2> QED
    BY <1>3, <2>1, CountGivenBack
<1> QED
  BY <1>11, <1>12, <1>16, <1>20, <1>21, <1>22, <1>23 DEF PoolInv, Ownership

\* The decoder gives back the packets it has set apart.
LEMMA DiscardStep == ASSUME PoolInv, Discard PROVE PoolInv'
<1>1. /\ worker[Decoder].pc = "discard" /\ UNCHANGED <<reader, ring, held, size>>
      /\ IF worker[Decoder].discard = {}
         THEN Goes(Decoder, "idle") /\ UNCHANGED pool
         ELSE GiveUp(Decoder, worker[Decoder].discard,
                     [worker[Decoder] EXCEPT !.pc = "free", !.discard = {}, !.batch = NoBatch])
  BY DEF Discard, At
<1>2. Decoder \in Workers
  BY SizeTypes, PoolTypes DEF Types
<1>3. /\ worker[Decoder] \in WorkerRecord /\ worker \in [Workers -> WorkerRecord]
      /\ worker[Decoder].free = 0 /\ worker[Decoder].batch.bufs = <<>>
  BY <1>1, <1>2, WorkerTypes DEF StageOf
<1>4. CASE worker[Decoder].discard = {}
  <2>1. "idle" \in WorkerPlaces \ {"free"}
    BY DEF WorkerPlaces
  <2> QED
    BY <1>1, <1>2, <1>3, <1>4, <2>1, WorkerPlace, PoolTypes
<1>5. CASE worker[Decoder].discard # {}
  <2> DEFINE S == worker[Decoder].discard
             back == {b \in S : refcnt[b] <= 1}
             n == Cardinality(back)
             k == [worker[Decoder] EXCEPT !.pc = "free", !.discard = {}, !.batch = NoBatch,
                                          !.free = n]
  <2>1. /\ refcnt' = [b \in Buffer |-> IF b \in S THEN refcnt[b] - 1 ELSE refcnt[b]]
        /\ inUse' = inUse \ back /\ UNCHANGED <<list, numFree>>
        /\ worker' = [worker EXCEPT ![Decoder] = k]
    BY <1>1, <1>5 DEF GiveUp
  <2>2. n \in Nat
    <3>1. back \in SUBSET Buffer
      BY <1>3 DEF WorkerRecord
    <3> QED
      BY <3>1, BuffersAreFinite, PoolTypes
  <2>3. S = Part(Decoder, 0)
    <3>1. ~At(Decoder, "free") /\ Elements(worker[Decoder].batch.bufs) = {}
      BY <1>1, <1>3 DEF Elements, At
    <3>2. Part(Decoder, 0) = S \cup Elements(worker[Decoder].batch.bufs)
      BY <1>2, <3>1, PartIs
    <3> QED
      BY <3>1, <3>2
  <2> HIDE DEF S, back, n
  <2>4. NoBatch \in Batch /\ NoBatch.bufs = <<>> /\ {} \in SUBSET Buffer
    BY DEF NoBatch, Batch
  <2>5. k \in WorkerRecord /\ k.pc = "free" /\ k.discard = {} /\ k.batch = NoBatch /\ k.free = n
    BY <1>3, <2>2, <2>4 DEF WorkerRecord, WorkerPlaces
  <2> HIDE DEF k
  <2>6. StageOf(Decoder, k)
    BY <2>4, <2>5 DEF StageOf, Injective
  <2>7. Part(Decoder, 0)' = {}
    <3>1. worker'[Decoder] = k /\ Workers' = Workers
      BY <1>1, <1>2, <1>3, <2>1, SameSize
    <3> QED
      BY <1>2, <2>5, <3>1, PartWillBe DEF At
  <2> QED
    BY <1>1, <1>2, <1>3, <2>1, <2>3, <2>5, <2>6, <2>7, BatchGivenBack DEF back, n
<1> QED
  BY <1>4, <1>5

\* A table gives back its batch.
LEMMA RecycleBatchStep == ASSUME PoolInv, NEW t \in Tables, RecycleBatch(t) PROVE PoolInv'
<1> DEFINE S == Elements(worker[t].batch.bufs)
           back == {b \in S : refcnt[b] <= 1}
           n == Cardinality(back)
           k == [worker[t] EXCEPT !.pc = "free", !.free = n]
<1>1. /\ worker[t].pc = "events" /\ worker[t].free = 0 /\ UNCHANGED <<reader, ring, held, size>>
      /\ GiveUp(t, S, [worker[t] EXCEPT !.pc = "free"])
  BY DEF RecycleBatch, BatchDone, At
<1>2. t \in Workers /\ t # Decoder
  BY SizeTypes, PoolTypes DEF Types
<1>3. /\ worker[t] \in WorkerRecord /\ worker \in [Workers -> WorkerRecord]
      /\ worker[t].batch.bufs \in Seq(Buffer) /\ StageOf(t, worker[t])
  BY <1>2, WorkerTypes
<1>4. worker[t].discard = {} /\ Injective(worker[t].batch.bufs)
  BY <1>1, <1>2, <1>3 DEF StageOf
<1>5. /\ refcnt' = [b \in Buffer |-> IF b \in S THEN refcnt[b] - 1 ELSE refcnt[b]]
      /\ inUse' = inUse \ back /\ UNCHANGED <<list, numFree>>
      /\ worker' = [worker EXCEPT ![t] = k]
  BY <1>1, <1>3 DEF GiveUp
<1>6. n \in Nat
  <2>1. back \in SUBSET Buffer
    BY <1>3, ElementsAre
  <2> QED
    BY <2>1, BuffersAreFinite, PoolTypes
<1>7. S = Part(t, 0)
  BY <1>1, <1>2, <1>4, PartIs DEF At
<1>8. worker[t].batch.bufs = <<>> => n = 0
  <2>1. worker[t].batch.bufs = <<>> => back = {}
    BY DEF Elements
  <2> QED
    BY <2>1, FS_EmptySet
<1> HIDE DEF S, back, n
<1>9. /\ k \in WorkerRecord /\ k.pc = "free" /\ k.discard = {} /\ k.free = n
      /\ k.batch = worker[t].batch
  BY <1>3, <1>4, <1>6 DEF WorkerRecord, WorkerPlaces
<1> HIDE DEF k
<1>10. StageOf(t, k)
  BY <1>2, <1>4, <1>8, <1>9 DEF StageOf
<1>11. Part(t, 0)' = {}
  <2>1. worker'[t] = k /\ Workers' = Workers
    BY <1>1, <1>2, <1>3, <1>5, SameSize
  <2> QED
    BY <1>2, <1>9, <2>1, PartWillBe DEF At
<1> QED
  BY <1>1, <1>2, <1>5, <1>7, <1>9, <1>10, <1>11, BatchGivenBack DEF back, n

\* A copy is given back: its buffer is free unless the table has it in its batch.
LEMMA ReleaseCopyStep == ASSUME PoolInv, NEW t \in Tables, ReleaseCopy(t) PROVE PoolInv'
<1>1. PICK b \in held[t] : /\ GiveUp(t, {b}, worker[t])
                           /\ held' = [held EXCEPT ![t] = @ \ {b}]
  BY DEF ReleaseCopy
<1>2. /\ worker[t].pc \in {"events", "eof"} /\ worker[t].free = 0
      /\ UNCHANGED <<reader, ring, size>>
  BY DEF ReleaseCopy
<1>3. /\ Workers' = Workers /\ Tables' = Tables /\ Lines' = Lines /\ Buffer' = Buffer
      /\ BatchSize' = BatchSize /\ t \in Workers /\ t # Decoder
      /\ Lines = {Current} \cup Workers /\ Tables \subseteq Workers /\ Current \notin Workers
  BY <1>2, SameSize, SizeTypes, PoolTypes DEF Types, Lines
<1>4. /\ worker[t] \in WorkerRecord /\ worker \in [Workers -> WorkerRecord]
      /\ StageOf(t, worker[t])
  BY <1>3, WorkerTypes
<1>5. refcnt \in [Buffer -> Nat] /\ held \in [Tables -> SUBSET Buffer] /\ b \in Buffer
  BY PoolTypes DEF Types
<1> DEFINE back == {c \in {b} : refcnt[c] <= 1}
           n == Cardinality(back)
           k == [worker[t] EXCEPT !.free = n]
<1>6. /\ refcnt' = [c \in Buffer |-> IF c \in {b} THEN refcnt[c] - 1 ELSE refcnt[c]]
      /\ inUse' = inUse \ back /\ UNCHANGED <<list, numFree>>
      /\ worker' = [worker EXCEPT ![t] = k]
  BY <1>1 DEF GiveUp
<1>7. Exclusive /\ InUse /\ Copies /\ References
  BY DEF PoolInv, Ownership
<1>8. Copied(b) /\ b \in inUse
  BY <1>5, <1>7 DEF Copied, InUse
<1>9. /\ \A u \in Tables : b \in held[u] => u = t
      /\ \A r \in Lines : \A i \in Nat : b \in Part(r, i) => r = t /\ i = 0 /\ Seen(t, b)
  BY <1>7 DEF Copies
<1>10. ~Written(b)
  <2>1. b \notin Part(Current, 0)
    BY <1>3, <1>9
  <2>2. reader.cur \in Seq(Buffer) /\ reader.rindex \in Nat
    BY PoolTypes DEF ReaderRecord
  <2> QED
    BY <2>1, <2>2, PartIs DEF Written, Elements
<1>11. Placed(b) <=> Live(b)
  BY <1>3, <1>9, <1>10 DEF Placed, Live
<1>12. refcnt[b] = (IF Live(b) THEN 1 ELSE 0) + 1
  BY <1>5, <1>7, <1>8 DEF References
<1>13. back = IF Live(b) THEN {} ELSE {b}
  BY <1>12
<1>14. n \in Nat
  <2>1. back \in SUBSET Buffer
    BY <1>5
  <2> QED
    BY <2>1, BuffersAreFinite, PoolTypes
<1> HIDE DEF back, n
<1>15. /\ k \in WorkerRecord /\ k.free = n /\ k.pc = worker[t].pc /\ k.batch = worker[t].batch
       /\ k.rindex = worker[t].rindex /\ k.discard = worker[t].discard
  BY <1>4, <1>14 DEF WorkerRecord
<1> HIDE DEF k
<1>16. /\ worker'[t] = k /\ worker' \in [Workers -> WorkerRecord]
       /\ \A v \in Workers : v # t => worker'[v] = worker[v]
  BY <1>3, <1>4, <1>6, <1>15
<1>17. /\ refcnt' \in [Buffer -> Nat]
       /\ \A c \in Buffer : refcnt'[c] = IF c = b THEN refcnt[c] - 1 ELSE refcnt[c]
  <2>1. refcnt[b] - 1 \in Nat
    BY <1>12
  <2> QED
    BY <1>5, <1>6, <2>1
<1>18. /\ held' \in [Tables -> SUBSET Buffer]
       /\ \A u \in Tables : held'[u] = IF u = t THEN held[u] \ {b} ELSE held[u]
  BY <1>1, <1>5
<1>19. Types'
  <2>1. inUse' \in SUBSET Buffer
    BY <1>6, PoolTypes
  <2> QED
    BY <1>2, <1>6, <1>16, <1>17, <1>18, <2>1, TypesGo, PoolTypes DEF Types
<1>20. Stages'
  <2>1. StageOf(t, k)
    BY <1>2, <1>4, <1>15 DEF StageOf
  <2>2. StageOf(t, worker[t])'
    BY <1>16, <2>1, NextStage
  <2>3. \A v \in Workers' : WorkerStage(v)'
    BY <1>2, <1>3, <1>16, <2>2, WorkerGoes DEF PoolInv, Stages
  <2>4. ReaderStage'
    BY <1>2, <1>3, <1>6 DEF PoolInv, Stages, ReaderStage, Injective
  <2> QED
    BY <1>2, <2>3, <2>4, RingStays DEF PoolInv, Stages
<1>21. \A r \in Lines : \A i \in Nat : Part(r, i)' = Part(r, i)
  <2>1. \A v \in Workers : SameWork(v)
    BY <1>15, <1>16 DEF SameWork
  <2>2. SameParts
    BY <1>2, <2>1, PoolTypes, PartsStay
  <2> QED
    BY <2>2 DEF SameParts
<1>22. \A c \in Buffer : Copied(c)' <=> Copied(c) /\ c # b
  <2> TAKE c \in Buffer
  <2>1. CASE c = b
    BY <1>3, <1>9, <1>18, <2>1 DEF Copied
  <2>2. CASE c # b
    BY <1>3, <1>18, <2>2 DEF Copied
  <2> QED
    BY <2>1, <2>2
<1>23. \A c \in Buffer : Placed(c)' = Placed(c)
  BY <1>3, <1>21 DEF Placed
<1>24. \A c \in Buffer : Live(c)' = Live(c)
  BY <1>2, <1>3, <1>21 DEF Live, Written
<1>25. Exclusive'
  <2>1. Lines' = Lines /\ Buffer' = Buffer
    BY <1>3
  <2> QED
    BY <1>7, <1>21, <2>1 DEF Exclusive
<1>26. InUse'
  <2>1. \A c \in Buffer : c \in inUse' <=> Placed(c)' \/ Copied(c)'
    <3> TAKE c \in Buffer
    <3>1. c \in inUse <=> Placed(c) \/ Copied(c)
      BY <1>7 DEF InUse
    <3>2. CASE c = b
      BY <1>6, <1>8, <1>11, <1>13, <1>22, <1>23, <3>2
    <3>3. CASE c # b
      BY <1>6, <1>13, <1>22, <1>23, <3>1, <3>3
    <3> QED
      BY <3>2, <3>3
  <2>2. inUse' \subseteq Elements(list')
    BY <1>6, PoolTypes
  <2> QED
    BY <1>3, <2>1, <2>2 DEF InUse, Elements
<1>27. Copies'
  <2> SUFFICES ASSUME NEW u \in Tables, NEW c \in held'[u]
               PROVE  /\ \A v \in Tables : c \in held'[v] => v = u
                      /\ \A r \in Lines : \A i \in Nat :
                            c \in Part(r, i)' => r = u /\ i = 0 /\ Seen(u, c)'
    BY <1>3 DEF Copies
  <2>1. \A v \in Tables : held'[v] \subseteq held[v]
    BY <1>18
  <2>2. /\ \A v \in Tables : c \in held[v] => v = u
        /\ \A r \in Lines : \A i \in Nat : c \in Part(r, i) => r = u /\ i = 0 /\ Seen(u, c)
    BY <1>7, <2>1 DEF Copies
  <2>3. Seen(u, c) => Seen(u, c)'
    <3>1. worker'[u].batch = worker[u].batch /\ worker'[u].rindex = worker[u].rindex
      BY <1>3, <1>15, <1>16
    <3> QED
      BY <3>1 DEF Seen
  <2> QED
    BY <1>21, <2>1, <2>2, <2>3
<1>28. References'
  <2>1. \A c \in Buffer :
            refcnt'[c] = (IF Live(c)' THEN 1 ELSE 0) + (IF Copied(c)' THEN 1 ELSE 0)
    <3> TAKE c \in Buffer
    <3>1. CASE c = b
      BY <1>12, <1>17, <1>22, <1>24, <3>1
    <3>2. CASE c # b
      <4>1. refcnt[c] = (IF Live(c) THEN 1 ELSE 0) + (IF Copied(c) THEN 1 ELSE 0)
        BY <1>7 DEF References
      <4> QED
        BY <1>17, <1>22, <1>24, <3>2, <4>1
    <3> QED
      BY <3>1, <3>2
  <2> QED
    BY <1>3, <2>1 DEF References
<1>29. FreeAccounted' /\ ScanFinds'
  <2>1. back \in SUBSET inUse
    BY <1>8, <1>13
  <2>2. worker'[t].free = Cardinality(back)
    BY <1>15, <1>16 DEF n
  <2>3. \A v \in Workers : v # t => worker'[v].free = worker[v].free
    BY <1>16
  <2> QED
    BY <1>2, <1>3, <1>6, <2>1, <2>2, <2>3, CountGivenBack
<1> QED
  BY <1>19, <1>20, <1>25, <1>26, <1>27, <1>28, <1>29 DEF PoolInv, Ownership

\* The batch of the decoder is dealt out to the tables.
LEMMA EventStep == ASSUME PoolInv, Event PROVE PoolInv'
<1> DEFINE bufs == worker[Decoder].batch.bufs
           A == Elements(bufs)
           D == worker[Decoder].discard
<1>1. PICK expire \in BOOLEAN, to \in [A -> Tables] :
          /\ ring' = [r \in Workers |->
                        IF r = Decoder THEN ring[r]
                        ELSE [Filled(ring[r], [bufs |-> Only(bufs, {b \in A : to[b] = r}),
                                               expire |-> expire]) EXCEPT !.empty = @ - 1]]
          /\ worker' = [worker EXCEPT ![Decoder].batch = NoBatch,
                            ![Decoder].pc = IF expire /\ WaitsForExpiry THEN "expiry" ELSE "discard"]
  BY DEF Event, Forward
<1>2. worker[Decoder].pc = "event" /\ UNCHANGED <<pool, reader, held, size>>
  BY DEF Event, At
<1>3. /\ Workers' = Workers /\ Tables' = Tables /\ Lines' = Lines /\ Buffer' = Buffer
      /\ BatchSize' = BatchSize /\ Decoder \in Workers /\ Decoder \notin Tables
      /\ Lines = {Current} \cup Workers /\ Tables \subseteq Workers /\ Current \notin Workers
      /\ \A w \in Workers : w = Decoder \/ w \in Tables
  BY <1>2, SameSize, SizeTypes, PoolTypes DEF Types, Lines
<1>4. /\ worker[Decoder] \in WorkerRecord /\ worker \in [Workers -> WorkerRecord]
      /\ bufs \in Seq(Buffer) /\ StageOf(Decoder, worker[Decoder])
  BY <1>3, WorkerTypes
<1>5. Injective(bufs) /\ D \cap A = {} /\ worker[Decoder].free = 0
  BY <1>2, <1>4 DEF StageOf
<1>6. A \in SUBSET Buffer /\ D \in SUBSET Buffer
  BY <1>4, ElementsAre DEF WorkerRecord
<1>7. Part(Decoder, 0) = D \cup A
  BY <1>2, <1>3, PartIs DEF At
<1> DEFINE part(t) == Only(bufs, {b \in A : to[b] = t})
           new(t) == [bufs |-> part(t), expire |-> expire]
           full(t) == ring[t].full
<1>8. \A t \in Tables : /\ part(t) \in Seq(Buffer) /\ Injective(part(t))
                        /\ Elements(part(t)) = {b \in A : to[b] = t}
  BY <1>4, <1>5, OnlyHolds
<1>9. \A t \in Tables : new(t) \in Batch /\ new(t).bufs = part(t)
  BY <1>8 DEF Batch
<1>10. \A t \in Workers : ring[t] \in RingRecord /\ full(t) \in Seq(Batch)
  <2> TAKE t \in Workers
  <2>1. ring[t] \in RingRecord
    BY PoolTypes
  <2> QED
    BY <2>1 DEF RingRecord
<1>11. \A t \in Tables : ring'[t] \in RingRecord /\ ring'[t].full = Append(full(t), new(t))
  <2> SUFFICES ASSUME NEW t \in Tables
               PROVE  ring'[t] \in RingRecord /\ ring'[t].full = Append(full(t), new(t))
    OBVIOUS
  <2> DEFINE f == Append(full(t), new(t))
             c == ring[t].count + 1
             e == ring[t].empty - 1
  <2>1. ring[t] \in RingRecord /\ full(t) \in Seq(Batch) /\ new(t) \in Batch
    BY <1>3, <1>9, <1>10
  <2>2. f \in Seq(Batch) /\ c \in Int /\ e \in Int
    <3> HIDE DEF new
    <3>1. f \in Seq(Batch)
      BY <2>1
    <3>2. c \in Int /\ e \in Int
      BY <2>1 DEF RingRecord
    <3> QED
      BY <3>1, <3>2
  <2>3. ring'[t] = [Filled(ring[t], new(t)) EXCEPT !.empty = @ - 1]
    BY <1>1, <1>3
  <2>4. ring'[t] = [ring[t] EXCEPT !.full = f, !.count = c, !.empty = e]
    <3> HIDE DEF new
    <3> QED
      BY <2>1, <2>3 DEF Filled, RingRecord
  <2> HIDE DEF f, c, e
  <2>5. ring'[t] \in RingRecord /\ ring'[t].full = f
    BY <2>1, <2>2, <2>4 DEF RingRecord
  <2> QED
    BY <2>5 DEF f
<1>12. ring'[Decoder] = ring[Decoder]
  BY <1>1, <1>3
<1>13. ring' \in [Workers -> RingRecord]
  <2>1. \A w \in Workers : ring'[w] \in RingRecord
    BY <1>3, <1>10, <1>11, <1>12
  <2>2. ring' = [w \in Workers |-> ring'[w]]
    BY <1>1
  <2> QED
    BY <2>1, <2>2
<1>14. PICK n \in [Tables -> Nat] : \A t \in Tables : n[t] = Len(ring[t].full)
  <2> DEFINE g == [t \in Tables |-> Len(ring[t].full)]
  <2>1. \A t \in Tables : Len(ring[t].full) \in Nat
    BY <1>3, <1>10
  <2>2. g \in [Tables -> Nat]
    BY <2>1
  <2> QED
    BY <2>2
<1>15. \A t \in Tables :
          /\ Len(ring'[t].full) = n[t] + 1 /\ ring'[t].full[n[t] + 1] = new(t)
          /\ \A i \in 1 .. n[t] : ring'[t].full[i] = full(t)[i]
  <2> TAKE t \in Tables
  <2>1. full(t) \in Seq(Batch) /\ new(t) \in Batch /\ Len(full(t)) = n[t]
    BY <1>3, <1>9, <1>10, <1>14
  <2> HIDE DEF full, new
  <2>2. ring'[t].full = Append(full(t), new(t))
    BY <1>11
  <2> QED
    BY <2>1, <2>2
<1> DEFINE q == IF expire /\ WaitsForExpiry THEN "expiry" ELSE "discard"
           k == [worker[Decoder] EXCEPT !.pc = q, !.batch = NoBatch]
<1>16. worker' = [worker EXCEPT ![Decoder] = k]
  BY <1>1, <1>3, <1>4
<1>17. q \in {"expiry", "discard"}
  OBVIOUS
<1> HIDE DEF q
<1>18. /\ k \in WorkerRecord /\ k.pc = q /\ k.batch = NoBatch /\ k.discard = D /\ k.free = 0
       /\ NoBatch.bufs = <<>>
  <2>1. NoBatch \in Batch /\ NoBatch.bufs = <<>>
    BY DEF NoBatch, Batch
  <2>2. q \in WorkerPlaces
    BY <1>17 DEF WorkerPlaces
  <2> QED
    BY <1>4, <1>5, <2>1, <2>2 DEF WorkerRecord
<1> HIDE DEF k
<1>19. /\ worker'[Decoder] = k /\ worker' \in [Workers -> WorkerRecord]
       /\ \A v \in Workers : v # Decoder => worker'[v] = worker[v]
  BY <1>3, <1>4, <1>16, <1>18
<1>20. Types'
  BY <1>2, <1>13, <1>19, TypesGo, PoolTypes DEF Types, pool
<1> HIDE DEF A, D, bufs, part, new, full
<1>21. Stages'
  <2>1. StageOf(Decoder, k)
    <3>1. Elements(<<>>) = {} /\ Injective(<<>>)
      BY DEF Elements, Injective
    <3> QED
      BY <1>3, <1>17, <1>18, <3>1 DEF StageOf
  <2>2. StageOf(Decoder, worker[Decoder])'
    BY <1>19, <2>1, NextStage
  <2>3. \A v \in Workers' : WorkerStage(v)'
    BY <1>2, <1>3, <1>19, <2>2, WorkerGoes DEF PoolInv, Stages
  <2>4. RingStage'
    <3> SUFFICES ASSUME NEW w \in Workers, NEW i \in 1 .. Len(ring'[w].full)
                 PROVE  Injective(ring'[w].full[i].bufs)
      BY <1>3 DEF RingStage, Injective
    <3>1. CASE w = Decoder
      BY <1>12, <3>1 DEF PoolInv, Stages, RingStage
    <3>2. CASE w \in Tables /\ i = n[w] + 1
      BY <1>8, <1>9, <1>15, <3>2
    <3>3. CASE w \in Tables /\ i # n[w] + 1
      <4>1. i \in 1 .. n[w] /\ n[w] = Len(ring[w].full)
        BY <1>14, <1>15, <3>3
      <4>2. ring'[w].full[i] = ring[w].full[i]
        BY <1>15, <3>3, <4>1 DEF full
      <4> QED
        BY <4>1, <4>2 DEF PoolInv, Stages, RingStage
    <3> QED
      BY <1>3, <3>1, <3>2, <3>3
  <2>5. ReaderStage'
    BY <1>2, <1>3 DEF PoolInv, Stages, ReaderStage, Injective, pool
  <2> QED
    BY <2>3, <2>4, <2>5 DEF Stages
<1>22. Part(Decoder, 0)' = D
  <2>1. worker'[Decoder].discard = D /\ Elements(worker'[Decoder].batch.bufs) = {}
    BY <1>18, <1>19 DEF Elements
  <2>2. Part(Decoder, 0)' = D \cup (IF At(Decoder, "free")' THEN {} ELSE {})
    BY <1>3, <2>1, PartWillBe
  <2> QED
    BY <2>2
<1>23. \A t \in Tables : \A i \in Nat :
          Part(t, i)' = IF i = n[t] + 1 THEN {b \in A : to[b] = t} ELSE Part(t, i)
  <2> TAKE t \in Tables
  <2> TAKE i \in Nat
  <2>0. t \in Workers /\ n[t] \in Nat
    BY <1>3
  <2>1. CASE i = 0
    <3>1. Part(t, 0)' = Part(t, 0)
      BY <1>2, <1>3, <1>19, PartStays DEF SameWork
    <3> QED
      BY <2>0, <2>1, <3>1
  <2>2. CASE i # 0
    <3>0. i \in Nat \ {0}
      BY <2>2
    <3>1. Part(t, i) = IF i <= n[t] THEN Elements(ring[t].full[i].bufs) ELSE {}
      BY <1>14, <2>0, <3>0, LineOf
    <3>2. Part(t, i)' = IF i <= n[t] + 1 THEN Elements(ring'[t].full[i].bufs) ELSE {}
      BY <1>2, <1>15, <2>0, <3>0, LineOf
    <3>3. CASE i <= n[t]
      <4>1. i \in 1 .. n[t] /\ i <= n[t] + 1 /\ i # n[t] + 1
        BY <2>0, <3>0, <3>3
      <4>2. ring'[t].full[i] = ring[t].full[i]
        BY <1>15, <4>1 DEF full
      <4> QED
        BY <3>1, <3>2, <3>3, <4>1, <4>2
    <3>4. CASE i = n[t] + 1
      <4>1. ring'[t].full[i].bufs = part(t) /\ i <= n[t] + 1
        BY <1>9, <1>15, <2>0, <3>4
      <4> QED
        BY <1>8, <3>2, <3>4, <4>1
    <3>5. CASE ~(i <= n[t]) /\ i # n[t] + 1
      <4>1. ~(i <= n[t] + 1)
        BY <2>0, <3>5
      <4> QED
        BY <3>1, <3>2, <3>5, <4>1
    <3> QED
      BY <3>3, <3>4, <3>5
  <2> QED
    BY <2>1, <2>2
<1>24. \A r \in {Current, Decoder} : \A i \in Nat : i # 0 \/ r = Current => Part(r, i)' = Part(r, i)
  <2>1. Part(Current, 0)' = Part(Current, 0)
    BY <1>2, PartIs, PartWillBe
  <2>2. \A i \in Nat \ {0} : Part(Current, i)' = Part(Current, i)
    BY <1>2, ReaderLine, PoolTypes
  <2>3. \A i \in Nat \ {0} : Part(Decoder, i)' = Part(Decoder, i)
    BY <1>2, <1>3, <1>12, LineStays
  <2> QED
    BY <2>1, <2>2, <2>3
<1>25. \A t \in Tables : Part(t, n[t] + 1) = {} /\ n[t] + 1 \in Nat
  <2> TAKE t \in Tables
  <2>1. n[t] + 1 \in Nat \ {0} /\ ~(n[t] + 1 <= n[t]) /\ t \in Workers
    BY <1>3
  <2> QED
    BY <1>14, <2>1, LineOf
<1>26. Exclusive /\ InUse /\ Copies /\ References
  BY DEF PoolInv, Ownership
<1>27. \A b \in A : \A r \in Lines : \A i \in Nat : b \in Part(r, i) => r = Decoder /\ i = 0
  <2>1. Decoder \in Lines /\ 0 \in Nat /\ \A b \in A : b \in Part(Decoder, 0)
    BY <1>3, <1>7
  <2> QED
    BY <1>6, <1>26, <2>1 DEF Exclusive
<1>28. \A b \in A : \A r \in Lines : \A i \in Nat :
          b \in Part(r, i)' <=> r = to[b] /\ i = n[to[b]] + 1
  <2> TAKE b \in A
  <2> TAKE r \in Lines
  <2> TAKE i \in Nat
  <2>1. to[b] \in Tables
    BY <1>1
  <2>2. CASE r \in Tables
    <3>1. b \notin Part(r, i)
      BY <1>3, <1>27, <2>2
    <3> QED
      BY <1>23, <2>1, <2>2, <3>1
  <2>3. CASE r = Decoder /\ i = 0
    BY <1>3, <1>5, <1>22, <2>1, <2>3
  <2>4. CASE r \in {Current, Decoder} /\ (i # 0 \/ r = Current)
    <3>1. b \notin Part(r, i)
      BY <1>3, <1>27, <2>4
    <3> QED
      BY <1>3, <1>24, <2>1, <2>4, <3>1
  <2> QED
    BY <1>3, <2>2, <2>3, <2>4
<1>29. \A b : b \notin A => \A r \in Lines : \A i \in Nat : b \in Part(r, i)' <=> b \in Part(r, i)
  <2> SUFFICES ASSUME NEW b, b \notin A, NEW r \in Lines, NEW i \in Nat
               PROVE  b \in Part(r, i)' <=> b \in Part(r, i)
    OBVIOUS
  <2>1. CASE r \in Tables
    BY <1>23, <1>25, <2>1
  <2>2. CASE r = Decoder /\ i = 0
    BY <1>7, <1>22, <2>2
  <2>3. CASE r \in {Current, Decoder} /\ (i # 0 \/ r = Current)
    BY <1>24, <2>3
  <2> QED
    BY <1>3, <2>1, <2>2, <2>3
<1>30. Exclusive'
  <2> SUFFICES ASSUME NEW b \in Buffer, NEW r \in Lines, NEW s \in Lines, NEW i \in Nat, NEW j \in Nat,
                      b \in Part(r, i)', b \in Part(s, j)'
               PROVE  r = s /\ i = j
    BY <1>3 DEF Exclusive
  <2>1. CASE b \in A
    BY <1>28, <2>1
  <2>2. CASE b \notin A
    <3>1. b \in Part(r, i) /\ b \in Part(s, j)
      BY <1>29, <2>2
    <3> QED
      BY <1>26, <3>1 DEF Exclusive
  <2> QED
    BY <2>1, <2>2
<1>31. \A b \in A : (\E r \in Workers : \E i \in Nat : b \in Part(r, i)')
                    /\ (\E r \in Workers : \E i \in Nat : b \in Part(r, i))
  <2> TAKE b \in A
  <2>1. to[b] \in Tables /\ to[b] \in Workers /\ to[b] \in Lines
    BY <1>1, <1>3
  <2>2. b \in Part(to[b], n[to[b]] + 1)' /\ n[to[b]] + 1 \in Nat
    BY <1>25, <1>28, <2>1
  <2>3. b \in Part(Decoder, 0)
    BY <1>7
  <2> QED
    BY <1>3, <2>1, <2>2, <2>3
<1>32. \A b \in Buffer : (\E r \in Workers : \E i \in Nat : b \in Part(r, i)')
                         <=> \E r \in Workers : \E i \in Nat : b \in Part(r, i)
  BY <1>3, <1>29, <1>31
<1>33. \A b \in Buffer : Copied(b)' = Copied(b)
  BY <1>2, <1>3 DEF Copied
<1>34. \A b \in Buffer : Live(b)' = Live(b)
  BY <1>2, <1>3, <1>32 DEF Live, Written
<1>35. \A b \in Buffer : Placed(b)' = Placed(b)
  <2> TAKE b \in Buffer
  <2>1. \A i \in Nat : Part(Current, i)' = Part(Current, i)
    BY <1>24
  <2> QED
    BY <1>3, <1>32, <2>1 DEF Placed
<1>36. InUse'
  <2>1. list' = list /\ inUse' = inUse /\ Elements(list)' = Elements(list)
    BY <1>2 DEF Elements, pool
  <2> QED
    BY <1>3, <1>26, <1>33, <1>35, <2>1 DEF InUse
<1>37. Copies'
  <2> SUFFICES ASSUME NEW t \in Tables, NEW b \in held[t]
               PROVE  /\ \A u \in Tables : b \in held[u] => u = t
                      /\ \A r \in Lines : \A i \in Nat :
                            b \in Part(r, i)' => r = t /\ i = 0 /\ Seen(t, b)'
    BY <1>2, <1>3 DEF Copies
  <2>1. /\ \A u \in Tables : b \in held[u] => u = t
        /\ \A r \in Lines : \A i \in Nat : b \in Part(r, i) => r = t /\ i = 0 /\ Seen(t, b)
    BY <1>26 DEF Copies
  <2>2. b \notin A
    BY <1>3, <1>7, <2>1
  <2>3. Seen(t, b)' = Seen(t, b)
    BY <1>3, <1>19 DEF Seen
  <2> QED
    BY <1>29, <2>1, <2>2, <2>3
<1>38. References'
  BY <1>2, <1>3, <1>26, <1>33, <1>34 DEF References, pool
<1>39. FreeAccounted' /\ ScanFinds'
  <2>1. \A v \in Workers : worker'[v].free = worker[v].free
    BY <1>5, <1>18, <1>19
  <2>2. SameScan
    BY <1>2 DEF SameScan
  <2> QED
    BY <1>2, <2>1, <2>2, CountStays, PoolTypes DEF PoolInv, pool
<1> QED
  BY <1>20, <1>21, <1>30, <1>36, <1>37, <1>38, <1>39 DEF PoolInv, Ownership

--------------------------------------------------------------------------------
(* 6. The pool stays sound                                                   *)

\* A sum of zeros.
LEMMA SumOfZeros ==
    ASSUME NEW n \in Nat, NEW f \in [0 .. n -> {0}]
    PROVE  Sum(f, n) = 0
<1>1. PICK F : /\ Sum(f, n) = F[n]
               /\ F[0] = f[0] + 0
               /\ \A m \in 1 .. n : F[m] = f[m] + F[m - 1]
  BY SumSteps, ZenonT(30)
<1> DEFINE S == {m \in Nat : m <= n => F[m] = 0}
<1>2. 0 \in S
  BY <1>1
<1>3. \A m \in S : m + 1 \in S
  <2> SUFFICES ASSUME NEW m \in S, m + 1 <= n PROVE F[m + 1] = 0
    OBVIOUS
  <2>1. m + 1 \in 1 .. n /\ F[m] = 0 /\ (m + 1) - 1 = m /\ f[m + 1] = 0
    OBVIOUS
  <2> QED
    BY <1>1, <2>1
<1> HIDE DEF S
<1>4. n \in S
  BY <1>2, <1>3, SetInduction DEF S
<1>5. F[n] = 0
  BY <1>4 DEF S
<1> QED
  BY <1>1, <1>5

\* The invariant holds at the start: nothing is allocated.
LEMMA PoolInit == Init => PoolInv
<1> SUFFICES ASSUME Init PROVE PoolInv
  OBVIOUS
<1>1. /\ Workers = 0 .. NumTables /\ NumTables \in Nat /\ Decoder \in Workers
      /\ Tables \subseteq Workers /\ Lines = {Current} \cup Workers /\ Current \notin Workers
      /\ size \in SizeType
  BY SizeTypes, SizesAssumption DEF Init, Lines
<1>2. /\ list = <<>> /\ inUse = {} /\ numFree = 0 /\ refcnt = [b \in Buffer |-> 0]
      /\ held = [t \in Tables |-> {}]
  BY DEF Init
<1>3. /\ reader.pc = "read" /\ reader.cur = <<>> /\ reader.rindex = 0 /\ reader \in ReaderRecord
  BY DEF Init, ReaderRecord, ReaderPlaces
<1>4. ring \in [Workers -> RingRecord] /\ \A w \in Workers : ring[w].full = <<>>
  <2>1. size.ring \in Nat \ {0}
    BY <1>1 DEF SizeType
  <2> DEFINE e(r) == IF r = Decoder THEN size.ring - 1 ELSE size.ring
  <2>2. \A r \in Workers : e(r) \in Int
    BY <2>1
  <2>3. ring = [r \in Workers |-> [full |-> <<>>, count |-> 0, closed |-> FALSE, empty |-> e(r)]]
    BY DEF Init
  <2> HIDE DEF e
  <2> QED
    BY <2>2, <2>3 DEF RingRecord
<1>5. /\ worker \in [Workers -> WorkerRecord]
      /\ \A w \in Workers : /\ worker[w].pc = "idle" /\ worker[w].batch.bufs = <<>>
                            /\ worker[w].discard = {} /\ worker[w].free = 0
  <2>1. NoBatch \in Batch /\ NoBatch.bufs = <<>>
    BY DEF NoBatch, Batch
  <2> DEFINE k == [pc |-> "idle", batch |-> NoBatch, rindex |-> 0, discard |-> {}, free |-> 0]
  <2>2. k \in WorkerRecord
    BY <2>1 DEF WorkerRecord, WorkerPlaces
  <2>3. worker = [w \in Workers |-> k]
    BY DEF Init
  <2>4. k.pc = "idle" /\ k.batch = NoBatch /\ k.discard = {} /\ k.free = 0
    OBVIOUS
  <2> HIDE DEF k
  <2> QED
    BY <2>1, <2>2, <2>3, <2>4
<1>6. Elements(<<>>) = {} /\ Injective(<<>>)
  BY DEF Elements, Injective
<1>7. Types
  <2>1. size \in Sizes
    BY DEF Init
  <2>2. list \in Seq(Buffer) /\ inUse \in SUBSET Buffer /\ numFree \in Int
    BY <1>2
  <2>3. refcnt \in [Buffer -> Nat] /\ held \in [Tables -> SUBSET Buffer]
    BY <1>2
  <2> QED
    BY <1>3, <1>4, <1>5, <2>1, <2>2, <2>3 DEF Types
<1>8. Stages
  <2>1. ReaderStage
    BY <1>3, <1>6 DEF ReaderStage
  <2>2. RingStage
    BY <1>4 DEF RingStage
  <2>3. \A w \in Workers : WorkerStage(w)
    BY <1>5, <1>6 DEF WorkerStage, StageOf
  <2> QED
    BY <2>1, <2>2, <2>3 DEF Stages
<1>9. \A r \in Lines : \A i \in Nat : Part(r, i) = {}
  <2>1. Part(Current, 0) = {}
    BY <1>3, <1>6, PartIs
  <2>2. \A i \in Nat \ {0} : Part(Current, i) = {}
    BY <1>7, ReaderLine
  <2>3. \A w \in Workers : Part(w, 0) = {}
    BY <1>5, <1>6, PartIs
  <2>4. \A w \in Workers : \A i \in Nat \ {0} : Part(w, i) = {}
    BY <1>4, LineOf
  <2> QED
    BY <1>1, <2>1, <2>2, <2>3, <2>4
<1>10. \A b \in Buffer : ~Copied(b)
  BY <1>2 DEF Copied
<1>11. \A b \in Buffer : ~Placed(b) /\ ~Live(b)
  BY <1>1, <1>3, <1>9 DEF Placed, Live, Written
<1>12. Ownership
  <2>1. Exclusive
    BY <1>9 DEF Exclusive
  <2>2. InUse
    BY <1>2, <1>10, <1>11 DEF InUse
  <2>3. Copies
    BY <1>2 DEF Copies
  <2>4. References
    BY <1>2, <1>10, <1>11 DEF References
  <2> QED
    BY <2>1, <2>2, <2>3, <2>4 DEF Ownership
<1>13. FreeAccounted
  <2>1. [w \in Workers |-> worker[w].free] \in [0 .. NumTables -> {0}]
    BY <1>1, <1>5
  <2>2. SumOfFree = 0
    BY <1>1, <2>1, SumOfZeros DEF SumOfFree
  <2>3. Cardinality(Elements(list) \ inUse) = 0
    BY <1>2, <1>6, FS_EmptySet
  <2> QED
    BY <1>2, <1>3, <2>2, <2>3 DEF FreeAccounted
<1>14. ScanFinds
  BY <1>3 DEF ScanFinds
<1> QED
  BY <1>7, <1>8, <1>12, <1>13, <1>14 DEF PoolInv

\* Nothing happens.
LEMMA PoolStutter == ASSUME PoolInv, UNCHANGED vars PROVE PoolInv'
<1>1. UNCHANGED <<inUse, refcnt, worker, held, size, reader, ring, list, numFree>>
  BY DEF vars
<1>2. ReaderStage'
  BY <1>1 DEF PoolInv, Stages, ReaderStage, Injective, BatchSize
<1>3. FreeAccounted' /\ ScanFinds'
  BY <1>1, PoolTypes, CountStays DEF PoolInv, SameScan
<1> QED
  BY <1>1, <1>2, <1>3, PoolTypes, QuietReader

\* Every step keeps the invariant.
LEMMA PoolStep == ASSUME PoolInv, [Next]_vars PROVE PoolInv'
<1>1. CASE UNCHANGED vars
  BY <1>1, PoolStutter
<1>2. CASE ReadPacket \/ Timeout \/ SourceEnds
  BY <1>2, ReadPacketStep, TimeoutStep, SourceEndsStep
<1>3. CASE Reader
  BY <1>3, AssignStep, NextBatchStep, CloseDecodeStep, FlushTablesStep, EOFStep, FinishedStep,
     PopStep, UsageStep, StarvedStep, RecheckStep, WaitStep, ScanStep, PoppedStep DEF Reader
<1>4. CASE Decoding
  BY <1>4, DecodeStep, EventEmptyStep, EventStep, ExpiryOverStep, DiscardStep, DiscardFreeStep
  DEF Decoding
<1>5. CASE \E w \in Workers : Receive(w) \/ RingClosed(w)
  BY <1>5, ReceiveStep, RingClosedStep
<1>6. CASE \E t \in Tables : TableStep(t)
  BY <1>6, StartStep, HandlePacketStep, ReleaseCopyStep, CopyFreeStep, ExpireDoneStep,
     RecycleBatchStep, BatchFreeStep, EOFDoneStep DEF TableStep
<1> QED
  BY <1>1, <1>2, <1>3, <1>4, <1>5, <1>6 DEF Next, Goroutines

\* Every goroutine has the batch that its place says, every buffer is at one place with as
\* many references as it has users, and numFree and the search of Pop agree with inUse.
THEOREM PoolInvariance == Spec => []PoolInv
<1>1. Init => PoolInv
  BY PoolInit
<1>2. PoolInv /\ [Next]_vars => PoolInv'
  BY PoolStep
<1> QED
  BY <1>1, <1>2, PTL DEF Spec

\* What the invariant says of the owners of a buffer.
LEMMA OwnersArePlaces ==
    ASSUME PoolInv, NEW b \in Buffer
    PROVE  /\ \A p, q \in Owners(b) : p = q
           /\ Owners(b) # {} <=> Placed(b)
<1>1. /\ Lines = {Current} \cup Workers /\ Current \notin Workers
  BY SizeTypes, PoolTypes DEF Types, Lines
<1>2. \A p \in Owners(b) : \E r \in Lines, i \in Nat : p = <<r, i>> /\ b \in Part(r, i)
  <2> TAKE p \in Owners(b)
  <2>1. b \in Part(p[1], p[2])
    BY DEF Owners
  <2>2. CASE p \in {<<r, 0>> : r \in {Current} \cup Workers}
    BY <1>1, <2>1, <2>2
  <2>3. CASE p \in Enqueued
    <3>1. PICK r \in Workers : p \in {<<r, i>> : i \in 1 .. Len(ring[r].full)}
      BY <2>3 DEF Enqueued
    <3>2. PICK i \in 1 .. Len(ring[r].full) : p = <<r, i>>
      BY <3>1
    <3> QED
      BY <1>1, <2>1, <3>2
  <2> QED
    BY <2>2, <2>3 DEF Owners
<1>3. \A p, q \in Owners(b) : p = q
  <2> TAKE p, q \in Owners(b)
  <2>1. PICK r \in Lines, i \in Nat : p = <<r, i>> /\ b \in Part(r, i)
    BY <1>2
  <2>2. PICK s \in Lines, j \in Nat : q = <<s, j>> /\ b \in Part(s, j)
    BY <1>2
  <2>3. r = s /\ i = j
    BY <2>1, <2>2 DEF PoolInv, Ownership, Exclusive
  <2> QED
    BY <2>1, <2>2, <2>3
<1>4. Placed(b) => Owners(b) # {}
  <2> SUFFICES ASSUME NEW r \in Lines, NEW i \in Nat, b \in Part(r, i) PROVE <<r, i>> \in Owners(b)
    BY DEF Placed
  <2>1. CASE i = 0
    BY <1>1, <2>1 DEF Owners
  <2>2. CASE i # 0
    <3>1. r \in Workers
      BY <1>1, <2>2, ReaderLine, PoolTypes
    <3>2. i <= Len(ring[r].full)
      BY <2>2, <3>1, LineOf
    <3>3. Len(ring[r].full) \in Nat
      <4>1. ring[r] \in RingRecord
        BY <3>1, PoolTypes
      <4> QED
        BY <4>1 DEF RingRecord
    <3>4. <<r, i>> \in Enqueued
      BY <2>2, <3>1, <3>2, <3>3 DEF Enqueued
    <3> QED
      BY <3>4 DEF Owners
  <2> QED
    BY <2>1, <2>2
<1>5. Owners(b) # {} => Placed(b)
  BY <1>2 DEF Placed
<1> QED
  BY <1>3, <1>4, <1>5

\* No buffer is used twice or leaks, whatever the size of the batches and however many
\* tables there are: a buffer is in one batch at most, is marked as used exactly while it is
\* in one or a copy of it is held, and is never written while it is copied.
THEOREM BuffersOwnedOnce == Spec => []OwnedOnce
<1>1. PoolInv => OwnedOnce
  <2> SUFFICES ASSUME PoolInv PROVE OwnedOnce
    OBVIOUS
  <2>1. InUse /\ Copies
    BY DEF PoolInv, Ownership
  <2>2. /\ Current \in Lines /\ Current \notin Workers /\ Tables \subseteq Workers
        /\ Decoder \in Workers
    BY SizeTypes, PoolTypes DEF Types
  <2>3. \A b \in Buffer : /\ \A p, q \in Owners(b) : p = q
                          /\ Owners(b) # {} <=> Placed(b)
    BY OwnersArePlaces
  <2>4. \A b \in Buffer : Copied(b) => b \notin Part(Current, 0)
    BY <2>1, <2>2 DEF Copied, Copies
  <2>5. worker[Decoder].discard \cap Elements(worker[Decoder].batch.bufs) = {}
    BY <2>2, WorkerTypes DEF StageOf
  <2> QED
    BY <2>1, <2>3, <2>4, <2>5 DEF OwnedOnce, InUse
<1> QED
  BY <1>1, PoolInvariance, PTL

\* numFree is exact up to what is being given back or fetched, although it is updated
\* after inUse and without the lock of Pop.
THEOREM FreeIsExact == Spec => []FreeAccounted
<1>1. PoolInv => FreeAccounted
  BY DEF PoolInv
<1> QED
  BY <1>1, PoolInvariance, PTL

\* Pop fills the batch of the reader, although other goroutines change numFree and inUse
\* between its check and its search: the reader never indexes past its batch.
THEOREM BatchesAreFull == Spec => []FullBatch
<1>1. PoolInv => FullBatch
  <2> SUFFICES ASSUME PoolInv, reader.pc \in {"popped", "assign"}
               PROVE  Len(reader.cur) = BatchSize /\ reader.rindex < BatchSize
    BY DEF FullBatch
  <2>1. BatchSize \in Nat /\ BatchSize >= 1
    BY SizeTypes, PoolTypes DEF Types
  <2> QED
    BY <2>1 DEF PoolInv, Stages, ReaderStage
<1> QED
  BY <1>1, PoolInvariance, PTL

--------------------------------------------------------------------------------
(* 7. Packets on their way                                                   *)

\* A spot on the way is <<line, batch of the line, buffer of the batch, packet>>.
Spots == Lines \X Nat \X Nat \X Nat

\* Spot p is on the way from q to a table, or in front of it in the same line.
Earlier(p, q) ==
    \/ p[1] \in Tables /\ q[1] \in {Decoder, Current}
    \/ p[1] = Decoder /\ q[1] = Current
    \/ p[1] = q[1] /\ (p[2] < q[2] \/ (p[2] = q[2] /\ p[3] < q[3]))

Packets(W) == {p[4] : p \in W}
Done(h) == UNION {Elements(h[t]) : t \in Tables}

\* The packets of the spots W are on their way, in order, those of h were handled and those
\* of d dropped; these are all packets up to number a, each of them once.
Sorted(W) == \A p, q \in W : Earlier(p, q) => p[4] < q[4]
Distinct(W) == \A p, q \in W : p[4] = q[4] => p = q
Pending(W, h, d) ==
    \A p \in W : /\ p[4] \notin d
                 /\ \A t \in Tables : p[4] \notin Elements(h[t])
Follows(W, h) ==
    \A p \in W : \A t \in Tables :
        p[1] \in {t, Decoder, Current} => \A n \in 1 .. Len(h[t]) : h[t][n] < p[4]
Settled(h, d) ==
    /\ \A t \in Tables : \A i \in 1 .. Len(h[t]) - 1 : h[t][i] < h[t][i + 1]
    /\ \A s, t \in Tables : s # t => Elements(h[s]) \cap Elements(h[t]) = {}
    /\ \A t \in Tables : Elements(h[t]) \cap d = {}

Course(W, h, d, a) ==
    /\ W \subseteq Spots /\ a \in Nat
    /\ Sorted(W) /\ Distinct(W) /\ Pending(W, h, d) /\ Follows(W, h) /\ Settled(h, d)
    /\ Done(h) \cup d \cup Packets(W) = 1 .. a

\* A packet is read: it is last on every way.
LEMMA CourseBegins ==
    ASSUME NEW W, NEW h, NEW d, NEW a, Course(W, h, d, a),
           NEW p \in Spots, p[4] = a + 1, \A q \in W : ~Earlier(p, q), ~Earlier(p, p)
    PROVE  Course(W \cup {p}, h, d, a + 1)
<1>1. a \in Nat /\ W \subseteq Spots /\ Done(h) \cup d \cup Packets(W) = 1 .. a
  BY DEF Course
<1>2. \A q \in W : q[4] \in 1 .. a
  BY <1>1 DEF Packets
<1>3. a + 1 \notin d /\ \A t \in Tables : a + 1 \notin Elements(h[t])
  <2>1. a + 1 \notin 1 .. a
    BY <1>1
  <2> QED
    BY <1>1, <2>1 DEF Done
<1>4. Sorted(W \cup {p})
  <2> SUFFICES ASSUME NEW u \in W \cup {p}, NEW v \in W \cup {p}, Earlier(u, v) PROVE u[4] < v[4]
    BY DEF Sorted
  <2>1. CASE u \in W /\ v \in W
    BY <2>1 DEF Course, Sorted
  <2>2. CASE u \in W /\ v = p
    BY <1>1, <1>2, <2>2
  <2>3. CASE u = p
    BY <2>3
  <2> QED
    BY <2>1, <2>2, <2>3
<1>5. Distinct(W \cup {p})
  <2>1. \A q \in W : q[4] # p[4]
    BY <1>1, <1>2
  <2>2. Distinct(W)
    BY DEF Course
  <2> QED
    BY <2>1, <2>2 DEF Distinct
<1>6. Pending(W \cup {p}, h, d)
  BY <1>3 DEF Course, Pending
<1>7. Follows(W \cup {p}, h)
  <2>1. \A t \in Tables : \A n \in 1 .. Len(h[t]) : h[t][n] \in 1 .. a
    BY <1>1 DEF Done, Elements
  <2>2. \A t \in Tables : \A n \in 1 .. Len(h[t]) : h[t][n] < p[4]
    BY <1>1, <2>1
  <2> QED
    BY <2>2 DEF Course, Follows
<1>8. Done(h) \cup d \cup Packets(W \cup {p}) = 1 .. a + 1
  <2>1. Packets(W \cup {p}) = Packets(W) \cup {a + 1}
    BY DEF Packets
  <2>2. 1 .. a + 1 = 1 .. a \cup {a + 1}
    BY <1>1
  <2> QED
    BY <1>1, <2>1, <2>2
<1> QED
  BY <1>1, <1>4, <1>5, <1>6, <1>7, <1>8 DEF Course

\* Packets move on: g says where the packet of a spot was.
LEMMA CourseMoves ==
    ASSUME NEW W, NEW h, NEW d, NEW a, Course(W, h, d, a),
           NEW V \in SUBSET Spots, NEW g \in [V -> W],
           \A p \in V : g[p][4] = p[4] /\ g[p][1] \in {p[1], Decoder, Current},
           \A p, q \in V : Earlier(p, q) => Earlier(g[p], g[q]),
           \A p, q \in V : g[p] = g[q] => p = q,
           \A q \in W : \E p \in V : g[p] = q
    PROVE  Course(V, h, d, a)
<1>1. Sorted(V)
  <2> SUFFICES ASSUME NEW p \in V, NEW q \in V, Earlier(p, q) PROVE p[4] < q[4]
    BY DEF Sorted
  <2>1. g[p] \in W /\ g[q] \in W /\ Earlier(g[p], g[q])
    OBVIOUS
  <2>2. g[p][4] < g[q][4]
    BY <2>1 DEF Course, Sorted
  <2> QED
    BY <2>2
<1>2. Distinct(V)
  <2> SUFFICES ASSUME NEW p \in V, NEW q \in V, p[4] = q[4] PROVE p = q
    BY DEF Distinct
  <2>1. g[p] \in W /\ g[q] \in W /\ g[p][4] = g[q][4]
    OBVIOUS
  <2>2. g[p] = g[q]
    BY <2>1 DEF Course, Distinct
  <2> QED
    BY <2>2
<1>3. Pending(V, h, d)
  <2> SUFFICES ASSUME NEW p \in V
               PROVE  p[4] \notin d /\ \A t \in Tables : p[4] \notin Elements(h[t])
    BY DEF Pending
  <2>1. g[p] \in W /\ g[p][4] = p[4]
    OBVIOUS
  <2> QED
    BY <2>1 DEF Course, Pending
<1>4. Follows(V, h)
  <2> SUFFICES ASSUME NEW p \in V, NEW t \in Tables, p[1] \in {t, Decoder, Current},
                      NEW n \in 1 .. Len(h[t])
               PROVE  h[t][n] < p[4]
    BY DEF Follows
  <2>1. g[p] \in W /\ g[p][4] = p[4] /\ g[p][1] \in {t, Decoder, Current}
    OBVIOUS
  <2> QED
    BY <2>1 DEF Course, Follows
<1>5. Packets(V) = Packets(W)
  <2>1. \A p \in V : p[4] \in Packets(W)
    BY DEF Packets
  <2>2. \A q \in W : q[4] \in Packets(V)
    BY DEF Packets
  <2> QED
    BY <2>1, <2>2 DEF Packets
<1> QED
  BY <1>1, <1>2, <1>3, <1>4, <1>5 DEF Course

\* The packets of the spots S are dropped.
LEMMA CourseDrops ==
    ASSUME NEW W, NEW h, NEW d, NEW a, Course(W, h, d, a), NEW S \in SUBSET W
    PROVE  Course(W \ S, h, d \cup Packets(S), a)
<1>1. Sorted(W \ S) /\ Distinct(W \ S) /\ Follows(W \ S, h)
  BY DEF Course, Sorted, Distinct, Follows
<1>2. Pending(W \ S, h, d \cup Packets(S))
  <2>1. \A p \in W \ S : p[4] \notin Packets(S)
    BY DEF Course, Distinct, Packets
  <2> QED
    BY <2>1 DEF Course, Pending
<1>3. Settled(h, d \cup Packets(S))
  <2>1. \A t \in Tables : Elements(h[t]) \cap Packets(S) = {}
    BY DEF Course, Pending, Packets
  <2> QED
    BY <2>1 DEF Course, Settled
<1>4. Packets(W) = Packets(W \ S) \cup Packets(S)
  BY DEF Packets
<1> QED
  BY <1>1, <1>2, <1>3, <1>4 DEF Course

\* A table handles the packet that is first in its line.
LEMMA CourseHandles ==
    ASSUME NEW W, NEW h \in [Tables -> Seq(Nat)], NEW d, NEW a, Course(W, h, d, a),
           NEW t \in Tables, NEW p \in W, p[1] = t, \A q \in W : q[1] = t => q = p \/ Earlier(p, q)
    PROVE  Course(W \ {p}, [h EXCEPT ![t] = Append(@, p[4])], d, a)
<1> DEFINE x == p[4]
           s == Append(h[t], x)
           k == [h EXCEPT ![t] = s]
<1>1. /\ W \subseteq Spots /\ p \in Spots /\ x \in Nat /\ h[t] \in Seq(Nat)
  BY DEF Course, Spots
<1>2. /\ s \in Seq(Nat) /\ Len(s) = Len(h[t]) + 1 /\ Elements(s) = Elements(h[t]) \cup {x}
      /\ \A n \in 1 .. Len(h[t]) : s[n] = h[t][n]
      /\ s[Len(h[t]) + 1] = x /\ Len(h[t]) \in Nat
  BY <1>1, AppendHolds
<1>3. /\ Sorted(W) /\ Distinct(W) /\ Pending(W, h, d) /\ Follows(W, h) /\ Settled(h, d)
      /\ Done(h) \cup d \cup Packets(W) = 1 .. a
  BY DEF Course
<1> HIDE DEF x, s
<1>4. \A u \in Tables : k[u] = IF u = t THEN s ELSE h[u]
  OBVIOUS
<1> HIDE DEF k
<1>5. Sorted(W \ {p}) /\ Distinct(W \ {p})
  BY <1>3 DEF Sorted, Distinct
<1>6. \A q \in W \ {p} : q[4] # x
  BY <1>3 DEF Distinct, x
<1> DEFINE E == Elements(h[t])
<1> HIDE DEF E
<1>7. \A u \in Tables : Elements(k[u]) = IF u = t THEN E \cup {x} ELSE Elements(h[u])
  <2> TAKE u \in Tables
  <2>1. CASE u = t
    BY <1>2, <1>4, <2>1 DEF E
  <2>2. CASE u # t
    BY <1>4, <2>2
  <2> QED
    BY <2>1, <2>2
<1>8. Pending(W \ {p}, k, d)
  <2> SUFFICES ASSUME NEW q \in W \ {p}
               PROVE  q[4] \notin d /\ \A u \in Tables : q[4] \notin Elements(k[u])
    BY DEF Pending
  <2>1. q[4] \notin d /\ q[4] # x /\ \A u \in Tables : q[4] \notin Elements(h[u])
    BY <1>3, <1>6 DEF Pending
  <2> QED
    BY <1>7, <2>1 DEF E
<1>9. Follows(W \ {p}, k)
  <2> SUFFICES ASSUME NEW q \in W \ {p}, NEW u \in Tables, q[1] \in {u, Decoder, Current},
                      NEW n \in 1 .. Len(k[u])
               PROVE  k[u][n] < q[4]
    BY DEF Follows
  <2>1. CASE u # t
    BY <1>3, <1>4, <2>1 DEF Follows
  <2>2. CASE u = t /\ n \in 1 .. Len(h[t])
    BY <1>2, <1>3, <1>4, <2>2 DEF Follows
  <2>3. CASE u = t /\ n = Len(h[t]) + 1
    <3>1. Earlier(p, q)
      BY <2>3 DEF Earlier
    <3>2. x < q[4]
      BY <1>3, <3>1 DEF Sorted, x
    <3> QED
      BY <1>2, <1>4, <2>3, <3>2
  <2> QED
    BY <1>2, <1>4, <2>1, <2>2, <2>3
<1>10. Settled(k, d)
  <2>1. \A u \in Tables : \A i \in 1 .. Len(k[u]) - 1 : k[u][i] < k[u][i + 1]
    <3> SUFFICES ASSUME NEW i \in 1 .. Len(s) - 1 PROVE s[i] < s[i + 1]
      BY <1>3, <1>4 DEF Settled
    <3>1. CASE i < Len(h[t])
      <4>1. i \in 1 .. Len(h[t]) - 1 /\ i \in 1 .. Len(h[t]) /\ i + 1 \in 1 .. Len(h[t])
        BY <1>2, <3>1, SMTT(30)
      <4> QED
        BY <1>2, <1>3, <4>1 DEF Settled
    <3>2. CASE i = Len(h[t])
      <4>1. h[t][i] < x
        BY <1>3, <3>2 DEF Follows, x
      <4> QED
        BY <1>2, <3>2, <4>1
    <3> QED
      BY <1>2, <3>1, <3>2
  <2>2. x \notin d /\ \A u \in Tables : x \notin Elements(h[u])
    BY <1>3 DEF Pending, x
  <2>3. \A u, v \in Tables : u # v => Elements(k[u]) \cap Elements(k[v]) = {}
    <3> SUFFICES ASSUME NEW u \in Tables, NEW v \in Tables, u # v
                 PROVE  Elements(k[u]) \cap Elements(k[v]) = {}
      OBVIOUS
    <3>1. Elements(h[u]) \cap Elements(h[v]) = {}
      BY <1>3 DEF Settled
    <3>2. CASE u = t
      BY <1>7, <2>2, <3>1, <3>2 DEF E
    <3>3. CASE v = t
      BY <1>7, <2>2, <3>1, <3>3 DEF E
    <3>4. CASE u # t /\ v # t
      BY <1>7, <3>1, <3>4
    <3> QED
      BY <3>2, <3>3, <3>4
  <2>4. \A u \in Tables : Elements(k[u]) \cap d = {}
    <3>1. \A u \in Tables : Elements(h[u]) \cap d = {}
      BY <1>3 DEF Settled
    <3> QED
      BY <1>7, <2>2, <3>1 DEF E
  <2> QED
    BY <2>1, <2>3, <2>4 DEF Settled
<1>11. Done(k) \cup d \cup Packets(W \ {p}) = 1 .. a
  <2>1. Packets(W) = Packets(W \ {p}) \cup {x}
    BY DEF Packets, x
  <2>2. Done(k) = Done(h) \cup {x}
    <3>1. \A u \in Tables : Elements(k[u]) \subseteq Done(h) \cup {x}
      <4> TAKE u \in Tables
      <4>1. Elements(h[u]) \subseteq Done(h) /\ E \subseteq Done(h)
        BY DEF Done, E
      <4>2. CASE u = t
        BY <1>7, <4>1, <4>2
      <4>3. CASE u # t
        BY <1>7, <4>1, <4>3
      <4> QED
        BY <4>2, <4>3
    <3>2. \A u \in Tables : Elements(h[u]) \subseteq Elements(k[u])
      BY <1>2, <1>4
    <3>3. x \in Elements(k[t])
      BY <1>2, <1>4
    <3> QED
      BY <3>1, <3>2, <3>3 DEF Done
  <2> QED
    BY <1>3, <2>1, <2>2
<1>12. W \ {p} \subseteq Spots /\ a \in Nat
  BY DEF Course
<1> QED
  BY <1>5, <1>8, <1>9, <1>10, <1>11, <1>12 DEF Course, k, s, x, E

--------------------------------------------------------------------------------
(* 8. The invariant                                                          *)

\* Packet x waits in buffer k of batch i of line r: it was not handed on or handled.
Waits(r, i, k, x) ==
    \/ r = Current /\ i = 0 /\ k \in 1 .. reader.rindex /\ x = content[reader.cur[k]]
    \/ /\ r \in Workers /\ i = 0 /\ k \in worker[r].rindex + 1 .. Len(worker[r].batch.bufs)
       /\ x = content[worker[r].batch.bufs[k]]
    \/ /\ r \in Workers /\ i \in 1 .. Len(ring[r].full) /\ k \in 1 .. Len(ring[r].full[i].bufs)
       /\ x = content[ring[r].full[i].bufs[k]]
Way == {p \in Spots : Waits(p[1], p[2], p[3], p[4])}

SourceRecord == [packets : Nat, timeouts : Nat, expires : Nat]
OrderTypes ==
    /\ content \in [Buffer -> Nat] /\ source \in SourceRecord
    /\ handled \in [Tables -> Seq(Nat)] /\ dropped \in SUBSET Nat

NothingWaits(w) == worker[w].rindex >= Len(worker[w].batch.bufs)

\* The decoder takes its batches as a whole, a table gives a batch back that it has read.
WorkRead ==
    /\ worker[Decoder].rindex = 0
    /\ \A t \in Tables : At(t, "free") => NothingWaits(t)

OrderInv == PoolInv /\ OrderTypes /\ WorkRead /\ Course(Way, handled, dropped, Assigned)

\* The course of the next state, from the values that it is about.
LEMMA CourseGoes ==
    ASSUME size' = size, NEW W, NEW h, NEW d, NEW a, Course(W, h, d, a),
           Way' = W, handled' = h, dropped' = d, Assigned' = a
    PROVE  Course(Way, handled, dropped, Assigned)'
<1>1. Tables' = Tables /\ Lines' = Lines
  BY SameSize
<1>2. Spots' = Spots
  BY <1>1 DEF Spots
<1>3. /\ W \subseteq Spots /\ a \in Nat
      /\ Sorted(W) /\ Distinct(W) /\ Pending(W, h, d) /\ Follows(W, h) /\ Settled(h, d)
      /\ Done(h) \cup d \cup Packets(W) = 1 .. a
  BY DEF Course
<1>4. Sorted(Way)'
  BY <1>1, <1>3 DEF Sorted, Earlier, Decoder, Current
<1>5. Distinct(Way)' /\ Packets(Way)' = Packets(W)
  BY <1>3 DEF Distinct, Packets
<1>6. Pending(Way, handled, dropped)'
  BY <1>1, <1>3 DEF Pending, Elements
<1>7. Follows(Way, handled)'
  BY <1>1, <1>3 DEF Follows, Decoder, Current
<1>8. Settled(handled, dropped)'
  <2>1. /\ \A t \in Tables : \A i \in 1 .. Len(handled'[t]) - 1 : handled'[t][i] < handled'[t][i + 1]
        /\ \A s, t \in Tables : s # t => Elements(handled'[s]) \cap Elements(handled'[t]) = {}
        /\ \A t \in Tables : Elements(handled'[t]) \cap dropped' = {}
    BY <1>3 DEF Settled
  <2> QED
    BY <1>1, <2>1 DEF Settled
<1>9. Done(handled)' = Done(h)
  BY <1>1 DEF Done, Elements
<1> QED
  BY <1>2, <1>3, <1>4, <1>5, <1>6, <1>7, <1>8, <1>9 DEF Course

\* What waits in the line of the reader, at a worker and in a ring.
LEMMA WaitsIs ==
    ASSUME size \in Sizes, NEW k, NEW x
    PROVE  /\ \A i : Waits(Current, i, k, x) <=>
                 i = 0 /\ k \in 1 .. reader.rindex /\ x = content[reader.cur[k]]
           /\ \A w \in Workers :
                 /\ Waits(w, 0, k, x) <=> /\ k \in worker[w].rindex + 1 .. Len(worker[w].batch.bufs)
                                          /\ x = content[worker[w].batch.bufs[k]]
                 /\ \A i : i # 0 =>
                       (Waits(w, i, k, x) <=> /\ i \in 1 .. Len(ring[w].full)
                                              /\ k \in 1 .. Len(ring[w].full[i].bufs)
                                              /\ x = content[ring[w].full[i].bufs[k]])
<1>1. Current \notin Workers
  BY SizeTypes
<1>2. \A w \in Workers : w # Current
  BY <1>1
<1> QED
  BY <1>1, <1>2 DEF Waits

\* The same in the next state.
LEMMA WaitsWillBe ==
    ASSUME size \in Sizes, size' = size, NEW k, NEW x
    PROVE  /\ \A i : Waits(Current, i, k, x)' <=>
                 i = 0 /\ k \in 1 .. reader'.rindex /\ x = content'[reader'.cur[k]]
           /\ \A w \in Workers :
                 /\ Waits(w, 0, k, x)' <=> /\ k \in worker'[w].rindex + 1 .. Len(worker'[w].batch.bufs)
                                           /\ x = content'[worker'[w].batch.bufs[k]]
                 /\ \A i : i # 0 =>
                       (Waits(w, i, k, x)' <=> /\ i \in 1 .. Len(ring'[w].full)
                                               /\ k \in 1 .. Len(ring'[w].full[i].bufs)
                                               /\ x = content'[ring'[w].full[i].bufs[k]])
<1>1. Current \notin Workers /\ Workers' = Workers
  BY SizeTypes, SameSize
<1>2. \A w \in Workers : w # Current
  BY <1>1
<1> QED
  BY <1>1, <1>2 DEF Waits, Current

\* The spots of the way, now and in the next state.
LEMMA WayIs ==
    ASSUME size \in Sizes
    PROVE  /\ Way \in SUBSET Spots
           /\ \A p \in Spots : p \in Way <=> Waits(p[1], p[2], p[3], p[4])
           /\ size' = size => /\ Way' \in SUBSET Spots
                              /\ \A p \in Spots : p \in Way' <=> Waits(p[1], p[2], p[3], p[4])'
<1>1. size' = size => Spots' = Spots
  BY SameSize DEF Spots
<1> QED
  BY <1>1 DEF Way

\* The parts of a spot.
LEMMA SpotTypes ==
    ASSUME size \in Sizes, NEW p \in Spots
    PROVE  /\ p[1] \in Lines /\ p[2] \in Nat /\ p[3] \in Nat /\ p[4] \in Nat
           /\ p = <<p[1], p[2], p[3], p[4]>> /\ (p[1] = Current \/ p[1] \in Workers)
BY DEF Spots, Lines

--------------------------------------------------------------------------------
(* 9. Steps that leave the packets where they are                            *)

\* Worker w has the same packets to do, or none and no batch any more.
SteadyWork(w) ==
    \/ /\ worker'[w].batch.bufs = worker[w].batch.bufs /\ worker'[w].rindex = worker[w].rindex
       /\ worker'[w].pc = "free" => w = Decoder \/ NothingWaits(w) \/ worker[w].pc = "free"
    \/ NothingWaits(w) /\ worker'[w].batch.bufs = <<>> /\ worker'[w].rindex = 0

\* The reader has the same packets in its batch, or none.
SteadyReader ==
    reader'.rindex = reader.rindex /\ (reader.rindex = 0 \/ reader'.cur = reader.cur)

\* A worker with no packet to do has none that waits.
LEMMA NoneWaits ==
    ASSUME PoolInv, NEW w \in Workers
    PROVE  /\ worker[w].rindex \in Nat /\ Len(worker[w].batch.bufs) \in Nat
           /\ NothingWaits(w) => worker[w].rindex + 1 .. Len(worker[w].batch.bufs) = {}
<1>1. worker[w].rindex \in Nat /\ Len(worker[w].batch.bufs) \in Nat
  BY WorkerTypes
<1> QED
  BY <1>1 DEF NothingWaits

\* No packet moves where every goroutine keeps its batch, or drops one that it is done with.
LEMMA WayStays ==
    ASSUME PoolInv, UNCHANGED <<content, size>>, SteadyReader,
           \A w \in Workers : ring'[w].full = ring[w].full /\ SteadyWork(w)
    PROVE  Way' = Way
<1>1. size \in Sizes
  BY DEF PoolInv, Types
<1>2. reader.rindex \in Nat
  BY DEF PoolInv, Types, ReaderRecord
<1>3. SUFFICES ASSUME NEW p \in Spots
               PROVE  Waits(p[1], p[2], p[3], p[4])' <=> Waits(p[1], p[2], p[3], p[4])
  BY <1>1, WayIs
<1>4. p[1] = Current \/ p[1] \in Workers
  BY <1>1, SpotTypes
<1>5. CASE p[1] = Current
  <2>1. \A i, k, x : Waits(Current, i, k, x)' <=> Waits(Current, i, k, x)
    BY <1>1, <1>2, WaitsIs, WaitsWillBe DEF SteadyReader
  <2> QED
    BY <1>5, <2>1
<1>6. ASSUME NEW w \in Workers, NEW k, NEW x PROVE Waits(w, 0, k, x)' <=> Waits(w, 0, k, x)
  <2>1. Waits(w, 0, k, x) <=> /\ k \in worker[w].rindex + 1 .. Len(worker[w].batch.bufs)
                              /\ x = content[worker[w].batch.bufs[k]]
    BY <1>1, WaitsIs
  <2>2. Waits(w, 0, k, x)' <=> /\ k \in worker'[w].rindex + 1 .. Len(worker'[w].batch.bufs)
                               /\ x = content[worker'[w].batch.bufs[k]]
    BY <1>1, WaitsWillBe
  <2>3. CASE worker'[w].batch.bufs = worker[w].batch.bufs /\ worker'[w].rindex = worker[w].rindex
    BY <2>1, <2>2, <2>3
  <2>4. CASE NothingWaits(w) /\ worker'[w].batch.bufs = <<>> /\ worker'[w].rindex = 0
    <3>1. worker'[w].rindex + 1 .. Len(worker'[w].batch.bufs) = {}
      BY <2>4
    <3>2. worker[w].rindex + 1 .. Len(worker[w].batch.bufs) = {}
      BY <2>4, NoneWaits
    <3> QED
      BY <2>1, <2>2, <3>1, <3>2
  <2> QED
    BY <2>3, <2>4 DEF SteadyWork
<1>7. ASSUME NEW w \in Workers, NEW i, i # 0, NEW k, NEW x
      PROVE  Waits(w, i, k, x)' <=> Waits(w, i, k, x)
  <2>1. ring'[w].full = ring[w].full
    OBVIOUS
  <2>2. Waits(w, i, k, x) <=> /\ i \in 1 .. Len(ring[w].full)
                              /\ k \in 1 .. Len(ring[w].full[i].bufs)
                              /\ x = content[ring[w].full[i].bufs[k]]
    BY <1>1, <1>7, WaitsIs
  <2>3. Waits(w, i, k, x)' <=> /\ i \in 1 .. Len(ring'[w].full)
                               /\ k \in 1 .. Len(ring'[w].full[i].bufs)
                               /\ x = content[ring'[w].full[i].bufs[k]]
    BY <1>1, <1>7, WaitsWillBe
  <2> QED
    BY <2>1, <2>2, <2>3
<1>8. CASE p[1] \in Workers /\ p[2] = 0
  BY <1>6, <1>8
<1>9. CASE p[1] \in Workers /\ p[2] # 0
  BY <1>7, <1>9
<1> QED
  BY <1>4, <1>5, <1>8, <1>9

\* What workers have read stays so.
LEMMA WorkReadStays ==
    ASSUME PoolInv, WorkRead, size' = size, \A w \in Workers : SteadyWork(w)
    PROVE  WorkRead'
<1>1. Tables' = Tables /\ Tables \subseteq Workers /\ Decoder \in Workers /\ Decoder \notin Tables
  BY SameSize, SizeTypes DEF PoolInv, Types
<1>2. worker'[Decoder].rindex = 0
  BY <1>1 DEF SteadyWork, WorkRead
<1>3. ASSUME NEW t \in Tables, worker'[t].pc = "free" PROVE NothingWaits(t)'
  <2>1. SteadyWork(t) /\ t # Decoder
    BY <1>1
  <2>2. CASE worker'[t].batch.bufs = <<>> /\ worker'[t].rindex = 0
    BY <2>2 DEF NothingWaits
  <2>3. CASE /\ worker'[t].batch.bufs = worker[t].batch.bufs /\ worker'[t].rindex = worker[t].rindex
             /\ NothingWaits(t) \/ worker[t].pc = "free"
    <3>1. NothingWaits(t)
      BY <2>3 DEF WorkRead, At
    <3> QED
      BY <2>3, <3>1 DEF NothingWaits
  <2> QED
    BY <1>3, <2>1, <2>2, <2>3 DEF SteadyWork
<1> QED
  BY <1>1, <1>2, <1>3 DEF WorkRead, At, Decoder

\* The types of the next state, variable by variable.
LEMMA OrderTypesGo ==
    ASSUME OrderTypes, size' = size, content' \in [Buffer -> Nat], source' \in SourceRecord,
           handled' \in [Tables -> Seq(Nat)], dropped' \in SUBSET Nat
    PROVE  OrderTypes'
BY SameSize DEF OrderTypes, SourceRecord

\* A step at which no packet moves.
LEMMA QuietOrder ==
    ASSUME OrderInv, PoolInv', UNCHANGED <<content, handled, dropped, size>>, SteadyReader,
           \A w \in Workers : ring'[w].full = ring[w].full /\ SteadyWork(w),
           source' \in SourceRecord, Assigned' = Assigned
    PROVE  OrderInv'
<1>1. Way' = Way
  BY WayStays DEF OrderInv
<1>2. Course(Way, handled, dropped, Assigned)'
  BY <1>1, CourseGoes DEF OrderInv
<1>3. WorkRead'
  BY WorkReadStays DEF OrderInv
<1>4. OrderTypes'
  BY OrderTypesGo DEF OrderInv, OrderTypes
<1> QED
  BY <1>2, <1>3, <1>4 DEF OrderInv

\* The reader has a packet for which it needs a buffer.
Holding(pc) == pc \in {"pop", "starved", "recheck", "wait", "waiting", "scan", "popped", "assign"}

\* The reader has read all packets that were assigned and the one it holds.
LEMMA AssignedIs ==
    /\ Assigned = source.packets - (IF Holding(reader.pc) THEN 1 ELSE 0)
    /\ Assigned' = source'.packets - (IF Holding(reader'.pc) THEN 1 ELSE 0)
BY DEF Assigned, Holding

\* A step of the reader that leaves its batch and the rings alone.
LEMMA ReaderOrder ==
    ASSUME OrderInv, PoolInv', Holding(reader'.pc) <=> Holding(reader.pc), SteadyReader,
           \A w \in Workers : ring'[w].full = ring[w].full,
           UNCHANGED <<content, worker, source, handled, dropped, size>>
    PROVE  OrderInv'
<1>1. \A w \in Workers : SteadyWork(w)
  BY DEF SteadyWork
<1>2. Assigned' = Assigned
  BY AssignedIs
<1>3. source' \in SourceRecord
  BY DEF OrderInv, OrderTypes
<1> QED
  BY <1>1, <1>2, <1>3, QuietOrder

\* Where the reader goes without touching its batch.
LEMMA GoingOrder ==
    ASSUME OrderInv, PoolInv', NEW q \in ReaderPlaces, GoTo(q), Holding(q) <=> Holding(reader.pc),
           \A w \in Workers : ring'[w].full = ring[w].full,
           UNCHANGED <<content, worker, source, handled, dropped, size>>
    PROVE  OrderInv'
<1>1. reader'.pc = q /\ reader'.cur = reader.cur /\ reader'.rindex = reader.rindex
  BY Going DEF OrderInv, PoolInv
<1>2. SteadyReader
  BY <1>1 DEF SteadyReader
<1> QED
  BY <1>1, <1>2, ReaderOrder

\* A packet is read: it is assigned only later.
LEMMA ReadPacketOrder == ASSUME OrderInv, ReadPacket PROVE OrderInv'
<1>1. PoolInv'
  BY ReadPacketStep DEF OrderInv
<1>2. /\ reader.pc = "read" /\ UNCHANGED <<content, handled, dropped, size, ring, worker>>
      /\ source' = [source EXCEPT !.packets = @ + 1]
      /\ GoTo(IF reader.cur = <<>> THEN "pop" ELSE "assign")
  BY DEF ReadPacket, Reading, log
<1>3. PICK q \in {"pop", "assign"} : GoTo(q)
  BY <1>2
<1>4. q \in ReaderPlaces /\ Holding(q) /\ ~Holding(reader.pc)
  BY <1>2 DEF ReaderPlaces, Holding
<1>5. reader'.pc = q /\ reader'.cur = reader.cur /\ reader'.rindex = reader.rindex
  BY <1>3, <1>4, Going DEF OrderInv, PoolInv
<1>6. source' \in SourceRecord /\ source'.packets = source.packets + 1 /\ source.packets \in Nat
  BY <1>2 DEF OrderInv, OrderTypes, SourceRecord
<1>7. Assigned' = Assigned
  BY <1>4, <1>5, <1>6, AssignedIs
<1>8. \A w \in Workers : ring'[w].full = ring[w].full /\ SteadyWork(w)
  BY <1>2 DEF SteadyWork
<1>9. SteadyReader
  BY <1>5 DEF SteadyReader
<1> QED
  BY <1>1, <1>2, <1>6, <1>7, <1>8, <1>9, QuietOrder

\* The reader takes an empty batch, of which only the number counts.
LEMMA NextBatchOrder == ASSUME OrderInv, NextBatch PROVE OrderInv'
<1>1. PoolInv'
  BY NextBatchStep DEF OrderInv
<1>2. /\ reader.pc = "next" /\ GoTo("read") /\ ring' = [ring EXCEPT ![Decoder].empty = @ - 1]
      /\ UNCHANGED <<content, worker, source, handled, dropped, size>>
  BY DEF NextBatch, Reading, log
<1>3. \A w \in Workers : ring'[w].full = ring[w].full
  BY <1>2 DEF OrderInv, PoolInv, Types, RingRecord
<1>4. "read" \in ReaderPlaces /\ ~Holding("read") /\ ~Holding("next")
  BY DEF ReaderPlaces, Holding
<1> QED
  BY <1>1, <1>2, <1>3, <1>4, GoingOrder

\* Rings are closed with what they hold.
LEMMA ClosingOrder ==
    ASSUME OrderInv, CloseDecode \/ FlushTables
    PROVE  OrderInv'
<1>1. PoolInv'
  BY CloseDecodeStep, FlushTablesStep DEF OrderInv
<1>2. PICK R \in {{Decoder}, Tables}, q \in {"join", "flush"} :
        CloseRings(R) /\ GoTo(q) /\ reader.pc \in {"close", "join"}
  BY DEF CloseDecode, FlushTables, Reading
<1>3. \A w \in Workers : ring'[w].full = ring[w].full
  BY <1>2, Closing DEF OrderInv
<1>4. UNCHANGED <<content, worker, source, handled, dropped, size>>
  BY <1>2 DEF CloseRings, log
<1>5. q \in ReaderPlaces /\ ~Holding(q) /\ ~Holding(reader.pc)
  BY <1>2 DEF ReaderPlaces, Holding
<1> QED
  BY <1>1, <1>2, <1>3, <1>4, <1>5, GoingOrder

\* The reader's steps that only concern the pool.
LEMMA PlainOrder ==
    ASSUME OrderInv, Finished \/ Recheck \/ Wait \/ Starved \/ Popped
    PROVE  OrderInv'
<1>1. PoolInv'
  BY FinishedStep, RecheckStep, WaitStep, StarvedStep, PoppedStep DEF OrderInv
<1>2. PICK q \in {"finished", "wait", "pop", "waiting", "recheck", "assign"} :
        GoTo(q) /\ (Holding(reader.pc) <=> q # "finished")
  BY DEF Finished, Recheck, Wait, Starved, Popped, Reading, Holding
<1>3. q \in ReaderPlaces /\ (Holding(q) <=> q # "finished")
  BY DEF ReaderPlaces, Holding
<1>4. UNCHANGED <<ring, content, worker, source, handled, dropped, size>>
  BY DEF Finished, Recheck, Wait, Starved, Popped, log
<1> QED
  BY <1>1, <1>2, <1>3, <1>4, GoingOrder

\* Pop and the search for usage start over with the batch as it is.
LEMMA PopOrder ==
    ASSUME OrderInv, Pop \/ Usage
    PROVE  OrderInv'
<1>1. PoolInv'
  BY PopStep, UsageStep DEF OrderInv
<1>2. UNCHANGED <<ring, content, worker, source, handled, dropped, size>>
  BY DEF Pop, Usage, log
<1>3. reader \in ReaderRecord
  BY DEF OrderInv, PoolInv, Types
<1>4. /\ reader'.cur = reader.cur /\ reader'.rindex = reader.rindex
      /\ reader.pc \in {"pop", "starved"} /\ reader'.pc \in {"scan", "starved"}
  BY <1>3 DEF Pop, Usage, Reading, ReaderRecord
<1>5. SteadyReader /\ Holding(reader.pc) /\ Holding(reader'.pc)
  BY <1>4 DEF SteadyReader, Holding
<1> QED
  BY <1>1, <1>2, <1>5, ReaderOrder

\* A buffer is added to the batch, in which nothing is written yet.
LEMMA ScanOrder == ASSUME OrderInv, Scan PROVE OrderInv'
<1>1. PoolInv'
  BY ScanStep DEF OrderInv
<1>2. UNCHANGED <<ring, content, worker, source, handled, dropped, size>> /\ reader.pc = "scan"
  BY DEF Scan, log, Reading
<1>3. reader \in ReaderRecord /\ reader.rindex = 0
  BY <1>2 DEF OrderInv, PoolInv, Types, Stages, ReaderStage
<1>4. reader'.rindex = reader.rindex /\ reader'.pc \in {"scan", "popped"}
  BY <1>2, <1>3 DEF Scan, GoTo, ReaderRecord
<1>5. SteadyReader /\ Holding(reader.pc) /\ Holding(reader'.pc)
  BY <1>2, <1>3, <1>4 DEF SteadyReader, Holding
<1> QED
  BY <1>1, <1>2, <1>5, ReaderOrder

\* The tables go on to the end of their flows.
LEMMA EOFOrder == ASSUME OrderInv, EOF PROVE OrderInv'
<1>1. PoolInv'
  BY EOFStep DEF OrderInv
<1>2. /\ reader.pc = "flush" /\ GoTo("eof")
      /\ UNCHANGED <<content, ring, source, handled, dropped, size>>
      /\ worker' = [w \in Workers |-> IF w = Decoder THEN worker[w] ELSE [worker[w] EXCEPT !.pc = "eof"]]
  BY DEF EOF, Reading, log
<1>3. \A w \in Workers : SteadyWork(w)
  <2> TAKE w \in Workers
  <2>1. worker[w] \in WorkerRecord
    BY WorkerTypes DEF OrderInv
  <2>2. CASE w = Decoder
    BY <1>2, <2>2 DEF SteadyWork
  <2>3. CASE w # Decoder
    <3>1. worker'[w] = [worker[w] EXCEPT !.pc = "eof"]
      BY <1>2, <2>3
    <3> QED
      BY <2>1, <3>1 DEF WorkerRecord, SteadyWork
  <2> QED
    BY <2>2, <2>3
<1>4. "eof" \in ReaderPlaces /\ ~Holding("eof") /\ ~Holding("flush")
  BY DEF ReaderPlaces, Holding
<1>5. reader'.pc = "eof" /\ reader'.cur = reader.cur /\ reader'.rindex = reader.rindex
  BY <1>2, <1>4, Going DEF OrderInv, PoolInv
<1>6. Assigned' = Assigned /\ SteadyReader
  BY <1>2, <1>4, <1>5, AssignedIs DEF SteadyReader
<1>7. source' \in SourceRecord
  BY <1>2 DEF OrderInv, OrderTypes
<1> QED
  BY <1>1, <1>2, <1>3, <1>6, <1>7, QuietOrder

\* One worker goes on, and wakes the reader perhaps.
LEMMA WorkerOrder ==
    ASSUME OrderInv, PoolInv', NEW w \in Workers, SteadyWork(w),
           \A v \in Workers : v # w => worker'[v] = worker[v],
           \A v \in Workers : ring'[v].full = ring[v].full,
           reader' = reader \/ (reader.pc = "waiting" /\ reader' = [reader EXCEPT !.pc = "pop"]),
           UNCHANGED <<content, source, handled, dropped, size>>
    PROVE  OrderInv'
<1>1. \A v \in Workers : SteadyWork(v)
  <2> TAKE v \in Workers
  <2>1. CASE v = w
    BY <2>1
  <2>2. CASE v # w
    BY <2>2 DEF SteadyWork
  <2> QED
    BY <2>1, <2>2
<1>2. /\ reader'.cur = reader.cur /\ reader'.rindex = reader.rindex
      /\ Holding(reader.pc) <=> Holding(reader'.pc)
  BY DEF OrderInv, PoolInv, Types, ReaderRecord, Holding
<1>3. Assigned' = Assigned /\ SteadyReader
  BY <1>2, AssignedIs DEF SteadyReader
<1>4. source' \in SourceRecord
  BY DEF OrderInv, OrderTypes
<1> QED
  BY <1>1, <1>3, <1>4, QuietOrder

\* A worker goes to another place with its batch.
LEMMA PlaceOrder ==
    ASSUME OrderInv, PoolInv', NEW w \in Workers, NEW q, q # "free", Goes(w, q),
           \A v \in Workers : ring'[v].full = ring[v].full,
           UNCHANGED <<content, reader, source, handled, dropped, size>>
    PROVE  OrderInv'
<1>1. worker \in [Workers -> WorkerRecord] /\ worker[w] \in WorkerRecord
  BY WorkerTypes DEF OrderInv
<1>2. /\ worker'[w] = [worker[w] EXCEPT !.pc = q]
      /\ \A v \in Workers : v # w => worker'[v] = worker[v]
  BY <1>1 DEF Goes
<1>3. SteadyWork(w)
  BY <1>1, <1>2 DEF SteadyWork, WorkerRecord
<1> QED
  BY <1>2, <1>3, WorkerOrder

\* The steps of the workers that only change their place.
LEMMA GoesOrder ==
    ASSUME OrderInv, NEW w \in Workers,
           RingClosed(w) \/ (w = Decoder /\ (EventEmpty \/ ExpiryOver)) \/ (w \in Tables /\ EOFDone(w))
    PROVE  OrderInv'
<1>1. PoolInv'
  BY RingClosedStep, EventEmptyStep, ExpiryOverStep, EOFDoneStep DEF OrderInv
<1>2. PICK q \in {"done", "discard", "end"} : Goes(w, q)
  BY DEF RingClosed, EventEmpty, ExpiryOver, EOFDone
<1>3. UNCHANGED <<content, ring, reader, source, handled, dropped, size>>
  BY DEF RingClosed, EventEmpty, ExpiryOver, EOFDone, log
<1> QED
  BY <1>1, <1>2, <1>3, PlaceOrder

\* A table starts with a batch.
LEMMA StartOrder == ASSUME OrderInv, NEW t \in Tables, Start(t) PROVE OrderInv'
<1>1. PoolInv'
  BY StartStep DEF OrderInv
<1>2. t \in Workers
  BY SizeTypes DEF OrderInv, PoolInv, Types
<1>3. \A v \in Workers : ring'[v].full = ring[v].full
  BY <1>2 DEF OrderInv, PoolInv, Types, RingRecord, Start
<1>4. UNCHANGED <<content, reader, source, handled, dropped, size>> /\ Goes(t, "events")
  BY DEF Start, log
<1> QED
  BY <1>1, <1>2, <1>3, <1>4, PlaceOrder

\* A table that frees copies, or is done with the expiry, keeps its batch.
LEMMA TableOrder ==
    ASSUME OrderInv, NEW t \in Tables, ReleaseCopy(t) \/ CopyFree(t) \/ ExpireDone(t) \/ RecycleBatch(t)
    PROVE  OrderInv'
<1>1. PoolInv'
  BY ReleaseCopyStep, CopyFreeStep, ExpireDoneStep, RecycleBatchStep DEF OrderInv
<1>2. t \in Workers
  BY SizeTypes DEF OrderInv, PoolInv, Types
<1>3. worker \in [Workers -> WorkerRecord] /\ worker[t] \in WorkerRecord /\ worker[t].batch \in Batch
  BY <1>2, WorkerTypes DEF OrderInv
<1>4. UNCHANGED <<content, ring, source, handled, dropped, size>>
  BY DEF ReleaseCopy, CopyFree, ExpireDone, RecycleBatch, log
<1>5. reader' = reader \/ (reader.pc = "waiting" /\ reader' = [reader EXCEPT !.pc = "pop"])
  BY DEF ReleaseCopy, CopyFree, ExpireDone, RecycleBatch, Free
<1>6. \A v \in Workers : v # t => worker'[v] = worker[v]
  BY <1>2, <1>3 DEF ReleaseCopy, CopyFree, ExpireDone, RecycleBatch, GiveUp
<1>7. SteadyWork(t)
  <2>1. CASE ReleaseCopy(t)
    <3>1. PICK n : worker' = [worker EXCEPT ![t] = [worker[t] EXCEPT !.free = n]]
      BY <2>1 DEF ReleaseCopy, GiveUp
    <3>2. worker'[t] = [worker[t] EXCEPT !.free = n]
      BY <1>2, <1>3, <3>1
    <3> QED
      BY <1>3, <3>2 DEF SteadyWork, WorkerRecord
  <2>2. CASE CopyFree(t)
    <3>1. worker'[t] = [worker[t] EXCEPT !.free = 0]
      BY <1>2, <1>3, <2>2 DEF CopyFree
    <3> QED
      BY <1>3, <3>1 DEF SteadyWork, WorkerRecord
  <2>3. CASE ExpireDone(t)
    <3>1. worker'[t] = [worker[t] EXCEPT !.batch.expire = FALSE]
      BY <1>2, <1>3, <2>3 DEF ExpireDone
    <3> QED
      BY <1>3, <3>1 DEF SteadyWork, WorkerRecord, Batch
  <2>4. CASE RecycleBatch(t)
    <3>1. PICK n : worker' = [worker EXCEPT ![t] = [[worker[t] EXCEPT !.pc = "free"] EXCEPT !.free = n]]
      BY <2>4 DEF RecycleBatch, GiveUp
    <3>2. worker'[t] = [[worker[t] EXCEPT !.pc = "free"] EXCEPT !.free = n]
      BY <1>2, <1>3, <3>1
    <3>3. NothingWaits(t)
      BY <1>2, <2>4, WorkerTypes DEF RecycleBatch, BatchDone, NothingWaits, OrderInv
    <3> QED
      BY <1>3, <3>2, <3>3 DEF SteadyWork, WorkerRecord
  <2> QED
    BY <2>1, <2>2, <2>3, <2>4
<1> QED
  BY <1>1, <1>2, <1>4, <1>5, <1>6, <1>7, WorkerOrder

\* A table lets go of a batch that it has read.
LEMMA BatchFreeOrder == ASSUME OrderInv, NEW t \in Tables, BatchFree(t) PROVE OrderInv'
<1>1. PoolInv'
  BY BatchFreeStep DEF OrderInv
<1>2. t \in Workers
  BY SizeTypes DEF OrderInv, PoolInv, Types
<1>3. worker \in [Workers -> WorkerRecord] /\ worker[t] \in WorkerRecord /\ worker[t].batch \in Batch
  BY <1>2, WorkerTypes DEF OrderInv
<1>4. UNCHANGED <<content, source, handled, dropped, size>>
  BY DEF BatchFree, log
<1>5. reader' = reader \/ (reader.pc = "waiting" /\ reader' = [reader EXCEPT !.pc = "pop"])
  BY DEF BatchFree, Free
<1>6. \A v \in Workers : ring'[v].full = ring[v].full
  BY <1>2 DEF OrderInv, PoolInv, Types, RingRecord, BatchFree
<1>7. /\ worker'[t] = [worker[t] EXCEPT !.pc = "idle", !.free = 0, !.batch = NoBatch, !.rindex = 0]
      /\ \A v \in Workers : v # t => worker'[v] = worker[v]
  BY <1>2, <1>3 DEF BatchFree
<1>8. worker'[t].batch = NoBatch /\ worker'[t].rindex = 0 /\ NoBatch.bufs = <<>>
  BY <1>3, <1>7 DEF WorkerRecord, NoBatch
<1>9. NothingWaits(t)
  BY DEF BatchFree, OrderInv, WorkRead
<1>10. SteadyWork(t)
  BY <1>8, <1>9 DEF SteadyWork
<1> QED
  BY <1>1, <1>2, <1>4, <1>5, <1>6, <1>7, <1>10, WorkerOrder

\* The decoder recycles the packets it has discarded.
LEMMA DiscardOrder ==
    ASSUME OrderInv, Discard \/ DiscardFree
    PROVE  OrderInv'
<1>1. PoolInv'
  BY DiscardStep, DiscardFreeStep DEF OrderInv
<1>2. Decoder \in Workers
  BY SizeTypes DEF OrderInv, PoolInv, Types
<1>3. worker \in [Workers -> WorkerRecord] /\ worker[Decoder] \in WorkerRecord
  BY <1>2, WorkerTypes DEF OrderInv
<1>4. UNCHANGED <<content, ring, source, handled, dropped, size>>
  BY DEF Discard, DiscardFree, log
<1>5. reader' = reader \/ (reader.pc = "waiting" /\ reader' = [reader EXCEPT !.pc = "pop"])
  BY DEF Discard, DiscardFree, Free
<1>6. \A v \in Workers : v # Decoder => worker'[v] = worker[v]
  BY <1>2, <1>3 DEF Discard, DiscardFree, Goes, GiveUp
<1>7. worker[Decoder].batch.bufs = <<>> /\ worker[Decoder].rindex = 0
  <2>1. worker[Decoder].pc \in {"discard", "free"}
    BY DEF Discard, DiscardFree, At
  <2> QED
    BY <1>2, <2>1 DEF OrderInv, WorkRead, PoolInv, Stages, WorkerStage, StageOf
<1>8. worker'[Decoder].batch.bufs = <<>> /\ worker'[Decoder].rindex = 0
  <2>1. CASE DiscardFree
    <3>1. worker'[Decoder] = [worker[Decoder] EXCEPT !.pc = "idle", !.free = 0]
      BY <1>2, <1>3, <2>1 DEF DiscardFree
    <3> QED
      BY <1>3, <1>7, <3>1 DEF WorkerRecord
  <2>2. CASE Discard /\ worker[Decoder].discard = {}
    <3>1. worker'[Decoder] = [worker[Decoder] EXCEPT !.pc = "idle"]
      BY <1>2, <1>3, <2>2 DEF Discard, Goes
    <3> QED
      BY <1>3, <1>7, <3>1 DEF WorkerRecord
  <2>3. CASE Discard /\ worker[Decoder].discard # {}
    <3>1. PICK n : worker'[Decoder] = [[worker[Decoder] EXCEPT !.pc = "free", !.discard = {},
                                                               !.batch = NoBatch] EXCEPT !.free = n]
      BY <1>2, <1>3, <2>3 DEF Discard, GiveUp
    <3>2. worker'[Decoder].batch = NoBatch /\ worker'[Decoder].rindex = worker[Decoder].rindex
      BY <1>3, <3>1 DEF WorkerRecord
    <3> QED
      BY <1>7, <3>2 DEF NoBatch
  <2> QED
    BY <2>1, <2>2, <2>3
<1>9. SteadyWork(Decoder)
  BY <1>7, <1>8 DEF SteadyWork, NothingWaits
<1> QED
  BY <1>1, <1>2, <1>4, <1>5, <1>6, <1>9, WorkerOrder

--------------------------------------------------------------------------------
(* 10. Steps at which packets move                                           *)

\* Lines are ordered as numbers: the reader, the decoder, the tables.
LEMMA LineNumbers ==
    ASSUME size \in Sizes
    PROVE  /\ Current \notin Tables /\ Decoder \notin Tables /\ Current # Decoder
           /\ Tables \subseteq Lines /\ Decoder \in Lines /\ Current \in Lines
           /\ Workers \subseteq Lines /\ \A r \in Lines : r = Current \/ r = Decoder \/ r \in Tables
BY SizeTypes DEF Lines, Decoder, Current

\* The first batch of line w is taken from its ring.
LEMMA CourseReceived ==
    ASSUME size \in Sizes, NEW W, NEW h, NEW d, NEW a, Course(W, h, d, a), NEW w \in Workers,
           \A p \in W : p[1] = w => p[2] # 0, NEW V \in SUBSET Spots,
           \A p \in Spots : p \in V <=> IF p[1] = w THEN <<w, p[2] + 1, p[3], p[4]>> \in W ELSE p \in W
    PROVE  Course(V, h, d, a)
<1> DEFINE g == [p \in V |-> IF p[1] = w THEN <<w, p[2] + 1, p[3], p[4]>> ELSE p]
<1>1. W \subseteq Spots
  BY DEF Course
<1>2. g \in [V -> W]
  OBVIOUS
<1>3. \A p \in V : /\ p \in Spots /\ g[p] \in W /\ g[p] \in Spots
                   /\ p[1] = w => g[p] = <<w, p[2] + 1, p[3], p[4]>>
                   /\ p[1] # w => g[p] = p
  BY <1>1, <1>2
<1> HIDE DEF g
<1>4. \A p \in V : /\ g[p][1] = p[1] /\ g[p][2] = (IF p[1] = w THEN p[2] + 1 ELSE p[2])
                   /\ g[p][3] = p[3] /\ g[p][4] = p[4] /\ p[2] \in Nat
  BY <1>3, SpotTypes
<1>5. \A p, q \in V : Earlier(p, q) => Earlier(g[p], g[q])
  <2> SUFFICES ASSUME NEW p \in V, NEW q \in V, Earlier(p, q) PROVE Earlier(g[p], g[q])
    OBVIOUS
  <2>1. CASE p[1] # q[1]
    BY <1>4, <2>1 DEF Earlier
  <2>2. CASE p[1] = q[1]
    <3>1. p[2] < q[2] \/ (p[2] = q[2] /\ p[3] < q[3])
      BY <2>2, LineNumbers DEF Earlier
    <3>2. g[p][2] < g[q][2] \/ (g[p][2] = g[q][2] /\ g[p][3] < g[q][3])
      BY <1>4, <2>2, <3>1
    <3> QED
      BY <1>4, <2>2, <3>2 DEF Earlier
  <2> QED
    BY <2>1, <2>2
<1>6. \A p, q \in V : g[p] = g[q] => p = q
  <2> SUFFICES ASSUME NEW p \in V, NEW q \in V, g[p] = g[q] PROVE p = q
    OBVIOUS
  <2>1. p[1] = q[1] /\ p[2] = q[2] /\ p[3] = q[3] /\ p[4] = q[4]
    BY <1>4
  <2> QED
    BY <1>3, <2>1, SpotTypes
<1>7. \A q \in W : \E p \in V : g[p] = q
  <2> TAKE q \in W
  <2>1. q \in Spots
    BY <1>1
  <2>2. CASE q[1] # w
    BY <1>3, <2>1, <2>2
  <2>3. CASE q[1] = w
    <3> DEFINE p == <<w, q[2] - 1, q[3], q[4]>>
    <3>1. q[1] \in Lines /\ q[2] - 1 \in Nat /\ q[3] \in Nat /\ q[4] \in Nat
      BY <2>1, <2>3, SpotTypes
    <3>2. p \in Spots
      BY <2>3, <3>1 DEF Spots
    <3>3. <<w, p[2] + 1, p[3], p[4]>> = q
      BY <2>1, <2>3, <3>1, SpotTypes
    <3>4. p \in V
      BY <3>2, <3>3
    <3>5. g[p] = <<w, p[2] + 1, p[3], p[4]>>
      BY <1>3, <3>4
    <3> QED
      BY <3>3, <3>4, <3>5
  <2> QED
    BY <2>2, <2>3
<1>8. \A p \in V : g[p][4] = p[4] /\ g[p][1] \in {p[1], Decoder, Current}
  BY <1>4
<1> QED
  BY <1>2, <1>5, <1>6, <1>7, <1>8, CourseMoves

\* The batch of the reader becomes batch n + 1 of the decoder's ring.
LEMMA CourseSent ==
    ASSUME size \in Sizes, NEW W, NEW h, NEW d, NEW a, Course(W, h, d, a), NEW n \in Nat,
           \A p \in W : /\ p[1] = Decoder => p[2] <= n
                        /\ p[1] = Current => p[2] = 0,
           NEW V \in SUBSET Spots,
           \A p \in Spots : p \in V <=>
                IF p[1] = Decoder /\ p[2] = n + 1 THEN <<Current, 0, p[3], p[4]>> \in W
                ELSE p[1] # Current /\ p \in W
    PROVE  Course(V, h, d, a)
<1> DEFINE sent(p) == p[1] = Decoder /\ p[2] = n + 1
           g == [p \in V |-> IF sent(p) THEN <<Current, 0, p[3], p[4]>> ELSE p]
<1>1. W \subseteq Spots
  BY DEF Course
<1>2. g \in [V -> W]
  OBVIOUS
<1>3. \A p \in V : /\ p \in Spots /\ g[p] \in W /\ g[p] \in Spots
                   /\ sent(p) => g[p] = <<Current, 0, p[3], p[4]>>
                   /\ ~sent(p) => g[p] = p /\ p \in W /\ p[1] # Current
  BY <1>1, <1>2
<1> HIDE DEF g
<1>4. \A p \in V : /\ sent(p) => g[p][1] = Current /\ g[p][2] = 0
                   /\ g[p][3] = p[3] /\ g[p][4] = p[4] /\ p[2] \in Nat
  BY <1>3, SpotTypes
<1>5. \A p, q \in V : Earlier(p, q) => Earlier(g[p], g[q])
  <2> SUFFICES ASSUME NEW p \in V, NEW q \in V, Earlier(p, q) PROVE Earlier(g[p], g[q])
    OBVIOUS
  <2>1. CASE sent(p) /\ sent(q)
    BY <1>4, <2>1, LineNumbers DEF Earlier
  <2>2. CASE sent(p) /\ ~sent(q)
    <3>1. q[1] = Decoder => q[2] <= n /\ q[2] \in Nat
      BY <1>3, <1>4, <2>2
    <3> QED
      BY <1>3, <1>4, <2>2, <3>1, LineNumbers DEF Earlier
  <2>3. CASE ~sent(p) /\ sent(q)
    <3>1. g[p] = p /\ (p[1] = Decoder \/ p[1] \in Tables) /\ g[q][1] = Current
      BY <1>3, <1>4, <2>3, LineNumbers DEF Earlier
    <3> QED
      BY <3>1 DEF Earlier
  <2>4. CASE ~sent(p) /\ ~sent(q)
    BY <1>3, <2>4
  <2> QED
    BY <2>1, <2>2, <2>3, <2>4
<1>6. \A p, q \in V : g[p] = g[q] => p = q
  <2> SUFFICES ASSUME NEW p \in V, NEW q \in V, g[p] = g[q] PROVE p = q
    OBVIOUS
  <2>1. sent(p) <=> sent(q)
    BY <1>3, <1>4
  <2>2. p[3] = q[3] /\ p[4] = q[4]
    BY <1>4
  <2>3. CASE sent(p)
    BY <1>3, <2>1, <2>2, <2>3, SpotTypes
  <2>4. CASE ~sent(p)
    BY <1>3, <2>1, <2>4
  <2> QED
    BY <2>3, <2>4
<1>7. \A q \in W : \E p \in V : g[p] = q
  <2> TAKE q \in W
  <2>1. q \in Spots /\ (q[1] = Decoder => q[2] <= n) /\ q[2] \in Nat
    BY <1>1, SpotTypes
  <2>2. CASE q[1] # Current
    <3>1. ~sent(q)
      BY <2>1
    <3>2. q \in V
      BY <2>1, <2>2, <3>1
    <3> QED
      BY <1>3, <3>1, <3>2
  <2>3. CASE q[1] = Current
    <3> DEFINE p == <<Decoder, n + 1, q[3], q[4]>>
    <3>1. q[3] \in Nat /\ q[4] \in Nat /\ q = <<Current, 0, q[3], q[4]>>
      BY <2>1, <2>3, SpotTypes
    <3>2. p \in Spots
      BY <3>1, LineNumbers DEF Spots
    <3>3. sent(p) /\ <<Current, 0, p[3], p[4]>> = q
      BY <3>1
    <3>4. p \in V
      BY <3>2, <3>3
    <3>5. g[p] = <<Current, 0, p[3], p[4]>>
      BY <1>3, <3>3, <3>4
    <3> QED
      BY <3>3, <3>4, <3>5
  <2> QED
    BY <2>2, <2>3
<1>8. \A p \in V : g[p][4] = p[4] /\ g[p][1] \in {p[1], Decoder, Current}
  BY <1>3, <1>4
<1> QED
  BY <1>2, <1>5, <1>6, <1>7, <1>8, CourseMoves

\* A strictly increasing function takes a value once.
LEMMA Increasing ==
    ASSUME NEW l \in Nat, NEW m \in [1 .. l -> Nat], \A i, j \in 1 .. l : i < j => m[i] < m[j],
           NEW i \in 1 .. l, NEW j \in 1 .. l
    PROVE  m[i] = m[j] => i = j
<1>1. m[i] \in Nat /\ m[j] \in Nat
  OBVIOUS
<1>2. i < j => m[i] < m[j]
  OBVIOUS
<1>3. j < i => m[j] < m[i]
  OBVIOUS
<1> QED
  BY <1>1, <1>2, <1>3

\* Of the batch of the decoder, buffers m[1], m[2] and so on remain, and all that wait do.
LEMMA CoursePicked ==
    ASSUME size \in Sizes, NEW W, NEW h, NEW d, NEW a, Course(W, h, d, a),
           NEW l \in Nat, NEW m \in [1 .. l -> Nat], \A i, j \in 1 .. l : i < j => m[i] < m[j],
           \A p \in W : p[1] = Decoder /\ p[2] = 0 => \E i \in 1 .. l : m[i] = p[3],
           NEW V \in SUBSET Spots,
           \A p \in Spots : p \in V <=>
                IF p[1] = Decoder /\ p[2] = 0 THEN p[3] \in 1 .. l /\ <<Decoder, 0, m[p[3]], p[4]>> \in W
                ELSE p \in W
    PROVE  Course(V, h, d, a)
<1> DEFINE here(p) == p[1] = Decoder /\ p[2] = 0
           g == [p \in V |-> IF here(p) THEN <<Decoder, 0, m[p[3]], p[4]>> ELSE p]
<1>1. W \subseteq Spots
  BY DEF Course
<1>2. g \in [V -> W]
  OBVIOUS
<1>3. \A p \in V : /\ p \in Spots /\ g[p] \in W /\ g[p] \in Spots
                   /\ here(p) => g[p] = <<Decoder, 0, m[p[3]], p[4]>> /\ p[3] \in 1 .. l
                   /\ ~here(p) => g[p] = p /\ p \in W
  BY <1>1, <1>2
<1> HIDE DEF g
<1>4. \A p \in V : /\ g[p][1] = p[1] /\ g[p][2] = p[2] /\ g[p][4] = p[4]
                   /\ here(p) => g[p][3] = m[p[3]]
                   /\ ~here(p) => g[p][3] = p[3]
  BY <1>3, SpotTypes
<1>5. \A p, q \in V : Earlier(p, q) => Earlier(g[p], g[q])
  <2> SUFFICES ASSUME NEW p \in V, NEW q \in V, Earlier(p, q) PROVE Earlier(g[p], g[q])
    OBVIOUS
  <2>1. CASE p[1] # q[1] \/ p[2] # q[2]
    BY <1>4, <2>1 DEF Earlier
  <2>2. CASE p[1] = q[1] /\ p[2] = q[2]
    <3>1. p[2] \in Nat /\ q[2] \in Nat
      BY <1>3, SpotTypes
    <3>2. p[3] < q[3]
      BY <2>2, <3>1, LineNumbers DEF Earlier
    <3>3. g[p][3] < g[q][3]
      BY <1>3, <1>4, <2>2, <3>2
    <3> QED
      BY <1>4, <2>2, <3>3 DEF Earlier
  <2> QED
    BY <2>1, <2>2
<1>6. \A p, q \in V : g[p] = g[q] => p = q
  <2> SUFFICES ASSUME NEW p \in V, NEW q \in V, g[p] = g[q] PROVE p = q
    OBVIOUS
  <2>1. p[1] = q[1] /\ p[2] = q[2] /\ p[4] = q[4] /\ (here(p) <=> here(q))
    BY <1>4
  <2>2. p[3] = q[3]
    <3>1. CASE here(p)
      <4>1. m[p[3]] = m[q[3]] /\ p[3] \in 1 .. l /\ q[3] \in 1 .. l
        BY <1>3, <1>4, <2>1, <3>1
      <4> QED
        BY <4>1, Increasing
    <3>2. CASE ~here(p)
      BY <1>4, <2>1, <3>2
    <3> QED
      BY <3>1, <3>2
  <2> QED
    BY <1>3, <2>1, <2>2, SpotTypes, SMTT(30)
<1>7. \A q \in W : \E p \in V : g[p] = q
  <2> TAKE q \in W
  <2>1. q \in Spots /\ q = <<q[1], q[2], q[3], q[4]>> /\ q[4] \in Nat
    BY <1>1, SpotTypes
  <2>2. CASE ~here(q)
    <3>1. q \in V
      BY <2>1, <2>2
    <3> QED
      BY <1>3, <2>2, <3>1
  <2>3. CASE here(q)
    <3>1. PICK i \in 1 .. l : m[i] = q[3]
      BY <2>3
    <3> DEFINE p == <<Decoder, 0, i, q[4]>>
    <3>2. p \in Spots
      BY <2>1, LineNumbers DEF Spots
    <3>3. here(p) /\ p[3] \in 1 .. l /\ <<Decoder, 0, m[p[3]], p[4]>> = q
      BY <2>1, <2>3, <3>1
    <3>4. p \in V
      BY <3>2, <3>3
    <3>5. g[p] = <<Decoder, 0, m[p[3]], p[4]>>
      BY <1>3, <3>3, <3>4
    <3> QED
      BY <3>3, <3>4, <3>5
  <2> QED
    BY <2>2, <2>3
<1>8. \A p \in V : g[p][4] = p[4] /\ g[p][1] \in {p[1], Decoder, Current}
  BY <1>4
<1> QED
  BY <1>2, <1>5, <1>6, <1>7, <1>8, CourseMoves, SMTT(30)

\* Shares of the decoder's batch: buffer k of the share of table t was its buffer m[t][k].
Shares(W, l, m) ==
    /\ \A t \in Tables : /\ m[t] \in [1 .. l[t] -> Nat]
                         /\ \A i, j \in 1 .. l[t] : i < j => m[t][i] < m[t][j]
    /\ \A p \in W : p[1] = Decoder /\ p[2] = 0 => \E t \in Tables : \E i \in 1 .. l[t] : m[t][i] = p[3]
    /\ \A t, u \in Tables : \A i \in 1 .. l[t] : \A j \in 1 .. l[u] : m[t][i] = m[u][j] => t = u

\* The shares become batch n[t] + 1 of table t, the last one.
SharedOut(W, n, l, m, V) ==
    /\ \A p \in W : p[1] \in Tables => p[2] <= n[p[1]]
    /\ \A p \in Spots : p \in V <=>
            IF p[1] \in Tables /\ p[2] = n[p[1]] + 1
            THEN p[3] \in 1 .. l[p[1]] /\ <<Decoder, 0, m[p[1]][p[3]], p[4]>> \in W
            ELSE ~(p[1] = Decoder /\ p[2] = 0) /\ p \in W

\* The batch of the decoder is shared out.
LEMMA CourseShared ==
    ASSUME size \in Sizes, NEW W, NEW h, NEW d, NEW a, Course(W, h, d, a),
           NEW n \in [Tables -> Nat], NEW l \in [Tables -> Nat], NEW m, Shares(W, l, m),
           NEW V \in SUBSET Spots, SharedOut(W, n, l, m, V)
    PROVE  Course(V, h, d, a)
<1> DEFINE new(p) == p[1] \in Tables /\ p[2] = n[p[1]] + 1
           g == [p \in V |-> IF new(p) THEN <<Decoder, 0, m[p[1]][p[3]], p[4]>> ELSE p]
<1>1. W \subseteq Spots
  BY DEF Course
<1>2. g \in [V -> W]
  BY DEF SharedOut
<1>3. \A p \in V : /\ p \in Spots /\ g[p] \in W /\ g[p] \in Spots
                   /\ new(p) => g[p] = <<Decoder, 0, m[p[1]][p[3]], p[4]>> /\ p[3] \in 1 .. l[p[1]]
                   /\ ~new(p) => g[p] = p /\ p \in W /\ ~(p[1] = Decoder /\ p[2] = 0)
  BY <1>1, <1>2 DEF SharedOut
<1> HIDE DEF g
<1>4. \A p \in V : /\ g[p][4] = p[4] /\ p[2] \in Nat
                   /\ new(p) => g[p][1] = Decoder /\ g[p][2] = 0 /\ g[p][3] = m[p[1]][p[3]]
  BY <1>3, SpotTypes
<1>5. \A p, q \in V : Earlier(p, q) => Earlier(g[p], g[q])
  <2> SUFFICES ASSUME NEW p \in V, NEW q \in V, Earlier(p, q) PROVE Earlier(g[p], g[q])
    OBVIOUS
  <2>1. CASE new(p) /\ new(q)
    <3>1. p[1] = q[1] /\ p[1] \in Tables /\ p[3] < q[3]
      BY <1>4, <2>1, LineNumbers DEF Earlier
    <3>2. m[p[1]][p[3]] < m[p[1]][q[3]]
      BY <1>3, <2>1, <3>1 DEF Shares
    <3> QED
      BY <1>4, <2>1, <3>1, <3>2 DEF Earlier
  <2>2. CASE new(p) /\ ~new(q)
    <3>1. q[1] \in {Decoder, Current}
      <4>1. q[1] \in Tables => q[2] <= n[q[1]] /\ n[q[1]] \in Nat
        BY <1>3, <2>2 DEF SharedOut
      <4> QED
        BY <1>4, <2>2, <4>1, LineNumbers DEF Earlier
    <3>2. g[q] = q /\ g[p][1] = Decoder /\ g[p][2] = 0 /\ q[2] \in Nat
          /\ ~(q[1] = Decoder /\ q[2] = 0)
      BY <1>3, <1>4, <2>2
    <3> QED
      BY <3>1, <3>2 DEF Earlier
  <2>3. CASE ~new(p) /\ new(q)
    <3>1. p[1] \in Tables
      BY <2>3, LineNumbers DEF Earlier
    <3> QED
      BY <1>3, <1>4, <2>3, <3>1 DEF Earlier
  <2>4. CASE ~new(p) /\ ~new(q)
    BY <1>3, <2>4
  <2> QED
    BY <2>1, <2>2, <2>3, <2>4
<1>6. \A p, q \in V : g[p] = g[q] => p = q
  <2> SUFFICES ASSUME NEW p \in V, NEW q \in V, g[p] = g[q] PROVE p = q
    OBVIOUS
  <2>1. p[4] = q[4] /\ (new(p) <=> new(q))
    BY <1>3, <1>4
  <2>2. CASE new(p)
    <3>1. /\ p[1] \in Tables /\ q[1] \in Tables /\ p[3] \in 1 .. l[p[1]] /\ q[3] \in 1 .. l[q[1]]
          /\ m[p[1]][p[3]] = m[q[1]][q[3]]
      BY <1>3, <1>4, <2>1, <2>2
    <3>2. p[1] = q[1]
      <4>1. \A t, u \in Tables : \A i \in 1 .. l[t] : \A j \in 1 .. l[u] : m[t][i] = m[u][j] => t = u
        BY DEF Shares
      <4>2. \A i \in 1 .. l[p[1]] : \A j \in 1 .. l[q[1]] : m[p[1]][i] = m[q[1]][j] => p[1] = q[1]
        BY <3>1, <4>1
      <4> QED
        BY <3>1, <4>2
    <3>3. l[p[1]] \in Nat /\ m[p[1]] \in [1 .. l[p[1]] -> Nat]
          /\ \A i, j \in 1 .. l[p[1]] : i < j => m[p[1]][i] < m[p[1]][j]
      BY <3>1 DEF Shares
    <3>4. p[3] = q[3]
      BY <3>1, <3>2, <3>3, Increasing, ZenonT(30)
    <3> QED
      BY <1>3, <2>1, <2>2, <3>2, <3>4, SpotTypes
  <2>3. CASE ~new(p)
    BY <1>3, <2>1, <2>3
  <2> QED
    BY <2>2, <2>3
<1>7. \A q \in W : \E p \in V : g[p] = q
  <2> TAKE q \in W
  <2>1. q \in Spots /\ q = <<q[1], q[2], q[3], q[4]>> /\ q[4] \in Nat /\ q[2] \in Nat
    BY <1>1, SpotTypes
  <2>2. CASE ~(q[1] = Decoder /\ q[2] = 0)
    <3>1. ~new(q)
      <4>1. q[1] \in Tables => q[2] <= n[q[1]] /\ n[q[1]] \in Nat
        BY DEF SharedOut
      <4> QED
        BY <2>1, <4>1
    <3>2. q \in V
      BY <2>1, <2>2, <3>1 DEF SharedOut
    <3> QED
      BY <1>3, <3>1, <3>2
  <2>3. CASE q[1] = Decoder /\ q[2] = 0
    <3>1. PICK t \in Tables : \E i \in 1 .. l[t] : m[t][i] = q[3]
      BY <2>3 DEF Shares
    <3>2. PICK i \in 1 .. l[t] : m[t][i] = q[3]
      BY <3>1
    <3> DEFINE p == <<t, n[t] + 1, i, q[4]>>
    <3>3. p \in Spots
      <4>1. t \in Lines /\ n[t] + 1 \in Nat /\ i \in Nat
        BY LineNumbers
      <4> QED
        BY <2>1, <4>1 DEF Spots
    <3>4. new(p) /\ p[3] \in 1 .. l[p[1]] /\ <<Decoder, 0, m[p[1]][p[3]], p[4]>> = q
      BY <2>1, <2>3, <3>2
    <3>5. p \in V
      BY <3>3, <3>4 DEF SharedOut
    <3>6. g[p] = <<Decoder, 0, m[p[1]][p[3]], p[4]>>
      BY <1>3, <3>4, <3>5
    <3> QED
      BY <3>4, <3>5, <3>6
  <2> QED
    BY <2>2, <2>3
<1>8. \A p \in V : g[p][4] = p[4] /\ g[p][1] \in {p[1], Decoder, Current}
  BY <1>3, <1>4
<1> QED
  BY <1>2, <1>5, <1>6, <1>7, <1>8, CourseMoves

\* What waits, place by place.
LEMMA WorkWaits ==
    ASSUME size \in Sizes, NEW w \in Workers, NEW k, NEW x
    PROVE  /\ Waits(w, 0, k, x) <=> /\ k \in worker[w].rindex + 1 .. Len(worker[w].batch.bufs)
                                    /\ x = content[worker[w].batch.bufs[k]]
           /\ size' = size =>
              (Waits(w, 0, k, x)' <=> /\ k \in worker'[w].rindex + 1 .. Len(worker'[w].batch.bufs)
                                      /\ x = content'[worker'[w].batch.bufs[k]])
<1>1. Waits(w, 0, k, x) <=> /\ k \in worker[w].rindex + 1 .. Len(worker[w].batch.bufs)
                            /\ x = content[worker[w].batch.bufs[k]]
  BY WaitsIs, ZenonT(30)
<1>2. ASSUME size' = size
      PROVE  Waits(w, 0, k, x)' <=> /\ k \in worker'[w].rindex + 1 .. Len(worker'[w].batch.bufs)
                                    /\ x = content'[worker'[w].batch.bufs[k]]
  BY <1>2, WaitsWillBe
<1> QED
  BY <1>1, <1>2

\* The same for the batches of a ring.
LEMMA RingWaits ==
    ASSUME size \in Sizes, NEW w \in Workers, NEW i, i # 0, NEW k, NEW x
    PROVE  /\ Waits(w, i, k, x) <=> /\ i \in 1 .. Len(ring[w].full)
                                    /\ k \in 1 .. Len(ring[w].full[i].bufs)
                                    /\ x = content[ring[w].full[i].bufs[k]]
           /\ size' = size =>
              (Waits(w, i, k, x)' <=> /\ i \in 1 .. Len(ring'[w].full)
                                      /\ k \in 1 .. Len(ring'[w].full[i].bufs)
                                      /\ x = content'[ring'[w].full[i].bufs[k]])
<1>1. Waits(w, i, k, x) <=> /\ i \in 1 .. Len(ring[w].full)
                            /\ k \in 1 .. Len(ring[w].full[i].bufs)
                            /\ x = content[ring[w].full[i].bufs[k]]
  BY WaitsIs
<1>2. ASSUME size' = size
      PROVE  Waits(w, i, k, x)' <=> /\ i \in 1 .. Len(ring'[w].full)
                                    /\ k \in 1 .. Len(ring'[w].full[i].bufs)
                                    /\ x = content'[ring'[w].full[i].bufs[k]]
  BY <1>2, WaitsWillBe
<1> QED
  BY <1>1, <1>2

\* Where nothing changes the same packets wait.
LEMMA SameWaits ==
    ASSUME size \in Sizes, UNCHANGED <<content, size>>, NEW k, NEW x
    PROVE  /\ reader'.cur = reader.cur /\ reader'.rindex = reader.rindex =>
                \A i : Waits(Current, i, k, x)' <=> Waits(Current, i, k, x)
           /\ \A w \in Workers :
                worker'[w].batch.bufs = worker[w].batch.bufs /\ worker'[w].rindex = worker[w].rindex =>
                    (Waits(w, 0, k, x)' <=> Waits(w, 0, k, x))
           /\ \A w \in Workers : ring'[w].full = ring[w].full =>
                \A i : i # 0 => (Waits(w, i, k, x)' <=> Waits(w, i, k, x))
<1>1. ASSUME reader'.cur = reader.cur, reader'.rindex = reader.rindex, NEW i
      PROVE  Waits(Current, i, k, x)' <=> Waits(Current, i, k, x)
  BY <1>1, WaitsIs, WaitsWillBe
<1>2. ASSUME NEW w \in Workers, worker'[w].batch.bufs = worker[w].batch.bufs,
             worker'[w].rindex = worker[w].rindex
      PROVE  Waits(w, 0, k, x)' <=> Waits(w, 0, k, x)
  <2>1. Waits(w, 0, k, x) <=> /\ k \in worker[w].rindex + 1 .. Len(worker[w].batch.bufs)
                              /\ x = content[worker[w].batch.bufs[k]]
    BY WaitsIs, ZenonT(30)
  <2>2. Waits(w, 0, k, x)' <=> /\ k \in worker'[w].rindex + 1 .. Len(worker'[w].batch.bufs)
                               /\ x = content[worker'[w].batch.bufs[k]]
    BY WaitsWillBe
  <2> QED
    BY <1>2, <2>1, <2>2
<1>3. ASSUME NEW w \in Workers, ring'[w].full = ring[w].full, NEW i, i # 0
      PROVE  Waits(w, i, k, x)' <=> Waits(w, i, k, x)
  <2>1. Waits(w, i, k, x) <=> /\ i \in 1 .. Len(ring[w].full)
                              /\ k \in 1 .. Len(ring[w].full[i].bufs)
                              /\ x = content[ring[w].full[i].bufs[k]]
    BY <1>3, WaitsIs
  <2>2. Waits(w, i, k, x)' <=> /\ i \in 1 .. Len(ring'[w].full)
                               /\ k \in 1 .. Len(ring'[w].full[i].bufs)
                               /\ x = content[ring'[w].full[i].bufs[k]]
    <3>1. Waits(w, i, k, x)' <=> /\ i \in 1 .. Len(ring'[w].full)
                                 /\ k \in 1 .. Len(ring'[w].full[i].bufs)
                                 /\ x = content'[ring'[w].full[i].bufs[k]]
      BY <1>3, RingWaits, SMTT(30)
    <3> QED
      BY <3>1
  <2> QED
    BY <1>3, <2>1, <2>2
<1> QED
  BY <1>1, <1>2, <1>3

\* Work on the decoder's batch is unread, other workers do as they did.
LEMMA WorkReadGoes ==
    ASSUME PoolInv, WorkRead, size' = size, NEW w \in Workers, worker'[w].pc # "free",
           w = Decoder => worker'[w].rindex = 0, \A v \in Workers : v # w => worker'[v] = worker[v]
    PROVE  WorkRead'
<1>1. Tables' = Tables /\ Tables \subseteq Workers /\ Decoder \in Workers /\ Decoder \notin Tables
  BY SameSize, SizeTypes DEF PoolInv, Types
<1>2. worker'[Decoder].rindex = 0
  BY <1>1 DEF WorkRead
<1>3. \A t \in Tables : worker'[t].pc = "free" => NothingWaits(t)'
  BY <1>1 DEF WorkRead, At, NothingWaits
<1> QED
  BY <1>1, <1>2, <1>3 DEF WorkRead, At, Decoder

\* The first batch of a ring becomes the batch of its worker, and the others move up.
LEMMA ReceiveOrder == ASSUME OrderInv, NEW w \in Workers, Receive(w) PROVE OrderInv'
<1> DEFINE f == ring[w].full
<1>1. PoolInv'
  BY ReceiveStep DEF OrderInv
<1>2. /\ worker[w].pc = "idle" /\ f # <<>>
      /\ worker' = [worker EXCEPT ![w].pc = "got", ![w].batch = Head(f), ![w].rindex = 0]
      /\ ring' = [ring EXCEPT ![w].full = Tail(@)]
      /\ UNCHANGED <<content, reader, source, handled, dropped, size>>
  BY DEF Receive, At, log
<1>3. /\ size \in Sizes /\ worker \in [Workers -> WorkerRecord] /\ worker[w] \in WorkerRecord
      /\ ring \in [Workers -> RingRecord] /\ ring[w] \in RingRecord /\ f \in Seq(Batch)
  BY DEF OrderInv, PoolInv, Types, RingRecord
<1>4. /\ worker'[w] = [worker[w] EXCEPT !.pc = "got", !.batch = Head(f), !.rindex = 0]
      /\ \A v \in Workers : v # w => worker'[v] = worker[v]
      /\ ring'[w] = [ring[w] EXCEPT !.full = Tail(f)]
      /\ \A v \in Workers : v # w => ring'[v] = ring[v]
  BY <1>2, <1>3
<1>5. /\ worker'[w].pc = "got" /\ worker'[w].batch = Head(f) /\ worker'[w].rindex = 0
      /\ ring'[w].full = Tail(f)
  <2>1. worker'[w].pc = "got" /\ worker'[w].batch = Head(f) /\ worker'[w].rindex = 0
    BY <1>3, <1>4 DEF WorkerRecord
  <2>2. ring'[w].full = Tail(f)
    BY <1>3, <1>4 DEF RingRecord
  <2> QED
    BY <2>1, <2>2
<1>6. worker[w].batch.bufs = <<>> /\ worker[w].rindex \in Nat
  BY <1>2, WorkerTypes DEF OrderInv, PoolInv, Stages, WorkerStage, StageOf
<1>7. /\ Len(f) \in Nat /\ Len(f) >= 1 /\ Len(Tail(f)) = Len(f) - 1 /\ Head(f) = f[1]
      /\ \A i \in 1 .. Len(f) - 1 : Tail(f)[i] = f[i + 1]
  BY <1>2, <1>3
<1> HIDE DEF f
<1>8. size' = size /\ content' = content
  BY <1>2
<1>9. ASSUME NEW i \in Nat, NEW k, NEW x PROVE Waits(w, i, k, x)' <=> Waits(w, i + 1, k, x)
  <2>1. Waits(w, i + 1, k, x) <=> /\ i + 1 \in 1 .. Len(f) /\ k \in 1 .. Len(f[i + 1].bufs)
                                  /\ x = content[f[i + 1].bufs[k]]
    BY <1>3, RingWaits DEF f
  <2>2. CASE i = 0
    <3>1. Waits(w, 0, k, x)' <=> k \in 1 .. Len(f[1].bufs) /\ x = content[f[1].bufs[k]]
      <4>1. Waits(w, 0, k, x)' <=> /\ k \in worker'[w].rindex + 1 .. Len(worker'[w].batch.bufs)
                                   /\ x = content'[worker'[w].batch.bufs[k]]
        BY <1>3, <1>8, WorkWaits
      <4>2. worker'[w].batch.bufs = f[1].bufs
        BY <1>5, <1>7
      <4> QED
        BY <1>5, <1>8, <4>1, <4>2
    <3> QED
      BY <1>7, <2>1, <2>2, <3>1
  <2>3. CASE i # 0
    <3>1. Waits(w, i, k, x)' <=> /\ i \in 1 .. Len(ring'[w].full) /\ k \in 1 .. Len(ring'[w].full[i].bufs)
                                 /\ x = content[ring'[w].full[i].bufs[k]]
      BY <1>3, <1>8, <2>3, RingWaits
    <3>2. Waits(w, i, k, x)' <=> /\ i \in 1 .. Len(f) - 1 /\ k \in 1 .. Len(Tail(f)[i].bufs)
                                 /\ x = content[Tail(f)[i].bufs[k]]
      BY <1>5, <1>7, <3>1
    <3>3. i \in 1 .. Len(f) - 1 <=> i + 1 \in 1 .. Len(f)
      BY <1>7, <2>3
    <3> QED
      BY <1>7, <2>1, <3>2, <3>3
  <2> QED
    BY <2>2, <2>3
<1>10. ASSUME NEW r \in Lines, r # w, NEW i, NEW k, NEW x PROVE Waits(r, i, k, x)' <=> Waits(r, i, k, x)
  <2>1. CASE r = Current
    BY <1>2, <1>3, <2>1, SameWaits
  <2>2. CASE r \in Workers
    <3>1. worker'[r] = worker[r] /\ ring'[r] = ring[r]
      BY <1>4, <1>10, <2>2
    <3>2. CASE i = 0
      BY <1>2, <1>3, <2>2, <3>1, <3>2, SameWaits
    <3>3. CASE i # 0
      BY <1>2, <1>3, <2>2, <3>1, <3>3, SameWaits
    <3> QED
      BY <3>2, <3>3
  <2> QED
    BY <2>1, <2>2 DEF Lines
<1>11. \A p \in Spots : p \in Way' <=> IF p[1] = w THEN <<w, p[2] + 1, p[3], p[4]>> \in Way ELSE p \in Way
  <2> TAKE p \in Spots
  <2>1. p[1] \in Lines /\ p[2] \in Nat /\ p[3] \in Nat /\ p[4] \in Nat
    BY <1>3, SpotTypes
  <2>2. p \in Way' <=> Waits(p[1], p[2], p[3], p[4])'
    BY <1>2, <1>3, WayIs
  <2>3. CASE p[1] = w
    <3> DEFINE q == <<w, p[2] + 1, p[3], p[4]>>
    <3>1. q \in Spots
      BY <2>1, <2>3 DEF Spots
    <3>2. q \in Way <=> Waits(w, p[2] + 1, p[3], p[4])
      BY <1>3, <3>1, WayIs
    <3>3. Waits(w, p[2], p[3], p[4])' <=> Waits(w, p[2] + 1, p[3], p[4])
      BY <1>9, <2>1
    <3> QED
      BY <2>2, <2>3, <3>2, <3>3
  <2>4. CASE p[1] # w
    BY <1>3, <1>10, <2>1, <2>2, <2>4, WayIs
  <2> QED
    BY <2>3, <2>4
<1>12. \A p \in Way : p[1] = w => p[2] # 0
  <2> SUFFICES ASSUME NEW p \in Way, p[1] = w, p[2] = 0 PROVE FALSE
    OBVIOUS
  <2>1. Waits(w, 0, p[3], p[4])
    BY <1>3, WayIs
  <2>2. p[3] \in worker[w].rindex + 1 .. Len(worker[w].batch.bufs)
    BY <1>3, <2>1, WaitsIs
  <2> QED
    BY <1>6, <2>2
<1>13. Course(Way', handled, dropped, Assigned)
  <2>1. Way' \in SUBSET Spots
    BY <1>2, <1>3, WayIs
  <2> QED
    BY <1>3, <1>11, <1>12, <2>1, CourseReceived DEF OrderInv
<1>14. Assigned' = Assigned
  BY <1>2, AssignedIs
<1>15. Course(Way, handled, dropped, Assigned)'
  BY <1>2, <1>13, <1>14, CourseGoes
<1>16. WorkRead'
  BY <1>2, <1>4, <1>5, WorkReadGoes DEF OrderInv
<1>17. OrderTypes'
  BY <1>2, OrderTypesGo DEF OrderInv, OrderTypes
<1> QED
  BY <1>1, <1>15, <1>16, <1>17 DEF OrderInv

\* The packets that wait at workers are in the buffers as they were.
KeptContent ==
    \A w \in Workers :
        /\ \A k \in worker[w].rindex + 1 .. Len(worker[w].batch.bufs) :
                content'[worker[w].batch.bufs[k]] = content[worker[w].batch.bufs[k]]
        /\ \A i \in 1 .. Len(ring[w].full) : \A k \in 1 .. Len(ring[w].full[i].bufs) :
                content'[ring[w].full[i].bufs[k]] = content[ring[w].full[i].bufs[k]]

\* The same packets wait where a worker and its ring stay, and the buffers keep their packets.
LEMMA KeptWaits ==
    ASSUME size \in Sizes, size' = size, KeptContent, NEW w \in Workers, NEW i, NEW k, NEW x,
           worker'[w] = worker[w], i # 0 => ring'[w].full = ring[w].full
    PROVE  Waits(w, i, k, x)' <=> Waits(w, i, k, x)
<1>1. CASE i = 0
  <2>1. Waits(w, 0, k, x) <=> /\ k \in worker[w].rindex + 1 .. Len(worker[w].batch.bufs)
                              /\ x = content[worker[w].batch.bufs[k]]
    BY WorkWaits
  <2>2. Waits(w, 0, k, x)' <=> /\ k \in worker[w].rindex + 1 .. Len(worker[w].batch.bufs)
                               /\ x = content'[worker[w].batch.bufs[k]]
    <3>1. Waits(w, 0, k, x)' <=> /\ k \in worker'[w].rindex + 1 .. Len(worker'[w].batch.bufs)
                                 /\ x = content'[worker'[w].batch.bufs[k]]
      BY WorkWaits
    <3> QED
      BY <3>1
  <2>3. \A j \in worker[w].rindex + 1 .. Len(worker[w].batch.bufs) :
            content'[worker[w].batch.bufs[j]] = content[worker[w].batch.bufs[j]]
    BY DEF KeptContent
  <2> QED
    BY <1>1, <2>1, <2>2, <2>3
<1>2. CASE i # 0
  <2>1. Waits(w, i, k, x) <=> /\ i \in 1 .. Len(ring[w].full)
                              /\ k \in 1 .. Len(ring[w].full[i].bufs)
                              /\ x = content[ring[w].full[i].bufs[k]]
    BY <1>2, RingWaits
  <2>2. Waits(w, i, k, x)' <=> /\ i \in 1 .. Len(ring[w].full)
                               /\ k \in 1 .. Len(ring[w].full[i].bufs)
                               /\ x = content'[ring[w].full[i].bufs[k]]
    <3>1. Waits(w, i, k, x)' <=> /\ i \in 1 .. Len(ring'[w].full)
                                 /\ k \in 1 .. Len(ring'[w].full[i].bufs)
                                 /\ x = content'[ring'[w].full[i].bufs[k]]
      BY <1>2, RingWaits
    <3> QED
      BY <1>2, <3>1
  <2>3. \A n \in 1 .. Len(ring[w].full) : \A j \in 1 .. Len(ring[w].full[n].bufs) :
            content'[ring[w].full[n].bufs[j]] = content[ring[w].full[n].bufs[j]]
    BY DEF KeptContent
  <2> QED
    BY <2>1, <2>2, <2>3
<1> QED
  BY <1>1, <1>2

\* Ring f becomes g, which has a batch l more.
Longer(f, g, l) ==
    Len(f) \in Nat /\ l = Len(f) + 1 /\ Len(g) = l /\ \A i \in 1 .. Len(f) : g[i] = f[i]

\* What waits in a ring with a batch more.
LEMMA LongerWaits ==
    ASSUME size \in Sizes, size' = size, KeptContent, NEW w \in Workers, NEW l,
           Longer(ring[w].full, ring'[w].full, l), NEW k, NEW x
    PROVE  /\ Waits(w, l, k, x)' <=> /\ k \in 1 .. Len(ring'[w].full[l].bufs)
                                     /\ x = content'[ring'[w].full[l].bufs[k]]
           /\ \A i : i # 0 /\ i # l => (Waits(w, i, k, x)' <=> Waits(w, i, k, x))
<1>1. l # 0 /\ l \in 1 .. Len(ring'[w].full)
  BY DEF Longer
<1>2. Waits(w, l, k, x)' <=> /\ l \in 1 .. Len(ring'[w].full) /\ k \in 1 .. Len(ring'[w].full[l].bufs)
                             /\ x = content'[ring'[w].full[l].bufs[k]]
  BY <1>1, RingWaits
<1>3. ASSUME NEW i, i # 0, i # l
      PROVE  Waits(w, i, k, x)' <=> Waits(w, i, k, x)
  <2>1. Waits(w, i, k, x)' <=> /\ i \in 1 .. Len(ring'[w].full) /\ k \in 1 .. Len(ring'[w].full[i].bufs)
                               /\ x = content'[ring'[w].full[i].bufs[k]]
    BY <1>3, RingWaits
  <2>2. Waits(w, i, k, x) <=> /\ i \in 1 .. Len(ring[w].full) /\ k \in 1 .. Len(ring[w].full[i].bufs)
                              /\ x = content[ring[w].full[i].bufs[k]]
    BY <1>3, RingWaits
  <2>3. i \in 1 .. Len(ring'[w].full) <=> i \in 1 .. Len(ring[w].full)
    BY <1>3 DEF Longer
  <2>4. ASSUME i \in 1 .. Len(ring[w].full)
        PROVE  /\ ring'[w].full[i] = ring[w].full[i]
               /\ \A j \in 1 .. Len(ring[w].full[i].bufs) :
                    content'[ring[w].full[i].bufs[j]] = content[ring[w].full[i].bufs[j]]
    BY <2>4 DEF KeptContent, Longer
  <2> QED
    BY <2>1, <2>2, <2>3, <2>4
<1> QED
  BY <1>1, <1>2, <1>3

\* W is the way as it was, where the packets of the reader are those in the buffers B.
WayWith(W, B) ==
    \A p \in Spots : p \in W <=>
        IF p[1] = Current THEN p[2] = 0 /\ p[3] \in 1 .. Len(B) /\ p[4] = content'[B[p[3]]]
        ELSE Waits(p[1], p[2], p[3], p[4])

\* The reader sends the buffers B on.
Sends(B) ==
    /\ ring' = [ring EXCEPT ![Decoder] = Filled(@, [NoBatch EXCEPT !.bufs = B])]
    /\ reader'.rindex = 0 /\ worker' = worker /\ size' = size

\* The packets of the reader are the last batch of the ring of the decoder.
LEMMA WaySent ==
    ASSUME PoolInv, KeptContent, NEW B \in Seq(Buffer), Sends(B),
           NEW W \in SUBSET Spots, NEW h, NEW d, NEW a, Course(W, h, d, a), WayWith(W, B)
    PROVE  Course(Way', h, d, a)
<1> DEFINE b == [NoBatch EXCEPT !.bufs = B]
<1>1. /\ size \in Sizes /\ ring \in [Workers -> RingRecord] /\ Decoder \in Workers
      /\ ring[Decoder] \in RingRecord /\ size' = size /\ worker' = worker
  BY SizeTypes DEF PoolInv, Types, Sends
<1>2. b \in Batch /\ b.bufs = B
  <2>1. NoBatch \in Batch
    BY DEF NoBatch, Batch
  <2> QED
    BY <2>1 DEF Batch
<1>3. /\ ring'[Decoder].full = Append(ring[Decoder].full, b) /\ ring[Decoder].full \in Seq(Batch)
      /\ \A w \in Workers : w # Decoder => ring'[w] = ring[w]
  BY <1>1 DEF RingRecord, Filled, Sends
<1> HIDE DEF b
<1>4. PICK n \in Nat, l \in Nat : n = Len(ring[Decoder].full) /\ l = n + 1
  BY <1>3
<1>5. Longer(ring[Decoder].full, ring'[Decoder].full, l) /\ ring'[Decoder].full[l] = b
  <2>1. ASSUME NEW f \in Seq(Batch), Len(f) = n PROVE Longer(f, Append(f, b), l) /\ Append(f, b)[l] = b
    BY <1>2, <1>4, <2>1 DEF Longer
  <2> QED
    BY <1>3, <1>4, <2>1
<1>6. PICK dec \in Workers : dec = Decoder
  BY <1>1
<1>7. ASSUME NEW k, NEW x
      PROVE  Waits(dec, l, k, x)' <=> k \in 1 .. Len(B) /\ x = content'[B[k]]
  <2>1. Longer(ring[dec].full, ring'[dec].full, l) /\ ring'[dec].full[l].bufs = B
    BY <1>2, <1>5, <1>6
  <2>2. Waits(dec, l, k, x)' <=> /\ k \in 1 .. Len(ring'[dec].full[l].bufs)
                                 /\ x = content'[ring'[dec].full[l].bufs[k]]
    BY <1>1, <2>1, LongerWaits
  <2> QED
    BY <2>1, <2>2
<1>8. ASSUME NEW i, i # 0, i # l, NEW k, NEW x
      PROVE  Waits(dec, i, k, x)' <=> Waits(dec, i, k, x)
  <2>1. Longer(ring[dec].full, ring'[dec].full, l)
    BY <1>5, <1>6
  <2> QED
    BY <1>1, <1>8, <2>1, LongerWaits
<1>9. ASSUME NEW w \in Workers, NEW i \in Nat, w # Decoder \/ i = 0, NEW k, NEW x
      PROVE  Waits(w, i, k, x)' <=> Waits(w, i, k, x)
  BY <1>1, <1>3, <1>9, KeptWaits
<1>10. \A i, k, x : ~Waits(Current, i, k, x)'
  BY <1>1, WaitsWillBe DEF Sends
<1>11. \A p \in Spots : p \in Way' <=>
            IF p[1] = Decoder /\ p[2] = l THEN <<Current, 0, p[3], p[4]>> \in W
            ELSE p[1] # Current /\ p \in W
  <2> TAKE p \in Spots
  <2>1. p[2] \in Nat /\ p[3] \in Nat /\ p[4] \in Nat /\ (p[1] = Current \/ p[1] \in Workers)
    BY <1>1, SpotTypes
  <2>2. p \in Way' <=> Waits(p[1], p[2], p[3], p[4])'
    BY <1>1, WayIs
  <2>3. CASE p[1] = Decoder /\ p[2] = l
    <3> DEFINE q == <<Current, 0, p[3], p[4]>>
    <3>1. q \in Spots
      BY <1>1, <2>1, LineNumbers DEF Spots
    <3>2. q \in W <=> p[3] \in 1 .. Len(B) /\ p[4] = content'[B[p[3]]]
      BY <3>1 DEF WayWith
    <3>3. Waits(p[1], p[2], p[3], p[4])' <=> p[3] \in 1 .. Len(B) /\ p[4] = content'[B[p[3]]]
      BY <1>6, <1>7, <2>3
    <3> QED
      BY <2>2, <2>3, <3>2, <3>3
  <2>4. CASE p[1] = Current
    BY <1>1, <1>10, <2>2, <2>4, LineNumbers
  <2>5. CASE p[1] \in Workers /\ ~(p[1] = Decoder /\ p[2] = l)
    <3>1. p[1] # Current
      BY <1>1, <2>5, SizeTypes
    <3>2. Waits(p[1], p[2], p[3], p[4])' <=> Waits(p[1], p[2], p[3], p[4])
      BY <1>6, <1>8, <1>9, <2>1, <2>5
    <3> QED
      BY <2>2, <2>5, <3>1, <3>2 DEF WayWith
  <2> QED
    BY <2>1, <2>3, <2>4, <2>5
<1>12. \A p \in W : /\ p[1] = Decoder => p[2] <= n
                    /\ p[1] = Current => p[2] = 0
  <2> TAKE p \in W
  <2>1. p[2] \in Nat
    BY <1>1, SpotTypes
  <2>2. ASSUME p[1] = Decoder, p[2] # 0 PROVE p[2] <= n
    <3>1. Waits(dec, p[2], p[3], p[4])
      BY <1>1, <1>6, <2>2, LineNumbers DEF WayWith
    <3>2. p[2] \in 1 .. Len(ring[Decoder].full)
      BY <1>1, <1>6, <2>2, <3>1, RingWaits
    <3> QED
      BY <1>4, <3>2
  <2> QED
    BY <1>2, <2>1, <2>2 DEF WayWith
<1>13. Way' \in SUBSET Spots
  BY <1>1, WayIs
<1> QED
  BY <1>1, <1>4, <1>11, <1>12, <1>13, CourseSent

\* What is written of the current batch is sent on.
LEMMA FinalizedOrder ==
    ASSUME OrderInv, PoolInv', NEW q \in {"next", "close"}, reader.pc = "read", FinalizeWritten(q),
           size' = size, source' \in SourceRecord, source'.packets = source.packets
    PROVE  OrderInv'
<1> DEFINE B == SubSeq(reader.cur, 1, reader.rindex)
<1>1. /\ ring' = [ring EXCEPT ![Decoder] = Filled(@, [NoBatch EXCEPT !.bufs = B])]
      /\ reader' = [reader EXCEPT !.pc = q, !.cur = <<>>, !.rindex = 0]
      /\ UNCHANGED <<content, worker, handled, dropped>>
  BY DEF FinalizeWritten, log
<1>2. PoolInv /\ size \in Sizes /\ reader \in ReaderRecord
  BY DEF OrderInv, PoolInv, Types
<1>3. reader'.pc = q /\ reader'.rindex = 0
  BY <1>1, <1>2 DEF ReaderRecord
<1>4. Sends(B)
  BY <1>1, <1>3 DEF Sends
<1>5. PICK n \in Nat, s \in Seq(Buffer) : n = reader.rindex /\ s = reader.cur /\ n <= Len(s)
  <2>1. reader.rindex \in Nat /\ reader.cur \in Seq(Buffer)
    BY <1>2 DEF ReaderRecord
  <2>2. reader.rindex <= Len(reader.cur)
    BY <1>2, <2>1, SizeTypes DEF PoolInv, Stages, ReaderStage
  <2> QED
    BY <2>1, <2>2
<1>6. B \in Seq(Buffer) /\ Len(B) = n /\ \A k \in 1 .. n : B[k] = s[k]
  BY <1>5
<1> HIDE DEF B
<1>7. KeptContent
  BY <1>1 DEF KeptContent
<1>8. WayWith(Way, B)
  <2> SUFFICES ASSUME NEW p \in Spots
               PROVE  p \in Way <=>
                        IF p[1] = Current THEN p[2] = 0 /\ p[3] \in 1 .. Len(B) /\ p[4] = content'[B[p[3]]]
                        ELSE Waits(p[1], p[2], p[3], p[4])
    BY DEF WayWith
  <2>1. p \in Way <=> Waits(p[1], p[2], p[3], p[4])
    BY <1>2, WayIs
  <2>2. CASE p[1] = Current
    <3>1. Waits(Current, p[2], p[3], p[4]) <=> p[2] = 0 /\ p[3] \in 1 .. n /\ p[4] = content[s[p[3]]]
      BY <1>2, <1>5, WaitsIs
    <3> QED
      BY <1>1, <1>6, <2>1, <2>2, <3>1
  <2>3. CASE p[1] # Current
    BY <2>1, <2>3
  <2> QED
    BY <2>2, <2>3
<1>9. Way \in SUBSET Spots
  BY <1>2, WayIs
<1>10. Course(Way', handled, dropped, Assigned)
  BY <1>2, <1>4, <1>6, <1>7, <1>8, <1>9, WaySent DEF OrderInv
<1>11. Assigned' = Assigned
  BY <1>3, AssignedIs DEF Holding
<1>12. Course(Way, handled, dropped, Assigned)'
  BY <1>1, <1>10, <1>11, CourseGoes
<1>13. WorkRead'
  BY <1>1, <1>2, WorkReadStays DEF OrderInv, SteadyWork
<1>14. OrderTypes'
  BY <1>1, OrderTypesGo DEF OrderInv, OrderTypes
<1> QED
  BY <1>12, <1>13, <1>14 DEF OrderInv

\* A timeout of the source sends the current batch on.
LEMMA TimeoutOrder == ASSUME OrderInv, Timeout PROVE OrderInv'
<1>1. PoolInv'
  BY TimeoutStep DEF OrderInv
<1>2. /\ reader.pc = "read" /\ FinalizeWritten("next") /\ size' = size
      /\ source' = [source EXCEPT !.timeouts = @ + 1]
  BY DEF Timeout, Reading, FinalizeWritten
<1>3. source' \in SourceRecord /\ source'.packets = source.packets
  BY <1>2 DEF OrderInv, OrderTypes, SourceRecord
<1> QED
  BY <1>1, <1>2, <1>3, FinalizedOrder

\* The end of the source sends the current batch on, or there is none.
LEMMA SourceEndsOrder == ASSUME OrderInv, SourceEnds PROVE OrderInv'
<1>1. PoolInv'
  BY SourceEndsStep DEF OrderInv
<1>2. CASE reader.cur # <<>>
  <2>1. reader.pc = "read" /\ FinalizeWritten("close") /\ size' = size /\ source' = source
    BY <1>2 DEF SourceEnds, Reading, FinalizeWritten
  <2>2. source' \in SourceRecord
    BY <2>1 DEF OrderInv, OrderTypes
  <2> QED
    BY <1>1, <2>1, <2>2, FinalizedOrder
<1>3. CASE reader.cur = <<>>
  <2>1. /\ reader.pc = "read" /\ GoTo("close")
        /\ UNCHANGED <<content, worker, source, handled, dropped, size, ring>>
    BY <1>3 DEF SourceEnds, Reading, log
  <2>2. "close" \in ReaderPlaces /\ ~Holding("close") /\ ~Holding("read")
    BY DEF ReaderPlaces, Holding
  <2> QED
    BY <1>1, <2>1, <2>2, GoingOrder
<1> QED
  BY <1>2, <1>3

\* A buffer that the reader has not written holds no packet that waits at a worker.
LEMMA UnwrittenIdle ==
    ASSUME OrderInv, NEW j \in 1 .. Len(reader.cur), j > reader.rindex, NEW x,
           content' = [content EXCEPT ![reader.cur[j]] = x]
    PROVE  KeptContent
<1> DEFINE b == reader.cur[j]
<1>1. b \in Buffer /\ ~Live(b)
  BY Unwritten DEF OrderInv
<1>2. \A r \in Workers : \A i \in Nat : b \notin Part(r, i)
  BY <1>1 DEF Live
<1>3. content \in [Buffer -> Nat] /\ PoolInv /\ size \in Sizes
  BY DEF OrderInv, OrderTypes, PoolInv, Types
<1>4. \A c \in Buffer : c # b => content'[c] = content[c]
  BY <1>3
<1> HIDE DEF b
<1>5. ASSUME NEW w \in Workers, NEW k \in worker[w].rindex + 1 .. Len(worker[w].batch.bufs)
      PROVE  worker[w].batch.bufs[k] # b /\ worker[w].batch.bufs[k] \in Buffer
  <2>1. /\ worker[w].batch.bufs \in Seq(Buffer) /\ worker[w].rindex \in Nat
        /\ StageOf(w, worker[w])
    BY <1>3, WorkerTypes
  <2>2. k \in 1 .. Len(worker[w].batch.bufs)
    BY <2>1
  <2>3. ~At(w, "free")
    <3>1. CASE w = Decoder
      <4>1. worker[w].batch.bufs # <<>>
        BY <2>2
      <4> QED
        BY <2>1, <3>1, <4>1 DEF StageOf, At
    <3>2. CASE w \in Tables
      <4>1. ~NothingWaits(w)
        BY <1>3, NoneWaits
      <4> QED
        BY <3>2, <4>1 DEF OrderInv, WorkRead
    <3> QED
      BY <1>3, <3>1, <3>2, SizeTypes
  <2>4. worker[w].batch.bufs[k] \in Elements(worker[w].batch.bufs)
    BY <2>2 DEF Elements
  <2>5. worker[w].batch.bufs[k] \in Part(w, 0)
    BY <2>3, <2>4, PartIs
  <2> QED
    BY <1>2, <2>1, <2>2, <2>5
<1>6. ASSUME NEW w \in Workers, NEW i \in 1 .. Len(ring[w].full),
             NEW k \in 1 .. Len(ring[w].full[i].bufs)
      PROVE  ring[w].full[i].bufs[k] # b /\ ring[w].full[i].bufs[k] \in Buffer
  <2>1. ring[w].full \in Seq(Batch)
    BY <1>3 DEF PoolInv, Types, RingRecord
  <2>2. ring[w].full[i] \in Batch
    BY <2>1
  <2>3. ring[w].full[i].bufs \in Seq(Buffer)
    BY <2>2 DEF Batch
  <2>4. ring[w].full[i].bufs[k] \in Elements(ring[w].full[i].bufs)
    BY DEF Elements
  <2>5. i \in Nat \ {0} /\ i <= Len(ring[w].full)
    BY <2>1
  <2>6. ring[w].full[i].bufs[k] \in Part(w, i)
    BY <2>4, <2>5, LineOf
  <2> QED
    BY <1>2, <2>3, <2>5, <2>6
<1>7. \A w \in Workers : \A k \in worker[w].rindex + 1 .. Len(worker[w].batch.bufs) :
        content'[worker[w].batch.bufs[k]] = content[worker[w].batch.bufs[k]]
  BY <1>4, <1>5
<1>8. \A w \in Workers : \A i \in 1 .. Len(ring[w].full) : \A k \in 1 .. Len(ring[w].full[i].bufs) :
        content'[ring[w].full[i].bufs[k]] = content[ring[w].full[i].bufs[k]]
  BY <1>4, <1>6
<1> QED
  BY <1>7, <1>8 DEF KeptContent

\* The packet that was read goes to the next buffer; it is the last on its way.
LEMMA AssignOrder == ASSUME OrderInv, Assign PROVE OrderInv'
<1>1. PoolInv' /\ PoolInv /\ size \in Sizes /\ reader \in ReaderRecord
  BY AssignStep DEF OrderInv, PoolInv, Types
<1>2. PICK s \in Seq(Buffer), k \in Nat \ {0}, x \in Nat :
        s = reader.cur /\ k = reader.rindex + 1 /\ k <= Len(s) /\ x = source.packets
  <2>1. reader.rindex \in Nat /\ reader.cur \in Seq(Buffer)
    BY <1>1 DEF ReaderRecord
  <2>2. reader.rindex < Len(reader.cur)
    BY DEF Assign
  <2>3. source.packets \in Nat
    BY DEF OrderInv, OrderTypes, SourceRecord
  <2> QED
    BY <2>1, <2>2, <2>3
<1>3. /\ reader.pc = "assign" /\ content' = [content EXCEPT ![s[k]] = x]
      /\ UNCHANGED <<worker, source, handled, dropped, size>>
  BY <1>2 DEF Assign, Reading, log
<1>4. k \in 1 .. Len(s) /\ s[k] \in Buffer /\ Injective(s)
  BY <1>1, <1>2 DEF PoolInv, Stages, ReaderStage
<1>5. content \in [Buffer -> Nat] /\ content' \in [Buffer -> Nat]
  BY <1>3, <1>4 DEF OrderInv, OrderTypes
<1>6. content'[s[k]] = x /\ \A j \in 1 .. k - 1 : content'[s[j]] = content[s[j]]
  <2>1. \A j \in 1 .. k - 1 : j \in 1 .. Len(s) /\ j # k
    BY <1>2, <1>4
  <2>2. \A j \in 1 .. k - 1 : s[j] # s[k] /\ s[j] \in Buffer
    BY <1>4, <2>1 DEF Injective
  <2> QED
    BY <1>3, <1>4, <1>5, <2>2
<1>7. KeptContent
  <2>1. k \in 1 .. Len(reader.cur) /\ k > reader.rindex
    <3>1. reader.rindex \in Nat
      BY <1>1 DEF ReaderRecord
    <3> QED
      BY <1>2, <1>4, <3>1
  <2> QED
    BY <1>2, <1>3, <2>1, UnwrittenIdle
<1>8. PICK a \in Nat : a = Assigned /\ x = a + 1
  <2>1. Assigned = x - 1
    BY <1>2, <1>3, AssignedIs DEF Holding
  <2>2. Assigned \in Nat
    BY DEF OrderInv, Course
  <2> QED
    BY <1>2, <2>1, <2>2
<1>9. PICK p0 \in Spots : /\ p0[1] = Current /\ p0[2] = 0 /\ p0[3] = k /\ p0[4] = x
                          /\ p0 = <<Current, 0, k, x>>
  <2>1. <<Current, 0, k, x>> \in Spots
    BY <1>1, LineNumbers DEF Spots
  <2> QED
    BY <2>1
<1>10. PICK W : W = Way \cup {p0}
  OBVIOUS
<1>11. Way \in SUBSET Spots /\ W \in SUBSET Spots
  BY <1>1, <1>10, WayIs
<1>12. \A p \in Way : p[1] = Current => p[2] = 0 /\ p[3] \in 1 .. k - 1
  <2> SUFFICES ASSUME NEW p \in Way, p[1] = Current PROVE p[2] = 0 /\ p[3] \in 1 .. k - 1
    OBVIOUS
  <2>1. Waits(Current, p[2], p[3], p[4])
    BY <1>1, <1>11, WayIs
  <2>2. p[2] = 0 /\ p[3] \in 1 .. reader.rindex
    BY <1>1, <2>1, WaitsIs
  <2>3. reader.rindex = k - 1
    BY <1>1, <1>2 DEF ReaderRecord
  <2> QED
    BY <2>2, <2>3
<1>13. Course(W, handled, dropped, x)
  <2>1. ~Earlier(p0, p0)
    BY <1>1, <1>9, LineNumbers DEF Earlier
  <2>2. \A p \in Way : ~Earlier(p0, p)
    <3> TAKE p \in Way
    <3>1. p[1] # Current => ~Earlier(p0, p)
      BY <1>1, <1>9, LineNumbers DEF Earlier
    <3>2. p[1] = Current => ~Earlier(p0, p)
      BY <1>1, <1>9, <1>12, LineNumbers DEF Earlier
    <3> QED
      BY <3>1, <3>2
  <2>3. Course(Way, handled, dropped, a)
    BY <1>8 DEF OrderInv
  <2>4. Course(Way \cup {p0}, handled, dropped, a + 1)
    BY <1>8, <1>9, <2>1, <2>2, <2>3, CourseBegins
  <2> QED
    BY <1>8, <1>10, <2>4
<1>14. \A p \in Spots : p \in W <=>
            IF p[1] = Current THEN p[2] = 0 /\ p[3] \in 1 .. k /\ p[4] = content'[s[p[3]]]
            ELSE Waits(p[1], p[2], p[3], p[4])
  <2> TAKE p \in Spots
  <2>1. p \in Way <=> Waits(p[1], p[2], p[3], p[4])
    BY <1>1, WayIs
  <2>2. CASE p[1] # Current
    BY <1>9, <1>10, <2>1, <2>2
  <2>3. CASE p[1] = Current
    <3>1. reader.rindex = k - 1
      BY <1>1, <1>2 DEF ReaderRecord
    <3>2. p \in Way <=> p[2] = 0 /\ p[3] \in 1 .. k - 1 /\ p[4] = content[s[p[3]]]
      <4>1. Waits(Current, p[2], p[3], p[4]) <=> p[2] = 0 /\ p[3] \in 1 .. reader.rindex
                                                 /\ p[4] = content[reader.cur[p[3]]]
        BY <1>1, WaitsIs
      <4> QED
        BY <1>2, <2>1, <2>3, <3>1, <4>1
    <3>3. p = p0 <=> p[2] = 0 /\ p[3] = k /\ p[4] = x
      BY <1>1, <1>9, <2>3, SpotTypes
    <3>4. p[3] \in 1 .. k <=> p[3] \in 1 .. k - 1 \/ p[3] = k
      BY <1>2
    <3> QED
      BY <1>6, <1>10, <2>3, <3>2, <3>3, <3>4
  <2> QED
    BY <2>2, <2>3
<1>15. Course(Way', handled, dropped, x) /\ reader'.pc \in {"next", "read"}
  <2>1. CASE k = Len(s)
    <3>1. /\ ring' = [ring EXCEPT ![Decoder] = Filled(@, [NoBatch EXCEPT !.bufs = s])]
          /\ reader' = [reader EXCEPT !.pc = "next", !.cur = <<>>, !.rindex = 0]
      BY <1>2, <2>1 DEF Assign
    <3>2. reader'.rindex = 0 /\ reader'.pc = "next"
      BY <1>1, <3>1 DEF ReaderRecord
    <3>3. Sends(s)
      BY <1>3, <3>1, <3>2 DEF Sends
    <3>4. WayWith(W, s)
      BY <1>14, <2>1 DEF WayWith
    <3> QED
      BY <1>1, <1>7, <1>11, <1>13, <3>2, <3>3, <3>4, WaySent
  <2>2. CASE k # Len(s)
    <3>1. ring' = ring /\ reader' = [reader EXCEPT !.pc = "read", !.rindex = @ + 1]
      BY <1>2, <2>2 DEF Assign
    <3>2. reader'.rindex = k /\ reader'.pc = "read" /\ reader'.cur = s
      BY <1>1, <1>2, <3>1 DEF ReaderRecord
    <3>3. \A p \in Spots : p \in Way' <=> p \in W
      <4> TAKE p \in Spots
      <4>1. p[2] \in Nat /\ (p[1] = Current \/ p[1] \in Workers)
        BY <1>1, SpotTypes
      <4>2. p \in Way' <=> Waits(p[1], p[2], p[3], p[4])'
        BY <1>1, <1>3, WayIs
      <4>3. CASE p[1] = Current
        <5>1. Waits(Current, p[2], p[3], p[4])' <=>
                p[2] = 0 /\ p[3] \in 1 .. k /\ p[4] = content'[s[p[3]]]
          BY <1>1, <1>3, <3>2, WaitsWillBe
        <5> QED
          BY <1>14, <4>2, <4>3, <5>1
      <4>4. CASE p[1] \in Workers
        <5>1. p[1] # Current
          BY <1>1, <4>4, SizeTypes
        <5>2. Waits(p[1], p[2], p[3], p[4])' <=> Waits(p[1], p[2], p[3], p[4])
          BY <1>1, <1>3, <1>7, <3>1, <4>4, KeptWaits
        <5> QED
          BY <1>14, <4>2, <5>1, <5>2
      <4> QED
        BY <4>1, <4>3, <4>4
    <3>4. Way' \in SUBSET Spots
      BY <1>1, <1>3, WayIs
    <3>5. Way' = W
      BY <1>11, <3>3, <3>4
    <3> QED
      BY <1>13, <3>2, <3>5
  <2> QED
    BY <2>1, <2>2
<1>16. Assigned' = x
  BY <1>2, <1>3, <1>15, AssignedIs DEF Holding
<1>17. Course(Way, handled, dropped, Assigned)'
  BY <1>3, <1>15, <1>16, CourseGoes
<1>18. WorkRead'
  BY <1>1, <1>3, WorkReadStays DEF OrderInv, SteadyWork
<1>19. OrderTypes'
  BY <1>3, <1>5, OrderTypesGo DEF OrderInv, OrderTypes
<1> QED
  BY <1>1, <1>17, <1>18, <1>19 DEF OrderInv

\* The packets that the decoder does not discard keep their order.
LEMMA DecodeOrder == ASSUME OrderInv, Decode PROVE OrderInv'
<1>1. PoolInv' /\ PoolInv /\ size \in Sizes /\ Decoder \in Workers
  BY DecodeStep, SizeTypes DEF OrderInv, PoolInv, Types
<1>2. PICK D \in SUBSET Elements(worker[Decoder].batch.bufs) :
        /\ worker' = [worker EXCEPT ![Decoder].pc = "event", ![Decoder].discard = D,
                        ![Decoder].batch.bufs = Only(@, Elements(@) \ D)]
        /\ dropped' = dropped \cup {content[b] : b \in D}
  BY DEF Decode
<1>3. /\ ring' = [ring EXCEPT ![Decoder].count = @ - 1, ![Decoder].empty = @ + 1]
      /\ UNCHANGED <<content, reader, source, handled, size>>
  BY DEF Decode
<1>4. PICK dec \in Workers : dec = Decoder
  BY <1>1
<1>5. /\ worker \in [Workers -> WorkerRecord] /\ worker[dec] \in WorkerRecord
      /\ worker[dec].batch \in Batch /\ worker[dec].rindex = 0
  BY <1>1, <1>4, WorkerTypes DEF OrderInv, WorkRead
<1>6. PICK s \in Seq(Buffer) : s = worker[dec].batch.bufs
  BY <1>1, WorkerTypes
<1>7. PICK r \in Seq(Buffer) : r = Only(s, Elements(s) \ D)
  BY OnlyHolds
<1>8. PICK m : Picks(s, Elements(s) \ D, r, Len(s), m)
  BY <1>7, OnlyPicks
<1>9. PICK l \in Nat, k \in Nat : l = Len(r) /\ k = Len(s)
  OBVIOUS
<1>10. /\ m \in [1 .. l -> 1 .. k] /\ \A i, j \in 1 .. l : i < j => m[i] < m[j]
       /\ \A i \in 1 .. l : r[i] = s[m[i]] /\ s[m[i]] \notin D
       /\ \A j \in 1 .. k : s[j] \notin D => \E i \in 1 .. l : m[i] = j
  <2>1. \A j \in 1 .. k : s[j] \in Elements(s)
    BY <1>9 DEF Elements
  <2> QED
    BY <1>8, <1>9, <2>1 DEF Picks
<1>11. /\ worker'[dec].batch.bufs = r /\ worker'[dec].rindex = 0 /\ worker'[dec].pc = "event"
       /\ \A v \in Workers : v # dec => worker'[v] = worker[v]
  <2>1. PICK c : c = [worker[dec].batch EXCEPT !.bufs = r]
    OBVIOUS
  <2>2. c \in Batch /\ c.bufs = r
    BY <1>5, <2>1 DEF Batch
  <2>3. worker' = [worker EXCEPT ![dec] = [worker[dec] EXCEPT !.pc = "event", !.discard = D, !.batch = c]]
    BY <1>2, <1>4, <1>5, <1>6, <1>7, <2>1
  <2>4. worker'[dec] = [worker[dec] EXCEPT !.pc = "event", !.discard = D, !.batch = c]
    BY <1>5, <2>3
  <2>5. worker'[dec].batch.bufs = r
    BY <1>5, <2>2, <2>4 DEF WorkerRecord
  <2>6. worker'[dec].rindex = 0 /\ worker'[dec].pc = "event"
    BY <1>5, <2>4 DEF WorkerRecord
  <2>7. \A v \in Workers : v # dec => worker'[v] = worker[v]
    BY <1>5, <2>3
  <2> QED
    BY <2>5, <2>6, <2>7
<1>12. \A w \in Workers : ring'[w].full = ring[w].full
  BY <1>1, <1>3 DEF PoolInv, Types, RingRecord
<1>13. D \in SUBSET Elements(s)
  BY <1>4, <1>6
<1>14. size' = size /\ content' = content /\ reader' = reader
  BY <1>3
<1>15. PICK S : S = {p \in Way : p[1] = dec /\ p[2] = 0 /\ s[p[3]] \in D}
  OBVIOUS
<1>16. ASSUME NEW p \in Spots, p[1] = dec, p[2] = 0
       PROVE  /\ p \in Way <=> p[3] \in 1 .. k /\ p[4] = content[s[p[3]]]
              /\ p \in Way' <=> p[3] \in 1 .. l /\ p[4] = content[r[p[3]]]
  <2>1. Waits(dec, 0, p[3], p[4]) <=> p[3] \in 0 + 1 .. k /\ p[4] = content[s[p[3]]]
    BY <1>1, <1>5, <1>6, <1>9, WorkWaits
  <2>2. Waits(dec, 0, p[3], p[4])' <=> p[3] \in 0 + 1 .. l /\ p[4] = content[r[p[3]]]
    BY <1>1, <1>9, <1>11, <1>14, WorkWaits
  <2>3. p \in Way <=> Waits(dec, 0, p[3], p[4])
    BY <1>1, <1>16, WayIs
  <2>4. p \in Way' <=> Waits(dec, 0, p[3], p[4])'
    BY <1>1, <1>14, <1>16, WayIs
  <2> QED
    BY <2>1, <2>2, <2>3, <2>4
<1>17. ASSUME NEW p \in Spots, ~(p[1] = dec /\ p[2] = 0) PROVE p \in Way' <=> p \in Way
  <2>1. p \in Way <=> Waits(p[1], p[2], p[3], p[4])
    BY <1>1, WayIs
  <2>2. p \in Way' <=> Waits(p[1], p[2], p[3], p[4])'
    BY <1>1, <1>14, WayIs
  <2>3. p[1] = Current \/ p[1] \in Workers
    BY <1>1, SpotTypes
  <2>4. CASE p[1] = Current
    BY <1>1, <1>14, <2>1, <2>2, <2>4, SameWaits
  <2>5. CASE p[1] \in Workers /\ p[2] # 0
    BY <1>1, <1>12, <1>14, <2>1, <2>2, <2>5, SameWaits
  <2>6. CASE p[1] \in Workers /\ p[1] # dec /\ p[2] = 0
    <3>1. worker'[p[1]] = worker[p[1]]
      BY <1>11, <2>6
    <3> QED
      BY <1>1, <1>14, <2>1, <2>2, <2>6, <3>1, SameWaits
  <2> QED
    BY <1>17, <2>3, <2>4, <2>5, <2>6
<1>18. Way \in SUBSET Spots /\ Way' \in SUBSET Spots /\ S \in SUBSET Way
  BY <1>1, <1>14, <1>15, WayIs
<1>19. dropped' = dropped \cup Packets(S)
  <2>1. ASSUME NEW b \in D PROVE content[b] \in Packets(S)
    <3>1. PICK j \in 1 .. k : s[j] = b
      BY <1>9, <1>13 DEF Elements
    <3>2. content[b] \in Nat
      BY <1>13, ElementsAre DEF OrderInv, OrderTypes
    <3> DEFINE p == <<dec, 0, j, content[b]>>
    <3>3. p \in Spots
      BY <1>1, <3>2, LineNumbers DEF Spots
    <3>4. p \in Way
      BY <1>16, <3>1, <3>3
    <3>5. p \in S
      BY <1>15, <3>1, <3>4
    <3> QED
      BY <3>5 DEF Packets
  <2>2. ASSUME NEW p \in S PROVE \E b \in D : p[4] = content[b]
    <3>1. p \in Spots /\ p \in Way /\ p[1] = dec /\ p[2] = 0 /\ s[p[3]] \in D
      BY <1>15, <1>18
    <3> QED
      BY <1>16, <3>1
  <2>3. Packets(S) = {content[b] : b \in D}
    BY <2>1, <2>2 DEF Packets
  <2> QED
    BY <1>2, <2>3
<1>20. PICK W : W = Way \ S
  OBVIOUS
<1>21. Course(W, handled, dropped', Assigned)
  BY <1>18, <1>19, <1>20, CourseDrops DEF OrderInv
<1>22. \A p \in W : p[1] = Decoder /\ p[2] = 0 => \E i \in 1 .. l : m[i] = p[3]
  <2> SUFFICES ASSUME NEW p \in W, p[1] = dec, p[2] = 0 PROVE \E i \in 1 .. l : m[i] = p[3]
    BY <1>4
  <2>1. p \in Spots /\ p \in Way /\ s[p[3]] \notin D
    BY <1>15, <1>18, <1>20
  <2>2. p[3] \in 1 .. k
    BY <1>16, <2>1
  <2> QED
    BY <1>10, <2>1, <2>2
<1>23. \A p \in Spots : p \in Way' <=>
            IF p[1] = Decoder /\ p[2] = 0 THEN p[3] \in 1 .. l /\ <<Decoder, 0, m[p[3]], p[4]>> \in W
            ELSE p \in W
  <2> TAKE p \in Spots
  <2>1. CASE p[1] = dec /\ p[2] = 0
    <3>1. p \in Way' <=> p[3] \in 1 .. l /\ p[4] = content[r[p[3]]]
      BY <1>16, <2>1
    <3>2. ASSUME p[3] \in 1 .. l
          PROVE  <<dec, 0, m[p[3]], p[4]>> \in W <=> p[4] = content[r[p[3]]]
      <4> DEFINE q == <<dec, 0, m[p[3]], p[4]>>
      <4>1. m[p[3]] \in 1 .. k /\ r[p[3]] = s[m[p[3]]] /\ s[m[p[3]]] \notin D
        BY <1>10, <3>2
      <4>2. q \in Spots
        <5>1. m[p[3]] \in Nat /\ p[4] \in Nat /\ dec \in Lines
          BY <1>1, <4>1, SpotTypes, LineNumbers
        <5> QED
          BY <5>1 DEF Spots
      <4>3. q \in Way <=> p[4] = content[s[m[p[3]]]]
        BY <1>16, <4>1, <4>2
      <4>4. q \notin S
        BY <1>15, <4>1
      <4> QED
        BY <1>20, <4>1, <4>3, <4>4
    <3> QED
      BY <1>4, <2>1, <3>1, <3>2
  <2>2. CASE ~(p[1] = dec /\ p[2] = 0)
    <3>1. p \notin S
      BY <1>15, <2>2
    <3> QED
      BY <1>4, <1>17, <1>20, <2>2, <3>1
  <2> QED
    BY <2>1, <2>2
<1>24. m \in [1 .. l -> Nat] /\ \A i, j \in 1 .. l : i < j => m[i] < m[j]
  BY <1>10
<1>25. Course(Way', handled, dropped', Assigned)
  BY <1>1, <1>18, <1>21, <1>22, <1>23, <1>24, CoursePicked
<1>26. Assigned' = Assigned
  BY <1>3, AssignedIs
<1>27. Course(Way, handled, dropped, Assigned)'
  <2>1. PICK d : d = dropped'
    OBVIOUS
  <2> QED
    BY <1>3, <1>25, <1>26, <2>1, CourseGoes
<1>28. WorkRead'
  BY <1>1, <1>4, <1>11, <1>14, WorkReadGoes DEF OrderInv
<1>29. OrderTypes'
  <2>1. dropped' \in SUBSET Nat
    <3>1. \A b \in D : content[b] \in Nat
      BY <1>13, ElementsAre DEF OrderInv, OrderTypes
    <3> QED
      BY <1>2, <3>1 DEF OrderInv, OrderTypes
  <2> QED
    BY <1>3, <2>1, OrderTypesGo DEF OrderInv, OrderTypes
<1> QED
  BY <1>1, <1>27, <1>28, <1>29 DEF OrderInv

\* The packets of the decoder's batch go to the tables, each in its order.
LEMMA EventOrder == ASSUME OrderInv, Event PROVE OrderInv'
<1>1. PoolInv' /\ PoolInv /\ size \in Sizes /\ WorkRead
  BY EventStep DEF OrderInv, PoolInv, Types
<1>2. /\ Decoder \in Workers /\ Decoder \notin Tables /\ Tables \subseteq Workers
      /\ \A w \in Workers : w = Decoder \/ w \in Tables
  BY <1>1, SizeTypes
<1>3. PICK dec \in Workers : dec = Decoder
  BY <1>2
<1>4. PICK s \in Seq(Buffer) : s = worker[dec].batch.bufs
  BY <1>1, WorkerTypes
<1> DEFINE bufs == worker[Decoder].batch.bufs
<1>5. PICK expire \in BOOLEAN, to \in [Elements(bufs) -> Tables] :
        /\ ring' = [r \in Workers |->
                        IF r = Decoder THEN ring[r]
                        ELSE [Filled(ring[r], [bufs |-> Only(bufs, {b \in Elements(bufs) : to[b] = r}),
                                               expire |-> expire]) EXCEPT !.empty = @ - 1]]
        /\ source' = IF expire THEN [source EXCEPT !.expires = @ + 1] ELSE source
        /\ worker' = [worker EXCEPT ![Decoder].batch = NoBatch,
                            ![Decoder].pc = IF expire /\ WaitsForExpiry THEN "expiry" ELSE "discard"]
  BY DEF Event, Forward
<1>6. UNCHANGED <<content, reader, handled, dropped, size>>
  BY DEF Event, log
<1>7. PICK K : K = [t \in Tables |-> {b \in Elements(s) : to[b] = t}]
  OBVIOUS
<1>8. PICK part : part = [t \in Tables |-> Only(s, K[t])]
  OBVIOUS
<1>9. \A t \in Tables : part[t] \in Seq(Buffer)
  BY <1>8, OnlyHolds
<1>10. PICK m : m = [t \in Tables |-> CHOOSE o : Picks(s, K[t], part[t], Len(s), o)]
  OBVIOUS
<1>11. \A t \in Tables : Picks(s, K[t], part[t], Len(s), m[t])
  <2> TAKE t \in Tables
  <2>1. \E o : Picks(s, K[t], Only(s, K[t]), Len(s), o)
    BY OnlyPicks
  <2>2. \E o : Picks(s, K[t], part[t], Len(s), o)
    BY <1>8, <2>1
  <2> QED
    BY <1>10, <2>2
<1>12. PICK l \in [Tables -> Nat] : \A t \in Tables : l[t] = Len(part[t])
  <2>1. [t \in Tables |-> Len(part[t])] \in [Tables -> Nat]
    BY <1>9
  <2> QED
    BY <2>1
<1>13. \A t \in Workers : ring[t] \in RingRecord /\ ring[t].full \in Seq(Batch)
  BY <1>1 DEF PoolInv, Types, RingRecord
<1>14. PICK n \in [Tables -> Nat] : \A t \in Tables : n[t] = Len(ring[t].full)
  <2>1. [t \in Tables |-> Len(ring[t].full)] \in [Tables -> Nat]
    BY <1>2, <1>13
  <2> QED
    BY <2>1
<1>15. PICK z \in [Tables -> Nat] : \A t \in Tables : z[t] = n[t] + 1
  <2>1. [t \in Tables |-> n[t] + 1] \in [Tables -> Nat]
    OBVIOUS
  <2> QED
    BY <2>1
<1>16. \A t \in Tables : /\ Longer(ring[t].full, ring'[t].full, z[t])
                         /\ ring'[t].full[z[t]].bufs = part[t]
  <2> TAKE t \in Tables
  <2>1. PICK b \in Batch : b = [bufs |-> part[t], expire |-> expire]
    BY <1>9 DEF Batch
  <2>2. ring'[t].full = Append(ring[t].full, b)
    <3>1. Only(bufs, {c \in Elements(bufs) : to[c] = t}) = part[t]
      BY <1>3, <1>4, <1>7, <1>8
    <3>2. ring'[t] = [Filled(ring[t], b) EXCEPT !.empty = @ - 1]
      BY <1>2, <1>5, <2>1, <3>1
    <3> QED
      BY <1>2, <1>13, <3>2 DEF Filled, RingRecord
  <2>3. ASSUME NEW f \in Seq(Batch), Len(f) = n[t]
        PROVE  Longer(f, Append(f, b), z[t]) /\ Append(f, b)[z[t]] = b
    BY <1>14, <1>15, <2>3 DEF Longer
  <2>4. b.bufs = part[t]
    BY <2>1
  <2>5. ring[t].full \in Seq(Batch) /\ Len(ring[t].full) = n[t]
    BY <1>2, <1>13, <1>14
  <2>6. /\ Longer(ring[t].full, Append(ring[t].full, b), z[t])
        /\ Append(ring[t].full, b)[z[t]] = b
    BY <2>3, <2>5
  <2> QED
    BY <2>2, <2>4, <2>6
<1>17. ring'[dec] = ring[dec]
  BY <1>2, <1>3, <1>5
<1>18. /\ worker'[dec].batch.bufs = <<>> /\ worker'[dec].rindex = 0 /\ worker'[dec].pc # "free"
       /\ \A v \in Workers : v # dec => worker'[v] = worker[v]
  <2>1. PICK q \in {"expiry", "discard"} :
            worker' = [worker EXCEPT ![dec].batch = NoBatch, ![dec].pc = q]
    BY <1>3, <1>5
  <2>2. worker \in [Workers -> WorkerRecord] /\ worker[dec] \in WorkerRecord
    BY <1>1, WorkerTypes
  <2>3. worker'[dec] = [worker[dec] EXCEPT !.batch = NoBatch, !.pc = q]
    BY <2>1, <2>2
  <2>4. worker'[dec].batch = NoBatch /\ worker'[dec].rindex = 0 /\ worker'[dec].pc = q
    BY <1>1, <1>3, <2>2, <2>3 DEF WorkerRecord, WorkRead
  <2> QED
    BY <2>1, <2>2, <2>4 DEF NoBatch
<1>19. KeptContent
  BY <1>6 DEF KeptContent
<1>20. size' = size
  BY <1>6
<1>21. ASSUME NEW p \in Spots, p[1] = dec, p[2] = 0
       PROVE  p \notin Way' /\ (p \in Way <=> p[3] \in 1 .. Len(s) /\ p[4] = content[s[p[3]]])
  <2>1. Waits(dec, 0, p[3], p[4]) <=> p[3] \in 0 + 1 .. Len(s) /\ p[4] = content[s[p[3]]]
    BY <1>1, <1>3, <1>4, WorkWaits DEF WorkRead
  <2>2. Waits(dec, 0, p[3], p[4])' <=>
            /\ p[3] \in worker'[dec].rindex + 1 .. Len(worker'[dec].batch.bufs)
            /\ p[4] = content'[worker'[dec].batch.bufs[p[3]]]
    BY <1>1, <1>20, WorkWaits
  <2>3. worker'[dec].rindex + 1 .. Len(worker'[dec].batch.bufs) = {}
    BY <1>18
  <2>4. p \in Way <=> Waits(dec, 0, p[3], p[4])
    BY <1>1, <1>21, WayIs
  <2>5. p \in Way' <=> Waits(dec, 0, p[3], p[4])'
    BY <1>1, <1>20, <1>21, WayIs
  <2> QED
    BY <2>1, <2>2, <2>3, <2>4, <2>5
<1>22. ASSUME NEW p \in Spots, p[1] \in Tables, p[2] = z[p[1]]
       PROVE  p \notin Way /\ (p \in Way' <=> p[3] \in 1 .. l[p[1]] /\ p[4] = content[part[p[1]][p[3]]])
  <2>1. PICK t \in Workers, i \in Nat : t = p[1] /\ i = p[2] /\ t \in Tables
    BY <1>1, <1>2, <1>22, SpotTypes
  <2>2. Longer(ring[t].full, ring'[t].full, i) /\ ring'[t].full[i].bufs = part[t]
    BY <1>16, <1>22, <2>1
  <2>3. Waits(t, i, p[3], p[4])' <=> /\ p[3] \in 1 .. Len(ring'[t].full[i].bufs)
                                     /\ p[4] = content'[ring'[t].full[i].bufs[p[3]]]
    BY <1>1, <1>19, <1>20, <2>2, LongerWaits
  <2>4. p \in Way' <=> Waits(t, i, p[3], p[4])'
    BY <1>1, <1>20, <2>1, WayIs
  <2>5. i # 0 /\ i \notin 1 .. Len(ring[t].full)
    BY <2>2 DEF Longer
  <2>6. ~Waits(t, i, p[3], p[4])
    BY <1>1, <2>5, RingWaits
  <2>7. p \in Way <=> Waits(t, i, p[3], p[4])
    BY <1>1, <2>1, WayIs
  <2> QED
    BY <1>6, <1>12, <2>1, <2>2, <2>3, <2>4, <2>6, <2>7
<1>23. ASSUME NEW p \in Spots, ~(p[1] = dec /\ p[2] = 0), ~(p[1] \in Tables /\ p[2] = z[p[1]])
       PROVE  p \in Way' <=> p \in Way
  <2>1. p \in Way <=> Waits(p[1], p[2], p[3], p[4])
    BY <1>1, WayIs
  <2>2. p \in Way' <=> Waits(p[1], p[2], p[3], p[4])'
    BY <1>1, <1>20, WayIs
  <2>3. CASE p[1] = Current
    BY <1>1, <1>6, <2>1, <2>2, <2>3, SameWaits
  <2>4. CASE p[1] = dec
    BY <1>1, <1>6, <1>17, <1>23, <2>1, <2>2, <2>4, SameWaits
  <2>5. CASE p[1] \in Tables /\ p[2] = 0
    <3>1. p[1] \in Workers /\ p[1] # dec
      BY <1>2, <1>3, <2>5
    <3>2. worker'[p[1]] = worker[p[1]]
      BY <1>18, <3>1
    <3> QED
      BY <1>1, <1>6, <2>1, <2>2, <2>5, <3>1, <3>2, SameWaits
  <2>6. CASE p[1] \in Tables /\ p[2] # 0
    <3>1. PICK t \in Workers, i \in Nat, j \in Nat : t = p[1] /\ i = p[2] /\ t \in Tables /\ j = z[t]
      BY <1>1, <1>2, <2>6, SpotTypes
    <3>2. Longer(ring[t].full, ring'[t].full, j) /\ i # j /\ i # 0
      BY <1>16, <1>23, <2>6, <3>1
    <3>3. ASSUME NEW k, NEW x PROVE Waits(t, i, k, x)' <=> Waits(t, i, k, x)
      BY <1>1, <1>19, <1>20, <3>2, LongerWaits
    <3> QED
      BY <2>1, <2>2, <3>1, <3>3
  <2> QED
    BY <1>1, <1>2, <1>3, <2>3, <2>4, <2>5, <2>6, SpotTypes
<1>24. Way \in SUBSET Spots /\ Way' \in SUBSET Spots
  BY <1>1, <1>20, WayIs
<1>25. Shares(Way, l, m)
  <2>1. \A t \in Tables : /\ m[t] \in [1 .. l[t] -> Nat]
                          /\ \A i \in 1 .. l[t] : s[m[t][i]] \in Elements(s) /\ to[s[m[t][i]]] = t
                          /\ \A i, j \in 1 .. l[t] : i < j => m[t][i] < m[t][j]
    <3> TAKE t \in Tables
    <3>1. Picks(s, K[t], part[t], Len(s), m[t]) /\ l[t] = Len(part[t])
      BY <1>11, <1>12
    <3>2. K[t] = {b \in Elements(s) : to[b] = t}
      BY <1>7
    <3>3. /\ m[t] \in [1 .. l[t] -> 1 .. Len(s)] /\ \A i \in 1 .. l[t] : s[m[t][i]] \in K[t]
          /\ \A i, j \in 1 .. l[t] : i < j => m[t][i] < m[t][j]
      BY <3>1 DEF Picks
    <3>4. m[t] \in [1 .. l[t] -> Nat]
      BY <1>4, <3>3
    <3> QED
      BY <3>2, <3>3, <3>4
  <2>2. ASSUME NEW p \in Way, p[1] = Decoder, p[2] = 0
        PROVE  \E t \in Tables : \E i \in 1 .. l[t] : m[t][i] = p[3]
    <3>1. p[3] \in 1 .. Len(s)
      BY <1>3, <1>21, <1>24, <2>2
    <3>2. PICK t \in Tables : t = to[s[p[3]]] /\ s[p[3]] \in K[t]
      BY <1>3, <1>4, <1>7, <3>1 DEF Elements
    <3>3. Picks(s, K[t], part[t], Len(s), m[t]) /\ l[t] = Len(part[t])
      BY <1>11, <1>12
    <3>4. \A j \in 1 .. Len(s) : s[j] \in K[t] => \E i \in 1 .. l[t] : m[t][i] = j
      BY <3>3 DEF Picks
    <3> QED
      BY <3>1, <3>2, <3>4
  <2>3. ASSUME NEW t \in Tables, NEW u \in Tables, NEW i \in 1 .. l[t], NEW j \in 1 .. l[u],
               m[t][i] = m[u][j]
        PROVE  t = u
    <3>1. to[s[m[t][i]]] = t /\ to[s[m[u][j]]] = u
      BY <2>1
    <3> QED
      BY <2>3, <3>1
  <2>4. \A t \in Tables : /\ m[t] \in [1 .. l[t] -> Nat]
                          /\ \A i, j \in 1 .. l[t] : i < j => m[t][i] < m[t][j]
    BY <2>1
  <2>5. \A p \in Way : p[1] = Decoder /\ p[2] = 0 =>
            \E t \in Tables : \E i \in 1 .. l[t] : m[t][i] = p[3]
    BY <2>2
  <2>6. \A t, u \in Tables : \A i \in 1 .. l[t] : \A j \in 1 .. l[u] : m[t][i] = m[u][j] => t = u
    BY <2>3
  <2> QED
    BY <2>4, <2>5, <2>6 DEF Shares
<1>26. SharedOut(Way, n, l, m, Way')
  <2>1. ASSUME NEW p \in Way, p[1] \in Tables PROVE p[2] <= n[p[1]]
    <3>1. PICK t \in Workers, i \in Nat : t = p[1] /\ i = p[2] /\ t \in Tables
      BY <1>1, <1>2, <1>24, <2>1, SpotTypes
    <3>2. Waits(t, i, p[3], p[4])
      BY <1>1, <1>24, <3>1, WayIs
    <3>3. i # 0 => i \in 1 .. Len(ring[t].full)
      BY <1>1, <3>2, RingWaits
    <3> QED
      BY <1>14, <3>1, <3>3
  <2>2. ASSUME NEW p \in Spots, p[1] \in Tables, p[2] = z[p[1]]
        PROVE  p \in Way' <=> p[3] \in 1 .. l[p[1]] /\ <<Decoder, 0, m[p[1]][p[3]], p[4]>> \in Way
    <3> SUFFICES ASSUME p[3] \in 1 .. l[p[1]]
                 PROVE  <<dec, 0, m[p[1]][p[3]], p[4]>> \in Way <=> p[4] = content[part[p[1]][p[3]]]
      BY <1>3, <1>22, <2>2
    <3> DEFINE q == <<dec, 0, m[p[1]][p[3]], p[4]>>
    <3>1. m[p[1]][p[3]] \in 1 .. Len(s) /\ part[p[1]][p[3]] = s[m[p[1]][p[3]]]
      BY <1>11, <1>12, <2>2, SMTT(30) DEF Picks
    <3>2. q \in Spots
      <4>1. m[p[1]][p[3]] \in Nat /\ p[4] \in Nat /\ dec \in Lines
        BY <1>1, <1>4, <3>1, SpotTypes, LineNumbers
      <4> QED
        BY <4>1 DEF Spots
    <3>3. q \in Way <=> p[4] = content[s[m[p[1]][p[3]]]]
      BY <1>21, <3>1, <3>2
    <3> QED
      BY <3>1, <3>3
  <2>3. \A p \in Spots : p \in Way' <=>
            IF p[1] \in Tables /\ p[2] = n[p[1]] + 1
            THEN p[3] \in 1 .. l[p[1]] /\ <<Decoder, 0, m[p[1]][p[3]], p[4]>> \in Way
            ELSE ~(p[1] = Decoder /\ p[2] = 0) /\ p \in Way
    BY <1>2, <1>3, <1>15, <1>21, <1>23, <2>2
  <2> QED
    BY <2>1, <2>3 DEF SharedOut
<1>27. Course(Way', handled, dropped, Assigned)
  BY <1>1, <1>24, <1>25, <1>26, CourseShared DEF OrderInv
<1>28. source' \in SourceRecord /\ source'.packets = source.packets
  <2>1. source' = source \/ source' = [source EXCEPT !.expires = @ + 1]
    BY <1>5
  <2>2. source \in SourceRecord
    BY DEF OrderInv, OrderTypes
  <2>3. source.expires + 1 \in Nat
    BY <2>2 DEF SourceRecord
  <2> QED
    BY <2>1, <2>2, <2>3 DEF SourceRecord
<1>29. Course(Way, handled, dropped, Assigned)'
  <2>1. Assigned' = Assigned
    BY <1>6, <1>28, AssignedIs
  <2> QED
    BY <1>6, <1>27, <2>1, CourseGoes
<1>30. WorkRead'
  BY <1>1, <1>3, <1>18, <1>20, WorkReadGoes
<1>31. OrderTypes'
  BY <1>6, <1>28, OrderTypesGo DEF OrderInv, OrderTypes
<1> QED
  BY <1>1, <1>29, <1>30, <1>31 DEF OrderInv

\* A table handles the packet that is first in its line.
LEMMA HandlePacketOrder == ASSUME OrderInv, NEW t \in Tables, HandlePacket(t) PROVE OrderInv'
<1>1. PoolInv' /\ PoolInv /\ size \in Sizes /\ WorkRead /\ OrderTypes
  BY HandlePacketStep DEF OrderInv, PoolInv, Types
<1>2. /\ t \in Workers /\ t # Decoder /\ t # Current
      /\ worker \in [Workers -> WorkerRecord] /\ worker[t] \in WorkerRecord
  BY <1>1, SizeTypes, WorkerTypes
<1>3. PICK s \in Seq(Buffer) : s = worker[t].batch.bufs
  BY <1>1, <1>2, WorkerTypes
<1>4. PICK j \in Nat, k \in Nat : j = worker[t].rindex /\ k = j + 1
  BY <1>2 DEF WorkerRecord
<1>5. /\ worker[t].pc = "events" /\ k \in 1 .. Len(s)
      /\ handled' = [handled EXCEPT ![t] = Append(@, content[s[k]])]
      /\ worker' = [worker EXCEPT ![t] = [worker[t] EXCEPT !.rindex = k]]
      /\ UNCHANGED <<content, reader, ring, source, dropped, size>>
  <2>1. /\ worker[t].pc = "events" /\ worker[t].rindex < Len(worker[t].batch.bufs)
        /\ UNCHANGED <<content, reader, ring, source, dropped, size>>
    BY DEF HandlePacket, At
  <2>2. handled' = [handled EXCEPT ![t] = Append(@, content[worker[t].batch.bufs[worker[t].rindex + 1]])]
    BY DEF HandlePacket
  <2>3. worker' = [worker EXCEPT ![t] = [worker[t] EXCEPT !.rindex = worker[t].rindex + 1]]
    BY <1>2 DEF HandlePacket
  <2>4. PICK l \in Nat : l = Len(s)
    OBVIOUS
  <2>5. k \in 1 .. l
    BY <1>3, <1>4, <2>1, <2>4
  <2> QED
    BY <1>3, <1>4, <2>1, <2>2, <2>3, <2>4, <2>5
<1>6. PICK x \in Nat : x = content[s[k]]
  BY <1>1, <1>3, <1>5, SMTT(30) DEF OrderTypes
<1>7. PICK p \in Spots : p = <<t, 0, k, x>>
  <2>1. t \in Lines
    BY <1>1, LineNumbers
  <2> QED
    BY <2>1 DEF Spots
<1>8. /\ worker'[t].batch.bufs = s /\ worker'[t].rindex = k /\ worker'[t].pc = "events"
      /\ \A v \in Workers : v # t => worker'[v] = worker[v]
  <2>1. worker'[t] = [worker[t] EXCEPT !.rindex = k]
    BY <1>2, <1>5
  <2> QED
    BY <1>2, <1>3, <1>5, <2>1 DEF WorkerRecord
<1>9. ASSUME NEW q \in Spots, q[1] = t, q[2] = 0
      PROVE  /\ q \in Way <=> q[3] \in k .. Len(s) /\ q[4] = content[s[q[3]]]
             /\ q \in Way' <=> q[3] \in k + 1 .. Len(s) /\ q[4] = content[s[q[3]]]
  <2>1. Waits(t, 0, q[3], q[4]) <=> q[3] \in k .. Len(s) /\ q[4] = content[s[q[3]]]
    BY <1>1, <1>2, <1>3, <1>4, WorkWaits
  <2>2. Waits(t, 0, q[3], q[4])' <=> q[3] \in k + 1 .. Len(s) /\ q[4] = content[s[q[3]]]
    <3>1. Waits(t, 0, q[3], q[4])' <=> q[3] \in k + 1 .. Len(s) /\ q[4] = content'[s[q[3]]]
      BY <1>1, <1>2, <1>5, <1>8, WorkWaits
    <3> QED
      BY <1>5, <3>1
  <2> QED
    BY <1>1, <1>5, <1>9, <2>1, <2>2, WayIs
<1>10. ASSUME NEW q \in Spots, ~(q[1] = t /\ q[2] = 0) PROVE q \in Way' <=> q \in Way
  <2>1. q \in Way <=> Waits(q[1], q[2], q[3], q[4])
    BY <1>1, WayIs
  <2>2. q \in Way' <=> Waits(q[1], q[2], q[3], q[4])'
    BY <1>1, <1>5, WayIs
  <2>3. CASE q[1] = Current
    BY <1>1, <1>5, <2>1, <2>2, <2>3, SameWaits
  <2>4. CASE q[1] \in Workers /\ q[2] # 0
    BY <1>1, <1>5, <2>1, <2>2, <2>4, SameWaits
  <2>5. CASE q[1] \in Workers /\ q[1] # t /\ q[2] = 0
    <3>1. worker'[q[1]] = worker[q[1]]
      BY <1>8, <2>5
    <3> QED
      BY <1>1, <1>5, <2>1, <2>2, <2>5, <3>1, SameWaits
  <2> QED
    BY <1>1, <1>10, <2>3, <2>4, <2>5, SpotTypes
<1>11. p \in Way
  BY <1>5, <1>6, <1>7, <1>9
<1>12. Way' = Way \ {p}
  <2>1. ASSUME NEW q \in Spots PROVE q \in Way' <=> q \in Way /\ q # p
    <3>1. CASE q[1] = t /\ q[2] = 0
      <4>1. q = p <=> q[3] = k /\ q[4] = x
        BY <1>1, <1>7, <3>1, SpotTypes
      <4>2. PICK i \in Nat : i = q[3]
        BY <1>1, SpotTypes
      <4>3. PICK l \in Nat : l = Len(s)
        OBVIOUS
      <4>4. i \in k + 1 .. l <=> i \in k .. l /\ i # k
        BY <1>4, <4>2, <4>3, SMTT(30)
      <4>5. q \in Way <=> i \in k .. l /\ q[4] = content[s[i]]
        BY <1>9, <3>1, <4>2, <4>3
      <4>6. q \in Way' <=> i \in k + 1 .. l /\ q[4] = content[s[i]]
        BY <1>9, <3>1, <4>2, <4>3
      <4>7. q = p <=> i = k /\ q[4] = content[s[k]]
        BY <1>6, <4>1, <4>2
      <4> QED
        BY <4>4, <4>5, <4>6, <4>7
    <3>2. CASE ~(q[1] = t /\ q[2] = 0)
      BY <1>7, <1>10, <3>2
    <3> QED
      BY <3>1, <3>2
  <2>2. Way \in SUBSET Spots /\ Way' \in SUBSET Spots
    BY <1>1, <1>5, WayIs
  <2> QED
    BY <2>1, <2>2
<1>13. \A q \in Way : q[1] = t => q = p \/ Earlier(p, q)
  <2> SUFFICES ASSUME NEW q \in Way, q[1] = t, q # p PROVE Earlier(p, q)
    OBVIOUS
  <2>1. q \in Spots
    BY <1>1, WayIs
  <2>2. q[2] \in Nat /\ q[3] \in Nat /\ q = <<t, q[2], q[3], q[4]>>
    BY <1>1, <2>1, SpotTypes
  <2>3. CASE q[2] = 0
    <3>1. q[3] \in k .. Len(s) /\ q[4] = content[s[q[3]]]
      BY <1>9, <2>1, <2>3
    <3>2. q[3] # k
      BY <1>6, <1>7, <2>2, <2>3, <3>1
    <3>3. k < q[3]
      BY <1>3, <2>2, <3>1, <3>2
    <3> QED
      BY <1>7, <2>3, <3>3 DEF Earlier
  <2>4. CASE q[2] # 0
    <3>1. 0 < q[2]
      BY <2>2, <2>4
    <3> QED
      BY <1>7, <3>1 DEF Earlier
  <2> QED
    BY <2>3, <2>4
<1>14. Course(Way \ {p}, [handled EXCEPT ![t] = Append(@, p[4])], dropped, Assigned)
  <2>1. handled \in [Tables -> Seq(Nat)] /\ p[1] = t
    BY <1>1, <1>7 DEF OrderTypes
  <2>2. Course(Way, handled, dropped, Assigned)
    BY DEF OrderInv
  <2> QED
    BY <1>11, <1>13, <2>1, <2>2, CourseHandles, ZenonT(30)
<1>15. Course(Way, handled, dropped, Assigned)'
  <2>1. Assigned' = Assigned
    BY <1>5, AssignedIs
  <2>2. handled' = [handled EXCEPT ![t] = Append(@, p[4])]
    BY <1>5, <1>6, <1>7
  <2> QED
    BY <1>5, <1>12, <1>14, <2>1, <2>2, CourseGoes
<1>16. WorkRead'
  BY <1>1, <1>2, <1>5, <1>8, WorkReadGoes
<1>17. OrderTypes'
  <2>1. handled' \in [Tables -> Seq(Nat)]
    <3>1. handled[t] \in Seq(Nat)
      BY <1>1 DEF OrderTypes
    <3>2. Append(handled[t], x) \in Seq(Nat)
      BY <3>1, AppendHolds
    <3>3. handled' = [handled EXCEPT ![t] = Append(handled[t], x)]
      BY <1>1, <1>5, <1>6 DEF OrderTypes
    <3> QED
      BY <1>1, <3>2, <3>3 DEF OrderTypes
  <2> QED
    BY <1>1, <1>5, <2>1, OrderTypesGo DEF OrderTypes
<1> QED
  BY <1>1, <1>15, <1>16, <1>17 DEF OrderInv

--------------------------------------------------------------------------------
(* 11. The theorem                                                           *)

\* At the start no packet was read.
LEMMA OrderInit == Init => OrderInv
<1> SUFFICES ASSUME Init PROVE OrderInv
  OBVIOUS
<1>1. PoolInv /\ size \in Sizes
  BY PoolInit DEF Init
<1>2. /\ reader.rindex = 0 /\ reader.pc = "read"
      /\ source = [packets |-> 0, timeouts |-> 0, expires |-> 0]
      /\ content = [b \in Buffer |-> 0] /\ handled = [t \in Tables |-> <<>>] /\ dropped = {}
  BY DEF Init
<1>3. \A w \in Workers : /\ ring[w].full = <<>> /\ worker[w].batch.bufs = <<>>
                         /\ worker[w].rindex = 0 /\ worker[w].pc = "idle"
  BY DEF Init, NoBatch
<1>4. OrderTypes
  BY <1>2 DEF OrderTypes, SourceRecord
<1>5. WorkRead
  BY <1>1, <1>3, SizeTypes DEF WorkRead, At
<1>6. Way = {}
  <2> SUFFICES ASSUME NEW r, NEW i, NEW k, NEW x, Waits(r, i, k, x) PROVE FALSE
    BY DEF Way
  <2>1. ASSUME NEW w \in Workers
        PROVE  Len(ring[w].full) = 0 /\ worker[w].rindex + 1 .. Len(worker[w].batch.bufs) = {}
    BY <1>3
  <2>2. 1 .. 0 = {} /\ 1 .. reader.rindex = {}
    BY <1>2
  <2> QED
    BY <2>1, <2>2 DEF Waits
<1>7. \A t \in Tables : Elements(handled[t]) = {} /\ Len(handled[t]) = 0
  BY <1>2 DEF Elements
<1>8. Assigned = 0
  BY <1>2 DEF Assigned
<1>9. Done(handled) = {}
  BY <1>7 DEF Done
<1>10. Settled(handled, dropped)
  <2>1. \A t \in Tables : 1 .. Len(handled[t]) - 1 = {}
    BY <1>7
  <2>2. \A t, u \in Tables : Elements(handled[t]) \cap Elements(handled[u]) = {}
    BY <1>7
  <2>3. \A t \in Tables : Elements(handled[t]) \cap dropped = {}
    BY <1>7
  <2> QED
    BY <2>1, <2>2, <2>3 DEF Settled
<1>11. Course({}, handled, {}, 0)
  <2>1. Packets({}) = {} /\ 1 .. 0 = {}
    BY DEF Packets
  <2> QED
    BY <1>2, <1>9, <1>10, <2>1 DEF Course, Sorted, Distinct, Pending, Follows
<1> QED
  BY <1>1, <1>2, <1>4, <1>5, <1>6, <1>8, <1>11 DEF OrderInv

\* Nothing happens.
LEMMA OrderStutter == ASSUME OrderInv, UNCHANGED vars PROVE OrderInv'
<1>1. PoolInv'
  BY PoolStutter DEF OrderInv
<1>2. UNCHANGED <<content, reader, ring, worker, source, handled, dropped, size>>
  BY DEF vars
<1>3. SteadyReader
  BY <1>2 DEF SteadyReader
<1> QED
  BY <1>1, <1>2, <1>3, ReaderOrder

\* Every step keeps the packets in their course.
LEMMA OrderStep == ASSUME OrderInv, [Next]_vars PROVE OrderInv'
<1>1. CASE UNCHANGED vars
  BY <1>1, OrderStutter
<1>2. CASE ReadPacket \/ Timeout \/ SourceEnds
  BY <1>2, ReadPacketOrder, TimeoutOrder, SourceEndsOrder
<1>3. CASE Reader
  BY <1>3, AssignOrder, NextBatchOrder, ClosingOrder, EOFOrder, PlainOrder, PopOrder, ScanOrder
  DEF Reader
<1>4. CASE Decoding
  <2>1. Decoder \in Workers
    BY SizeTypes DEF OrderInv, PoolInv, Types
  <2> QED
    BY <1>4, <2>1, DecodeOrder, EventOrder, GoesOrder, DiscardOrder DEF Decoding
<1>5. CASE \E w \in Workers : Receive(w) \/ RingClosed(w)
  BY <1>5, ReceiveOrder, GoesOrder
<1>6. CASE \E t \in Tables : TableStep(t)
  <2> SUFFICES ASSUME NEW t \in Tables, TableStep(t) PROVE OrderInv'
    BY <1>6
  <2>1. t \in Workers
    BY SizeTypes DEF OrderInv, PoolInv, Types
  <2> QED
    BY <2>1, StartOrder, HandlePacketOrder, TableOrder, BatchFreeOrder, GoesOrder DEF TableStep
<1> QED
  BY <1>1, <1>2, <1>3, <1>4, <1>5, <1>6 DEF Next, Goroutines

\* Packets stay in the order in which they were read, on their way and at the tables, and
\* none is lost or handled twice.
THEOREM OrderInvariance == Spec => []OrderInv
<1>1. Init => OrderInv
  BY OrderInit
<1>2. OrderInv /\ [Next]_vars => OrderInv'
  BY OrderStep
<1> QED
  BY <1>1, <1>2, PTL DEF Spec

\* The packets of the way are those that are under way.
LEMMA WayIsUnderWay == ASSUME OrderInv PROVE Packets(Way) = UnderWay
<1>1. PoolInv /\ size \in Sizes /\ OrderTypes
  BY DEF OrderInv, PoolInv, Types
<1>2. \A x : x \in UnderWay <=>
          \/ x \in {content[reader.cur[k]] : k \in 1 .. reader.rindex}
          \/ \E e \in Enqueued : x \in Waiting(ring[e[1]].full[e[2]].bufs, 1)
          \/ \E w \in Workers : x \in Waiting(worker[w].batch.bufs, worker[w].rindex + 1)
  <2> DEFINE A == {content[reader.cur[k]] : k \in 1 .. reader.rindex}
             B == UNION {Waiting(ring[e[1]].full[e[2]].bufs, 1) : e \in Enqueued}
             C == UNION {Waiting(worker[w].batch.bufs, worker[w].rindex + 1) : w \in Workers}
  <2>1. \A x : x \in B <=> \E e \in Enqueued : x \in Waiting(ring[e[1]].full[e[2]].bufs, 1)
    OBVIOUS
  <2>2. \A x : x \in C <=> \E w \in Workers : x \in Waiting(worker[w].batch.bufs, worker[w].rindex + 1)
    OBVIOUS
  <2>3. UnderWay = A \cup B \cup C
    BY DEF UnderWay
  <2>4. \A x : x \in A <=> x \in {content[reader.cur[k]] : k \in 1 .. reader.rindex}
    OBVIOUS
  <2> HIDE DEF A, B, C
  <2>5. \A x : x \in UnderWay <=> x \in A \/ x \in B \/ x \in C
    BY <2>3
  <2> QED
    BY <2>1, <2>2, <2>4, <2>5
<1>3. ASSUME NEW p \in Way PROVE p[4] \in UnderWay
  <2>1. PICK r, i, k, x : Waits(r, i, k, x) /\ x = p[4]
    BY DEF Way
  <2>2. CASE r = Current /\ i = 0 /\ k \in 1 .. reader.rindex /\ x = content[reader.cur[k]]
    BY <1>2, <2>1, <2>2
  <2>3. CASE /\ r \in Workers /\ k \in worker[r].rindex + 1 .. Len(worker[r].batch.bufs)
             /\ x = content[worker[r].batch.bufs[k]]
    <3>1. x \in Waiting(worker[r].batch.bufs, worker[r].rindex + 1)
      BY <2>3 DEF Waiting
    <3> QED
      BY <1>2, <2>1, <2>3, <3>1
  <2>4. CASE /\ r \in Workers /\ i \in 1 .. Len(ring[r].full) /\ k \in 1 .. Len(ring[r].full[i].bufs)
             /\ x = content[ring[r].full[i].bufs[k]]
    <3> DEFINE e == <<r, i>>
    <3>1. e \in Enqueued
      BY <2>4 DEF Enqueued
    <3>2. x \in Waiting(ring[e[1]].full[e[2]].bufs, 1)
      BY <2>4 DEF Waiting
    <3> HIDE DEF e
    <3> QED
      BY <1>2, <2>1, <3>1, <3>2
  <2> QED
    BY <2>1, <2>2, <2>3, <2>4 DEF Waits
<1>4. ASSUME NEW r \in Lines, NEW i \in Nat, NEW k \in Nat, NEW b \in Buffer, Waits(r, i, k, content[b])
      PROVE  content[b] \in Packets(Way)
  <2> DEFINE p == <<r, i, k, content[b]>>
  <2>1. p \in Spots
    BY <1>1 DEF OrderTypes, Spots
  <2>2. p \in Way
    BY <1>4, <2>1 DEF Way
  <2> QED
    BY <2>2 DEF Packets
<1>5. Current \in Lines /\ Workers \subseteq Lines
  BY <1>1, LineNumbers
<1>6. ASSUME NEW x \in UnderWay PROVE x \in Packets(Way)
  <2>1. CASE x \in {content[reader.cur[k]] : k \in 1 .. reader.rindex}
    <3>1. PICK k \in 1 .. reader.rindex : x = content[reader.cur[k]]
      BY <2>1
    <3>2. reader.cur \in Seq(Buffer) /\ reader.rindex \in 0 .. Len(reader.cur)
      BY <1>1 DEF PoolInv, Types, ReaderRecord, Stages, ReaderStage
    <3>3. k \in Nat /\ reader.cur[k] \in Buffer
      BY <3>1, <3>2
    <3>4. Waits(Current, 0, k, x)
      BY <3>1 DEF Waits
    <3> QED
      BY <1>4, <1>5, <3>1, <3>3, <3>4
  <2>2. CASE \E e \in Enqueued : x \in Waiting(ring[e[1]].full[e[2]].bufs, 1)
    <3>1. PICK w \in Workers : \E i \in 1 .. Len(ring[w].full) : x \in Waiting(ring[w].full[i].bufs, 1)
      BY <2>2 DEF Enqueued
    <3>2. PICK i \in 1 .. Len(ring[w].full) : x \in Waiting(ring[w].full[i].bufs, 1)
      BY <3>1
    <3>3. PICK k \in 1 .. Len(ring[w].full[i].bufs) : x = content[ring[w].full[i].bufs[k]]
      BY <3>2 DEF Waiting
    <3>4. ring[w].full \in Seq(Batch)
      BY <1>1 DEF PoolInv, Types, RingRecord
    <3>5. i \in Nat /\ k \in Nat /\ ring[w].full[i].bufs[k] \in Buffer
      <4>1. i \in Nat /\ ring[w].full[i] \in Batch
        BY <3>4
      <4>2. ring[w].full[i].bufs \in Seq(Buffer)
        BY <4>1 DEF Batch
      <4> QED
        BY <3>3, <4>1, <4>2
    <3>6. Waits(w, i, k, x)
      BY <3>3 DEF Waits
    <3> QED
      BY <1>4, <1>5, <3>3, <3>5, <3>6
  <2>3. CASE \E w \in Workers : x \in Waiting(worker[w].batch.bufs, worker[w].rindex + 1)
    <3>1. PICK w \in Workers : x \in Waiting(worker[w].batch.bufs, worker[w].rindex + 1)
      BY <2>3
    <3>2. PICK k \in worker[w].rindex + 1 .. Len(worker[w].batch.bufs) :
              x = content[worker[w].batch.bufs[k]]
      BY <3>1 DEF Waiting
    <3>3. worker[w].batch.bufs \in Seq(Buffer) /\ worker[w].rindex \in Nat
      BY <1>1, WorkerTypes DEF WorkerRecord
    <3>4. k \in Nat /\ worker[w].batch.bufs[k] \in Buffer
      BY <3>2, <3>3
    <3>5. Waits(w, 0, k, x)
      BY <3>2 DEF Waits
    <3> QED
      BY <1>4, <1>5, <3>2, <3>4, <3>5
  <2> QED
    BY <1>2, <2>1, <2>2, <2>3
<1> QED
  BY <1>3, <1>6 DEF Packets

\* Every packet that was read is handled by one table or dropped, or still under way, and a
\* table handles its packets in the order in which they were read: for batches of every
\* size, any number of tables, and whatever the interleaving of the reader, the decoder and
\* the tables.
THEOREM EveryPacketArrivesOnce == Spec => []EveryPacketOnce
<1>1. OrderInv => EveryPacketOnce
  <2> SUFFICES ASSUME OrderInv PROVE EveryPacketOnce
    OBVIOUS
  <2>1. Packets(Way) = UnderWay
    BY WayIsUnderWay
  <2>2. Pending(Way, handled, dropped) /\ Settled(handled, dropped)
        /\ Done(handled) \cup dropped \cup UnderWay = 1 .. Assigned
    BY <2>1 DEF OrderInv, Course
  <2>3. (Done(handled) \cup dropped) \cap UnderWay = {}
    BY <2>1, <2>2 DEF Pending, Packets, Done
  <2>4. Done(handled) \cap dropped = {}
    BY <2>2 DEF Settled, Done
  <2> QED
    BY <2>2, <2>3, <2>4 DEF EveryPacketOnce, Settled, Done
<1> QED
  BY <1>1, OrderInvariance, PTL
================================================================================
