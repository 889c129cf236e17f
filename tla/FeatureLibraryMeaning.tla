------------------------- MODULE FeatureLibraryMeaning -------------------------
(*****************************************************************************)
(* What the features of the library stand for: what a record has set or      *)
(* emitted, as a function of everything it was given, without the state that *)
(* the features keep from event to event.  Where a feature does not do what  *)
(* its description or a comment in its code says (Contradicted), nothing is  *)
(* asked of it in general: a property of its own states what is said.        *)
(*****************************************************************************)
EXTENDS FeatureLibrary

Stopped == phase \in Reasons
Everything == Append(before, given)
AllGiven == FlattenSeq(Everything)
IfStopped(vs) == IF Stopped THEN vs ELSE <<>>
Concatenated(Op(_), xs) == FlattenSeq([i \in DOMAIN xs |-> Op(xs[i])])
Total(g(_), xs) == FoldLeft(LAMBDA s, x : s + g(x), 0, xs)
Mapped(Op(_), xs) == [i \in DOMAIN xs |-> Op(xs[i])]
Distinct(xs) == {xs[i] : i \in DOMAIN xs}

\* The elements that differ from the one before, the first from x.
Changes(x, xs) ==
    LET all == <<x>> \o xs
    IN  Mapped(LAMBDA q : q[2], SelectSeq(Pairs(all), LAMBDA q : q[1] # q[2]))

--------------------------------------------------------------------------------
(* Features of packets.                                                      *)

\* How far t is behind s, modulo the size of the numbers.
Behind(s, t) == (t - s) % uint32Size
Quarter == uint32Size \div 4
SequenceNumbers == {"tcpSequenceNumber", "reverseTcpSequenceNumber"}

Seqs(forward) ==
    Mapped(LAMBDA x : x.transport.seq[2],
           SelectSeq(given, LAMBDA x : x.forward = forward /\ GetTCP(x)))
\* The first number of a stream that stays within a quarter of the numbers.
FirstNumber(seqs) ==
    CHOOSE s \in Distinct(seqs) : \A t \in Distinct(seqs) : Behind(s, t) < Quarter
Short(seqs) ==
    \E s \in Distinct(seqs) : \A t \in Distinct(seqs) : Behind(s, t) < Quarter - 1
\* A packet from in front of the wrap-around of the numbers after one from behind it.
WrapsBack(seqs) ==
    seqs # <<>> /\ seqs[1] < Quarter /\ \E i \in DOMAIN seqs : seqs[i] >= 3 * Quarter

\* The packets with which a second begins: the first, and each more than a second
\* after the start of the last one.
Begun ==
    CHOOSE S \in SUBSET DOMAIN given :
        \A i \in DOMAIN given :
            i \in S <=> \A j \in S : j < i => given[i].when - given[j].when > Second
\* Those of them behind a break: the last one began two seconds before, or earlier.
Breaks ==
    {i \in Begun : \E j \in Begun :
        /\ j < i /\ {k \in Begun : j < k /\ k < i} = {}
        /\ given[i].when - given[j].when >= 2 * Second}

OptionsOfFirst(Op(_), xs) == IF xs # <<>> /\ GetTCP(xs[1]) THEN Op(xs[1]) ELSE <<>>

\* The stamps of the whole instance, earlier records included, with their seconds.
Stamps ==
    Concatenated(LAMBDA x :
        IF ~GetTCP(x) THEN <<>>
        ELSE Mapped(LAMBDA o : [stamp |-> o.data[2], second |-> x.when \div Second],
                    TimeStamps(x)), AllGiven)
Slope(q) == Float((q[2].stamp - q[1].stamp) % uint32Size, q[2].second - q[1].second)

\* Tenths of a second between the input i and the one before, earlier records included.
PauseBefore(i) ==
    IF i = 1 THEN 0 ELSE (AllGiven[i].when - AllGiven[i - 1].when) \div Decisecond
Side(x) == x.network.src = AllGiven[1].network.src
Text(i, letters) ==
    LET x == AllGiven[i]
    IN  <<"characters", <<Side(x)>> \o letters \o <<PauseBefore(i)>>>>
OfRecord == Len(AllGiven) - Len(given) + 1 .. Len(AllGiven)
Texts(letters(_), kept(_)) ==
    LET all == [i \in DOMAIN AllGiven |->
                  IF i \in OfRecord /\ kept(AllGiven[i])
                  THEN <<Text(i, letters(AllGiven[i]))>> ELSE <<>>]
    IN  FlattenSeq(all)

Protocols == [i \in DOMAIN given |-> given[i].proto]
OtherProtocols == {i \in DOMAIN given : Protocols[i] # Protocols[1]}
\* The pairs of ports of the packets that have some, and the only one of them.
PortPairs ==
    {<<given[i].transport.src, given[i].transport.dst>> :
        i \in {j \in DOMAIN given : given[j].transport.kind \in Ports}}
SeveralPorts == Cardinality(PortPairs) > 1
OnlyPorts == IF PortPairs = {} THEN <<Uint(0), Uint(0)>> ELSE CHOOSE ports \in PortPairs : TRUE

Windows(unit) == Mapped(Uint, Changes(0, Mapped(LAMBDA x : x.when \div unit, given)))

Packets(name) ==
    CASE name = "flowEndReason" -> IfStopped(<<<<"reason", phase>>>>)
      [] name = "flowStartNanoseconds" ->
            IF given = <<>> THEN <<>> ELSE <<<<"nanoseconds", given[1].when>>>>
      [] name = "flowEndNanoseconds" -> IfStopped(<<<<"nanoseconds", Last(given).when>>>>)
      [] name = "flowDurationNanoseconds" ->
            IfStopped(<<Uint(Last(given).when - given[1].when)>>)
      [] name = "flowExportNanoseconds" -> IfStopped(<<<<"nanoseconds", clock>>>>)
      [] name = "packetTotalCount" -> IfStopped(<<Uint(Len(given))>>)
      [] name \in SequenceNumbers ->
            LET seqs == Seqs(name = "tcpSequenceNumber")
            IN  IfStopped(IF seqs = <<>> THEN <<>> ELSE <<Uint(FirstNumber(seqs))>>)
      [] name = "interPacketTimeNanoseconds" ->
            Mapped(LAMBDA q : Integer(q[2].when - q[1].when), Pairs(given))
      [] name \in {"consecutiveSeconds", "activeForSeconds"} ->
            IfStopped(<<Uint(Cardinality(Begun))>>)
      [] name = "tcpOptionsFirstPacket" ->
            OptionsOfFirst(LAMBDA x : <<x.transport.options>>, given)
      [] name = "tcpTimestampFirstPacket" ->
            OptionsOfFirst(LAMBDA x : Mapped(LAMBDA o : o.data, TimeStamps(x)), given)
      [] name = "tcpOptionDataFirstPacket" ->
            OptionsOfFirst(LAMBDA x : <<<<"options", BeforeTimeStamps(x)>>>>, given)
      [] name = "tcpTimestampsPerSeconds" ->
            IfStopped(Mapped(Slope, SelectSeq(Pairs(Stamps), LAMBDA q : q[1].second # q[2].second)))
      [] name = "characters" -> Texts(LAMBDA x : <<>>, LAMBDA x : TRUE)
      [] name = "characters2" ->
            Texts(LAMBDA x : <<Letter(x.transport.flags)>>, GetTCP)
      [] name = "NTAProtocol" ->
            IF given = <<>> THEN <<>>
            ELSE <<Protocols[1]>> \o IF OtherProtocols = {} THEN <<>> ELSE <<Integer(-1)>>
      [] name = "NTAPorts" ->
            IF OtherProtocols # {} THEN <<Integer(-1)>> ELSE IfStopped(<<<<"ports", OnlyPorts>>>>)
      [] name = "NTATData" ->
            IfStopped(<<Uint(Total(LAMBDA x : x.payloadLength + Headers(x), given))>>)
      [] name = "NTASecWindow" -> Windows(Second)
      [] name = "NTAMilliSecWindow" -> Windows(Millisecond)

--------------------------------------------------------------------------------
(* Operations.                                                               *)

InputValues == Mapped(LAMBDA x : x.value, given)
Fractions == Mapped(ToFloat, InputValues)
SumOf(xs) == FoldLeft(Plus, <<0, 1>>, xs)
Number == <<Len(given), 1>>
Mean == Over(SumOf(Fractions), Number)
\* The mean of the squared distances from the mean, of one value fewer.
Variance ==
    LET square(x) == Times2(Minus(x, Mean), Minus(x, Mean))
    IN  Over(SumOf(Mapped(square, Fractions)), <<Len(given) - 1, 1>>)

\* The first of those than which none is smaller, or larger.
FirstExtreme(better(_, _)) ==
    LET best == {i \in DOMAIN given :
                   \A j \in DOMAIN given : ~better(InputValues[j], InputValues[i])}
    IN  InputValues[Min(best)]

\* The middle of the values in order; of an even number of strings the lower of the two
\* in the middle, of an even number of others the mean of the two.
InOrder == SortSeq(InputValues, Less)
Middle ==
    LET n == Len(given)
        half == n \div 2
        asNumber(v) == IF v[1] = "bool" THEN <<IF v[2] THEN 1 ELSE 0, 1>> ELSE ToFloat(v)
    IN  IF n % 2 = 1 THEN InOrder[half + 1]
        ELSE IF InOrder[1][1] \in {"string", "bytes"} THEN InOrder[half]
        ELSE <<"float", Over(Plus(asNumber(InOrder[half]), asNumber(InOrder[half + 1])), <<2, 1>>)>>
EvenStrings == Len(given) % 2 = 0 /\ Len(given) > 2 /\ InputValues[1][1] \in {"string", "bytes"}

Keyed == Mapped(KeyOf, InputValues)
Times3(v) == Cardinality({i \in DOMAIN Keyed : Keyed[i] = v})
MostOften == {v \in Distinct(Keyed) : \A w \in Distinct(Keyed) : Times3(w) <= Times3(v)}
SmallestMode == CHOOSE v \in MostOften : \A w \in MostOften : ~Less(w, v)
FirstTimes ==
    LET firsts == {i \in DOMAIN Keyed : \A j \in 1 .. i - 1 : Keyed[j] # Keyed[i]}
    IN  Mapped(LAMBDA i : Keyed[i], SortSeq(SetToSeq(firsts), <))

\* Runs of windows without a gap: where a run starts, and the gaps between runs.
WindowNumbers == Mapped(LAMBDA v : v[2], InputValues)
RunStarts ==
    SortSeq(SetToSeq({i \in DOMAIN given :
                        i = 1 \/ WindowNumbers[i] # WindowNumbers[i - 1] + 1}), <)
RunLengths == Mapped(LAMBDA q : Uint(q[2] - q[1]), Pairs(RunStarts))
LastRun == Uint(Len(given) + 1 - Last(RunStarts))
Gaps ==
    Mapped(LAMBDA q : Uint(q[2] - q[1] - 1),
           SelectSeq(Pairs(WindowNumbers), LAMBDA q : q[2] # q[1] + 1))

\* Sum and product of everything the instance got: its earlier records, too.
AllValues == Mapped(LAMBDA x : x.value, AllGiven)
Accumulation(op) ==
    LET exact == FoldLeft(LAMBDA s, v : IF op = "add" THEN s + v[2] ELSE s * v[2],
                          IF op = "add" THEN 0 ELSE 1, AllValues)
    IN  <<AllValues[1][1], exact % Modulus>>

Operations(name) ==
    CASE name = "NTATOn" -> RunLengths \o IfStopped(<<LastRun>>)
      [] name = "NTATOff" -> Gaps \o IfStopped(IF Gaps = <<>> THEN <<Integer(0)>> ELSE <<>>)
      [] name = "count" -> IfStopped(<<Uint(Len(given))>>)
      [] name = "mean" -> IfStopped(<<<<"float", Mean>>>>)
      [] name = "min" -> IfStopped(<<FirstExtreme(LAMBDA v, w : IsLess(v, w))>>)
      [] name = "max" -> IfStopped(<<FirstExtreme(LAMBDA v, w : IsLess(w, v))>>)
      \* NaN for a single value.
      [] name = "stdev" -> IfStopped(<<<<"root of", Variance>>>>)
      [] name = "variance" ->
            IfStopped(IF Len(given) = 1 THEN <<>> ELSE <<<<"float", Variance>>>>)
      [] name = "median" -> IfStopped(<<Middle>>)
      [] name = "mode" -> IfStopped(<<SmallestMode>>)
      [] name = "modeCount" -> IfStopped(<<Uint(Times3(SmallestMode))>>)
      [] name = "distinct" -> IfStopped(<<Integer(Cardinality(Distinct(Keyed)))>>)
      [] name = "set" -> IfStopped(<<<<"list", FirstTimes>>>>)
      [] name = "accumulate" -> IfStopped(<<<<"list", InputValues>>>>)
      [] name = "concatenate" -> IfStopped(<<<<"text", InputValues>>>>)
      [] name \in {"add", "multiply"} -> IfStopped(<<Accumulation(name)>>)
      [] name \in {"floor", "ceil"} ->
            Mapped(LAMBDA x : Float(IF name = "floor" THEN x[1] \div x[2]
                                    ELSE -((-x[1]) \div x[2]), 1), Fractions)

--------------------------------------------------------------------------------
\* What the record has set or emitted so far.
Emissions(name, shape) ==
    LET fields == Concatenated(LAMBDA x : Field(name, x), given)
    IN  CASE shape = "each" -> fields
          [] shape = "first" -> IF fields = <<>> THEN <<>> ELSE <<fields[1]>>
          [] shape = "total" -> IfStopped(<<Uint(Total(LAMBDA v : v[2], fields))>>)
          [] shape = "own" -> Packets(name)
          [] shape = "operation" -> Operations(name)

\* Windows only emit.
EmitOnly == {"NTASecWindow", "NTAMilliSecWindow"}

\* The value left over from the last record whose first packet had options.
LeftOver ==
    LET left == SelectSeq(before, LAMBDA xs : xs # <<>> /\ GetTCP(xs[1]))
    IN  IF feature.name = "tcpOptionsFirstPacket" /\ left # <<>>
        THEN Last(left)[1].transport.options ELSE Nil

\* Streams of which nothing is said: those that go on for a quarter of the numbers.
Constrained ==
    feature.name \in SequenceNumbers =>
        LET seqs == Seqs(feature.name = "tcpSequenceNumber") IN seqs = <<>> \/ Short(seqs)

\* Inputs with which a feature does not do what is said of it: see the properties behind
\* FeaturesMean.
Contradicted ==
    CASE feature.name = "median" -> EvenStrings
      [] feature.name = "NTAPorts" -> SeveralPorts
      [] feature.name = "consecutiveSeconds" -> Breaks # {}
      [] feature.name \in SequenceNumbers -> WrapsBack(Seqs(feature.name = "tcpSequenceNumber"))
      [] OTHER -> FALSE
Unaddressed ==
    feature.name \in {"characters", "characters2"} /\ Last(given).network.kind = "none"

\* However often a record ended, or was given up, and started again before: a feature has
\* set and emitted what it stands for, given the inputs of this record alone (of the
\* instance for features without a Start, which carry their state over); at the end its
\* value is the last one set; and it panics only for a packet without the network layer
\* it needs.  Nothing is asked for Contradicted inputs, and of the first number of a TCP
\* stream that goes on for a quarter of the numbers.
FeaturesMean ==
    /\ phase = "failed" => Unaddressed \/ Contradicted
    /\ phase \in {"active"} \cup Reasons /\ Constrained /\ ~Contradicted =>
        LET out == Emissions(feature.name, feature.shape)
        IN  /\ f.out = out
            /\ Stopped => f.value = IF feature.name \in EmitOnly THEN Nil
                                    ELSE IF out = <<>> THEN LeftOver ELSE Last(out)

--------------------------------------------------------------------------------
(* What descriptions and comments say of features, and the code does not do. *)

\* The median of any number of strings is their middle one, of an even number the lower
\* of the two in the middle, as the description of median says; stopping the record does
\* not panic.
MedianAsDescribed ==
    /\ feature.name = "median" => phase # "failed"
    /\ feature.name = "median" /\ Stopped => f.value = Middle

\* NTAPorts is the pair of ports, or -1 if there were multiple ones, as its description
\* says (and -1 for several protocols, as in the code).
PortsAsDescribed ==
    feature.name = "NTAPorts" /\ Stopped =>
        f.value = IF SeveralPorts \/ OtherProtocols # {} THEN Integer(-1)
                  ELSE <<"ports", OnlyPorts>>

\* consecutiveSeconds ends with the number of seconds since the last break, as its
\* description and the comments at its branches say.
SecondsAsDescribed ==
    feature.name = "consecutiveSeconds" /\ Stopped =>
        f.value = Uint(Cardinality({i \in Begun : \A j \in Breaks : j <= i}))

\* The first number of a TCP stream that stays within a quarter of the numbers is found
\* in whatever order its packets come, as the comments in the search say: a packet from
\* before the recorded one replaces it, and the search is only cut off behind lots of
\* data.
FirstNumberAsDescribed ==
    feature.name \in SequenceNumbers /\ Stopped =>
        LET seqs == Seqs(feature.name = "tcpSequenceNumber")
        IN  seqs # <<>> /\ Short(seqs) => f.value = Uint(FirstNumber(seqs))
================================================================================
