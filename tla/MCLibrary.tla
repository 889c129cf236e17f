------------------------------ MODULE MCLibrary -------------------------------
(*****************************************************************************)
(* The library on small inputs: every feature over sequences of packets or   *)
(* values, the arithmetic of two values, the selection behind median, the    *)
(* sort behind sorted export, and the decoding of packets into one buffer    *)
(* after the other.  Each behaviour is about one of them.                    *)
(*****************************************************************************)
EXTENDS FeatureLibraryMeaning, PacketDecoder, NaturalSort

CONSTANTS
    MaxBatch, MaxKey,    \* bounds: records sorted, and their keys
    MaxSelected          \* bound: elements to select from

VARIABLES
    job,      \* what is computed: [kind, input], kind "none" if it is not that
    result    \* what came out of it, <<>> before

allVars == <<vars, decoderVars, job, result>>

--------------------------------------------------------------------------------
(* Packets and values.                                                       *)

MCFlow == [id |-> 5, table |-> 3]
Stamp(n) == [type |-> "Timestamps", data |-> Uint(n)]
Option == [type |-> "MSS", data |-> Uint(7)]

Frame == [kind |-> "ethernet", src |-> <<"mac", 1>>, dst |-> <<"mac", 2>>]
Header4(from) ==
    [kind |-> "ip4", src |-> <<"address", from>>, dst |-> <<"address", 3 - from>>,
     length |-> Uint(60), ttl |-> Uint(64), tos |-> Uint(4), flags |-> Uint(2),
     id |-> Uint(9), offset |-> Uint(0), version |-> Uint(4), headerLength |-> Uint(20),
     checksum |-> Uint(11)]
Header6(jumbo) ==
    [kind |-> "ip6", src |-> <<"address", 1>>, dst |-> <<"address", 2>>,
     length |-> Uint(70), ttl |-> Uint(32), tos |-> Uint(0), jumbo |-> jumbo]
None == [kind |-> "none"]
Segment(seq, flags, options) ==
    [kind |-> "tcp", src |-> Uint(80), dst |-> Uint(81), seq |-> Uint(seq), flags |-> flags,
     window |-> Uint(6), urgent |-> Uint(0), options |-> <<"options", options>>,
     ack |-> Uint(0), headerLength |-> Uint(20), checksum |-> Uint(12), contents |-> 20]
Datagram == [kind |-> "udp", src |-> Uint(53), dst |-> Uint(1024), contents |-> 8]
Echo == [kind |-> "icmp", src |-> Uint(0), dst |-> Uint(8), contents |-> 4]

Message ==
    [kind |-> "dns", id |-> Uint(4), qr |-> Boolean(TRUE), code |-> Uint(0),
     qd |-> Uint(2), an |-> Uint(1), ns |-> Uint(0), ar |-> Uint(0),
     questions |-> <<[name |-> <<"string", 1>>, type |-> Uint(1), class |-> Uint(1)],
                     [name |-> <<"string", 2>>, type |-> Uint(28), class |-> Uint(1)]>>,
     answers |-> <<[name |-> <<"string", 1>>, type |-> Uint(1), class |-> Uint(1),
                    ttl |-> Uint(30), length |-> Uint(4)]>>]

\* A packet some time after the one before, in the direction of its addresses.
Packet(gap, forward, network, transport) ==
    [when |-> gap, forward |-> forward, lowToHigh |-> forward, link |-> Frame,
     linkLength |-> Uint(74), etherType |-> Uint(8), vlans |-> <<>>, network |-> network,
     networkLength |-> Uint(60), proto |-> Uint(6), transport |-> transport,
     payloadLength |-> 3, payload |-> [length |-> 3, data |-> <<"bytes", 5>>],
     dns |-> None, label |-> Nil]
TCPPacket(gap, forward, seq, flags, options) ==
    Packet(gap, forward, Header4(IF forward THEN 1 ELSE 2), Segment(seq, flags, options))

\* A packet without a network layer.
Unrouted == [Packet(1, TRUE, None, None) EXCEPT !.proto = Uint(0)]

\* One of each kind of layer.
MixedPackets ==
    {TCPPacket(Second, TRUE, 1, {"SYN", "ECE"}, <<Option>>),
     TCPPacket(10, FALSE, 2, {"ACK", "FIN", "PSH", "URG", "CWR", "NS", "RST"}, <<>>),
     [Packet(Second, TRUE, Header6(Uint(80000)), Datagram) EXCEPT
        !.proto = Uint(17), !.dns = Message, !.label = <<"string", 3>>,
        !.vlans = <<[id |-> Uint(5), priority |-> Uint(1)]>>],
     [Packet(10, FALSE, Header6(Uint(9)), Echo) EXCEPT !.proto = Uint(1),
        !.link = [kind |-> "sll", src |-> <<"mac", 1>>], !.payload.length = 0],
     [Packet(Second, TRUE, None, None) EXCEPT !.proto = Uint(0), !.link = None]}

SequencePackets ==
    {TCPPacket(1, TRUE, seq, {"ACK"}, <<>>) : seq \in {0, 1, 2, 7, 14, 15}}
    \cup {TCPPacket(1, FALSE, 1, {"ACK"}, <<>>), TCPPacket(1, FALSE, 15, {"ACK"}, <<>>),
          Packet(1, TRUE, Header4(1), Datagram)}

TimedPackets ==
    {TCPPacket(gap, forward, 1, {"ACK"}, options) :
        gap \in {3 * Decisecond, Second + 1},
        forward \in BOOLEAN,
        options \in {<<Option, Stamp(4), Stamp(6)>>}}
    \cup {TCPPacket(2 * Second, TRUE, 1, {"FIN"}, <<Stamp(9)>>),
          Packet(1, TRUE, Header4(1), Datagram), Unrouted}

Flags == {"FIN", "SYN", "RST", "PSH", "ACK", "URG"}
FlaggedPackets ==
    {TCPPacket(3 * Decisecond, TRUE, 1, flags, <<>>) :
        flags \in {{}} \cup {{a} : a \in Flags} \cup {{a, "ACK"} : a \in Flags}}
    \cup {TCPPacket(1, FALSE, 1, {"ACK"}, <<>>), Unrouted}

ProtocolPackets ==
    {[Packet(gap, TRUE, Header4(1), transport) EXCEPT !.proto = proto] :
        gap \in {1, Second}, proto \in {Uint(6), Uint(17)},
        transport \in {Datagram, Echo, Segment(1, {}, <<>>), None}}

Timely(values) == {[value |-> v, when |-> 1, forward |-> TRUE] : v \in values}

MCInputs ==
    [mixed |-> MixedPackets,
     sequences |-> SequencePackets,
     timed |-> TimedPackets,
     flagged |-> FlaggedPackets,
     protocols |-> ProtocolPackets,
     windows |-> Timely({Uint(n) : n \in 1 .. 6}),
     uint |-> Timely({Uint(n) : n \in {0, 1, 2, 5}}),
     int |-> Timely({Integer(n) : n \in {-3, 0, 4}}),
     float |-> Timely({Float(-3, 2), Float(1, 2), Float(1, 1)}),
     bool |-> Timely({Boolean(b) : b \in BOOLEAN}),
     string |-> Timely({<<"string", n>> : n \in 1 .. 3}),
     bytes |-> Timely({<<"bytes", n>> : n \in 1 .. 2}),
     none |-> {}]

--------------------------------------------------------------------------------
(* The features with the inputs they are looked at with.                     *)

Named(names, shape, inputs, bound) ==
    {[name |-> n, shape |-> shape, inputs |-> inputs, bound |-> bound] : n \in names}

FirstFields ==
    (LinkFields \ {"layer2OctetTotalCount"}) \cup NetworkFields
    \cup {"sourceTransportPort", "destinationTransportPort", "firstDirection", "flowId",
          "NTAFlowID"}
EachFields ==
    {"layer2OctetTotalCount", "sourceIPAddress", "octetTotalCount", "ipTotalLength", "ipTTL",
     "flowKey", "label", "flowDirection"}
    \cup (TransportFields \ {"sourceTransportPort"}) \cup ApplicationFields
TotalFields == {"layer2OctetTotalCount", "octetTotalCount"} \cup CountedFlags

\* Each number type with the operations that take it.
Statistics == {"mean", "min", "max", "stdev", "variance"}
Counting == {"count", "median", "mode", "modeCount", "distinct", "set", "accumulate", "concatenate"}

MCFeatures ==
    Named(FirstFields, "first", "mixed", 3)
    \cup Named(EachFields, "each", "mixed", 2)
    \cup Named(TotalFields, "total", "mixed", 2)
    \cup Named(SequenceNumbers, "own", "sequences", 4)
    \cup Named({"flowEndReason", "flowStartNanoseconds", "flowEndNanoseconds",
                "flowDurationNanoseconds", "flowExportNanoseconds", "packetTotalCount",
                "interPacketTimeNanoseconds"}, "own", "mixed", 3)
    \cup Named({"consecutiveSeconds", "activeForSeconds", "tcpOptionsFirstPacket",
                "tcpTimestampFirstPacket", "tcpOptionDataFirstPacket",
                "tcpTimestampsPerSeconds", "characters", "characters2"}, "own", "timed", 3)
    \cup Named({"characters2"}, "own", "flagged", 2)
    \cup Named({"NTAProtocol", "NTAPorts", "NTATData", "NTASecWindow", "NTAMilliSecWindow"},
               "own", "protocols", 3)
    \cup Named({"NTATOn", "NTATOff"}, "operation", "windows", 5)
    \cup Named(Statistics \cup Counting \cup {"add", "multiply"}, "operation", "uint", 4)
    \cup Named(Statistics \cup Counting, "operation", "int", 4)
    \cup Named(Statistics \cup Counting \cup {"floor", "ceil"}, "operation", "float", 4)
    \cup Named(Counting, "operation", "bool", 4)
    \cup Named(Counting, "operation", "string", 4)
    \cup Named(Counting, "operation", "bytes", 3)

NoFeature == [name |-> "none", shape |-> "each", inputs |-> "none", bound |-> 0]

--------------------------------------------------------------------------------
(* Two values.                                                               *)

MCValues ==
    {Boolean(TRUE), Uint(0), Uint(3), Uint(60), Integer(0), Integer(5), Integer(-2),
     Float(5, 2), Float(0, 1), <<"string", 1>>, Nil}
    \cup {<<t, n>> : t \in Times, n \in {0, 2, 3}}
Operators == {"add", "subtract", "multiply", "divide"}
Comparisons == {"less", "greater", "leq", "geq", "equal"}

Numeric(v) == v[1] \in {"bool"} \cup NumberTypes
IsTime(v) == v[1] \in Times
OtherUnit(v, w) == IsTime(v) /\ IsTime(w) /\ v[1] # w[1]

\* What v counts next to w: two units of time meet in nanoseconds, and next to a time
\* only the whole part of a float counts.
InNano == [seconds |-> Thousand ^ 3, milliseconds |-> Thousand ^ 2, microseconds |-> Thousand]
Amount(v, w) ==
    CASE v[1] = "bool" -> <<IF v[2] THEN 1 ELSE 0, 1>>
      [] v[1] = "float" -> IF IsTime(w) THEN <<v[2][1] \div v[2][2], 1>> ELSE v[2]
      [] OTHER -> <<IF OtherUnit(v, w) THEN v[2] * InNano[v[1]] ELSE v[2], 1>>
\* A number that the type of the other does not hold.
Inexact(v, w) ==
    \/ v[1] = "int" /\ v[2] < 0 /\ IsTime(w)
    \/ v[1] = "uint" /\ 2 * v[2] >= Modulus /\ w[1] = "int"

\* Pairs that do not get the type that templates announce for them: nanoseconds and
\* another unit, and a time in front of a number.
NanoAndUnit(v, w) == OtherUnit(v, w) /\ "nanoseconds" \in {v[1], w[1]}
TimeAndNumber(v, w) == IsTime(v) /\ Numeric(w) /\ ~IsTime(w)

--------------------------------------------------------------------------------
(* Frames.                                                                   *)

Ether(ok, llc, short) ==
    [kind |-> "ethernet", size |-> 14, ok |-> ok, llc |-> llc, short |-> short,
     length |-> IF llc = "none" THEN 0 ELSE 41]
Cooked(ok) == [kind |-> "sll", size |-> 16, ok |-> ok]
VLANTag(ok, id) == [ok |-> ok, size |-> 4, id |-> id]
IP4(ok, badOption, length) ==
    [kind |-> "ip4", size |-> 20, ok |-> ok, badOption |-> badOption, length |-> length,
     next |-> 6, data |-> 33, short |-> FALSE]
IP6(ok, jumbo, length) ==
    [kind |-> "ip6", size |-> 40, ok |-> ok, badOption |-> FALSE, length |-> length,
     next |-> 6, jumbo |-> jumbo, data |-> 53, short |-> FALSE]
OtherNetwork == [kind |-> "other", size |-> 0]
Skipped(ok, next) == [ok |-> ok, size |-> 8, next |-> next]
Carried(kind, ok, badOption) ==
    [kind |-> kind, size |-> 8, ok |-> ok, badOption |-> badOption, short |-> FALSE]

\* The types that link header and tags announce follow from what comes behind them.
Announced(network) == IF network.kind \in {"ip4", "ip6"} THEN "ip" ELSE "else"
TypedLink(link, type) ==
    CASE link.kind = "ethernet" /\ link.llc = "none" -> link @@ [type |-> type]
      [] link.kind = "ethernet" -> link @@ [type |-> "802.3", snapType |-> type]
      [] link.kind = "sll" -> link @@ [type |-> type]
      [] OTHER -> link
TypedTags(tags, last) ==
    [i \in DOMAIN tags |-> tags[i] @@ [type |-> IF i = Len(tags) THEN last ELSE "tag"]]
LLCSize(link) ==
    IF link.kind # "ethernet" THEN 0
    ELSE CASE link.llc = "snap" -> 8 [] link.llc = "llc" -> 3 [] OTHER -> 0

\* last is the type announced for the network layer; captured says whether all was caught
\* ("whole"), less than was on the wire ("less"), or more than fits the buffer ("cut").
FrameFor(last, first, link, tags, network, extensions, transport, captured) ==
    LET behind == 4 * Len(tags) + LLCSize(link)
                  + (IF network.kind \in {"ip4", "ip6"} THEN network.data ELSE 0)
    IN  [first |-> first, link |-> TypedLink(link, IF tags = <<>> THEN last ELSE "tag"),
         tags |-> TypedTags(tags, last), network |-> network, extensions |-> extensions,
         transport |-> transport, payload |-> 5, caught |-> link.size + behind,
         length |-> link.size + behind + (IF captured = "less" THEN 3 ELSE 0),
         cut |-> captured = "cut"]
FrameOf(first, link, tags, network, extensions, transport, captured) ==
    FrameFor(Announced(network), first, link, tags, network, extensions, transport, captured)

EtherLink == Ether(TRUE, "none", FALSE)
Links ==
    {<<"ip", NoLayer>>, <<"sll", Cooked(TRUE)>>, <<"sll", Cooked(FALSE)>>,
     <<"ethernet", Ether(FALSE, "none", FALSE)>>, <<"ethernet", Ether(TRUE, "snap", TRUE)>>}
    \cup {<<"ethernet", Ether(TRUE, llc, FALSE)>> :
            llc \in {"none", "bad", "llc", "bad snap", "snap"}}
\* The links that tags or IP may follow, as far as they can be decoded.
Carries(l) == l[1] # "ethernet" \/ l[2].llc \in {"none", "snap"}
Tagging ==
    {<<VLANTag(TRUE, 1)>>, <<VLANTag(TRUE, 2), VLANTag(TRUE, 3)>>,
     <<VLANTag(TRUE, 2), VLANTag(FALSE, 1)>>}
Networks ==
    {<<IP4(TRUE, FALSE, 33), <<>>>>, <<IP4(TRUE, FALSE, 0), <<>>>>,
     <<IP4(FALSE, TRUE, 33), <<>>>>, <<IP4(FALSE, FALSE, 33), <<>>>>,
     <<IP6(TRUE, 0, 13), <<>>>>, <<IP6(FALSE, 0, 13), <<>>>>,
     <<IP6(TRUE, 13, 0), <<>>>>, <<IP6(TRUE, 9, 13), <<>>>>,
     <<IP6(TRUE, 0, 21), <<Skipped(TRUE, 17)>>>>,
     <<IP6(TRUE, 0, 29), <<Skipped(TRUE, 44), Skipped(TRUE, 17)>>>>,
     <<IP6(TRUE, 0, 29), <<Skipped(TRUE, 44), Skipped(FALSE, 17)>>>>}
Transports ==
    {NoLayer, Carried("other", TRUE, FALSE), Carried("udp", TRUE, FALSE),
     Carried("udp", FALSE, FALSE), Carried("tcp", FALSE, TRUE),
     Carried("tcp", FALSE, FALSE), Carried("icmp4", TRUE, FALSE)}
UDPCarried == Carried("udp", TRUE, FALSE)
Captures == {"whole", "less", "cut"}

\* All ends of a link layer, of tags, and all that can be behind one.
MCFrames ==
    {FrameFor("else", l[1], l[2], <<>>, network, <<>>, NoLayer, "whole") :
        l \in Links, network \in {NoLayer, OtherNetwork}}
    \cup {FrameOf(l[1], l[2], <<>>, IP4(TRUE, FALSE, length), <<>>, UDPCarried, captured) :
            l \in {x \in Links : Carries(x)}, length \in {0, 33}, captured \in Captures}
    \cup {FrameFor(last, l[1], l[2], tags, NoLayer, <<>>, NoLayer, "whole") :
            last \in {"ip", "else"}, l \in {x \in Links : Carries(x) /\ x[1] # "ip"},
            tags \in Tagging}
    \cup {FrameOf(l[1], l[2], tags, IP4(TRUE, FALSE, length), <<>>, UDPCarried, captured) :
            l \in {x \in Links : Carries(x) /\ x[1] # "ip"}, tags \in Tagging,
            length \in {0, 33}, captured \in Captures}
    \cup {FrameOf("ethernet", EtherLink, tags, n[1], n[2], t, "less") :
            tags \in {<<>>, <<VLANTag(TRUE, 1)>>}, n \in Networks, t \in Transports}

--------------------------------------------------------------------------------
(* The jobs.                                                                 *)

NoJob == [kind |-> "none"]
SortJobs ==
    {[kind |-> "sort", batch |-> batch] :
        batch \in UNION {[1 .. n -> 1 .. MaxKey] : n \in 1 .. MaxBatch}}
SelectJobs ==
    {[kind |-> "select", data |-> data, k |-> k, spread |-> spread] :
        data \in UNION {[1 .. n -> 1 .. MaxKey] : n \in 1 .. MaxSelected},
        k \in 1 .. MaxSelected, spread \in 0 .. 2}
Possible(j) ==
    j.k <= Len(j.data) /\ (Len(j.data) <= SampleSize => j.spread = 0)
PairJobs == {[kind |-> "pair", a |-> a, b |-> b] : a, b \in MCValues}

Computed(j) ==
    CASE j.kind = "sort" ->
            LET heads == findNaturalSublists[j.batch]
            IN  IF Len(heads) = 1 THEN heads[1] ELSE MergeAll(heads)
      [] j.kind = "select" -> Select("uint", j.data, 1, Len(j.data), j.k, j.spread)
      [] j.kind = "pair" ->
            [arithmetic |-> [op \in Operators |-> Arithmetic(op, j.a, j.b)],
             comparison |-> [op \in Comparisons |-> Comparison(op, j.a, j.b)]]

Compute ==
    /\ job # NoJob
    /\ result = <<>>
    /\ result' = Computed(job)
    /\ UNCHANGED <<vars, decoderVars, job>>

OneFeature == Next /\ UNCHANGED <<decoderVars, job, result>>
DecodeFrame == DecodePacket /\ UNCHANGED <<vars, job, result>>

MCInit ==
    /\ DecoderInit
    /\ result = <<>>
    /\ \/ job = NoJob /\ Init
       \/ Create(NoFeature) /\ job \in SortJobs \cup {j \in SelectJobs : Possible(j)} \cup PairJobs
       \/ Create(NoFeature) /\ job = NoJob
MCNext ==
    \/ OneFeature
    \/ job = NoJob /\ feature = NoFeature /\ DecodeFrame
    \/ Compute
MCSpec == MCInit /\ [][MCNext]_allVars

--------------------------------------------------------------------------------
Ascending(list) == \A i, j \in 1 .. Len(list) : i < j => list[i] <= list[j]
SameElements(xs, ys) ==
    \A x \in 1 .. MaxKey :
        Cardinality({i \in DOMAIN xs : xs[i] = x}) = Cardinality({i \in DOMAIN ys : ys[i] = x})
Finished(kind) == job.kind = kind /\ result # <<>>

\* What findNaturalSublists and the merges over any number of sublists leave is the
\* batch, sorted: no record is lost between the rounds, an odd list out included.
BatchSorted ==
    Finished("sort") => Ascending(result) /\ SameElements(job.batch, result)

\* Select leaves the same elements, with the one at k that belongs there, none above it
\* on its left and none below it on its right: whatever range it was narrowed to before.
SelectFinds ==
    Finished("select") =>
        LET k == job.k
        IN  /\ SameElements(job.data, result)
            /\ \A i \in DOMAIN result : (i < k => result[i] <= result[k])
                                       /\ (i > k => result[i] >= result[k])

\* Arithmetic of two values panics only for what is no number and for a division of
\* integers by zero; else its result has the type that templates announce, and is exact,
\* integers modulo their size.  Comparisons say what is true of the amounts.  Nothing is
\* asked of nanoseconds and another unit, and of the arithmetic of a time in front of a
\* number: see UnitsMeet and TypeAsAnnounced.
PromotionMeans ==
    Finished("pair") /\ ~NanoAndUnit(job.a, job.b) =>
        LET a == job.a
            b == job.b
            x == Amount(a, b)
            y == Amount(b, a)
            illegal == ~Numeric(a) \/ ~Numeric(b)
            type == UpConvertTypes(a[1], b[1])
            real == ~illegal /\ type = "float"
            exact(op) == Fractional(op, x, y)
            agrees(op, r) ==
                /\ r[1] = type
                /\ CASE real -> r[2] = exact(op)
                     [] ~real /\ op # "divide" -> (r[2] - exact(op)[1]) % Modulus = 0
                     [] ~real /\ op = "divide" ->
                            Inexact(a, b) \/ Inexact(b, a) \/ r[2] = Truncated(exact(op))
            true(op) ==
                CASE op = "less" -> Below(x, y)
                  [] op = "greater" -> Below(y, x)
                  [] op = "leq" -> ~Below(y, x)
                  [] op = "geq" -> ~Below(x, y)
                  [] op = "equal" -> x = y
        IN  /\ \A op \in Operators :
                LET r == result.arithmetic[op]
                    panics == illegal \/ (op = "divide" /\ ~real /\ y[1] = 0)
                IN  IF panics THEN r = Panic ELSE TimeAndNumber(a, b) \/ agrees(op, r)
            /\ \A op \in Comparisons :
                IF illegal THEN result.comparison[op] = Panic
                ELSE Inexact(a, b) \/ Inexact(b, a) \/ result.comparison[op] = Boolean(true(op))

\* Two numbers of any types can be computed with and compared: UpConvert returns a pair of
\* one type, two times of different units in nanoseconds, and its panics never happen.
UnitsMeet ==
    Finished("pair") /\ Numeric(job.a) /\ Numeric(job.b) =>
        /\ \A op \in Operators \ {"divide"} : result.arithmetic[op] # Panic
        /\ \A op \in Comparisons : result.comparison[op] # Panic

\* The result of arithmetic on two numbers has the type to which the data must be
\* converted, which the template announces.
TypeAsAnnounced ==
    Finished("pair") /\ Numeric(job.a) /\ Numeric(job.b) =>
        \A op \in Operators :
            LET r == result.arithmetic[op]
            IN  r # Panic => r[1] = UpConvertTypes(job.a[1], job.b[1])
================================================================================
