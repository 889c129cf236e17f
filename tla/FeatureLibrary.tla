---------------------------- MODULE FeatureLibrary -----------------------------
(*****************************************************************************)
(* The features of modules/features, one at a time: what each keeps between  *)
(* calls, and what it sets when its record starts, gets an event, and stops. *)
(* A record calls Start with its first packet; it can be stopped, which      *)
(* exports the feature's value, or be given up without Stop because a filter *)
(* wants to go on (record.stop with Keep); either way its next packet starts *)
(* it again with the same instance of the feature.                           *)
(*                                                                           *)
(* Features of packets read the packet (PacketFields); operations get the    *)
(* values of another feature, here directly.  Names are those in the code    *)
(* without leading underscores.  How features are connected is the business  *)
(* of FeatureGraph.                                                          *)
(*****************************************************************************)
EXTENDS PacketFields, TypedSlice, TCPSequence, FiniteSets, TLC

CONSTANTS
    Features,     \* the features: [name, shape, inputs, bound], inputs names a set of
                  \* Inputs, bound limits the inputs of an instance
    Inputs,       \* packets and values: a function from names to sets
    Second, Decisecond, Millisecond,  \* units of time in ticks
    MaxRecords    \* bound: records of an instance

VARIABLES
    feature,   \* the feature that is looked at
    f,         \* its instance: [value, s, out], with the state s of its own, and the
               \* values it set or emitted since the record started (history)
    phase,     \* of the record: "none", "active", "failed" (a panic), or how it ended
    clock,     \* the time of the last call
    given,     \* inputs of the record, with their times (history)
    before     \* the inputs of each of the instance's earlier records (history)

vars == <<feature, f, phase, clock, given, before>>

--------------------------------------------------------------------------------
(* BaseFeature: SetValue stores a value and emits it, Emit only emits.       *)

Emit(g, v) == [g EXCEPT !.out = Append(@, v)]
SetValue(g, v) == [Emit(g, v) EXCEPT !.value = v]
SetAll(g, vs) == FoldLeft(SetValue, g, vs)
SetIf(g, condition, v) == IF condition THEN SetValue(g, v) ELSE g
Keep(g, s) == [g EXCEPT !.s = s]

--------------------------------------------------------------------------------
(* Features of a flow with a state of their own.  x is the input: a packet,  *)
(* or [value, when, forward] for operations.                                 *)

\* The sequence number that came first, looked for until the stream has gone on for a
\* quarter of the numbers.  The one of the other direction is the same for forward =
\* FALSE.
SearchSequence(s, seq) ==
    IF s.isn = InvalidSequence THEN [s EXCEPT !.isn = seq]
    ELSE IF Difference(Add(s.isn, uint32Size \div 4), seq) > 0 THEN [s EXCEPT !.cutoff = TRUE]
    ELSE IF Difference(s.isn, seq) < 0 THEN [s EXCEPT !.isn = seq]
    ELSE s

tcpSequenceNumber(g, x, forward) ==
    IF x.forward # forward \/ ~GetTCP(x) \/ g.s.cutoff THEN g
    ELSE Keep(g, SearchSequence(g.s, x.transport.seq[2]))

\* The code takes a time of 0 for none.
interPacketTime(g, x) ==
    Keep(SetIf(g, g.s # 0, Integer(x.when - g.s)), x.when)

\* lastTime moves before it is compared, so no break between seconds is found.
consecutiveSeconds(g, x) ==
    IF g.s.last = 0 \/ x.when - g.s.last > Second
    THEN Keep(g, [count |-> g.s.count + 1, last |-> x.when]) ELSE g

activeForSeconds(g, x) ==
    IF g.s.last = 0 \/ x.when - g.s.last > Second
    THEN Keep(g, [count |-> g.s.count + 1, last |-> x.when]) ELSE g

\* Of the first packet only, if it is TCP: all options, the time stamps among them, or
\* the options in front of them.
TimeStamps(p) == SelectSeq(p.transport.options[2], LAMBDA o : o.type = "Timestamps")
BeforeTimeStamps(p) ==
    LET options == p.transport.options[2]
        stamps == {i \in DOMAIN options : options[i].type = "Timestamps"}
    IN  IF stamps = {} THEN options ELSE SubSeq(options, 1, Min(stamps) - 1)
OfFirst(g, x, values) == Keep(IF g.s \/ ~GetTCP(x) THEN g ELSE SetAll(g, values), TRUE)
tcpOptionsFirstPacket(g, x) == OfFirst(g, x, Read(x.transport, TCP, "options"))
tcpTimestampFirstPacket(g, x) ==
    OfFirst(g, x, IF GetTCP(x) THEN [i \in DOMAIN TimeStamps(x) |-> TimeStamps(x)[i].data]
                  ELSE <<>>)
tcpOptionDataFirstPacket(g, x) ==
    OfFirst(g, x, IF GetTCP(x) THEN <<<<"options", BeforeTimeStamps(x)>>>> ELSE <<>>)

\* The stamps of all TCP packets with the second they came in.
tcpTimestampsPerSeconds(g, x) ==
    IF ~GetTCP(x) THEN g
    ELSE Keep(g, g.s \o [i \in DOMAIN TimeStamps(x) |->
                            [stamp |-> TimeStamps(x)[i].data[2],
                             second |-> x.when \div Second]])
Pairs(xs) == IF xs = <<>> THEN <<>> ELSE [i \in 1 .. Len(xs) - 1 |-> <<xs[i], xs[i + 1]>>]
PerSecond(s) ==
    LET pairs == SelectSeq(Pairs(s), LAMBDA q : q[2].second # q[1].second)
    IN  [i \in DOMAIN pairs |-> Float((pairs[i][2].stamp - pairs[i][1].stamp) % uint32Size,
                                      pairs[i][2].second - pairs[i][1].second)]

\* A letter for the flags of a packet, small for the side that sent first, and the
\* time since the packet before in tenths of a second.
Letter(flags) ==
    CASE {"FIN", "ACK"} \subseteq flags -> "n"
      [] "FIN" \in flags -> "f"
      [] {"SYN", "ACK"} \subseteq flags -> "k"
      [] "SYN" \in flags -> "s"
      [] {"RST", "ACK"} \subseteq flags -> "t"
      [] "RST" \in flags -> "r"
      [] {"PSH", "ACK"} \subseteq flags -> "h"
      [] "PSH" \in flags -> "p"
      [] "ACK" \in flags -> "a"
      [] "URG" \in flags -> "u"
      [] OTHER -> "o"
Spoken(g, x) ==
    [src |-> IF g.s.src = Nil THEN x.network.src ELSE g.s.src, last |-> x.when]
Pause(g, x) == IF g.s.last = 0 THEN 0 ELSE (x.when - g.s.last) \div Decisecond
\* Both ask the network layer for its addresses before anything else, and panic if
\* there is none.
Addressed(g, x, spoken) == IF x.network.kind = "none" THEN [g EXCEPT !.value = Panic] ELSE spoken
characters(g, x) ==
    LET s == Spoken(g, x)
        text == <<x.network.src = s.src, Pause(g, x)>>
    IN  Addressed(g, x, SetValue(Keep(g, s), <<"characters", text>>))
characters2(g, x) ==
    LET s == Spoken(g, x)
        text == <<x.network.src = s.src, Letter(x.transport.flags), Pause(g, x)>>
    IN  Addressed(g, x, SetIf(Keep(g, s), GetTCP(x), <<"characters", text>>))

--------------------------------------------------------------------------------
(* nta/nta.go                                                                *)

\* -1 once two protocols were seen.
NTAProtocol(g, x) ==
    IF g.value = Integer(-1) THEN g
    ELSE IF g.value = Nil THEN SetValue(g, x.proto)
    ELSE SetIf(g, g.value # x.proto, Integer(-1))

\* -1 once two protocols were seen; the ports are never remembered as initial ones, so
\* the last ones count.
NTAPorts(g, x) ==
    IF g.value # Nil THEN g
    ELSE IF g.s.proto \notin {Nil, x.proto} THEN SetValue(g, Integer(-1))
    ELSE Keep(g, [proto |-> x.proto,
                  ports |-> IF x.transport.kind \in Ports
                            THEN <<x.transport.src, x.transport.dst>> ELSE g.s.ports])

Headers(x) ==
    IF x.transport.kind \in {"none", "tcp", "udp"} THEN 0 ELSE x.transport.contents
NTATData(g, x) == Keep(g, g.s + x.payloadLength + Headers(x))

\* A selection that emits the number of a second or millisecond when it changes.
NTAWindow(g, x, unit) ==
    LET window == x.when \div unit
    IN  IF g.s = window THEN g ELSE Emit(Keep(g, window), Uint(window))

\* Runs of consecutive seconds, and the seconds between them.
NTATOn(g, t) ==
    IF g.s.ton = 0 THEN Keep(g, [last |-> t, ton |-> 1])
    ELSE IF t = g.s.last + 1 THEN Keep(g, [last |-> t, ton |-> g.s.ton + 1])
    ELSE SetValue(Keep(g, [last |-> t, ton |-> 1]), Uint(g.s.ton))
NTATOff(g, t) ==
    Keep(SetIf(g, g.s # 0 /\ t # g.s + 1, Uint(t - g.s - 1)), t)

--------------------------------------------------------------------------------
(* operations                                                                *)

mean(g, v) == Keep(g, [total |-> Plus(g.s.total, ToFloat(v)), count |-> g.s.count + 1])

\* The first of the smallest values; Extreme(g, v, FALSE) is max.
Extreme(g, v, smallest) ==
    Keep(g, IF g.s = Nil THEN v
            ELSE IF ~Typed(UpConvert(v, g.s)) THEN Panic
            ELSE IF smallest THEN IF IsLess(v, g.s) THEN v ELSE g.s
            ELSE IF IsLess(g.s, v) THEN v ELSE g.s)

\* stdev and variance: mean and sum of squares, updated with each value.
Welford(s, x) ==
    LET delta == Minus(x, s.mean)
        count == s.count + 1
        moved == Plus(s.mean, Over(delta, <<count, 1>>))
    IN  [count |-> count, mean |-> moved,
         m2 |-> Plus(s.m2, Times2(delta, Minus(x, moved)))]
Spread(s) == Over(s.m2, <<s.count - 1, 1>>)

\* An odd number of values has a middle one.  For an even one the code takes the mean
\* of the two in the middle, of two strings the lower; of more strings it asks for the
\* mean, too, which panics.
Median(slice) ==
    LET n == Len(slice.data)
        half == n \div 2
        at(k) == [slice EXCEPT !.data = Select(slice.kind, @, 1, n, k, 1)]
        between(b, i, j) ==
            <<"float", Over(Plus(Fractioned(b, i), Fractioned(b, j)), <<2, 1>>)>>
    IN  CASE n % 2 = 1 -> Get(at(half + 1), half + 1)
          [] n = 2 /\ IsNumeric(slice) -> between(slice, 1, 2)
          [] n = 2 /\ ~IsNumeric(slice) ->
                Get(slice, IF LessData(slice.kind, slice.data[1], slice.data[2]) THEN 1 ELSE 2)
          [] n % 2 = 0 /\ n # 2 ->
                IF ~IsNumeric(slice) THEN Panic
                ELSE LET b == at(half + 1)
                     IN  between(b, half + 1, MaxOf(b.kind, b.data, 1, half))

\* mode and modeCount count values; addresses and bytes as strings.
KeyOf(v) == IF v[1] \in {"bytes", "address"} THEN <<"string", v[2]>> ELSE v
Counted(s, v) ==
    LET k == KeyOf(v)
    IN  IF k \in DOMAIN s THEN [s EXCEPT ![k] = @ + 1] ELSE s @@ (k :> 1)
Modes(s) == {v \in DOMAIN s : \A w \in DOMAIN s : s[w] <= s[v]}
Mode(s) == CHOOSE v \in Modes(s) : \A w \in Modes(s) : ~Less(w, v)

\* add and multiply of a packet feature in a flow keep the first value as it is.
Accumulated(g, op, v) == Keep(g, IF g.s = Nil THEN v ELSE Arithmetic(op, g.s, v))

Rounded(name, x) ==
    LET down == IF x[1] < 0 THEN -((-x[1] + x[2] - 1) \div x[2]) ELSE x[1] \div x[2]
    IN  IF name = "floor" \/ x[2] = 1 THEN Float(down, 1) ELSE Float(down + 1, 1)

--------------------------------------------------------------------------------
(* The calls of a feature by its name.                                       *)

\* What Start puts into the state.
StartState(g, name, when) ==
    CASE name \in {"flowDurationNanoseconds"} -> [start |-> when, last |-> when]
      [] name \in {"consecutiveSeconds", "activeForSeconds"} -> [count |-> 0, last |-> 0]
      [] name \in {"tcpSequenceNumber", "reverseTcpSequenceNumber"} ->
            [isn |-> InvalidSequence, cutoff |-> FALSE]
      [] name \in {"tcpOptionsFirstPacket", "tcpTimestampFirstPacket",
                   "tcpOptionDataFirstPacket"} -> FALSE
      [] name = "NTAPorts" -> [proto |-> Nil, ports |-> <<Uint(0), Uint(0)>>]
      [] name = "NTATOn" -> [last |-> 0, ton |-> 0]
      [] name = "mean" -> [total |-> <<0, 1>>, count |-> 0]
      [] name \in {"min", "max"} -> Nil
      [] name \in {"stdev", "variance"} -> [count |-> 0, mean |-> <<0, 1>>, m2 |-> <<0, 1>>]
      [] name \in {"median", "mode", "modeCount", "distinct", "set", "accumulate",
                   "concatenate"} -> <<>>
      [] OTHER -> 0

\* Features without a Start: their state goes on.
Lasting == {"flowEndNanoseconds", "add", "multiply", "tcpTimestampsPerSeconds", "characters",
            "characters2"}
\* Mutant: one more leaves out the Start of BaseFeature.
ValueStaysMore == {"activeForSeconds", "tcpOptionsFirstPacket", "NTAProtocol"}

\* Features whose Start leaves out that of BaseFeature: their value stays.
ValueStays == {"activeForSeconds", "tcpOptionsFirstPacket"}

\* The state of a new instance, Go's zero values.
NewState(name) ==
    CASE name \in {"characters", "characters2"} -> [src |-> Nil, last |-> 0]
      [] name \in {"add", "multiply"} -> Nil
      [] name = "tcpTimestampsPerSeconds" -> <<>>
      [] OTHER -> 0

\* Start
Start(g, feat, when) ==
    LET name == feat.name
        state == IF name \in Lasting THEN g.s ELSE StartState(g, name, when)
        fresh == [value |-> IF name \in ValueStays THEN g.value ELSE Nil, s |-> state,
                  out |-> <<>>]
    IN  SetIf(fresh, name = "flowStartNanoseconds", <<"nanoseconds", when>>)

\* Event of a feature that reads packets.
PacketEvent(g, name, x) ==
    CASE name = "flowEndNanoseconds" -> Keep(g, x.when)
      [] name = "flowDurationNanoseconds" -> Keep(g, [g.s EXCEPT !.last = x.when])
      [] name = "packetTotalCount" -> Keep(g, g.s + 1)
      [] name = "tcpSequenceNumber" -> tcpSequenceNumber(g, x, TRUE)
      [] name = "reverseTcpSequenceNumber" -> tcpSequenceNumber(g, x, FALSE)
      [] name = "interPacketTimeNanoseconds" -> interPacketTime(g, x)
      [] name = "consecutiveSeconds" -> consecutiveSeconds(g, x)
      [] name = "activeForSeconds" -> activeForSeconds(g, x)
      [] name = "tcpOptionsFirstPacket" -> tcpOptionsFirstPacket(g, x)
      [] name = "tcpTimestampFirstPacket" -> tcpTimestampFirstPacket(g, x)
      [] name = "tcpOptionDataFirstPacket" -> tcpOptionDataFirstPacket(g, x)
      [] name = "tcpTimestampsPerSeconds" -> tcpTimestampsPerSeconds(g, x)
      [] name = "characters" -> characters(g, x)
      [] name = "characters2" -> characters2(g, x)
      [] name = "NTAProtocol" -> NTAProtocol(g, x)
      [] name = "NTAPorts" -> NTAPorts(g, x)
      [] name = "NTATData" -> NTATData(g, x)
      [] name = "NTASecWindow" -> NTAWindow(g, x, Second)
      [] name = "NTAMilliSecWindow" -> NTAWindow(g, x, Millisecond)
      [] OTHER -> g

\* Event of an operation.
ValueEvent(g, name, v) ==
    CASE name = "NTATOn" -> NTATOn(g, v[2])
      [] name = "NTATOff" -> NTATOff(g, v[2])
      [] name = "count" -> Keep(g, g.s + 1)
      [] name = "mean" -> mean(g, v)
      [] name = "min" -> Extreme(g, v, TRUE)
      [] name = "max" -> Extreme(g, v, FALSE)
      [] name \in {"stdev", "variance"} -> Keep(g, Welford(g.s, ToFloat(v)))
      [] name = "median" -> Keep(g, IF g.s = <<>> THEN NewTypedSlice(v) ELSE AppendTo(g.s, v))
      [] name \in {"mode", "modeCount", "distinct"} -> Keep(g, Counted(g.s, v))
      [] name = "set" ->
            Keep(g, IF KeyOf(v) \in Range(g.s) THEN g.s ELSE Append(g.s, KeyOf(v)))
      [] name \in {"accumulate", "concatenate"} -> Keep(g, Append(g.s, v))
      [] name \in {"add", "multiply"} -> Accumulated(g, name, v)
      [] name \in {"floor", "ceil"} -> SetValue(g, Rounded(name, ToFloat(v)))
      [] name = "floorFlow" -> SetIf(g, g.value = Nil, Rounded("floor", ToFloat(v)))

\* Event: a field of each packet, of the first packet that has it, summed up, or a
\* feature of its own.
Event(g, feat, x) ==
    CASE feat.shape = "each" -> SetAll(g, Field(feat.name, x))
      [] feat.shape = "first" -> IF g.value = Nil THEN SetAll(g, Field(feat.name, x)) ELSE g
      [] feat.shape = "total" ->
            Keep(g, FoldLeft(LAMBDA s, v : s + v[2], g.s, Field(feat.name, x)))
      [] feat.shape = "own" -> PacketEvent(g, feat.name, x)
      [] feat.shape = "operation" -> ValueEvent(g, feat.name, x.value)

\* Stop of a feature that reads packets.
PacketStop(g, name, reason, when) ==
    CASE name = "flowEndReason" -> SetValue(g, <<"reason", reason>>)
      [] name = "flowEndNanoseconds" -> SetValue(g, <<"nanoseconds", g.s>>)
      [] name = "flowDurationNanoseconds" -> SetValue(g, Uint(g.s.last - g.s.start))
      [] name = "flowExportNanoseconds" -> SetValue(g, <<"nanoseconds", when>>)
      [] name = "packetTotalCount" -> SetValue(g, Uint(g.s))
      [] name \in {"tcpSequenceNumber", "reverseTcpSequenceNumber"} ->
            SetIf(g, g.s.isn # InvalidSequence, Uint(g.s.isn))
      [] name \in {"consecutiveSeconds", "activeForSeconds"} -> SetValue(g, Uint(g.s.count))
      [] name = "tcpTimestampsPerSeconds" -> SetAll(g, PerSecond(g.s))
      [] name = "NTAPorts" -> SetIf(g, g.value = Nil, <<"ports", g.s.ports>>)
      [] name = "NTATData" -> SetValue(g, Uint(g.s))
      [] OTHER -> g

\* Stop of an operation.
ValueStop(g, name) ==
    CASE name = "NTATOn" -> SetIf(g, g.s.ton # 0, Uint(g.s.ton))
      [] name = "NTATOff" -> SetIf(g, g.value = Nil, Integer(0))
      [] name = "count" -> SetValue(g, Uint(g.s))
      [] name = "mean" -> SetIf(g, g.s.count > 0, <<"float", Over(g.s.total, <<g.s.count, 1>>)>>)
      [] name \in {"min", "max"} -> SetValue(g, g.s)
      [] name = "stdev" -> SetIf(g, g.s.count # 0, <<"root of", Spread(g.s)>>)
      [] name = "variance" -> SetIf(g, g.s.count > 1, <<"float", Spread(g.s)>>)
      [] name = "median" -> SetIf(g, g.s # <<>>, Median(g.s))
      [] name = "mode" -> SetIf(g, g.s # <<>>, Mode(g.s))
      [] name = "modeCount" -> SetValue(g, IF g.s = <<>> THEN NaN ELSE Uint(g.s[Mode(g.s)]))
      [] name = "distinct" -> SetValue(g, Integer(Cardinality(DOMAIN g.s)))
      [] name = "set" -> SetValue(g, <<"list", g.s>>)
      [] name = "accumulate" -> SetIf(g, g.s # <<>>, <<"list", g.s>>)
      [] name = "concatenate" -> SetValue(g, <<"text", g.s>>)
      [] name \in {"add", "multiply"} -> SetIf(g, g.s # Nil, g.s)
      [] OTHER -> g

\* Stop
Stop(g, feat, reason, when) ==
    CASE feat.shape = "total" -> SetValue(g, Uint(g.s))
      [] feat.shape = "own" -> PacketStop(g, feat.name, reason, when)
      [] feat.shape = "operation" -> ValueStop(g, feat.name)
      [] OTHER -> g

--------------------------------------------------------------------------------
\* A new instance of a feature.
Create(x) ==
    /\ feature = x
    /\ f = [value |-> Nil, s |-> NewState(x.name), out |-> <<>>]
    /\ phase = "none"
    /\ clock = 0
    /\ given = <<>>
    /\ before = <<>>

Init == \E x \in Features : Create(x)

\* What NTATOn and NTATOff get from their window only grows.
Arrives(x) ==
    feature.inputs = "windows" /\ given # <<>> => x.value[2] > Last(given).value[2]

\* Some set a panic in place of a value, some compute with the value they have.
Panicked(g, name) ==
    g.value = Panic \/ (name \in {"min", "max", "add", "multiply"} /\ g.s = Panic)

\* record.filteredEvent: a packet or a value, which starts the record if it is not active.
Receive ==
    /\ phase # "failed"
    /\ Len(given) + Len(FlattenSeq(before)) < feature.bound
    /\ \E input \in Inputs[feature.inputs] :
        LET starts == phase # "active"
            x == [input EXCEPT !.when = clock + @]
            g == IF starts THEN Start(f, feature, x.when) ELSE f
            h == Event(g, feature, x)
        IN  /\ starts /\ given # <<>> => Len(before) < MaxRecords - 1
            /\ starts \/ Arrives(x)
            /\ f' = h
            /\ phase' = IF Panicked(h, feature.name) THEN "failed" ELSE "active"
            /\ clock' = x.when
            /\ given' = IF starts THEN <<x>> ELSE Append(given, x)
            /\ before' = IF starts /\ given # <<>> THEN Append(before, given) ELSE before
    /\ UNCHANGED feature

Reasons == {"idle", "end"}

\* record.stop and Export, with the last packet or some time after it.
End ==
    /\ phase = "active"
    /\ \E reason \in Reasons, later \in {0, Second} :
        LET g == Stop(f, feature, reason, clock + later)
        IN  /\ f' = g
            /\ clock' = clock + later
            /\ phase' = IF g.value = Panic THEN "failed" ELSE reason
    /\ UNCHANGED <<feature, given, before>>

\* record.stop, taken back by a filter that keeps the record.
GiveUp ==
    /\ phase = "active"
    /\ phase' = "none"
    /\ UNCHANGED <<feature, f, clock, given, before>>

Next == Receive \/ End \/ GiveUp
Spec == Init /\ [][Next]_vars
================================================================================
