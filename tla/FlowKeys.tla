-------------------------------- MODULE FlowKeys --------------------------------
(*****************************************************************************)
(* Flow keys (packet/key.go, packet/key_registry.go, modules/keys): how a    *)
(* list of key features becomes a selector, and what key and direction the   *)
(* selector gives a packet.                                                  *)
(*                                                                           *)
(* A field of a packet is a sequence of symbols, <<>> if the packet has no   *)
(* such layer; fields are shorter than in a packet, but an IPv6 address is   *)
(* longer than an IPv4 address.  A packet is                                 *)
(*   [mac, ip, ports : [src, dst], icmp, vlan, ether, proto, time]           *)
(* with icmp the type and code of an ICMP packet, which has no ports.        *)
(*****************************************************************************)
EXTENDS SequencesExt, Selections

--------------------------------------------------------------------------------
(* The registry, in the order of registration: the names of a key, the field *)
(* it is about, the end of the packet if it is a source or a destination,    *)
(* and the pair it is registered in (0 if in none).                          *)

EndKey(names, type, field, pair) ==
    [names |-> names, type |-> type, field |-> field, pair |-> pair]
Source(names, field, pair) == EndKey(names, "source", field, pair)
Destination(names, field, pair) == EndKey(names, "destination", field, pair)
Unidirectional(name, field) == EndKey({name}, "unidirectional", field, 0)

NetworkKeys ==
    <<Source({"sourceIPv4Address", "sourceIPv6Address", "sourceIPAddress"}, "ip", 1),
      Destination({"destinationIPv4Address", "destinationIPv6Address", "destinationIPAddress"},
                  "ip", 1),
      Unidirectional("protocolIdentifier", "proto")>>
TransportKeys ==
    <<Source({"sourceTransportPort"}, "ports", 2),
      Destination({"destinationTransportPort"}, "ports", 2)>>
LinkKeys ==
    <<Source({"sourceMacAddress"}, "mac", 3), Destination({"destinationMacAddress"}, "mac", 3),
      Unidirectional("ethernetType", "ether"), Unidirectional("vlanID", "vlan")>>

\* It is registered by a prefix; windows of one duration are enough here.
TimeKeys == <<Unidirectional("__timeWindow", "window")>>

KeyRegistry == NetworkKeys \o TransportKeys \o LinkKeys \o TimeKeys

FiveTupleKeys == 1 .. 5

\* Registration does not panic: no name is registered twice, and a pair is a source and
\* a destination (of one layer, as they are of one field).
ASSUME RegistryAssumption ==
    \A a, b \in DOMAIN KeyRegistry : a # b =>
        LET first == KeyRegistry[a]
            second == KeyRegistry[b]
        IN  /\ first.names \cap second.names = {}
            /\ first.pair # 0 /\ first.pair = second.pair =>
                {first.type, second.type} = {"source", "destination"} /\ first.field = second.field

--------------------------------------------------------------------------------
(* MakeDynamicKeySelector                                                    *)

\* Names that are registered as strings come before those that match a prefix.
KeyOf(name) == CHOOSE id \in DOMAIN KeyRegistry : name \in KeyRegistry[id].names

KeyIds(key) == {KeyOf(key[i]) : i \in DOMAIN key}

\* It panics for names that are unknown or that mean the same key.
MakeSucceeds(key) ==
    /\ \A i \in DOMAIN key : \E id \in DOMAIN KeyRegistry : key[i] \in KeyRegistry[id].names
    /\ Cardinality(KeyIds(key)) = Len(key)

\* The pairs of which both ends are in the key, and the other keys in their order.
Partner(id) ==
    {d \in DOMAIN KeyRegistry \ {id} :
        KeyRegistry[d].pair # 0 /\ KeyRegistry[d].pair = KeyRegistry[id].pair}
PairedSources(key) ==
    {id \in KeyIds(key) : KeyRegistry[id].type = "source" /\ Partner(id) \cap KeyIds(key) # {}}
Paired(key) == UNION {{id} \cup Partner(id) : id \in PairedSources(key)}

Orders(S) == {s \in [1 .. Cardinality(S) -> S] : Cardinality(Range(s)) = Cardinality(S)}

\* The selectors the code may make: it takes the pairs from a Go map, in any order.
Selectors(key, bidirectional, allowZero) ==
    LET ids(i) == KeyOf(key[i])
        uni(done) == Only([i \in DOMAIN key |-> ids(i)], DOMAIN KeyRegistry \ done)
        selector(sources) ==
            [source |-> sources,
             destination |-> [i \in DOMAIN sources |-> CHOOSE d \in Partner(sources[i]) : TRUE],
             uni |-> uni(IF bidirectional THEN Paired(key) ELSE {}),
             noZero |-> ~allowZero, bidirectional |-> bidirectional,
             fivetuple |-> bidirectional /\ FiveTupleKeys \subseteq KeyIds(key)]
    IN  {selector(s) : s \in Orders(IF bidirectional THEN PairedSources(key) ELSE {})}

--------------------------------------------------------------------------------
(* Key                                                                       *)

\* The window function keeps the start of the current window and its number; start is
\* 0 until a packet has come.
NoWindow == [start |-> 0, id |-> 0]

\* Mutant: the new window starts with its end.
NextWindowAhead(w, duration, time) ==
    LET num == (time - w.start) \div duration
    IN  IF w.start = 0 THEN [w EXCEPT !.start = time]
        ELSE IF w.start + duration < time
        THEN [start |-> w.start + (num + 1) * duration, id |-> w.id + num]
        ELSE w

NextWindow(w, duration, time) ==
    LET num == (time - w.start) \div duration
    IN  IF w.start = 0 THEN [w EXCEPT !.start = time]
        ELSE IF w.start + duration < time
        THEN [start |-> w.start + num * duration, id |-> w.id + num]
        ELSE w

\* What the function of a key writes: the part that is ordered and the part that is not.
Sorted(value) == [sort |-> value, plain |-> <<>>]
Unsorted(value) == [sort |-> <<>>, plain |-> value]
End(id) == IF KeyRegistry[id].type = "source" THEN "src" ELSE "dst"

AddressKey(id, p) == Sorted(p.ip[End(id)])
MacAddressKey(id, p) == Sorted(p.mac[End(id)])

\* An ICMP packet looks like a transport layer whose source port is 0 and whose
\* destination port is type and code; neither is ordered.
NoPort == <<0>>
ICMPFlow(p) == [src |-> NoPort, dst |-> p.icmp]
TransportPortKey(id, p) ==
    IF p.icmp = <<>> THEN Sorted(p.ports[End(id)]) ELSE Unsorted(ICMPFlow(p)[End(id)])

KeyFunc(id, p, window) ==
    LET field == KeyRegistry[id].field
    IN  CASE field = "ip" -> AddressKey(id, p)
          [] field = "ports" -> TransportPortKey(id, p)
          [] field = "mac" -> MacAddressKey(id, p)
          [] field = "window" -> Sorted(<<window>>)
          [] OTHER -> Sorted(p[field])

\* bytes.Compare(s, t) > 0
Greater(s, t) ==
    \E n \in 1 .. Len(s) :
        /\ \A i \in 1 .. n - 1 : i <= Len(t) /\ s[i] = t[i]
        /\ n <= Len(t) => s[n] > t[n]

\* Mutant: the ends are not ordered.
InOrderAlways(s, t) == <<s \o t, TRUE>>

\* The smaller end comes first; forward is whether that is the source.
InOrder(s, t) == IF Greater(s, t) THEN <<t \o s, FALSE>> ELSE <<s \o t, TRUE>>

\* All functions of a selector, in the order of their calls, and those that give nothing
\* where that is an error.
KeyFuncs(selector) == selector.source \o selector.destination \o selector.uni
Empty(value) == value.sort = <<>> /\ value.plain = <<>>
Missing(selector, p, window) ==
    {i \in DOMAIN KeyFuncs(selector) :
        selector.noZero /\ Empty(KeyFunc(KeyFuncs(selector)[i], p, window))}

\* The window function is called only if no key before it was missing.
WindowReached(selector, p) ==
    \E i \in DOMAIN KeyFuncs(selector) :
        /\ KeyRegistry[KeyFuncs(selector)[i]].field = "window"
        /\ \A j \in Missing(selector, p, 0) : i < j
WindowAfter(selector, duration, window, p) ==
    IF WindowReached(selector, p) THEN NextWindow(window, duration, p.time) ELSE window

\* What some of the functions write, one after the other.
SortPart(ids, p, window) == FlattenSeq([i \in DOMAIN ids |-> KeyFunc(ids[i], p, window).sort])
PlainPart(ids, p, window) == FlattenSeq([i \in DOMAIN ids |-> KeyFunc(ids[i], p, window).plain])
BothParts(ids, p, window) ==
    FlattenSeq([i \in DOMAIN ids |->
        KeyFunc(ids[i], p, window).plain \o KeyFunc(ids[i], p, window).sort])

\* The key of p, whether p goes forward, whether there is a key, and what the window
\* function makes of its window.
Key(selector, duration, window, p) ==
    LET next == WindowAfter(selector, duration, window, p)
        ends == InOrder(SortPart(selector.source, p, next.id),
                        SortPart(selector.destination, p, next.id))
        rest == PlainPart(selector.source \o selector.destination, p, next.id)
                    \o BothParts(selector.uni, p, next.id)
    IN  IF Missing(selector, p, next.id) # {}
        THEN [ok |-> FALSE, key |-> <<>>, forward |-> TRUE, window |-> next]
        ELSE [ok |-> TRUE, key |-> ends[1] \o rest, forward |-> ends[2], window |-> next]

--------------------------------------------------------------------------------
(* What a key is for.                                                        *)

\* The parts of a packet that the key features name, by end and without an end.
EndOf(key, p, end) ==
    [id \in PairedSources(key) |->
        IF KeyRegistry[id].field = "ports" /\ p.icmp # <<>> THEN <<>>
        ELSE p[KeyRegistry[id].field][end]]
Rest(key, p, window, done) ==
    [id \in KeyIds(key) |->
        LET k == KeyFunc(id, p, window)
        IN  IF id \in done THEN k.plain ELSE <<k.plain, k.sort>>]

\* Two packets belong to one flow if they agree in everything the key features name;
\* with bidirectional flows the ends may have changed places.  (Keys are compared, so
\* the windows are numbers.)
SameFlow(key, bidirectional, p, pw, q, qw) ==
    LET done == IF bidirectional THEN Paired(key) ELSE {}
        same(a, b) == EndOf(key, p, a) = EndOf(key, q, b)
    IN  /\ Rest(key, p, pw, done) = Rest(key, q, qw, done)
        /\ \/ same("src", "src") /\ same("dst", "dst")
           \/ bidirectional /\ same("src", "dst") /\ same("dst", "src")
================================================================================
