---------------------------- MODULE PacketDecoder -----------------------------
(*****************************************************************************)
(* assign and decode of packet/buffer.go: how a buffer that was used before  *)
(* gets the layers of the next packet.  What is read from a layer is behind  *)
(* the pointers link, network and transport; they are what counts here.      *)
(*                                                                           *)
(* A packet is [first, link, tags, network, extensions, transport, payload,  *)
(* caught, length, cut]: kind and headers of its layers as gopacket finds    *)
(* them, each with size, whether it can be decoded and whether it announces  *)
(* more data than there is (short), "none" where the data ends.              *)
(*****************************************************************************)
EXTENDS Integers, Sequences, SequencesExt

CONSTANTS
    Frames,       \* the packets that are decoded
    JumboLimit    \* 65535 in the code

VARIABLES
    buffer,    \* a buffer of the pool: [link, network, transport, proto, ip6headers,
               \* ethertype, dot1q, ip4Length, ci]
    packet,    \* the packet it was last filled with
    decoded    \* how decode ended: "accepted", "rejected", or "panicked"

decoderVars == <<buffer, packet, decoded>>

NoLayer == [kind |-> "none", size |-> 0]
NewBuffer ==
    [link |-> NoLayer, network |-> NoLayer, transport |-> NoLayer, proto |-> 0,
     ip6headers |-> 0, ethertype |-> "none", dot1q |-> <<>>,
     ci |-> [caught |-> 0, truncated |-> FALSE]]

SizeOf(layers) == FoldLeft(LAMBDA n, l : n + l.size, 0, layers)

--------------------------------------------------------------------------------
\* More was on the wire than was caught, or was caught than fits the buffer.
CutShort(p) == p.caught < p.length \/ p.cut

\* Mutant: the packet before lends its transport layer.
assignOver(b, p) ==
    [b EXCEPT !.link = NoLayer, !.network = NoLayer, !.proto = 0, !.ip6headers = 0,
              !.ci = [caught |-> p.caught, truncated |-> CutShort(p)]]

\* assign: neither ethertype nor dot1q is reset.
assign(b, p) ==
    [b EXCEPT !.link = NoLayer, !.network = NoLayer, !.transport = NoLayer, !.proto = 0,
              !.ip6headers = 0, !.ci = [caught |-> p.caught, truncated |-> CutShort(p)]]

\* A decoding step rejects the packet, or accepts it as the last one, or goes on.
Fails(b) == [outcome |-> "rejected", b |-> b]
Done(b) == [outcome |-> "accepted", b |-> b]
Panics(b) == [outcome |-> "panicked", b |-> b]

\* A layer that announces more data than there is marks the packet.
SetTruncated(b, layer) == [b EXCEPT !.ci.truncated = @ \/ layer.short]

\* The layers of TCP, UDP and ICMP; a TCP option that cannot be read is tolerated.
DecodeTransport(b, p) ==
    IF p.transport.kind \notin {"udp", "tcp", "icmp4", "icmp6"} THEN Done(b)
    ELSE IF p.transport.ok \/ (p.transport.kind = "tcp" /\ p.transport.badOption)
    THEN Done(SetTruncated([b EXCEPT !.transport = p.transport], p.transport))
    ELSE Fails(b)

\* Extension headers are skipped, counted, and followed to the protocol behind them.
RECURSIVE SkipExtensions(_, _, _)
SkipExtensions(b, p, extensions) ==
    IF extensions = <<>> THEN DecodeTransport(b, p)
    ELSE IF ~Head(extensions).ok THEN Fails(b)
    ELSE SkipExtensions([b EXCEPT !.proto = Head(extensions).next,
                                  !.ip6headers = @ + Head(extensions).size],
                        p, Tail(extensions))

\* A length of zero is made up from what was caught if the packet is truncated, and from
\* the data of the layer (by gopacket) if not.
FixedLength(b, p) ==
    [p.network EXCEPT !.length =
        IF @ # 0 THEN @
        ELSE IF b.ci.truncated THEN b.ci.caught - b.link.size ELSE p.network.data]

\* IP, whose next is the protocol behind hop-by-hop options: a bad option of version 4
\* is tolerated.  Behind tags nobody looks whether there is data for it.
DecodeNetwork(b, p) ==
    LET marked == SetTruncated(b, p.network)
    IN  CASE p.network.kind = "ip4" ->
                IF p.network.ok \/ p.network.badOption
                THEN DecodeTransport([marked EXCEPT !.network = FixedLength(marked, p),
                                                    !.proto = p.network.next], p)
                ELSE Fails(b)
          [] p.network.kind = "ip6" ->
                IF p.network.ok
                THEN SkipExtensions([marked EXCEPT !.network = p.network,
                                                   !.proto = p.network.next],
                                    p, p.extensions)
                ELSE Fails(b)
          [] p.network.kind = "none" -> IF b.ethertype = "ip" THEN Fails(b) ELSE Done(b)
          [] OTHER -> Done(b)

RECURSIVE DecodeTags(_, _, _)
DecodeTags(b, p, tags) ==
    IF tags = <<>> THEN DecodeNetwork(b, p)
    ELSE IF ~Head(tags).ok THEN Fails([b EXCEPT !.dot1q = Append(@, Head(tags))])
    ELSE DecodeTags([b EXCEPT !.dot1q = Append(@, Head(tags)), !.ethertype = Head(tags).type],
                    p, Tail(tags))

\* A packet without data behind the link layer returns before the tags are dropped.
AfterLink(b, p) ==
    IF p.tags = <<>> /\ p.network.kind = "none" THEN Done(b)
    ELSE DecodeTags([b EXCEPT !.dot1q = <<>>], p, p.tags)

\* LLC or SNAP in an Ethernet frame; what LLC has for a type counts, unless SNAP follows.
DecodeLLC(b, p) ==
    CASE p.link.llc = "none" -> AfterLink(b, p)
      [] p.link.llc = "bad" -> Fails(b)
      [] p.link.llc = "llc" -> AfterLink([b EXCEPT !.ethertype = "saps"], p)
      [] p.link.llc = "bad snap" -> Fails([b EXCEPT !.ethertype = "saps"])
      [] p.link.llc = "snap" -> AfterLink([b EXCEPT !.ethertype = p.link.snapType], p)

\* Raw IP has its version in the first byte, which is read without a look at the length.
decode(b, p) ==
    CASE p.first = "ethernet" ->
            IF p.link.ok
            THEN DecodeLLC(SetTruncated([b EXCEPT !.link = p.link, !.ethertype = p.link.type],
                                        p.link), p)
            ELSE Fails(b)
      [] p.first = "sll" ->
            IF p.link.ok THEN AfterLink([b EXCEPT !.link = p.link], p) ELSE Fails(b)
      [] p.first = "ip" ->
            CASE p.network.kind = "none" -> Panics(b)
              [] p.network.kind \in {"ip4", "ip6"} -> AfterLink(b, p)
              [] OTHER -> Fails(b)

--------------------------------------------------------------------------------
\* The length in a frame of 802.3 counts; else what was caught, with the tags added.
LinkLayerLength(b) ==
    IF b.link.kind = "ethernet" /\ b.link.length # 0 THEN b.link.length
    ELSE b.ci.caught + SizeOf(b.dot1q)

\* Version 6 has the length of its payload, or an option with it if that is too long.
NetworkLayerLength(b) ==
    CASE b.network.kind = "ip4" -> b.network.length
      [] b.network.kind = "ip6" ->
            40 + IF b.network.jumbo > JumboLimit THEN b.network.jumbo ELSE b.network.length
      [] OTHER -> IF b.link.kind = "none" THEN 0 ELSE LinkLayerLength(b) - b.link.size

PayloadLength(b) ==
    IF b.transport.kind = "none" \/ b.network.kind = "none" THEN 0
    ELSE NetworkLayerLength(b) - b.network.size - b.transport.size - b.ip6headers

--------------------------------------------------------------------------------
DecoderInit ==
    /\ buffer = NewBuffer
    /\ packet = [first |-> "none"]
    /\ decoded = "nothing"

\* The buffer is taken from the pool for another packet, and decoded; a panic ends the
\* program.
DecodePacket ==
    /\ decoded # "panicked"
    /\ \E p \in Frames :
        LET d == decode(assign(buffer, p), p)
        IN  /\ buffer' = d.b
            /\ packet' = p
            /\ decoded' = d.outcome

--------------------------------------------------------------------------------
\* What a packet is made of, wherever its data ends.  Behind tags that announce IP there
\* must be a header of it.
Undecodable(p) ==
    \/ p.link.kind # "none" /\ ~p.link.ok
    \/ p.link.kind = "ethernet" /\ p.link.llc \in {"bad", "bad snap"}
    \/ \E i \in DOMAIN p.tags : ~p.tags[i].ok
    \/ p.tags # <<>> /\ Last(p.tags).type = "ip" /\ p.network.kind = "none"
    \/ p.first = "ip" /\ p.network.kind = "other"
    \/ p.network.kind \in {"ip4", "ip6"} /\ ~p.network.ok /\ ~p.network.badOption
    \/ \E i \in DOMAIN p.extensions : ~p.extensions[i].ok
    \/ p.transport.kind \notin {"none", "other"} /\ ~p.transport.ok /\ ~p.transport.badOption

EtherTypeOf(p) ==
    IF p.tags # <<>> THEN Last(p.tags).type
    ELSE IF p.link.kind = "ethernet" /\ p.link.llc = "snap" THEN p.link.snapType
    ELSE IF p.link.kind = "ethernet" /\ p.link.llc = "llc" THEN "saps"
    ELSE p.link.type

OnlyHeader(p) == p.tags = <<>> /\ p.network.kind = "none"
Nested(p) == p.tags # <<>> \/ (p.link.kind = "ethernet" /\ p.link.llc # "none")
Known(layer) == IF layer.kind = "other" THEN NoLayer ELSE layer
Unfixed(layer) == IF layer = NoLayer THEN layer ELSE [layer EXCEPT !.length = 0]

\* A buffer speaks for the packet it holds, whatever it was used for before.  decode
\* rejects a packet exactly if one of its layers is broken, and panics for nothing but raw
\* IP without data.  In a packet it accepts, layers and length of the payload are those of
\* the packet, up to the first layer that is missing; so are its ethertype, if it has
\* Ethernet or tags, its tags, if there is data behind the link header, and the length of
\* an IP that has none, if it directly follows the link header.  The other packets are left
\* to TagsOfPacket, EtherTypeOfPacket and LengthOfPacket.
BufferSpeaksForPacket ==
    packet.first # "none" =>
        /\ decoded = "panicked" => packet.first = "ip" /\ packet.network.kind = "none"
        /\ decoded = "rejected" => Undecodable(packet)
        /\ decoded = "accepted" =>
            /\ ~Undecodable(packet)
            /\ buffer.link = packet.link
            /\ Unfixed(buffer.network) = Unfixed(Known(packet.network))
            /\ buffer.transport = Known(packet.transport)
            /\ packet.link.kind = "ethernet" \/ packet.tags # <<>>
               => buffer.ethertype = EtherTypeOf(packet)
            /\ ~OnlyHeader(packet) => buffer.dot1q = packet.tags
            /\ buffer.transport # NoLayer /\ (packet.network.length = 0 => ~Nested(packet))
               => PayloadLength(buffer) = packet.payload

\* As Dot1QLayers is described, it has all tags of the packet, and no others.
TagsOfPacket == decoded = "accepted" => buffer.dot1q = packet.tags

\* As EtherType is described, it has the type of the link layer, where there is one.
EtherTypeOfPacket ==
    decoded = "accepted" /\ packet.link.kind # "none" => buffer.ethertype = EtherTypeOf(packet)

\* As NetworkLayerLength is described, it has the length of header and payload of IP: where
\* the header has none and the buffer holds what was caught, that is what was caught of it.
LengthOfPacket ==
    decoded = "accepted" /\ packet.network.kind = "ip4" /\ packet.network.length = 0
    /\ ~packet.cut
    => NetworkLayerLength(buffer) = packet.network.data
================================================================================
