----------------------------- MODULE PacketFields ------------------------------
(*****************************************************************************)
(* What features read from one packet (modules/features/iana, custom, nta,   *)
(* staging): the values, none if the packet lacks the layer, as the sequence *)
(* in which they are set.  Names are those of the features, without leading  *)
(* underscores.                                                              *)
(*                                                                           *)
(* A packet has the records link, network, transport and dns, each with its  *)
(* kind ("none" if it is missing), the fields that packet.Buffer and the     *)
(* context add, and vlans, the sequence of its VLAN tags.  A field is a      *)
(* value.                                                                    *)
(*****************************************************************************)
EXTENDS Values, Sequences, SequencesExt, FiniteSetsExt

CONSTANTS
    MaxLength,   \* 65535 in the code: longer packets are jumbograms
    IDSpace,     \* 2^56 in the code: what the number of a flow leaves for its table
    Flow         \* [id, table]: the flow whose record this is

IP == {"ip4", "ip6"}
TCP == {"tcp"}
Ethernet == {"ethernet"}

Some(v) == IF v = Nil THEN <<>> ELSE <<v>>

\* A field of a layer, if the packet has one of those kinds.
Read(layer, kinds, field) == IF layer.kind \in kinds THEN Some(layer[field]) ELSE <<>>

--------------------------------------------------------------------------------
(* iana/link.go, custom/link.go                                              *)

layer2OctetTotalCount(p) == <<p.linkLength>>
ethernetType(p) == <<p.etherType>>
MACs == [sourceMacAddress |-> "src", destinationMacAddress |-> "dst"]

\* The fields of the outermost tag.
VLAN == [dot1qVlanId |-> "id", dot1qPriority |-> "priority"]
Tagged(p, field) == IF p.vlans = <<>> THEN <<>> ELSE <<p.vlans[1][field]>>

sllAddr(p) == Read(p.link, {"sll"}, "src")

--------------------------------------------------------------------------------
(* iana/network.go, custom/network.go, iana/general.go, nta/nta.go           *)

sourceIPAddress(p) == Read(p.network, IP, "src")
destinationIPAddress(p) == Read(p.network, IP, "dst")
protocolIdentifier(p) == <<p.proto>>
octetTotalCount(p) == <<p.networkLength>>

\* A jumbogram carries its length in an option; an option without need is ignored.
ipTotalLength(p) ==
    LET jumbo == Read(p.network, {"ip6"}, "jumbo")
    IN  IF jumbo # <<>> /\ jumbo[1][2] > MaxLength THEN jumbo
        ELSE Read(p.network, IP, "length")

ipTTL(p) == Read(p.network, IP, "ttl")
ipClassOfService(p) == Read(p.network, IP, "tos")

\* Fields that only version 4 has, the version among them.
IPv4Fields == [fragmentFlags |-> "flags", fragmentIdentification |-> "id",
               fragmentOffset |-> "offset", ipVersion |-> "version",
               ipHeaderLength |-> "headerLength"]
ipChecksum(p) == Read(p.network, {"ip4"}, "checksum")

\* The direction of a flow is the order of its first packet's addresses; that of a
\* packet is relative to the flow.
flowDirectionFlow(p) == <<Boolean(p.lowToHigh)>>
flowDirectionPacket(p) == <<Boolean(p.forward)>>
flowId == <<Uint((Flow.id % IDSpace) + (Flow.table * IDSpace))>>
NTAFlowID(p) ==
    IF p.network.kind = "none" THEN <<>> ELSE <<<<"pair", <<p.network.src, p.network.dst>>>>>>
flowKey == <<<<"key", Flow>>>>
label(p) == Some(p.label)

--------------------------------------------------------------------------------
(* iana/transport.go, custom/transport.go                                    *)

\* packet/icmp.go makes type and code the destination port, and the source port zero.
Ports == {"tcp", "udp", "icmp"}
sourceTransportPort(p) == Read(p.transport, Ports, "src")
destinationTransportPort(p) == Read(p.transport, Ports, "dst")

Bits == [FIN |-> 1, SYN |-> 2, RST |-> 4, PSH |-> 8, ACK |-> 16, URG |-> 32,
         ECE |-> 64, CWR |-> 128, NS |-> 256]

GetTCP(p) == p.transport.kind = "tcp"
Has(p, flag) == GetTCP(p) /\ flag \in p.transport.flags

tcpControlBits(p) ==
    IF GetTCP(p) THEN <<Uint(MapThenSumSet(LAMBDA b : Bits[b], p.transport.flags))>> ELSE <<>>

\* The flags that are counted: one or zero for each TCP packet.
ConnectionFlags == [tcpSynTotalCount |-> "SYN", tcpFinTotalCount |-> "FIN",
                    tcpRstTotalCount |-> "RST"]
DataFlags == [tcpPshTotalCount |-> "PSH", tcpAckTotalCount |-> "ACK",
              tcpUrgTotalCount |-> "URG"]
CongestionFlags == [tcpEceTotalCount |-> "ECE", tcpCwrTotalCount |-> "CWR",
                    tcpNsTotalCount |-> "NS"]
BoolInt(b) == Uint(IF b THEN 1 ELSE 0)
Flagged(p, flag) == IF GetTCP(p) THEN <<BoolInt(Has(p, flag))>> ELSE <<>>

TCPFields == [tcpWindowSize |-> "window", tcpUrgentPointer |-> "urgent",
              tcpOptions |-> "options", tcpAcknowledgementNumber |-> "ack",
              tcpHeaderLength |-> "headerLength", tcpChecksum |-> "checksum"]

\* The letters of the flags, of a flow those of its last packet.
tcpFlags(p) == <<<<"flags", IF GetTCP(p) THEN p.transport.flags ELSE {}>>>>

--------------------------------------------------------------------------------
(* custom/application.go                                                     *)

payload(p) ==
    IF p.transport.kind = "none" \/ p.payload.length = 0 THEN <<>> ELSE <<p.payload.data>>

\* The message in a payload that decodes; over TCP, behind its length of two bytes.
GetDNS(p) ==
    IF p.transport.kind = "none" \/ (GetTCP(p) /\ p.payload.length <= 2)
    THEN [kind |-> "none"] ELSE p.dns

DNSHeader == [dnsID |-> "id", dnsQR |-> "qr", dnsResponseCode |-> "code"]
DNSQuestion == [dnsDomain |-> "name", dnsType |-> "type", dnsClass |-> "class"]
DNSAnswer == [dnsAnsName |-> "name", dnsAnsType |-> "type", dnsAnsClass |-> "class",
              dnsAnsTTL |-> "ttl", dnsAnsDataLength |-> "length"]
DNSCounts == [dnsQDCount |-> "qd", dnsANCount |-> "an", dnsNSCount |-> "ns",
              dnsARCount |-> "ar"]

\* One value for each question or answer.
Listed(dns, list, field) ==
    IF dns.kind = "none" THEN <<>> ELSE [i \in DOMAIN dns[list] |-> dns[list][i][field]]

--------------------------------------------------------------------------------
(* All of them by name.                                                      *)

LinkField(name, p) ==
    CASE name = "layer2OctetTotalCount" -> layer2OctetTotalCount(p)
      [] name = "ethernetType" -> ethernetType(p)
      [] name \in DOMAIN MACs -> Read(p.link, Ethernet, MACs[name])
      [] name \in DOMAIN VLAN -> Tagged(p, VLAN[name])
      [] name = "sllAddr" -> sllAddr(p)
LinkFields == {"layer2OctetTotalCount", "ethernetType", "sllAddr"} \cup DOMAIN MACs \cup DOMAIN VLAN

NetworkField(name, p) ==
    CASE name = "sourceIPAddress" -> sourceIPAddress(p)
      [] name = "destinationIPAddress" -> destinationIPAddress(p)
      [] name = "protocolIdentifier" -> protocolIdentifier(p)
      [] name = "octetTotalCount" -> octetTotalCount(p)
      [] name = "ipTotalLength" -> ipTotalLength(p)
      [] name = "ipTTL" -> ipTTL(p)
      [] name = "ipClassOfService" -> ipClassOfService(p)
      [] name \in DOMAIN IPv4Fields -> Read(p.network, {"ip4"}, IPv4Fields[name])
      [] name = "ipChecksum" -> ipChecksum(p)
NetworkFields ==
    {"sourceIPAddress", "destinationIPAddress", "protocolIdentifier", "octetTotalCount",
     "ipTotalLength", "ipTTL", "ipClassOfService", "ipChecksum"} \cup DOMAIN IPv4Fields

CountedFlags == DOMAIN ConnectionFlags \cup DOMAIN DataFlags \cup DOMAIN CongestionFlags
FlagOf(name) ==
    CASE name \in DOMAIN ConnectionFlags -> ConnectionFlags[name]
      [] name \in DOMAIN DataFlags -> DataFlags[name]
      [] name \in DOMAIN CongestionFlags -> CongestionFlags[name]

TransportField(name, p) ==
    CASE name = "sourceTransportPort" -> sourceTransportPort(p)
      [] name = "destinationTransportPort" -> destinationTransportPort(p)
      [] name = "tcpControlBits" -> tcpControlBits(p)
      [] name = "tcpFlags" -> tcpFlags(p)
      [] name \in CountedFlags -> Flagged(p, FlagOf(name))
      [] name \in DOMAIN TCPFields -> Read(p.transport, TCP, TCPFields[name])
TransportFields ==
    {"sourceTransportPort", "destinationTransportPort", "tcpControlBits", "tcpFlags"}
    \cup CountedFlags \cup DOMAIN TCPFields

ApplicationField(name, p) ==
    CASE name = "payload" -> payload(p)
      [] name \in DOMAIN DNSHeader -> Read(GetDNS(p), {"dns"}, DNSHeader[name])
      [] name \in DOMAIN DNSCounts -> Read(GetDNS(p), {"dns"}, DNSCounts[name])
      [] name \in DOMAIN DNSQuestion -> Listed(GetDNS(p), "questions", DNSQuestion[name])
      [] name \in DOMAIN DNSAnswer -> Listed(GetDNS(p), "answers", DNSAnswer[name])
ApplicationFields ==
    {"payload"} \cup DOMAIN DNSHeader \cup DOMAIN DNSCounts \cup DOMAIN DNSQuestion
    \cup DOMAIN DNSAnswer

\* The values of a packet for a field.
Field(name, p) ==
    CASE name \in LinkFields -> LinkField(name, p)
      [] name \in NetworkFields -> NetworkField(name, p)
      [] name \in TransportFields -> TransportField(name, p)
      [] name \in ApplicationFields -> ApplicationField(name, p)
      [] name = "flowDirection" -> flowDirectionPacket(p)
      [] name = "firstDirection" -> flowDirectionFlow(p)
      [] name = "flowId" -> flowId
      [] name = "NTAFlowID" -> NTAFlowID(p)
      [] name = "flowKey" -> flowKey
      [] name = "label" -> label(p)
================================================================================
