------------------------------ MODULE MCPacketInput ------------------------------
(* Instances of PacketInput for TLC. *)
EXTENDS PacketInput

NoEnds == [src |-> <<>>, dst |-> <<>>]
Ends(a, b) == [src |-> a, dst |-> b]

Plain == [mac |-> Ends(<<1>>, <<2>>), ip |-> NoEnds, ports |-> NoEnds, icmp |-> <<>>,
          vlan |-> <<>>, ether |-> <<4>>, proto |-> <<0>>, time |-> 1,
          bad |-> FALSE, bpf |-> TRUE, decodes |-> TRUE]
Timed(t) == [Plain EXCEPT !.time = t]

Run == [sources |-> <<>>, key |-> <<>>, bidirectional |-> FALSE, allowZero |-> TRUE,
        duration |-> 2, filters |-> <<>>, labels |-> <<>>,
        stop |-> FALSE]

\* Keys: two packets of any kind, addresses of two versions.
Addresses == {<<1, 1>>, <<1, 2>>}
Ports == {<<1>>, <<2>>}
IP(s, d) == [Plain EXCEPT !.ip = Ends(s, d), !.proto = <<7>>]
UDP(s, d, sp, dp) == [IP(s, d) EXCEPT !.ports = Ends(sp, dp), !.proto = <<6>>]
ICMP(s, d, type) == [IP(s, d) EXCEPT !.icmp = type, !.proto = <<1>>]
KeyPackets ==
    {UDP(s, d, sp, dp) : s \in Addresses, d \in Addresses, sp \in Ports, dp \in Ports}
    \cup {ICMP(s, d, t) : s \in Addresses, d \in Addresses, t \in Ports}
    \cup {IP(s, d) : s \in Addresses, d \in Addresses}
    \cup {UDP(<<0, 0, 0, 0, 0, 0, 0, 1>>, <<0, 0, 0, 0, 0, 0, 0, 2>>, <<1>>, <<2>>),
          [UDP(<<1, 1>>, <<1, 2>>, <<1>>, <<2>>) EXCEPT !.vlan = <<1, 2>>],
          [Plain EXCEPT !.mac = Ends(<<2>>, <<1>>)], Plain}

Firsts == {UDP(<<1, 1>>, <<1, 2>>, <<1>>, <<2>>), UDP(<<1, 1>>, <<1, 1>>, <<2>>, <<1>>),
           ICMP(<<1, 2>>, <<1, 1>>, <<1>>), IP(<<1, 1>>, <<1, 2>>), Plain}

FiveTuple == <<"sourceIPAddress", "destinationIPAddress", "protocolIdentifier",
               "sourceTransportPort", "destinationTransportPort">>
KeyLists ==
    {FiveTuple, <<"destinationTransportPort", "sourceIPv4Address", "protocolIdentifier">>,
     <<"sourceMacAddress", "ethernetType", "destinationMacAddress">>,
     <<"protocolIdentifier", "vlanID", "destinationIPAddress", "sourceIPAddress">>}
KeyRuns ==
    {[Run EXCEPT !.sources = <<<<<<p, q>>>>>>, !.key = key, !.bidirectional = bi,
                 !.allowZero = zero] :
        p \in Firsts, q \in KeyPackets, key \in KeyLists, bi \in BOOLEAN, zero \in BOOLEAN}

\* Windows: four packets at any of some times, behind the address, which may be missing.
Times == {1, 3, 4, 6, 9}
AddressAt(t) == [Timed(t) EXCEPT !.ip = Ends(<<1, 1>>, <<1, 2>>)]
WindowRuns ==
    {[Run EXCEPT !.sources = <<<<<<Timed(t[1]), Timed(t[2]), Timed(t[3]), Timed(t[4])>>>>>>,
                 !.key = <<"ethernetType", "__timeWindow">>] : t \in [1 .. 4 -> Times]}
    \cup {[Run EXCEPT !.sources = <<<<<<Timed(1), AddressAt(4), Timed(t)>>>>>>,
                      !.key = <<"sourceIPAddress", "__timeWindow">>, !.allowZero = FALSE] :
            t \in Times}

\* Labels: four packets, some of them filtered in one way or the other or damaged, and
\* rows for some of them in one or two files, or in two label sources.
Kinds == {Timed(2), Timed(5), [Timed(2) EXCEPT !.bpf = FALSE],
          [Timed(2) EXCEPT !.decodes = FALSE], [Timed(2) EXCEPT !.bad = TRUE]}
Row(n) == [pos |-> n, label |-> n]
Unnumbered(label) == [pos |-> 0, label |-> label]
RowLists == {<<<<<<Row(1), Row(2), Row(3), Row(4)>>>>>>, <<<<<<Row(2)>>, <<Row(3)>>>>>>,
             <<<<<<Row(1), Row(2)>>>>, <<<<Row(3), Row(4)>>>>>>,
             <<<<<<Unnumbered(7)>>, <<Unnumbered(8), Unnumbered(9)>>>>>>,
             <<>>}
LabelRuns ==
    {[Run EXCEPT !.sources = <<<<<<k[1], k[2]>>, <<k[3], k[4]>>>>>>, !.labels = rows,
                 !.filters = <<[after |-> 1, before |-> 0], [after |-> 1, before |-> 4]>>] :
        k \in [1 .. 4 -> Kinds], rows \in RowLists}

\* Three sources of one or two files, and an interrupt at any time.
StopRuns ==
    {[Run EXCEPT !.stop = TRUE,
          !.sources = <<<<<<Timed(1)>>, <<Timed(2)>>>>, <<<<Timed(3), Timed(3)>>>>,
                        <<<<Timed(4)>>>>>>],
     [Run EXCEPT !.sources = <<<<<<Timed(1)>>>>,
                               <<<<[Timed(2) EXCEPT !.bpf = FALSE], Timed(2)>>>>>>]}

AllInputs == KeyRuns \cup WindowRuns \cup LabelRuns \cup StopRuns
================================================================================
