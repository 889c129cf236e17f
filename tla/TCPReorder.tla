------------------------------ MODULE TCPReorder -------------------------------
(*****************************************************************************)
(* The filter feature tcpReorder (modules/features/custom/transport.go) and  *)
(* the record that calls it (flows/record.go).  Each direction of a flow     *)
(* holds copies of the packets that came too early, and hands them on when   *)
(* the hole in front of them is filled, or when the other side has           *)
(* acknowledged them although the packets in the hole were never captured.   *)
(* The copies are references to pooled buffers (see PacketPool): each must   *)
(* be given back exactly once.                                               *)
(*                                                                           *)
(* Sequence numbers are those of TCPSequence.  A packet is reduced to        *)
(* the fields the filter reads; the features behind it, to the order in      *)
(* which packets reach them.                                                 *)
(*****************************************************************************)
EXTENDS Integers, Sequences, FiniteSets, TCPSequence

Seqs == INSTANCE SequencesExt

CONSTANTS
    Packets,      \* packets a flow may receive
    MaxPackets    \* bound: packets the flow receives

\* forward is Forward() of the context; mark is SYN or FIN, which take one number.
PacketType == [tcp : BOOLEAN, forward : BOOLEAN, seq : Sequence, plen : Nat,
               mark : BOOLEAN, ack : Sequence]

ASSUME PacketsAssumption == Packets \subseteq PacketType
ASSUME BoundAssumption == MaxPackets \in Nat

\* A packet with its number, in the order of arrival.
Numbered(packet, n) ==
    [nr |-> n, tcp |-> packet.tcp, forward |-> packet.forward, seq |-> packet.seq,
     plen |-> packet.plen, mark |-> packet.mark, ack |-> packet.ack]

VARIABLES
    filter,    \* [streams, out, copies]: the two directions, the packets handed on,
               \* and how often the buffer of each packet is referenced by the filter
    record,    \* the state of the record: "new", "alive" (and active), "stopped"
    received   \* the packets in the order of arrival (history)

vars == <<filter, record, received>>

--------------------------------------------------------------------------------
(* One direction d of the filter state f; a fragment is a received packet    *)
(* with its number nr.                                                       *)

NewStream == [fragments |-> <<>>, nextSeq |-> InvalidSequence]

Handed(f, p) == [f EXCEPT !.out = Append(@, p)]

Recycle(f, p) == [f EXCEPT !.copies[p.nr] = @ - 1]

\* Mutant: a held packet goes to the end.
PushBack(f, p) ==
    [f EXCEPT !.copies[p.nr] = @ + 1, !.streams[p.forward].fragments = Append(@, p)]

\* push: sort.Stable moves the new fragment up past those it comes after; the last
\* one in the list is the first in sequence.
Push(f, p) ==
    LET held   == f.streams[p.forward].fragments
        passed == {i \in 1 .. Len(held) :
                    \A j \in i .. Len(held) : Difference(p.seq, held[j].seq) < 0}
    IN  [f EXCEPT !.copies[p.nr] = @ + 1,
                  !.streams[p.forward].fragments =
                      Seqs!InsertAt(held, Len(held) + 1 - Cardinality(passed), p)]

ForwardPacket(f, d, p) ==
    Handed([f EXCEPT !.streams[d].nextSeq = Add(@, p.plen + IF p.mark THEN 1 ELSE 0)], p)

\* A fragment p during the walk: what is one number ahead is given back, and handed
\* on only without payload; what is further ahead is passed over; the first one that
\* lies behind stops the walk.
Look(w, d, p) ==
    LET diff == Difference(p.seq, w.f.streams[d].nextSeq)
    IN  IF w.over \/ diff < -1 THEN w
        ELSE IF diff > 0 THEN [w EXCEPT !.over = TRUE]
        ELSE [w EXCEPT
                !.deleted = @ + 1,
                !.f = Recycle(IF diff = 0 \/ p.plen = 0 THEN ForwardPacket(@, d, p) ELSE @, p)]

\* The fragments that are in sequence now, from the end of the list.
Walk(f, d) ==
    LET held == f.streams[d].fragments
        walk[n \in 0 .. Len(held)] ==
            IF n = 0 THEN [f |-> f, deleted |-> 0, over |-> FALSE]
            ELSE Look(walk[n - 1], d, held[Len(held) + 1 - n])
    IN  walk[Len(held)]

\* Mutant: what was handed on stays in the list.
ForwardOldKeeps(f, d) == Walk(f, d).f

\* forwardOld
ForwardOld(f, d) ==
    LET w == Walk(f, d)
    IN  [w.f EXCEPT !.streams[d].fragments = SubSeq(@, 1, Len(@) - w.deleted)]

\* Mutant: the fragments behind the acknowledged one are forgotten.
MaybeForwardOldDropsRest(f, d, ack) ==
    LET held == f.streams[d].fragments
        zero == held[Len(held)]
    IN  IF held = <<>> \/ Difference(zero.seq, ack) < 0 THEN f
        ELSE Recycle(ForwardPacket([f EXCEPT !.streams[d] =
                        [fragments |-> <<>>, nextSeq |-> zero.seq]], d, zero), zero)

\* maybeForwardOld: the other side has acknowledged the first fragment.
MaybeForwardOld(f, d, ack) ==
    LET held == f.streams[d].fragments
        zero == held[Len(held)]
        u    == ForwardPacket([f EXCEPT !.streams[d].nextSeq = zero.seq], d, zero)
    IN  IF held = <<>> \/ Difference(zero.seq, ack) < 0 THEN f
        ELSE ForwardOld([Recycle(u, zero) EXCEPT !.streams[d].fragments =
                            SubSeq(@, 1, Len(@) - 1)], d)

--------------------------------------------------------------------------------
Started == [streams |-> [d \in BOOLEAN |-> NewStream], out |-> <<>>,
            copies |-> [n \in 1 .. MaxPackets |-> 0]]

\* tcpReorder.Event for packet p
FilterEvent(f, p) ==
    LET d    == p.forward
        u    == MaybeForwardOld(f, ~d, p.ack)
        at   == u.streams[d].nextSeq
        diff == Difference(at, p.seq)
        first == [u EXCEPT !.streams[d].nextSeq = p.seq]
    IN  IF ~p.tcp THEN Handed(f, p)
        ELSE IF at = InvalidSequence THEN ForwardPacket(first, d, p)
        ELSE IF diff = 0 THEN ForwardOld(ForwardPacket(u, d, p), d)
        ELSE IF diff > 0 THEN Push(u, p)
        ELSE IF diff = -1 /\ p.plen = 0 THEN Handed(u, p)
        ELSE u

\* tcpReorder.Stop: every fragment is given back.
GiveBack(f, d) ==
    LET held == f.streams[d].fragments
    IN  [f EXCEPT !.copies = [n \in 1 .. MaxPackets |->
                                @[n] - Cardinality({i \in 1 .. Len(held) : held[i].nr = n})]]

Init == filter = Started /\ record = "new" /\ received = <<>>

\* record.Event: the filter is started with the first packet.
Event(packet) ==
    LET p == Numbered(packet, Len(received) + 1)
    IN  /\ record # "stopped" /\ Len(received) < MaxPackets
        /\ record' = "alive"
        /\ filter' = FilterEvent(IF record = "new" THEN Started ELSE filter, p)
        /\ received' = Append(received, p)

\* record.Export and stop: the record is active, since the first packet of a flow
\* always passes the filter.
Export ==
    /\ record = "alive"
    /\ record' = "stopped"
    /\ filter' = GiveBack(GiveBack(filter, TRUE), FALSE)
    /\ UNCHANGED received

Next == (\E packet \in Packets : Event(packet)) \/ Export

Spec == Init /\ [][Next]_vars

--------------------------------------------------------------------------------
(* Properties.                                                               *)

HeldNrs(f) == UNION {{f.streams[d].fragments[i].nr : i \in DOMAIN f.streams[d].fragments} :
                        d \in BOOLEAN}

\* The buffer of a packet is referenced exactly while the packet is in one of the
\* lists, and by nothing once the record has ended: no copy is leaked, and none is
\* given back twice, which would recycle a buffer that is in use.
CopiesReturned ==
    \A n \in 1 .. MaxPackets :
        filter.copies[n] = IF record # "stopped" /\ n \in HeldNrs(filter) THEN 1 ELSE 0

--------------------------------------------------------------------------------
(* What the order of packets promises.                                       *)

\* How far t is after s on the ring of sequence numbers, at most half way around.
Distance(s, t) ==
    LET ahead == (t - s) % uint32Size
    IN  IF ahead <= uint32Size \div 2 THEN ahead ELSE ahead - uint32Size

Length(p) == p.plen + IF p.mark THEN 1 ELSE 0
End(p) == Add(p.seq, Length(p))

\* Two segments that neither overlap nor leave a hole of one number; packets without
\* payload are apart only from each other.
Apart(p, q) ==
    \/ Length(p) = 0 /\ Length(q) = 0
    \/ /\ Length(p) > 0 /\ Length(q) > 0
       /\ \/ Distance(End(p), q.seq) \in {0} \cup 2 .. uint32Size
          \/ Distance(End(q), p.seq) \in {0} \cup 2 .. uint32Size

\* No retransmissions and no empty packets among the segments of a direction.
CleanStreams ==
    \A i, j \in 1 .. Len(received) :
        i < j /\ received[i].tcp /\ received[j].tcp /\ received[i].forward = received[j].forward
            => Apart(received[i], received[j])

OutOf(d) == SelectSeq(filter.out, LAMBDA p : p.tcp /\ p.forward = d /\ Length(p) > 0)

\* "returns tcp packets ordered by sequence number": whatever order packets arrive in,
\* the segments of each direction reach the features in the order of their sequence
\* numbers.
OrderedBySequence ==
    \A d \in BOOLEAN : \A a, b \in 1 .. Len(OutOf(d)) :
        a < b => Distance(OutOf(d)[a].seq, OutOf(d)[b].seq) >= 0

\* For streams without retransmissions, empty packets or holes of one number: segments
\* are handed on in order, and a hole is skipped only if the other side acknowledged
\* what lies behind it.
InOrderWhenClean ==
    CleanStreams =>
        /\ OrderedBySequence
        /\ \A d \in BOOLEAN : \A a \in 1 .. Len(OutOf(d)) - 1 :
            \/ End(OutOf(d)[a]) = OutOf(d)[a + 1].seq
            \/ \E i \in 1 .. Len(received) :
                /\ received[i].tcp /\ received[i].forward # d
                /\ Distance(OutOf(d)[a + 1].seq, received[i].ack) >= 0

\* ... and a packet that was held is handed on before its copy is given back, unless
\* the record ends.
HeldIsForwarded ==
    [][CleanStreams' /\ record' # "stopped" =>
        \A n \in HeldNrs(filter) :
            n \in HeldNrs(filter') \/ \E i \in 1 .. Len(filter'.out) : filter'.out[i].nr = n]_vars
================================================================================
