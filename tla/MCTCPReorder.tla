----------------------------- MODULE MCTCPReorder ------------------------------
(* Instances of TCPReorder: sequence numbers modulo 32, and a stream that starts *)
(* in their last quarter and wraps around.                                       *)
EXTENDS TCPReorder

Segment(seq, plen, mark) ==
    [tcp |-> TRUE, forward |-> TRUE, seq |-> seq, plen |-> plen, mark |-> mark, ack |-> 20]

Ack(ack) ==
    [tcp |-> TRUE, forward |-> FALSE, seq |-> 20, plen |-> 0, mark |-> FALSE, ack |-> ack]

\* Segments 29-30, 31-0, 1-2, and a FIN, acknowledgements of two of them, an empty
\* packet, and one that is not TCP.
MixedPackets ==
    {Segment(29, 2, FALSE), Segment(31, 2, FALSE), Segment(1, 2, FALSE), Segment(3, 0, TRUE),
     Ack(1), Ack(3), Segment(31, 0, FALSE), [Ack(0) EXCEPT !.tcp = FALSE]}

\* Segments and acknowledgements only.
SegmentPackets ==
    {Segment(29, 2, FALSE), Segment(31, 2, FALSE), Segment(1, 2, FALSE), Segment(3, 2, FALSE),
     Ack(1), Ack(3)}
================================================================================
