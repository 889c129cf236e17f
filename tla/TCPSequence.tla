----------------------------- MODULE TCPSequence ------------------------------
(* Sequence numbers (modules/features/tcp.go), with uint32Size as a parameter, *)
(* so that small instances wrap around.                                        *)
EXTENDS Integers

CONSTANT uint32Size   \* 2^32 in the code
ASSUME SizeAssumption == uint32Size \in Nat /\ uint32Size >= 4 /\ uint32Size % 4 = 0

Sequence == 0 .. uint32Size - 1
InvalidSequence == -1

\* Difference: how far t is after s; the last quarter is before the first one.
Difference(s, t) ==
    LET quarter == uint32Size \div 4
        last(x)  == x > uint32Size - quarter
        first(x) == x < quarter
    IN  IF last(s) /\ first(t) THEN t + uint32Size - s
        ELSE IF last(t) /\ first(s) THEN t - (s + uint32Size)
        ELSE t - s

Add(s, n) == (s + n) % uint32Size
================================================================================
