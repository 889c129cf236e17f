------------------------------ MODULE NaturalSort ------------------------------
(*****************************************************************************)
(* The natural merge sort of sortWorker (flows/exporter.go) for the batches  *)
(* of export records that a table with expiry sorting hands over.  A list of *)
(* linked records is the sequence of its records from the head; a record is  *)
(* its sort key (expiryTime, packetID, recordID), a number here.  The number *)
(* of passes given to Repeat is one that no loop needs more of.              *)
(*****************************************************************************)
EXTENDS Integers, Sequences, Loops

Lists == Seq(Nat)

\* The last position of the ascending run that starts at position i.
RunEnd(list, i) ==
    LET breaks == {j \in i .. Len(list) - 1 : ~(list[j] < list[j + 1])}
    IN  IF breaks = {} THEN Len(list) ELSE CHOOSE j \in breaks : \A k \in breaks : j <= k

\* The sublist that starts at position i: an ascending run, or two elements out of order,
\* taken together and swapped; and the position behind it.
SwapsAt(list, i) == i < Len(list) /\ RunEnd(list, i) = i
Sublist(list, i) ==
    IF SwapsAt(list, i) THEN <<list[i + 1], list[i]>> ELSE SubSeq(list, i, RunEnd(list, i))
NextStart(list, i) == IF SwapsAt(list, i) THEN i + 2 ELSE RunEnd(list, i) + 1

Scans == [heads : Seq(Lists), at : Nat \ {0}]
Scan(list) ==
    [s \in Scans |->
        IF s.at > Len(list) THEN s
        ELSE [heads |-> Append(s.heads, Sublist(list, s.at)), at |-> NextStart(list, s.at)]]
findNaturalSublists ==
    [list \in Lists |-> Repeat(Scan(list), [heads |-> <<>>, at |-> 1], Len(list)).heads]

\* The two lists merged, b first when the keys are equal; what is left of one is appended.
Merges == [a : Lists, b : Lists, ret : Lists]
TakeFirst ==
    [m \in Merges |->
        IF m.a = <<>> \/ m.b = <<>> THEN m
        ELSE IF Head(m.a) < Head(m.b)
        THEN [a |-> Tail(m.a), b |-> m.b, ret |-> Append(m.ret, Head(m.a))]
        ELSE [a |-> m.a, b |-> Tail(m.b), ret |-> Append(m.ret, Head(m.b))]]
Joined == [m \in Merges |-> m.ret \o m.a \o m.b]
mergeSublist ==
    [l \in Lists \X Lists |->
        Joined[Repeat(TakeFirst, [a |-> l[1], b |-> l[2], ret |-> <<>>], Len(l[1]) + Len(l[2]))]]

\* Mutant: the list before the odd one is kept in its place.
MergeRoundOffByOne(heads) ==
    [i \in 1 .. (Len(heads) + 1) \div 2 |->
        IF 2 * i > Len(heads) THEN heads[2 * i - 2]
        ELSE mergeSublist[<<heads[2 * i - 1], heads[2 * i]>>]]

\* One round over the heads: neighbours are merged, an odd one out is kept.
MergeRound(heads) ==
    [i \in 1 .. (Len(heads) + 1) \div 2 |->
        IF 2 * i > Len(heads) THEN heads[2 * i - 1]
        ELSE mergeSublist[<<heads[2 * i - 1], heads[2 * i]>>]]

\* Rounds until two are left, and the merge of the last two.
Round == [heads \in Seq(Lists) |-> IF Len(heads) <= 2 THEN heads ELSE MergeRound(heads)]
MergeAll(heads) ==
    LET last == Repeat(Round, heads, Len(heads)) IN mergeSublist[<<last[1], last[2]>>]
================================================================================
