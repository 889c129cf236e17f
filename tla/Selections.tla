------------------------------- MODULE Selections -------------------------------
(* The elements of a sequence, and those that a loop keeps: the loops of the pool *)
(* and of the export lists take elements out of a list and leave the others in    *)
(* their order.  A recursive function, so that it can be reasoned about.          *)
EXTENDS Integers, Sequences

Elements(s) == {s[i] : i \in 1 .. Len(s)}

\* The elements of K in s, in their order.
Only(s, K) ==
    LET only[n \in 0 .. Len(s)] ==
            IF n = 0 THEN <<>>
            ELSE IF s[n] \in K THEN Append(only[n - 1], s[n]) ELSE only[n - 1]
    IN  only[Len(s)]
================================================================================
