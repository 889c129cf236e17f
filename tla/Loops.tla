--------------------------------- MODULE Loops ---------------------------------
(* What n passes through the body of a loop make of a state: the body is a function, *)
(* so that a loop can be reasoned about by what every pass keeps.                    *)
EXTENDS Integers

Repeat(body, state, n) ==
    LET after[k \in 0 .. n] == IF k = 0 THEN state ELSE body[after[k - 1]]
    IN  after[n]
================================================================================
