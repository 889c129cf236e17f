-------------------------------- MODULE Values ---------------------------------
(*****************************************************************************)
(* Values of features and their arithmetic (flows/number.go).  A value is    *)
(* <<type, datum>>: Go's integer types of one sign count as one type, since  *)
(* cleanUp widens them first; a float is a fraction <<n, d>> in lowest terms *)
(* with d = 0 for infinities and NaN; strings, addresses and bytes are       *)
(* numbers that keep their order.  Integers wrap at Modulus.                 *)
(*****************************************************************************)
EXTENDS Integers

CONSTANTS
    Modulus,    \* 2^64 in the code
    Thousand    \* the ratio of two units of time
ASSUME ModulusAssumption == Modulus \in Nat /\ Modulus >= 2 /\ Modulus % 2 = 0
ASSUME ThousandAssumption == Thousand \in Nat /\ Thousand > 1

Nil == <<"nil", 0>>
Panic == <<"panic", 0>>
Uint(n) == <<"uint", n>>
Integer(n) == <<"int", n>>
Boolean(b) == <<"bool", b>>

Times == {"seconds", "milliseconds", "microseconds", "nanoseconds"}
NumberTypes == {"int", "uint", "float"} \cup Times

--------------------------------------------------------------------------------
(* Fractions.                                                                *)

Abs(n) == IF n < 0 THEN -n ELSE n

Fraction(n, d) ==
    LET m == IF d < 0 THEN -n ELSE n
        e == Abs(d)
        Common == {k \in 1 .. e : e % k = 0 /\ Abs(m) % k = 0}
        k == CHOOSE k \in Common : \A j \in Common : j <= k
    IN  IF d = 0 THEN <<IF n = 0 THEN 0 ELSE n \div Abs(n), 0>> ELSE <<m \div k, e \div k>>

Float(n, d) == <<"float", Fraction(n, d)>>
NaN == Float(0, 0)
IsNaN(x) == x = <<0, 0>>

Plus(x, y) == Fraction(x[1] * y[2] + y[1] * x[2], x[2] * y[2])
Minus(x, y) == Fraction(x[1] * y[2] - y[1] * x[2], x[2] * y[2])
Times2(x, y) == Fraction(x[1] * y[1], x[2] * y[2])
Over(x, y) == Fraction(x[1] * y[2], x[2] * y[1])
Below(x, y) ==
    IF x[2] = 0 /\ y[2] = 0 THEN x[1] = -1 /\ y[1] = 1 ELSE x[1] * y[2] < y[1] * x[2]

\* int64(x) and uint64(x) drop what is behind the point.
Truncated(x) == IF x[1] < 0 THEN -((-x[1]) \div x[2]) ELSE x[1] \div x[2]

--------------------------------------------------------------------------------
(* Conversions.                                                              *)

Unsigned(n) == n % Modulus
Signed(n) == IF 2 * Unsigned(n) >= Modulus THEN Unsigned(n) - Modulus ELSE Unsigned(n)

\* cleanUp: the widest type of a number; everything else panics.
cleanUp(v) ==
    IF v[1] = "bool" THEN Uint(IF v[2] THEN 1 ELSE 0)
    ELSE IF v[1] \in NumberTypes THEN v ELSE Panic

\* The integer or fraction in a value, as ToFloat, ToInt and ToUInt find it.
Datum(v) == IF v[1] = "nil" THEN 0 ELSE cleanUp(v)[2]

ToFloat(v) == IF v[1] = "float" THEN v[2] ELSE <<Datum(v), 1>>
ToInt(v) == Signed(IF v[1] = "float" THEN Truncated(v[2]) ELSE Datum(v))
ToUInt(v) == Unsigned(IF v[1] = "float" THEN Truncated(v[2]) ELSE Datum(v))

Scale == [seconds |-> Thousand ^ 3, milliseconds |-> Thousand ^ 2, microseconds |-> Thousand]

\* scaleTimetoNano: nanoseconds keep their type, which the operations do not expect.
scaleTimetoNano(v) ==
    IF v[1] = "nanoseconds" THEN v ELSE Uint(Unsigned(v[2] * Scale[v[1]]))

unfixType(v) == Uint(ToUInt(v))

--------------------------------------------------------------------------------
(* Promotion.                                                                *)

\* The common type of two clean types: a time before a number, a float before an
\* integer, signed before unsigned; two units of time meet in nanoseconds.
CommonType(s, t) ==
    IF s = t THEN s
    ELSE IF {s, t} \subseteq Times THEN "nanoseconds"
    ELSE IF s \in Times THEN s
    ELSE IF t \in Times THEN t
    ELSE IF "float" \in {s, t} THEN "float" ELSE "int"

\* What a clean value becomes next to one of type t.
Promoted(v, t) ==
    IF v[1] # t /\ {v[1], t} \subseteq Times THEN scaleTimetoNano(v)
    ELSE CASE CommonType(v[1], t) \in Times -> unfixType(v)
           [] CommonType(v[1], t) = "float" -> <<"float", ToFloat(v)>>
           [] CommonType(v[1], t) = "int" -> Integer(ToInt(v))
           [] OTHER -> v

\* UpConvert: dst is the type of the result, family the one to compute in.
UpConvert(a, b) ==
    LET x == cleanUp(a)
        y == cleanUp(b)
        dst == CommonType(x[1], y[1])
    IN  IF Panic \in {x, y} THEN [dst |-> "panic", family |-> "panic", a |-> Panic, b |-> Panic]
        ELSE [dst |-> dst, family |-> IF dst \in Times THEN "uint" ELSE dst,
              a |-> Promoted(x, y[1]), b |-> Promoted(y, x[1])]

\* Whether the assertions on the types of the operands, a.(uint64) and so on, hold.
Typed(up) == up.family # "panic" /\ up.a[1] = up.family /\ up.b[1] = up.family

FixType(v, dst) == IF dst \in Times THEN <<dst, v[2]>> ELSE v

\* Integer division drops what is behind the point.
Quotient(m, n) == IF (m < 0) # (n < 0) THEN -(Abs(m) \div Abs(n)) ELSE Abs(m) \div Abs(n)

Whole(op, m, n) ==
    CASE op = "add" -> m + n
      [] op = "subtract" -> m - n
      [] op = "multiply" -> m * n
      [] op = "divide" -> Quotient(m, n)

Fractional(op, x, y) ==
    CASE op = "add" -> Plus(x, y)
      [] op = "subtract" -> Minus(x, y)
      [] op = "multiply" -> Times2(x, y)
      [] op = "divide" -> Over(x, y)

\* Mutant: the result is not converted back.
ArithmeticUnfixed(op, a, b) ==
    LET up == UpConvert(a, b)
        m == up.a[2]
        n == up.b[2]
    IN  IF ~Typed(up) \/ (op = "divide" /\ up.family # "float" /\ n = 0) THEN Panic
        ELSE CASE up.family = "float" -> <<"float", Fractional(op, m, n)>>
               [] up.family = "int" -> Integer(Signed(Whole(op, m, n)))
               [] up.family = "uint" -> Uint(Unsigned(Whole(op, m, n)))

\* add, subtract, multiply and divide of two values.
Arithmetic(op, a, b) ==
    LET up == UpConvert(a, b)
        m == up.a[2]
        n == up.b[2]
    IN  IF ~Typed(up) \/ (op = "divide" /\ up.family # "float" /\ n = 0) THEN Panic
        ELSE CASE up.family = "float" -> <<"float", Fractional(op, m, n)>>
               [] up.family = "int" -> Integer(Signed(Whole(op, m, n)))
               [] up.family = "uint" -> FixType(Uint(Unsigned(Whole(op, m, n))), up.dst)

\* a < b for two numbers, from which geq, leq, less, greater, equal, min and max follow.
IsLess(a, b) ==
    LET up == UpConvert(a, b)
    IN  IF up.family = "float" THEN Below(up.a[2], up.b[2]) ELSE up.a[2] < up.b[2]

Comparison(op, a, b) ==
    LET up == UpConvert(a, b)
        less == IsLess(a, b)
        greater == IsLess(b, a)
        equal == ~less /\ ~greater
                 /\ (up.family = "float" => ~IsNaN(up.a[2]) /\ ~IsNaN(up.b[2]))
    IN  IF ~Typed(up) THEN Panic
        ELSE Boolean(CASE op = "less" -> less
                       [] op = "greater" -> greater
                       [] op = "leq" -> less \/ equal
                       [] op = "geq" -> greater \/ equal
                       [] op = "equal" -> equal)

--------------------------------------------------------------------------------
(* The same for the types of information elements, which templates announce. *)

cleanUpType(t) == IF t = "bool" THEN "uint" ELSE IF t \in NumberTypes THEN t ELSE "illegal"

UpConvertTypes(s, t) ==
    LET x == cleanUpType(s)
        y == cleanUpType(t)
    IN  CASE x = y -> x
          [] x = "int" /\ y # x -> IF y = "uint" THEN x ELSE y
          [] x = "uint" /\ y # x -> y
          [] x = "float" /\ y # x -> IF y \in {"uint", "int"} THEN x ELSE y
          [] OTHER -> "nanoseconds"
================================================================================
