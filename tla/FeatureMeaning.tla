----------------------------- MODULE FeatureMeaning -----------------------------
(*****************************************************************************)
(* What features mean, without registers, events and state: the value of a   *)
(* feature as it was written, for the packets K of a flow that it gets.      *)
(* FeatureGraph is compared with it.                                         *)
(*****************************************************************************)
EXTENDS FeatureCompiler, FiniteSetsExt

Error == <<"error", 0>>

Rank(k, K) == Cardinality({j \in K : j < k})
Bound(f) == f.value[2]

Combined(name, v) ==
    IF \E i \in DOMAIN v : v[i] = Error THEN Error
    ELSE IF \E i \in DOMAIN v : v[i] = Nil THEN Nil
    ELSE CASE name = "divide" -> IF v[2][2] = 0 THEN Error ELSE Number(v[1][2] \div v[2][2])
           [] name = "less"   -> Bool(v[1][2] < v[2][2])
           [] name = "and"    -> Bool(\A i \in DOMAIN v : v[i] = True)

RECURSIVE Emission(_, _, _, _), Chosen(_, _, _)

\* The packets of K for which f has a value.
Emissions(f, ps, K) == {k \in K : Emission(f, ps, K, k) # Nil}

\* The value that a packet feature has for packet k, one of those it gets.
Emission(f, ps, K, k) ==
    CASE IsConstant(f) -> f.value
      [] f.name = "ipTotalLength" -> IF ps[k].length = 0 THEN Nil ELSE Number(ps[k].length)
      [] f.name = "flowDirection" -> Bool(ps[k].forward)
      [] f.name = "map" ->
            LET J == Chosen(f.args[2], ps, K)
            IN  IF k \in J THEN Emission(f.args[1], ps, J, k) ELSE Nil
      [] f.name = "slice" ->
            IF Rank(k, Emissions(f.args[3], ps, K)) \in Bound(f.args[1]) .. Bound(f.args[2]) - 1
            THEN Emission(f.args[3], ps, K, k) ELSE Nil
      [] f.name \in {"divide", "less", "and"} ->
            Combined(f.name, [i \in DOMAIN f.args |-> Emission(f.args[i], ps, K, k)])

\* The packets that a selection lets through.
Chosen(f, ps, K) ==
    CASE f.name = "forward"  -> {k \in K : ps[k].forward}
      [] f.name = "backward" -> {k \in K : ~ps[k].forward}
      [] f.name = "select"   -> {k \in K : Emission(f.args[1], ps, K, k) = True}
      [] f.name = "select_slice" ->
            LET J == IF Len(f.args) = 3 THEN Chosen(f.args[3], ps, K) ELSE K
            IN  {k \in J : Rank(k, J) \in Bound(f.args[1]) .. Bound(f.args[2]) - 1}

IsSelection(f) == f.name \in {"forward", "backward", "select", "select_slice"}

Quotient(a, b) ==
    IF ~IsNumber(a) \/ ~IsNumber(b) \/ b[2] = 0 THEN Error ELSE Number(a[2] \div b[2])

\* The value of a flow, of a record that began with packet began.
RECURSIVE Result(_, _, _, _)
Result(f, ps, K, began) ==
    LET e(g) == Emissions(g, ps, K)
        value(g, k) == Emission(g, ps, K, k)
    IN  CASE IsConstant(f) -> f.value
          [] f.name = "minimumIpTotalLength" -> Result(Composites[f.name], ps, K, began)
          [] f.name = "apply" -> Result(f.args[1], ps, Chosen(f.args[2], ps, K), began)
          [] f.name = "ipTotalLength" -> Number(MapThenSumSet(LAMBDA k : ps[k].length, K))
          [] f.name = "packetTotalCount" -> Number(Cardinality(K))
          [] f.name = "flowStartNanoseconds" -> Number(began)
          [] f.name = "count" ->
                Number(Cardinality(IF IsSelection(f.args[1]) THEN Chosen(f.args[1], ps, K)
                                   ELSE e(f.args[1])))
          [] f.name = "min" ->
                LET V == {value(f.args[1], k) : k \in e(f.args[1])}
                IN  IF V = {} THEN Nil
                    ELSE IF Error \in V THEN Error
                    ELSE CHOOSE v \in V : \A w \in V : v[2] <= w[2]
          [] f.name = "get" ->
                LET at == {k \in e(f.args[2]) : Rank(k, e(f.args[2])) = Bound(f.args[1])}
                IN  IF at = {} THEN Nil ELSE value(f.args[2], CHOOSE k \in at : TRUE)
          [] f.name = "divide" ->
                Quotient(Result(f.args[1], ps, K, began), Result(f.args[2], ps, K, began))
================================================================================
