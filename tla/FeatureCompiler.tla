---------------------------- MODULE FeatureCompiler ----------------------------
(*****************************************************************************)
(* The compiler for feature specifications (flows/ast.go): from the features *)
(* of a specification to the list of instances, and who calls whom, that a   *)
(* record runs.  Its phases are functions on fragments: composite expansion, *)
(* building, expand select, lower map/apply, simplify, convert.  Resolution  *)
(* of information element types is left out, and so are names of columns.    *)
(*                                                                           *)
(* A fragment is a record.  Its String, by which simplify finds common       *)
(* subtrees, is unique for a built fragment, so fragments are compared       *)
(* instead of strings.                                                       *)
(*****************************************************************************)
EXTENDS Integers, Sequences, SequencesExt

\* Values carry their Go type; booleans count as 0 and 1 in arithmetic.
Nil == <<"nil", 0>>
Number(n) == <<"int", n>>
Bool(b) == <<"bool", IF b THEN 1 ELSE 0>>
True == Bool(TRUE)
IsBool(v) == v[1] = "bool"
IsNumber(v) == v[1] \in {"int", "bool"}

Fragment(name, args, value) ==
    [name |-> name, args |-> args, value |-> value, ret |-> "", make |-> ""]

Raw == Fragment("RawPacket", <<>>, Nil)                   \* astRawPacket
Constant(value) == Fragment("const", <<>>, value)         \* astConstant
Call(name, args) == Fragment(name, args, Nil)             \* astCall
Feature(name) == Call(name, <<Raw>>)                      \* a name without arguments
IsRaw(f) == f = Raw
IsConstant(f) == f.name = "const"

--------------------------------------------------------------------------------
(* Features that are registered, and composite features.                     *)

Signature(name, ret, arguments, make) ==
    [name |-> name, ret |-> ret, arguments |-> arguments, make |-> make]

P == "PacketFeature"   \* one value per packet
F == "FlowFeature"     \* one value per flow
S == "Selection"       \* forwards packets
C == "Const"

Registry == <<
    Signature("apply", F, <<F, S>>, ""),
    Signature("map", P, <<P, S>>, ""),
    Signature("select", S, <<P>>, "selectF"),
    Signature("select_slice", S, <<C, C>>, "selectS"),
    Signature("select_slice", S, <<C, C, S>>, "selectS"),
    Signature("forward", S, <<"RawPacket">>, "forward"),
    Signature("backward", S, <<"RawPacket">>, "backward"),
    Signature("ipTotalLength", P, <<"RawPacket">>, "ipTotalLengthPacket"),
    Signature("ipTotalLength", F, <<"RawPacket">>, "ipTotalLengthFlow"),
    Signature("flowDirection", P, <<"RawPacket">>, "flowDirectionPacket"),
    Signature("packetTotalCount", F, <<"RawPacket">>, "count"),
    Signature("flowStartNanoseconds", F, <<"RawPacket">>, "flowStart"),
    Signature("count", F, <<S>>, "count"),
    Signature("count", F, <<P>>, "count"),
    Signature("min", F, <<P>>, "min"),
    Signature("get", F, <<C, P>>, "get"),
    Signature("slice", P, <<C, C, P>>, "slice"),
    Signature("divide", P, <<P, P>>, "dividePacket"),
    Signature("divide", F, <<F, F>>, "divideFlow"),
    Signature("less", P, <<P, P>>, "lessPacket"),
    Signature("and", P, <<P, P, "...">>, "andPacket") >>

Composites == [minimumIpTotalLength |-> Call("min", <<Feature("ipTotalLength")>>)]

Variadic(c) == c.arguments[Len(c.arguments)] = "..."

\* getFeatures: those with as many arguments first, then the variadic ones.
getFeatures(name, ret, nargs) ==
    LET of(t) == SelectSeq(Registry, LAMBDA c : c.name = name /\ c.ret = t)
        all == of(ret) \o of("MatchType")
    IN  SelectSeq(all, LAMBDA c : ~Variadic(c) /\ Len(c.arguments) = nargs)
        \o SelectSeq(all, Variadic)

--------------------------------------------------------------------------------
(* Composite expansion.  The definition replaces the call, its arguments too. *)

RECURSIVE Expand(_)
ExpandCall(f) == [f EXCEPT !.args = [i \in DOMAIN @ |-> Expand(@[i])]]
Expand(f) ==
    IF f.name \in DOMAIN Composites THEN ExpandCall(Composites[f.name]) ELSE ExpandCall(f)

--------------------------------------------------------------------------------
(* Building: features are chosen by the type they have to return.            *)

\* A variadic feature has its last type for all arguments that remain.
ArgTypes(c, ret, nargs) ==
    [i \in 1 .. nargs |->
        LET t == IF Variadic(c) /\ i >= Len(c.arguments)
                 THEN c.arguments[Len(c.arguments) - 1] ELSE c.arguments[i]
        IN  IF t = "MatchType" THEN ret ELSE t]

FirstNot(result, results) ==
    LET i == SelectInSeq(results, LAMBDA r : r # result)
    IN  IF i = 0 THEN result ELSE results[i]

\* "ok", "error", or "panic": the array of argument types has the length of the call, and
\* is indexed by the types of the candidate.
RECURSIVE Outcome(_, _)
OutcomeWith(c, f, ret) ==
    LET n == Len(f.args)
        types == ArgTypes(c, ret, n)
    IN  IF n < Len(c.arguments) THEN "panic"
        ELSE FirstNot("ok", [i \in 1 .. n |-> Outcome(f.args[i], types[i])])
Outcome(f, ret) ==
    IF IsRaw(f) THEN IF ret = "RawPacket" THEN "ok" ELSE "error"
    ELSE IF IsConstant(f) THEN "ok"
    ELSE LET candidates == getFeatures(f.name, ret, Len(f.args))
         IN  FirstNot("error", [i \in DOMAIN candidates |-> OutcomeWith(candidates[i], f, ret)])

\* The fragment with the first candidate that fits.
RECURSIVE Build(_, _)
Build(f, ret) ==
    IF IsRaw(f) THEN f
    ELSE IF IsConstant(f) THEN [f EXCEPT !.make = "constant"]
    ELSE LET candidates == getFeatures(f.name, ret, Len(f.args))
             c == candidates[SelectInSeq(candidates, LAMBDA d : OutcomeWith(d, f, ret) = "ok")]
             types == ArgTypes(c, ret, Len(f.args))
         IN  [f EXCEPT !.ret = ret, !.make = c.make,
                       !.args = [i \in DOMAIN @ |-> Build(@[i], types[i])]]

--------------------------------------------------------------------------------
(* select and select_slice get the packet as last argument.                  *)

RECURSIVE ExpandSelect(_)
ExpandSelect(f) ==
    LET args == [i \in DOMAIN f.args |-> ExpandSelect(f.args[i])]
    IN  [f EXCEPT !.args = IF f.name \in {"select", "select_slice"} THEN Append(args, Raw)
                           ELSE args]

--------------------------------------------------------------------------------
(* map and apply: every packet inside the first argument is replaced with    *)
(* the second, in which packets are replaced first.                          *)

RECURSIVE Lower(_, _)
Lower(f, replacement) ==
    IF IsRaw(f) THEN replacement
    ELSE IF f.name \in {"map", "apply"} THEN Lower(f.args[1], Lower(f.args[2], replacement))
    ELSE [f EXCEPT !.args = [i \in DOMAIN @ |-> Lower(@[i], replacement)]]

--------------------------------------------------------------------------------
(* Simplify: every different subtree gets a register, arguments before users. *)

NoTrees == [trees |-> <<>>, nodes |-> <<>>, error |-> FALSE]

RegisterOf(f, out) == SelectInSeq(out.trees, LAMBDA t : t = f)

\* An instance with the registers of its arguments; a packet is register 0.
Node(f, out, export) ==
    [make |-> f.make, value |-> f.value, export |-> export,
     args |-> [i \in DOMAIN f.args |-> RegisterOf(f.args[i], out)]]

RECURSIVE Simplify(_, _, _)
SimplifyArgs(out, f) == FoldLeft(LAMBDA o, arg : Simplify(o, arg, FALSE), out, f.args)

\* Mutant: a feature that is exported for the second time is passed over.
SimplifyQuiet(out, f, export) ==
    LET done == SimplifyArgs(out, f)
    IN  IF IsRaw(f) THEN out
        ELSE IF RegisterOf(f, done) = 0
             THEN [done EXCEPT !.trees = Append(@, f),
                               !.nodes = Append(@, Node(f, done, export))]
        ELSE done

Simplify(out, f, export) ==
    LET done == SimplifyArgs(out, f)
    IN  IF IsRaw(f) \/ out.error THEN out
        ELSE IF RegisterOf(f, done) = 0
             THEN [done EXCEPT !.trees = Append(@, f),
                               !.nodes = Append(@, Node(f, done, export))]
        ELSE [done EXCEPT !.error = export]      \* exporting feature twice not allowed

--------------------------------------------------------------------------------
(* Convert: whom to call.                                                    *)

Repeated(x, n) == [i \in 1 .. n |-> x]
Occurrences(args, x) == Len(SelectSeq(args, LAMBDA a : a = x))

\* The users of register x, in order, as often as they use it.
Users(nodes, x) ==
    FlattenSeq([r \in DOMAIN nodes |-> Repeated(r, Occurrences(nodes[r].args, x))])

Convert(nodes) ==
    [nodes  |-> [r \in DOMAIN nodes |->
                    [nodes[r] EXCEPT !.args = SelectSeq(@, LAMBDA a : a # 0)]],
     event  |-> Users(nodes, 0),
     tocall |-> [r \in DOMAIN nodes |-> Users(nodes, r)],
     export |-> SelectSeq([r \in DOMAIN nodes |-> r], LAMBDA r : nodes[r].export)]

--------------------------------------------------------------------------------
(* The phases in order, for the features of a flow.                          *)

Prepare(f) == Lower(ExpandSelect(Build(Expand(f), F)), Raw)

\* "ok", "error" or "panic"
BuildOutcome(spec) == FirstNot("ok", [i \in DOMAIN spec |-> Outcome(Expand(spec[i]), F)])

Simplified(spec) == FoldLeft(LAMBDA out, f : Simplify(out, Prepare(f), TRUE), NoTrees, spec)

\* What compile makes of a specification: outcome and program.
Compiled(outcome, nodes) == [outcome |-> outcome, program |-> Convert(nodes)]
Assemble(simple) == IF simple.error THEN Compiled("error", <<>>) ELSE Compiled("ok", simple.nodes)
CompileBuilt(spec, built) ==
    IF built = "ok" THEN Assemble(Simplified(spec)) ELSE Compiled(built, <<>>)
Compile(spec) == CompileBuilt(spec, BuildOutcome(spec))
================================================================================
