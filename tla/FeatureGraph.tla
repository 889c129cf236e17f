------------------------------ MODULE FeatureGraph ------------------------------
(*****************************************************************************)
(* A record at work (flows/record.go, flows/feature.go, flows/features.go    *)
(* and the operations of modules/features/operations): the features that     *)
(* FeatureCompiler has laid out get the packets of a flow, pass values on to *)
(* each other, and are exported.                                             *)
(*                                                                           *)
(* A packet reaches the features that use it, one after the other; a feature *)
(* that has a new value calls its users before the next one gets the packet. *)
(* FinishEvent then goes the same ways.  Features are reused: a control      *)
(* feature may export, restart or forget the record, now or after a packet,  *)
(* and the features start again.  No control feature is registered, so what  *)
(* they ask for is left open.                                                *)
(*                                                                           *)
(* The specification is compared with what it says: values are worked out    *)
(* from the features as they were written, and all packets of the record.    *)
(*****************************************************************************)
EXTENDS FeatureMeaning

CONSTANTS
    Specifications,   \* sequences of features, as written
    Packets,          \* records with length (0: not IP) and forward
    MaxPackets        \* bound: packets of a flow

ASSUME PacketsAssumption ==
    Packets \subseteq [length : Nat, forward : BOOLEAN] /\ MaxPackets \in Nat

\* A packet as value is its place in the flow.
PacketValue(k) == <<"packet", k>>

VARIABLES
    spec,      \* the specification
    phase,     \* "spec", "run", "rejected", "panic", "ended"
    program,   \* makers, arguments, and whom to call
    packets,   \* packets of the flow so far
    period,    \* packet that started the record, and the first and last one it counts
    again,     \* the packet happens again (RESTART)
    active,    \* record.active
    cell,      \* state of every feature
    exported   \* values of the last export, or none

vars == <<spec, phase, program, packets, period, again, active, cell, exported>>

Registers == DOMAIN program.nodes
Make(r) == program.nodes[r].make
Args(r) == program.nodes[r].args
IsConst(r) == Make(r) = "constant"
Setting(r, i) == program.nodes[Args(r)[i]].value[2]     \* of a constant argument

\* value is what Value returns, acc, count and sel are fields of features, args and
\* seen the values and the flags of a multi event.
EmptyCell ==
    [value |-> Nil, acc |-> Nil, count |-> 0, sel |-> FALSE, args |-> <<Nil, Nil>>, seen |-> {}]

--------------------------------------------------------------------------------
(* Multi events: the arguments of an operation on packet features.           *)

Value(c, r) == IF IsConst(r) THEN program.nodes[r].value ELSE c[r].value
NonConst(r) == SelectSeq([i \in DOMAIN Args(r) |-> i], LAMBDA i : ~IsConst(Args(r)[i]))
Current(c, r) == [i \in DOMAIN Args(r) |-> Value(c, Args(r)[i])]
Checked(own, values, panic) == [cell |-> own, values |-> values, panic |-> panic]
Got(own, which, new) == [own EXCEPT !.args[which] = new, !.seen = @ \cup {which}]
Saw(own, which) == [own EXCEPT !.seen = @ \cup {which}]
Both == {1, 2}
IfAll(own, values) == Checked(own, IF own.seen = Both THEN values ELSE <<>>, FALSE)

\* singleMultiEvent: two arguments, one of them constant.
CheckSingle(c, r, new) ==
    Checked(c[r], [Current(c, r) EXCEPT ![IF IsConst(Args(r)[1]) THEN 2 ELSE 1] = new], FALSE)

\* Mutant: the operation does not wait for the other argument.
DualEager(own) == Checked(own, own.args, FALSE)

\* dualMultiEventNoConst; an argument that occurs twice is the first one.
Dual(own) == IfAll(own, own.args)
CheckDualNoConst(c, r, new, src) ==
    Dual(Got(c[r], SelectInSeq(Args(r), LAMBDA a : a = src), new))

\* dualMultiEvent: more than two arguments, two of them not constant.
CheckDual(c, r, src) ==
    IfAll(Saw(c[r], SelectInSeq(NonConst(r), LAMBDA i : Args(r)[i] = src)), Current(c, r))

\* genericMultiEvent: the flags are as many as there are arguments that are not constant,
\* and are indexed by the place among all arguments.
Generic(own, flags, values) ==
    Checked(own, IF own.seen = flags THEN values ELSE <<>>, ~(own.seen \subseteq flags))
CheckGeneric(c, r, src) ==
    Generic(Saw(c[r], SelectLastInSeq(Args(r), LAMBDA a : a = src)),
            1 .. Len(NonConst(r)), Current(c, r))

CheckAll(c, r, new, src) ==
    IF Len(Args(r)) = 2
    THEN IF Len(NonConst(r)) < 2 THEN CheckSingle(c, r, new) ELSE CheckDualNoConst(c, r, new, src)
    ELSE IF Len(NonConst(r)) = 2 THEN CheckDual(c, r, src) ELSE CheckGeneric(c, r, src)

--------------------------------------------------------------------------------
(* What a feature does with an event: its state, what it emits and as whom   *)
(* (0 is nil).                                                               *)

Effect(own, emit, as) == [cell |-> own, emit |-> emit, as |-> as, panic |-> FALSE]
Silent(own) == Effect(own, Nil, 0)
SetValue(own, r, v) == Effect([own EXCEPT !.value = v], v, r)
Panic(own) == [Silent(own) EXCEPT !.panic = TRUE]

Divide(own, r, a, b) ==
    IF ~IsNumber(a) \/ ~IsNumber(b) \/ b[2] = 0 THEN Panic(own)
    ELSE SetValue(own, r, Number(a[2] \div b[2]))

Less(own, r, a, b) ==
    IF ~IsNumber(a) \/ ~IsNumber(b) THEN Panic(own) ELSE SetValue(own, r, Bool(a[2] < b[2]))

\* The first argument that is not true decides.
And(own, r, values) ==
    IF \A i \in DOMAIN values : values[i] = True THEN SetValue(own, r, True)
    ELSE IF IsBool(SelectSeq(values, LAMBDA v : v # True)[1]) THEN SetValue(own, r, Bool(FALSE))
    ELSE Panic(own)

\* Operations do nothing until all arguments are there.
Apply(r, e, v) ==
    IF e.panic THEN Panic(e.cell)
    ELSE IF v = <<>> THEN Silent(e.cell)
    ELSE CASE Make(r) = "dividePacket" -> Divide(e.cell, r, v[1], v[2])
           [] Make(r) = "lessPacket"   -> Less(e.cell, r, v[1], v[2])
           [] Make(r) = "andPacket"    -> And(e.cell, r, v)
Operate(r, e) == Apply(r, e, e.values)

\* select: an event with a source is the decision, one without is the packet.
Select(own, new, src) ==
    IF src = 0 THEN Effect([own EXCEPT !.sel = FALSE], IF own.sel THEN new ELSE Nil, 0)
    ELSE IF IsBool(new) THEN Silent([own EXCEPT !.sel = new = True]) ELSE Panic(own)

Within(r, own) == Setting(r, 1) <= own.count /\ own.count < Setting(r, 2)
Counted(own) == [own EXCEPT !.count = @ + 1]

Minimum(own, new) ==
    IF own.acc = Nil \/ new[2] < own.acc[2] THEN [own EXCEPT !.acc = new] ELSE own

ReactAs(own, c, r, new, src, p) ==
    CASE Make(r) = "ipTotalLengthPacket" ->
            IF p.length = 0 THEN Silent(own) ELSE SetValue(own, r, Number(p.length))
      [] Make(r) = "flowDirectionPacket" -> SetValue(own, r, Bool(p.forward))
      [] Make(r) = "ipTotalLengthFlow" -> Silent([own EXCEPT !.count = @ + p.length])
      [] Make(r) = "count" -> Silent(Counted(own))
      [] Make(r) = "min" -> Silent(Minimum(own, new))
      [] Make(r) = "get" ->
            IF own.count = Setting(r, 1) THEN SetValue(Counted(own), r, new)
            ELSE Silent(Counted(own))
      [] Make(r) = "slice" ->
            IF Within(r, own) THEN SetValue(Counted(own), r, new) ELSE Silent(Counted(own))
      [] Make(r) = "selectF" -> Select(own, new, src)
      [] Make(r) = "selectS" -> Effect(Counted(own), IF Within(r, own) THEN new ELSE Nil, 0)
      [] Make(r) = "forward" -> Effect(own, IF p.forward THEN new ELSE Nil, r)
      [] Make(r) = "backward" -> Effect(own, IF p.forward THEN Nil ELSE new, r)
      [] Make(r) \in {"dividePacket", "lessPacket", "andPacket"} ->
                Operate(r, CheckAll(c, r, new, src))
      [] OTHER -> Silent(own)
React(c, r, new, src, p) == ReactAs(c[r], c, r, new, src, p)

--------------------------------------------------------------------------------
(* The tree of features for one packet.  c is the state of all features,     *)
(* empty if the program has crashed.                                         *)

Crashed == <<>>
Alive(c) == c # Crashed

RECURSIVE Deliver(_, _, _, _, _)

\* Emit: the users of r get the value, in the order of the program.
Emit(c, r, e, p) ==
    IF e.emit = Nil THEN c
    ELSE FoldLeft(LAMBDA d, user : Deliver(d, user, e.emit, e.as, p), c, program.tocall[r])

\* Event of one feature and of all that follow from it.
Follow(c, r, e, p) == IF e.panic THEN Crashed ELSE Emit([c EXCEPT ![r] = e.cell], r, e, p)
Deliver(c, r, new, src, p) == IF Alive(c) THEN Follow(c, r, React(c, r, new, src, p), p) ELSE c

\* The features that FinishEvent reaches.
Reached[r \in Nat] ==
    r \in ToSet(program.event) \/ \E a \in ToSet(Args(r)) : Reached[a]

\* Mutant: only the features that get packets themselves are told.
FinishShallow(c) ==
    [r \in DOMAIN c |-> IF r \in ToSet(program.event) THEN [c[r] EXCEPT !.seen = {}] ELSE c[r]]

\* FinishEvent: multi events wait for all arguments again.
Finish(c) ==
    [r \in DOMAIN c |-> IF Reached[r] THEN [c[r] EXCEPT !.seen = {}] ELSE c[r]]

\* All that get packets get it, and are told that it is over.
Over(c) == IF Alive(c) THEN Finish(c) ELSE c
EventOf(c, k, p) ==
    Over(FoldLeft(LAMBDA d, r : Deliver(d, r, PacketValue(k), 0, p), c, program.event))

\* Mutant: a feature forgets its value and keeps what it has gathered.
FreshKeeping(own) == [own EXCEPT !.value = Nil]

\* Start: the flags of multi events stay as they are.
Fresh(own) == [EmptyCell EXCEPT !.args = own.args, !.seen = own.seen]
StartOne(c, r, k, p) ==
    IF ~Alive(c) THEN c
    ELSE Follow(c, r, IF Make(r) = "flowStart" THEN SetValue(Fresh(c[r]), r, Number(k))
                      ELSE Silent(Fresh(c[r])), p)

\* record.start with packet k
AllRegisters == [r \in Registers |-> r]
Started(c, k, p) == Over(FoldLeft(LAMBDA d, r : StartOne(d, r, k, p), c, AllRegisters))

\* Stop: values that are known at the end only.
AtStop(c, own, r) ==
    CASE Make(r) \in {"ipTotalLengthFlow", "count"} -> SetValue(own, r, Number(own.count))
      [] Make(r) = "min" -> SetValue(own, r, own.acc)
      [] Make(r) = "divideFlow" -> Divide(own, r, Value(c, Args(r)[1]), Value(c, Args(r)[2]))
      [] OTHER -> Silent(own)
StopOne(c, r, p) == IF Alive(c) THEN Follow(c, r, AtStop(c, c[r], r), p) ELSE c

\* record.stop, arguments before users
Stopped(c, p) == FoldLeft(LAMBDA d, r : StopOne(d, r, p), c, AllRegisters)

Row(c) == [i \in DOMAIN program.export |-> Value(c, program.export[i])]

--------------------------------------------------------------------------------
Init ==
    /\ spec \in Specifications /\ phase = "spec"
    /\ program = Convert(<<>>) /\ cell = <<>>
    /\ packets = <<>> /\ period = [began |-> 1, since |-> 1, until |-> 0]
    /\ again = FALSE /\ active = FALSE /\ exported = <<>>

\* AppendRecord, and the record that is made when a flow starts.
Load(result) ==
    /\ phase' = CASE result.outcome = "ok"    -> "run"
                  [] result.outcome = "error" -> "rejected"
                  [] OTHER                    -> "panic"
    /\ program' = result.program
    /\ cell' = [r \in DOMAIN result.program.nodes |-> EmptyCell]
AppendRecord ==
    /\ phase = "spec" /\ Load(Compile(spec))
    /\ UNCHANGED <<spec, packets, period, again, active, exported>>

\* The features become c, and with them the record.
Continue(c, on) ==
    /\ cell' = c /\ active' = on /\ exported' = <<>>
    /\ phase' = IF Alive(c) THEN phase ELSE "panic"

\* record.Export
ExportStopped(next, done) ==
    /\ cell' = done /\ active' = FALSE
    /\ IF Alive(done) THEN phase' = next /\ exported' = Row(done)
       ELSE phase' = "panic" /\ exported' = <<>>
ExportAs(next, c, p) == ExportStopped(next, IF Alive(c) THEN Stopped(c, p) ELSE c)

\* The number of the packet that comes, and what the record is for it.
Coming == Len(packets) + 1
Ready(p) == IF active THEN cell ELSE Started(cell, Coming, p)
Period(since, until) == [began |-> Coming, since |-> since, until |-> until]
Before == IF active THEN period ELSE Period(Coming, Len(packets))
With == [Before EXCEPT !.until = Coming]

\* What a control feature asked for: nothing; export after the packet, or that with the
\* export cancelled in Stop; or restart after the packet.
Afterwards(done, p, asked) ==
    /\ period' = IF asked = "restart" /\ Alive(done) THEN Period(Coming + 1, Coming) ELSE With
    /\ CASE asked = "nothing" -> Continue(done, TRUE)
         [] asked = "export"  -> ExportAs("run", done, p)
         [] asked = "cancel"  -> Continue(done, FALSE)
         [] asked = "restart" ->
                Continue(IF Alive(done) THEN Started(done, Coming, p) ELSE done, TRUE)

Receive(p) ==
    /\ phase = "run" /\ Coming <= MaxPackets
    /\ packets' = Append(packets, p) /\ again' = FALSE
    /\ UNCHANGED <<spec, program>>

\* filteredEvent
Event(p, asked) == Receive(p) /\ Afterwards(EventOf(Ready(p), Coming, p), p, asked)

\* filteredEvent: a control feature stops, and the packet and the record are forgotten.
Stop(p) == Receive(p) /\ Continue(Stopped(Ready(p), p), FALSE) /\ period' = Before

\* filteredEvent: export before the packet, which then happens again.
ExportNow(p) ==
    /\ phase = "run" /\ ~again /\ Coming <= MaxPackets
    /\ ExportAs("run", Ready(p), p)
    /\ period' = Before /\ again' = TRUE
    /\ UNCHANGED <<spec, program, packets>>

\* filteredEvent: restart before the packet, which then happens again.
RestartNow(p) ==
    /\ phase = "run" /\ ~again /\ Coming <= MaxPackets
    /\ Continue(Started(Ready(p), Coming, p), TRUE)
    /\ period' = Period(Coming, Len(packets)) /\ again' = TRUE
    /\ UNCHANGED <<spec, program, packets>>

\* The flow ends; there is no packet then.
Export ==
    /\ phase = "run" /\ active /\ ~again
    /\ ExportAs("ended", cell, packets[Len(packets)])
    /\ UNCHANGED <<spec, program, packets, period, again>>

Asked == {"nothing", "export", "cancel", "restart"}

Next ==
    \/ AppendRecord
    \/ \E p \in Packets, asked \in Asked : Event(p, asked)
    \/ \E p \in Packets : Stop(p)
    \/ \E p \in Packets : ExportNow(p)
    \/ \E p \in Packets : RestartNow(p)
    \/ Export

Spec == Init /\ [][Next]_vars

--------------------------------------------------------------------------------
(* Properties                                                                *)

\* Value of a feature for the packets that the record counts.
Meaning(f) == Result(f, packets, period.since .. period.until, period.began)

\* A record exports what its specification means for the packets since it was started:
\* no subtree that features share, no order of calls, no value or flag left over from an
\* earlier packet or from the record before makes a difference.
ExportsMatch ==
    exported # <<>> =>
        \A i \in DOMAIN spec :
            exported[i] = Meaning(spec[i])

\* The program crashes only if the specification divides by zero, or works with the value of
\* a flow that has none.
PanicsJustified ==
    phase = "panic" =>
        \E i \in DOMAIN spec : Meaning(spec[i]) = Error

\* Columns are the features of the specification in its order, and no feature has two.
ColumnsInOrder ==
    phase = "run" /\ packets = <<>> =>
        /\ [i \in DOMAIN program.export |-> Simplified(spec).trees[program.export[i]]]
              = [i \in DOMAIN spec |-> Prepare(spec[i])]
        /\ \A i, j \in DOMAIN spec : i # j => Prepare(spec[i]) # Prepare(spec[j])

\* Between packets no operation waits for the rest of its arguments, and no select has a
\* decision for the packet to come.
NothingPending ==
    phase = "run" => \A r \in DOMAIN cell : cell[r].seen = {} /\ ~cell[r].sel
================================================================================
