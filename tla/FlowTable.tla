------------------------------- MODULE FlowTable -------------------------------
(*****************************************************************************)
(* One flow table (flows/table.go) with its flows (flows/flow.go), their     *)
(* timers (flows/timer.go), the TCP end-of-flow rule (packet/flow.go) and    *)
(* the export lists (ExportList).  A table belongs to one goroutine, so its  *)
(* operations never overlap; what is hard is that every operation may end    *)
(* flows while it walks over them, that a slot of the flow list is reused,   *)
(* and that the list of unfinished export records must follow all of it.     *)
(*                                                                           *)
(* Event, Expire and EOF are the operations.  The three loops over the flow  *)
(* list (Expire, EOF, expireWindow) take one step per element, because the   *)
(* flags eof and expiring change what a flow's end does while a loop runs.   *)
(*                                                                           *)
(* The features of a flow are abstracted to what their records do with an    *)
(* event: keep running, be stopped by a control feature, or be exported by   *)
(* one (Outcomes).  Records with filter features are not covered here.       *)
(*****************************************************************************)
EXTENDS Integers, FiniteSets, ExportList

CONSTANTS
    Keys,        \* flow keys
    Packets,     \* packets: [key, low, window, flags]
    Options,     \* FlowOptions (and the table's fivetuple flag) to start with
    Records,     \* the records of the flow specification
    Outcomes,    \* what the records of a flow may do with one event
    Nil,         \* the nil pointer
    MaxPackets,  \* bound: packets the table receives
    Times        \* bound: the timestamps that occur

TimerIds == {"idle", "active"}
TCPFlags == {"TCP", "FIN", "ACK", "RST"}

\* flags is {} unless the packet is TCP; low is LowToHigh().
PacketType == [key : Keys, low : BOOLEAN, window : Nat, flags : SUBSET TCPFlags]

OptionType == [active : Nat, idle : Nat, window : BOOLEAN, perPacket : BOOLEAN,
               fivetuple : BOOLEAN, sort : SortTypes]

ASSUME PacketsAssumption == Packets \subseteq PacketType
ASSUME OptionsAssumption == Options \subseteq OptionType
ASSUME RecordsAssumption == Records # {}
ASSUME OutcomesAssumption == Outcomes \subseteq [Records -> {"run", "stop", "export"}]
ASSUME BoundsAssumption == MaxPackets \in Nat /\ Times \subseteq Nat

VARIABLES
    options,  \* FlowOptions, fixed when the table is made
    tab,      \* the FlowTable
    loop      \* the loop over the flow list that is under way

vars == <<options, tab, loop>>

--------------------------------------------------------------------------------
(* Flows.  tcp is {} for a uniFlow and holds "TCP" and the flags seen for a  *)
(* tcpFlow; recording is the set of active records; window is the window of  *)
(* the packet the flow was made for (history).                               *)

Flow == [key : Keys, id : Nat, low : BOOLEAN, expireNext : Nat,
         timers : [TimerIds -> Nat], active : BOOLEAN,
         recording : SUBSET Records, tcp : SUBSET (TCPFlags \cup
             {"srcFIN", "dstFIN", "srcACK", "dstACK"}), window : Nat]

ASSUME NilAssumption == Nil \notin Flow /\ Nil \notin Nat

\* exportRecord; reason, now and ctx are what the export was called with and
\* ctx is the flow of the context the features saw (history).
Entry == [flow : Nat, nr : Nat, done : BOOLEAN, at : Nat, now : Nat,
          reason : {"none", "idle", "active", "end", "forced", "control"},
          ctx : Nat \cup {Nil}]

\* Mutant: expireNext follows the timer that was set last.
AddTimerLast(f, id, when) == [f EXCEPT !.timers[id] = when, !.expireNext = when]

\* AddTimer: expireNext only ever moves down here.
AddTimer(f, id, when) ==
    [f EXCEPT !.timers[id] = when,
              !.expireNext = IF when < @ \/ @ = 0 THEN when ELSE @]

\* Init, for a flow of packet p; fivetuple decides whether TCP ends a flow.
InitFlow(t, p) ==
    LET f == [key |-> p.key, id |-> t.flowID, low |-> p.low, expireNext |-> 0,
              timers |-> [id \in TimerIds |-> 0], active |-> TRUE, recording |-> {},
              tcp |-> IF options.fivetuple THEN p.flags \cap {"TCP"} ELSE {},
              window |-> p.window]
    IN  IF options.active = 0 THEN f ELSE AddTimer(f, "active", t.when + options.active)

\* funcEntries.expire: the timers that are due, and the earliest one left.
Due(f, when) == {id \in TimerIds : f.timers[id] # 0 /\ f.timers[id] <= when}

Earliest(timers) ==
    LET armed == {timers[id] : id \in TimerIds} \ {0}
    IN  IF armed = {} THEN 0 ELSE CHOOSE m \in armed : \A n \in armed : m <= n

Disarm(timers, due) == [id \in TimerIds |-> IF id \in due THEN 0 ELSE timers[id]]

--------------------------------------------------------------------------------
(* Operations on a table t; i is the slot of a flow in the flow list.        *)

NewFlowTable ==
    [flows |-> [k \in Keys |-> 0], flowlist |-> <<>>, freelist |-> <<>>,
     flowID |-> 0, window |-> 0, eof |-> FALSE, expiring |-> FALSE,
     packets |-> 0, when |-> 0, ctx |-> Nil, ended |-> {}, twice |-> {},
     exports |-> [r \in Records |-> <<>>], sent |-> [r \in Records |-> <<>>],
     issued |-> [r \in Records |-> <<>>]]

IsActive(t, i) == t.flowlist[i] # Nil /\ t.flowlist[i].active

\* Mutant: remove looks at the wrong flag.
RemoveUnlessExpiring(t, key) ==
    LET old == IF t.flows[key] = 0 THEN 1 ELSE t.flows[key]
    IN  IF t.expiring THEN t
        ELSE [t EXCEPT !.flowlist[old] = Nil, !.freelist = Append(@, old),
                       !.flows[key] = 0]

\* remove: the slot is looked up by key, and a key that is not there gives the
\* first slot (Go's zero value).
Remove(t, key) ==
    LET old == IF t.flows[key] = 0 THEN 1 ELSE t.flows[key]
    IN  IF t.eof THEN t
        ELSE [t EXCEPT !.flowlist[old] = Nil, !.freelist = Append(@, old),
                       !.flows[key] = 0]

\* Mutant: the records are not destroyed.
StopFlowKeepsRecords(t, i) ==
    LET f == t.flowlist[i]
    IN  Remove([t EXCEPT !.flowlist[i].active = FALSE,
                         !.ended = @ \cup {f.id},
                         !.twice = @ \cup ({f.id} \cap t.ended)], f.key)

\* BaseFlow.Stop: destroy the records, leave the table, become inactive.  ended
\* and twice are the flows stopped once, and more than once (history).
StopFlow(t, i) ==
    LET f == t.flowlist[i]
    IN  Remove([t EXCEPT !.exports = [r \in Records |-> Unlink(@[r], f.id)],
                         !.flowlist[i].active = FALSE,
                         !.ended = @ \cup {f.id},
                         !.twice = @ \cup ({f.id} \cap t.ended)], f.key)

\* record.Export for the active records among rs.  With expiry sorting the export
\* record moves to the front, unless a loop is collecting all of them anyway.
ExportRecords(t, i, rs, reason, at, ctx) ==
    LET f     == t.flowlist[i]
        go    == rs \cap f.recording
        nr(r) == IF options.sort = "none" THEN 0
                 ELSE t.exports[r][OpenIndex(t.exports[r], f.id)].nr
        e(r)  == [flow |-> f.id, nr |-> nr(r), done |-> TRUE, at |-> at,
                  now |-> t.when, reason |-> reason, ctx |-> ctx]
        toFront == options.sort = "expiry" /\ ~t.expiring
    IN  [t EXCEPT
            !.flowlist[i].recording = @ \ rs,
            !.issued = [r \in Records |-> IF r \in go THEN Append(@[r], e(r)) ELSE @[r]],
            !.sent = [r \in Records |-> IF r \in go /\ options.sort = "none"
                                        THEN Append(@[r], e(r)) ELSE @[r]],
            !.exports = [r \in Records |->
                IF r \notin go \/ options.sort = "none" THEN @[r]
                ELSE IF toFront THEN Insert(Unlink(@[r], f.id), e(r))
                ELSE FillIn(@[r], f.id, e(r))]]

\* Mutant: the check for a flow that has ended already is gone.
ExportUnchecked(t, i, reason, at, ctx) ==
    IF t.flowlist[i] = Nil THEN t
    ELSE StopFlow(ExportRecords(t, i, Records, reason, at, ctx), i)

\* BaseFlow.Export
Export(t, i, reason, at, ctx) ==
    IF ~IsActive(t, i) THEN t
    ELSE StopFlow(ExportRecords(t, i, Records, reason, at, ctx), i)

\* BaseFlow.expire and the timer callbacks, the idle timer's first: once it has
\* exported the flow, the callback of the active timer finds it inactive.
ExpireFlow(t, i) ==
    LET f    == t.flowlist[i]
        due  == Due(f, t.when)
        left == Disarm(f.timers, due)
        u    == [t EXCEPT !.flowlist[i].timers = left,
                          !.flowlist[i].expireNext = Earliest(left)]
        fire(s, id) == IF id \in due THEN Export(s, i, id, f.timers[id], f.id) ELSE s
    IN  IF f.expireNext = 0 THEN t ELSE fire(fire(u, "idle"), "active")

ExpireIfDue(t, i) ==
    IF t.when > t.flowlist[i].expireNext THEN ExpireFlow(t, i) ELSE t

\* record.Event of every record; o says what the control features make of it.
\* A record that is not active starts, with a new export record at the front.
RecordEvent(t, i, o) ==
    LET f        == t.flowlist[i]
        fresh(r) == [flow |-> f.id, nr |-> t.packets, done |-> FALSE, at |-> 0,
                     now |-> 0, reason |-> "none", ctx |-> Nil]
        moves(r) == \/ r \notin f.recording
                    \/ options.sort \in {"stop", "expiry"} /\ o[r] # "stop"
        u == [t EXCEPT
                !.flowlist[i].recording = {r \in Records : o[r] # "stop"},
                !.exports = [r \in Records |->
                    IF options.sort # "none" /\ moves(r)
                    THEN Insert(Unlink(@[r], f.id), fresh(r)) ELSE @[r]]]
    IN  ExportRecords(u, i, {r \in Records : o[r] = "export"}, "control", t.when, f.id)

\* tcpFlow.Event after BaseFlow.Event: a reset, or both sides' FIN acknowledged.
TCPEvent(t, i, p) ==
    LET forward == p.low = t.flowlist[i].low
        own   == IF forward THEN "srcFIN" ELSE "dstFIN"
        peer  == IF forward THEN "dstFIN" ELSE "srcFIN"
        acked == IF forward THEN "dstACK" ELSE "srcACK"
        u == [t EXCEPT !.flowlist[i].tcp = @
                \cup (IF "FIN" \in p.flags THEN {own} ELSE {})
                \cup (IF peer \in @ /\ "ACK" \in p.flags THEN {acked} ELSE {})]
        closed == {"srcFIN", "srcACK", "dstFIN", "dstACK"} \subseteq u.flowlist[i].tcp
    IN  IF "TCP" \notin t.flowlist[i].tcp THEN t
        ELSE IF "RST" \in p.flags THEN Export(t, i, "end", t.when, t.ctx)
        ELSE IF closed THEN Export(u, i, "end", t.when, t.ctx)
        ELSE u

\* BaseFlow.Event
FlowEvent(t, i, o) ==
    LET f == t.flowlist[i]
        timed == [t EXCEPT !.ctx = f.id,
                    !.flowlist[i] = IF options.idle = 0 THEN @
                                    ELSE AddTimer(@, "idle", t.when + options.idle)]
        u == RecordEvent(timed, i, o)
    IN  IF u.flowlist[i].recording = {} THEN StopFlow(u, i)
        ELSE IF options.perPacket THEN Export(u, i, "end", u.when, u.ctx)
        ELSE u

HandlePacket(t, i, p, o) ==
    LET u == FlowEvent(t, i, o)
    IN  IF IsActive(u, i) THEN TCPEvent(u, i, p) ELSE u

\* Mutant: the slot that was freed first is taken, the one freed last is forgotten.
FreeSlotFirst(t) == IF t.freelist = <<>> THEN Len(t.flowlist) + 1 ELSE t.freelist[1]

\* newflow and the slot it gets: the last one freed, or one more.
FreeSlot(t) == IF t.freelist = <<>> THEN Len(t.flowlist) + 1 ELSE t.freelist[Len(t.freelist)]

\* Mutant: the reused slot stays in the free list.
AddFlowKeepsFree(t, p) ==
    LET f == InitFlow(t, p)
        u == IF t.freelist = <<>> THEN [t EXCEPT !.flowlist = Append(@, f)]
             ELSE [t EXCEPT !.flowlist[FreeSlot(t)] = f]
    IN  [u EXCEPT !.flowID = @ + 1, !.flows[p.key] = FreeSlot(t)]

AddFlow(t, p) ==
    LET f == InitFlow(t, p)
        u == IF t.freelist = <<>> THEN [t EXCEPT !.flowlist = Append(@, f)]
             ELSE [t EXCEPT !.flowlist[FreeSlot(t)] = f,
                            !.freelist = SubSeq(@, 1, Len(@) - 1)]
    IN  [u EXCEPT !.flowID = @ + 1, !.flows[p.key] = FreeSlot(t)]

Flush(t) ==
    [t EXCEPT !.sent = [r \in Records |-> @[r] \o Flushed(t.exports[r])],
              !.exports = [r \in Records |-> KeptByFlush(@[r])]]

FlushAll(t) ==
    [t EXCEPT !.sent = [r \in Records |-> @[r] \o FlushedAll(t.exports[r])],
              !.exports = [r \in Records |-> KeptByFlushAll(@[r])]]

\* Mutant: only expiry sorting flushes here.
FlushExpiredOnly(t) == IF options.sort = "expiry" THEN FlushAll(t) ELSE t

\* What follows Expire and expireWindow.
FlushExpired(t) ==
    IF options.sort = "expiry" THEN FlushAll(t)
    ELSE IF options.sort = "none" THEN t ELSE Flush(t)

\* FlowTable.Event, after the window check.
Deliver(t, p, o) ==
    LET i     == t.flows[p.key]
        known == i # 0 /\ t.flowlist[i] # Nil
        late  == known /\ t.when > t.flowlist[i].expireNext
        u     == IF late THEN ExpireFlow(t, i) ELSE t
        done  == IF known /\ (late => IsActive(u, i))
                 THEN HandlePacket(u, i, p, o)
                 ELSE HandlePacket(AddFlow(u, p), FreeSlot(u), p, o)
    IN  IF options.sort \in {"start", "stop"} THEN Flush(done) ELSE done

\* Mutant: expiring stays set.
ClearKeepsExpiring(t) ==
    [t EXCEPT !.flows = [k \in Keys |-> 0], !.flowlist = <<>>, !.freelist = <<>>,
              !.eof = FALSE]

\* The end of a loop that empties the table.
Clear(t) ==
    [t EXCEPT !.flows = [k \in Keys |-> 0], !.flowlist = <<>>, !.freelist = <<>>,
              !.eof = FALSE, !.expiring = FALSE]

--------------------------------------------------------------------------------
NoLoop == [op |-> "none", at |-> 0, packet |-> Nil]
LoopFor(op, p) == [op |-> op, at |-> 1, packet |-> p]

Init ==
    /\ options \in Options
    /\ tab = NewFlowTable
    /\ loop = NoLoop

Arrived(when) == [tab EXCEPT !.packets = @ + 1, !.when = when]

\* Mutant: the window is not looked at.
EventAnyWindow(p, when) ==
    /\ loop.op = "none" /\ tab.packets < MaxPackets
    /\ \E o \in Outcomes : tab' = Deliver(Arrived(when), p, o)
    /\ UNCHANGED <<options, loop>>

\* Event for a packet of the current window
Event(p, when) ==
    /\ loop.op = "none" /\ tab.packets < MaxPackets
    /\ options.window => p.window = tab.window
    /\ \E o \in Outcomes : tab' = Deliver(Arrived(when), p, o)
    /\ UNCHANGED <<options, loop>>

\* Event for a packet of another window: expireWindow starts ...
EventOfOtherWindow(p, when) ==
    /\ loop.op = "none" /\ tab.packets < MaxPackets
    /\ options.window /\ p.window # tab.window
    /\ tab' = [Arrived(when) EXCEPT !.eof = TRUE, !.expiring = TRUE]
    /\ loop' = LoopFor("window", p)
    /\ UNCHANGED options

Expire(when) ==
    /\ loop.op = "none"
    /\ tab' = [tab EXCEPT !.when = when, !.expiring = TRUE]
    /\ loop' = LoopFor("expire", Nil)
    /\ UNCHANGED options

EOF(now) ==
    /\ loop.op = "none"
    /\ tab' = [tab EXCEPT !.when = now, !.eof = TRUE, !.expiring = TRUE]
    /\ loop' = LoopFor("eof", Nil)
    /\ UNCHANGED options

InLoop(op) == loop.op = op /\ loop.at <= Len(tab.flowlist)

\* Mutant: the last element is left out.
LoopOverEarly(op) == loop.op = op /\ loop.at >= Len(tab.flowlist)

LoopOver(op) == loop.op = op /\ loop.at > Len(tab.flowlist)
NextElement == loop' = [loop EXCEPT !.at = @ + 1] /\ UNCHANGED options

ExpireStep ==
    /\ InLoop("expire") /\ NextElement
    /\ tab' = IF tab.flowlist[loop.at] = Nil THEN tab ELSE ExpireIfDue(tab, loop.at)

\* Everything that is left after its timers ends; reason and the flow that the
\* features find in the context are the loop's.
EndFlow(t, i, reason, ctx) ==
    LET u == ExpireIfDue(t, i)
    IN  IF t.flowlist[i] = Nil THEN t
        ELSE IF IsActive(u, i) THEN Export(u, i, reason, u.when, ctx) ELSE u

EOFStep ==
    /\ InLoop("eof") /\ NextElement
    /\ tab' = EndFlow(tab, loop.at, "forced", tab.flowlist[loop.at].id)

WindowStep ==
    /\ InLoop("window") /\ NextElement
    /\ tab' = EndFlow(tab, loop.at, "end", tab.ctx)

ExpireDone ==
    /\ LoopOver("expire")
    /\ tab' = FlushExpired([tab EXCEPT !.expiring = FALSE])
    /\ loop' = NoLoop
    /\ UNCHANGED options

\* Mutant: only expiry sorting flushes at the end.
EOFDoneExpiryOnly ==
    /\ LoopOver("eof")
    /\ tab' = IF options.sort # "expiry" THEN Clear(tab) ELSE FlushAll(Clear(tab))
    /\ loop' = [NoLoop EXCEPT !.op = "done"]
    /\ UNCHANGED options

EOFDone ==
    /\ LoopOver("eof")
    /\ tab' = IF options.sort = "none" THEN Clear(tab) ELSE FlushAll(Clear(tab))
    /\ loop' = [NoLoop EXCEPT !.op = "done"]
    /\ UNCHANGED options

\* ... and once the table is empty the packet that opened the window is handled.
WindowDone ==
    /\ LoopOver("window")
    /\ \E o \in Outcomes :
        tab' = Deliver([FlushExpired(Clear(tab)) EXCEPT !.window = loop.packet.window],
                       loop.packet, o)
    /\ loop' = NoLoop
    /\ UNCHANGED options

LoopNext ==
    \/ ExpireStep \/ ExpireDone
    \/ EOFStep \/ EOFDone
    \/ WindowStep \/ WindowDone

Next ==
    \/ \E when \in Times :
        \/ \E p \in Packets : Event(p, when) \/ EventOfOtherWindow(p, when)
        \/ Expire(when)
        \/ EOF(when)
    \/ LoopNext

Spec == Init /\ [][Next]_vars

--------------------------------------------------------------------------------
(* Properties.                                                               *)

Slots(t) == {i \in 1 .. Len(t.flowlist) : t.flowlist[i] # Nil}

\* The types of the table's fields, the output side left open: this is the part
\* the proofs need.
TableType(t) ==
    t \in [flows : [Keys -> Nat], flowlist : Seq(Flow \cup {Nil}), freelist : Seq(Nat),
           flowID : Nat, window : Nat, eof : BOOLEAN, expiring : BOOLEAN, packets : Nat,
           when : Nat, ctx : Nat \cup {Nil}, ended : SUBSET Nat, twice : SUBSET Nat,
           exports : {t.exports}, sent : {t.sent}, issued : {t.issued}]

LoopType ==
    /\ loop \in [op : {"none", "expire", "window", "eof", "done"}, at : Nat,
                 packet : Packets \cup {Nil}]
    /\ loop.op \in {"expire", "window", "eof"} => loop.at > 0
    /\ loop.op = "window" => loop.packet \in Packets

\* expireWindow, EOF and Expire all reset what they set.
FlagsFollowLoop ==
    /\ tab.eof <=> loop.op \in {"window", "eof"}
    /\ tab.expiring <=> loop.op \in {"expire", "window", "eof"}

\* Types of every field, and the flags of the table are those of the loop that is
\* under way.
TypeOK ==
    /\ options \in Options
    /\ LoopType
    /\ TableType(tab)
    /\ tab.exports \in [Records -> Seq(Entry)]
    /\ tab.sent \in [Records -> Seq(Entry)]
    /\ tab.issued \in [Records -> Seq(Entry)]
    /\ FlagsFollowLoop

\* The key map and the flow list name each other's entries, and the free list
\* holds every empty slot exactly once: remove, the reuse of slots in Event and the
\* flag eof keep three structures in step while loops walk over one of them.
MapMatchesList(t) ==
    /\ \A i \in Slots(t) : t.flows[t.flowlist[i].key] = i
    /\ \A k \in Keys : t.flows[k] # 0 =>
        t.flows[k] \in Slots(t) /\ t.flowlist[t.flows[k]].key = k

FreeListMatches(t) ==
    /\ \A a, b \in 1 .. Len(t.freelist) : t.freelist[a] = t.freelist[b] => a = b
    /\ {t.freelist[a] : a \in 1 .. Len(t.freelist)} = (1 .. Len(t.flowlist)) \ Slots(t)

TableConsistent == MapMatchesList(tab) /\ FreeListMatches(tab)

\* A flow that has ended is still in the list only where EOF or expireWindow has
\* passed: nothing else ever meets an inactive flow.
OnlyPassedInactive ==
    \A i \in Slots(tab) : tab.flowlist[i].active \/ (tab.eof /\ i < loop.at)

\* Every flow ever made is either alive in the table or was stopped, once: no flow is
\* dropped by clearing the table, overwritten in its slot, or ended a second time by
\* a timer callback, a TCP end or EOF.
EveryFlowAccounted ==
    LET alive == {i \in Slots(tab) : tab.flowlist[i].active}
        ids   == {tab.flowlist[i].id : i \in alive}
    IN  /\ tab.twice = {}
        /\ ids \cup tab.ended = 0 .. tab.flowID - 1
        /\ ids \cap tab.ended = {}
        /\ \A i, j \in alive : tab.flowlist[i].id = tab.flowlist[j].id => i = j

\* expireNext, which Event and Expire look at instead of the timers, is never later
\* than a timer that is armed, and 0 only if none is: no timer is missed, although
\* re-arming the idle timer leaves expireNext where it was.
ExpireNextIsBound(f) ==
    \A id \in TimerIds : f.timers[id] # 0 =>
        f.expireNext # 0 /\ f.expireNext <= f.timers[id]

TimersBounded == \A i \in Slots(tab) : ExpireNextIsBound(tab.flowlist[i])

\* A packet is added to a flow only while none of the flow's timers has run out:
\* whatever else Event skipped or reused, a flow never outlives a deadline.
NoLateDelivery ==
    [][tab'.packets > tab.packets =>
        \A i \in Slots(tab) : loop'.op = "none" /\ tab'.ctx = tab.flowlist[i].id =>
            Due(tab.flowlist[i], tab'.when - 1) = {}]_vars

\* When Expire is done, no flow is left with a timer that ran out before the time
\* it was called with.
ExpireIsComplete ==
    [][loop.op = "expire" /\ loop'.op = "none" =>
        \A i \in Slots(tab') : Due(tab'.flowlist[i], tab'.when - 1) = {}]_vars

\* The table as an abstract one: the living flow of a key is the active flow in the
\* slot of the key.
LivingFlow(t, k) ==
    IF t.flows[k] # 0 /\ IsActive(t, t.flows[k]) THEN t.flowlist[t.flows[k]].id ELSE Nil

Life == INSTANCE FlowLife WITH
    None <- Nil,
    living <- [k \in Keys |-> LivingFlow(tab, k)],
    ended <- tab.ended,
    born <- tab.flowID,
    last <- tab.ctx

\* A key has at most one living flow, a packet goes to it or begins a new one, a flow
\* that has ended stays so, and none disappears unended: what timers, loops, slots
\* that are reused and the clearing of the table do together is what FlowLife allows.
ImplementsFlowLife == Life!Spec

\* With window expiry, the flows in the table all belong to the table's window.
OneWindow ==
    options.window /\ loop.op # "window" =>
        \A i \in Slots(tab) : tab.flowlist[i].window = tab.window

\* Every unfinished export record belongs to an active flow, one per flow and record,
\* and every active record has one: a leftover would hold back all output behind it.
OpenEntriesOwned ==
    options.sort # "none" => \A r \in Records :
        LET list == tab.exports[r]
            open == {a \in 1 .. Len(list) : ~list[a].done}
        IN  /\ \A a \in open : \E i \in Slots(tab) :
                tab.flowlist[i].active /\ tab.flowlist[i].id = list[a].flow
            /\ \A a, b \in open : list[a].flow = list[b].flow => a = b
            /\ \A i \in Slots(tab) : r \in tab.flowlist[i].recording =>
                HasOpen(list, tab.flowlist[i].id)

\* Every record that was exported is in the list or was sent on, exactly once.
ExportsConserved ==
    \A r \in Records :
        LET done == {a \in 1 .. Len(tab.exports[r]) : tab.exports[r][a].done}
            here == {tab.exports[r][a] : a \in done}
            gone == {tab.sent[r][a] : a \in 1 .. Len(tab.sent[r])}
        IN  /\ Len(tab.issued[r]) = Len(tab.sent[r]) + Cardinality(done)
            /\ {tab.issued[r][a] : a \in 1 .. Len(tab.issued[r])} = here \cup gone

\* With start or stop sorting, what a table sends on is in the order of the first or
\* last packet of the flows, across all flushes.
OutputSorted ==
    options.sort \in {"start", "stop"} => \A r \in Records :
        \A a, b \in 1 .. Len(tab.sent[r]) : a < b => tab.sent[r][a].nr < tab.sent[r][b].nr

\* With start or stop sorting, between operations nothing that could be sent on is held
\* back.
NothingHeldBack ==
    options.sort \in {"start", "stop"} /\ loop.op = "none" => \A r \in Records :
        tab.exports[r] # <<>> => ~tab.exports[r][Len(tab.exports[r])].done

\* After EOF every export has left the table, whatever the order of output.
EOFEmpties ==
    loop.op = "done" => \A r \in Records :
        tab.exports[r] = <<>> /\ Len(tab.issued[r]) = Len(tab.sent[r])

\* The features of an exported record find the record's own flow in the context.
ContextIsFlow ==
    \A r \in Records : \A a \in 1 .. Len(tab.issued[r]) :
        tab.issued[r][a].ctx = tab.issued[r][a].flow
================================================================================
