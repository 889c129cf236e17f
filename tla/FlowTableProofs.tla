---------------------------- MODULE FlowTableProofs ----------------------------
(*****************************************************************************)
(* Proofs about FlowTable for any keys, packets, options, records, outcomes  *)
(* and bounds.                                                               *)
(*                                                                           *)
(* Whatever an operation does to a flow, it either keeps the flow in its     *)
(* slot or drops it from the table (Kept, Dropped).  Section 1 proves that   *)
(* both preserve the invariant of the table, section 2 that every operation  *)
(* on a flow is of this kind, section 3 does the operations on the table,    *)
(* and section 4 the steps of the specification.                             *)
(*                                                                           *)
(* Then the same operations are followed in what they do to the life of the  *)
(* flow: it goes on, or it ends (sections 5 and 6).  Section 7 lifts this to *)
(* the living flows of all keys, section 8 to a packet, and section 9 to the *)
(* steps of the specification: a flow table implements FlowLife.             *)
(*****************************************************************************)
EXTENDS FlowTable, SequenceTheorems, TLAPS

\* The invariant of a table between and inside its loops.
Sound(t) ==
    /\ TableType(t)
    /\ MapMatchesList(t)
    /\ FreeListMatches(t)
    /\ \A i \in Slots(t) : ExpireNextIsBound(t.flowlist[i])

\* What operations on a flow may do while they run: t.eof is not set, unless a
\* loop that empties the table runs, and then they may meet inactive flows.
Here(t, i) ==
    /\ TableType(t)
    /\ i \in Slots(t)
    /\ t.flows[t.flowlist[i].key] = i
    /\ ExpireNextIsBound(t.flowlist[i])
    /\ t.eof \/ t.flowlist[i].active

\* The fields that no operation on a flow touches.
SameFrame(t, u) ==
    /\ u.flowID = t.flowID /\ u.window = t.window /\ u.eof = t.eof
    /\ u.expiring = t.expiring /\ u.packets = t.packets /\ u.when = t.when

Kept(t, u, i) ==
    /\ SameFrame(t, u) /\ TableType(u)
    /\ u.flows = t.flows /\ u.freelist = t.freelist
    /\ u.flowlist[i] \in Flow
    /\ u.flowlist = [t.flowlist EXCEPT ![i] = u.flowlist[i]]
    /\ u.flowlist[i].key = t.flowlist[i].key
    /\ ExpireNextIsBound(u.flowlist[i])
    /\ t.eof \/ u.flowlist[i].active

Dropped(t, u, i) ==
    /\ SameFrame(t, u) /\ TableType(u) /\ ~t.eof
    /\ u.flows = [t.flows EXCEPT ![t.flowlist[i].key] = 0]
    /\ u.freelist = Append(t.freelist, i)
    /\ u.flowlist = [t.flowlist EXCEPT ![i] = Nil]

FlowOp(t, u, i) == Kept(t, u, i) \/ Dropped(t, u, i)

--------------------------------------------------------------------------------
(* 1. Operations on a flow preserve the invariant.                           *)

\* A slot that is not empty holds a flow.
LEMMA SlotHoldsFlow ==
    ASSUME NEW t, TableType(t), NEW i \in Slots(t)
    PROVE  /\ i \in 1 .. Len(t.flowlist) /\ Len(t.flowlist) \in Nat
           /\ t.flowlist[i] \in Flow
           /\ t.flowlist[i].key \in Keys
BY DEF TableType, Slots, Flow

\* The three structures of a table replaced by others of their types.
LEMMA TableTypeUpdate ==
    ASSUME NEW t, TableType(t), NEW list \in Seq(Flow \cup {Nil}), NEW free \in Seq(Nat),
           NEW flows \in [Keys -> Nat]
    PROVE  TableType([t EXCEPT !.flowlist = list, !.freelist = free, !.flows = flows])
BY DEF TableType

\* The types hold after a flow is put into a new slot or a free one.
LEMMA TableTypeNewFlow ==
    ASSUME NEW t, TableType(t), NEW list \in Seq(Flow \cup {Nil}), NEW free \in Seq(Nat),
           NEW flows \in [Keys -> Nat]
    PROVE  /\ TableType([t EXCEPT !.flowlist = list, !.flowID = @ + 1, !.flows = flows])
           /\ TableType([t EXCEPT !.flowlist = list, !.freelist = free, !.flowID = @ + 1,
                                  !.flows = flows])
<1>1. t.flowID + 1 \in Nat
  BY DEF TableType
<1> DEFINE n == t.flowID + 1
<1>2. n \in Nat
  BY <1>1
<1> HIDE DEF n
<1>3. TableType([t EXCEPT !.flowlist = list, !.flowID = n, !.flows = flows])
  BY <1>2 DEF TableType
<1>4. TableType([t EXCEPT !.flowlist = list, !.freelist = free, !.flowID = n, !.flows = flows])
  BY <1>2 DEF TableType
<1> QED
  BY <1>3, <1>4 DEF n

\* What Kept leaves in the slot, and that it is all that changed.
LEMMA KeptSlots ==
    ASSUME NEW t, NEW u, NEW i, Here(t, i), Kept(t, u, i)
    PROVE  /\ Len(u.flowlist) = Len(t.flowlist)
           /\ \A j \in 1 .. Len(t.flowlist) : j # i => u.flowlist[j] = t.flowlist[j]
           /\ Slots(u) = Slots(t)
           /\ Here(u, i)
<1>1. t.flowlist \in Seq(Flow \cup {Nil}) /\ i \in 1 .. Len(t.flowlist)
  BY DEF Here, TableType, Slots
<1>2. /\ Len(u.flowlist) = Len(t.flowlist)
      /\ \A j \in 1 .. Len(t.flowlist) : j # i => u.flowlist[j] = t.flowlist[j]
  BY <1>1, ExceptSeq DEF Kept
<1>3. u.flowlist[i] # Nil
  BY NilAssumption DEF Kept
<1>4. Slots(u) = Slots(t)
  BY <1>2, <1>3 DEF Slots, Here
<1>5. Here(u, i)
  BY <1>4 DEF Here, Kept, SameFrame
<1> QED
  BY <1>2, <1>4, <1>5

\* A flow that is dropped leaves the other slots as they are.
LEMMA DroppedSlots ==
    ASSUME NEW t, NEW u, NEW i, Here(t, i), Dropped(t, u, i)
    PROVE  /\ Len(u.flowlist) = Len(t.flowlist)
           /\ \A j \in 1 .. Len(t.flowlist) : j # i => u.flowlist[j] = t.flowlist[j]
           /\ u.flowlist[i] = Nil
           /\ Slots(u) = Slots(t) \ {i}
<1>1. t.flowlist \in Seq(Flow \cup {Nil}) /\ i \in 1 .. Len(t.flowlist)
  BY DEF Here, TableType, Slots
<1>2. /\ Len(u.flowlist) = Len(t.flowlist)
      /\ \A j \in 1 .. Len(t.flowlist) : u.flowlist[j] = IF j = i THEN Nil ELSE t.flowlist[j]
  BY <1>1, ExceptSeq DEF Dropped
<1> QED
  BY <1>1, <1>2 DEF Slots

\* Operations on a flow that follow each other are one operation on the flow.
LEMMA KeptCompose ==
    ASSUME NEW t, NEW u, NEW v, NEW i, Kept(t, u, i), Kept(u, v, i)
    PROVE  Kept(t, v, i)
<1>1. \A x : [[t.flowlist EXCEPT ![i] = u.flowlist[i]] EXCEPT ![i] = x] = [t.flowlist EXCEPT ![i] = x]
  OBVIOUS
<1>2. v.flowlist = [t.flowlist EXCEPT ![i] = v.flowlist[i]]
  BY <1>1 DEF Kept
<1> QED
  BY <1>2 DEF Kept, SameFrame

\* What is done to a flow that is kept is done to the flow it was.
LEMMA FlowOpCompose ==
    ASSUME NEW t, NEW u, NEW v, NEW i, Kept(t, u, i), FlowOp(u, v, i)
    PROVE  FlowOp(t, v, i)
<1>1. \A x : [[t.flowlist EXCEPT ![i] = u.flowlist[i]] EXCEPT ![i] = x] = [t.flowlist EXCEPT ![i] = x]
  OBVIOUS
<1>2. CASE Kept(u, v, i)
  BY <1>2, KeptCompose DEF FlowOp
<1>3. CASE Dropped(u, v, i)
  <2>1. v.flowlist = [t.flowlist EXCEPT ![i] = Nil]
    BY <1>1, <1>3 DEF Kept, Dropped
  <2> QED
    BY <1>3, <2>1 DEF Kept, Dropped, SameFrame, FlowOp
<1> QED
  BY <1>2, <1>3 DEF FlowOp

\* Doing nothing is an operation on the flow.
LEMMA FlowOpNothing ==
    ASSUME NEW t, NEW i, Here(t, i)
    PROVE  Kept(t, t, i)
<1>1. t.flowlist \in Seq(Flow \cup {Nil}) /\ i \in 1 .. Len(t.flowlist) /\ t.flowlist[i] \in Flow
  BY SlotHoldsFlow DEF Here, TableType
<1>2. t.flowlist = [t.flowlist EXCEPT ![i] = t.flowlist[i]]
  BY <1>1
<1> QED
  BY <1>1, <1>2 DEF Kept, SameFrame, Here

\* A flow that stays in its slot under its key disturbs nothing.
LEMMA KeptSound ==
    ASSUME NEW t, NEW u, NEW i, Sound(t), Here(t, i), Kept(t, u, i)
    PROVE  Sound(u)
<1>1. /\ Len(u.flowlist) = Len(t.flowlist) /\ Slots(u) = Slots(t)
      /\ \A j \in Slots(t) : j # i => u.flowlist[j] = t.flowlist[j]
  BY KeptSlots DEF Slots
<1>2. TableType(u) /\ u.flowlist[i].key = t.flowlist[i].key
      /\ u.flows = t.flows /\ u.freelist = t.freelist /\ ExpireNextIsBound(u.flowlist[i])
  BY DEF Kept
<1>3. \A j \in Slots(t) : u.flowlist[j].key = t.flowlist[j].key
  BY <1>1, <1>2
<1>4. MapMatchesList(u)
  BY <1>1, <1>2, <1>3 DEF Sound, MapMatchesList
<1>5. FreeListMatches(u)
  BY <1>1, <1>2 DEF Sound, FreeListMatches
<1>6. \A j \in Slots(u) : ExpireNextIsBound(u.flowlist[j])
  BY <1>1, <1>2 DEF Sound
<1> QED
  BY <1>2, <1>4, <1>5, <1>6 DEF Sound

\* A flow that leaves takes its key along and leaves its slot to the free list.
LEMMA DroppedSound ==
    ASSUME NEW t, NEW u, NEW i, Sound(t), Here(t, i), Dropped(t, u, i)
    PROVE  Sound(u)
<1> DEFINE key == t.flowlist[i].key
<1>1. /\ Len(u.flowlist) = Len(t.flowlist) /\ Slots(u) = Slots(t) \ {i}
      /\ \A j \in Slots(t) : j # i => u.flowlist[j] = t.flowlist[j]
  BY DroppedSlots DEF Slots
<1>2. /\ TableType(u) /\ u.flows = [t.flows EXCEPT ![key] = 0]
      /\ u.freelist = Append(t.freelist, i)
  BY DEF Dropped
<1>3. /\ i \in 1 .. Len(t.flowlist) /\ Len(t.flowlist) \in Nat /\ key \in Keys
      /\ t.flows \in [Keys -> Nat] /\ t.freelist \in Seq(Nat) /\ t.flows[key] = i
  BY SlotHoldsFlow DEF Here, TableType
<1>4. MapMatchesList(u)
  <2>1. \A j \in Slots(u) : u.flows[u.flowlist[j].key] = j
    <3> SUFFICES ASSUME NEW j \in Slots(u) PROVE u.flows[u.flowlist[j].key] = j
      OBVIOUS
    <3>1. j \in Slots(t) /\ j # i /\ u.flowlist[j] = t.flowlist[j]
      BY <1>1
    <3>2. t.flows[t.flowlist[j].key] = j /\ t.flowlist[j].key \in Keys
      BY <3>1, SlotHoldsFlow DEF Sound, MapMatchesList
    <3>3. t.flowlist[j].key # key
      BY <3>1, <3>2, <1>3
    <3> QED
      BY <3>1, <3>2, <3>3, <1>2, <1>3
  <2>2. \A k \in Keys : u.flows[k] # 0 => u.flows[k] \in Slots(u) /\ u.flowlist[u.flows[k]].key = k
    <3> SUFFICES ASSUME NEW k \in Keys, u.flows[k] # 0
                 PROVE  u.flows[k] \in Slots(u) /\ u.flowlist[u.flows[k]].key = k
      OBVIOUS
    <3>1. k # key /\ u.flows[k] = t.flows[k]
      BY <1>2, <1>3
    <3>2. t.flows[k] \in Slots(t) /\ t.flowlist[t.flows[k]].key = k
      BY <3>1 DEF Sound, MapMatchesList
    <3>3. t.flows[k] # i
      BY <3>1, <3>2
    <3> QED
      BY <3>1, <3>2, <3>3, <1>1
  <2> QED
    BY <2>1, <2>2 DEF MapMatchesList
<1>5. FreeListMatches(u)
  <2>1. Len(u.freelist) = Len(t.freelist) + 1 /\ Len(t.freelist) \in Nat
        /\ u.freelist[Len(t.freelist) + 1] = i
        /\ \A a \in 1 .. Len(t.freelist) : u.freelist[a] = t.freelist[a]
    BY <1>2, <1>3
  <2>2. i \notin {t.freelist[a] : a \in 1 .. Len(t.freelist)}
    BY DEF Sound, FreeListMatches, Here
  <2>3. \A a, b \in 1 .. Len(u.freelist) : u.freelist[a] = u.freelist[b] => a = b
    BY <2>1, <2>2, SMTT(30) DEF Sound, FreeListMatches
  <2>4. {u.freelist[a] : a \in 1 .. Len(u.freelist)}
          = {t.freelist[a] : a \in 1 .. Len(t.freelist)} \cup {i}
    BY <2>1
  <2>5. (1 .. Len(u.flowlist)) \ Slots(u) = ((1 .. Len(t.flowlist)) \ Slots(t)) \cup {i}
    BY <1>1, <1>3
  <2> QED
    BY <2>3, <2>4, <2>5 DEF Sound, FreeListMatches
<1>6. \A j \in Slots(u) : ExpireNextIsBound(u.flowlist[j])
  BY <1>1 DEF Sound
<1> QED
  BY <1>2, <1>4, <1>5, <1>6 DEF Sound

\* Either way.
LEMMA FlowOpSound ==
    ASSUME NEW t, NEW u, NEW i, Sound(t), Here(t, i), FlowOp(t, u, i)
    PROVE  Sound(u)
BY KeptSound, DroppedSound DEF FlowOp

\* Only slot i is disturbed, and only a loop that empties the table leaves an
\* inactive flow in it.
LEMMA FlowOpSlots ==
    ASSUME NEW t, NEW u, NEW i, Here(t, i), FlowOp(t, u, i)
    PROVE  /\ SameFrame(t, u)
           /\ Len(u.flowlist) = Len(t.flowlist)
           /\ Slots(u) \subseteq Slots(t)
           /\ \A j \in Slots(u) : j # i => u.flowlist[j] = t.flowlist[j]
           /\ i \in Slots(u) => t.eof \/ u.flowlist[i].active
<1>1. CASE Kept(t, u, i)
  BY <1>1, KeptSlots DEF Kept, Slots
<1>2. CASE Dropped(t, u, i)
  BY <1>2, DroppedSlots DEF Dropped, Slots
<1> QED
  BY <1>1, <1>2 DEF FlowOp

--------------------------------------------------------------------------------
(* 2. Every operation on a flow is one of these.                             *)

\* A table with a flow replaced in its slot, whatever becomes of the output.
LEMMA ReplaceIsKept ==
    ASSUME NEW t, NEW u, NEW i, NEW f \in Flow, Here(t, i),
           TableType(u), SameFrame(t, u), u.flows = t.flows, u.freelist = t.freelist,
           u.flowlist = [t.flowlist EXCEPT ![i] = f],
           f.key = t.flowlist[i].key, ExpireNextIsBound(f), t.eof \/ f.active
    PROVE  Kept(t, u, i)
<1>1. t.flowlist \in Seq(Flow \cup {Nil}) /\ i \in 1 .. Len(t.flowlist)
  BY DEF Here, TableType, Slots
<1>2. u.flowlist[i] = f
  BY <1>1
<1> QED
  BY <1>2 DEF Kept

\* BaseFlow.Stop removes the flow, or leaves it in a table that is being emptied.
LEMMA StopFlowOp ==
    ASSUME NEW t, NEW i, Here(t, i)
    PROVE  FlowOp(t, StopFlow(t, i), i)
<1> DEFINE f == t.flowlist[i]
           g == [f EXCEPT !.active = FALSE]
           m == [t EXCEPT !.exports = [r \in Records |-> Unlink(@[r], f.id)],
                          !.flowlist[i].active = FALSE,
                          !.ended = @ \cup {f.id},
                          !.twice = @ \cup ({f.id} \cap t.ended)]
<1>1. /\ f \in Flow /\ i \in 1 .. Len(t.flowlist) /\ f.key \in Keys /\ f.id \in Nat
      /\ t.flowlist \in Seq(Flow \cup {Nil}) /\ t.flows[f.key] = i
  BY SlotHoldsFlow DEF Here, TableType, Flow
<1>2. g \in Flow /\ g.key = f.key /\ ExpireNextIsBound(g)
  BY <1>1 DEF Flow, Here, ExpireNextIsBound
<1>3. /\ m.flowlist = [t.flowlist EXCEPT ![i] = g] /\ SameFrame(t, m)
      /\ m.flows = t.flows /\ m.freelist = t.freelist /\ m.ctx = t.ctx
  BY DEF Here, TableType, SameFrame
<1>4. m.flowlist \in Seq(Flow \cup {Nil})
  BY <1>1, <1>2, <1>3, ExceptSeq
<1>5. TableType(m)
  BY <1>1, <1>4 DEF TableType, Here
<1>6. StopFlow(t, i) = Remove(m, f.key)
  BY DEF StopFlow
<1>7. CASE t.eof
  <2>1. StopFlow(t, i) = m
    BY <1>3, <1>6, <1>7 DEF Remove, SameFrame
  <2>2. Kept(t, m, i)
    BY <1>1, <1>2, <1>3, <1>5, <1>7, ReplaceIsKept
  <2> QED
    BY <2>1, <2>2 DEF FlowOp
<1>8. CASE ~t.eof
  <2> DEFINE list == [m.flowlist EXCEPT ![i] = Nil]
             free == Append(m.freelist, i)
             flows == [m.flows EXCEPT ![f.key] = 0]
             u == [m EXCEPT !.flowlist = list, !.freelist = free, !.flows = flows]
  <2> HIDE DEF m
  <2>10. m.flows[f.key] = i /\ i # 0 /\ ~m.eof
    BY <1>1, <1>3, <1>8 DEF SameFrame
  <2>1. StopFlow(t, i) = u
    BY <1>6, <2>10 DEF Remove
  <2>2. /\ u.flowlist = [m.flowlist EXCEPT ![i] = Nil]
        /\ u.freelist = Append(m.freelist, i)
        /\ u.flows = [m.flows EXCEPT ![f.key] = 0] /\ SameFrame(t, u)
    BY <1>3, <1>5 DEF TableType, SameFrame
  <2>3. u.flowlist = [t.flowlist EXCEPT ![i] = Nil]
    BY <1>3, <2>2
  <2>4. list \in Seq(Flow \cup {Nil})
    <3>1. m.flowlist \in Seq(Flow \cup {Nil}) /\ i \in 1 .. Len(m.flowlist)
      BY <1>1, <1>2, <1>3, ExceptSeq
    <3> QED
      BY <3>1, ExceptSeq
  <2>11. i \in Nat /\ m.freelist \in Seq(Nat) /\ m.flows \in [Keys -> Nat]
    BY <1>1, <1>5 DEF TableType
  <2>12. free \in Seq(Nat)
    BY <2>11
  <2>13. flows \in [Keys -> Nat]
    BY <2>11
  <2> HIDE DEF list, free, flows
  <2>5. TableType(u)
    BY <1>5, <2>12, <2>13, <2>4, TableTypeUpdate
  <2> QED
    BY <1>3, <1>8, <2>1, <2>2, <2>3, <2>5 DEF FlowOp, Dropped
<1> QED
  BY <1>7, <1>8

\* record.Export leaves the flow in place.
LEMMA ExportRecordsKept ==
    ASSUME NEW t, NEW i, NEW rs, NEW reason, NEW at, NEW ctx, Here(t, i)
    PROVE  Kept(t, ExportRecords(t, i, rs, reason, at, ctx), i)
<1> DEFINE f == t.flowlist[i]
           g == [f EXCEPT !.recording = @ \ rs]
           u == ExportRecords(t, i, rs, reason, at, ctx)
<1>1. f \in Flow /\ i \in 1 .. Len(t.flowlist) /\ t.flowlist \in Seq(Flow \cup {Nil})
  BY SlotHoldsFlow DEF Here, TableType
<1>2. g \in Flow /\ g.key = f.key /\ ExpireNextIsBound(g) /\ g.active = f.active
  BY <1>1 DEF Flow, Here, ExpireNextIsBound
<1>3. /\ u.flowlist = [t.flowlist EXCEPT ![i] = g] /\ SameFrame(t, u)
      /\ u.flows = t.flows /\ u.freelist = t.freelist
  BY DEF Here, TableType, SameFrame, ExportRecords
<1>4. u.flowlist \in Seq(Flow \cup {Nil})
  BY <1>1, <1>2, <1>3, ExceptSeq
<1>5. TableType(u)
  BY <1>4 DEF TableType, Here, ExportRecords
<1>6. t.eof \/ g.active
  BY <1>2 DEF Here
<1> QED
  BY <1>1, <1>2, <1>3, <1>5, <1>6, ReplaceIsKept

\* BaseFlow.Export, whether or not the flow is still there.
LEMMA ExportOp ==
    ASSUME NEW t, NEW i, NEW reason, NEW at, NEW ctx, Here(t, i)
    PROVE  FlowOp(t, Export(t, i, reason, at, ctx), i)
<1> DEFINE u == ExportRecords(t, i, Records, reason, at, ctx)
<1>1. CASE ~IsActive(t, i)
  BY <1>1, FlowOpNothing DEF Export, FlowOp
<1>2. CASE IsActive(t, i)
  <2>1. Kept(t, u, i) /\ Here(u, i)
    BY ExportRecordsKept, KeptSlots
  <2>2. FlowOp(t, StopFlow(u, i), i)
    BY <2>1, StopFlowOp, FlowOpCompose
  <2> QED
    BY <1>2, <2>2 DEF Export
<1> QED
  BY <1>1, <1>2

\* A later export of a flow that may have ended.
LEMMA ExportAfter ==
    ASSUME NEW t, NEW u, NEW i, NEW reason, NEW at, NEW ctx,
           Here(t, i), FlowOp(t, u, i)
    PROVE  FlowOp(t, Export(u, i, reason, at, ctx), i)
<1>1. CASE Kept(t, u, i)
  BY <1>1, KeptSlots, ExportOp, FlowOpCompose
<1>2. CASE Dropped(t, u, i)
  <2>1. u.flowlist[i] = Nil
    BY <1>2, DroppedSlots
  <2> QED
    BY <1>2, <2>1 DEF Export, IsActive, FlowOp
<1> QED
  BY <1>1, <1>2 DEF FlowOp

\* The earliest timer that is left bounds them all.
LEMMA EarliestIsBound ==
    ASSUME NEW timers \in [TimerIds -> Nat]
    PROVE  /\ Earliest(timers) \in Nat
           /\ \A id \in TimerIds : timers[id] # 0 =>
                Earliest(timers) # 0 /\ Earliest(timers) <= timers[id]
<1> DEFINE armed == {timers[id] : id \in TimerIds} \ {0}
<1>1. CASE armed = {}
  <2>1. Earliest(timers) = 0
    BY <1>1 DEF Earliest
  <2>2. \A id \in TimerIds : timers[id] = 0
    BY <1>1
  <2> QED
    BY <2>1, <2>2
<1>2. CASE armed # {}
  <2>1. /\ timers["idle"] \in Nat /\ timers["active"] \in Nat
        /\ armed = {timers["idle"], timers["active"]} \ {0}
    BY DEF TimerIds
  <2>2. \E m \in armed : \A n \in armed : m <= n
    <3>1. CASE timers["idle"] = 0
      BY <1>2, <2>1, <3>1
    <3>2. CASE timers["active"] = 0
      BY <1>2, <2>1, <3>2
    <3>3. CASE timers["idle"] # 0 /\ timers["active"] # 0
      BY <2>1, <3>3
    <3> QED
      BY <3>1, <3>2, <3>3
  <2>3. Earliest(timers) = CHOOSE m \in armed : \A n \in armed : m <= n
    BY <1>2 DEF Earliest
  <2>4. Earliest(timers) \in armed /\ \A n \in armed : Earliest(timers) <= n
    BY <2>2, <2>3
  <2> QED
    BY <2>1, <2>4
<1> QED
  BY <1>1, <1>2

\* Inside BaseFlow.expire: the timers that are due are off, the next one is known.
Disarmed(t, i) ==
    LET f    == t.flowlist[i]
        left == Disarm(f.timers, Due(f, t.when))
    IN  [t EXCEPT !.flowlist[i].timers = left, !.flowlist[i].expireNext = Earliest(left)]

\* Disarming timers keeps the flow, with the earliest of those left.
LEMMA DisarmedKept ==
    ASSUME NEW t, NEW i, Here(t, i)
    PROVE  LET f    == t.flowlist[i]
               left == Disarm(f.timers, Due(f, t.when))
           IN  /\ Kept(t, Disarmed(t, i), i)
               /\ Disarmed(t, i).flowlist[i]
                    = [f EXCEPT !.timers = left, !.expireNext = Earliest(left)]
<1> DEFINE f    == t.flowlist[i]
           left == Disarm(f.timers, Due(f, t.when))
           g    == [f EXCEPT !.timers = left, !.expireNext = Earliest(left)]
           u    == Disarmed(t, i)
<1>1. f \in Flow /\ i \in 1 .. Len(t.flowlist) /\ t.flowlist \in Seq(Flow \cup {Nil})
  BY SlotHoldsFlow DEF Here, TableType
<1>2. left \in [TimerIds -> Nat]
  BY <1>1 DEF Disarm, Flow
<1>3. g \in Flow /\ g.key = f.key /\ ExpireNextIsBound(g) /\ g.active = f.active
  <2> HIDE DEF left
  <2>1. Earliest(left) \in Nat
    BY <1>2, EarliestIsBound
  <2>2. g \in Flow /\ g.key = f.key /\ g.active = f.active
        /\ g.timers = left /\ g.expireNext = Earliest(left)
    BY <1>1, <1>2, <2>1 DEF Flow
  <2> QED
    BY <2>2, <1>2, EarliestIsBound DEF ExpireNextIsBound
<1>4. u = [t EXCEPT !.flowlist[i].timers = left, !.flowlist[i].expireNext = Earliest(left)]
  BY DEF Disarmed
<1> HIDE DEF left, u
<1>5. /\ u.flowlist = [t.flowlist EXCEPT ![i] = g] /\ SameFrame(t, u)
      /\ u.flows = t.flows /\ u.freelist = t.freelist
  BY <1>1, <1>4 DEF Here, TableType, SameFrame
<1>6. u.flowlist \in Seq(Flow \cup {Nil}) /\ u.flowlist[i] = g
  BY <1>1, <1>3, <1>5, ExceptSeq
<1>7. TableType(u)
  BY <1>4, <1>6 DEF TableType, Here
<1>8. t.eof \/ g.active
  BY <1>3 DEF Here
<1>9. Kept(t, u, i)
  BY <1>1, <1>3, <1>5, <1>7, <1>8, ReplaceIsKept
<1> QED
  BY <1>6, <1>9 DEF u, left

\* BaseFlow.expire with the timer callbacks.
LEMMA ExpireFlowOp ==
    ASSUME NEW t, NEW i, Here(t, i)
    PROVE  FlowOp(t, ExpireFlow(t, i), i)
<1> DEFINE f    == t.flowlist[i]
           due  == Due(f, t.when)
           u    == Disarmed(t, i)
           fire(s, id) == IF id \in due THEN Export(s, i, id, f.timers[id], f.id) ELSE s
<1>4. Kept(t, u, i)
  BY DisarmedKept
<1> HIDE DEF u
<1>5. FlowOp(t, fire(u, "idle"), i)
  BY <1>4, ExportAfter DEF FlowOp
<1>6. FlowOp(t, fire(fire(u, "idle"), "active"), i)
  <2> DEFINE s == fire(u, "idle")
  <2>1. FlowOp(t, s, i)
    BY <1>5
  <2> HIDE DEF s
  <2>2. FlowOp(t, fire(s, "active"), i)
    BY <2>1, ExportAfter
  <2> QED
    BY <2>2 DEF s
<1>7. ExpireFlow(t, i) = IF f.expireNext = 0 THEN t ELSE fire(fire(u, "idle"), "active")
  BY DEF ExpireFlow, Disarmed, u
<1> HIDE DEF fire
<1> QED
  BY <1>6, <1>7, FlowOpNothing DEF FlowOp

\* Timers that are due keep or drop the flow.
LEMMA ExpireIfDueOp ==
    ASSUME NEW t, NEW i, Here(t, i)
    PROVE  FlowOp(t, ExpireIfDue(t, i), i)
BY ExpireFlowOp, FlowOpNothing DEF ExpireIfDue, FlowOp

\* Inside record.Event: the records that run, with an export record each.
Started(t, i, o) ==
    LET f        == t.flowlist[i]
        fresh(r) == [flow |-> f.id, nr |-> t.packets, done |-> FALSE, at |-> 0,
                     now |-> 0, reason |-> "none", ctx |-> Nil]
        moves(r) == \/ r \notin f.recording
                    \/ options.sort \in {"stop", "expiry"} /\ o[r] # "stop"
    IN  [t EXCEPT
            !.flowlist[i].recording = {r \in Records : o[r] # "stop"},
            !.exports = [r \in Records |->
                IF options.sort # "none" /\ moves(r)
                THEN Insert(Unlink(@[r], f.id), fresh(r)) ELSE @[r]]]

\* Records that start or stop keep the flow.
LEMMA StartedKept ==
    ASSUME NEW t, NEW i, NEW o, Here(t, i)
    PROVE  /\ Kept(t, Started(t, i, o), i) /\ Here(Started(t, i, o), i)
           /\ Started(t, i, o).flowlist[i]
                = [t.flowlist[i] EXCEPT !.recording = {r \in Records : o[r] # "stop"}]
<1> DEFINE f       == t.flowlist[i]
           running == {r \in Records : o[r] # "stop"}
           g       == [f EXCEPT !.recording = running]
           u       == Started(t, i, o)
<1>1. f \in Flow /\ i \in 1 .. Len(t.flowlist) /\ t.flowlist \in Seq(Flow \cup {Nil})
  BY SlotHoldsFlow DEF Here, TableType
<1>2. g \in Flow /\ g.key = f.key /\ ExpireNextIsBound(g) /\ g.active = f.active
  BY <1>1 DEF Flow, Here, ExpireNextIsBound
<1>3. /\ u.flowlist = [t.flowlist EXCEPT ![i] = g] /\ SameFrame(t, u)
      /\ u.flows = t.flows /\ u.freelist = t.freelist
  BY DEF Here, TableType, SameFrame, Started
<1>4. u.flowlist \in Seq(Flow \cup {Nil}) /\ u.flowlist[i] = g
  BY <1>1, <1>2, <1>3, ExceptSeq
<1>5. TableType(u)
  BY <1>4 DEF TableType, Here, Started
<1>6. t.eof \/ g.active
  BY <1>2 DEF Here
<1> HIDE DEF u
<1>7. Kept(t, u, i)
  BY <1>1, <1>2, <1>3, <1>5, <1>6, ReplaceIsKept
<1> QED
  BY <1>4, <1>7, KeptSlots DEF u

\* The records of the flow get the event.
LEMMA RecordEventKept ==
    ASSUME NEW t, NEW i, NEW o, Here(t, i)
    PROVE  Kept(t, RecordEvent(t, i, o), i) /\ Here(RecordEvent(t, i, o), i)
<1> DEFINE u == Started(t, i, o)
<1>1. Kept(t, u, i) /\ Here(u, i)
  BY StartedKept
<1>2. \E rs, at, ctx : RecordEvent(t, i, o) = ExportRecords(u, i, rs, "control", at, ctx)
  BY DEF RecordEvent, Started
<1> HIDE DEF u
<1>3. Kept(u, RecordEvent(t, i, o), i)
  BY <1>1, <1>2, ExportRecordsKept
<1>4. Kept(t, RecordEvent(t, i, o), i)
  BY <1>1, <1>3, KeptCompose
<1> QED
  BY <1>4, KeptSlots

\* A timer that is set for a time other than 0 keeps the bound.
LEMMA AddTimerKeepsBound ==
    ASSUME NEW f \in Flow, NEW id \in TimerIds, NEW when \in Nat \ {0}, ExpireNextIsBound(f)
    PROVE  /\ AddTimer(f, id, when) \in Flow
           /\ ExpireNextIsBound(AddTimer(f, id, when))
           /\ AddTimer(f, id, when).key = f.key
           /\ AddTimer(f, id, when).active = f.active
<1> DEFINE g == AddTimer(f, id, when)
           next == IF when < f.expireNext \/ f.expireNext = 0 THEN when ELSE f.expireNext
<1>1. f.timers \in [TimerIds -> Nat] /\ f.expireNext \in Nat /\ next \in Nat
  BY DEF Flow
<1>2. /\ g.timers = [f.timers EXCEPT ![id] = when] /\ g.expireNext = next
      /\ g.key = f.key /\ g.active = f.active
  BY DEF AddTimer, Flow
<1>3. g \in Flow
  BY <1>1 DEF AddTimer, Flow
<1>4. ExpireNextIsBound(g)
  <2> SUFFICES ASSUME NEW x \in TimerIds, g.timers[x] # 0
               PROVE  g.expireNext # 0 /\ g.expireNext <= g.timers[x]
    BY DEF ExpireNextIsBound
  <2>1. CASE x = id
    BY <1>1, <1>2, <2>1
  <2>2. CASE x # id
    BY <1>1, <1>2, <2>2 DEF ExpireNextIsBound
  <2> QED
    BY <2>1, <2>2
<1> QED
  BY <1>2, <1>3, <1>4

\* Inside tcpFlow.Event: the flags seen so far.
Seen(t, i, p) ==
    LET forward == p.low = t.flowlist[i].low
        own   == IF forward THEN "srcFIN" ELSE "dstFIN"
        peer  == IF forward THEN "dstFIN" ELSE "srcFIN"
        acked == IF forward THEN "dstACK" ELSE "srcACK"
    IN  [t EXCEPT !.flowlist[i].tcp = @
            \cup (IF "FIN" \in p.flags THEN {own} ELSE {})
            \cup (IF peer \in @ /\ "ACK" \in p.flags THEN {acked} ELSE {})]

\* What the tcp state has seen keeps the flow.
LEMMA SeenKept ==
    ASSUME NEW t, NEW i, NEW p, Here(t, i)
    PROVE  /\ Kept(t, Seen(t, i, p), i)
           /\ \E seen : Seen(t, i, p).flowlist[i] = [t.flowlist[i] EXCEPT !.tcp = seen]
<1> DEFINE f == t.flowlist[i]
           forward == p.low = f.low
           own   == IF forward THEN "srcFIN" ELSE "dstFIN"
           peer  == IF forward THEN "dstFIN" ELSE "srcFIN"
           acked == IF forward THEN "dstACK" ELSE "srcACK"
           seen == f.tcp \cup (IF "FIN" \in p.flags THEN {own} ELSE {})
                         \cup (IF peer \in f.tcp /\ "ACK" \in p.flags THEN {acked} ELSE {})
           g == [f EXCEPT !.tcp = seen]
           u == Seen(t, i, p)
<1>1. f \in Flow /\ i \in 1 .. Len(t.flowlist) /\ t.flowlist \in Seq(Flow \cup {Nil})
  BY SlotHoldsFlow DEF Here, TableType
<1>2. seen \in SUBSET (TCPFlags \cup {"srcFIN", "dstFIN", "srcACK", "dstACK"})
  BY <1>1 DEF Flow
<1>3. u = [t EXCEPT !.flowlist[i].tcp = seen]
  BY DEF Seen
<1> HIDE DEF seen, u
<1>4. g \in Flow /\ g.key = f.key /\ ExpireNextIsBound(g) /\ g.active = f.active
  BY <1>1, <1>2 DEF Flow, Here, ExpireNextIsBound
<1>5. /\ u.flowlist = [t.flowlist EXCEPT ![i] = g] /\ SameFrame(t, u)
      /\ u.flows = t.flows /\ u.freelist = t.freelist
  BY <1>3 DEF Here, TableType, SameFrame
<1>6. u.flowlist \in Seq(Flow \cup {Nil}) /\ u.flowlist[i] = g
  BY <1>1, <1>4, <1>5, ExceptSeq
<1>7. TableType(u)
  BY <1>3, <1>6 DEF TableType, Here
<1>8. t.eof \/ g.active
  BY <1>4 DEF Here
<1>9. Kept(t, u, i)
  BY <1>1, <1>4, <1>5, <1>7, <1>8, ReplaceIsKept
<1> QED
  BY <1>6, <1>9 DEF u

\* What TCPEvent does, in these terms.
LEMMA TCPEventCases ==
    ASSUME NEW t, NEW i, NEW p
    PROVE  LET u == Seen(t, i, p)
           IN  \/ TCPEvent(t, i, p) \in {t, u}
               \/ TCPEvent(t, i, p) = Export(t, i, "end", t.when, t.ctx)
               \/ TCPEvent(t, i, p) = Export(u, i, "end", t.when, t.ctx)
BY DEF TCPEvent, Seen

\* The end of a TCP connection.
LEMMA TCPEventOp ==
    ASSUME NEW t, NEW i, NEW p, Here(t, i)
    PROVE  FlowOp(t, TCPEvent(t, i, p), i)
<1> DEFINE u == Seen(t, i, p)
<1>1. Kept(t, u, i)
  BY SeenKept
<1>2. FlowOp(t, Export(u, i, "end", t.when, t.ctx), i)
  BY <1>1, ExportAfter DEF FlowOp
<1> QED
  BY <1>1, <1>2, TCPEventCases, ExportOp, FlowOpNothing DEF FlowOp

\* Inside BaseFlow.Event: the flow is in the context and its idle timer is set.
Timed(t, i) ==
    [t EXCEPT !.ctx = t.flowlist[i].id,
              !.flowlist[i] = IF options.idle = 0 THEN @
                              ELSE AddTimer(@, "idle", t.when + options.idle)]

\* Setting timers keeps the flow, with its id and its window.
LEMMA TimedKept ==
    ASSUME NEW t, NEW i, Here(t, i), options \in Options
    PROVE  /\ Kept(t, Timed(t, i), i) /\ Here(Timed(t, i), i)
           /\ LET f == t.flowlist[i]
                  g == Timed(t, i).flowlist[i]
              IN  g.id = f.id /\ g.window = f.window /\ g.active = f.active
<1> DEFINE f == t.flowlist[i]
           g == IF options.idle = 0 THEN f ELSE AddTimer(f, "idle", t.when + options.idle)
           u == Timed(t, i)
<1>1. f \in Flow /\ i \in 1 .. Len(t.flowlist) /\ t.flowlist \in Seq(Flow \cup {Nil})
      /\ t.when \in Nat /\ options.idle \in Nat /\ f.id \in Nat
  BY SlotHoldsFlow, OptionsAssumption DEF Here, TableType, OptionType, Flow
<1>2. g \in Flow /\ g.key = f.key /\ ExpireNextIsBound(g) /\ g.active = f.active
  <2>1. CASE options.idle = 0
    BY <1>1, <2>1 DEF Here
  <2>2. CASE options.idle # 0
    <3>1. t.when + options.idle \in Nat \ {0} /\ "idle" \in TimerIds /\ ExpireNextIsBound(f)
      BY <1>1, <2>2 DEF TimerIds, Here
    <3> QED
      BY <1>1, <2>2, <3>1, AddTimerKeepsBound
  <2> QED
    BY <2>1, <2>2
<1>3. g.id = f.id /\ g.window = f.window
  BY <1>1 DEF AddTimer, Flow
<1> HIDE DEF g
<1>4. /\ u.flowlist = [t.flowlist EXCEPT ![i] = g] /\ SameFrame(t, u)
      /\ u.flows = t.flows /\ u.freelist = t.freelist
  BY DEF Here, TableType, SameFrame, Timed, g
<1>5. u.flowlist \in Seq(Flow \cup {Nil}) /\ u.flowlist[i] = g
  BY <1>1, <1>2, <1>4, ExceptSeq
<1>6. TableType(u)
  BY <1>1, <1>5 DEF TableType, Here, Timed
<1>7. t.eof \/ g.active
  BY <1>2 DEF Here
<1> HIDE DEF u
<1>8. Kept(t, u, i)
  BY <1>1, <1>2, <1>4, <1>6, <1>7, ReplaceIsKept
<1>9. Here(u, i)
  BY <1>8, KeptSlots
<1> QED
  BY <1>2, <1>3, <1>5, <1>8, <1>9 DEF u

\* BaseFlow.Event: the idle timer, the records, and the end of the flow they ask for.
LEMMA FlowEventOp ==
    ASSUME NEW t, NEW i, NEW o, Here(t, i), options \in Options
    PROVE  FlowOp(t, FlowEvent(t, i, o), i)
<1> DEFINE u == RecordEvent(Timed(t, i), i, o)
<1>1. Kept(t, Timed(t, i), i) /\ Here(Timed(t, i), i)
  BY TimedKept
<1>2. Kept(Timed(t, i), u, i) /\ Here(u, i)
  BY <1>1, RecordEventKept
<1>3. Kept(t, u, i)
  BY <1>1, <1>2, KeptCompose
<1>4. FlowEvent(t, i, o) =
        IF u.flowlist[i].recording = {} THEN StopFlow(u, i)
        ELSE IF options.perPacket THEN Export(u, i, "end", u.when, u.ctx)
        ELSE u
  BY DEF FlowEvent, Timed
<1> HIDE DEF u
<1> QED
  BY <1>2, <1>3, <1>4, StopFlowOp, ExportOp, FlowOpCompose DEF FlowOp

\* A packet keeps or drops its flow.
LEMMA HandlePacketOp ==
    ASSUME NEW t, NEW i, NEW p, NEW o, Here(t, i), options \in Options
    PROVE  FlowOp(t, HandlePacket(t, i, p, o), i)
<1> DEFINE u == FlowEvent(t, i, o)
<1>1. FlowOp(t, u, i)
  BY FlowEventOp
<1>2. HandlePacket(t, i, p, o) = IF IsActive(u, i) THEN TCPEvent(u, i, p) ELSE u
  BY DEF HandlePacket
<1> HIDE DEF u
<1>3. CASE Kept(t, u, i)
  <2>1. FlowOp(u, TCPEvent(u, i, p), i)
    BY <1>3, KeptSlots, TCPEventOp
  <2> QED
    BY <1>1, <1>2, <1>3, <2>1, FlowOpCompose
<1>4. CASE Dropped(t, u, i)
  <2>1. ~IsActive(u, i)
    BY <1>4, DroppedSlots DEF IsActive
  <2> QED
    BY <1>1, <1>2, <2>1
<1> QED
  BY <1>1, <1>3, <1>4 DEF FlowOp

--------------------------------------------------------------------------------
(* 3. Operations on the table.                                               *)

AllActive(t) == \A i \in Slots(t) : t.flowlist[i].active

\* A new flow has a valid bound for its timers.
LEMMA InitFlowType ==
    ASSUME NEW t, TableType(t), NEW p \in Packets, options \in Options
    PROVE  /\ InitFlow(t, p) \in Flow /\ InitFlow(t, p).key = p.key
           /\ InitFlow(t, p).active /\ ExpireNextIsBound(InitFlow(t, p))
<1> DEFINE f == [key |-> p.key, id |-> t.flowID, low |-> p.low, expireNext |-> 0,
                 timers |-> [id \in TimerIds |-> 0], active |-> TRUE, recording |-> {},
                 tcp |-> IF options.fivetuple THEN p.flags \cap {"TCP"} ELSE {},
                 window |-> p.window]
<1>1. /\ p.key \in Keys /\ p.low \in BOOLEAN /\ p.window \in Nat /\ t.flowID \in Nat
      /\ t.when \in Nat /\ options.active \in Nat
  BY PacketsAssumption, OptionsAssumption DEF PacketType, OptionType, TableType
<1>2. (IF options.fivetuple THEN p.flags \cap {"TCP"} ELSE {}) \in
        SUBSET (TCPFlags \cup {"srcFIN", "dstFIN", "srcACK", "dstACK"})
  BY DEF TCPFlags
<1>3. f \in Flow /\ f.key = p.key /\ f.active /\ ExpireNextIsBound(f)
  BY <1>1, <1>2 DEF Flow, ExpireNextIsBound
<1>4. InitFlow(t, p) =
        IF options.active = 0 THEN f ELSE AddTimer(f, "active", t.when + options.active)
  BY DEF InitFlow
<1> HIDE DEF f
<1>5. CASE options.active # 0
  <2>1. t.when + options.active \in Nat \ {0} /\ "active" \in TimerIds
    BY <1>1, <1>5 DEF TimerIds
  <2> QED
    BY <1>3, <1>4, <1>5, <2>1, AddTimerKeepsBound
<1> QED
  BY <1>3, <1>4, <1>5

\* The slot for a new flow is empty, or one past the end.
LEMMA FreeSlotIsFree ==
    ASSUME NEW t, Sound(t)
    PROVE  /\ FreeSlot(t) \in 1 .. Len(t.flowlist) + 1 /\ Len(t.flowlist) \in Nat
           /\ t.freelist = <<>> => FreeSlot(t) = Len(t.flowlist) + 1
           /\ t.freelist # <<>> =>
                /\ Len(t.freelist) \in 1 .. Len(t.freelist)
                /\ FreeSlot(t) = t.freelist[Len(t.freelist)]
                /\ FreeSlot(t) \in 1 .. Len(t.flowlist)
           /\ FreeSlot(t) \notin Slots(t)
<1>1. Len(t.flowlist) \in Nat /\ t.freelist \in Seq(Nat)
  BY DEF Sound, TableType
<1>2. CASE t.freelist = <<>>
  BY <1>1, <1>2 DEF FreeSlot, Slots
<1>3. CASE t.freelist # <<>>
  <2>1. Len(t.freelist) \in 1 .. Len(t.freelist)
    BY <1>1, <1>3, EmptySeq
  <2>2. FreeSlot(t) = t.freelist[Len(t.freelist)]
    BY <1>3 DEF FreeSlot
  <2>3. FreeSlot(t) \in (1 .. Len(t.flowlist)) \ Slots(t)
    BY <2>1, <2>2 DEF Sound, FreeListMatches
  <2> QED
    BY <1>1, <1>3, <2>1, <2>2, <2>3
<1> QED
  BY <1>2, <1>3

\* What a new flow changes in the table: its slot, its key, and the free list.
LEMMA AddFlowFields ==
    ASSUME NEW t, Sound(t), NEW p \in Packets, options \in Options
    PROVE  LET u == AddFlow(t, p)
               s == FreeSlot(t)
           IN  /\ TableType(u)
               /\ u.flows = [t.flows EXCEPT ![p.key] = s]
               /\ Len(u.flowlist) = IF t.freelist = <<>> THEN Len(t.flowlist) + 1
                                    ELSE Len(t.flowlist)
               /\ u.flowlist[s] = InitFlow(t, p)
               /\ \A j \in 1 .. Len(t.flowlist) : j # s => u.flowlist[j] = t.flowlist[j]
               /\ u.freelist = IF t.freelist = <<>> THEN <<>>
                               ELSE SubSeq(t.freelist, 1, Len(t.freelist) - 1)
               /\ u.eof = t.eof /\ u.expiring = t.expiring
<1> DEFINE f == InitFlow(t, p)
           s == FreeSlot(t)
           u == AddFlow(t, p)
           flows == [t.flows EXCEPT ![p.key] = s]
<1>1. /\ t.flowlist \in Seq(Flow \cup {Nil}) /\ t.freelist \in Seq(Nat)
      /\ t.flows \in [Keys -> Nat] /\ p.key \in Keys /\ s \in Nat
  <2>1. s \in 1 .. Len(t.flowlist) + 1 /\ Len(t.flowlist) \in Nat
    BY FreeSlotIsFree
  <2>2. s \in Nat
    BY <2>1
  <2>3. p.key \in Keys
    BY PacketsAssumption DEF PacketType
  <2> HIDE DEF s
  <2> QED
    BY <2>2, <2>3 DEF Sound, TableType
<1>2. f \in Flow /\ flows \in [Keys -> Nat]
  BY <1>1, InitFlowType DEF Sound
<1>3. CASE t.freelist = <<>>
  <2> DEFINE list == Append(t.flowlist, f)
  <2>1. /\ list \in Seq(Flow \cup {Nil}) /\ Len(list) = Len(t.flowlist) + 1 /\ list[s] = f
        /\ \A j \in 1 .. Len(t.flowlist) : list[j] = t.flowlist[j]
    BY <1>1, <1>2, <1>3, AppendProperties, FreeSlotIsFree
  <2>2. u = [t EXCEPT !.flowlist = list, !.flowID = @ + 1, !.flows = flows]
    BY <1>3 DEF AddFlow
  <2> HIDE DEF f, s, u, flows, list
  <2>3. /\ u.flowlist = list /\ u.flows = flows /\ u.freelist = t.freelist
        /\ u.eof = t.eof /\ u.expiring = t.expiring
    BY <2>2 DEF Sound, TableType
  <2>4. TableType(u)
    BY <1>1, <1>2, <2>1, <2>2, TableTypeNewFlow DEF Sound
  <2> QED
    BY <1>3, <2>1, <2>3, <2>4 DEF f, s, u, flows
<1>4. CASE t.freelist # <<>>
  <2> DEFINE list == [t.flowlist EXCEPT ![s] = f]
             free == SubSeq(t.freelist, 1, Len(t.freelist) - 1)
  <2>1. s \in 1 .. Len(t.flowlist)
    BY <1>4, FreeSlotIsFree
  <2>2. /\ list \in Seq(Flow \cup {Nil}) /\ Len(list) = Len(t.flowlist) /\ list[s] = f
        /\ \A j \in 1 .. Len(t.flowlist) : j # s => list[j] = t.flowlist[j]
    BY <1>1, <1>2, <2>1, ExceptSeq
  <2>3. free \in Seq(Nat)
    BY <1>1, SubSeqProperties, SMTT(30)
  <2>4. u = [t EXCEPT !.flowlist = list, !.freelist = free, !.flowID = @ + 1, !.flows = flows]
    BY <1>4 DEF AddFlow
  <2> HIDE DEF f, s, u, flows, list, free
  <2>5. /\ u.flowlist = list /\ u.flows = flows /\ u.freelist = free
        /\ u.eof = t.eof /\ u.expiring = t.expiring
    BY <2>4 DEF Sound, TableType
  <2>6. TableType(u)
    BY <1>1, <1>2, <2>2, <2>3, <2>4, TableTypeNewFlow DEF Sound
  <2> QED
    BY <1>4, <2>2, <2>5, <2>6 DEF f, s, u, flows, free
<1> QED
  BY <1>3, <1>4

\* A flow for a key that is not in the table.
LEMMA AddFlowSound ==
    ASSUME NEW t, Sound(t), NEW p \in Packets, options \in Options, t.flows[p.key] = 0
    PROVE  LET u == AddFlow(t, p)
               s == FreeSlot(t)
           IN  /\ Sound(u) /\ Here(u, s)
               /\ u.eof = t.eof /\ u.expiring = t.expiring
               /\ \A j \in Slots(u) : j # s => j \in Slots(t) /\ u.flowlist[j] = t.flowlist[j]
<1> DEFINE f == InitFlow(t, p)
           s == FreeSlot(t)
           u == AddFlow(t, p)
           n == Len(t.flowlist)
           free(x) == {x.freelist[a] : a \in 1 .. Len(x.freelist)}
<1>1. /\ s \in 1 .. n + 1 /\ n \in Nat /\ s \notin Slots(t)
      /\ t.freelist = <<>> => s = n + 1
      /\ t.freelist # <<>> => s \in 1 .. n /\ s = t.freelist[Len(t.freelist)]
                              /\ Len(t.freelist) \in 1 .. Len(t.freelist)
  BY FreeSlotIsFree
<1>2. f \in Flow /\ f.key = p.key /\ f.active /\ ExpireNextIsBound(f) /\ f # Nil
  BY InitFlowType, NilAssumption DEF Sound
<1>3. /\ TableType(u) /\ u.flows = [t.flows EXCEPT ![p.key] = s]
      /\ Len(u.flowlist) = IF t.freelist = <<>> THEN n + 1 ELSE n
      /\ u.flowlist[s] = f /\ \A j \in 1 .. n : j # s => u.flowlist[j] = t.flowlist[j]
      /\ u.freelist = IF t.freelist = <<>> THEN <<>>
                      ELSE SubSeq(t.freelist, 1, Len(t.freelist) - 1)
      /\ u.eof = t.eof /\ u.expiring = t.expiring
  BY AddFlowFields
<1>4. p.key \in Keys /\ t.flows \in [Keys -> Nat] /\ t.freelist \in Seq(Nat)
  BY PacketsAssumption DEF PacketType, Sound, TableType
<1> HIDE DEF f, s, u
<1>5. Slots(u) = Slots(t) \cup {s} /\ s \in 1 .. Len(u.flowlist)
  BY <1>1, <1>2, <1>3 DEF Slots
<1>6. \A j \in Slots(u) : j # s => j \in Slots(t) /\ u.flowlist[j] = t.flowlist[j]
  BY <1>3, <1>5 DEF Slots
<1>7. MapMatchesList(u)
  <2>1. \A j \in Slots(t) : /\ t.flows[t.flowlist[j].key] = j /\ j # 0
                            /\ t.flowlist[j].key \in Keys /\ t.flowlist[j].key # p.key
    BY SlotHoldsFlow DEF Sound, MapMatchesList, Slots
  <2>2. \A j \in Slots(u) : u.flows[u.flowlist[j].key] = j
    <3> SUFFICES ASSUME NEW j \in Slots(u) PROVE u.flows[u.flowlist[j].key] = j
      OBVIOUS
    <3>1. CASE j = s
      BY <1>2, <1>3, <1>4, <3>1
    <3>2. CASE j # s
      <4>1. j \in Slots(t) /\ u.flowlist[j] = t.flowlist[j]
        BY <1>6, <3>2
      <4>2. u.flows[t.flowlist[j].key] = t.flows[t.flowlist[j].key]
        BY <1>3, <1>4, <2>1, <4>1
      <4> QED
        BY <2>1, <4>1, <4>2
    <3> QED
      BY <3>1, <3>2
  <2>3. \A k \in Keys : u.flows[k] # 0 => u.flows[k] \in Slots(u) /\ u.flowlist[u.flows[k]].key = k
    <3> SUFFICES ASSUME NEW k \in Keys, u.flows[k] # 0
                 PROVE  u.flows[k] \in Slots(u) /\ u.flowlist[u.flows[k]].key = k
      OBVIOUS
    <3>1. CASE k = p.key
      BY <1>2, <1>3, <1>4, <1>5, <3>1
    <3>2. CASE k # p.key
      <4>1. u.flows[k] = t.flows[k]
        BY <1>3, <1>4, <3>2
      <4>2. t.flows[k] \in Slots(t) /\ t.flowlist[t.flows[k]].key = k
        BY <4>1 DEF Sound, MapMatchesList
      <4>3. t.flows[k] # s
        BY <1>1, <4>2
      <4> QED
        BY <1>5, <1>6, <4>1, <4>2, <4>3
    <3> QED
      BY <3>1, <3>2
  <2> QED
    BY <2>2, <2>3 DEF MapMatchesList
<1>8. FreeListMatches(u)
  <2>1. free(t) = (1 .. n) \ Slots(t)
        /\ \A a, b \in 1 .. Len(t.freelist) : t.freelist[a] = t.freelist[b] => a = b
    BY DEF Sound, FreeListMatches
  <2>2. CASE t.freelist = <<>>
    <3>1. u.freelist = <<>> /\ Len(u.freelist) = 0 /\ Len(t.freelist) = 0
      BY <1>3, <2>2
    <3>2. Slots(t) = 1 .. n
      BY <2>1, <3>1 DEF Slots
    <3>3. Len(u.flowlist) = n + 1 /\ s = n + 1
      BY <1>1, <1>3, <2>2
    <3>4. (1 .. Len(u.flowlist)) \ Slots(u) = {}
      BY <1>1, <1>5, <3>2, <3>3
    <3>5. free(u) = {}
      BY <3>1
    <3> QED
      BY <3>1, <3>4, <3>5 DEF FreeListMatches
  <2>3. CASE t.freelist # <<>>
    <3> DEFINE m == Len(t.freelist)
    <3>1. m \in 1 .. m /\ m \in Nat /\ s = t.freelist[m] /\ Len(u.flowlist) = n
      BY <1>1, <1>3, <1>4, <2>3
    <3>2. Len(u.freelist) = m - 1 /\ \A a \in 1 .. m - 1 : u.freelist[a] = t.freelist[a]
      <4>1. u.freelist = SubSeq(t.freelist, 1, m - 1)
        BY <1>3, <2>3
      <4>2. \A a \in 1 .. m - 1 : t.freelist[a] \in Nat
        BY <1>4, <3>1
      <4> DEFINE k == m - 1
      <4>3. k \in Nat
        BY <3>1
      <4> HIDE DEF k
      <4>4. Len(SubSeq(t.freelist, 1, k)) = k
            /\ \A a \in 1 .. k : SubSeq(t.freelist, 1, k)[a] = t.freelist[a]
        BY <4>2, <4>3, SubSeqProperties DEF k
      <4> QED
        BY <4>1, <4>4 DEF k
    <3>3. \A a, b \in 1 .. Len(u.freelist) : u.freelist[a] = u.freelist[b] => a = b
      BY <2>1, <3>1, <3>2, SMTT(30)
    <3>4. free(u) = free(t) \ {s}
      <4>1. \A a \in 1 .. m - 1 : a \in 1 .. m /\ a # m
        BY <3>1
      <4>2. \A a \in 1 .. m - 1 : t.freelist[a] # s
        BY <2>1, <3>1, <4>1
      <4>3. \A a \in 1 .. m : a # m => a \in 1 .. m - 1
        BY <3>1
      <4>4. free(u) = {t.freelist[a] : a \in 1 .. m - 1}
        BY <3>2
      <4>5. free(u) \subseteq free(t) \ {s}
        BY <4>1, <4>2, <4>4
      <4>6. free(t) \ {s} \subseteq free(u)
        BY <3>1, <4>3, <4>4
      <4> QED
        BY <4>5, <4>6
    <3>5. (1 .. Len(u.flowlist)) \ Slots(u) = ((1 .. n) \ Slots(t)) \ {s}
      BY <1>5, <3>1
    <3>6. free(u) = (1 .. Len(u.flowlist)) \ Slots(u)
      BY <2>1, <3>4, <3>5
    <3> QED
      BY <3>3, <3>6 DEF FreeListMatches
  <2> QED
    BY <2>2, <2>3
<1>9. \A j \in Slots(u) : ExpireNextIsBound(u.flowlist[j])
  BY <1>2, <1>3, <1>6 DEF Sound
<1>10. Here(u, s)
  BY <1>2, <1>3, <1>4, <1>5 DEF Here
<1> QED
  BY <1>3, <1>6, <1>7, <1>8, <1>9, <1>10 DEF Sound, s, u

\* A table of which only the output has changed.
SameTable(t, u) ==
    /\ TableType(u)
    /\ u.flows = t.flows /\ u.flowlist = t.flowlist /\ u.freelist = t.freelist
    /\ u.eof = t.eof /\ u.expiring = t.expiring

\* A table with the same slots is as sound.
LEMMA SameTableSound ==
    ASSUME NEW t, NEW u, Sound(t), SameTable(t, u)
    PROVE  Sound(u) /\ Slots(u) = Slots(t)
BY DEF Sound, SameTable, Slots, MapMatchesList, FreeListMatches

\* Flushing concerns the output only.
LEMMA FlushSame ==
    ASSUME NEW t, TableType(t)
    PROVE  SameTable(t, Flush(t)) /\ SameTable(t, FlushAll(t)) /\ SameTable(t, FlushExpired(t))
<1>1. SameTable(t, Flush(t))
  BY DEF TableType, SameTable, Flush
<1>2. SameTable(t, FlushAll(t))
  BY DEF TableType, SameTable, FlushAll
<1>3. SameTable(t, t)
  BY DEF SameTable
<1> QED
  BY <1>1, <1>2, <1>3 DEF FlushExpired

\* The invariant of a table between operations.
Idle(t) == Sound(t) /\ AllActive(t) /\ ~t.eof

\* A packet handled by flow i of a table between operations.
LEMMA FlowOpIdle ==
    ASSUME NEW t, NEW u, NEW i, Idle(t), i \in Slots(t), FlowOp(t, u, i)
    PROVE  Idle(u) /\ u.expiring = t.expiring
<1>1. Here(t, i)
  BY DEF Idle, Sound, AllActive, Here, MapMatchesList
<1>2. Sound(u)
  BY <1>1, FlowOpSound DEF Idle
<1>3. /\ Slots(u) \subseteq Slots(t) /\ SameFrame(t, u)
      /\ \A j \in Slots(u) : j # i => u.flowlist[j] = t.flowlist[j]
      /\ i \in Slots(u) => t.eof \/ u.flowlist[i].active
  BY <1>1, FlowOpSlots
<1> QED
  BY <1>2, <1>3 DEF Idle, AllActive, SameFrame

\* A packet for a key that has no flow.
LEMMA NewFlowIdle ==
    ASSUME NEW t, NEW p \in Packets, NEW o, Idle(t), t.flows[p.key] = 0, options \in Options
    PROVE  LET u == HandlePacket(AddFlow(t, p), FreeSlot(t), p, o)
           IN  Idle(u) /\ u.expiring = t.expiring
<1> DEFINE v == AddFlow(t, p)
           s == FreeSlot(t)
<1>1. /\ Sound(v) /\ Here(v, s) /\ v.eof = t.eof /\ v.expiring = t.expiring
      /\ \A j \in Slots(v) : j # s => j \in Slots(t) /\ v.flowlist[j] = t.flowlist[j]
  BY AddFlowSound DEF Idle
<1> HIDE DEF v, s
<1>2. Idle(v) /\ s \in Slots(v)
  BY <1>1 DEF Idle, AllActive, Here
<1>3. FlowOp(v, HandlePacket(v, s, p, o), s)
  BY <1>1, HandlePacketOp
<1>4. Idle(HandlePacket(v, s, p, o)) /\ HandlePacket(v, s, p, o).expiring = v.expiring
  BY <1>2, <1>3, FlowOpIdle
<1> QED
  BY <1>1, <1>4 DEF v, s

\* FlowTable.Event before the output is flushed.
Delivered(t, p, o) ==
    LET i     == t.flows[p.key]
        known == i # 0 /\ t.flowlist[i] # Nil
        late  == known /\ t.when > t.flowlist[i].expireNext
        u     == IF late THEN ExpireFlow(t, i) ELSE t
    IN  IF known /\ (late => IsActive(u, i))
        THEN HandlePacket(u, i, p, o)
        ELSE HandlePacket(AddFlow(u, p), FreeSlot(u), p, o)

\* It meets a known flow, an expired one, or makes a new one.
LEMMA DeliveredIdle ==
    ASSUME NEW t, NEW p \in Packets, NEW o, Idle(t), options \in Options
    PROVE  Idle(Delivered(t, p, o)) /\ Delivered(t, p, o).expiring = t.expiring
<1> DEFINE i     == t.flows[p.key]
           known == i # 0 /\ t.flowlist[i] # Nil
           late  == known /\ t.when > t.flowlist[i].expireNext
           u     == IF late THEN ExpireFlow(t, i) ELSE t
           done  == IF known /\ (late => IsActive(u, i))
                    THEN HandlePacket(u, i, p, o)
                    ELSE HandlePacket(AddFlow(u, p), FreeSlot(u), p, o)
<1>1. p.key \in Keys /\ t.flows \in [Keys -> Nat]
  BY PacketsAssumption DEF PacketType, Idle, Sound, TableType
<1>2. i # 0 => i \in Slots(t) /\ t.flowlist[i].key = p.key /\ known /\ Here(t, i)
  <2> SUFFICES ASSUME i # 0
               PROVE  i \in Slots(t) /\ t.flowlist[i].key = p.key /\ known /\ Here(t, i)
    OBVIOUS
  <2>1. i \in Slots(t) /\ t.flowlist[i].key = p.key
    BY <1>1 DEF Idle, Sound, MapMatchesList
  <2> QED
    BY <2>1 DEF Idle, Sound, AllActive, Here, Slots
<1>3. Idle(done) /\ done.expiring = t.expiring
  <2>1. CASE i = 0
    <3>1. done = HandlePacket(AddFlow(t, p), FreeSlot(t), p, o)
      BY <2>1
    <3> HIDE DEF done
    <3> QED
      BY <2>1, <3>1, NewFlowIdle
  <2>2. CASE i # 0 /\ ~late
    <3>1. done = HandlePacket(t, i, p, o)
      BY <1>2, <2>2
    <3>2. FlowOp(t, done, i)
      BY <1>2, <2>2, <3>1, HandlePacketOp
    <3> HIDE DEF done
    <3> QED
      BY <1>2, <2>2, <3>2, FlowOpIdle
  <2>3. CASE i # 0 /\ late
    <3>1. u = ExpireFlow(t, i) /\ i \in Slots(t) /\ known
      BY <1>2, <2>3
    <3>2. FlowOp(t, u, i)
      BY <1>2, <2>3, <3>1, ExpireFlowOp
    <3>3. Idle(u) /\ u.expiring = t.expiring
      BY <3>1, <3>2, FlowOpIdle
    <3>4. done = IF IsActive(u, i) THEN HandlePacket(u, i, p, o)
                 ELSE HandlePacket(AddFlow(u, p), FreeSlot(u), p, o)
      BY <2>3, <3>1
    <3>5. ASSUME Kept(t, u, i) PROVE IsActive(u, i) /\ Here(u, i)
      <4>1. Here(u, i)
        BY <1>2, <2>3, <3>5, KeptSlots
      <4> QED
        BY <4>1, <3>3 DEF IsActive, Here, Slots, Idle
    <3>6. ASSUME Dropped(t, u, i) PROVE ~IsActive(u, i) /\ u.flows[p.key] = 0
      <4>1. u.flowlist[i] = Nil
        BY <1>2, <2>3, <3>6, DroppedSlots
      <4> QED
        BY <1>1, <1>2, <2>3, <3>6, <4>1 DEF IsActive, Dropped
    <3> HIDE DEF u, done
    <3>7. CASE Kept(t, u, i)
      <4>1. Here(u, i) /\ done = HandlePacket(u, i, p, o)
        BY <3>4, <3>5, <3>7
      <4>2. FlowOp(u, done, i) /\ i \in Slots(u)
        BY <4>1, HandlePacketOp DEF Here
      <4> QED
        BY <3>3, <4>2, FlowOpIdle
    <3>8. CASE Dropped(t, u, i)
      BY <3>3, <3>4, <3>6, <3>8, NewFlowIdle
    <3> QED
      BY <3>2, <3>7, <3>8 DEF FlowOp
  <2> QED
    BY <2>1, <2>2, <2>3
<1> QED
  BY <1>3 DEF Delivered

\* A delivery, and the flush that follows it when the output is sorted by time.
LEMMA DeliverIsDelivered ==
    ASSUME NEW t, NEW p, NEW o
    PROVE  LET done == Delivered(t, p, o)
           IN  Deliver(t, p, o) = IF options.sort \in {"start", "stop"} THEN Flush(done) ELSE done
BY DEF Deliver, Delivered

\* A delivery to an idle table leaves it idle.
LEMMA DeliverIdle ==
    ASSUME NEW t, NEW p \in Packets, NEW o, Idle(t), options \in Options
    PROVE  Idle(Deliver(t, p, o)) /\ Deliver(t, p, o).expiring = t.expiring
<1> DEFINE done == Delivered(t, p, o)
<1>1. Idle(done) /\ done.expiring = t.expiring
  BY DeliveredIdle
<1>2. Deliver(t, p, o) = IF options.sort \in {"start", "stop"} THEN Flush(done) ELSE done
  BY DeliverIsDelivered
<1> HIDE DEF done
<1>3. SameTable(done, Flush(done))
  BY <1>1, FlushSame DEF Idle, Sound
<1>4. Idle(Flush(done)) /\ Flush(done).expiring = t.expiring
  BY <1>1, <1>3, SameTableSound DEF Idle, SameTable, AllActive
<1> QED
  BY <1>1, <1>2, <1>4

\* The loops that empty the table: expiry, and the forced end of what is left.
LEMMA EndFlowOp ==
    ASSUME NEW t, NEW i, NEW reason, NEW ctx, Here(t, i)
    PROVE  FlowOp(t, EndFlow(t, i, reason, ctx), i)
<1> DEFINE u == ExpireIfDue(t, i)
<1>1. FlowOp(t, u, i) /\ t.flowlist[i] # Nil
  BY ExpireIfDueOp DEF Here, Slots
<1>2. EndFlow(t, i, reason, ctx) =
        IF IsActive(u, i) THEN Export(u, i, reason, u.when, ctx) ELSE u
  BY <1>1 DEF EndFlow
<1> HIDE DEF u
<1> QED
  BY <1>1, <1>2, ExportAfter

\* ... after which the table is an empty one.
LEMMA ClearIdle ==
    ASSUME NEW t, Sound(t)
    PROVE  Idle(Clear(t)) /\ ~Clear(t).expiring
<1> DEFINE u == Clear(t)
<1>1. /\ u.flows = [k \in Keys |-> 0] /\ u.flowlist = <<>> /\ u.freelist = <<>>
      /\ ~u.eof /\ ~u.expiring
  BY DEF Clear, Sound, TableType
<1>2. TableType(u)
  <2> DEFINE none == [k \in Keys |-> 0]
             v == [t EXCEPT !.flowlist = <<>>, !.freelist = <<>>, !.flows = none]
  <2>1. none \in [Keys -> Nat] /\ <<>> \in Seq(Flow \cup {Nil}) /\ <<>> \in Seq(Nat)
    BY EmptySeq
  <2>2. TableType(v)
    BY <2>1, TableTypeUpdate DEF Sound
  <2>3. u = [v EXCEPT !.eof = FALSE, !.expiring = FALSE]
    BY DEF Clear, Sound, TableType
  <2> HIDE DEF v, u
  <2> QED
    BY <2>2, <2>3 DEF TableType
<1> HIDE DEF u
<1>3. Slots(u) = {} /\ Len(u.freelist) = 0 /\ Len(u.flowlist) = 0
  BY <1>1 DEF Slots
<1>4. MapMatchesList(u)
  BY <1>1, <1>3 DEF MapMatchesList
<1>5. FreeListMatches(u)
  BY <1>3 DEF FreeListMatches
<1>6. Idle(u)
  BY <1>1, <1>2, <1>3, <1>4, <1>5 DEF Idle, Sound, AllActive
<1> QED
  BY <1>1, <1>6 DEF u

--------------------------------------------------------------------------------
(* 4. The steps of the specification.                                        *)

IInv ==
    /\ options \in Options
    /\ LoopType
    /\ FlagsFollowLoop
    /\ Sound(tab)
    /\ OnlyPassedInactive

\* Outside the loops that empty the table.
LEMMA TabIdle ==
    ASSUME IInv, loop.op \notin {"window", "eof"}
    PROVE  Idle(tab)
BY DEF IInv, FlagsFollowLoop, OnlyPassedInactive, Idle, AllActive

\* A table between operations that a step leaves behind.
LEMMA IdleThenIInv ==
    ASSUME Idle(tab'), options' \in Options, LoopType', FlagsFollowLoop'
    PROVE  IInv'
BY DEF IInv, Idle, AllActive, OnlyPassedInactive, Sound, Slots

\* Another time, another packet counted, or the flags of a loop set.
LEMMA ArrivedSame ==
    ASSUME NEW t, TableType(t), NEW when \in Nat, NEW eof \in BOOLEAN, NEW expiring \in BOOLEAN
    PROVE  LET v == [t EXCEPT !.when = when]
               u == [t EXCEPT !.packets = @ + 1, !.when = when]
           IN  /\ SameTable(t, v) /\ SameTable(t, u)
               /\ TableType([v EXCEPT !.eof = eof, !.expiring = expiring])
               /\ TableType([u EXCEPT !.eof = eof, !.expiring = expiring])
<1> DEFINE v == [t EXCEPT !.when = when]
           u == [t EXCEPT !.packets = @ + 1, !.when = when]
<1>1. t.packets + 1 \in Nat
  BY DEF TableType
<1>2. TableType(v) /\ TableType(u)
  BY <1>1 DEF TableType
<1>3. SameTable(t, v) /\ SameTable(t, u)
  BY <1>2 DEF SameTable, TableType
<1>4. \A w : TableType(w) => TableType([w EXCEPT !.eof = eof, !.expiring = expiring])
  BY DEF TableType
<1> QED
  BY <1>2, <1>3, <1>4

\* The same structures in a table with other flags.
LEMMA StructureSound ==
    ASSUME NEW t, NEW u, Sound(t), TableType(u),
           u.flows = t.flows, u.flowlist = t.flowlist, u.freelist = t.freelist
    PROVE  Sound(u) /\ Slots(u) = Slots(t)
BY DEF Sound, Slots, MapMatchesList, FreeListMatches

\* Event, in the current window.
LEMMA EventStep ==
    ASSUME IInv, NEW p \in Packets, NEW when \in Times, Event(p, when)
    PROVE  IInv'
<1> DEFINE u == Arrived(when)
<1>1. when \in Nat /\ loop.op = "none" /\ options \in Options /\ TableType(tab)
  BY BoundsAssumption DEF Event, IInv, Sound
<1>2. Idle(tab) /\ ~tab.expiring
  BY <1>1, TabIdle DEF IInv, FlagsFollowLoop
<1>3. SameTable(tab, u)
  BY <1>1, ArrivedSame DEF Arrived
<1>4. Idle(u) /\ ~u.expiring
  BY <1>2, <1>3, SameTableSound DEF Idle, SameTable, AllActive
<1>5. PICK o \in Outcomes : tab' = Deliver(u, p, o)
  BY DEF Event
<1> HIDE DEF u
<1>6. Idle(tab') /\ tab'.expiring = u.expiring
  BY <1>1, <1>4, <1>5, DeliverIdle
<1>7. loop' = loop /\ options' = options
  BY DEF Event
<1>8. FlagsFollowLoop' /\ LoopType'
  BY <1>1, <1>4, <1>6, <1>7 DEF FlagsFollowLoop, LoopType, IInv, Idle
<1> QED
  BY <1>1, <1>6, <1>7, <1>8, IdleThenIInv

\* Event for another window, Expire and EOF start a loop.
LEMMA LoopStartStep ==
    ASSUME IInv, loop.op = "none", TableType(tab'), options' = options,
           tab'.flows = tab.flows, tab'.flowlist = tab.flowlist,
           tab'.freelist = tab.freelist, LoopType', FlagsFollowLoop'
    PROVE  IInv'
<1>1. Idle(tab)
  BY TabIdle
<1>2. Sound(tab') /\ Slots(tab') = Slots(tab)
  BY StructureSound DEF IInv
<1>3. \A i \in Slots(tab') : tab'.flowlist[i].active
  BY <1>1, <1>2 DEF Idle, AllActive
<1>4. OnlyPassedInactive'
  BY <1>3 DEF OnlyPassedInactive, Slots
<1> QED
  BY <1>2, <1>4 DEF IInv

\* The start of an expiry, of EOF or of the end of a window.
LEMMA LoopStarts ==
    ASSUME IInv, NEW when \in Times,
           \/ \E p \in Packets : EventOfOtherWindow(p, when)
           \/ Expire(when)
           \/ EOF(when)
    PROVE  IInv'
<1>1. when \in Nat /\ TableType(tab)
  BY BoundsAssumption DEF IInv, Sound
<1>2. CASE \E p \in Packets : EventOfOtherWindow(p, when)
  <2>1. PICK p \in Packets : EventOfOtherWindow(p, when)
    BY <1>2
  <2>2. loop.op = "none" /\ options' = options
    BY <2>1 DEF EventOfOtherWindow
  <2>3. TableType(tab')
    BY <1>1, <2>1, ArrivedSame DEF EventOfOtherWindow, Arrived
  <2>4. /\ tab'.flows = tab.flows /\ tab'.flowlist = tab.flowlist
        /\ tab'.freelist = tab.freelist /\ tab'.eof = TRUE /\ tab'.expiring = TRUE
    BY <1>1, <2>1 DEF EventOfOtherWindow, Arrived, TableType
  <2>5. loop' = [op |-> "window", at |-> 1, packet |-> p]
    BY <2>1 DEF EventOfOtherWindow, LoopFor
  <2>6. LoopType' /\ FlagsFollowLoop'
    BY <2>4, <2>5 DEF LoopType, FlagsFollowLoop
  <2> QED
    BY <2>2, <2>3, <2>4, <2>6, LoopStartStep
<1>3. CASE Expire(when)
  <2>1. loop.op = "none" /\ options' = options
    BY <1>3 DEF Expire
  <2>2. TableType(tab')
    BY <1>1, <1>3 DEF Expire, TableType
  <2>3. /\ tab'.flows = tab.flows /\ tab'.flowlist = tab.flowlist
        /\ tab'.freelist = tab.freelist /\ tab'.eof = tab.eof /\ tab'.expiring = TRUE
    BY <1>1, <1>3 DEF Expire, TableType
  <2>4. loop' = [op |-> "expire", at |-> 1, packet |-> Nil]
    BY <1>3 DEF Expire, LoopFor
  <2>5. LoopType' /\ FlagsFollowLoop'
    BY <2>1, <2>3, <2>4 DEF LoopType, FlagsFollowLoop, IInv
  <2> QED
    BY <2>1, <2>2, <2>3, <2>5, LoopStartStep
<1>4. CASE EOF(when)
  <2>1. loop.op = "none" /\ options' = options
    BY <1>4 DEF EOF
  <2>2. TableType(tab')
    BY <1>1, <1>4 DEF EOF, TableType
  <2>3. /\ tab'.flows = tab.flows /\ tab'.flowlist = tab.flowlist
        /\ tab'.freelist = tab.freelist /\ tab'.eof = TRUE /\ tab'.expiring = TRUE
    BY <1>1, <1>4 DEF EOF, TableType
  <2>4. loop' = [op |-> "eof", at |-> 1, packet |-> Nil]
    BY <1>4 DEF EOF, LoopFor
  <2>5. LoopType' /\ FlagsFollowLoop'
    BY <2>3, <2>4 DEF LoopType, FlagsFollowLoop
  <2> QED
    BY <2>1, <2>2, <2>3, <2>5, LoopStartStep
<1> QED
  BY <1>2, <1>3, <1>4

\* One element of a loop.
LEMMA LoopElementStep ==
    ASSUME IInv, loop.op \in {"expire", "window", "eof"}, loop.at <= Len(tab.flowlist),
           NextElement,
           tab.flowlist[loop.at] = Nil => tab' = tab,
           Here(tab, loop.at) => FlowOp(tab, tab', loop.at)
    PROVE  IInv'
<1> DEFINE i == loop.at
<1>1. /\ i \in 1 .. Len(tab.flowlist) /\ i \in Nat
      /\ loop' = [loop EXCEPT !.at = @ + 1] /\ options' = options
  BY DEF IInv, LoopType, NextElement, Sound, TableType
<1>2. LoopType' /\ loop'.op = loop.op /\ loop'.at = i + 1
  BY <1>1 DEF IInv, LoopType
<1>3. \A j \in Slots(tab) : tab.flowlist[j].active \/ (tab.eof /\ j < i)
  BY DEF IInv, OnlyPassedInactive
<1> HIDE DEF i
<1>4. CASE tab.flowlist[i] = Nil
  <2>1. tab' = tab
    BY <1>4 DEF i
  <2>2. FlagsFollowLoop'
    BY <1>2, <2>1 DEF FlagsFollowLoop, IInv
  <2>3. \A j \in Slots(tab) : j \in Nat
    BY DEF Slots
  <2>4. OnlyPassedInactive'
    BY <1>1, <1>2, <1>3, <2>1, <2>3 DEF OnlyPassedInactive, Slots
  <2> QED
    BY <1>1, <1>2, <2>1, <2>2, <2>4 DEF IInv
<1>5. CASE tab.flowlist[i] # Nil
  <2>1. i \in Slots(tab)
    BY <1>1, <1>5 DEF Slots
  <2>2. Here(tab, i)
    BY <1>3, <2>1 DEF Here, IInv, Sound, MapMatchesList
  <2>3. FlowOp(tab, tab', i)
    BY <2>2 DEF i
  <2>4. Sound(tab')
    BY <2>2, <2>3, FlowOpSound DEF IInv
  <2>5. /\ SameFrame(tab, tab') /\ Slots(tab') \subseteq Slots(tab)
        /\ \A j \in Slots(tab') : j # i => tab'.flowlist[j] = tab.flowlist[j]
        /\ i \in Slots(tab') => tab.eof \/ tab'.flowlist[i].active
    BY <2>2, <2>3, FlowOpSlots
  <2>6. FlagsFollowLoop'
    BY <1>2, <2>5 DEF FlagsFollowLoop, IInv, SameFrame
  <2>7. \A j \in Slots(tab') : tab'.flowlist[j].active \/ (tab'.eof /\ j < loop'.at)
    <3> SUFFICES ASSUME NEW j \in Slots(tab')
                 PROVE  tab'.flowlist[j].active \/ (tab'.eof /\ j < loop'.at)
      OBVIOUS
    <3>1. j \in Nat /\ j \in Slots(tab)
      BY <2>5 DEF Slots
    <3>2. CASE j = i
      BY <1>1, <1>2, <2>5, <3>2 DEF SameFrame
    <3>3. CASE j # i
      BY <1>1, <1>2, <1>3, <2>5, <3>1, <3>3 DEF SameFrame
    <3> QED
      BY <3>2, <3>3
  <2>8. OnlyPassedInactive'
    BY <2>7 DEF OnlyPassedInactive, Slots
  <2> QED
    BY <1>1, <1>2, <2>4, <2>6, <2>8 DEF IInv
<1> QED
  BY <1>4, <1>5

\* One flow of an expiry, of EOF or of the end of a window.
LEMMA LoopElements ==
    ASSUME IInv, ExpireStep \/ EOFStep \/ WindowStep
    PROVE  IInv'
<1>1. CASE ExpireStep
  <2>1. /\ loop.op = "expire" /\ loop.at <= Len(tab.flowlist) /\ NextElement
        /\ tab' = IF tab.flowlist[loop.at] = Nil THEN tab ELSE ExpireIfDue(tab, loop.at)
    BY <1>1 DEF ExpireStep, InLoop
  <2>2. Here(tab, loop.at) => FlowOp(tab, tab', loop.at)
    BY <2>1, ExpireIfDueOp DEF Here, Slots
  <2> QED
    BY <2>1, <2>2, LoopElementStep
<1>2. ASSUME NEW reason, NEW ctx, tab' = EndFlow(tab, loop.at, reason, ctx)
      PROVE  /\ tab.flowlist[loop.at] = Nil => tab' = tab
             /\ Here(tab, loop.at) => FlowOp(tab, tab', loop.at)
  BY <1>2, EndFlowOp DEF EndFlow
<1>3. CASE EOFStep
  <2>1. /\ loop.op = "eof" /\ loop.at <= Len(tab.flowlist) /\ NextElement
        /\ tab' = EndFlow(tab, loop.at, "forced", tab.flowlist[loop.at].id)
    BY <1>3 DEF EOFStep, InLoop
  <2> QED
    BY <1>2, <2>1, LoopElementStep
<1>4. CASE WindowStep
  <2>1. /\ loop.op = "window" /\ loop.at <= Len(tab.flowlist) /\ NextElement
        /\ tab' = EndFlow(tab, loop.at, "end", tab.ctx)
    BY <1>4 DEF WindowStep, InLoop
  <2> QED
    BY <1>2, <2>1, LoopElementStep
<1> QED
  BY <1>1, <1>3, <1>4

\* Flushing a table between operations.
LEMMA FlushIdle ==
    ASSUME NEW t, Idle(t)
    PROVE  /\ Idle(FlushAll(t)) /\ FlushAll(t).expiring = t.expiring
           /\ Idle(FlushExpired(t)) /\ FlushExpired(t).expiring = t.expiring
<1>1. SameTable(t, FlushAll(t)) /\ SameTable(t, FlushExpired(t))
  BY FlushSame DEF Idle, Sound
<1>2. \A u : SameTable(t, u) => Idle(u) /\ u.expiring = t.expiring
  BY SameTableSound DEF Idle, SameTable, AllActive
<1> QED
  BY <1>1, <1>2

\* The end of an expiry, of EOF or of a window.
LEMMA LoopEnds ==
    ASSUME IInv, ExpireDone \/ EOFDone \/ WindowDone
    PROVE  IInv'
<1>1. Sound(tab) /\ options \in Options
  BY DEF IInv
<1>2. CASE ExpireDone
  <2> DEFINE t == [tab EXCEPT !.expiring = FALSE]
  <2>1. loop.op = "expire" /\ tab' = FlushExpired(t) /\ loop' = NoLoop /\ options' = options
    BY <1>2 DEF ExpireDone, LoopOver
  <2>2. Idle(tab)
    BY <2>1, TabIdle
  <2>3. /\ TableType(t) /\ t.flows = tab.flows /\ t.flowlist = tab.flowlist
        /\ t.freelist = tab.freelist /\ t.eof = tab.eof /\ ~t.expiring
    BY <1>1 DEF Sound, TableType
  <2> HIDE DEF t
  <2>4. Idle(t)
    BY <1>1, <2>2, <2>3, StructureSound DEF Idle, AllActive
  <2>5. Idle(tab') /\ tab'.expiring = t.expiring
    BY <2>1, <2>4, FlushIdle
  <2>6. LoopType' /\ FlagsFollowLoop'
    BY <2>1, <2>3, <2>5 DEF LoopType, FlagsFollowLoop, NoLoop, Idle
  <2> QED
    BY <1>1, <2>1, <2>5, <2>6, IdleThenIInv
<1>3. Idle(Clear(tab)) /\ ~Clear(tab).expiring
  BY <1>1, ClearIdle
<1>4. CASE EOFDone
  <2> DEFINE t == Clear(tab)
  <2>1. /\ tab' = IF options.sort = "none" THEN t ELSE FlushAll(t)
        /\ loop' = [NoLoop EXCEPT !.op = "done"] /\ options' = options
    BY <1>4 DEF EOFDone
  <2> HIDE DEF t
  <2>2. Idle(t) /\ ~t.expiring
    BY <1>3 DEF t
  <2>3. Idle(tab') /\ tab'.expiring = t.expiring
    BY <2>1, <2>2, FlushIdle
  <2>4. LoopType' /\ FlagsFollowLoop'
    BY <2>1, <2>2, <2>3 DEF LoopType, FlagsFollowLoop, NoLoop, Idle
  <2> QED
    BY <1>1, <2>1, <2>3, <2>4, IdleThenIInv
<1>5. CASE WindowDone
  <2> DEFINE t == FlushExpired(Clear(tab))
             p == loop.packet
             u == [t EXCEPT !.window = p.window]
  <2>1. loop.op = "window" /\ loop' = NoLoop /\ options' = options
    BY <1>5 DEF WindowDone, LoopOver
  <2>2. PICK o \in Outcomes : tab' = Deliver(u, p, o)
    BY <1>5 DEF WindowDone
  <2>3. p \in Packets /\ p.window \in Nat
    BY <2>1, PacketsAssumption DEF IInv, LoopType, PacketType
  <2>4. Idle(t) /\ ~t.expiring
    BY <1>3, FlushIdle
  <2> HIDE DEF t, p
  <2>5. TableType(t)
    BY <2>4 DEF Idle, Sound
  <2>6. /\ TableType(u) /\ u.flows = t.flows /\ u.flowlist = t.flowlist
        /\ u.freelist = t.freelist /\ u.eof = t.eof /\ u.expiring = t.expiring
    BY <2>3, <2>5 DEF TableType
  <2> HIDE DEF u
  <2>7. Idle(u) /\ ~u.expiring
    BY <2>4, <2>6, StructureSound DEF Idle, AllActive
  <2>8. Idle(tab') /\ tab'.expiring = u.expiring
    BY <1>1, <2>2, <2>3, <2>7, DeliverIdle
  <2>9. LoopType' /\ FlagsFollowLoop'
    BY <2>1, <2>7, <2>8 DEF LoopType, FlagsFollowLoop, NoLoop, Idle
  <2> QED
    BY <1>1, <2>1, <2>8, <2>9, IdleThenIInv
<1> QED
  BY <1>2, <1>4, <1>5

\* The new table satisfies the invariant.
LEMMA InitInvariant == Init => IInv
<1> SUFFICES ASSUME Init PROVE IInv
  OBVIOUS
<1> DEFINE t == NewFlowTable
           none == [k \in Keys |-> 0]
<1>1. options \in Options /\ tab = t /\ loop = NoLoop
  BY DEF Init
<1>2. /\ t.flows = none /\ t.flowlist = <<>> /\ t.freelist = <<>>
      /\ t.eof = FALSE /\ t.expiring = FALSE
  BY DEF NewFlowTable
<1>3. TableType(t)
  <2>1. none \in [Keys -> Nat] /\ <<>> \in Seq(Flow \cup {Nil}) /\ <<>> \in Seq(Nat)
    BY EmptySeq
  <2> QED
    BY <2>1 DEF TableType, NewFlowTable
<1> HIDE DEF t
<1>4. Slots(t) = {} /\ Len(t.freelist) = 0 /\ Len(t.flowlist) = 0
  BY <1>2 DEF Slots
<1>5. MapMatchesList(t) /\ FreeListMatches(t)
  BY <1>2, <1>4 DEF MapMatchesList, FreeListMatches
<1>6. Sound(tab) /\ Slots(tab) = {}
  BY <1>1, <1>3, <1>4, <1>5 DEF Sound
<1>7. OnlyPassedInactive
  BY <1>6 DEF OnlyPassedInactive
<1>8. LoopType /\ FlagsFollowLoop
  BY <1>1, <1>2 DEF LoopType, FlagsFollowLoop, NoLoop
<1> QED
  BY <1>1, <1>6, <1>7, <1>8 DEF IInv

\* Every step keeps the invariant.
LEMMA NextInvariant == IInv /\ [Next]_vars => IInv'
<1> SUFFICES ASSUME IInv, [Next]_vars PROVE IInv'
  OBVIOUS
<1>1. CASE UNCHANGED vars
  BY <1>1 DEF vars, IInv, LoopType, FlagsFollowLoop, OnlyPassedInactive, Slots
<1>2. CASE LoopNext
  BY <1>2, LoopElements, LoopEnds DEF LoopNext
<1>3. CASE \E when \in Times : \E p \in Packets : Event(p, when)
  BY <1>3, EventStep
<1>4. CASE \E when \in Times : (\E p \in Packets : EventOfOtherWindow(p, when))
                               \/ Expire(when) \/ EOF(when)
  BY <1>4, LoopStarts
<1> QED
  BY <1>1, <1>2, <1>3, <1>4 DEF Next

\* The inductive invariant of a flow table.
THEOREM Invariance == Spec => []IInv
BY InitInvariant, NextInvariant, PTL DEF Spec

\* The key map, the flow list and the free list stay in step (remove, the reuse of
\* slots in Event, and the loops of Expire, EOF and expireWindow).
THEOREM TableStaysConsistent == Spec => []TableConsistent
<1>1. IInv => TableConsistent
  BY DEF IInv, Sound, TableConsistent
<1> QED
  BY <1>1, Invariance, PTL

\* Event and Expire never meet a flow that has ended.
THEOREM InactiveOnlyWherePassed == Spec => []OnlyPassedInactive
<1>1. IInv => OnlyPassedInactive
  BY DEF IInv
<1> QED
  BY <1>1, Invariance, PTL

\* expireNext bounds the timers of every flow, so looking at it is enough.
THEOREM TimersStayBounded == Spec => []TimersBounded
<1>1. IInv => TimersBounded
  BY DEF IInv, Sound, TimersBounded
<1> QED
  BY <1>1, Invariance, PTL

--------------------------------------------------------------------------------
(* The life of a flow.                                                       *)

\* The flow in slot i is still the same one, as active as it was.
GoesOn(t, u, i) ==
    /\ Kept(t, u, i)
    /\ u.flowlist[i].id = t.flowlist[i].id
    /\ u.flowlist[i].window = t.flowlist[i].window
    /\ u.flowlist[i].active = t.flowlist[i].active
    /\ u.ended = t.ended /\ u.twice = t.twice

\* The active flow in slot i has ended, and may still be in the list.
Ends(t, u, i) ==
    /\ FlowOp(t, u, i)
    /\ t.flowlist[i].active
    /\ \/ u.flowlist[i] = Nil
       \/ ~u.flowlist[i].active /\ u.flowlist[i].window = t.flowlist[i].window
    /\ u.ended = t.ended \cup {t.flowlist[i].id}
    /\ u.twice = t.twice \cup ({t.flowlist[i].id} \cap t.ended)

LifeOp(t, u, i) == GoesOn(t, u, i) \/ Ends(t, u, i)

--------------------------------------------------------------------------------
(* 5. Operations that follow each other.                                     *)

\* A flow that nothing happens to goes on.
LEMMA GoesOnNothing ==
    ASSUME NEW t, NEW i, Here(t, i)
    PROVE  GoesOn(t, t, i)
BY FlowOpNothing DEF GoesOn

\* A flow that goes on stays in its slot.
LEMMA GoesOnHere ==
    ASSUME NEW t, NEW u, NEW i, Here(t, i), GoesOn(t, u, i)
    PROVE  Here(u, i)
BY KeptSlots DEF GoesOn

\* What is done to a flow that goes on is done to the flow it was.
LEMMA LifeCompose ==
    ASSUME NEW t, NEW u, NEW v, NEW i, GoesOn(t, u, i), LifeOp(u, v, i)
    PROVE  LifeOp(t, v, i) /\ (GoesOn(u, v, i) => GoesOn(t, v, i))
                           /\ (Ends(u, v, i) => Ends(t, v, i))
<1>1. Kept(t, u, i)
  BY DEF GoesOn
<1>2. ASSUME Ends(u, v, i) PROVE Ends(t, v, i)
  <2>1. FlowOp(t, v, i)
    BY <1>1, <1>2, FlowOpCompose DEF Ends
  <2> QED
    BY <1>2, <2>1 DEF GoesOn, Ends
<1>3. GoesOn(u, v, i) => GoesOn(t, v, i)
  BY KeptCompose DEF GoesOn
<1> QED
  BY <1>2, <1>3 DEF LifeOp

\* A flow that has ended is not active, whether or not it is still in the list.
LEMMA EndsInactive ==
    ASSUME NEW t, NEW u, NEW i, Ends(t, u, i)
    PROVE  ~IsActive(u, i)
BY DEF Ends, IsActive

--------------------------------------------------------------------------------
(* 6. Every operation on a flow is one of these; ctx changes with a packet.  *)

\* Stopping a flow ends it, and leaves the context to its packet.
LEMMA StopFlowEnds ==
    ASSUME NEW t, NEW i, Here(t, i), t.flowlist[i].active
    PROVE  Ends(t, StopFlow(t, i), i) /\ StopFlow(t, i).ctx = t.ctx
<1> DEFINE f == t.flowlist[i]
           g == [f EXCEPT !.active = FALSE]
           m == [t EXCEPT !.exports = [r \in Records |-> Unlink(@[r], f.id)],
                          !.flowlist[i].active = FALSE,
                          !.ended = @ \cup {f.id},
                          !.twice = @ \cup ({f.id} \cap t.ended)]
           u == StopFlow(t, i)
<1>1. /\ f \in Flow /\ i \in 1 .. Len(t.flowlist) /\ t.flows[f.key] = i
      /\ t.flowlist \in Seq(Flow \cup {Nil})
  BY SlotHoldsFlow DEF Here, TableType
<1>2. g.active = FALSE /\ g.window = f.window
  BY <1>1 DEF Flow
<1>3. /\ m.flowlist = [t.flowlist EXCEPT ![i] = g] /\ m.eof = t.eof /\ m.ctx = t.ctx
      /\ m.flows = t.flows
      /\ m.ended = t.ended \cup {f.id} /\ m.twice = t.twice \cup ({f.id} \cap t.ended)
  BY DEF Here, TableType
<1>4. u = Remove(m, f.key)
  BY DEF StopFlow
<1>5. m.flowlist[i] = g /\ i # 0 /\ [m.flowlist EXCEPT ![i] = Nil][i] = Nil
  BY <1>1, <1>3
<1>6. /\ u.ended = m.ended /\ u.twice = m.twice /\ u.ctx = m.ctx
      /\ u.flowlist = IF m.eof THEN m.flowlist ELSE [m.flowlist EXCEPT ![i] = Nil]
  <2>1. m.flows[f.key] = i
    BY <1>1, <1>3
  <2>2. \A x, y, z : LET w == [m EXCEPT !.flowlist = x, !.freelist = y, !.flows = z]
                     IN  w.ended = m.ended /\ w.twice = m.twice /\ w.ctx = m.ctx
                         /\ w.flowlist = x
    BY DEF Here, TableType
  <2>3. u = IF m.eof THEN m
            ELSE [m EXCEPT !.flowlist = [m.flowlist EXCEPT ![i] = Nil],
                           !.freelist = Append(m.freelist, i),
                           !.flows = [m.flows EXCEPT ![f.key] = 0]]
    <3> HIDE DEF m
    <3> QED
      BY <1>4, <1>5, <2>1 DEF Remove
  <2> HIDE DEF m, u
  <2> QED
    BY <2>2, <2>3
<1>7. u.flowlist[i] = Nil \/ (~u.flowlist[i].active /\ u.flowlist[i].window = f.window)
  BY <1>2, <1>5, <1>6
<1>8. FlowOp(t, u, i)
  BY StopFlowOp
<1> HIDE DEF m, u, g
<1> QED
  BY <1>3, <1>6, <1>7, <1>8 DEF Ends, u

\* Exporting records does not end the flow.
LEMMA ExportRecordsGoesOn ==
    ASSUME NEW t, NEW i, NEW rs, NEW reason, NEW at, NEW ctx, Here(t, i)
    PROVE  LET u == ExportRecords(t, i, rs, reason, at, ctx)
           IN  GoesOn(t, u, i) /\ u.ctx = t.ctx
<1> DEFINE f == t.flowlist[i]
           g == [f EXCEPT !.recording = @ \ rs]
           u == ExportRecords(t, i, rs, reason, at, ctx)
<1>1. f \in Flow /\ i \in 1 .. Len(t.flowlist) /\ t.flowlist \in Seq(Flow \cup {Nil})
  BY SlotHoldsFlow DEF Here, TableType
<1>2. g.id = f.id /\ g.window = f.window /\ g.active = f.active
  BY <1>1 DEF Flow
<1>3. /\ u.flowlist = [t.flowlist EXCEPT ![i] = g] /\ u.ended = t.ended /\ u.twice = t.twice
      /\ u.ctx = t.ctx
  BY DEF Here, TableType, ExportRecords
<1>4. u.flowlist[i] = g
  BY <1>1, <1>3
<1> QED
  BY <1>2, <1>3, <1>4, ExportRecordsKept DEF GoesOn

\* BaseFlow.Export ends an active flow and leaves an inactive one alone.
LEMMA ExportLife ==
    ASSUME NEW t, NEW i, NEW reason, NEW at, NEW ctx, Here(t, i)
    PROVE  LET u == Export(t, i, reason, at, ctx)
           IN  /\ LifeOp(t, u, i) /\ u.ctx = t.ctx
               /\ t.flowlist[i].active => Ends(t, u, i)
<1> DEFINE v == ExportRecords(t, i, Records, reason, at, ctx)
<1>1. IsActive(t, i) <=> t.flowlist[i].active
  BY DEF Here, Slots, IsActive
<1>2. CASE ~t.flowlist[i].active
  BY <1>1, <1>2, GoesOnNothing DEF Export, LifeOp
<1>3. CASE t.flowlist[i].active
  <2>1. GoesOn(t, v, i) /\ v.ctx = t.ctx /\ Here(v, i)
    BY ExportRecordsGoesOn, GoesOnHere
  <2> HIDE DEF v
  <2>2. Ends(v, StopFlow(v, i), i) /\ StopFlow(v, i).ctx = v.ctx
    BY <1>3, <2>1, StopFlowEnds DEF GoesOn
  <2>3. Export(t, i, reason, at, ctx) = StopFlow(v, i)
    BY <1>1, <1>3 DEF Export, v
  <2> QED
    BY <2>1, <2>2, <2>3, LifeCompose DEF LifeOp
<1> QED
  BY <1>2, <1>3

\* ... and so does a later export of a flow that may have ended.
LEMMA ExportAfterLife ==
    ASSUME NEW t, NEW u, NEW i, NEW reason, NEW at, NEW ctx, Here(t, i), LifeOp(t, u, i)
    PROVE  LET v == Export(u, i, reason, at, ctx)
           IN  /\ LifeOp(t, v, i) /\ v.ctx = u.ctx
               /\ t.flowlist[i].active => Ends(t, v, i)
               /\ Ends(t, u, i) => v = u
<1>1. CASE GoesOn(t, u, i)
  <2>1. Here(u, i) /\ u.flowlist[i].active = t.flowlist[i].active
    BY <1>1, GoesOnHere DEF GoesOn
  <2>2. Ends(t, u, i) => Export(u, i, reason, at, ctx) = u
    BY EndsInactive DEF Export
  <2> QED
    BY <1>1, <2>1, <2>2, ExportLife, LifeCompose
<1>2. CASE Ends(t, u, i)
  BY <1>2, EndsInactive DEF Export, LifeOp
<1> QED
  BY <1>1, <1>2 DEF LifeOp

\* BaseFlow.expire ends an active flow with a timer that is due, and otherwise leaves
\* its timers as they are.
LEMMA ExpireFlowLife ==
    ASSUME NEW t, NEW i, Here(t, i)
    PROVE  LET u   == ExpireFlow(t, i)
               f   == t.flowlist[i]
               due == Due(f, t.when)
           IN  /\ LifeOp(t, u, i) /\ u.ctx = t.ctx
               /\ f.active /\ due # {} => Ends(t, u, i)
               /\ due = {} => GoesOn(t, u, i) /\ u.flowlist[i].timers = f.timers
<1> DEFINE f    == t.flowlist[i]
           due  == Due(f, t.when)
           left == Disarm(f.timers, due)
           v    == Disarmed(t, i)
           fire(s, id) == IF id \in due THEN Export(s, i, id, f.timers[id], f.id) ELSE s
           w    == fire(v, "idle")
           x    == fire(w, "active")
<1>1. f \in Flow
  BY SlotHoldsFlow DEF Here
<1>2. Kept(t, v, i) /\ v.flowlist[i] = [f EXCEPT !.timers = left, !.expireNext = Earliest(left)]
  BY DisarmedKept
<1>3. v.ended = t.ended /\ v.twice = t.twice /\ v.ctx = t.ctx
  BY DEF Disarmed, Here, TableType
<1>4. /\ v.flowlist[i].id = f.id /\ v.flowlist[i].window = f.window
      /\ v.flowlist[i].active = f.active /\ v.flowlist[i].timers = left
  BY <1>1, <1>2 DEF Flow
<1>8. ExpireFlow(t, i) = IF f.expireNext = 0 THEN t ELSE x
  BY DEF ExpireFlow, Disarmed
<1>11. due = {} => left = f.timers
  <2> HIDE DEF due
  <2>1. f.timers \in [TimerIds -> Nat]
    BY <1>1 DEF Flow
  <2> QED
    BY <2>1 DEF Disarm
<1> HIDE DEF v, left, due
<1>5. GoesOn(t, v, i)
  BY <1>2, <1>3, <1>4 DEF GoesOn
<1>6. ASSUME NEW s, NEW id, LifeOp(t, s, i)
      PROVE  LET r == fire(s, id)
             IN  /\ LifeOp(t, r, i) /\ r.ctx = s.ctx
                 /\ id \in due /\ f.active => Ends(t, r, i)
                 /\ Ends(t, s, i) => r = s
                 /\ id \notin due => r = s
  <2> DEFINE r == Export(s, i, id, f.timers[id], f.id)
  <2>1. /\ LifeOp(t, r, i) /\ r.ctx = s.ctx
        /\ f.active => Ends(t, r, i)
        /\ Ends(t, s, i) => r = s
    BY <1>6, ExportAfterLife
  <2>2. fire(s, id) = IF id \in due THEN r ELSE s
    OBVIOUS
  <2> HIDE DEF r, fire
  <2> QED
    BY <1>6, <2>1, <2>2
<1> HIDE DEF fire
<1>7. /\ LifeOp(t, x, i) /\ x.ctx = t.ctx
      /\ due # {} /\ f.active => Ends(t, x, i)
      /\ due = {} => x = v
  <2>1. due \subseteq {"idle", "active"}
    BY DEF due, Due, TimerIds
  <2>2. /\ LifeOp(t, w, i) /\ w.ctx = t.ctx
        /\ "idle" \in due /\ f.active => Ends(t, w, i)
        /\ "idle" \notin due => w = v
    BY <1>3, <1>5, <1>6 DEF LifeOp
  <2> HIDE DEF w
  <2>3. /\ LifeOp(t, x, i) /\ x.ctx = w.ctx
        /\ "active" \in due /\ f.active => Ends(t, x, i)
        /\ Ends(t, w, i) => x = w
        /\ "active" \notin due => x = w
    BY <1>6, <2>2
  <2> HIDE DEF x
  <2> QED
    BY <2>1, <2>2, <2>3
<1> HIDE DEF w, x
<1>10. f.expireNext = 0 => due = {}
  BY DEF due, Due, Here, ExpireNextIsBound
<1>12. CASE due = {}
  <2>1. x = v
    BY <1>7, <1>12
  <2>2. GoesOn(t, ExpireFlow(t, i), i) /\ ExpireFlow(t, i).flowlist[i].timers = f.timers
    BY <1>4, <1>5, <1>8, <1>11, <1>12, <2>1, GoesOnNothing
  <2>3. ExpireFlow(t, i).ctx = t.ctx
    BY <1>3, <1>8, <2>1
  <2> QED
    BY <1>12, <2>2, <2>3 DEF LifeOp, due
<1>13. CASE due # {}
  <2>1. ExpireFlow(t, i) = x
    BY <1>8, <1>10, <1>13
  <2>2. f.active => Ends(t, x, i)
    BY <1>7, <1>13
  <2> QED
    BY <1>7, <1>13, <2>1, <2>2 DEF due
<1> QED
  BY <1>12, <1>13

\* A timer that is due may end the flow.
LEMMA ExpireIfDueLife ==
    ASSUME NEW t, NEW i, Here(t, i)
    PROVE  LifeOp(t, ExpireIfDue(t, i), i) /\ ExpireIfDue(t, i).ctx = t.ctx
BY ExpireFlowLife, GoesOnNothing DEF ExpireIfDue, LifeOp

\* Handing a packet to the records does not end the flow.
LEMMA RecordEventGoesOn ==
    ASSUME NEW t, NEW i, NEW o, Here(t, i)
    PROVE  GoesOn(t, RecordEvent(t, i, o), i) /\ RecordEvent(t, i, o).ctx = t.ctx
<1> DEFINE f == t.flowlist[i]
           u == Started(t, i, o)
           g == [f EXCEPT !.recording = {r \in Records : o[r] # "stop"}]
<1>1. f \in Flow
  BY SlotHoldsFlow DEF Here
<1>2. Kept(t, u, i) /\ Here(u, i) /\ u.flowlist[i] = g
  BY StartedKept
<1>3. g.id = f.id /\ g.window = f.window /\ g.active = f.active
  BY <1>1 DEF Flow
<1>4. u.ended = t.ended /\ u.twice = t.twice /\ u.ctx = t.ctx
  BY DEF Started, Here, TableType
<1>5. \E rs, at, ctx : RecordEvent(t, i, o) = ExportRecords(u, i, rs, "control", at, ctx)
  BY DEF RecordEvent, Started
<1> HIDE DEF u, g
<1>6. GoesOn(t, u, i)
  BY <1>2, <1>3, <1>4 DEF GoesOn
<1>7. GoesOn(u, RecordEvent(t, i, o), i) /\ RecordEvent(t, i, o).ctx = u.ctx
  BY <1>2, <1>5, ExportRecordsGoesOn
<1> QED
  BY <1>4, <1>6, <1>7, LifeCompose DEF LifeOp

\* The end of a connection may end the flow.
LEMMA TCPEventLife ==
    ASSUME NEW t, NEW i, NEW p, Here(t, i)
    PROVE  LifeOp(t, TCPEvent(t, i, p), i) /\ TCPEvent(t, i, p).ctx = t.ctx
<1> DEFINE f == t.flowlist[i]
           u == Seen(t, i, p)
<1>1. f \in Flow
  BY SlotHoldsFlow DEF Here
<1>2. Kept(t, u, i)
  BY SeenKept
<1>3. PICK seen : u.flowlist[i] = [f EXCEPT !.tcp = seen]
  BY SeenKept
<1>4. /\ u.flowlist[i].id = f.id /\ u.flowlist[i].window = f.window
      /\ u.flowlist[i].active = f.active
  BY <1>1, <1>3 DEF Flow
<1>5. u.ended = t.ended /\ u.twice = t.twice /\ u.ctx = t.ctx
  BY DEF Seen, Here, TableType
<1> HIDE DEF u
<1>6. GoesOn(t, u, i)
  BY <1>2, <1>4, <1>5 DEF GoesOn
<1>7. LET v == Export(u, i, "end", t.when, t.ctx) IN LifeOp(t, v, i) /\ v.ctx = t.ctx
  BY <1>5, <1>6, ExportAfterLife DEF LifeOp
<1>8. LET v == Export(t, i, "end", t.when, t.ctx) IN LifeOp(t, v, i) /\ v.ctx = t.ctx
  BY ExportLife
<1>9. \/ TCPEvent(t, i, p) \in {t, u}
      \/ TCPEvent(t, i, p) = Export(t, i, "end", t.when, t.ctx)
      \/ TCPEvent(t, i, p) = Export(u, i, "end", t.when, t.ctx)
  BY TCPEventCases DEF u
<1> QED
  BY <1>5, <1>6, <1>7, <1>8, <1>9, GoesOnNothing DEF LifeOp

\* BaseFlow.Event and what follows: the flow that gets the packet is in the context.
LEMMA FlowEventLife ==
    ASSUME NEW t, NEW i, NEW o, Here(t, i), t.flowlist[i].active, options \in Options
    PROVE  LifeOp(t, FlowEvent(t, i, o), i) /\ FlowEvent(t, i, o).ctx = t.flowlist[i].id
<1> DEFINE f == t.flowlist[i]
           v == Timed(t, i)
           u == RecordEvent(v, i, o)
<1>1. Kept(t, v, i) /\ Here(v, i)
      /\ v.flowlist[i].id = f.id /\ v.flowlist[i].window = f.window
      /\ v.flowlist[i].active = f.active
  BY TimedKept
<1>2. v.ended = t.ended /\ v.twice = t.twice /\ v.ctx = f.id
  BY DEF Timed, Here, TableType
<1>3. FlowEvent(t, i, o) =
        IF u.flowlist[i].recording = {} THEN StopFlow(u, i)
        ELSE IF options.perPacket THEN Export(u, i, "end", u.when, u.ctx)
        ELSE u
  BY DEF FlowEvent, Timed
<1> HIDE DEF v
<1>4. GoesOn(t, v, i)
  BY <1>1, <1>2 DEF GoesOn
<1>5. GoesOn(v, u, i) /\ u.ctx = v.ctx
  BY <1>1, RecordEventGoesOn
<1> HIDE DEF u
<1>6. GoesOn(t, u, i) /\ u.ctx = f.id
  BY <1>2, <1>4, <1>5, LifeCompose DEF LifeOp
<1>7. Here(u, i) /\ u.flowlist[i].active
  BY <1>6, GoesOnHere DEF GoesOn
<1>8. LifeOp(u, FlowEvent(t, i, o), i) /\ FlowEvent(t, i, o).ctx = u.ctx
  BY <1>3, <1>7, StopFlowEnds, ExportLife, GoesOnNothing DEF LifeOp
<1> QED
  BY <1>6, <1>8, LifeCompose

\* A packet that a flow handles may end it, in the context of that flow.
LEMMA HandlePacketLife ==
    ASSUME NEW t, NEW i, NEW p, NEW o, Here(t, i), t.flowlist[i].active, options \in Options
    PROVE  LET u == HandlePacket(t, i, p, o)
           IN  LifeOp(t, u, i) /\ u.ctx = t.flowlist[i].id
<1> DEFINE u == FlowEvent(t, i, o)
<1>1. LifeOp(t, u, i) /\ u.ctx = t.flowlist[i].id
  BY FlowEventLife
<1>2. HandlePacket(t, i, p, o) = IF IsActive(u, i) THEN TCPEvent(u, i, p) ELSE u
  BY DEF HandlePacket
<1> HIDE DEF u
<1>3. CASE GoesOn(t, u, i)
  <2>1. LifeOp(u, TCPEvent(u, i, p), i) /\ TCPEvent(u, i, p).ctx = u.ctx
    BY <1>3, GoesOnHere, TCPEventLife
  <2> QED
    BY <1>1, <1>2, <1>3, <2>1, LifeCompose
<1>4. CASE Ends(t, u, i)
  BY <1>1, <1>2, <1>4, EndsInactive
<1> QED
  BY <1>1, <1>3, <1>4 DEF LifeOp

\* The loops that empty the table leave no active flow behind them.
LEMMA EndFlowLife ==
    ASSUME NEW t, NEW i, NEW reason, NEW ctx, Here(t, i)
    PROVE  LET u == EndFlow(t, i, reason, ctx)
           IN  /\ LifeOp(t, u, i) /\ u.ctx = t.ctx
               /\ ~IsActive(u, i)
<1> DEFINE v == ExpireIfDue(t, i)
           u == EndFlow(t, i, reason, ctx)
<1>1. LifeOp(t, v, i) /\ v.ctx = t.ctx /\ t.flowlist[i] # Nil
  BY ExpireIfDueLife DEF Here, Slots
<1>2. u = IF IsActive(v, i) THEN Export(v, i, reason, v.when, ctx) ELSE v
  BY <1>1 DEF EndFlow
<1> HIDE DEF u, v
<1>3. CASE GoesOn(t, v, i)
  <2>1. Here(v, i) /\ v.flowlist[i] # Nil
    BY <1>3, GoesOnHere DEF Here, Slots
  <2>2. CASE v.flowlist[i].active
    <3>1. u = Export(v, i, reason, v.when, ctx)
      BY <1>2, <2>1, <2>2 DEF IsActive
    <3>2. Ends(v, u, i) /\ u.ctx = v.ctx
      BY <2>1, <2>2, <3>1, ExportLife
    <3> QED
      BY <1>1, <1>3, <3>2, LifeCompose, EndsInactive DEF LifeOp, u
  <2>3. CASE ~v.flowlist[i].active
    BY <1>1, <1>2, <2>3 DEF IsActive, u
  <2> QED
    BY <2>2, <2>3
<1>4. CASE Ends(t, v, i)
  BY <1>1, <1>2, <1>4, EndsInactive DEF u
<1> QED
  BY <1>1, <1>3, <1>4 DEF LifeOp

--------------------------------------------------------------------------------
(* 7. The living flows of all keys.                                          *)

Living(t) == [k \in Keys |-> LivingFlow(t, k)]

\* Every key has one living flow or none.
LEMMA LivingType ==
    ASSUME NEW t, Sound(t)
    PROVE  Living(t) \in [Keys -> Nat \cup {Nil}]
<1> SUFFICES ASSUME NEW k \in Keys PROVE LivingFlow(t, k) \in Nat \cup {Nil}
  BY DEF Living
<1>1. t.flows[k] # 0 => t.flowlist[t.flows[k]].id \in Nat
  BY SlotHoldsFlow DEF Sound, MapMatchesList, Flow
<1> QED
  BY <1>1 DEF LivingFlow

\* Only the slot of its key makes a flow the living one.
LEMMA LivingHere ==
    ASSUME NEW t, Sound(t), NEW i \in Slots(t)
    PROVE  LET f == t.flowlist[i]
           IN  f.key \in Keys /\ Living(t)[f.key] = IF f.active THEN f.id ELSE Nil
<1>1. /\ t.flowlist[i].key \in Keys /\ t.flows[t.flowlist[i].key] = i
      /\ i # 0 /\ t.flowlist[i] # Nil
  BY SlotHoldsFlow DEF Sound, MapMatchesList, Slots
<1> QED
  BY <1>1 DEF Living, LivingFlow, IsActive

\* Another key leads to another slot.
LEMMA OtherSlots ==
    ASSUME NEW t, Sound(t), NEW i \in Slots(t), NEW k \in Keys, k # t.flowlist[i].key
    PROVE  /\ t.flows[k] # i
           /\ t.flows[k] # 0 => t.flows[k] \in Slots(t) /\ t.flows[k] \in 1 .. Len(t.flowlist)
BY DEF Sound, MapMatchesList, Slots

\* A flow that goes on leaves the living flows as they are.
LEMMA GoesOnLiving ==
    ASSUME NEW t, NEW u, NEW i, Sound(t), Here(t, i), GoesOn(t, u, i)
    PROVE  Living(u) = Living(t)
<1> SUFFICES ASSUME NEW k \in Keys PROVE LivingFlow(u, k) = LivingFlow(t, k)
  BY DEF Living
<1>1. /\ u.flows = t.flows /\ Slots(u) = Slots(t)
      /\ \A j \in 1 .. Len(t.flowlist) : j # i => u.flowlist[j] = t.flowlist[j]
  BY KeptSlots DEF GoesOn, Kept
<1>2. CASE k = t.flowlist[i].key
  <2>1. t.flows[k] = i /\ t.flowlist[i] # Nil /\ u.flowlist[i] # Nil
    BY <1>1, <1>2 DEF Here, Slots
  <2> QED
    BY <1>1, <2>1 DEF GoesOn, LivingFlow, IsActive
<1>3. CASE k # t.flowlist[i].key
  <2>1. t.flows[k] # i /\ (t.flows[k] # 0 => t.flows[k] \in 1 .. Len(t.flowlist))
    BY <1>3, OtherSlots DEF Here
  <2>2. t.flows[k] # 0 => u.flowlist[t.flows[k]] = t.flowlist[t.flows[k]]
    BY <1>1, <2>1
  <2> QED
    BY <1>1, <2>2 DEF LivingFlow, IsActive
<1> QED
  BY <1>2, <1>3

\* A flow that ends leaves the living flows, under its key.
LEMMA EndsLiving ==
    ASSUME NEW t, NEW u, NEW i, Sound(t), Here(t, i), Ends(t, u, i)
    PROVE  LET f == t.flowlist[i]
           IN  /\ f.key \in Keys /\ Living(t)[f.key] = f.id /\ f.id \in Nat
               /\ Living(u) = [Living(t) EXCEPT ![f.key] = Nil]
<1> DEFINE f == t.flowlist[i]
<1>1. f.key \in Keys /\ Living(t)[f.key] = f.id /\ f.id \in Nat
  BY LivingHere, SlotHoldsFlow DEF Here, Ends, Flow
<1>2. \A k \in Keys : LivingFlow(u, k) = IF k = f.key THEN Nil ELSE LivingFlow(t, k)
  <2> SUFFICES ASSUME NEW k \in Keys
               PROVE  LivingFlow(u, k) = IF k = f.key THEN Nil ELSE LivingFlow(t, k)
    OBVIOUS
  <2>1. \A j \in 1 .. Len(t.flowlist) : j # i => u.flowlist[j] = t.flowlist[j]
    BY KeptSlots, DroppedSlots DEF Ends, FlowOp
  <2>2. t.flows \in [Keys -> Nat] /\ t.flows[f.key] = i
    BY DEF Here, TableType
  <2>3. u.flows[k] = t.flows[k] \/ (k = f.key /\ u.flows[k] = 0)
    BY <2>2 DEF Ends, FlowOp, Kept, Dropped
  <2>4. CASE k = f.key
    BY <2>2, <2>3, <2>4, EndsInactive DEF LivingFlow
  <2>5. CASE k # f.key
    <3>1. t.flows[k] # i /\ (t.flows[k] # 0 => t.flows[k] \in 1 .. Len(t.flowlist))
      BY <2>5, OtherSlots DEF Here
    <3>2. t.flows[k] # 0 => u.flowlist[t.flows[k]] = t.flowlist[t.flows[k]]
      BY <2>1, <3>1
    <3> QED
      BY <2>3, <2>5, <3>2 DEF LivingFlow, IsActive
  <2> QED
    BY <2>4, <2>5
<1>3. Living(u) = [Living(t) EXCEPT ![f.key] = Nil]
  BY <1>2 DEF Living
<1> QED
  BY <1>1, <1>3

\* EveryFlowAccounted for a table t, in terms of the living flows.
Accounted(t) ==
    LET alive == {k \in Keys : Living(t)[k] # Nil}
        ids   == {Living(t)[k] : k \in alive}
    IN  /\ t.twice = {}
        /\ ids \cup t.ended = 0 .. t.flowID - 1
        /\ ids \cap t.ended = {}
        /\ \A k, l \in alive : Living(t)[k] = Living(t)[l] => k = l

\* The flows in the table are those of its window, if there is one.
InWindow(t) == options.window => \A i \in Slots(t) : t.flowlist[i].window = t.window

\* After a flow has ended the others are still accounted for.
LEMMA EndsAccounted ==
    ASSUME NEW t, NEW u, NEW i, Sound(t), Here(t, i), Ends(t, u, i), Accounted(t)
    PROVE  Accounted(u)
<1> DEFINE key == t.flowlist[i].key
           id == t.flowlist[i].id
           l == Living(t)
           m == Living(u)
           alive(x) == {k \in Keys : x[k] # Nil}
           ids(x) == {x[k] : k \in alive(x)}
<1>1. key \in Keys /\ l[key] = id /\ id # Nil /\ m = [l EXCEPT ![key] = Nil]
  BY EndsLiving, NilAssumption
<1>2. l \in [Keys -> Nat \cup {Nil}]
  BY LivingType
<1>3. u.ended = t.ended \cup {id} /\ u.twice = t.twice \cup ({id} \cap t.ended)
  BY DEF Ends
<1>4. u.flowID = t.flowID
  BY FlowOpSlots DEF Ends, SameFrame
<1>5. /\ t.twice = {} /\ ids(l) \cup t.ended = 0 .. t.flowID - 1 /\ ids(l) \cap t.ended = {}
      /\ \A j, k \in alive(l) : l[j] = l[k] => j = k
  BY DEF Accounted
<1> HIDE DEF key, id, l, m
<1>6. alive(m) = alive(l) \ {key} /\ key \in alive(l)
      /\ \A k \in alive(m) : m[k] = l[k] /\ k \in alive(l) /\ k # key
  BY <1>1, <1>2
<1>7. ids(m) = ids(l) \ {id} /\ id \in ids(l)
  BY <1>1, <1>5, <1>6
<1>8. id \notin t.ended
  BY <1>5, <1>7
<1>9. \A j, k \in alive(m) : m[j] = m[k] => j = k
  BY <1>5, <1>6
<1>10. u.twice = {}
  BY <1>3, <1>5, <1>8
<1>11. ids(m) \cup u.ended = 0 .. u.flowID - 1 /\ ids(m) \cap u.ended = {}
  <2> DEFINE S == ids(l)
             R == ids(m)
             J == 0 .. t.flowID - 1
  <2>1. S \cup t.ended = J /\ S \cap t.ended = {}
    BY <1>5
  <2>2. R = S \ {id} /\ id \in S
    BY <1>7
  <2> HIDE DEF R, S, J
  <2>3. R \cup (t.ended \cup {id}) = J /\ R \cap (t.ended \cup {id}) = {}
    BY <2>1, <2>2
  <2> QED
    BY <1>3, <1>4, <2>3 DEF R, J
<1> QED
  BY <1>9, <1>10, <1>11 DEF Accounted, m

\* What an operation on a flow preserves.
LEMMA LifeAccounted ==
    ASSUME NEW t, NEW u, NEW i, Sound(t), Here(t, i), LifeOp(t, u, i), Accounted(t)
    PROVE  Accounted(u)
<1>1. CASE GoesOn(t, u, i)
  <2>1. Living(u) = Living(t) /\ u.ended = t.ended /\ u.twice = t.twice /\ u.flowID = t.flowID
    BY <1>1, GoesOnLiving DEF GoesOn, Kept, SameFrame
  <2> QED
    BY <2>1 DEF Accounted
<1> QED
  BY <1>1, EndsAccounted DEF LifeOp

\* What is done to a flow keeps the flows in the window of the table.
LEMMA LifeInWindow ==
    ASSUME NEW t, NEW u, NEW i, Here(t, i), LifeOp(t, u, i), InWindow(t)
    PROVE  InWindow(u)
<1>1. FlowOp(t, u, i) /\ (u.flowlist[i] # Nil => u.flowlist[i].window = t.flowlist[i].window)
  BY DEF LifeOp, GoesOn, Ends, FlowOp
<1>2. /\ u.window = t.window /\ Slots(u) \subseteq Slots(t)
      /\ \A j \in Slots(u) : j # i => u.flowlist[j] = t.flowlist[j]
  BY <1>1, FlowOpSlots DEF SameFrame
<1>3. \A j \in Slots(u) : u.flowlist[j].window = t.flowlist[j].window
  BY <1>1, <1>2 DEF Slots
<1> QED
  BY <1>2, <1>3 DEF InWindow

--------------------------------------------------------------------------------
(* 8. A packet.                                                              *)

\* What a new flow changes, besides the structures of the table.
LEMMA AddFlowFrame ==
    ASSUME NEW t, TableType(t), NEW p
    PROVE  LET u == AddFlow(t, p)
           IN  /\ u.ended = t.ended /\ u.twice = t.twice /\ u.flowID = t.flowID + 1
               /\ u.window = t.window /\ u.when = t.when /\ u.ctx = t.ctx
               /\ u.packets = t.packets
<1> DEFINE u == AddFlow(t, p)
<1>1. PICK list, free, flows :
        \/ u = [[t EXCEPT !.flowlist = list] EXCEPT !.flowID = @ + 1, !.flows = flows]
        \/ u = [[t EXCEPT !.flowlist = list, !.freelist = free]
                   EXCEPT !.flowID = @ + 1, !.flows = flows]
  BY DEF AddFlow
<1> HIDE DEF u
<1>2. CASE u = [[t EXCEPT !.flowlist = list] EXCEPT !.flowID = @ + 1, !.flows = flows]
  BY <1>2 DEF TableType, u
<1>3. CASE u = [[t EXCEPT !.flowlist = list, !.freelist = free]
                   EXCEPT !.flowID = @ + 1, !.flows = flows]
  BY <1>3 DEF TableType, u
<1> QED
  BY <1>1, <1>2, <1>3

\* A new flow has the next id and the window of its first packet.
LEMMA InitFlowIdentity ==
    ASSUME NEW t, NEW p
    PROVE  InitFlow(t, p).id = t.flowID /\ InitFlow(t, p).window = p.window
BY DEF InitFlow, AddTimer

\* The new flow is the living one of its key.
LEMMA AddFlowLife ==
    ASSUME NEW t, Sound(t), Accounted(t), NEW p \in Packets, options \in Options,
           t.flows[p.key] = 0
    PROVE  LET u == AddFlow(t, p)
               f == u.flowlist[FreeSlot(t)]
           IN  /\ f.key = p.key /\ f.id = t.flowID /\ f.active
               /\ Living(t)[p.key] = Nil
               /\ Living(u) = [Living(t) EXCEPT ![p.key] = t.flowID]
               /\ Accounted(u)
               /\ InWindow(t) /\ (options.window => p.window = t.window) => InWindow(u)
<1> DEFINE s == FreeSlot(t)
           u == AddFlow(t, p)
           f == InitFlow(t, p)
           id == t.flowID
<1>1. /\ u.ended = t.ended /\ u.twice = t.twice /\ u.flowID = id + 1 /\ u.window = t.window
      /\ u.flowlist[s] = f /\ f.key = p.key /\ f.id = id /\ f.window = p.window /\ f.active
      /\ id \in Nat
  <2>1. TableType(t) /\ id \in Nat
    BY DEF Sound, TableType
  <2>2. /\ u.ended = t.ended /\ u.twice = t.twice /\ u.flowID = id + 1 /\ u.window = t.window
    BY <2>1, AddFlowFrame
  <2>3. u.flowlist[s] = f
    BY AddFlowFields
  <2>4. f.key = p.key /\ f.active
    BY <2>1, InitFlowType
  <2>5. f.id = id /\ f.window = p.window
    BY InitFlowIdentity
  <2> HIDE DEF s, u, f, id
  <2> QED
    BY <2>1, <2>2, <2>3, <2>4, <2>5
<1>2. /\ Sound(u) /\ s \in Slots(u)
      /\ \A j \in Slots(u) : j # s => j \in Slots(t) /\ u.flowlist[j] = t.flowlist[j]
  BY AddFlowSound DEF Here
<1>3. /\ u.flows = [t.flows EXCEPT ![p.key] = s] /\ t.flows \in [Keys -> Nat] /\ p.key \in Keys
      /\ s \notin Slots(t)
      /\ \A j \in 1 .. Len(t.flowlist) : j # s => u.flowlist[j] = t.flowlist[j]
  BY AddFlowFields, FreeSlotIsFree, PacketsAssumption, ZenonT(30) DEF PacketType, Sound, TableType
<1> HIDE DEF s, u, f, id
<1>4. \A k \in Keys : LivingFlow(u, k) = IF k = p.key THEN id ELSE LivingFlow(t, k)
  <2> SUFFICES ASSUME NEW k \in Keys
               PROVE  LivingFlow(u, k) = IF k = p.key THEN id ELSE LivingFlow(t, k)
    OBVIOUS
  <2>1. CASE k = p.key
    <3>1. u.flows[k] = s /\ s # 0 /\ u.flowlist[s] # Nil
      BY <1>2, <1>3, <2>1 DEF Slots
    <3> QED
      BY <1>1, <2>1, <3>1 DEF LivingFlow, IsActive
  <2>2. CASE k # p.key
    <3>1. u.flows[k] = t.flows[k]
      BY <1>3, <2>2
    <3>2. t.flows[k] # 0 => t.flows[k] \in Slots(t)
      BY DEF Sound, MapMatchesList
    <3>3. t.flows[k] # 0 => u.flowlist[t.flows[k]] = t.flowlist[t.flows[k]]
      BY <1>3, <3>2 DEF Slots
    <3> QED
      BY <2>2, <3>1, <3>3 DEF LivingFlow, IsActive
  <2> QED
    BY <2>1, <2>2
<1>5. Living(u) = [Living(t) EXCEPT ![p.key] = id] /\ Living(t)[p.key] = Nil
  BY <1>3, <1>4 DEF Living, LivingFlow
<1>6. Accounted(u)
  <2> DEFINE l == Living(t)
             m == Living(u)
             alive(x) == {k \in Keys : x[k] # Nil}
             ids(x) == {x[k] : k \in alive(x)}
             S == ids(l)
             R == ids(m)
             J == 0 .. id - 1
  <2>1. /\ t.twice = {} /\ S \cup t.ended = J /\ S \cap t.ended = {}
        /\ \A j, k \in alive(l) : l[j] = l[k] => j = k
    BY DEF Accounted, id
  <2>2. l \in [Keys -> Nat \cup {Nil}]
    BY LivingType
  <2>3. id # Nil /\ id \notin J /\ 0 .. (id + 1) - 1 = J \cup {id}
    BY <1>1, NilAssumption
  <2>4. l[p.key] = Nil /\ m = [l EXCEPT ![p.key] = id]
    BY <1>5
  <2> HIDE DEF l, m
  <2>5. /\ alive(m) = alive(l) \cup {p.key} /\ p.key \notin alive(l)
        /\ \A k \in alive(l) : m[k] = l[k] /\ k # p.key
        /\ m[p.key] = id
    BY <1>3, <2>2, <2>3, <2>4
  <2>6. R = S \cup {id}
    BY <2>5
  <2>7. \A k \in alive(l) : l[k] \in S
    OBVIOUS
  <2> HIDE DEF S, R, J
  <2>8. id \notin S /\ id \notin t.ended
    BY <2>1, <2>3
  <2>9. \A j, k \in alive(m) : m[j] = m[k] => j = k
    BY <2>1, <2>5, <2>7, <2>8
  <2>10. R \cup t.ended = J \cup {id} /\ R \cap t.ended = {}
    BY <2>1, <2>6, <2>8
  <2>11. R \cup u.ended = 0 .. u.flowID - 1 /\ R \cap u.ended = {} /\ u.twice = {}
    BY <1>1, <2>1, <2>3, <2>10
  <2> QED
    BY <2>9, <2>11 DEF Accounted, m, R
<1>7. ASSUME InWindow(t), options.window => p.window = t.window PROVE InWindow(u)
  <2> SUFFICES ASSUME options.window, NEW j \in Slots(u)
               PROVE  u.flowlist[j].window = u.window
    BY DEF InWindow
  <2> QED
    BY <1>1, <1>2, <1>7 DEF InWindow
<1> QED
  BY <1>1, <1>5, <1>6, <1>7 DEF s, u, f, id

\* Count and Begin of FlowLife, for tables t and u.
Counted(t, u, k) ==
    /\ Living(t)[k] # Nil
    /\ u.ctx = Living(t)[k] /\ u.flowID = t.flowID
    /\ \/ Living(u) = Living(t) /\ u.ended = t.ended
       \/ Living(u) = [Living(t) EXCEPT ![k] = Nil] /\ u.ended = t.ended \cup {Living(t)[k]}

Begun(t, u, k) ==
    LET over == {Living(t)[k]} \ {Nil} IN
    /\ u.ctx = t.flowID /\ u.flowID = t.flowID + 1
    /\ \/ Living(u) = [Living(t) EXCEPT ![k] = t.flowID] /\ u.ended = t.ended \cup over
       \/ /\ Living(u) = [Living(t) EXCEPT ![k] = Nil]
          /\ u.ended = t.ended \cup over \cup {t.flowID}

\* What every packet leaves behind.
Handled(t, u, p) ==
    /\ u.when = t.when /\ u.packets = t.packets
    /\ Accounted(u)
    /\ InWindow(t) /\ (options.window => p.window = t.window) => InWindow(u)

\* A packet of the flow in slot i.
LEMMA HandleKnown ==
    ASSUME NEW t, Sound(t), Accounted(t), NEW i, Here(t, i), t.flowlist[i].active,
           NEW p, NEW o, t.flowlist[i].key = p.key, options \in Options
    PROVE  LET u == HandlePacket(t, i, p, o)
           IN  Counted(t, u, p.key) /\ Handled(t, u, p)
<1> DEFINE u == HandlePacket(t, i, p, o)
           id == t.flowlist[i].id
<1>1. LifeOp(t, u, i) /\ u.ctx = id
  BY HandlePacketLife
<1>2. Living(t)[p.key] = id /\ id # Nil
  BY LivingHere, SlotHoldsFlow, NilAssumption DEF Here, Flow
<1>3. u.flowID = t.flowID /\ u.when = t.when /\ u.packets = t.packets
  BY <1>1, FlowOpSlots DEF LifeOp, GoesOn, Ends, FlowOp, SameFrame
<1> HIDE DEF u
<1>4. GoesOn(t, u, i) => Living(u) = Living(t) /\ u.ended = t.ended
  BY GoesOnLiving DEF GoesOn
<1>5. Ends(t, u, i) => Living(u) = [Living(t) EXCEPT ![p.key] = Nil] /\ u.ended = t.ended \cup {id}
  BY EndsLiving DEF Ends
<1>6. Counted(t, u, p.key)
  BY <1>1, <1>2, <1>3, <1>4, <1>5 DEF Counted, LifeOp
<1>7. Handled(t, u, p)
  BY <1>1, <1>3, LifeAccounted, LifeInWindow DEF Handled
<1> QED
  BY <1>6, <1>7 DEF u

\* A packet for a key without a flow.
LEMMA HandleNew ==
    ASSUME NEW t, Sound(t), Accounted(t), NEW p \in Packets, NEW o, t.flows[p.key] = 0,
           options \in Options
    PROVE  LET u == HandlePacket(AddFlow(t, p), FreeSlot(t), p, o)
           IN  Begun(t, u, p.key) /\ Handled(t, u, p) /\ Living(t)[p.key] = Nil
<1> DEFINE v == AddFlow(t, p)
           s == FreeSlot(t)
           u == HandlePacket(v, s, p, o)
<1>1. Sound(v) /\ Here(v, s)
  BY AddFlowSound
<1>2. /\ v.flowlist[s].key = p.key /\ v.flowlist[s].id = t.flowID /\ v.flowlist[s].active
      /\ Living(t)[p.key] = Nil /\ Living(v) = [Living(t) EXCEPT ![p.key] = t.flowID]
      /\ Accounted(v)
      /\ InWindow(t) /\ (options.window => p.window = t.window) => InWindow(v)
  BY AddFlowLife
<1>3. v.ended = t.ended /\ v.flowID = t.flowID + 1 /\ v.window = t.window
      /\ v.when = t.when /\ v.packets = t.packets
  BY AddFlowFrame DEF Sound
<1>4. p.key \in Keys /\ Living(t) \in [Keys -> Nat \cup {Nil}]
  BY LivingType, PacketsAssumption DEF PacketType
<1> HIDE DEF v, s
<1>5. Counted(v, u, p.key) /\ Handled(v, u, p)
  BY <1>1, <1>2, HandleKnown
<1>6. Living(v)[p.key] = t.flowID
      /\ [Living(v) EXCEPT ![p.key] = Nil] = [Living(t) EXCEPT ![p.key] = Nil]
  BY <1>2, <1>4
<1> HIDE DEF u
<1>7. Begun(t, u, p.key)
  BY <1>2, <1>3, <1>5, <1>6 DEF Counted, Begun
<1>8. Handled(t, u, p)
  BY <1>2, <1>3, <1>5 DEF Handled
<1> QED
  BY <1>2, <1>7, <1>8 DEF u, v, s

\* A table that differs in its output, its flags or the time only.
SameLives(t, u) ==
    /\ u.flows = t.flows /\ u.flowlist = t.flowlist
    /\ u.ended = t.ended /\ u.twice = t.twice /\ u.flowID = t.flowID
    /\ u.window = t.window /\ u.ctx = t.ctx

\* Tables with the same lives have the same living flows, and account for them alike.
LEMMA SameLivesSame ==
    ASSUME NEW t, NEW u, SameLives(t, u)
    PROVE  /\ Living(u) = Living(t) /\ Slots(u) = Slots(t)
           /\ Accounted(t) => Accounted(u)
           /\ InWindow(t) => InWindow(u)
<1>1. Living(u) = Living(t)
  BY DEF SameLives, Living, LivingFlow, IsActive
<1>2. Slots(u) = Slots(t)
  BY DEF SameLives, Slots
<1>3. Accounted(t) => Accounted(u)
  BY <1>1 DEF SameLives, Accounted
<1>4. InWindow(t) => InWindow(u)
  BY <1>2 DEF SameLives, InWindow
<1> QED
  BY <1>1, <1>2, <1>3, <1>4

\* Flushing the export list touches no flow and no time.
LEMMA FlushLives ==
    ASSUME NEW t, TableType(t)
    PROVE  \A u \in {Flush(t), FlushAll(t), FlushExpired(t)} :
                SameLives(t, u) /\ u.when = t.when /\ u.packets = t.packets
<1>1. SameLives(t, Flush(t)) /\ Flush(t).when = t.when /\ Flush(t).packets = t.packets
  BY DEF TableType, SameLives, Flush
<1>2. SameLives(t, FlushAll(t)) /\ FlushAll(t).when = t.when
      /\ FlushAll(t).packets = t.packets
  BY DEF TableType, SameLives, FlushAll
<1>3. SameLives(t, t)
  BY DEF SameLives
<1> QED
  BY <1>1, <1>2, <1>3 DEF FlushExpired

\* No timer of the flow that the packet went to had run out before.
OnTime(t, u) ==
    \A j \in Slots(t) : u.ctx = t.flowlist[j].id => Due(t.flowlist[j], t.when - 1) = {}

\* expireNext is enough to see that no timer has run out.
LEMMA NothingDue ==
    ASSUME NEW f \in Flow, NEW when \in Nat
    PROVE  /\ ExpireNextIsBound(f) /\ ~(when > f.expireNext) => Due(f, when - 1) = {}
           /\ Due(f, when) = {} => Due(f, when - 1) = {}
<1>1. f.timers \in [TimerIds -> Nat] /\ f.expireNext \in Nat
  BY DEF Flow
<1>2. ASSUME ExpireNextIsBound(f), ~(when > f.expireNext) PROVE Due(f, when - 1) = {}
  BY <1>1, <1>2 DEF Due, ExpireNextIsBound
<1>3. ASSUME Due(f, when) = {} PROVE Due(f, when - 1) = {}
  BY <1>1, <1>3 DEF Due
<1> QED
  BY <1>2, <1>3

\* Flows in the table have numbers of their own.
LEMMA OnTimeKnown ==
    ASSUME NEW t, Idle(t), Accounted(t), NEW i \in Slots(t), NEW u, u.ctx = t.flowlist[i].id,
           Due(t.flowlist[i], t.when - 1) = {}
    PROVE  OnTime(t, u)
<1> SUFFICES ASSUME NEW j \in Slots(t), t.flowlist[j].id = t.flowlist[i].id PROVE j = i
  BY DEF OnTime
<1> DEFINE key(x) == t.flowlist[x].key
<1>1. \A x \in {i, j} : key(x) \in Keys /\ Living(t)[key(x)] = t.flowlist[i].id
                         /\ t.flows[key(x)] = x
  BY LivingHere DEF Idle, AllActive, Sound, MapMatchesList
<1>2. t.flowlist[i].id # Nil
  BY SlotHoldsFlow, NilAssumption DEF Idle, Sound, Flow
<1>3. key(i) = key(j)
  BY <1>1, <1>2 DEF Accounted
<1> QED
  BY <1>1, <1>3

\* A packet in the context of a new flow is on time.
LEMMA OnTimeNew ==
    ASSUME NEW t, Idle(t), Accounted(t), NEW u, u.ctx = t.flowID
    PROVE  OnTime(t, u)
<1> SUFFICES ASSUME NEW j \in Slots(t), t.flowlist[j].id = t.flowID PROVE FALSE
  BY DEF OnTime
<1>1. /\ t.flowlist[j].key \in Keys /\ Living(t)[t.flowlist[j].key] = t.flowID
      /\ t.flowID \in Nat /\ t.flowID # Nil
  BY LivingHere, SlotHoldsFlow, NilAssumption DEF Idle, AllActive, Sound, Flow
<1>2. t.flowID \in 0 .. t.flowID - 1
  BY <1>1 DEF Accounted
<1> QED
  BY <1>1, <1>2

\* A known flow, an expired one, and a new one.
LEMMA DeliveredLife ==
    ASSUME NEW t, NEW p \in Packets, NEW o, Idle(t), Accounted(t), options \in Options
    PROVE  LET u == Delivered(t, p, o)
           IN  /\ Counted(t, u, p.key) \/ Begun(t, u, p.key)
               /\ Handled(t, u, p)
               /\ OnTime(t, u)
<1> DEFINE i     == t.flows[p.key]
           known == i # 0 /\ t.flowlist[i] # Nil
           late  == known /\ t.when > t.flowlist[i].expireNext
           v     == IF late THEN ExpireFlow(t, i) ELSE t
           done  == IF known /\ (late => IsActive(v, i))
                    THEN HandlePacket(v, i, p, o)
                    ELSE HandlePacket(AddFlow(v, p), FreeSlot(v), p, o)
           good(u) == /\ Counted(t, u, p.key) \/ Begun(t, u, p.key)
                      /\ Handled(t, u, p)
                      /\ OnTime(t, u)
<1>1. Sound(t) /\ p.key \in Keys /\ t.when \in Nat
  BY PacketsAssumption DEF PacketType, Idle, Sound, TableType
<1>2. i # 0 => /\ i \in Slots(t) /\ t.flowlist[i].key = p.key /\ known
               /\ Here(t, i) /\ t.flowlist[i].active
  <2> SUFFICES ASSUME i # 0
               PROVE  /\ i \in Slots(t) /\ t.flowlist[i].key = p.key /\ known
                      /\ Here(t, i) /\ t.flowlist[i].active
    OBVIOUS
  <2>1. i \in Slots(t) /\ t.flowlist[i].key = p.key
    BY <1>1 DEF Sound, MapMatchesList
  <2> QED
    BY <2>1 DEF Idle, Sound, AllActive, Here, Slots
<1>3. good(done)
  <2>1. CASE i = 0
    <3>1. done = HandlePacket(AddFlow(t, p), FreeSlot(t), p, o)
      BY <2>1
    <3> HIDE DEF done
    <3>2. Begun(t, done, p.key) /\ Handled(t, done, p)
      BY <1>1, <2>1, <3>1, HandleNew
    <3>3. OnTime(t, done)
      BY <3>2, OnTimeNew DEF Begun
    <3> QED
      BY <3>2, <3>3
  <2>2. CASE i # 0 /\ ~late
    <3>1. done = HandlePacket(t, i, p, o)
      BY <1>2, <2>2
    <3> HIDE DEF done
    <3>2. Counted(t, done, p.key) /\ Handled(t, done, p)
      BY <1>1, <1>2, <2>2, <3>1, HandleKnown
    <3>3. done.ctx = t.flowlist[i].id
      BY <1>1, <1>2, <2>2, <3>2, LivingHere DEF Counted
    <3>4. Due(t.flowlist[i], t.when - 1) = {}
      BY <1>1, <1>2, <2>2, SlotHoldsFlow, NothingDue DEF Here
    <3> QED
      BY <1>2, <2>2, <3>2, <3>3, <3>4, OnTimeKnown
  <2>3. CASE i # 0 /\ late
    <3>1. /\ v = ExpireFlow(t, i) /\ known /\ i \in Slots(t) /\ Here(t, i)
          /\ t.flowlist[i].active /\ t.flowlist[i].key = p.key
      BY <1>2, <2>3
    <3>2. done = IF IsActive(v, i) THEN HandlePacket(v, i, p, o)
                 ELSE HandlePacket(AddFlow(v, p), FreeSlot(v), p, o)
      BY <2>3, <3>1
    <3>3. /\ Due(t.flowlist[i], t.when) # {} => Ends(t, v, i)
          /\ Due(t.flowlist[i], t.when) = {} => GoesOn(t, v, i)
      BY <3>1, ExpireFlowLife
    <3>4. LifeOp(t, v, i) /\ Sound(v) /\ Accounted(v) /\ (InWindow(t) => InWindow(v))
          /\ v.window = t.window /\ v.flowID = t.flowID /\ v.when = t.when
          /\ v.packets = t.packets
      <4>1. LifeOp(t, v, i) /\ FlowOp(t, v, i)
        BY <3>3 DEF LifeOp, GoesOn, Ends, FlowOp
      <4> HIDE DEF v, done, i, late, known
      <4>2. /\ v.window = t.window /\ v.flowID = t.flowID /\ v.when = t.when
            /\ v.packets = t.packets
        BY <3>1, <4>1, FlowOpSlots DEF SameFrame
      <4>3. Sound(v)
        BY <1>1, <3>1, <4>1, FlowOpSound
      <4>4. Accounted(v) /\ (InWindow(t) => InWindow(v))
        BY <1>1, <3>1, <4>1, LifeAccounted, LifeInWindow
      <4> QED
        BY <4>1, <4>2, <4>3, <4>4
    <3> HIDE DEF v, done, i, late, known
    <3>5. CASE GoesOn(t, v, i)
      <4>1. Here(v, i) /\ IsActive(v, i) /\ v.flowlist[i].key = p.key /\ v.flowlist[i].active
            /\ v.flowlist[i].id = t.flowlist[i].id
        <5>1. Here(v, i)
          BY <3>1, <3>5, GoesOnHere
        <5>2. v.flowlist[i] # Nil
          BY <5>1 DEF Here, Slots
        <5> QED
          BY <3>1, <3>5, <5>1, <5>2 DEF GoesOn, Kept, IsActive
      <4>2. Counted(v, done, p.key) /\ Handled(v, done, p)
        BY <3>2, <3>4, <4>1, HandleKnown
      <4>3. Living(v) = Living(t) /\ v.ended = t.ended
        BY <1>1, <3>1, <3>5, GoesOnLiving DEF GoesOn
      <4>4. Counted(t, done, p.key) /\ Handled(t, done, p)
        BY <3>4, <4>2, <4>3 DEF Counted, Handled
      <4>5. done.ctx = t.flowlist[i].id
        BY <1>1, <3>1, <4>4, LivingHere DEF Counted
      <4>6. Due(t.flowlist[i], t.when) = {}
        BY <3>3, <4>1, EndsInactive
      <4>7. Due(t.flowlist[i], t.when - 1) = {}
        <5>1. t.flowlist[i] \in Flow
          BY <1>1, <3>1, SlotHoldsFlow DEF Sound
        <5> QED
          BY <1>1, <4>6, <5>1, NothingDue
      <4> QED
        BY <3>1, <4>4, <4>5, <4>7, OnTimeKnown
    <3>6. CASE Ends(t, v, i)
      <4>1. ~IsActive(v, i) /\ v.flows[p.key] = 0
        <5>1. ~IsActive(v, i)
          BY <3>6, EndsInactive
        <5>2. Dropped(t, v, i)
          <6> SUFFICES ASSUME Kept(t, v, i) PROVE FALSE
            BY <3>6 DEF Ends, FlowOp
          <6>1. v.flowlist[i].active /\ v.flowlist[i] # Nil
            BY NilAssumption DEF Kept, Idle
          <6> QED
            BY <5>1, <6>1 DEF IsActive
        <5>3. t.flows \in [Keys -> Nat]
          BY <1>1 DEF Sound, TableType
        <5> QED
          BY <1>1, <3>1, <5>1, <5>2, <5>3 DEF Dropped
      <4>2. Begun(v, done, p.key) /\ Handled(v, done, p) /\ Living(v)[p.key] = Nil
        BY <3>2, <3>4, <4>1, HandleNew
      <4>3. /\ Living(t)[p.key] = t.flowlist[i].id /\ t.flowlist[i].id # Nil
            /\ Living(v) = [Living(t) EXCEPT ![p.key] = Nil]
            /\ v.ended = t.ended \cup {t.flowlist[i].id}
        BY <1>1, <3>1, <3>6, EndsLiving, NilAssumption DEF Ends
      <4>4. \A x : [[Living(t) EXCEPT ![p.key] = Nil] EXCEPT ![p.key] = x]
                    = [Living(t) EXCEPT ![p.key] = x]
        OBVIOUS
      <4>5. Begun(t, done, p.key)
        BY <3>4, <4>2, <4>3, <4>4 DEF Begun
      <4>6. Handled(t, done, p)
        BY <3>4, <4>2 DEF Handled
      <4>7. OnTime(t, done)
        BY <4>5, OnTimeNew DEF Begun
      <4> QED
        BY <4>5, <4>6, <4>7
    <3> QED
      BY <3>4, <3>5, <3>6 DEF LifeOp
  <2> QED
    BY <2>1, <2>2, <2>3
<1> QED
  BY <1>3 DEF Delivered

\* FlowTable.Event, which may flush the output in the end.
LEMMA DeliverLife ==
    ASSUME NEW t, NEW p \in Packets, NEW o, Idle(t), Accounted(t), options \in Options
    PROVE  LET u == Deliver(t, p, o)
           IN  /\ Counted(t, u, p.key) \/ Begun(t, u, p.key)
               /\ Handled(t, u, p)
               /\ OnTime(t, u)
<1> DEFINE done == Delivered(t, p, o)
           u    == Deliver(t, p, o)
<1>1. TableType(done)
  BY DeliveredIdle DEF Idle, Sound
<1>2. /\ Counted(t, done, p.key) \/ Begun(t, done, p.key)
      /\ Handled(t, done, p)
      /\ OnTime(t, done)
  BY DeliveredLife
<1>3. u \in {done, Flush(done)}
  BY DeliverIsDelivered
<1> HIDE DEF done, u
<1>4. SameLives(done, u) /\ u.when = done.when /\ u.packets = done.packets
  BY <1>1, <1>3, FlushLives DEF SameLives
<1>5. /\ Living(u) = Living(done) /\ u.ended = done.ended /\ u.flowID = done.flowID
      /\ u.ctx = done.ctx
      /\ Accounted(done) => Accounted(u)
      /\ InWindow(done) => InWindow(u)
  BY <1>4, SameLivesSame DEF SameLives
<1>6. Counted(t, u, p.key) \/ Begun(t, u, p.key)
  BY <1>2, <1>5 DEF Counted, Begun
<1>7. Handled(t, u, p)
  BY <1>2, <1>4, <1>5 DEF Handled
<1>8. OnTime(t, u)
  BY <1>2, <1>5 DEF OnTime
<1> QED
  BY <1>6, <1>7, <1>8 DEF u

--------------------------------------------------------------------------------
(* 9. The steps of the specification.                                        *)

\* What a loop has passed: a loop that empties the table leaves no active flow, Expire
\* no flow with a timer that has run out.
Passed ==
    /\ loop.op \in {"window", "eof"} =>
        \A i \in Slots(tab) : i < loop.at => ~tab.flowlist[i].active
    /\ loop.op = "expire" =>
        \A i \in Slots(tab) : i < loop.at => Due(tab.flowlist[i], tab.when - 1) = {}

LInv ==
    /\ IInv
    /\ Accounted(tab)
    /\ InWindow(tab)
    /\ Passed

\* The parts of the invariant, put together for the next state.
LEMMA LInvNext ==
    ASSUME IInv', Accounted(tab'), InWindow(tab'), Passed', options' = options
    PROVE  LInv'
<1>1. Accounted(tab)'
  BY DEF Accounted, Living, LivingFlow, IsActive
<1>2. InWindow(tab)'
  BY DEF InWindow, Slots
<1> QED
  BY <1>1, <1>2 DEF LInv

\* The actions of FlowLife in terms of the table.
LEMMA LivingIsMapped ==
    /\ [k \in Keys |-> LivingFlow(tab, k)] = Living(tab)
    /\ [k \in Keys |-> LivingFlow(tab, k)]' = Living(tab')
BY DEF Living, LivingFlow, IsActive

SameLife(t, u) == Living(u) = Living(t) /\ u.ended = t.ended /\ u.flowID = t.flowID

\* The table does nothing that the lives of its flows show.
LEMMA LifeStutters ==
    ASSUME SameLife(tab, tab'), tab'.ctx = tab.ctx
    PROVE  UNCHANGED Life!vars
BY LivingIsMapped DEF SameLife, Life!vars

\* A packet of a flow that goes on is counted.
LEMMA LifeCounts ==
    ASSUME NEW t, SameLife(tab, t), NEW k \in Keys, Counted(t, tab', k)
    PROVE  Life!Next
<1>1. Life!Count(k)
  BY LivingIsMapped DEF SameLife, Counted, Life!Count
<1> QED
  BY <1>1 DEF Life!Next

\* The first packet of a flow begins its life.
LEMMA LifeBegins ==
    ASSUME NEW t, SameLife(tab, t), NEW k \in Keys, Begun(t, tab', k)
    PROVE  Life!Next
<1>1. Life!Begin(k)
  BY LivingIsMapped DEF SameLife, Begun, Life!Begin
<1> QED
  BY <1>1 DEF Life!Next

\* A flow that ends, ends its life.
LEMMA LifeEnds ==
    ASSUME Sound(tab), NEW i, Here(tab, i), Ends(tab, tab', i), tab'.ctx = tab.ctx
    PROVE  Life!Next
<1> DEFINE f == tab.flowlist[i]
           K == {f.key}
           l == Living(tab)
<1>1. /\ f.key \in Keys /\ l[f.key] = f.id /\ f.id # Nil
      /\ Living(tab') = [l EXCEPT ![f.key] = Nil]
  BY EndsLiving, NilAssumption
<1>2. tab'.ended = tab.ended \cup {f.id} /\ tab'.flowID = tab.flowID
  BY FlowOpSlots DEF Ends, SameFrame
<1>3. l \in [Keys -> Nat \cup {Nil}]
  BY LivingType
<1> HIDE DEF f, l
<1>4. Living(tab') = [k \in Keys |-> IF k \in K THEN Nil ELSE l[k]]
  BY <1>1, <1>3
<1>5. {l[k] : k \in K} = {f.id}
  BY <1>1
<1>6. Life!End(K)
  BY <1>2, <1>4, <1>5, LivingIsMapped DEF Life!End, l
<1>7. K \in SUBSET Life!Busy
  BY <1>1, LivingIsMapped DEF Life!Busy, l
<1> QED
  BY <1>6, <1>7 DEF Life!Next

\* What the action properties NoLateDelivery and ExpireIsComplete say of a step.
PacketOnTime ==
    tab'.packets > tab.packets =>
        \A i \in Slots(tab) : loop'.op = "none" /\ tab'.ctx = tab.flowlist[i].id =>
            Due(tab.flowlist[i], tab'.when - 1) = {}

NothingOverdue ==
    loop.op = "expire" /\ loop'.op = "none" =>
        \A i \in Slots(tab') : Due(tab'.flowlist[i], tab'.when - 1) = {}

\* What is shown of every step.
StepHolds == LInv' /\ [Life!Next]_(Life!vars) /\ PacketOnTime /\ NothingOverdue

\* A packet, whatever it begins, counts or ends.
LEMMA EventHolds ==
    ASSUME LInv, IInv', NEW p \in Packets, NEW when \in Times, Event(p, when)
    PROVE  StepHolds
<1> DEFINE u == Arrived(when)
<1>1. /\ when \in Nat /\ loop.op = "none" /\ options \in Options /\ TableType(tab)
      /\ p.key \in Keys
  BY BoundsAssumption, PacketsAssumption DEF Event, LInv, IInv, Sound, PacketType
<1>2. Idle(tab)
  BY <1>1, TabIdle DEF LInv
<1>3. SameTable(tab, u)
  BY <1>1, ArrivedSame DEF Arrived
<1>4. Idle(u)
  BY <1>2, <1>3, SameTableSound DEF Idle, SameTable, AllActive
<1>5. SameLives(tab, u) /\ u.when = when
  BY <1>1 DEF Arrived, TableType, SameLives
<1>6. PICK o \in Outcomes : tab' = Deliver(u, p, o)
  BY DEF Event
<1>7. loop' = loop /\ options' = options /\ (options.window => p.window = tab.window)
  BY DEF Event
<1> HIDE DEF u
<1>8. Living(u) = Living(tab) /\ Slots(u) = Slots(tab) /\ Accounted(u) /\ InWindow(u)
  BY <1>5, SameLivesSame DEF LInv
<1>9. /\ Counted(u, tab', p.key) \/ Begun(u, tab', p.key)
      /\ Handled(u, tab', p)
      /\ OnTime(u, tab')
  BY <1>1, <1>4, <1>6, <1>8, DeliverLife
<1>10. Accounted(tab') /\ InWindow(tab') /\ tab'.when = when
  BY <1>5, <1>7, <1>8, <1>9 DEF Handled, SameLives
<1>11. Passed'
  BY <1>1, <1>7 DEF Passed
<1>12. LInv'
  BY <1>7, <1>10, <1>11, LInvNext
<1>13. Life!Next
  BY <1>1, <1>5, <1>8, <1>9, LifeCounts, LifeBegins DEF SameLife, SameLives
<1>14. PacketOnTime
  BY <1>5, <1>8, <1>9, <1>10 DEF PacketOnTime, OnTime, SameLives
<1>15. NothingOverdue
  BY <1>1 DEF NothingOverdue
<1> QED
  BY <1>12, <1>13, <1>14, <1>15 DEF StepHolds

\* Event for another window, Expire and EOF leave the flows alone.
LEMMA LoopStartHolds ==
    ASSUME LInv, IInv', NEW when \in Times,
           \/ \E p \in Packets : EventOfOtherWindow(p, when)
           \/ Expire(when)
           \/ EOF(when)
    PROVE  StepHolds
<1>1. TableType(tab)
  BY DEF LInv, IInv, Sound
<1>2. /\ loop.op = "none" /\ options' = options /\ SameLives(tab, tab')
      /\ loop'.op # "none" /\ loop'.at = 1
  <2>1. CASE \E p \in Packets : EventOfOtherWindow(p, when)
    BY <1>1, <2>1 DEF EventOfOtherWindow, Arrived, TableType, SameLives, LoopFor
  <2>2. CASE Expire(when)
    BY <1>1, <2>2 DEF Expire, TableType, SameLives, LoopFor
  <2>3. CASE EOF(when)
    BY <1>1, <2>3 DEF EOF, TableType, SameLives, LoopFor
  <2> QED
    BY <2>1, <2>2, <2>3
<1>3. Living(tab') = Living(tab) /\ Accounted(tab') /\ InWindow(tab')
  BY <1>2, SameLivesSame DEF LInv
<1>4. Passed'
  BY <1>2 DEF Passed, Slots
<1>5. LInv'
  BY <1>2, <1>3, <1>4, LInvNext
<1>6. UNCHANGED Life!vars
  BY <1>2, <1>3, LifeStutters DEF SameLife, SameLives
<1>7. PacketOnTime /\ NothingOverdue
  BY <1>2 DEF PacketOnTime, NothingOverdue
<1> QED
  BY <1>5, <1>6, <1>7 DEF StepHolds

\* Expire leaves no timer that has run out.
LEMMA ExpireIfDueOnTime ==
    ASSUME NEW t, NEW i, Here(t, i), ~t.eof
    PROVE  LET u == ExpireIfDue(t, i)
           IN  i \in Slots(u) => Due(u.flowlist[i], u.when - 1) = {}
<1> DEFINE f == t.flowlist[i]
           u == ExpireIfDue(t, i)
<1>1. f \in Flow /\ f.active /\ ExpireNextIsBound(f) /\ t.when \in Nat
  BY SlotHoldsFlow DEF Here, TableType
<1>2. u = IF t.when > f.expireNext THEN ExpireFlow(t, i) ELSE t
  BY DEF ExpireIfDue
<1>3. CASE ~(t.when > f.expireNext)
  BY <1>1, <1>2, <1>3, NothingDue
<1>4. CASE t.when > f.expireNext
  <2> HIDE DEF u
  <2>1. FlowOp(t, u, i) /\ u.when = t.when /\ (i \in Slots(u) => u.flowlist[i].active)
    BY <1>2, <1>4, ExpireFlowOp, FlowOpSlots DEF SameFrame
  <2>2. CASE Due(f, t.when) # {}
    <3>1. ~IsActive(u, i)
      BY <1>1, <1>2, <1>4, <2>2, ExpireFlowLife, EndsInactive
    <3> QED
      BY <2>1, <3>1 DEF IsActive, Slots, u
  <2>3. CASE Due(f, t.when) = {}
    <3>1. u.flowlist[i].timers = f.timers
      BY <1>2, <1>4, <2>3, ExpireFlowLife
    <3>2. Due(f, t.when - 1) = {}
      BY <1>1, <2>3, NothingDue
    <3> QED
      BY <2>1, <3>1, <3>2 DEF Due, u
  <2> QED
    BY <2>2, <2>3
<1> QED
  BY <1>3, <1>4

\* One element of a loop.
LEMMA LoopElementHolds ==
    ASSUME LInv, IInv', loop.op \in {"expire", "window", "eof"},
           loop.at <= Len(tab.flowlist), NextElement,
           tab.flowlist[loop.at] = Nil => tab' = tab,
           Here(tab, loop.at) => LifeOp(tab, tab', loop.at) /\ tab'.ctx = tab.ctx,
           Here(tab, loop.at) /\ loop.op # "expire" => ~IsActive(tab', loop.at),
           Here(tab, loop.at) /\ loop.op = "expire" /\ loop.at \in Slots(tab') =>
                Due(tab'.flowlist[loop.at], tab'.when - 1) = {}
    PROVE  StepHolds
<1> DEFINE i == loop.at
<1>1. /\ i \in 1 .. Len(tab.flowlist) /\ i \in Nat
      /\ loop'.op = loop.op /\ loop'.at = i + 1 /\ options' = options
  BY DEF LInv, IInv, LoopType, NextElement, Sound, TableType
<1>2. NothingOverdue
  BY <1>1 DEF NothingOverdue
<1> HIDE DEF i
<1>3. CASE tab.flowlist[i] = Nil
  <2>1. tab' = tab /\ i \notin Slots(tab)
    BY <1>3 DEF i, Slots
  <2>2. \A j \in Slots(tab) : j \in Nat /\ (j < i + 1 => j < i)
    BY <1>1, <2>1 DEF Slots
  <2>3. Passed'
    BY <1>1, <2>1, <2>2 DEF Passed, LInv, i, Slots
  <2>4. LInv'
    BY <1>1, <2>1, <2>3, LInvNext DEF LInv
  <2>5. UNCHANGED Life!vars
    BY <2>1, LifeStutters DEF SameLife
  <2>6. PacketOnTime
    BY <2>1 DEF PacketOnTime, LInv, IInv, Sound, TableType
  <2> QED
    BY <1>2, <2>4, <2>5, <2>6 DEF StepHolds
<1>4. CASE tab.flowlist[i] # Nil
  <2>1. i \in Slots(tab) /\ Sound(tab)
    BY <1>1, <1>4 DEF Slots, LInv, IInv
  <2>2. Here(tab, i)
    BY <2>1 DEF Here, LInv, IInv, Sound, MapMatchesList, OnlyPassedInactive, i
  <2>3. LifeOp(tab, tab', i) /\ tab'.ctx = tab.ctx
    BY <2>2 DEF i
  <2>4. /\ SameFrame(tab, tab') /\ Slots(tab') \subseteq Slots(tab)
        /\ \A j \in Slots(tab') : j # i => tab'.flowlist[j] = tab.flowlist[j]
    BY <2>2, <2>3, FlowOpSlots DEF LifeOp, GoesOn, Ends, FlowOp
  <2>5. Accounted(tab') /\ InWindow(tab')
    BY <2>1, <2>2, <2>3, LifeAccounted, LifeInWindow DEF LInv
  <2>6. \A j \in Slots(tab') : j < i + 1 => j = i \/ (j < i /\ j \in Slots(tab) /\ j # i)
    BY <1>1, <2>4 DEF Slots
  <2>7. ASSUME loop.op \in {"window", "eof"}, NEW j \in Slots(tab'), j < i + 1
        PROVE  ~tab'.flowlist[j].active
    <3>1. CASE j = i
      BY <2>2, <2>7, <3>1 DEF IsActive, Slots, i
    <3>2. CASE j # i
      BY <2>4, <2>6, <2>7, <3>2 DEF LInv, Passed, i
    <3> QED
      BY <3>1, <3>2
  <2>8. ASSUME loop.op = "expire", NEW j \in Slots(tab'), j < i + 1
        PROVE  Due(tab'.flowlist[j], tab'.when - 1) = {}
    <3>1. CASE j = i
      BY <2>2, <2>8, <3>1 DEF i
    <3>2. CASE j # i
      BY <2>4, <2>6, <2>8, <3>2 DEF LInv, Passed, SameFrame, i
    <3> QED
      BY <3>1, <3>2
  <2>9. Passed'
    BY <1>1, <2>7, <2>8 DEF Passed, Slots, Due
  <2>10. LInv'
    BY <1>1, <2>5, <2>9, LInvNext
  <2>11. [Life!Next]_(Life!vars)
    <3>1. CASE GoesOn(tab, tab', i)
      <4>1. SameLife(tab, tab')
        BY <2>1, <2>2, <2>4, <3>1, GoesOnLiving DEF SameLife, GoesOn, SameFrame
      <4> QED
        BY <2>3, <4>1, LifeStutters
    <3>2. CASE Ends(tab, tab', i)
      BY <2>1, <2>2, <2>3, <3>2, LifeEnds
    <3> QED
      BY <2>3, <3>1, <3>2 DEF LifeOp
  <2>12. PacketOnTime
    BY <2>1, <2>4 DEF PacketOnTime, SameFrame, Sound, TableType
  <2> QED
    BY <1>2, <2>10, <2>11, <2>12 DEF StepHolds
<1> QED
  BY <1>3, <1>4

\* One flow of an expiry, of EOF or of the end of a window.
LEMMA LoopElementsHold ==
    ASSUME LInv, IInv', ExpireStep \/ EOFStep \/ WindowStep
    PROVE  StepHolds
<1>1. CASE ExpireStep
  <2>1. /\ loop.op = "expire" /\ loop.at <= Len(tab.flowlist) /\ NextElement
        /\ tab' = IF tab.flowlist[loop.at] = Nil THEN tab ELSE ExpireIfDue(tab, loop.at)
    BY <1>1 DEF ExpireStep, InLoop
  <2>2. ~tab.eof
    BY <2>1 DEF LInv, IInv, FlagsFollowLoop
  <2>3. Here(tab, loop.at) =>
            /\ LifeOp(tab, tab', loop.at) /\ tab'.ctx = tab.ctx
            /\ loop.at \in Slots(tab') => Due(tab'.flowlist[loop.at], tab'.when - 1) = {}
    BY <2>1, <2>2, ExpireIfDueLife, ExpireIfDueOnTime DEF Here, Slots
  <2> QED
    BY <2>1, <2>3, LoopElementHolds
<1>2. ASSUME NEW reason, NEW ctx, tab' = EndFlow(tab, loop.at, reason, ctx),
             loop.op \in {"window", "eof"}, loop.at <= Len(tab.flowlist), NextElement
      PROVE  StepHolds
  <2>1. tab.flowlist[loop.at] = Nil => tab' = tab
    BY <1>2 DEF EndFlow
  <2>2. Here(tab, loop.at) => /\ LifeOp(tab, tab', loop.at) /\ tab'.ctx = tab.ctx
                              /\ ~IsActive(tab', loop.at)
    BY <1>2, EndFlowLife
  <2>3. loop.op # "expire"
    BY <1>2
  <2> QED
    BY <1>2, <2>1, <2>2, <2>3, LoopElementHolds
<1>3. CASE EOFStep
  <2> DEFINE ctx == tab.flowlist[loop.at].id
  <2>1. /\ loop.op = "eof" /\ loop.at <= Len(tab.flowlist) /\ NextElement
        /\ tab' = EndFlow(tab, loop.at, "forced", ctx)
    BY <1>3 DEF EOFStep, InLoop
  <2> HIDE DEF ctx
  <2> QED
    BY <1>2, <2>1
<1>4. CASE WindowStep
  <2>1. /\ loop.op = "window" /\ loop.at <= Len(tab.flowlist) /\ NextElement
        /\ tab' = EndFlow(tab, loop.at, "end", tab.ctx)
    BY <1>4 DEF WindowStep, InLoop
  <2> QED
    BY <1>2, <2>1
<1> QED
  BY <1>1, <1>3, <1>4

\* A loop that has passed the whole list leaves a table without living flows.
LEMMA ClearLives ==
    ASSUME LInv, loop.op \in {"window", "eof"}, loop.at > Len(tab.flowlist)
    PROVE  LET t == Clear(tab)
           IN  /\ SameLife(tab, t) /\ t.ctx = tab.ctx
               /\ Accounted(t) /\ InWindow(t) /\ Slots(t) = {} /\ t.when = tab.when
<1> DEFINE t == Clear(tab)
<1>1. /\ t.flows = [k \in Keys |-> 0] /\ t.flowlist = <<>> /\ t.ended = tab.ended
      /\ t.twice = tab.twice /\ t.flowID = tab.flowID /\ t.ctx = tab.ctx /\ t.when = tab.when
  BY DEF Clear, LInv, IInv, Sound, TableType
<1>2. \A j \in Slots(tab) : j < loop.at
  BY DEF LInv, IInv, LoopType, Sound, TableType, Slots
<1>3. \A j \in Slots(tab) : ~tab.flowlist[j].active
  BY <1>2 DEF LInv, Passed
<1>4. \A k \in Keys : LivingFlow(tab, k) = Nil
  BY <1>3 DEF LInv, IInv, Sound, MapMatchesList, LivingFlow, IsActive
<1> HIDE DEF t
<1>5. Living(t) = Living(tab)
  BY <1>1, <1>4 DEF Living, LivingFlow
<1>6. Accounted(t)
  BY <1>1, <1>5 DEF Accounted, LInv
<1>7. Slots(t) = {}
  BY <1>1 DEF Slots
<1> QED
  BY <1>1, <1>5, <1>6, <1>7 DEF SameLife, InWindow, t

\* The end of an expiry, of EOF or of a window.
LEMMA LoopEndsHold ==
    ASSUME LInv, IInv', ExpireDone \/ EOFDone \/ WindowDone
    PROVE  StepHolds
<1>1. TableType(tab) /\ options \in Options
  BY DEF LInv, IInv, Sound
<1>2. CASE ExpireDone
  <2> DEFINE t == [tab EXCEPT !.expiring = FALSE]
  <2>1. /\ loop.op = "expire" /\ loop.at > Len(tab.flowlist)
        /\ tab' = FlushExpired(t) /\ loop' = NoLoop /\ options' = options
    BY <1>2 DEF ExpireDone, LoopOver
  <2>2. TableType(t) /\ SameLives(tab, t) /\ t.when = tab.when /\ t.packets = tab.packets
    BY <1>1 DEF TableType, SameLives
  <2> HIDE DEF t
  <2>3. SameLives(tab, tab') /\ tab'.when = tab.when
    BY <2>1, <2>2, FlushLives DEF SameLives
  <2>4. Living(tab') = Living(tab) /\ Slots(tab') = Slots(tab)
        /\ Accounted(tab') /\ InWindow(tab')
    BY <2>3, SameLivesSame DEF LInv
  <2>5. Passed'
    BY <2>1 DEF Passed, NoLoop
  <2>6. LInv'
    BY <2>1, <2>4, <2>5, LInvNext
  <2>7. UNCHANGED Life!vars
    BY <2>3, <2>4, LifeStutters DEF SameLife, SameLives
  <2>8. \A i \in Slots(tab) : i < loop.at
    BY <2>1 DEF LInv, IInv, LoopType, Sound, TableType, Slots
  <2>9. NothingOverdue
    BY <2>1, <2>3, <2>4, <2>8 DEF NothingOverdue, SameLives, LInv, Passed
  <2>10. PacketOnTime
    <3>1. tab'.packets = tab.packets
      BY <2>1, <2>2, FlushLives
    <3> QED
      BY <1>1, <3>1 DEF PacketOnTime, TableType
  <2> QED
    BY <2>6, <2>7, <2>9, <2>10 DEF StepHolds
<1>3. ASSUME loop.op \in {"window", "eof"}, loop.at > Len(tab.flowlist)
      PROVE  LET t == Clear(tab)
             IN  /\ SameLife(tab, t) /\ t.ctx = tab.ctx
                 /\ Accounted(t) /\ InWindow(t) /\ Slots(t) = {} /\ t.when = tab.when
                 /\ Idle(t) /\ TableType(t) /\ t.packets = tab.packets
  <2>1. Idle(Clear(tab)) /\ TableType(Clear(tab))
    BY ClearIdle DEF LInv, IInv, Idle, Sound
  <2>2. Clear(tab).packets = tab.packets
    BY <1>1 DEF Clear, TableType
  <2> QED
    BY <1>3, <2>1, <2>2, ClearLives
<1>4. CASE EOFDone
  <2> DEFINE t == Clear(tab)
  <2>1. /\ loop.op = "eof" /\ loop.at > Len(tab.flowlist)
        /\ tab' = IF options.sort = "none" THEN t ELSE FlushAll(t)
        /\ loop' = [NoLoop EXCEPT !.op = "done"] /\ options' = options
    BY <1>4 DEF EOFDone, LoopOver
  <2> HIDE DEF t
  <2>2. /\ SameLife(tab, t) /\ t.ctx = tab.ctx /\ Accounted(t) /\ InWindow(t)
        /\ TableType(t) /\ t.packets = tab.packets
    BY <1>3, <2>1 DEF t
  <2>3. SameLives(t, tab') /\ tab'.packets = tab.packets
    BY <2>1, <2>2, FlushLives DEF SameLives
  <2>4. Living(tab') = Living(t) /\ Accounted(tab') /\ InWindow(tab')
    BY <2>2, <2>3, SameLivesSame
  <2>5. Passed'
    BY <2>1 DEF Passed, NoLoop
  <2>6. LInv'
    BY <2>1, <2>4, <2>5, LInvNext
  <2>7. UNCHANGED Life!vars
    BY <2>2, <2>3, <2>4, LifeStutters DEF SameLife, SameLives
  <2>8. PacketOnTime /\ NothingOverdue
    BY <1>1, <2>1, <2>3 DEF PacketOnTime, NothingOverdue, TableType
  <2> QED
    BY <2>6, <2>7, <2>8 DEF StepHolds
<1>5. CASE WindowDone
  <2> DEFINE c == Clear(tab)
             t == FlushExpired(c)
             p == loop.packet
             u == [t EXCEPT !.window = p.window]
  <2>1. /\ loop.op = "window" /\ loop.at > Len(tab.flowlist) /\ loop' = NoLoop
        /\ options' = options
    BY <1>5 DEF WindowDone, LoopOver
  <2>2. PICK o \in Outcomes : tab' = Deliver(u, p, o)
    BY <1>5 DEF WindowDone
  <2>3. p \in Packets /\ p.window \in Nat /\ p.key \in Keys
    BY <2>1, PacketsAssumption DEF LInv, IInv, LoopType, PacketType
  <2> HIDE DEF c
  <2>4. /\ SameLife(tab, c) /\ Accounted(c) /\ InWindow(c) /\ Slots(c) = {}
        /\ Idle(c) /\ TableType(c) /\ c.packets = tab.packets
    BY <1>3, <2>1 DEF c
  <2> HIDE DEF t, p
  <2>5. SameLives(c, t) /\ Idle(t) /\ t.packets = c.packets
    BY <2>4, FlushLives, FlushIdle DEF t
  <2>6. /\ TableType(u) /\ u.flows = t.flows /\ u.flowlist = t.flowlist
        /\ u.freelist = t.freelist /\ u.eof = t.eof /\ u.window = p.window
        /\ u.ended = t.ended /\ u.twice = t.twice /\ u.flowID = t.flowID
        /\ u.packets = t.packets
    BY <2>3, <2>5 DEF Idle, Sound, TableType
  <2> HIDE DEF u
  <2>7. Idle(u) /\ Slots(u) = {}
    BY <2>4, <2>5, <2>6, StructureSound DEF Idle, AllActive, SameLives, Slots
  <2>8. Living(u) = Living(c) /\ Accounted(u) /\ InWindow(u) /\ SameLife(tab, u)
    <3>1. Living(u) = Living(t) /\ Living(t) = Living(c) /\ Accounted(t)
      BY <2>4, <2>5, <2>6, SameLivesSame DEF Living, LivingFlow, IsActive
    <3> QED
      BY <2>4, <2>5, <2>6, <2>7, <3>1 DEF Accounted, InWindow, SameLife, SameLives
  <2>9. /\ Counted(u, tab', p.key) \/ Begun(u, tab', p.key)
        /\ Handled(u, tab', p)
    BY <1>1, <2>2, <2>3, <2>7, <2>8, DeliverLife
  <2>10. Accounted(tab') /\ InWindow(tab')
    BY <2>6, <2>8, <2>9 DEF Handled
  <2>11. Passed'
    BY <2>1 DEF Passed, NoLoop
  <2>12. LInv'
    BY <2>1, <2>10, <2>11, LInvNext
  <2>13. Life!Next
    BY <2>3, <2>8, <2>9, LifeCounts, LifeBegins
  <2>14. NothingOverdue
    BY <2>1 DEF NothingOverdue
  <2>15. PacketOnTime
    <3>1. tab'.packets = tab.packets
      BY <2>4, <2>5, <2>6, <2>9 DEF Handled
    <3> QED
      BY <1>1, <3>1 DEF PacketOnTime, TableType
  <2> QED
    BY <2>12, <2>13, <2>14, <2>15 DEF StepHolds
<1> QED
  BY <1>2, <1>4, <1>5

\* An empty table is at the start of FlowLife.
LEMMA LifeInit == Init => LInv /\ Life!Init
<1> SUFFICES ASSUME Init PROVE LInv /\ Life!Init
  OBVIOUS
<1>1. /\ tab.flows = [k \in Keys |-> 0] /\ tab.flowlist = <<>> /\ tab.flowID = 0
      /\ tab.ended = {} /\ tab.twice = {} /\ tab.ctx = Nil /\ loop.op = "none"
  BY DEF Init, NewFlowTable, NoLoop
<1>2. Living(tab) = [k \in Keys |-> Nil] /\ Slots(tab) = {}
  BY <1>1 DEF Living, LivingFlow, Slots
<1>3. Accounted(tab)
  BY <1>1, <1>2 DEF Accounted
<1>4. InWindow(tab) /\ Passed
  BY <1>1, <1>2 DEF InWindow, Passed
<1>5. Life!Init
  BY <1>1, <1>2, LivingIsMapped DEF Life!Init
<1> QED
  BY <1>3, <1>4, <1>5, InitInvariant DEF LInv

\* Every step of the table is a step of FlowLife, and keeps the invariant.
LEMMA LifeNext == LInv /\ [Next]_vars => StepHolds
<1> SUFFICES ASSUME LInv, [Next]_vars PROVE StepHolds
  OBVIOUS
<1>1. IInv'
  BY NextInvariant DEF LInv
<1>2. CASE UNCHANGED vars
  <2>1. tab' = tab /\ loop' = loop /\ options' = options
    BY <1>2 DEF vars
  <2>2. Passed'
    BY <2>1 DEF LInv, Passed, Slots, Due
  <2>3. LInv'
    BY <1>1, <2>1, <2>2, LInvNext DEF LInv
  <2>4. UNCHANGED Life!vars
    BY <2>1, LifeStutters DEF SameLife
  <2>5. PacketOnTime /\ NothingOverdue
    BY <2>1 DEF PacketOnTime, NothingOverdue, LInv, IInv, Sound, TableType
  <2> QED
    BY <2>3, <2>4, <2>5 DEF StepHolds
<1>3. CASE LoopNext
  BY <1>1, <1>3, LoopElementsHold, LoopEndsHold DEF LoopNext
<1>4. CASE \E when \in Times : \E p \in Packets : Event(p, when)
  BY <1>1, <1>4, EventHolds
<1>5. CASE \E when \in Times : (\E p \in Packets : EventOfOtherWindow(p, when))
                               \/ Expire(when) \/ EOF(when)
  BY <1>1, <1>5, LoopStartHolds
<1> QED
  BY <1>2, <1>3, <1>4, <1>5 DEF Next

\* The inductive invariant of a table with its flows.
THEOREM LifeInvariance == Spec => []LInv
<1>1. LInv /\ [Next]_vars => LInv'
  BY LifeNext DEF StepHolds
<1> QED
  BY <1>1, LifeInit, PTL DEF Spec

\* A flow table is a FlowLife: timers, windows, loops, slots that are reused and the
\* clearing of the table (flows/table.go, flows/flow.go) never make two living flows
\* of a key, revive a flow that has ended, or drop one that has not.
THEOREM TableIsFlowLife == Spec => ImplementsFlowLife
<1>1. LInv /\ [Next]_vars => [Life!Next]_(Life!vars)
  BY LifeNext DEF StepHolds
<1>2. Init => Life!Init
  BY LifeInit
<1> QED
  BY <1>1, <1>2, LifeInvariance, PTL DEF Spec, ImplementsFlowLife, Life!Spec

\* Every flow that a table made is alive in it or was stopped, once.
THEOREM FlowsStayAccounted == Spec => []EveryFlowAccounted
<1>1. LInv => EveryFlowAccounted
  <2> SUFFICES ASSUME LInv PROVE EveryFlowAccounted
    OBVIOUS
  <2> DEFINE alive == {i \in Slots(tab) : tab.flowlist[i].active}
             ids   == {tab.flowlist[i].id : i \in alive}
             busy  == {k \in Keys : Living(tab)[k] # Nil}
             lives == {Living(tab)[k] : k \in busy}
             key(i) == tab.flowlist[i].key
  <2>1. Sound(tab)
    BY DEF LInv, IInv
  <2>2. \A i \in alive : key(i) \in busy /\ Living(tab)[key(i)] = tab.flowlist[i].id
                         /\ tab.flows[key(i)] = i
    <3> SUFFICES ASSUME NEW i \in alive
                 PROVE  key(i) \in busy /\ Living(tab)[key(i)] = tab.flowlist[i].id
                        /\ tab.flows[key(i)] = i
      OBVIOUS
    <3>1. tab.flowlist[i].id # Nil /\ tab.flows[key(i)] = i
      BY <2>1, SlotHoldsFlow, NilAssumption DEF Sound, MapMatchesList, Flow
    <3> QED
      BY <2>1, <3>1, LivingHere
  <2>3. \A k \in busy : tab.flows[k] \in alive
                        /\ Living(tab)[k] = tab.flowlist[tab.flows[k]].id
    BY <2>1 DEF Living, LivingFlow, IsActive, Sound, MapMatchesList
  <2>4. ids = lives
    BY <2>2, <2>3
  <2>5. \A i, j \in alive : tab.flowlist[i].id = tab.flowlist[j].id => i = j
    <3> SUFFICES ASSUME NEW i \in alive, NEW j \in alive,
                        tab.flowlist[i].id = tab.flowlist[j].id
                 PROVE  i = j
      OBVIOUS
    <3>1. key(i) = key(j)
      BY <2>2 DEF LInv, Accounted
    <3> QED
      BY <2>2, <3>1
  <2>6. /\ tab.twice = {} /\ lives \cup tab.ended = 0 .. tab.flowID - 1
        /\ lives \cap tab.ended = {}
    BY DEF LInv, Accounted
  <2> HIDE DEF lives, busy
  <2> QED
    BY <2>4, <2>5, <2>6 DEF EveryFlowAccounted
<1> QED
  BY <1>1, LifeInvariance, PTL

\* With window expiry, flows of different windows are never in the table together.
THEOREM WindowsStayApart == Spec => []OneWindow
<1>1. LInv => OneWindow
  BY DEF LInv, InWindow, OneWindow
<1> QED
  BY <1>1, LifeInvariance, PTL

\* Event never hands a packet to a flow with a timer that ran out before it.
THEOREM PacketsAreOnTime == Spec => NoLateDelivery
<1>1. LInv /\ [Next]_vars => PacketOnTime
  BY LifeNext DEF StepHolds
<1> QED
  BY <1>1, LifeInvariance, PTL DEF Spec, NoLateDelivery, PacketOnTime

\* Expire leaves no flow with a timer that ran out.
THEOREM ExpireCompletes == Spec => ExpireIsComplete
<1>1. LInv /\ [Next]_vars => NothingOverdue
  BY LifeNext DEF StepHolds
<1> QED
  BY <1>1, LifeInvariance, PTL DEF Spec, ExpireIsComplete, NothingOverdue
===============================================================================
