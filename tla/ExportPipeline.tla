---------------------------- MODULE ExportPipeline ----------------------------
(*****************************************************************************)
(* The export pipeline (flows/exporter.go, flows/export.go): the goroutines  *)
(* between the flow tables and the exporters.                                *)
(*                                                                           *)
(*   table t -> in[t] -> sortWorker -> unmerged[t] -> tree of mergeTree-     *)
(*   Workers -> sorted -> exportSplicer -> out[e] -> exporterWorker          *)
(*                                                                           *)
(* Sort workers exist with expiry sorting only, and without sorting the      *)
(* tables write to sorted directly.  What travels are lists of records,      *)
(* linked by next, whose head caches the tail of the list in prev.  Lists    *)
(* are never copied: a worker relinks records that others have made, so next *)
(* and prev are one heap that all goroutines share.                          *)
(*                                                                           *)
(* A record is its sort key, a number; 0 is the nil pointer.                 *)
(*****************************************************************************)
EXTENDS FiniteSets, NaturalSort, Selections

CONSTANTS
    NumTables,      \* flow tables
    NumExporters,   \* exporters
    NumRecords,     \* bound: records that are exported
    Orders,         \* the sort orders to start with
    Batches,        \* Batches[order]: the lists a table may send, as sequences
    Steady,         \* the orders with which a table sends its batches in that order
    Depth           \* capacity of a channel (100 or 10 in the program)

ASSUME SizesAssumption ==
    NumTables \in Nat \ {0} /\ NumExporters \in Nat \ {0} /\ NumRecords \in Nat
    /\ Depth \in Nat \ {0}
ASSUME OrdersAssumption == Orders \subseteq {"none", "start", "stop", "expiry"}
\* A table sends in the order of start or stop times (OutputSorted of FlowTable), but not
\* always in that of expiry times: an expiry leaves the flows whose timers are at its very
\* time, and time may jump back.
ASSUME SteadyAssumption == Orders \cap {"start", "stop"} \subseteq Steady

Nil == 0
Records == 1 .. NumRecords
Pointer == Records \cup {Nil}
Tables == 1 .. NumTables
Exporters == 1 .. NumExporters

--------------------------------------------------------------------------------
(* Topology.                                                                 *)

\* makeMergeTree: neighbours are merged until one queue is left.
Width == [l \in 0 .. NumTables |-> Repeat([n \in Nat |-> (n + 1) \div 2], NumTables, l)]
Top == CHOOSE l \in 0 .. NumTables : Width[l] = 1 /\ \A k \in 0 .. l - 1 : Width[k] > 1

\* Queue i of level l; an odd one out is handed to the next level as it is.
HandedOn(l, i) == l > 0 /\ 2 * i > Width[l - 1]
Origin ==
    [q \in (0 .. NumTables) \X Tables |->
        IF HandedOn(q[1], q[2]) THEN <<q[1] - 1, 2 * q[2] - 1>> ELSE q]
Queues == [q \in (0 .. NumTables) \X Tables |-> Repeat(Origin, q, q[1])]
Queue(l, i) == <<"tree", Queues[<<l, i>>][1], Queues[<<l, i>>][2]>>

Mergers == {w \in {"merge"} \X (1 .. Top) \X Tables : 2 * w[3] <= Width[w[2] - 1]}
Sorters == {"sort"} \X {0} \X Tables

MergeInput(w, k) == Queue(w[2] - 1, 2 * w[3] - 1 + k)   \* a for k = 0, b for k = 1
SortInput(s) == <<"in", 0, s[3]>>
Output(g) == Queue(g[2], g[3])
SortedQueue == Queue(Top, 1)
Out(e) == <<"out", 0, e>>

Channels ==
    {<<"in", 0, t>> : t \in Tables} \cup {Queue(0, t) : t \in Tables}
    \cup {Output(w) : w \in Mergers} \cup {Out(e) : e \in Exporters}

--------------------------------------------------------------------------------
VARIABLES
    order,     \* SortType of the pipeline
    heap,      \* next and prev of every record
    produced,  \* the records each table has exported
    chan,      \* contents of the channels: heads of lists
    closed,    \* the channels that are closed
    hand,      \* list a worker is about to send
    merger,    \* mergeTreeQueues and place of the merge workers
    splice,    \* list the splicer holds, and the exporter that is next
    exported,  \* what the exporters got
    finished   \* exporters that are done (WaitGroup)

vars == <<order, heap, produced, chan, closed, hand, merger, splice, exported, finished>>

\* The channel a table writes to.
In(t) ==
    CASE order = "none"   -> SortedQueue
      [] order = "expiry" -> <<"in", 0, t>>
      [] OTHER            -> Queue(0, t)

MaxOf(S) == IF S = {} THEN 0 ELSE CHOOSE x \in S : \A y \in S : y <= x

\* The list of records that begins at head, by the next of each.
RecordLists ==
    {list \in UNION {[1 .. n -> Records] : n \in 0 .. NumRecords} :
        \A i, j \in 1 .. Len(list) : i # j => list[i] # list[j]}
Linked(next, head, list) ==
    /\ head = IF list = <<>> THEN Nil ELSE list[1]
    /\ \A i \in 1 .. Len(list) : next[list[i]] = IF i = Len(list) THEN Nil ELSE list[i + 1]
Chain(next, head) == CHOOSE list \in RecordLists : Linked(next, head, list)

\* The records of list linked in this order.
LinkNext(next, list) ==
    [e \in Records |-> IF \E i \in 1 .. Len(list) : list[i] = e
                       THEN LET i == CHOOSE i \in 1 .. Len(list) : list[i] = e
                            IN  IF i = Len(list) THEN Nil ELSE list[i + 1]
                       ELSE next[e]]

\* ... with prev of the head at the tail, as flushExports and mergeSublist leave it.
Link(h, list) ==
    [next |-> LinkNext(h.next, list),
     prev |-> [e \in Records |-> IF e = list[1] THEN list[Len(list)]
                                 ELSE IF e \in Elements(list) THEN Nil ELSE h.prev[e]]]

Room(c) == Len(chan[c]) < Depth
Ready(c) == chan[c] # <<>>
Ended(c) == chan[c] = <<>> /\ c \in closed
Received(c) == [chan EXCEPT ![c] = Tail(@)]

--------------------------------------------------------------------------------
Idle == [pc |-> "initial", head |-> [q \in 0 .. 2 |-> Nil], tail |-> [q \in 0 .. 2 |-> Nil],
         stopped |-> 0, ok |-> TRUE]

Init ==
    /\ order \in Orders
    /\ heap = [next |-> [e \in Records |-> Nil], prev |-> [e \in Records |-> Nil]]
    /\ produced = [t \in Tables |-> {}]
    /\ chan = [c \in Channels |-> <<>>]
    /\ closed = {}
    /\ hand = [g \in Mergers \cup Sorters |-> Nil]
    /\ merger = [w \in Mergers |-> Idle]
    /\ splice = [list |-> Nil, to |-> 1]
    /\ exported = [e \in Exporters |-> <<>>]
    /\ finished = {}

\* ExportPipeline.export: a table hands a list over.  With a steady order what it exports
\* comes after all it has exported before (with expiry sorting in any order within a batch).
Export(t, list) ==
    /\ In(t) \notin closed /\ Room(In(t))
    /\ \A e \in Elements(list), s \in Tables : e \notin produced[s]
    /\ order \in Steady => \A e \in Elements(list) : e > MaxOf(produced[t])
    /\ produced' = [produced EXCEPT ![t] = @ \cup Elements(list)]
    /\ heap' = IF order = "none" THEN heap ELSE Link(heap, list)
    /\ chan' = [chan EXCEPT ![In(t)] = Append(@, list[1])]
    /\ UNCHANGED <<order, closed, hand, merger, splice, exported, finished>>

\* ExportPipeline.shutdown
Shutdown ==
    /\ closed = {}
    /\ closed' = {In(t) : t \in Tables}
    /\ UNCHANGED <<order, heap, produced, chan, hand, merger, splice, exported, finished>>

\* A worker sends the list in its hand, as soon as there is room for it.
Send(g) ==
    /\ hand[g] # Nil /\ Room(Output(g))
    /\ chan' = [chan EXCEPT ![Output(g)] = Append(@, hand[g])]
    /\ hand' = [hand EXCEPT ![g] = Nil]
    /\ UNCHANGED <<order, heap, produced, closed, merger, splice, exported, finished>>

--------------------------------------------------------------------------------
(* sortWorker                                                                *)

\* Mutant: what came in is sent on after merging, too.
SortBatchSendsFirst(s) ==
    LET list   == Chain(heap.next, Head(chan[SortInput(s)]))
        heads  == findNaturalSublists[list]
        merged == IF Len(heads) = 1 THEN heads[1] ELSE MergeAll(heads)
    IN  /\ order = "expiry" /\ hand[s] = Nil /\ Ready(SortInput(s))
        /\ chan' = Received(SortInput(s))
        /\ heap' = Link(heap, merged)
        /\ hand' = [hand EXCEPT ![s] = list[1]]
        /\ UNCHANGED <<order, produced, closed, merger, splice, exported, finished>>

\* With a single sublist the element that came in is sent on, whatever its place in
\* the sublist is by now.
SortBatch(s) ==
    LET list   == Chain(heap.next, Head(chan[SortInput(s)]))
        heads  == findNaturalSublists[list]
        merged == MergeAll(heads)
    IN  /\ order = "expiry" /\ hand[s] = Nil /\ Ready(SortInput(s))
        /\ chan' = Received(SortInput(s))
        /\ IF Len(heads) = 1
           THEN /\ heap' = [heap EXCEPT !.next = LinkNext(@, heads[1])]
                /\ hand' = [hand EXCEPT ![s] = list[1]]
           ELSE /\ heap' = Link(heap, merged)
                /\ hand' = [hand EXCEPT ![s] = merged[1]]
        /\ UNCHANGED <<order, produced, closed, merger, splice, exported, finished>>

CloseOutput(g) ==
    /\ Output(g) \notin closed
    /\ closed' = closed \cup {Output(g)}
    /\ UNCHANGED <<order, heap, produced, chan, hand, merger, splice, exported, finished>>

SortDone(s) == order = "expiry" /\ hand[s] = Nil /\ Ended(SortInput(s)) /\ CloseOutput(s)

--------------------------------------------------------------------------------
(* mergeTreeWorker.  m is the state of a worker and h the heap; together they *)
(* are a record s with fields head, tail, next and prev.                      *)

With(w) == [head |-> merger[w].head, tail |-> merger[w].tail,
            next |-> heap.next, prev |-> heap.prev]

\* Mutant: the tail is cached for the first list only.
AppendToKeepsTail(s, q, elem) ==
    [s EXCEPT !.head[q] = IF s.tail[q] = Nil THEN elem ELSE @,
              !.tail[q] = IF @ = Nil THEN s.prev[elem] ELSE @,
              !.next = IF s.tail[q] = Nil THEN @ ELSE [@ EXCEPT ![s.tail[q]] = elem]]

\* mergeTreeQueues.append
AppendTo(s, q, elem) ==
    [s EXCEPT !.head[q] = IF s.tail[q] = Nil THEN elem ELSE @,
              !.tail[q] = s.prev[elem],
              !.next = IF s.tail[q] = Nil THEN @ ELSE [@ EXCEPT ![s.tail[q]] = elem]]

\* mergeTreeQueues.mergeOne; queue 2 is the output.
MergeOne(s) ==
    LET q     == IF s.head[0] < s.head[1] THEN 0 ELSE 1
        elem  == s.head[q]
        first == s.head[2] = Nil
    IN  [head |-> [s.head EXCEPT ![q] = s.next[elem], ![2] = IF first THEN elem ELSE @],
         tail |-> [s.tail EXCEPT ![2] = elem],
         next |-> [e \in Records |-> IF e = elem THEN Nil
                                     ELSE IF ~first /\ e = s.tail[2] THEN elem
                                     ELSE s.next[e]],
         prev |-> IF first THEN [s.prev EXCEPT ![elem] = elem]
                  ELSE [s.prev EXCEPT ![elem] = Nil, ![s.head[2]] = elem]]

\* hasHead for n = 0, hasTwoElements for n = 1
HasMoreThan(s, q, n) ==
    /\ s.head[q] # Nil
    /\ n = 1 => s.next[s.head[q]] # Nil

MergeState == [head : [0 .. 2 -> Pointer], tail : [0 .. 2 -> Pointer],
               next : [Records -> Pointer], prev : [Records -> Pointer]]

\* The merge loops: merge while queue q holds more than keep[q] elements, for both.
MergeBody(keep) ==
    [s \in MergeState |->
        IF \A q \in 0 .. 1 : HasMoreThan(s, q, keep[q]) THEN MergeOne(s) ELSE s]
MergeDownTo(s, keep) == Repeat(MergeBody(keep), s, NumRecords)

\* Worker w goes on at pc with state s, having published queue 2.
Publish(w, s, pc) ==
    /\ heap' = [next |-> s.next, prev |-> s.prev]
    /\ hand' = [hand EXCEPT ![w] = s.head[2]]
    /\ merger' = [merger EXCEPT ![w].pc = pc, ![w].head = [s.head EXCEPT ![2] = Nil],
                                ![w].tail = IF s.head[2] = Nil THEN s.tail
                                            ELSE [s.tail EXCEPT ![2] = Nil]]

At(w, places) == order # "none" /\ hand[w] = Nil /\ merger[w].pc \in places

\* A list from one of the inputs.  Merging starts once there is one from each.
Gather(w, k) ==
    LET c == MergeInput(w, k)
        s == AppendTo(With(w), k, Head(chan[c]))
    IN  /\ At(w, {"initial", "poll", "fetch"}) /\ Ready(c)
        /\ chan' = Received(c)
        /\ Publish(w, s, IF merger[w].pc = "initial" /\ (\E q \in 0 .. 1 : s.head[q] = Nil) THEN "initial" ELSE "poll")
        /\ UNCHANGED <<order, produced, closed, splice, exported, finished>>

InputEnds(w, k) ==
    /\ At(w, {"initial", "poll", "fetch"}) /\ Ended(MergeInput(w, k))
    /\ merger' = [merger EXCEPT ![w].pc = "partial", ![w].stopped = k]
    /\ UNCHANGED <<order, heap, produced, chan, closed, hand, splice, exported, finished>>

\* Mutant: merges until one of the queues is empty.
MergeToEnd(w) ==
    /\ At(w, {"poll"})
    /\ \A k \in 0 .. 1 : ~Ready(MergeInput(w, k)) /\ ~Ended(MergeInput(w, k))
    /\ Publish(w, MergeDownTo(With(w), [q \in 0 .. 1 |-> 0]), "fetch")
    /\ UNCHANGED <<order, produced, chan, closed, splice, exported, finished>>

\* Nothing to poll: merge what can be merged and publish it.
Merge(w) ==
    /\ At(w, {"poll"})
    /\ \A k \in 0 .. 1 : ~Ready(MergeInput(w, k)) /\ ~Ended(MergeInput(w, k))
    /\ Publish(w, MergeDownTo(With(w), [q \in 0 .. 1 |-> 1]), "fetch")
    /\ UNCHANGED <<order, produced, chan, closed, splice, exported, finished>>

Stopped(w) == merger[w].stopped
Remaining(w) == 1 - merger[w].stopped

\* PARTIAL: one input has ended.
Partial(w) ==
    LET s == MergeDownTo(With(w), [q \in 0 .. 1 |-> IF q = Stopped(w) THEN 0 ELSE 1])
    IN  /\ At(w, {"partial"})
        /\ Publish(w, s, IF s.head[Stopped(w)] = Nil THEN "flush"
                         ELSE IF merger[w].ok THEN "more" ELSE "last")
        /\ UNCHANGED <<order, produced, chan, closed, splice, exported, finished>>

More(w) ==
    LET c == MergeInput(w, Remaining(w))
        m == [merger EXCEPT ![w].pc = "partial", ![w].ok = FALSE]
    IN  /\ At(w, {"more"})
        /\ \/ /\ Ready(c)
              /\ chan' = Received(c)
              /\ Publish(w, AppendTo(With(w), Remaining(w), Head(chan[c])), "partial")
           \/ /\ Ended(c)
              /\ merger' = m
              /\ UNCHANGED <<heap, chan, hand>>
        /\ UNCHANGED <<order, produced, closed, splice, exported, finished>>

\* Both inputs have ended: merge to the end of one, append the rest of the other.
Last(w) ==
    LET s    == MergeDownTo(With(w), [q \in 0 .. 1 |-> 0])
        rest == IF s.head[0] # Nil THEN s.head[0] ELSE s.head[1]
    IN  /\ At(w, {"last"})
        /\ Publish(w, [AppendTo(s, 2, rest) EXCEPT !.head[0] = Nil, !.head[1] = Nil], "close")
        /\ UNCHANGED <<order, produced, chan, closed, splice, exported, finished>>

\* FLUSH: the ended input is used up; send the rest of the other and pass on what
\* still comes.
Flush(w) ==
    LET s == With(w)
        q == Remaining(w)
    IN  /\ At(w, {"flush"})
        /\ heap' = IF s.head[q] = Nil THEN heap ELSE [heap EXCEPT !.prev[s.head[q]] = s.tail[q]]
        /\ hand' = [hand EXCEPT ![w] = s.head[q]]
        /\ merger' = [merger EXCEPT ![w].pc = "forward", ![w].head = Idle.head,
                                    ![w].tail = Idle.tail]
        /\ UNCHANGED <<order, produced, chan, closed, splice, exported, finished>>

Forward(w) ==
    LET c == MergeInput(w, Remaining(w))
    IN  /\ At(w, {"forward"}) /\ Ready(c)
        /\ chan' = Received(c)
        /\ hand' = [hand EXCEPT ![w] = Head(chan[c])]
        /\ UNCHANGED <<order, heap, produced, closed, merger, splice, exported, finished>>

\* Mutant: only the worker that forwards closes its output.
MergeDoneForwarding(w) ==
    /\ At(w, {"forward"}) /\ Ended(MergeInput(w, Remaining(w)))
    /\ CloseOutput(w)

MergeDone(w) ==
    /\ \/ At(w, {"close"})
       \/ At(w, {"forward"}) /\ Ended(MergeInput(w, Remaining(w)))
    /\ CloseOutput(w)

MergeStep(w) ==
    \/ \E k \in 0 .. 1 : Gather(w, k) \/ InputEnds(w, k)
    \/ Merge(w) \/ Partial(w) \/ More(w) \/ Last(w) \/ Flush(w) \/ Forward(w) \/ MergeDone(w)

--------------------------------------------------------------------------------
(* exportSplicer and exporterWorker                                          *)

SpliceReceive ==
    /\ splice.list = Nil /\ Ready(SortedQueue)
    /\ chan' = Received(SortedQueue)
    /\ splice' = [splice EXCEPT !.list = Head(chan[SortedQueue])]
    /\ UNCHANGED <<order, heap, produced, closed, hand, merger, exported, finished>>

SpliceSend ==
    /\ splice.list # Nil /\ Room(Out(splice.to))
    /\ chan' = [chan EXCEPT ![Out(splice.to)] = Append(@, splice.list)]
    /\ splice' = IF splice.to = NumExporters THEN [list |-> Nil, to |-> 1]
                 ELSE [splice EXCEPT !.to = @ + 1]
    /\ UNCHANGED <<order, heap, produced, closed, hand, merger, exported, finished>>

SpliceDone ==
    /\ splice.list = Nil /\ Ended(SortedQueue) /\ Out(1) \notin closed
    /\ closed' = closed \cup {Out(e) : e \in Exporters}
    /\ UNCHANGED <<order, heap, produced, chan, hand, merger, splice, exported, finished>>

ExportList(e) ==
    /\ Ready(Out(e))
    /\ chan' = Received(Out(e))
    /\ exported' = [exported EXCEPT ![e] = @ \o Chain(heap.next, Head(chan[Out(e)]))]
    /\ UNCHANGED <<order, heap, produced, closed, hand, merger, splice, finished>>

ExporterDone(e) ==
    /\ Ended(Out(e)) /\ e \notin finished
    /\ finished' = finished \cup {e}
    /\ UNCHANGED <<order, heap, produced, chan, closed, hand, merger, splice, exported>>

Goroutines ==
    \/ \E g \in Mergers \cup Sorters : Send(g)
    \/ \E s \in Sorters : SortBatch(s) \/ SortDone(s)
    \/ \E w \in Mergers : MergeStep(w)
    \/ SpliceReceive \/ SpliceSend \/ SpliceDone
    \/ \E e \in Exporters : ExportList(e) \/ ExporterDone(e)

Next ==
    \/ \E t \in Tables, list \in Batches[order] : Export(t, list)
    \/ Shutdown
    \/ Goroutines

Spec == Init /\ [][Next]_vars /\ WF_vars(Goroutines)

--------------------------------------------------------------------------------
(* Properties.                                                               *)

Produced == UNION {produced[t] : t \in Tables}

\* The heads of all lists that exporter e has yet to see.
HeadsFor(e) ==
    LET inChannel(c) == Elements(chan[c])
        upstream == UNION {inChannel(c) : c \in Channels \ {Out(x) : x \in Exporters}}
        held == {hand[g] : g \in Mergers \cup Sorters}
                \cup UNION {{merger[w].head[q] : q \in 0 .. 2} : w \in Mergers}
        spliced == IF splice.to <= e THEN {splice.list} ELSE {}
    IN  (upstream \cup held \cup spliced \cup inChannel(Out(e))) \ {Nil}

\* Every record that was exported is at one place on its way to each exporter, or got
\* there: relinking lists that others have made neither loses a record nor joins two
\* lists.
EachRecordOnce ==
    \A e \in Exporters :
        LET heads == HeadsFor(e)
            list(h) == Elements(Chain(heap.next, h))
        IN  /\ (UNION {list(h) : h \in heads}) \cup Elements(exported[e]) = Produced
            /\ \A g, h \in heads : g # h => list(g) \cap list(h) = {}
            /\ \A h \in heads : list(h) \cap Elements(exported[e]) = {}
            /\ Len(exported[e]) = Cardinality(Elements(exported[e]))

\* Records come out in sort order, over all tables and batches, if every table sends its
\* batches in that order: nothing is sorted across the batches of a table.
OutputOrdered ==
    order \in Steady \ {"none"} => \A e \in Exporters :
        \A i, j \in 1 .. Len(exported[e]) : i < j => exported[e][i] < exported[e][j]

\* While more may come for a queue of a merge worker, the tail it remembers is the end
\* of the list it holds: what comes next is linked there.
TailsCached ==
    \A w \in Mergers, k \in 0 .. 1 :
        LET list == Chain(heap.next, merger[w].head[k])
        IN  /\ merger[w].pc \notin {"flush", "forward", "close"}
            /\ Ready(MergeInput(w, k)) /\ list # <<>>
            => merger[w].tail[k] = list[Len(list)]

\* Once the tables are done, every exporter gets to its end (Flush returns).
FlushReturns == closed # {} ~> finished = Exporters
===============================================================================
