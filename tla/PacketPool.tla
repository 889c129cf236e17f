------------------------------- MODULE PacketPool -------------------------------
(*****************************************************************************)
(* Packet buffers on their way through the engine (packet/multibuffer.go,    *)
(* packet/source.go, packet/table.go).                                       *)
(*                                                                           *)
(*   pool -> reader (Engine.Run) -> todecode -> decoder -> ring of a table   *)
(*        -> table, and back to the pool from every stage                    *)
(*                                                                           *)
(* The pool has no lock on its fast path: whoever is done with a buffer      *)
(* clears its inUse and adds to numFree afterwards, the reader looks for     *)
(* buffers with inUse clear and subtracts afterwards, and waits on a         *)
(* condition variable whose lock the others do not take.                     *)
(*                                                                           *)
(* Batches (shallowMultiPacketBuffer) are sequences of buffers; what the     *)
(* rings keep of empty ones is their number.  A packet is its number.        *)
(*****************************************************************************)
EXTENDS Integers, FiniteSets, Sequences, Selections

CONSTANT Sizes  \* the sizes and bounds of the instances

SizeType ==
    [batch : Nat \ {0},    \* batchSize (1000), the size of a batch and of an allocation
     ring : Nat \ {0},     \* fullBuffers (5)
     low : Nat, high : Nat, free : Nat, release : Nat,  \* marks
     tables : Nat \ {0},
     autoGC : BOOLEAN,     \* the decoder does not wait for expiries
     buffers : Nat,        \* bound: buffers that exist at a time
     packets : Nat,        \* bound: packets the source has
     timeouts : Nat,       \* bound: timeouts of the source
     expires : Nat,        \* bound: batches that come with an expiry
     copies : Nat]         \* bound: copies that features hold at a time

ASSUME SizesAssumption ==
    Sizes \subseteq SizeType /\ \A s \in Sizes : s.free >= s.batch

VARIABLE size  \* the instance, fixed from the start

BatchSize == size.batch
NumTables == size.tables
Buffer == 1 .. size.buffers
Tables == 1 .. NumTables
Decoder == 0
Workers == Decoder .. NumTables

VARIABLES
    list,      \* mpb.buffers
    inUse,     \* the buffers whose inUse is set
    numFree,
    content,   \* packet in a buffer
    refcnt,
    reader,    \* place, current batch with its rindex, and locals of Pop and starved
    idle,      \* Engine.full: fetches in a row with more than size.free free
    ring,      \* ring 0 is todecode, ring t feeds table t
    worker,    \* the decoder (0) and the goroutines of the tables
    held,      \* buffers that features of a table hold a copy of
    expiring,  \* expirewg
    source,    \* packets, timeouts and expiries so far
    handled,   \* packets each table has handled, in order
    dropped    \* packets that were not decoded or have no key

pool == <<list, inUse, numFree, refcnt>>
log == <<handled, dropped>>
vars == <<list, inUse, numFree, content, refcnt, reader, idle, ring, worker, held, expiring,
          source, handled, dropped, size>>

NoBatch == [bufs |-> <<>>, expire |-> FALSE]

Init ==
    /\ size \in Sizes
    /\ list = <<>> /\ inUse = {} /\ numFree = 0
    /\ content = [b \in Buffer |-> 0] /\ refcnt = [b \in Buffer |-> 0]
    /\ reader = [pc |-> "read", cur |-> <<>>, rindex |-> 0, at |-> 0, num |-> 0,
                 alloc |-> FALSE, stop |-> FALSE]
    /\ idle = 0
    /\ ring = [r \in Workers |-> [full |-> <<>>, count |-> 0, closed |-> FALSE,
                                  empty |-> IF r = Decoder THEN size.ring - 1 ELSE size.ring]]
    /\ worker = [w \in Workers |-> [pc |-> "idle", batch |-> NoBatch, rindex |-> 0,
                                    discard |-> {}, free |-> 0]]
    /\ held = [t \in Tables |-> {}]
    /\ expiring = 0
    /\ source = [packets |-> 0, timeouts |-> 0, expires |-> 0]
    /\ handled = [t \in Tables |-> <<>>] /\ dropped = {}

\* finalize: rings are as deep as there are batches, so the send does not block.
Filled(r, batch) == [r EXCEPT !.full = Append(@, batch), !.count = @ + 1]

--------------------------------------------------------------------------------
(* Engine.Run and Engine.Finish                                              *)

Reading(pc) == reader.pc = pc
GoTo(pc) == reader' = [reader EXCEPT !.pc = pc]

\* A packet that passes the filters.
ReadPacket ==
    /\ Reading("read") /\ source.packets < size.packets
    /\ source' = [source EXCEPT !.packets = @ + 1]
    /\ GoTo(IF reader.cur = <<>> THEN "pop" ELSE "assign")
    /\ UNCHANGED <<pool, content, idle, ring, worker, held, expiring, log, size>>

\* The packet goes to the next buffer of the current batch; a full batch is sent on.
Assign ==
    /\ Reading("assign") /\ reader.rindex < Len(reader.cur)
    /\ LET b == reader.cur[reader.rindex + 1]
           full == reader.rindex + 1 = Len(reader.cur)
       IN  /\ content' = [content EXCEPT ![b] = source.packets]
           /\ refcnt' = [refcnt EXCEPT ![b] = 1]
           /\ ring' = IF full THEN [ring EXCEPT ![Decoder] = Filled(@, [NoBatch EXCEPT !.bufs = reader.cur])]
                      ELSE ring
           /\ reader' = IF full THEN [reader EXCEPT !.pc = "next", !.cur = <<>>, !.rindex = 0]
                         ELSE [reader EXCEPT !.pc = "read", !.rindex = @ + 1]
    /\ UNCHANGED <<list, inUse, numFree, idle, worker, held, expiring, source, log, size>>

\* todecode.popEmpty
NextBatch ==
    /\ Reading("next") /\ ring[Decoder].empty > 0
    /\ ring' = [ring EXCEPT ![Decoder].empty = @ - 1]
    /\ GoTo("read")
    /\ UNCHANGED <<pool, content, idle, worker, held, expiring, source, log, size>>

\* Mutant: the batch is sent on with the buffers that were not written.
FinalizeAll(pc) ==
    LET unread == {reader.cur[i] : i \in reader.rindex + 1 .. Len(reader.cur)}
    IN  /\ inUse' = inUse \ unread
        /\ numFree' = numFree + Cardinality(unread)
        /\ ring' = [ring EXCEPT ![Decoder] = Filled(@, [NoBatch EXCEPT !.bufs = reader.cur])]
        /\ reader' = [reader EXCEPT !.pc = pc, !.cur = <<>>, !.rindex = 0]
        /\ UNCHANGED <<list, refcnt, content, idle, worker, held, expiring, log, size>>

\* finalizeWritten: what is left of the current batch is recycled, and the rest sent on.
FinalizeWritten(pc) ==
    LET unread == {reader.cur[i] : i \in reader.rindex + 1 .. Len(reader.cur)}
        back == {b \in unread : refcnt[b] <= 1}
    IN  /\ inUse' = inUse \ back
        /\ numFree' = numFree + Cardinality(back)
        /\ refcnt' = [b \in Buffer |-> IF b \in unread /\ refcnt[b] > 0 THEN refcnt[b] - 1
                                       ELSE refcnt[b]]
        /\ ring' = [ring EXCEPT ![Decoder] =
                        Filled(@, [NoBatch EXCEPT !.bufs = SubSeq(reader.cur, 1, reader.rindex)])]
        /\ reader' = [reader EXCEPT !.pc = pc, !.cur = <<>>, !.rindex = 0]
        /\ UNCHANGED <<list, content, idle, worker, held, expiring, log, size>>

Timeout ==
    /\ Reading("read") /\ source.timeouts < size.timeouts
    /\ source' = [source EXCEPT !.timeouts = @ + 1]
    /\ FinalizeWritten("next")

\* The source has ended, or was stopped: Finish.
SourceEnds ==
    /\ Reading("read")
    /\ IF reader.cur # <<>> THEN FinalizeWritten("close") /\ UNCHANGED source
       ELSE GoTo("close") /\ UNCHANGED <<pool, content, idle, ring, worker, held, expiring, source, log,
                                      size>>

CloseRings(r) ==
    /\ ring' = [x \in Workers |-> IF x \in r THEN [ring[x] EXCEPT !.closed = TRUE] ELSE ring[x]]
    /\ UNCHANGED <<pool, content, idle, worker, held, expiring, source, log, size>>

CloseDecode == Reading("close") /\ CloseRings({Decoder}) /\ GoTo("join")

\* Mutant: the ring of one table is closed.
FlushFirst ==
    Reading("join") /\ worker[Decoder].pc = "done" /\ CloseRings({1}) /\ GoTo("flush")
FlushTables ==
    Reading("join") /\ worker[Decoder].pc = "done" /\ CloseRings(Tables) /\ GoTo("flush")

\* EventTable.EOF, once all batches have been handled.
EOF ==
    /\ Reading("flush") /\ \A t \in Tables : worker[t].pc = "done"
    /\ worker' = [w \in Workers |-> IF w = Decoder THEN worker[w] ELSE [worker[w] EXCEPT !.pc = "eof"]]
    /\ GoTo("eof")
    /\ UNCHANGED <<pool, content, idle, ring, held, expiring, source, log, size>>

Finished ==
    /\ Reading("eof") /\ \A t \in Tables : worker[t].pc = "end"
    /\ GoTo("finished")
    /\ UNCHANGED <<pool, content, idle, ring, worker, held, expiring, source, log, size>>

--------------------------------------------------------------------------------
(* multiPacketBuffer.Pop with Engine.starved and Engine.ok                   *)

\* Mutant: one buffer less will do.
PopShort ==
    /\ Reading("pop")
    /\ reader' = [reader EXCEPT !.pc = IF numFree < BatchSize - 1 THEN "starved" ELSE "scan",
                                !.at = 0, !.num = 0, !.alloc = FALSE, !.stop = FALSE]
    /\ UNCHANGED <<pool, content, idle, ring, worker, held, expiring, source, log, size>>

Pop ==
    /\ Reading("pop")
    /\ reader' = [reader EXCEPT !.pc = IF numFree < BatchSize THEN "starved" ELSE "scan",
                                !.at = 0, !.num = 0, !.alloc = FALSE, !.stop = FALSE]
    /\ UNCHANGED <<pool, content, idle, ring, worker, held, expiring, source, log, size>>

\* starved reads the rings one after the other.
Usage ==
    /\ Reading("starved") /\ reader.at <= NumTables
    /\ reader' = [reader EXCEPT !.at = @ + 1, !.alloc = @ \/ ring[reader.at].count < size.low,
                                !.stop = @ \/ ring[reader.at].count > size.high]
    /\ UNCHANGED <<pool, content, idle, ring, worker, held, expiring, source, log, size>>

Unallocated == Buffer \ Elements(list)
Fresh == CHOOSE s \in [1 .. BatchSize -> Unallocated] :
            \A i, j \in 1 .. BatchSize : s[i] = s[j] => i = j

Starved ==
    /\ Reading("starved") /\ reader.at = NumTables + 1
    /\ IF reader.alloc /\ ~reader.stop
       THEN /\ Cardinality(Unallocated) >= BatchSize
            /\ list' = list \o Fresh
            /\ numFree' = numFree + BatchSize
       ELSE UNCHANGED <<list, numFree>>
    /\ GoTo("recheck")
    /\ UNCHANGED <<inUse, refcnt, content, idle, ring, worker, held, expiring, source, log, size>>

Recheck ==
    /\ Reading("recheck")
    /\ GoTo(IF numFree < BatchSize THEN "wait" ELSE "pop")
    /\ UNCHANGED <<pool, content, idle, ring, worker, held, expiring, source, log, size>>

\* cond.Wait: from here on a signal is noticed.
Wait ==
    /\ Reading("wait")
    /\ GoTo("waiting")
    /\ UNCHANGED <<pool, content, idle, ring, worker, held, expiring, source, log, size>>

\* One buffer of the pool, in use or pushed to the batch.
Scan ==
    /\ Reading("scan")
    /\ LET i == reader.at + 1
       IN  IF i > Len(list) \/ (list[i] \notin inUse /\ Len(reader.cur) = BatchSize)
           THEN GoTo("popped") /\ UNCHANGED inUse
           ELSE IF list[i] \in inUse THEN reader' = [reader EXCEPT !.at = i] /\ UNCHANGED inUse
           ELSE /\ reader' = [reader EXCEPT !.at = i, !.cur = Append(@, list[i]), !.num = @ + 1]
                /\ inUse' = inUse \cup {list[i]}
    /\ UNCHANGED <<list, numFree, refcnt, content, idle, ring, worker, held, expiring, source, log, size>>

\* release: the first BatchSize buffers that are not in use leave the pool.
Unused == {i \in 1 .. Len(list) : list[i] \notin inUse}
Released == {list[i] : i \in {j \in Unused : Cardinality({k \in Unused : k <= j}) <= BatchSize}}

\* The end of Pop, and ok.
Popped ==
    /\ Reading("popped")
    /\ LET have == numFree - reader.num
           streak == IF have > size.free THEN idle + 1 ELSE 0
       IN  IF streak > size.release
           THEN /\ list' = Only(list, Elements(list) \ Released)
                /\ numFree' = have - Cardinality(Released)
                /\ idle' = 0
           ELSE numFree' = have /\ idle' = streak /\ UNCHANGED list
    /\ GoTo("assign")
    /\ UNCHANGED <<inUse, refcnt, content, ring, worker, held, expiring, source, log, size>>

--------------------------------------------------------------------------------
(* Returning buffers.                                                        *)

\* Mutant: copies are forgotten.
GiveUpAll(w, S, next) ==
    /\ refcnt' = [b \in Buffer |-> IF b \in S THEN refcnt[b] - 1 ELSE refcnt[b]]
    /\ inUse' = inUse \ S
    /\ worker' = [worker EXCEPT ![w] = [next EXCEPT !.free = Cardinality(S)]]
    /\ UNCHANGED <<list, numFree>>

\* Worker w gives up its reference to the buffers of S: inUse is cleared where it was the
\* last one.  The worker goes on with Free.
GiveUp(w, S, next) ==
    LET back == {b \in S : refcnt[b] <= 1}
    IN  /\ refcnt' = [b \in Buffer |-> IF b \in S THEN refcnt[b] - 1 ELSE refcnt[b]]
        /\ inUse' = inUse \ back
        /\ worker' = [worker EXCEPT ![w] = [next EXCEPT !.free = Cardinality(back)]]
        /\ UNCHANGED <<list, numFree>>

\* mpb.free
Free(num) ==
    /\ numFree' = numFree + num
    /\ reader' = IF numFree + num > BatchSize /\ reader.pc = "waiting"
                 THEN [reader EXCEPT !.pc = "pop"] ELSE reader

At(w, pc) == worker[w].pc = pc
Goes(w, pc) == worker' = [worker EXCEPT ![w].pc = pc]

\* A batch is taken from a ring; the ring's count follows in a step of its own.
Receive(w) ==
    /\ At(w, "idle") /\ ring[w].full # <<>>
    /\ worker' = [worker EXCEPT ![w].pc = "got", ![w].batch = Head(ring[w].full), ![w].rindex = 0]
    /\ ring' = [ring EXCEPT ![w].full = Tail(@)]
    /\ UNCHANGED <<pool, content, reader, idle, held, expiring, source, log, size>>

RingClosed(w) ==
    /\ At(w, "idle") /\ ring[w].full = <<>> /\ ring[w].closed
    /\ Goes(w, "done")
    /\ UNCHANGED <<pool, content, reader, idle, ring, held, expiring, source, log, size>>

--------------------------------------------------------------------------------
(* The decoder, with the event method of the tables                          *)

\* Any of the packets may fail to decode or have no key.
Decode ==
    /\ At(Decoder, "got")
    /\ \E discard \in SUBSET Elements(worker[Decoder].batch.bufs) :
        /\ worker' = [worker EXCEPT ![Decoder].pc = "event", ![Decoder].discard = discard,
                        ![Decoder].batch.bufs = Only(@, Elements(@) \ discard)]
        /\ dropped' = dropped \cup {content[b] : b \in discard}
    /\ ring' = [ring EXCEPT ![Decoder].count = @ - 1, ![Decoder].empty = @ + 1]
    /\ UNCHANGED <<pool, content, reader, idle, held, expiring, source, handled, size>>

Forward == worker[Decoder].batch.bufs

\* Only parallelFlowTable waits for the expiry of its tables, and not with autoGC.
WaitsForExpiry == NumTables > 1 /\ ~size.autoGC

\* Nothing to forward and no expiry is due.
EventEmpty ==
    /\ At(Decoder, "event") /\ Forward = <<>>
    /\ Goes(Decoder, "discard")
    /\ UNCHANGED <<pool, content, reader, idle, ring, held, expiring, source, log, size>>

\* Every table gets a batch with its share of the packets.
Event ==
    /\ At(Decoder, "event")
    /\ \A t \in Tables : ring[t].empty > 0
    /\ \E expire \in BOOLEAN, to \in [Elements(Forward) -> Tables] :
        /\ Forward # <<>> \/ expire
        /\ expire => source.expires < size.expires
        /\ ring' = [r \in Workers |->
                        IF r = Decoder THEN ring[r]
                        ELSE [Filled(ring[r], [bufs |-> Only(Forward, {b \in Elements(Forward) : to[b] = r}),
                                               expire |-> expire]) EXCEPT !.empty = @ - 1]]
        /\ source' = IF expire THEN [source EXCEPT !.expires = @ + 1] ELSE source
        /\ expiring' = IF expire /\ NumTables > 1 THEN expiring + NumTables ELSE expiring
        /\ worker' = [worker EXCEPT ![Decoder].batch = NoBatch,
                            ![Decoder].pc = IF expire /\ WaitsForExpiry THEN "expiry" ELSE "discard"]
    /\ UNCHANGED <<pool, content, reader, idle, held, log, size>>

\* expirewg.Wait of the parallel tables.
ExpiryOver ==
    /\ At(Decoder, "expiry") /\ expiring = 0
    /\ Goes(Decoder, "discard")
    /\ UNCHANGED <<pool, content, reader, idle, ring, held, expiring, source, log, size>>

Discard ==
    /\ At(Decoder, "discard")
    /\ IF worker[Decoder].discard = {}
       THEN Goes(Decoder, "idle") /\ UNCHANGED pool
       ELSE GiveUp(Decoder, worker[Decoder].discard,
                   [worker[Decoder] EXCEPT !.pc = "free", !.discard = {}, !.batch = NoBatch])
    /\ UNCHANGED <<content, reader, idle, ring, held, expiring, source, log, size>>

\* Mutant: discarded buffers are not counted.
DiscardUncounted ==
    /\ At(Decoder, "free")
    /\ worker' = [worker EXCEPT ![Decoder].pc = "idle", ![Decoder].free = 0]
    /\ UNCHANGED <<pool, content, reader, idle, ring, held, expiring, source, log, size>>

DiscardFree ==
    /\ At(Decoder, "free")
    /\ Free(worker[Decoder].free)
    /\ worker' = [worker EXCEPT ![Decoder].pc = "idle", ![Decoder].free = 0]
    /\ UNCHANGED <<list, inUse, refcnt, content, idle, ring, held, expiring, source, log, size>>

--------------------------------------------------------------------------------
(* The goroutine of a table                                                  *)

Start(t) ==
    /\ At(t, "got")
    /\ ring' = [ring EXCEPT ![t].count = @ - 1]
    /\ Goes(t, "events")
    /\ UNCHANGED <<pool, content, reader, idle, held, expiring, source, log, size>>

\* A packet is handled.  Features may keep a copy of it, which adds a reference.
HandlePacket(t) ==
    /\ At(t, "events") /\ worker[t].rindex < Len(worker[t].batch.bufs)
    /\ LET b == worker[t].batch.bufs[worker[t].rindex + 1]
       IN  /\ handled' = [handled EXCEPT ![t] = Append(@, content[b])]
           /\ \/ UNCHANGED <<refcnt, held>>
              \/ /\ Cardinality(UNION {held[x] : x \in Tables}) < size.copies
                 /\ refcnt' = [refcnt EXCEPT ![b] = @ + 1]
                 /\ held' = [held EXCEPT ![t] = @ \cup {b}]
    /\ worker' = [worker EXCEPT ![t].rindex = @ + 1]
    /\ UNCHANGED <<list, inUse, numFree, content, reader, idle, ring, expiring, source, dropped, size>>

\* A feature is done with a copy: Recycle, while a packet is handled or a flow ends.
ReleaseCopy(t) ==
    /\ worker[t].pc \in {"events", "eof"} /\ worker[t].free = 0
    /\ \E b \in held[t] :
        /\ GiveUp(t, {b}, worker[t])
        /\ held' = [held EXCEPT ![t] = @ \ {b}]
    /\ UNCHANGED <<content, reader, idle, ring, expiring, source, log, size>>

CopyFree(t) ==
    /\ worker[t].pc \in {"events", "eof"} /\ worker[t].free > 0
    /\ Free(worker[t].free)
    /\ worker' = [worker EXCEPT ![t].free = 0]
    /\ UNCHANGED <<list, inUse, refcnt, content, idle, ring, held, expiring, source, log, size>>

BatchDone(t) ==
    At(t, "events") /\ worker[t].free = 0 /\ worker[t].rindex = Len(worker[t].batch.bufs)

\* The expiry of the table, if the batch asks for one, is over.
ExpireDone(t) ==
    /\ BatchDone(t) /\ worker[t].batch.expire
    /\ expiring' = IF WaitsForExpiry THEN expiring - 1 ELSE expiring
    /\ worker' = [worker EXCEPT ![t].batch.expire = FALSE]
    /\ UNCHANGED <<pool, content, reader, idle, ring, held, source, log, size>>

\* recycle
RecycleBatch(t) ==
    /\ BatchDone(t) /\ ~worker[t].batch.expire
    /\ GiveUp(t, Elements(worker[t].batch.bufs), [worker[t] EXCEPT !.pc = "free"])
    /\ UNCHANGED <<content, reader, idle, ring, held, expiring, source, log, size>>

BatchFree(t) ==
    /\ At(t, "free")
    /\ IF worker[t].batch.bufs = <<>> THEN UNCHANGED <<numFree, reader>>
       ELSE Free(worker[t].free)
    /\ ring' = [ring EXCEPT ![t].empty = @ + 1]
    /\ worker' = [worker EXCEPT ![t].pc = "idle", ![t].free = 0, ![t].batch = NoBatch,
                                ![t].rindex = 0]
    /\ UNCHANGED <<list, inUse, refcnt, content, idle, held, expiring, source, log, size>>

\* EOF ends all flows, and with them the copies their features hold.
EOFDone(t) ==
    /\ At(t, "eof") /\ held[t] = {} /\ worker[t].free = 0
    /\ Goes(t, "end")
    /\ UNCHANGED <<pool, content, reader, idle, ring, held, expiring, source, log, size>>

--------------------------------------------------------------------------------
Reader ==
    \/ Assign \/ NextBatch \/ CloseDecode \/ FlushTables \/ EOF \/ Finished
    \/ Pop \/ Usage \/ Starved \/ Recheck \/ Wait \/ Scan \/ Popped
Decoding == Decode \/ EventEmpty \/ Event \/ ExpiryOver \/ Discard \/ DiscardFree
TableStep(t) ==
    Start(t) \/ HandlePacket(t) \/ ReleaseCopy(t) \/ CopyFree(t) \/ ExpireDone(t) \/ RecycleBatch(t)
    \/ BatchFree(t) \/ EOFDone(t)
Goroutines ==
    Reader \/ Decoding \/ (\E w \in Workers : Receive(w) \/ RingClosed(w))
    \/ \E t \in Tables : TableStep(t)

Next == ReadPacket \/ Timeout \/ SourceEnds \/ Goroutines

Spec == Init /\ [][Next]_vars /\ WF_vars(Goroutines)

--------------------------------------------------------------------------------
(* Properties.                                                               *)

ReaderPlaces == {"read", "pop", "starved", "recheck", "wait", "waiting", "scan", "popped", "assign",
                 "next", "close", "join", "flush", "eof", "finished"}
WorkerPlaces == {"idle", "got", "event", "expiry", "discard", "events", "free", "done", "eof", "end"}
Batch == [bufs : Seq(Buffer), expire : BOOLEAN]

TypeOK ==
    /\ size \in Sizes
    /\ list \in Seq(Buffer) /\ inUse \subseteq Buffer /\ numFree \in Int
    /\ content \in [Buffer -> 0 .. size.packets] /\ refcnt \in [Buffer -> 0 .. 2]
    /\ reader \in [pc : ReaderPlaces, cur : Seq(Buffer), rindex : 0 .. BatchSize,
                   at : 0 .. size.buffers + 1, num : 0 .. BatchSize, alloc : BOOLEAN, stop : BOOLEAN]
    /\ idle \in 0 .. size.release
    /\ ring \in [Workers -> [full : Seq(Batch), count : 0 .. size.ring, closed : BOOLEAN,
                             empty : 0 .. size.ring]]
    /\ worker \in [Workers -> [pc : WorkerPlaces, batch : Batch, rindex : 0 .. BatchSize,
                               discard : SUBSET Buffer, free : 0 .. BatchSize]]
    /\ held \in [Tables -> SUBSET Buffer]
    /\ expiring \in 0 .. size.expires * NumTables
    /\ source \in [packets : 0 .. size.packets, timeouts : 0 .. size.timeouts, expires : 0 .. size.expires]
    /\ handled \in [Tables -> Seq(1 .. size.packets)] /\ dropped \subseteq 1 .. size.packets

Enqueued == UNION {{<<r, i>> : i \in 1 .. Len(ring[r].full)} : r \in Workers}

\* The buffers at a place: the current batch of the reader, what a worker has to do, and
\* the batches in its ring.
Current == -1
Part(r, i) ==
    IF i > 0 THEN IF r \in Workers /\ i <= Len(ring[r].full) THEN Elements(ring[r].full[i].bufs) ELSE {}
    ELSE IF r = Current THEN Elements(reader.cur)
    ELSE worker[r].discard \cup (IF At(r, "free") THEN {} ELSE Elements(worker[r].batch.bufs))

Owners(b) == {p \in {<<r, 0>> : r \in {Current} \cup Workers} \cup Enqueued : b \in Part(p[1], p[2])}
Copied(b) == \E t \in Tables : b \in held[t]

\* No buffer is used twice or leaks: a buffer that a batch or a feature holds has its inUse
\* set, is in one batch at most and not one the reader may write while a feature holds a
\* copy, and inUse is set for no other.
OwnedOnce ==
    /\ \A b \in Buffer :
        /\ \A p, q \in Owners(b) : p = q
        /\ b \in inUse <=> (Owners(b) # {} \/ Copied(b))
        /\ Copied(b) => b \notin Part(Current, 0)
        /\ b \in inUse => b \in Elements(list)
    /\ worker[Decoder].discard \cap Elements(worker[Decoder].batch.bufs) = {}

Sum(f, n) == LET sum[m \in 0 .. n] == f[m] + (IF m = 0 THEN 0 ELSE sum[m - 1])
             IN  sum[n]
SumOfFree == Sum([w \in Workers |-> worker[w].free], NumTables)

\* numFree counts the buffers that are not in use, up to those that are being given back
\* or fetched, although it is never updated together with inUse.
FreeAccounted ==
    numFree = Cardinality(Elements(list) \ inUse) - SumOfFree
              + (IF reader.pc \in {"scan", "popped"} THEN reader.num ELSE 0)

\* Pop fills the batch: it went on with BatchSize buffers free, and others only add to
\* them.  The reader has a buffer for the packet.
FullBatch ==
    reader.pc \in {"popped", "assign"} =>
        Len(reader.cur) = BatchSize /\ reader.rindex < BatchSize

Assigned == source.packets
    - (IF reader.pc \in {"pop", "starved", "recheck", "wait", "waiting", "scan", "popped", "assign"}
       THEN 1 ELSE 0)
Waiting(batch, from) == {content[batch[i]] : i \in from .. Len(batch)}
UnderWay ==
    {content[reader.cur[i]] : i \in 1 .. reader.rindex}
    \cup (UNION {Waiting(ring[e[1]].full[e[2]].bufs, 1) : e \in Enqueued})
    \cup (UNION {Waiting(worker[w].batch.bufs, worker[w].rindex + 1) : w \in Workers})

\* Every packet is handled by one table or dropped, or still under way; a table handles
\* packets in the order in which they were read.  (A buffer that is written while it is
\* under way loses a packet.)
EveryPacketOnce ==
    LET done == UNION {Elements(handled[t]) : t \in Tables}
    IN  /\ done \cup dropped \cup UnderWay = 1 .. Assigned
        /\ done \cap dropped = {} /\ (done \cup dropped) \cap UnderWay = {}
        /\ \A s, t \in Tables : s # t => Elements(handled[s]) \cap Elements(handled[t]) = {}
        /\ \A t \in Tables : \A i \in 1 .. Len(handled[t]) - 1 : handled[t][i] < handled[t][i + 1]

\* After the source has ended, Finish and EOF return: everything that is enqueued is
\* handled and every copy is given back.
FinishReturns == reader.pc = "close" ~> reader.pc = "finished" /\ inUse = {}

\* With no batch enqueued anywhere new buffers are allocated: the reader does not wait
\* for buffers.
StarvedReaderGoesOn ==
    reader.pc = "waiting" /\ (\A r \in Workers : ring[r].count < size.low)
        ~> reader.pc # "waiting"
================================================================================
