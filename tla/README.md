# TLA+ models of go-flows

go-flows reads packets, sorts them into flows, computes features per flow and
writes one record per flow to exporters.  This directory holds TLA+ modules of
the parts that keep state and interact, TLC configurations that check them on
small instances, and TLAPS proofs for every value of the constants.

Run `tlc -config <cfg> <module>` for a run of section 3 and `tlapm <module>` for a
module of proofs of section 5.

## 1. The system

    sources -> filters -> Engine -> decoder -> table goroutines -> FlowTable
       -> Flow -> records (filter, control, features) -> export list of the table
       -> sort workers -> merge tree -> splicer -> exporters

| Component | State | Operations | Hard part |
|---|---|---|---|
| Packet sources (`packet/sources.go`, `modules/sources`) | current source, stop flags | ReadPacket, Stop (from the signal handler) | Stop during a switch of sources |
| Buffer pool and engine (`packet/multibuffer.go`, `source.go`) | buffers with inUse and a reference count, numFree, rings of batches | Pop, replenish, release, free, recycle; Run, Finish, starved, ok | lock-free counters, waiting for buffers, bounded rings |
| Tables' goroutines (`packet/table.go`) | a ring per table, next expiry, expirewg | event, flush, EOF | expiry between batches, shutdown |
| Flow keys (`packet/key*.go`, `modules/keys`) | time window | Key | packets out of order around a window |
| Flow table (`flows/table.go`) | map, flow list, free list, flags of the running loop, time | Event, Expire, EOF, expireWindow, remove | flows end inside loops over them; slots are reused |
| Flow and timers (`flows/flow.go`, `timer.go`, `packet/flow.go`) | timers, expireNext, TCP end | Event, AddTimer, expire, Export, Stop | several causes end a flow in one step |
| Records (`flows/record.go`, `context.go`) | active, alive, unfinished export record, shared context | Event, Export, Destroy | one context for all records and features |
| Filters of features (`custom/transport.go`: tcpReorder) | held packets of both directions | Start, Event, Stop | wrap-around, duplicates, copies of buffers |
| Export list (`flows/export.go`, part of `table.go`) | ring of unfinished and finished records | insert, unlink, flush | output order without waiting |
| Export pipeline (`flows/exporter.go`) | channels, linked lists shared by goroutines | export, sortWorker, mergeTreeWorker, splicer, shutdown, wait | relinking shared lists, shutdown |
| Labels (`packet/labels.go`, `modules/labels`) | next row | GetLabel | rows and packet numbers drift apart |
| Feature compiler (`flows/ast.go`, `featureregistry.go`) | none after start | AppendRecord: expand, build, lower, simplify, convert | which subtrees may be shared |
| Features (`flows/feature.go`, `features.go`, `modules/features/operations`) | values, counters, flags of multi events | Start, Event, FinishEvent, Stop | order of calls in a graph, state left from an earlier packet or record |
| Packet decoding (`packet/buffer.go`) | the layers of a pooled buffer | assign, decode, lengths | what is left of the packet before |
| Values (`flows/number.go`, `value.go`) | none | conversion, promotion, arithmetic, comparison | widths, signs, units of time, zero |
| Feature library (`modules/features`) | what a feature keeps from packet to packet | Start, Event, Stop of each feature | state of an earlier record, wrap-around, empty records |
| Exporters, command line, build tool | see section 7 | | |

Interaction: the engine and the decoder exchange batches of pooled buffers
through rings; the decoder deals packets to tables by their key; each table
runs in one goroutine, so calls into FlowTable, Flow and records never overlap;
features may keep copies of buffers (tcpReorder does) and give them back later;
tables hand linked lists of export records to the pipeline, whose goroutines
relink and share them.

What makes each of them correct: a buffer has one user at a time and none is
lost; every packet reaches one table once and in order; every flow is alive in
the table or was ended once; no timer is missed; a record holds what its
specification means for the packets of its flow; every exported record is
written once, in the order asked for; and shutdown ends.  PROJECT.json lists the
hazards line by line, with the properties that cover them.

## 2. Modules

| Module | Models | Lines of code it stands for |
|---|---|---|
| `ExportList` | export list of one record of a table | `flows/export.go`, `flows/table.go:152-211` |
| `FlowLife` | abstract: the flows of each key, begun and ended | what `flows/table.go` promises |
| `FlowTable` | flow table, flows, timers, TCP end, records' outcome; uses `ExportList` | `flows/table.go`, `flow.go`, `timer.go`, `record.go`, `packet/flow.go` |
| `FlowTableProofs`, `FlowLifeProofs` | proofs about the two: the table, and the life of flows | |
| `FlowTableOutputProofs` | proofs about the export lists of a table | |
| `NaturalSort` | natural merge sort of a batch | `flows/exporter.go:354-532` |
| `ExportPipeline` | goroutines from the tables to the exporters; uses `NaturalSort` | `flows/exporter.go` |
| `ExportPipelineProofs` | proofs about the two | |
| `Loops` | what a number of passes through a loop makes of a state; used by both | the loops there |
| `PacketPool` | pool, engine, decoder, table goroutines | `packet/multibuffer.go`, `source.go`, `table.go`, `buffer.go` |
| `PacketPoolProofs` | proofs about it: buffers, and the packets in them | |
| `Selections` | the elements that a loop keeps of a list; used by `ExportList`, `PacketPool` and `FlowKeys` | the loops there |
| `SelectionFacts` | what it keeps, least elements and induction over sets of naturals, for the proofs | |
| `FlowKeys` | key features, selectors, keys and directions | `packet/key.go`, `key_registry.go`, `modules/keys` |
| `PacketInput` | sources, Stop, filters, packet numbers, labels, keys; uses `FlowKeys` and `TimeFilter` | `packet/sources.go`, `source.go`, `filters.go`, `labels.go`, `modules/sources/libpcap`, `labels/csv` |
| `TimeFilter` | the filter of packets by time, and what its help says of it; used by `PacketInput` | `modules/filters/time/time.go` |
| `PacketInputProofs` | proofs about `PacketInput` and `FlowKeys` | |
| `PacketDecoder` | assign and decode of a reused buffer, lengths of layers | `packet/buffer.go` |
| `TCPSequence` | sequence numbers | `modules/features/tcp.go` |
| `TCPReorder` | tcpReorder and the record that calls it; uses `TCPSequence` | `modules/features/custom/transport.go` |
| `TCPReorderProofs` | proofs about the two | |
| `FeatureCompiler` | the phases of the compiler as functions on specifications | `flows/ast.go`, `featureregistry.go` |
| `FeatureMeaning` | abstract: what specifications mean | |
| `FeatureGraph` | the features of a record over a flow; uses both | `flows/feature.go`, `features.go`, `record.go`, `modules/features/operations` |
| `Values` | values, their conversion, promotion and arithmetic | `flows/number.go`, `value.go` |
| `TypedSlice` | slices of one type, comparison, selection | `modules/features/typedSlice.go`, `util.go` |
| `PacketFields` | what features read from a single packet | `modules/features/iana`, `nta`, `staging`, `custom` |
| `FeatureLibrary` | the features that keep state; uses the three | `modules/features` |
| `FeatureLibraryMeaning` | abstract: what each feature stands for | descriptions in `RegisterStandardFeature` and friends |
| `MC...` | instances for TLC; `MCLibrary` also feeds inputs to the functions, `MCDescriptions` looks at what the code contradicts | |

### FlowTable

`tab` is the Go struct: `flows` maps a key to a slot of `flowlist` (slots count
from 1, 0 is Go's missing entry, and `Remove` turns a missing key into the first
slot as Go's zero value does), `freelist`, `flowID`, `window`, `eof`, `expiring`.
`when` and `ctx` are the shared context, `exports` the export lists.  A flow has
`timers`, `expireNext` (0 is "none"), `active`, and the TCP state.

Event, Expire and EOF are the three calls a table gets from its goroutine.  Event
is one step, because nothing can interleave with it.  The loops (Expire, EOF,
expireWindow) take one step per element with `loop` as the program counter:
the invariants must hold in their middle, since a flow that ends there calls back
into the table.  `ended`, `twice`, `issued`, `sent` and a flow's `window` are
history and no guard reads them.

A record's features are reduced to what control features can make of an event:
go on, stop, or export.  Times are small numbers that may go back.

`FlowLife` is the sentence the rest of the system relies on: a key has at most one
living flow, a packet goes to the living flow of its key or begins one, flows end
once, and Expire or EOF ends any set of them.  FlowTable implements it
(`ImplementsFlowLife`) with `living[k]` the id of the active flow in the slot
that the table's map has for k.  This says more than that ids are used once:
a table that gave a packet to the flow of another key, forgot a flow when its slot was
reused, or went on with a flow that a timer had ended in the same call would take a
step that FlowLife does not have.

### ExportPipeline

`heap` holds `next` and `prev` of every record, shared by all goroutines as in the
program; channels hold heads of lists.  Each worker's loop is one action per
channel operation or list operation.  `Chain` is the list that begins at a head: the records that one
finds by following `next`.  The tree of merge workers is computed by
`Width` and `Queue` as makeMergeTree does.  A record is its sort key.  Loops that run within
one step are a function for one pass (`MergeBody`, `Scan`, `TakeFirst`, `Round`) given to `Repeat` with
as many passes as suffice; more change nothing.  Equal keys are left to `NaturalSort`.

A table that sorts by start or stop time sends its batches in that order, which
is what `OutputSorted` of FlowTable shows (and `OutputStaysSorted` proves): `Export` has it as a guard for the
orders in `Steady`.  A table that sorts by expiry time does not (section 4), so there
its batches come in any order, and `OutputOrdered` claims nothing: the pipeline sorts within
a batch and across tables, never across the batches of one table.

### PacketPool

`reader` is Engine.Run with Pop and starved inlined, one step per buffer scanned and
per ring read, as none of these holds a lock others take.  `worker[0]` is the
decoder and the others are the table goroutines.  A buffer goes back in two
steps (clear inUse, add to numFree).  Batches carry an expiry when the source
says so: the comparison with nextExpire is replaced by a choice.  Timeouts are
environment steps: no source of the repository returns ErrTimeout, but the
engine handles it.  Features take copies and give them back, all of them at the
latest when their flow stops (`packet/doc.go:21-22`); TCPReorder shows that the
one feature that holds copies does.

### PacketInput, FlowKeys

`pcaps` are the libpcap sources with their files, `sources` the list of them with
`stopped`.  ReadPacket is cut into the steps between which Stop, called from the goroutine
that handles interrupts, can get: read data, look at the flag of the source, look at the
flag of the list, stop the source, replace it.  Stop closes the handle and then sets the
flag, two steps.  What follows a packet that was read is one step (`Accept`), because
one goroutine at a time handles a packet and batches keep the order: count, filter,
decode, label, key.  Counting is split between two places in the code and so here
(`skipped` and `filtered` in the reader, `packets` in the engine).

A key is what the selector writes to its buffer: fields are short sequences of symbols,
ordered as bytes.Compare orders them.  `Selectors` are all selectors that the code may
build, since it ranges over a Go map.  `SameFlow` says what keys are for, without
selectors, order or windows' bookkeeping.

`Matches` (module `TimeFilter`) is the time filter as the code has it, which accepts a packet exactly at one of its
times.  `EveryPacketRead` asks that the packets the filters let pass are read;
`AcceptedAsDescribed` says which ones these should be, which is not so (finding 5).

### TCPReorder

`filter.streams` are the two directions, `filter.out` is what passed the filter,
`filter.copies` counts the references the filter holds per packet.  A call of
Event is one step; `Walk` is the loop of forwardOld with its odd order of
comparisons kept as they are.  `Push` is the result of sort.Stable on a sorted list
with one new element at the end (an insertion sort at these lengths).

### FeatureCompiler, FeatureMeaning, FeatureGraph

A fragment of the abstract syntax tree is a record; what its String tells apart is
compared directly.  (Constants of different numeric types can print alike, `ast.go:389-391`, and would be taken
for each other; the instances have none.)  `Registry` and `Composites` list the features that the
instances use, with signature and order of registration as in the library; one of
each way to keep state is there (a value per packet, a sum, a place, a minimum, a
value at Start, operations of two and more arguments, selections).  `Compile`
gives registers, arguments, and whom to call.

`cell` holds the fields of all features.  Event is one step: a packet goes to the
features of `program.event`, each value to its users depth first, and then
FinishEvent takes the same ways.  `ReactAs` is the Event of each feature, `AtStop`
its Stop, `Fresh` its Start, `CheckAll` the four multi events.  No control feature is
registered, so what they may ask for (`Asked`, Stop, ExportNow, RestartNow) is open;
RESTART with the same packet is `again`, once per packet.  A panic of the program
ends it (`phase`).  `period` and `packets` are history for the properties.

`FeatureMeaning` works out a value from the specification as it was written and the
packets a record counts, without registers, events or state.

Left out of the instances, because the code does something else there: select
inside forward or backward (panics, `features.go:75`), select_slice of a
selection (also counts packets that were not selected, `features.go:95`), an argument that
occurs twice (never completes, `feature.go:183`), constants in front of arguments
of genericMultiEvent (index out of range, `feature.go:238`), and variadic
functions with a single pair of arguments (index out of range, `ast.go:499`).

### Values, TypedSlice, PacketFields, FeatureLibrary, FeatureLibraryMeaning, PacketDecoder

A value is a pair of type and datum.  Go's integer types of one sign count as one type,
because cleanUp widens them before any operation; integers wrap at `Modulus`; floats
are fractions, so that NaN and infinities are there and rounding is not.

`FeatureLibrary` takes one feature and calls it as a record does: Start, Event with each
input (a packet or a value of another feature), Stop with a reason, or neither because the
record is given up; then again, with the same instance of the feature.
`PacketFields` is the sequence of values that features set from one packet;
features with memory have their state in `f.s`.  `FeatureLibraryMeaning` says
what a feature should have set, as a function of all inputs: a sum, the median of a
sorted bag, the first value, packets per second of bursts, flags seen.

Where the code does something else than a description or a comment says, `FeaturesMean` claims nothing
(`Contradicted`), and a property of its own states what is said: the median of strings, the ports of a flow,
consecutive seconds, and the first sequence number (findings 6 to 9).  Where nothing is said, the meaning is the code's
and its comment says so: add, multiply, the _characters features and
_tcpTimestampsPerSeconds keep what they had when their record starts again; stdev of one value
is not a number; LinkLayerLength adds the tags to the capture length.  The _characters features panic for a packet
without a network layer (`features_staging.go:36`, `:80`), which the inputs have.
In the same way `PromotionMeans` leaves out nanoseconds together with another unit of time, and arithmetic of
a time in front of a number, which `UnitsMeet` and `TypeAsAnnounced` are about (findings 10 and 11).

`MCLibrary` also has, as jobs of one step: arithmetic on pairs of values, selection
in a slice (quickselect with its sampling, against the sorted slice), and
the sort of a batch (against: sorted, and the same records).  `PacketDecoder` puts two packets into
one buffer, one after the other, because a buffer keeps what the second one does
not overwrite.  Raw IP without data panics (`buffer.go:456`).  `BufferSpeaksForPacket` says of an accepted packet
that layers, type, tags and lengths are its own; it leaves out the tags of a packet without data
behind its link header, the ethertype of a cooked capture, and an IP length made up behind tags, for which
`TagsOfPacket`, `EtherTypeOfPacket` and `LengthOfPacket` state what the interface promises (findings 12 to 14).

`MCDescriptions` puts these descriptions, with the one of the time filter, one behind the other, since TLC stops at the first
violation it finds: it looks for a contradiction of one, from a blank state, and when it has found one goes on to the next
one (`topic`).  `SomeDescriptionKept` holds if any of the ten is kept; its counterexample contradicts each of them in turn.

## 3. Runs

| Run | Instance | States | Shows |
|---|---|---|---|
| flowtable | timers: 4 packets (3 with both windows and an active timer), 2 keys, 2 windows, times 0..3, 6 option sets; output: 3 packets, TCP and not, 2 records, 4 outcomes, 3 orders | 1.59 million | structures agree, flows end once, no timer missed; FlowTable implements FlowLife; export records follow flows, nothing lost, out of order or stuck |
| flowtable_context | 3 packets, window expiry | | violation, finding 1 |
| export_pipeline | 3 tables, 2 exporters, 3 records; no, stop and expiry sorting | 157,356 | no interleaving loses or duplicates, nor reorders with stop sorting; shutdown ends |
| export_sort | a batch of 2 | | violation, finding 2 |
| packet_pool | batches of 1, 1 table, 4 packets, 1 copy; batches of 2, 2 tables, timeout, expiries, copies; the same without waiting for expiries (autoGC) | 535,166 | the pool grows, is reused and shrinks soundly; partial batches, discards, expiries |
| packet_starved | batches of 2, 1 table | | violation, finding 3 |
| packet_input | up to 2 sources, files and label files; Stop at any moment; keys of 5 kinds | 96,035 | every packet is read once, labels and numbers agree, keys identify flows, Stop ends |
| feature_graph | 157 specifications, up to 3 packets of 4 kinds, all that control features may ask | 304,220 | records hold what specifications mean; no value, flag or sharing leaks |
| tcp_reorder | 6 of 8 kinds of packets, numbers modulo 32 | 599,185 | copies returned, order for clean streams |
| tcp_reorder_order | 6 of 6 kinds of packets | | violation, finding 4 |
| library | every feature on up to 2 records; pairs of values; slices of 6; batches of 9; pairs of packets in a buffer | 1.98 million | features, values, selection, sort and buffers do what they stand for |
| descriptions | features, pairs of values and packets of library; 5 times at a filter | | violation, findings 5 to 14 |

Why the bounds are enough.  *flowtable*, timers: reuse of a slot needs a flow to end
and two more packets; a missed deadline needs a re-armed idle timer and a
later packet; four packets over four times contain both, with either timer first.  The options decide which packets
come (`Input`): windows and times that a table does not look at are not varied, and with an active timer and windows together
there are three packets: one to begin a flow, one for it, and one that is late or of another window.
Output: two records of a flow that end at different packets and a
second flow that holds them back.  *export_pipeline*: three tables are the
smallest number with a merge worker fed by another one and by a table (the odd
queue), and three records put one on each queue or a batch in front of
the others; channels hold one list, so that every send may block.  *packet_pool*: four
buffers and four packets let the pool
allocate, reuse and release; batches of two are the smallest
that can be partly filled.  *packet_input*: a switch of sources and of
files with a damaged packet between them, a row of labels read ahead over a packet that has none,
and packets on either side of the end of a window.  *feature_graph*: the state of a feature
is set by one packet and read by the next, so three packets give each pair of them
a record of its own before or after; the specifications pair each feature with three
others that use the same parts, in both orders.
*tcp_reorder*: three segments held behind one hole,
and two acknowledgements, on numbers that wrap around; the stream spans no more
than a quarter of the numbers, within which Difference is exact (proved, section 5).
*library*: two records, as a second start is what may find something left over; the units
of time and the ring of sequence numbers are small enough for inputs to cross them;
nine records give up to five sublists, hence three rounds of merging with an odd list
out in two of them; slices are longer than SampleSize, so that selection narrows them first.

Deadlock checking is off where the system ends by itself: after EOF, after the
exporters have finished, after Finish, when a source is done, and once a flow has ended, a
specification was rejected or the program has crashed.  That these ends
are reached is what FlushReturns and FinishReturns say.

Fairness: ExportPipeline and PacketPool assume weak fairness of the steps of
goroutines together (`Goroutines`), which the Go scheduler gives: as long as some
goroutine can run, one does.  All behaviours of these instances are finite, so
nothing stronger is needed.  Arrivals of packets and calls from outside
(ReadPacket, timeouts, Export, Shutdown) are not fair.  FlowTable, FeatureGraph,
TCPReorder and the library have no liveness properties: their callers decide what happens.
PacketInput has none: reading a file and Stop wait for nothing.

## 4. Findings

1. *Window expiry uses another flow's context* (`flows/table.go:264`,
   run flowtable_context).  expireWindow does not call initFlow.
2. *A batch of two records out of order loses one* (`flows/exporter.go:493`, run
   export_sort).  export_pipeline excludes such batches (`SoundBatches`), to see
   what else holds.
3. *The reader may wait forever for buffers* (`packet/multibuffer.go:80`, run
   packet_starved), with all of them free.
4. *tcpReorder hands on retransmitted segments late* (`custom/transport.go:222`,
   run tcp_reorder_order).  By the same comparison, a segment behind a hole of one
   byte is thrown away; tcp_reorder is about streams with neither (`CleanStreams`).
5. *The time filter accepts packets exactly at its times* (`modules/filters/time/time.go:28`),
   its help says it does not.
6. *The median of an even number of strings panics* (`operations/value.go:298`).
7. *The ports of a flow are those of its last packet* (`nta/nta.go:102`), never -1 for
   several of them: initPort is never set.
8. *Consecutive seconds count through breaks* (`staging/features_staging.go:171`): lastTime is
   set before it is compared.
9. *A late packet from before the wrap-around ends the search for the first sequence number*
   (`iana/transport.go:452`).
10. *Nanoseconds and another unit of time panic* (`flows/number.go:290`).
11. *A time and a number do not get the type that the template announces* (`flows/number.go:369`).
12. *A packet shows the tags of an earlier one* (`packet/buffer.go:467`), if it has no data
    behind its link header.
13. *A packet shows the ethertype of an earlier one* (`packet/buffer.go:448`), in a cooked capture.
14. *The length made up for IP without one counts the tags* (`packet/buffer.go:505`).

Findings 5 to 14 are those of the run descriptions.

One more divergence is read in the code and has no run: *expiry sorting does not sort by expiry time*, although
`flows/sort.go:18` and `flows/export.go:49` say that flows are sorted by it and merged in that order.  Each batch of a table
is sorted by itself (`flows/exporter.go:474`).  Expire ends a flow only if its timer lies before its time (`flows/table.go:81`), so
a flow that a packet ended at that very time may be sent before one whose timer is that time and whose last packet is earlier; and
time that jumps back (`packet/source.go:244` only warns) does the same to whole batches.  Hence no property asks for an order of
records with expiry sorting, beyond that of a batch.

The other runs are not affected: the instances of packet_pool
do reach the wait of Pop, and FinishReturns starts from the end of the input.

## 5. Proofs

All theorems hold for all values of the constants: keys, packets, times, options, records,
sources, sizes of batches, pools and rings.  Assumptions are those of the modules on their constants (packets,
options and outcomes have their types, Nil is not a flow, sizes are positive), which TLC evaluates in every
run.  Three groups of theorems name a further assumption, on the inputs they are about: `BatchesSound` (ExportPipelineProofs,
where OutputInOrder also excludes expiry sorting), `Orderly` (LabelsAreFound) and `FlowsTold` (KeysIdentifyFlows).

**FlowTableProofs**: `TableStaysConsistent`, `InactiveOnlyWherePassed` and `TimersStayBounded`
(`Spec => []` of TableConsistent, OnlyPassedInactive, TimersBounded), from `Invariance`.
None of the three is inductive alone.  Remove is right only if the key of the flow
that stops is in the map (TableConsistent); that holds only if nothing stops a
flow twice, so an operation must never meet an inactive flow outside EOF and
expireWindow (OnlyPassedInactive); and that needs the flag eof to be set exactly
while one of the two loops runs (FlagsFollowLoop).  `IInv` is the conjunction of
these, with the types of the table and the bound on timers that Event relies
on.  The argument: every operation on a flow either keeps it in its slot with its key
and good timers, or drops it from the table (`Kept`, `Dropped`).  Section 1 of the
module shows that both preserve the invariant, section 2 that Export, the timer
callbacks, RecordEvent, TCPEvent and their compositions are of this kind,
section 3 treats AddFlow, Deliver and Clear, section 4 the steps of Next.

The second half of the module (sections 5 to 9) adds what happens to flows over time.  `TableIsFlowLife`: every step of
the table is a step of FlowLife or a stutter (`ImplementsFlowLife`).  `FlowsStayAccounted`,
`WindowsStayApart`, `PacketsAreOnTime` and `ExpireCompletes` are `Spec =>` EveryFlowAccounted, OneWindow,
NoLateDelivery and ExpireIsComplete.  They need `LInv`, which adds to IInv: ids of active
flows and ended ones make up all ids below flowID, disjointly; the flows of a table with window expiry
belong to its window, except while expireWindow walks, when those behind `loop.at` have ended;
and while Expire walks, flows behind `loop.at` have no timer that ran out.  The argument
sharpens Kept and Dropped to `GoesOn` and `Ends`, which also say what becomes of the id,
the window and the timers; `LifeOp` is either of them, for one flow, and each operation
is one.  NoLateDelivery follows from `Timed`: when Event hands a packet on, the due timers of the flow have been run
and the flow is another one if one of them ended it.

**FlowTableOutputProofs** is about what a table sends on: `OpenEntriesStayOwned`, `ExportsStayConserved`,
`OutputStaysSorted`, `NothingIsHeldBack`, `EOFLeavesNothing` and `TableTypes` (`Spec => []` of OpenEntriesOwned,
ExportsConserved, OutputSorted, NothingHeldBack, EOFEmpties and the full TypeOK), from `OutputInvariance`.
A *line* is what the table has for one record: its export list, what was sent and what was issued.
OutputSorted is not inductive: what is sent next comes from the list, so the list has to be in order too and
to lie behind what was sent, and the number of the packet under way has to be above them all (`InTime`).
That a record which stops finds its own unfinished entry, and no other one, needs one such entry
per record and living flow (`OneOpenEach`, `Owns`), and this needs flows that end to take their entries
with them, in any order of features and callbacks; so the operations of section 6 of FlowTableProofs are
followed once more (`GoesOnLined`, `EndsLined`).  ExportsConserved counts, and so needs
what is taken out of a list to be a selection of it without repetition (`Part`, `Splits`).  Section 1 is
about lists, 2 about operations on a line, 3 about operations on a flow, 4 about operations on the table
and 5 about the steps.

**FlowLifeProofs**: `AlwaysAccounted`, the abstract specification keeps a flow alive or ended, never both.

**PacketPoolProofs**: `BuffersOwnedOnce`, `FreeIsExact` and `BatchesAreFull` (`Spec => []` of OwnedOnce,
FreeAccounted, FullBatch) for batches of any size, any number of tables, buffers, packets and copies,
from `PoolInvariance`.  None of the three is inductive alone.  That a buffer is free when its last
reference goes needs the references to be counted exactly (`References`: one while it is in a batch that
was written, one while a copy is held), which needs it to be at one place only (`Exclusive`) and a
copy to be of a packet that its table has already handled (`Copies`), since a
second copy would not be counted.  numFree is exact because each worker carries the number that it
is about to add (`StageOf` says at which places).  Pop finds a full batch because of `ScanFinds`:
the unused buffers ahead of the search and those found are at least batchSize.  It holds when Pop
starts, as numFree is a lower bound there (FreeAccounted), and only Pop takes buffers.
Section 1 of the module proves what `Only` and `Sum` compute (recursive functions, by induction
over a set of naturals, `SelectionFacts`), section 3 what steps have in common, sections 4 and 5 treat the
steps of the reader and of the workers, section 6 puts them together.

Sections 7 to 11 of the module show `EveryPacketArrivesOnce` (`Spec => []EveryPacketOnce`): for batches of any size,
any number of tables and packets, every packet that was read is handled by one table once, dropped, or
still under way, and a table handles its packets in the order in which they were read.  EveryPacketOnce
says nothing of the order of what is under way, so it is not inductive.  `OrderInv` adds it to the
invariant above: `Way` is the set of spots <<line, batch, buffer, packet>> that were not handled
yet, `Earlier` says which of two spots is further ahead (in the same line, or with a table as
against the decoder or the reader), and `Course` that packet numbers go up along it
(`Sorted`), that no packet is at two spots (`Distinct`), that one under way was neither handled nor
dropped (`Pending`) and is later than all that the tables it can still reach have handled (`Follows`).
Section 7 shows what keeps a Course: packets move on without overtaking (`CourseMoves`), the newest one is
added behind all others (`CourseBegins`), some are dropped (`CourseDrops`), the first of a table is
handled (`CourseHandles`).  Section 9 treats the steps that move no packet, section 10 those that do: a
packet written to a batch, a batch sent to the decoder, taken from a ring, filtered by Decode
and dealt out by Event.  Here the invariant on buffers is needed: as a buffer is at one place
only, a packet that the reader writes (Assign) overwrites none that is under way (`UnwrittenIdle`).

**PacketInputProofs**: `InputIsRead` (`Spec => []EveryPacketRead`): for any sources, files, packets and
filters, until an interrupt exactly the packets that can be read and are not filtered reach the labels and the
key, in order, and with one source each has the number of its place.  The property is stated by ranks, so that it
needs no recursion: the n-th packet asked about is the wanted one with rank n.  By itself it
does not say where the reader is.  `ReadInv` adds it: `Mark` is the last place of the input that was dealt with,
the packets asked about are the wanted ones up to there (`AskedSoFar`), and the three counters
together (`Count`: packets in the engine, skipped and filtered in the reader) are the rank of the mark
among the offered places (`CountSoFar`).  Each step passes no place, or the next offered one (`Skips`, `Passes`),
or it ends the source.  `PlaceInv` holds the types, and that without an interrupt the sources are opened, read
and stopped in turn (`Undisturbed`).  After an interrupt the property says nothing: Stop closes the handle
first and marks the source later, and a reader that looks in between takes the closed
handle for the end of a file and goes on with the next one, without the rest of this one.
`WindowsStayBounded` (`Spec => []WindowsBounded`): the number of the time window never goes down, and
until time jumps back the packets of a window lie within its duration.  It needs that the window function, whose
state lives on in the selector, is called for every packet that gets a key (`WindowReachedWithKey`; it is not
called if an earlier key is missing), hence that a key list with a time window yields a selector
with that function, in any order of the pairs (`WindowIsSelected`), and that every packet the
reader hands on is one of the input also when an interrupt gets in between (`PacketInv`).  `WindowInv` says of the current
window what the property says of the pairs of packets.
`SameEndsBothWays`: the two directions of a flow have the same ends in their key
(bytes.Compare orders any two different fields in exactly one way); `WindowHolds`, a step of the window
function; `StopsInTime`, at most one source is begun after Stop, wherever the reader is.
`LabelsAreFound` (`Spec => []LabelsMatch`): no packet gets the label of another one, and as long as every packet
asks for a label each gets the one a file has for it.  It assumes of the files of labels that their rows have no positions
or come in the order of the packets (`Orderly`).  GetLabel relies on this and never looks back, so a row that
comes too late is lost; what remains without the assumption is `LabelsAreOwn`, that a label is one a file has for this packet.
`LabelInv` says which row is next: what is unread in the label sources, one after the other, is the end of
the list of all rows (`ReadTo`), the row that was read ahead is the last one before it (`Ahead`), and of orderly files nothing was passed over
(`AllRead`, `UpToDate`).  A call of Labels.GetLabel takes one row off that list or none, whichever sources and files it
has to go through for it (`LabelIs`), since a source that is used up adds nothing to the list (`FlatSkips`).
`FlowsAreNotSplit`: packets that agree in all key features, up to a change of their ends with bidirectional flows,
get the same key, for all keys and packets and whatever order the map of pairs gives to the
selector.  `KeysIdentifyFlows` (`Spec => []KeyIdentifiesFlow`) adds that packets of different flows get different keys, and
packets of a flow the same direction only if their ends are not changed.  This needs an
assumption, since fields are written one after the other without their lengths.  `FlowsTold` says of any two packets
of an input that all parts of their keys are as wide as each other's, or that the whole keys are not
equally long, or that they differ in a part without an end behind which all parts are equally wide (as the protocol
or the number of the window); and with bidirectional flows, that both ends of a packet are equally long, which
the link addresses of LinuxSLL need not be.  All inputs of the run packet_input satisfy it.  The invariant `KeyInv` says that
the selector in the engine is one that the list of names can yield, and each key what it makes
of the packet and its window.  A flow has one key because the
selector writes the same parts for it (`FlowHasKey`); a key has one flow because parts of equal widths, written one after
the other, can be told apart again, from the front (`FlatTells`) or from the back (`FlatBehind`).
The assumption on the inputs (`InputsAssumption`) is what the program starts with: there is a source, libpcap is
given files, the keys are registered and named once, windows have a duration, no packet has time stamp 0,
which the window function takes for "no window yet", and a file of labels has a row.  "No label" is not a number
(`NoneAssumption`), so that it can be told from the labels.

**TCPReorderProofs**: `CopiesStayReturned` (`Spec => []CopiesReturned`) for any packets in any order, retransmitted,
overlapping or not, and any size of the ring: the filter has a reference to the buffer of a packet exactly
while the packet is in one of its lists.  forwardOld gives fragments back one by one, passing some over, and
then cuts as many off the end of the list as it has given back.  These are the same ones only if a fragment that
was passed over is never followed by one that is taken (`Walked`, `LookWalks`).  That in turn
holds only if neighbours in a list are in order (`Sorted`, in `RInv`), which Push establishes, and because Difference,
though not transitive, has the property of `NotInSequence`: what is not before a number two or more ahead of next
is neither next nor one ahead of it.  Section 3 shows it by induction over the walk, section 4 follows
maybeForwardOld, Event and Stop, section 5 the record.  `DifferenceIsExact`: sequence numbers less than a quarter
of the ring apart are compared as if there were no wrap-around, in both orders, for any size of the ring.

**ExportPipelineProofs**: `RecordsOnce`, `TailsAreEnds` and `OutputInOrder` (`Spec => []` of EachRecordOnce,
TailsCached and OutputOrdered), from `PipeInvariant`, for any number of tables (hence merge trees of any shape), exporters and
records, and channels of any depth.  They assume `BatchesSound`: what a table hands over is a list of different records,
in order if sorting is by start or stop (`OutputSorted` of FlowTable), a single record without sorting, and in any order with expiry sorting,
but for one case: two records out of order, one of which the code loses (finding 2).  The code does not keep such a
batch away, so the theorems are about the runs in which none comes.  All other batches, of any length
and order, are covered.  RecordsOnce and TailsAreEnds hold whatever order the batches of a table come in.  OutputInOrder is
about start and stop sorting (`"expiry" \notin Orders`): there the guard of Export, that what a table sends lies above all it
has sent before, is the conclusion of `OutputStaysSorted` about the flow table.  With expiry sorting the code does
not have this (section 4), and the theorem would be false.  The invariant therefore says all that is about order only if
the tables send in order (`Ordered`, in `Sorted`, `Ahead` and `Upto`); that lists have no record in common, which merging
needs as well, comes from `Whole`.

None of the three is inductive.  A list is split and joined by goroutines that know only its head, so `Whole`
follows all lists: for each exporter there is a fixed set of `Places` (channels, the hands of workers about to send,
the queues of merge workers, the splicer), and the lists whose heads are at these places hold each produced record that
this exporter has not got, once, with no list at two places (`View`).  A step leaves most lists alone (`Stays`), because
whoever relinks one of them owns its head, and lists with different heads have no record in common (`Elsewhere`, `ElsewhereStays`).
Order needs more: that a merge worker may send what it sends before it knows what else will come.  `OrderInv(b)` says that
there is a bound b for each channel, such that all that is still to be written to it lies above (`Final` when it is
to be closed).  A step of any goroutine raises the bound of its output only as far as its inputs' bounds allow
(`Feeds`), so the bounds go up through the tree like the records; `MergerInv` says for each
stage of the merge loop what it may have left in its queues, `EndInv` that what an exporter got lies below what is on
the way.  PrevOk, that the head of a list knows its last record, fails for the list that a merge worker leaves
behind when an input ends; the invariant says that this can only be the last one in its channel, which is why
TailsCached is stated while more may come.
Sections 1 to 5 are about loops, lists, linked lists, merging and sorting, 6 to 8 about the tree, channels and places,
9 about the merge loops, 10 states the invariant, 11 and 12 say what steps have in common, 13 to 19 treat the goroutines in turn, and 20 and
21 put them together.  `BatchesAreSorted` (section 5) is a theorem about NaturalSort: of any list of different numbers that is sorted
already or is not of length two, the sort makes the sorted list of the same numbers, however many sublists it
finds.  This covers every batch of the pipeline, but not equal keys, which BatchSorted of the run library has, too.

Model-checked only: liveness; InOrderWhenClean and HeldIsForwarded of TCPReorder, which hold only if the
numbers that are in flight span less than a quarter of the ring (the instance sees to that, the code does not);
BatchSorted with equal keys and SelectFinds (quickselect recurs into a part of its slice); the feature modules, which recur over specifications and over sequences of inputs;
BufferSpeaksForPacket of PacketDecoder; and the bounds in the TypeOK of PacketPool.

## 6. What could come next

- Records with filters, several records that share a context, keep and hard.  They matter
  once the repository registers control features or a second filter: the code is there,
  but nothing reaches it, so there is no behaviour to compare a model with.
- Several export pipelines at once, with exporters in common (the kafka exporter changes values in
  place).
- A proof that PacketDecoder leaves nothing but tags and ethertype (findings 12 and 13) of the packet before in a
  buffer, for any packets.
- The order of expiries against the packets of the next batch in PacketPool: the model has it, no property asks for it.

## 7. Not modelled, and why

- What gopacket finds in a packet: an input of PacketDecoder.
- Features: httpLines and httpRequestHost parse text, exportPackets writes files, log and exp are
  real functions, join formats.  Features that are compositions of others follow from FeatureCompiler.
- Template trees, variants and the names of columns: built once, before packets flow.
  Resolution of the types of information elements in the compiler is left out with them.
- Live capture: it blocks inside libpcap.
- Exporters: file and network output.  How they are called is in ExportPipeline.
- Statistics, logging, the command line, go-flows-build, analysis data.
- In FlowTable: records with filter features (see TCPReorder and section 6).  In
  ExportPipeline: several pipelines at once.
- In FeatureLibrary a feature is looked at alone.  Features of dns, http and sll
  (`application.go:168` and others, `link.go:29`) pass the source they were called by, instead of
  themselves, to SetValue; that would confuse an operation with two arguments behind them, and neither
  FeatureLibrary nor FeatureGraph has these features with users.
