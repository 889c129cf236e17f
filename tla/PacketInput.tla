------------------------------ MODULE PacketInput ------------------------------
(*****************************************************************************)
(* From the sources to the flow key: the collection of packet sources        *)
(* (packet/sources.go) with its libpcap sources, the engine's count of       *)
(* packets and its filters (packet/source.go, packet/filters.go,             *)
(* modules/filters/time), labels (packet/labels.go, modules/labels/csv) and  *)
(* the key (FlowKeys).                                                       *)
(*                                                                           *)
(* The engine reads in one goroutine and the interrupt handler stops the     *)
(* sources from another, without a lock: their steps interleave.  What       *)
(* follows a packet that was read is one step: batches keep the order.       *)
(*                                                                           *)
(* A packet of a file is a record with the fields of FlowKeys and            *)
(*   bad      it cannot be read                                              *)
(*   bpf      it matches the filter of libpcap                               *)
(*   decodes  the engine can decode it                                       *)
(*****************************************************************************)
EXTENDS FlowKeys, FiniteSets, TimeFilter

CONSTANTS
    Inputs,  \* sources, filters, labels and key of the runs
    None     \* no label

EndsType == [src : Seq(Nat), dst : Seq(Nat)]
PacketType ==
    [mac : EndsType, ip : EndsType, ports : EndsType, icmp : Seq(Nat), vlan : Seq(Nat),
     ether : Seq(Nat), proto : Seq(Nat), time : Nat \ {0},
     bad : BOOLEAN, bpf : BOOLEAN, decodes : BOOLEAN]

\* A row of a file of labels; it has position 0 if it has no column for the position.
RowType == [pos : Nat, label : Nat]

ASSUME NoneAssumption == None \notin Nat

\* There is a source, and libpcap wants a file for each of them; no packet was captured in
\* 1970.  The key is one that a selector is made for, and windows have a duration.  A file
\* of labels has a row: csvLabels passes over a first one without, and panics at a later one.
ASSUME InputsAssumption ==
    \A in \in Inputs :
        /\ in.sources \in Seq(Seq(Seq(PacketType))) /\ in.sources # <<>>
        /\ \A s \in DOMAIN in.sources : in.sources[s] # <<>>
        /\ in.key \in Seq(STRING) /\ MakeSucceeds(in.key)
        /\ in.bidirectional \in BOOLEAN /\ in.allowZero \in BOOLEAN
        /\ in.duration \in Nat \ {0}
        /\ in.labels \in Seq(Seq(Seq(RowType)))
        /\ \A l \in DOMAIN in.labels :
               \A f \in DOMAIN in.labels[l] : in.labels[l][f] # <<>>

VARIABLES
    input,    \* the sources, filters, labels and key of this run
    pcaps,    \* the libpcap sources
    sources,  \* Sources: the index of the current one, and stopped
    reader,   \* place in ReadPacket, and its skipped and filtered
    stopper,  \* place in Stop, and the source it stops
    engine,   \* npackets, labels and the state of the key selector
    asked     \* what became of the packets that were decoded (history)

vars == <<input, pcaps, sources, reader, stopper, engine, asked>>

NewLibpcapSource == [stopped |-> FALSE, which |-> 0, at |-> 0, handle |-> "none"]
NewCSVLabels(files) == [files |-> files, rows |-> <<>>, nextPos |-> 0, nextData |-> None]

Init ==
    /\ input \in Inputs
    /\ pcaps = [s \in DOMAIN input.sources |-> NewLibpcapSource]
    /\ sources = [first |-> 1, stopped |-> FALSE, after |-> 0]
    /\ reader = [pc |-> "read", got |-> "nothing", skipped |-> 0, filtered |-> 0]
    /\ stopper = [pc |-> IF input.stop THEN "idle" ELSE "never", source |-> 0]
    /\ \E selector \in Selectors(input.key, input.bidirectional, input.allowZero) :
        engine = [packets |-> 0, selector |-> selector, window |-> NoWindow,
                  labels |-> [l \in DOMAIN input.labels |-> NewCSVLabels(input.labels[l])]]
    /\ asked = <<>>

--------------------------------------------------------------------------------
(* libpcapSource                                                             *)

Current == sources.first
Pcap == pcaps[Current]
Files == input.sources[Current]
At(pc) == reader.pc = pc
GoTo(pc) == reader' = [reader EXCEPT !.pc = pc]

\* openNext
OpenNext == pcaps' = [pcaps EXCEPT ![Current].which = @ + 1, ![Current].at = 0,
                                   ![Current].handle = "open"]

\* ReadPacket of Sources and of the current source
Read ==
    /\ At("read")
    /\ reader' = [reader EXCEPT !.pc = "data", !.skipped = 0, !.filtered = 0]
    /\ IF Pcap.which = 0 THEN OpenNext ELSE UNCHANGED pcaps
    /\ UNCHANGED <<input, sources, stopper, engine, asked>>

\* ZeroCopyReadPacketData; a handle that was closed gives EOF.
ReadData ==
    LET file == Files[Pcap.which]
        more == Pcap.handle = "open" /\ Pcap.at < Len(file)
    IN  /\ At("data")
        /\ reader' = [reader EXCEPT !.pc = "check",
                          !.got = IF ~more THEN "eof"
                                  ELSE IF file[Pcap.at + 1].bad THEN "error" ELSE "packet"]
        /\ pcaps' = IF more THEN [pcaps EXCEPT ![Current].at = @ + 1] ELSE pcaps
        /\ UNCHANGED <<input, sources, stopper, engine, asked>>

\* The source was stopped while it read.
ReadStopped ==
    /\ At("check") /\ Pcap.stopped
    /\ GoTo("eof")
    /\ UNCHANGED <<input, pcaps, sources, stopper, engine, asked>>

\* The end of a file, or an error, which ends it too: the next file.
NextFile ==
    /\ At("check") /\ ~Pcap.stopped /\ reader.got # "packet"
    /\ IF Pcap.which = Len(Files)
       THEN GoTo("eof") /\ UNCHANGED pcaps
       ELSE /\ reader' = [reader EXCEPT !.pc = "data",
                              !.skipped = IF reader.got = "error" THEN @ + 1 ELSE @]
            /\ OpenNext
    /\ UNCHANGED <<input, sources, stopper, engine, asked>>

Packet == Files[Pcap.which][Pcap.at]

\* Mutant: what the filter of libpcap takes out is not counted.
FilteredUncounted ==
    /\ At("check") /\ ~Pcap.stopped /\ reader.got = "packet" /\ ~Packet.bpf
    /\ GoTo("data")
    /\ UNCHANGED <<input, pcaps, sources, stopper, engine, asked>>

Filtered ==
    /\ At("check") /\ ~Pcap.stopped /\ reader.got = "packet" /\ ~Packet.bpf
    /\ reader' = [reader EXCEPT !.pc = "data", !.filtered = @ + 1]
    /\ UNCHANGED <<input, pcaps, sources, stopper, engine, asked>>

\* libpcapSource.Stop, as one step where the reader stops a source itself.
Stopped(pcap) ==
    IF pcap.handle = "none" THEN pcap ELSE [pcap EXCEPT !.handle = "closed", !.stopped = TRUE]

--------------------------------------------------------------------------------
(* Sources: the end of a source, and Stop                                    *)

\* Mutant: the flag is looked at after the source was replaced, if at all.
SourceEndsUnchecked ==
    /\ At("eof")
    /\ GoTo("switch")
    /\ UNCHANGED <<input, pcaps, sources, stopper, engine, asked>>

SourceEnds ==
    /\ At("eof")
    /\ GoTo(IF sources.stopped THEN "done" ELSE "switch")
    /\ UNCHANGED <<input, pcaps, sources, stopper, engine, asked>>

StopSource ==
    /\ At("switch")
    /\ pcaps' = [pcaps EXCEPT ![Current] = Stopped(@)]
    /\ GoTo(IF Current = Len(input.sources) THEN "done" ELSE "advance")
    /\ UNCHANGED <<input, sources, stopper, engine, asked>>

\* after counts the sources that are begun after Stop was called (history).
NextSource ==
    /\ At("advance")
    /\ sources' = [sources EXCEPT !.first = @ + 1,
                                  !.after = IF sources.stopped THEN @ + 1 ELSE @]
    /\ GoTo("read")
    /\ UNCHANGED <<input, pcaps, stopper, engine, asked>>

Stop ==
    /\ stopper.pc = "idle"
    /\ sources' = [sources EXCEPT !.stopped = TRUE]
    /\ stopper' = [stopper EXCEPT !.pc = "pick"]
    /\ UNCHANGED <<input, pcaps, reader, engine, asked>>

\* The source that is the current one now is stopped, if it has been opened ...
StopPicks ==
    /\ stopper.pc = "pick"
    /\ stopper' = [pc |-> IF Pcap.handle = "none" THEN "done" ELSE "store", source |-> Current]
    /\ pcaps' = IF Pcap.handle = "none" THEN pcaps
                ELSE [pcaps EXCEPT ![Current].handle = "closed"]
    /\ UNCHANGED <<input, sources, reader, engine, asked>>

\* ... first its handle is closed and then it is marked.
StopStores ==
    /\ stopper.pc = "store"
    /\ pcaps' = [pcaps EXCEPT ![stopper.source].stopped = TRUE]
    /\ stopper' = [stopper EXCEPT !.pc = "done"]
    /\ UNCHANGED <<input, sources, reader, engine, asked>>

--------------------------------------------------------------------------------
(* Labels.  A file of labels is a sequence of rows, whose header is left out. *)

\* Mutant: a row for a later packet is not kept.
CSVLabelDropped(l, nr) ==
    LET opened == IF l.rows = <<>> /\ l.files # <<>>
                  THEN [l EXCEPT !.rows = Head(l.files), !.files = Tail(@)] ELSE l
        row == Head(opened.rows)
        read == [opened EXCEPT !.rows = Tail(@)]
    IN  IF l.nextPos > nr THEN [eof |-> FALSE, label |-> None, next |-> l]
        ELSE IF opened.rows = <<>> THEN [eof |-> TRUE, label |-> None, next |-> l]
        ELSE [eof |-> FALSE, label |-> IF row.pos \in {0, nr} THEN row.label ELSE None,
              next |-> [read EXCEPT !.nextPos = row.pos]]

\* csvLabels.GetLabel for packet nr; rows of one column have no position.
CSVLabel(l, nr) ==
    LET reopen == l.rows = <<>>
        noFile == reopen /\ l.files = <<>>
        opened == IF reopen THEN [l EXCEPT !.rows = Head(l.files), !.files = Tail(@)] ELSE l
        row == Head(opened.rows)
        read == [opened EXCEPT !.rows = Tail(@)]
    IN  IF l.nextPos = nr THEN [eof |-> FALSE, label |-> l.nextData, next |-> l]
        ELSE IF l.nextPos > nr THEN [eof |-> FALSE, label |-> None, next |-> l]
        ELSE IF noFile THEN [eof |-> TRUE, label |-> None, next |-> l]
        ELSE IF row.pos = 0 THEN [eof |-> FALSE, label |-> row.label, next |-> read]
        ELSE IF row.pos = nr
        THEN [eof |-> FALSE, label |-> row.label, next |-> [read EXCEPT !.nextPos = nr]]
        ELSE [eof |-> FALSE, label |-> None,
              next |-> [read EXCEPT !.nextPos = row.pos, !.nextData = row.label]]

\* Labels.GetLabel: the label sources are used up one after the other.
GetLabel(labels, nr) ==
    LET asks == [l \in DOMAIN labels |-> CSVLabel(labels[l], nr)]
        left == {l \in DOMAIN labels : ~asks[l].eof}
        first == CHOOSE l \in left : \A k \in left : l <= k
    IN  IF left = {} THEN [label |-> None, labels |-> <<>>]
        ELSE [label |-> asks[first].label,
              labels |-> <<asks[first].next>> \o SubSeq(labels, first + 1, Len(labels))]

--------------------------------------------------------------------------------
(* The engine                                                                *)

\* Filters.Matches
FiltersMatch(filters, p) == \A f \in DOMAIN filters : Matches(filters[f], p)

\* A packet was read: it is counted, filtered, decoded, labelled and gets a key.
Accept ==
    LET p == Packet
        nr == engine.packets + reader.skipped + reader.filtered + 1
        label == GetLabel(engine.labels, nr)
        key == Key(engine.selector, input.duration, engine.window, p)
        used == FiltersMatch(input.filters, p) /\ p.decodes
    IN  /\ At("check") /\ ~Pcap.stopped /\ reader.got = "packet" /\ p.bpf
        /\ GoTo("read")
        /\ engine' = IF used THEN [engine EXCEPT !.packets = nr, !.labels = label.labels,
                                                 !.window = key.window]
                     ELSE [engine EXCEPT !.packets = nr]
        /\ asked' = IF used
                    THEN Append(asked, [packet |-> p, nr |-> nr, label |-> label.label,
                                        ok |-> key.ok, key |-> key.key,
                                        forward |-> key.forward, window |-> key.window.id])
                    ELSE asked
        /\ UNCHANGED <<input, pcaps, sources, stopper>>

Next ==
    \/ Read \/ ReadData \/ ReadStopped \/ NextFile \/ Filtered \/ Accept
    \/ SourceEnds \/ StopSource \/ NextSource
    \/ Stop \/ StopPicks \/ StopStores

Spec == Init /\ [][Next]_vars

--------------------------------------------------------------------------------
(* Properties.                                                               *)

\* The places of the input, the source, the file and the packet in it, in their order.
PlacesOf(s, f) == {<<s, f, i>> : i \in DOMAIN input.sources[s][f]}
Places == UNION {UNION {PlacesOf(s, f) : f \in DOMAIN input.sources[s]} :
                    s \in DOMAIN input.sources}
UpTo(a, b) ==
    \/ a[1] < b[1]
    \/ a[1] = b[1] /\ a[2] < b[2]
    \/ a[1] = b[1] /\ a[2] = b[2] /\ a[3] <= b[3]
Rank(S, a) == Cardinality({b \in S : UpTo(b, a)})

\* What can be read of a file, an error ending it, and what goes on from the engine.
PacketAt(a) == input.sources[a[1]][a[2]][a[3]]
Offered == {a \in Places : \A i \in 1 .. a[3] - 1 : ~input.sources[a[1]][a[2]][i].bad}
Used(p) == ~p.bad /\ p.bpf /\ p.decodes /\ FiltersMatch(input.filters, p)
Wanted == {a \in Offered : Used(PacketAt(a))}

\* Until an interrupt every packet of every file of every source that the filters let pass
\* reaches the labels and the key, in order, unless it is damaged or behind a damaged one;
\* and with one source its number is its place in the input, although filters of two kinds
\* and errors are counted in different places.  Which packets a time filter should let pass
\* is the matter of AcceptedAsDescribed.
EveryPacketRead ==
    ~sources.stopped =>
        /\ Len(asked) <= Cardinality(Wanted)
        /\ At("done") => Len(asked) = Cardinality(Wanted)
        /\ \A a \in Wanted : LET rank == Rank(Wanted, a)
                             IN  rank <= Len(asked) =>
               /\ asked[rank].packet = PacketAt(a)
               /\ Len(input.sources) = 1 => asked[rank].nr = Rank(Offered, a)

\* A packet never gets the label of another packet, and as long as every packet has asked
\* for a label each gets the one a file has for it: the row that was read ahead is kept
\* until its packet comes, across the files.
LabelsMatch ==
    LET rows == FlattenSeq([l \in DOMAIN input.labels |-> FlattenSeq(input.labels[l])])
        own(nr) == {rows[r].label : r \in {x \in DOMAIN rows : rows[x].pos = nr}}
        byPosition == \A r \in DOMAIN rows : rows[r].pos # 0
    IN  \A i \in DOMAIN asked :
            /\ byPosition /\ asked[i].label # None => asked[i].label \in own(asked[i].nr)
            /\ byPosition /\ asked[i].nr = i /\ own(i) # {} => asked[i].label # None
            /\ ~byPosition /\ i <= Len(rows) => asked[i].label = rows[i].label

\* Packets have the same key if and only if they agree in all key features, up to a change
\* of their ends where flows are bidirectional, and they go in the same direction if and
\* only if their ends are not changed.
KeyIdentifiesFlow ==
    \A i, j \in DOMAIN asked : asked[i].ok /\ asked[j].ok =>
        LET p == asked[i].packet
            q == asked[j].packet
            same == SameFlow(input.key, input.bidirectional, p, asked[i].window,
                             q, asked[j].window)
        IN  /\ asked[i].key = asked[j].key <=> same
            /\ same => (asked[i].forward = asked[j].forward
                        <=> SameFlow(input.key, FALSE, p, asked[i].window, q, asked[j].window))

\* The number of the time window never goes down, and until time jumps back the packets of
\* a window lie within its duration.
WindowsBounded ==
    \A j \in DOMAIN asked : \A i \in 1 .. j : asked[i].ok /\ asked[j].ok =>
        /\ asked[i].window <= asked[j].window
        /\ asked[i].window = asked[j].window
            /\ (\A k \in 2 .. j : asked[k - 1].packet.time <= asked[k].packet.time)
            /\ (\E k \in DOMAIN input.key : input.key[k] = "__timeWindow") =>
                asked[j].packet.time - asked[i].packet.time <= input.duration

\* After Stop at most one more source is begun: Stop may miss the source that follows the
\* one it stops, but not the one after.
StopWithinOneSource == sources.after <= 1
================================================================================
