------------------------------ MODULE ExportList ------------------------------
(*****************************************************************************)
(* The list of export records that a flow table keeps for every record of    *)
(* its flow specification (flows/export.go, flows/table.go).                 *)
(*                                                                           *)
(* The program links the records into a ring with a head element; here the   *)
(* ring is the sequence of its elements from head.next (the front, where     *)
(* insert puts a record) to head.prev (the back, where flushing starts).  An *)
(* element is done once its features are filled in (exported()).  Of the     *)
(* elements of one flow at most one is not done: the one its record still    *)
(* points to.                                                                *)
(*****************************************************************************)
EXTENDS Integers, Sequences, Selections

Seqs == INSTANCE SequencesExt

SortTypes == {"none", "start", "stop", "expiry"}

\* The export record that flow id still holds in list: neither done nor unlinked.
HasOpen(list, id) == \E i \in 1 .. Len(list) : list[i].flow = id /\ ~list[i].done

OpenIndex(list, id) ==
    CHOOSE i \in 1 .. Len(list) : list[i].flow = id /\ ~list[i].done

\* exportRecord.unlink; a record that is in no list has nil links and stays as it is.
Unlink(list, id) ==
    IF HasOpen(list, id) THEN Seqs!RemoveAt(list, OpenIndex(list, id)) ELSE list

\* Mutant: a record is inserted at the back.
InsertBack(list, e) == Append(list, e)

\* exportRecord.insert behind the head.
Insert(list, e) == <<e>> \o list

\* record.Export fills the record in where it stands.
FillIn(list, id, e) == [list EXCEPT ![OpenIndex(list, id)] = e]

\* Mutant: the walk stops at the first element that is not done.
FirstOpen(list) == Seqs!SelectInSeq(list, LAMBDA e : ~e.done)

\* Where flushExports stops: the last element, from the front, that is not done.
LastOpen(list) == Seqs!SelectLastInSeq(list, LAMBDA e : ~e.done)

\* flushExports: the done elements at the back leave, the oldest first.
Flushed(list) == Seqs!Reverse(SubSeq(list, LastOpen(list) + 1, Len(list)))
KeptByFlush(list) == SubSeq(list, 1, LastOpen(list))

\* flushAllExports: every done element leaves, from the back to the front.
FlushedAll(list) == Seqs!Reverse(Only(list, {e \in Elements(list) : e.done}))
KeptByFlushAll(list) == Only(list, {e \in Elements(list) : ~e.done})
===============================================================================
