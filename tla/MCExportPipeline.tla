--------------------------- MODULE MCExportPipeline ---------------------------
(* Instances of ExportPipeline for TLC. *)
EXTENDS ExportPipeline

\* All lists of up to n different records.
ListsTo(n) == {list \in RecordLists : Len(list) \in 1 .. n}
Ascending(list) == \A i, j \in 1 .. Len(list) : i < j => list[i] < list[j]

\* Batches that are sorted, and for expiry sorting any but two records out of order.
SoundBatches ==
    [o \in {"none", "start", "stop", "expiry"} |->
        CASE o = "none"   -> ListsTo(1)
          [] o = "expiry" -> {list \in ListsTo(3) : Len(list) # 2 \/ Ascending(list)}
          [] OTHER        -> {list \in ListsTo(2) : Ascending(list)}]

\* What a table may really send.
AllBatches ==
    [o \in {"none", "start", "stop", "expiry"} |->
        CASE o = "none"   -> ListsTo(1)
          [] o = "expiry" -> ListsTo(3)
          [] OTHER        -> {list \in ListsTo(3) : Ascending(list)}]

StopOrder == {"stop"}
AllOrders == {"none", "stop", "expiry"}
ExpiryOrder == {"expiry"}
===============================================================================
