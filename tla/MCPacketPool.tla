------------------------------ MODULE MCPacketPool ------------------------------
(* Instances of PacketPool for TLC. *)
EXTENDS PacketPool

\* Batches of one buffer and one table: the pool grows, is reused and shrinks while
\* features keep copies.
OneByOne == [batch |-> 1, ring |-> 2, low |-> 1, high |-> 1, free |-> 1, release |-> 0,
             tables |-> 1, autoGC |-> FALSE, buffers |-> 4, packets |-> 4, timeouts |-> 0,
             expires |-> 0, copies |-> 1]

\* Batches of two and two tables: partial batches, expiries and copies of both tables.
TwoTables == [batch |-> 2, ring |-> 2, low |-> 1, high |-> 1, free |-> 2, release |-> 0,
              tables |-> 2, autoGC |-> FALSE, buffers |-> 6, packets |-> 2, timeouts |-> 1,
              expires |-> 2, copies |-> 2]

\* Expiries that the decoder does not wait for.
AutoGC == [TwoTables EXCEPT !.autoGC = TRUE, !.copies = 0]

\* Batches of two and one table, to see the reader wait.
Waiting1 == [TwoTables EXCEPT !.tables = 1, !.packets = 4, !.timeouts = 0, !.expires = 0,
                              !.copies = 0]

PoolSizes == {OneByOne, TwoTables, AutoGC}
StarvedSizes == {Waiting1}
================================================================================
