------------------------------ MODULE MCFlowTable ------------------------------
(* Instances of FlowTable for TLC. *)
EXTENDS FlowTable

CONSTANTS k1, k2

Pkt(k, low, w, flags) == [key |-> k, low |-> low, window |-> w, flags |-> flags]
Opt(a, i, w, pp, five, sort) ==
    [active |-> a, idle |-> i, window |-> w, perPacket |-> pp, fivetuple |-> five,
     sort |-> sort]

\* Timers and windows: two keys in two windows, every kind of sorting.
TimerPackets == {Pkt(k1, TRUE, 0, {}), Pkt(k2, TRUE, 0, {}), Pkt(k1, TRUE, 1, {})}
TimerOptions ==
    {Opt(2, 1, FALSE, FALSE, FALSE, "start"), Opt(0, 2, TRUE, FALSE, FALSE, "stop"),
     Opt(2, 1, TRUE, FALSE, FALSE, "expiry"), Opt(1, 0, TRUE, FALSE, FALSE, "start"),
     Opt(0, 0, FALSE, FALSE, FALSE, "none"), Opt(1, 1, FALSE, TRUE, FALSE, "stop")}

\* TCP, control features and output order: a connection that closes or is reset, a
\* second flow beside it, two records of which either may be stopped or exported.
OutputPackets ==
    {Pkt(k1, TRUE, 0, {"TCP", "FIN", "ACK"}), Pkt(k1, FALSE, 0, {"TCP", "FIN", "ACK"}),
     Pkt(k1, TRUE, 0, {"TCP", "RST"}), Pkt(k2, TRUE, 0, {})}
OutputOptions ==
    {Opt(0, 1, FALSE, FALSE, TRUE, "start"), Opt(1, 0, FALSE, FALSE, TRUE, "stop"),
     Opt(0, 1, FALSE, FALSE, TRUE, "expiry")}

TablePackets == TimerPackets \cup OutputPackets
TableOptions == TimerOptions \cup OutputOptions
TwoRecords == {1, 2}
TableOutcomes ==
    {[r \in TwoRecords |-> "run"],
     [r \in TwoRecords |-> IF r = 1 THEN "run" ELSE "stop"],
     [r \in TwoRecords |-> IF r = 1 THEN "export" ELSE "run"],
     [r \in TwoRecords |-> IF r = 1 THEN "stop" ELSE "export"]}

\* Which packets come, how many of them, and when, follows from the options: the window of
\* a packet matters only for tables that look at it, the time only if there are timers.
\* With the options for timers all records keep running, so that they stay alike.
Input ==
    IF options.active = 0 /\ options.idle = 0
    THEN [packets |-> {p \in TimerPackets : p.window = 0}, most |-> 4, times |-> {0}]
    ELSE IF options \in TimerOptions
    THEN [packets |-> {p \in TimerPackets : options.window \/ p.window = 0},
          most |-> IF options.active > 0 /\ options.window THEN 3 ELSE 4,
          times |-> {0, 1, 2, 3}]
    ELSE [packets |-> OutputPackets, most |-> 3, times |-> {0, 2}]
RecordsAlike(t) ==
    /\ \A r, s \in Records : t.issued[r] = t.issued[s]
    /\ \A i \in Slots(t) : t.flowlist[i].recording \in {{}, Records}

TableNext ==
    /\ \/ \E when \in Input.times :
            \/ /\ tab.packets < Input.most
               /\ \E p \in Input.packets : Event(p, when) \/ EventOfOtherWindow(p, when)
            \/ Expire(when)
            \/ EOF(when)
       \/ LoopNext
    /\ options \in TimerOptions => RecordsAlike(tab')
TableSpec == Init /\ [][TableNext]_vars

\* Window expiry, to see whose flow the features find in the context.
WindowPackets == {Pkt(k, TRUE, w, {}) : k \in Keys, w \in {0, 1}}
WindowOptions == {Opt(0, 0, TRUE, FALSE, FALSE, "none")}
OneRecord == {1}
RunOnly == {[r \in OneRecord |-> "run"]}
================================================================================
