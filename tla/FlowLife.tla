-------------------------------- MODULE FlowLife --------------------------------
(*****************************************************************************)
(* What a flow table promises, whatever its timers, windows, slots and lists *)
(* do: a key has at most one living flow; a packet goes to the living flow   *)
(* of its key, or begins one; a flow that has ended never lives again and    *)
(* gets no more packets; and no flow disappears without having been ended.   *)
(* FlowTable implements this specification (FlowTable!ImplementsFlowLife).   *)
(*****************************************************************************)
EXTENDS Integers

CONSTANTS
    Keys,  \* flow keys
    None   \* no flow, not a number

VARIABLES
    living,  \* the living flow of every key
    ended,   \* the flows that have ended
    born,    \* how many flows there have been; they are numbered from 0
    last     \* the flow that got the last packet

vars == <<living, ended, born, last>>

Busy == {k \in Keys : living[k] # None}

Init ==
    /\ living = [k \in Keys |-> None]
    /\ ended = {}
    /\ born = 0
    /\ last = None

\* The flows of some keys run out, are forced to end, or belong to a window that is
\* over.
End(K) ==
    /\ living' = [k \in Keys |-> IF k \in K THEN None ELSE living[k]]
    /\ ended' = ended \cup {living[k] : k \in K}
    /\ UNCHANGED <<born, last>>

\* A packet of the living flow of k, which may end with it.
Count(k) ==
    /\ living[k] # None
    /\ last' = living[k]
    /\ \/ UNCHANGED <<living, ended>>
       \/ living' = [living EXCEPT ![k] = None] /\ ended' = ended \cup {living[k]}
    /\ UNCHANGED born

\* A packet that begins a flow; the flow of k, if there was one, has run out.  The
\* new flow may end at once.
Begin(k) ==
    LET over == {living[k]} \ {None} IN
    /\ last' = born
    /\ born' = born + 1
    /\ \/ living' = [living EXCEPT ![k] = born] /\ ended' = ended \cup over
       \/ living' = [living EXCEPT ![k] = None] /\ ended' = ended \cup over \cup {born}

Next ==
    \/ \E K \in SUBSET Busy : End(K)
    \/ \E k \in Keys : Count(k) \/ Begin(k)

Spec == Init /\ [][Next]_vars

--------------------------------------------------------------------------------
\* The flows that live and the flows that have ended are all flows there have been,
\* and no flow is both or lives under two keys.
Accounted ==
    /\ {living[k] : k \in Busy} \cup ended = 0 .. born - 1
    /\ {living[k] : k \in Busy} \cap ended = {}
    /\ \A k, l \in Busy : living[k] = living[l] => k = l
================================================================================
