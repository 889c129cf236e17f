------------------------------ MODULE TimeFilter -------------------------------
(* The filter for packets by time (modules/filters/time). *)
EXTENDS Integers

\* timeFilter.Matches, a time of 0 standing for none.
Matches(filter, p) ==
    /\ filter.before # 0 => ~(filter.before < p.time)
    /\ filter.after # 0 => ~(p.time < filter.after)

\* What its help says: only packets before, after or between the times it is given are
\* accepted.
AcceptedAsDescribed(filter, p) ==
    Matches(filter, p) =>
        /\ filter.before # 0 => p.time < filter.before
        /\ filter.after # 0 => filter.after < p.time
================================================================================
