---------------------------- MODULE MCFeatureGraph -----------------------------
(* Specifications for FeatureGraph, one and two features long.                *)
EXTENDS FeatureGraph

Length == Feature("ipTotalLength")
Direction == Feature("flowDirection")
N(n) == Constant(Number(n))
Yes == Constant(True)
Forward == Feature("forward")
Backward == Feature("backward")
Short == Call("less", <<Length, N(2)>>)
OnlyShort == Call("select", <<Short>>)
Half == Call("divide", <<Length, N(2)>>)

SingleFeatures == {
    Length,
    Feature("minimumIpTotalLength"),
    Feature("flowStartNanoseconds"),
    Call("min", <<Length>>),
    Call("count", <<OnlyShort>>),
    Call("count", <<Short>>),
    Call("apply", <<Length, OnlyShort>>),
    Call("apply", <<Call("min", <<Length>>), Forward>>),
    Call("apply", <<Feature("flowStartNanoseconds"), Forward>>),
    Call("apply", <<Call("apply", <<Call("min", <<Length>>), Backward>>), Forward>>),
    Call("apply", <<Call("apply", <<Feature("packetTotalCount"), Forward>>), OnlyShort>>),
    Call("apply", <<Call("min", <<Half>>), Call("select_slice", <<N(1), N(3)>>)>>),
    Call("get", <<N(1), Call("map", <<Length, Forward>>)>>),
    Call("min", <<Call("slice", <<N(1), N(2), Length>>)>>),
    Call("min", <<Call("divide", <<N(4), Length>>)>>),
    Call("min", <<Call("divide", <<Length, Call("map", <<Length, Forward>>)>>)>>),
    Call("min", <<Call("divide", <<Length, Direction>>)>>),
    Call("count", <<Call("select", <<Call("and", <<Short, Direction, Yes>>)>>)>>),
    Call("count", <<Call("select", <<Call("and", <<Direction, Short, Call("less", <<N(1), Length>>)>>)>>)>>),
    Call("count", <<Call("select", <<Call("less", <<Call("map", <<Length, Backward>>), N(2)>>)>>)>>),
    Call("divide", <<Length, Call("min", <<Length>>)>>),
    Call("divide", <<Call("apply", <<Feature("packetTotalCount"), Backward>>),
                     Call("apply", <<Feature("packetTotalCount"), Forward>>)>>) }

\* Features that cannot be built.
BadFeatures == {
    Feature("min"),
    Call("min", <<Feature("minimumIpTotalLength")>>),
    Call("apply", <<Length, Length>>) }

\* Each of them before and after all others: they share parts with most of them.
Partners == {
    Call("min", <<Length>>),
    Call("count", <<OnlyShort>>),
    Call("apply", <<Feature("packetTotalCount"), Forward>>) }

Lists ==
    {<<f>> : f \in SingleFeatures \cup BadFeatures}
    \cup (SingleFeatures \X Partners) \cup (Partners \X SingleFeatures)

SomePackets == {
    [length |-> 0, forward |-> TRUE],
    [length |-> 1, forward |-> FALSE],
    [length |-> 2, forward |-> TRUE],
    [length |-> 3, forward |-> FALSE] }
================================================================================
