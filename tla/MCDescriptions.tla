----------------------------- MODULE MCDescriptions ----------------------------
(*****************************************************************************)
(* The descriptions, comments and help texts that the code contradicts, one  *)
(* after the other.  A behaviour looks for a contradiction of the first one  *)
(* with a feature, a pair of values, a buffer or a filter; when it has found *)
(* one, all begins anew with the next description.                           *)
(*****************************************************************************)
EXTENDS MCLibrary, TimeFilter

VARIABLE topic    \* the description that is looked at

topicVars == <<allVars, topic>>

Topics == <<"median", "ports", "seconds", "sequence", "units", "types",
            "tags", "ethertype", "length", "filter">>
About(names) == topic \in DOMAIN Topics /\ Topics[topic] \in names

\* The features that four of them are about.
FeaturesNamed(names) == {x \in MCFeatures : x.name \in names}
FeatureTopics == {"median", "ports", "seconds", "sequence"}
Concerned ==
    [median |-> {x \in FeaturesNamed({"median"}) : x.inputs = "string"},
     ports |-> FeaturesNamed({"NTAPorts"}),
     seconds |-> FeaturesNamed({"consecutiveSeconds"}),
     sequence |-> FeaturesNamed(SequenceNumbers)]

\* Packets before, at and after the times of a filter.
FilterJobs ==
    {[kind |-> "filter", filter |-> [after |-> a, before |-> b], packet |-> [time |-> time]] :
        a \in {0, 2}, b \in {0, 4}, time \in 1 .. 5}

--------------------------------------------------------------------------------
Nothing == [value |-> Nil, s |-> NewState("none"), out |-> <<>>]
Blank ==
    /\ feature' = NoFeature /\ f' = Nothing /\ phase' = "none" /\ clock' = 0
    /\ given' = <<>> /\ before' = <<>>
    /\ buffer' = NewBuffer /\ packet' = [first |-> "none"] /\ decoded' = "nothing"
    /\ job' = NoJob /\ result' = <<>>

TopicInit ==
    /\ Create(NoFeature) /\ DecoderInit /\ job = NoJob /\ result = <<>>
    /\ topic = 1

\* A feature, a pair of values or a packet and a filter, to look at.
PickFeature ==
    /\ About(FeatureTopics) /\ feature = NoFeature
    /\ feature' \in Concerned[Topics[topic]]
    /\ f' = [Nothing EXCEPT !.s = NewState(feature'.name)]
    /\ UNCHANGED <<phase, clock, given, before, decoderVars, job, result, topic>>
PickJob ==
    /\ job = NoJob
    /\ \/ About({"units", "types"}) /\ job' \in PairJobs
       \/ About({"filter"}) /\ job' \in FilterJobs
    /\ UNCHANGED <<vars, decoderVars, result, topic>>

\* What the code makes of it.
Filter ==
    /\ About({"filter"}) /\ job # NoJob /\ result = <<>>
    /\ result' = <<Matches(job.filter, job.packet)>>
    /\ UNCHANGED <<vars, decoderVars, job, topic>>
Look ==
    \/ About(FeatureTopics) /\ feature # NoFeature /\ OneFeature /\ UNCHANGED topic
    \/ About({"units", "types"}) /\ Compute /\ UNCHANGED topic
    \/ About({"tags", "ethertype", "length"}) /\ DecodeFrame /\ UNCHANGED topic
    \/ Filter

FilterAsDescribed == Finished("filter") => AcceptedAsDescribed(job.filter, job.packet)

\* The description that is looked at.
Holds ==
    CASE About({"median"}) -> MedianAsDescribed
      [] About({"ports"}) -> PortsAsDescribed
      [] About({"seconds"}) -> SecondsAsDescribed
      [] About({"sequence"}) -> FirstNumberAsDescribed
      [] About({"units"}) -> UnitsMeet
      [] About({"types"}) -> TypeAsAnnounced
      [] About({"tags"}) -> TagsOfPacket
      [] About({"ethertype"}) -> EtherTypeOfPacket
      [] About({"length"}) -> LengthOfPacket
      [] About({"filter"}) -> FilterAsDescribed

\* It is contradicted: on to the next one.
Contradict == topic \in DOMAIN Topics /\ ~Holds /\ topic' = topic + 1 /\ Blank

TopicNext == Contradict \/ (topic \in DOMAIN Topics /\ Holds /\ (PickFeature \/ PickJob \/ Look))
TopicSpec == TopicInit /\ [][TopicNext]_topicVars

\* At least one of the descriptions is kept: it follows from each of them (if
\* MedianAsDescribed holds, topic stays 1, and so on), and a behaviour that violates it
\* contradicts every single one, in the order of Topics.
SomeDescriptionKept == topic \in DOMAIN Topics
================================================================================
