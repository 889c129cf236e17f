SPECIFICATION Spec
CONSTANTS
    k1 = k1
    k2 = k2
    Nil = Nil
    Keys = {k1, k2}
    Packets <- WindowPackets
    Options <- WindowOptions
    Records <- OneRecord
    Outcomes <- RunOnly
    MaxPackets = 3
    Times = {0}
INVARIANT ContextIsFlow
CHECK_DEADLOCK FALSE
