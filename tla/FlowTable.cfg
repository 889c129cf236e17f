SPECIFICATION TableSpec
CONSTANTS
    k1 = k1
    k2 = k2
    Nil = Nil
    Keys = {k1, k2}
    Packets <- TablePackets
    Options <- TableOptions
    Records <- TwoRecords
    Outcomes <- TableOutcomes
    MaxPackets = 4
    Times = {0, 1, 2, 3}
INVARIANTS
    TypeOK
    TableConsistent
    OnlyPassedInactive
    EveryFlowAccounted
    TimersBounded
    OneWindow
    OpenEntriesOwned
    ExportsConserved
    OutputSorted
    NothingHeldBack
    EOFEmpties
PROPERTIES
    NoLateDelivery
    ExpireIsComplete
    ImplementsFlowLife
CHECK_DEADLOCK FALSE
