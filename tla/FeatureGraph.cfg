SPECIFICATION Spec
CONSTANTS
    Specifications <- Lists
    Packets <- SomePackets
    MaxPackets = 3
INVARIANTS
    ExportsMatch
    PanicsJustified
    ColumnsInOrder
    NothingPending
CHECK_DEADLOCK FALSE
