SPECIFICATION Spec
CONSTANTS
    None = None
    Inputs <- AllInputs
INVARIANTS
    EveryPacketRead
    LabelsMatch
    KeyIdentifiesFlow
    WindowsBounded
    StopWithinOneSource
CHECK_DEADLOCK FALSE
