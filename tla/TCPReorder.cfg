SPECIFICATION Spec
CONSTANTS
    uint32Size = 32
    Packets <- MixedPackets
    MaxPackets = 6
INVARIANTS CopiesReturned InOrderWhenClean
PROPERTIES HeldIsForwarded
\* A flow that has ended does nothing more.
CHECK_DEADLOCK FALSE
