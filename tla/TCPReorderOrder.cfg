SPECIFICATION Spec
CONSTANTS
    uint32Size = 32
    Packets <- SegmentPackets
    MaxPackets = 6
INVARIANT OrderedBySequence
CHECK_DEADLOCK FALSE
