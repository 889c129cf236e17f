SPECIFICATION MCSpec
CONSTANTS
    Features <- MCFeatures
    Inputs <- MCInputs
    Frames <- MCFrames
    Flow <- MCFlow
    MaxLength = 65535
    JumboLimit = 10
    IDSpace = 16
    Second = 1000
    Decisecond = 100
    Millisecond = 10
    MaxRecords = 2
    SampleSize = 4
    uint32Size = 16
    Modulus = 64
    Thousand = 2
    MaxBatch = 9
    MaxKey = 3
    MaxSelected = 6
INVARIANTS
    FeaturesMean
    PromotionMeans
    SelectFinds
    BatchSorted
    BufferSpeaksForPacket
CHECK_DEADLOCK FALSE
