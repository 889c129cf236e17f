SPECIFICATION Spec
CONSTANT Sizes <- PoolSizes
INVARIANTS
    OwnedOnce
    FreeAccounted
    FullBatch
    EveryPacketOnce
PROPERTY FinishReturns
CHECK_DEADLOCK FALSE
