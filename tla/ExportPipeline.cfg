SPECIFICATION Spec
CONSTANTS
    NumTables = 3
    NumExporters = 2
    NumRecords = 3
    Orders <- AllOrders
    Batches <- SoundBatches
    Steady <- StopOrder
    Depth = 1
INVARIANTS
    EachRecordOnce
    OutputOrdered
    TailsCached
PROPERTY FlushReturns
CHECK_DEADLOCK FALSE
