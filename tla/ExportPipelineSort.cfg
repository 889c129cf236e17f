SPECIFICATION Spec
CONSTANTS
    NumTables = 1
    NumExporters = 1
    NumRecords = 2
    Orders <- ExpiryOrder
    Batches <- AllBatches
    Steady <- StopOrder
    Depth = 1
INVARIANT EachRecordOnce
CHECK_DEADLOCK FALSE
