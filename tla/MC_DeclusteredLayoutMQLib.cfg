CONSTANTS
    Txns <- MCTxns
    MaxSamples = 2
    NPart = 4
    Algo = "MQLIB"
    TopoSort = TRUE
    STAGES = 4
    REG_SIZE = 2
    MAX_ACCESSES = 10
SPECIFICATION Spec
INVARIANT PartitionSucceeds
CHECK_DEADLOCK FALSE
