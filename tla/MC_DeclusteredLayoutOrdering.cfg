CONSTANTS
    Txns <- MCTxns
    MaxSamples = 2
    NPart = 4
    Algo = "RMAXCUT"
    TopoSort = TRUE
    STAGES = 4
    REG_SIZE = 2
    MAX_ACCESSES = 10
SPECIFICATION Spec
INVARIANT OrderingInBounds
CHECK_DEADLOCK FALSE
