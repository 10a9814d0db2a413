CONSTANTS
    w1 = w1
    w2 = w2
    Worker <- MCWorker
    HotKey = {0, 1, 2}
    Value = {1}
    Junk = {0}
    NUM_OPS = 3
    NUM_REGS = 2
    MaxTxns = 1
    SBCustomer = {0, 1}
    SBInitBal = 500
    TPWarehouse = {0, 1}
    TP_DISTRICTS = 1
    TP_NUM_ITEMS = 3
    TP_NUM_REGS = 2
    TPHot <- MCTPHot
    TPMaxLines = 2
    TPQty = {5}
    TPInitQty = 15
    TPAmount = {100}
    NUM_FUTURES = 2
    NUM_SLOTS = 4
    NoFuture = NoFuture
SYMMETRY Symmetry
SPECIFICATION Spec
INVARIANTS
    TypeOK
    MinimalPasses
    SwitchReadsLatest
    TPCCStockAgreesWithHost
    RepliesReachTheirFutures
PROPERTIES
    SBTransfersConserveMoney
CHECK_DEADLOCK FALSE
