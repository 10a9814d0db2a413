CONSTANTS
    n1 = n1
    n2 = n2
    w1 = w1
    w2 = w2
    w3 = w3
    k1 = k1
    k2 = k2
    Node <- MCNode
    Key <- MCKey
    Home <- MCHome
    Worker <- MCWorker3
    NodeOf <- MCNodeOf3
    WorkerId <- MCWorkerId3
    Program <- MCProgram3
    MaxClock = 3
    CCs = {"NONE"}
SPECIFICATION FairSpec
INVARIANTS
    LeakFree
