CONSTANTS
    n1 = n1
    n2 = n2
    w1 = w1
    w2 = w2
    Node <- MCNode
    Worker <- MCWorker
SPECIFICATION FairSpec
INVARIANTS
    TypeOK
    InitSound
    BarrierSafe
    WorkersStartTogether
PROPERTIES
    Termination
