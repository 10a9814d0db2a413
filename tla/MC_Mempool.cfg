CONSTANTS
    t1 = t1
    t2 = t2
    n1 = n1
    n2 = n2
    n3 = n3
    n4 = n4
    n5 = n5
    n6 = n6
    n7 = n7
    n8 = n8
    Thread <- MCThread
    Data <- MCData
    CacheSize = 2
    MaxUsed <- MCMaxUsedOver
SYMMETRY Symmetry
SPECIFICATION Spec
INVARIANTS
    TypeOK
    NodeConservation
    UnderflowOnlyAtSizingBound
CHECK_DEADLOCK FALSE
