CONSTANTS
    Thread = {t1, t2}
    MaxSize = 2
    InitSize = 1
SPECIFICATION Spec
INVARIANT InsertWithinCapacity
