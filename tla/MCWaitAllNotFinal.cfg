\* A parent, the operation that wakes it and the one its loop starts too late.
SPECIFICATION Spec
CONSTANTS
    r1 = r1
    r2 = r2
    r3 = r3
    t1 = t1
    t2 = t2
    pool = pool
    strand = strand
    Null = Null
    Runners <- MCRunners
    Threads <- MCThreads
    Schedulers <- MCSchedulers
    Sequential = {strand}
    ThreadsOf <- MCThreadsOf
    Cancellable = {}
    MaxOps = 1
INVARIANT
    WaitAllIsFinal
