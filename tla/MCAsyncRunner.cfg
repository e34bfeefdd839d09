\* Three operations, so that a deferred handler can start two; two threads, a pool
\* and a strand; events reach one operation.
SPECIFICATION Spec
CONSTANTS
    r1 = r1
    r2 = r2
    r3 = r3
    t1 = t1
    t2 = t2
    pool = pool
    strand = strand
    Null = Null
    Runners <- MCRunners
    Threads <- MCThreads
    Schedulers <- MCSchedulers
    Sequential = {strand}
    ThreadsOf <- MCThreadsOf
    Cancellable = {r2}
    MaxOps = 1
SYMMETRY Symmetry
INVARIANTS
    TypeOK
    OneContinuation
    ContextIsCurrent
    RunsInItsContext
PROPERTIES
    WaitAllWaits
    ImplementsTask
    UsesCoroutines
