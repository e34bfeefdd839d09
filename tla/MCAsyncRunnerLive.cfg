\* Two operations nobody cancels, which move between a pool and a strand, fair;
\* no symmetry, since properties are temporal.
SPECIFICATION FairSpec
CONSTANTS
    r1 = r1
    r2 = r2
    r3 = r3
    t1 = t1
    t2 = t2
    pool = pool
    strand = strand
    Null = Null
    Runners = {r1, r2}
    Threads <- MCThreads
    Schedulers <- MCSchedulers
    Sequential = {strand}
    ThreadsOf <- MCThreadsOf
    Cancellable = {}
    MaxOps = 2
INVARIANT
    StrandSerializes
PROPERTIES
    EveryOperationEnds
    WaitAllEnds
