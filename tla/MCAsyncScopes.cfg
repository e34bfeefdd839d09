\* One operation on two pools: guards, timeouts and proxies up to three deep, fair.
SPECIFICATION FairSpec
CONSTANTS
    Ops = {o1}
    main = main
    net = net
    t1 = t1
    t2 = t2
    Schedulers <- MCSchedulers
    Threads <- MCThreads
    ThreadsOf <- MCThreadsOf
    Timers = {k1, k2}
    Null = Null
    MaxCalls = 4
    MaxDepth = 3
INVARIANTS EventsFollowGuards ProxiesSwitch Survives
CHECK_DEADLOCK FALSE
PROPERTIES StatusSticks EveryOperationEnds
