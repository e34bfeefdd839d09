\* Two clients for one slot, an Acceptor and accepts that may fail, two calls of
\* Stop, StopClient or a second Start, fair.
\* A server that nobody uses any more stands still.
SPECIFICATION FairSpec
CONSTANTS
    Sockets = {s1, s2}
    MaxConnections = 1
    Null = Null
    MaxData = 1
    MaxCalls = 2
    AcceptorMayFail = TRUE
CHECK_DEADLOCK FALSE
INVARIANT StoppedIsLast
PROPERTIES
    ImplementsLife
    StopDrains
    DepartureIsNoticed
