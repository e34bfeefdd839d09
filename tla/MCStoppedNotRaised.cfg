\* Stop between two reads.  A server that nobody uses any more stands still.
SPECIFICATION FairSpec
CONSTANTS
    Sockets = {s1}
    MaxConnections = 1
    Null = Null
    MaxData = 1
    MaxCalls = 1
    AcceptorMayFail = FALSE
CHECK_DEADLOCK FALSE
PROPERTY StoppedIsRaised
