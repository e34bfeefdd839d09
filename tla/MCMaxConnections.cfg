\* More clients than slots.  A server that nobody uses any more stands still.
SPECIFICATION FairSpec
CONSTANTS
    Sockets = {s1, s2, s3}
    MaxConnections = 1
    Null = Null
    MaxData = 0
    MaxCalls = 0
    AcceptorMayFail = FALSE
CHECK_DEADLOCK FALSE
PROPERTY ClientIsAnswered
