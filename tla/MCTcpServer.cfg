\* Three clients for two slots, accepts that fail, one Stop or StopClient.
\* A server that nobody uses any more stands still.
SPECIFICATION Spec
CONSTANTS
    Sockets = {s1, s2, s3}
    MaxConnections = 2
    Null = Null
    MaxData = 1
    MaxCalls = 1
    AcceptorMayFail = TRUE
CHECK_DEADLOCK FALSE
SYMMETRY Symmetry
INVARIANTS
    OneAcceptLoop
    OneReadLoop
    SlotsAgree
PROPERTY EventOrder
