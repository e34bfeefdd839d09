\* One process; once it has ended nothing happens any more.
SPECIFICATION FairSpec
CHECK_DEADLOCK FALSE
INVARIANTS
    LeavesLast
    EngineOutlivesItsUsers
PROPERTY
    SignalEnds
