\* Pools of one, two and three threads.
SPECIFICATION FairSpec
CONSTANTS
    Workers = {w1, w2, w3}
    Handlers = {h1, h2}
    Client = Client
    Null = Null
    MaxWaits <- MCWaits
INVARIANTS
    WaitIsComplete
PROPERTIES
    EveryHandlerRuns
    WaitEnds
    DestructorEnds
