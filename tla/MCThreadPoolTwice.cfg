\* Two workers and a second Wait.
SPECIFICATION Spec
CONSTANTS
    Workers = {w1, w2}
    Handlers = {h1}
    Client = Client
    Null = Null
    MaxWaits <- MCTwoWaits
INVARIANT WaitIsComplete
