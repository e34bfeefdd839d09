\* Each of the four, with up to three handlers.
SPECIFICATION FairSpec
CONSTANT MaxHandlers = 3
INVARIANTS WaitsForAll FirstWins FrameIsAlive
PROPERTIES ParentGoesOn ImplementsTask
CHECK_DEADLOCK FALSE
