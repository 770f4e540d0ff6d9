SPECIFICATION FairSpec
CONSTANTS
    Observers = {o1}
    Rounds = 2
    Chunks = 3
    Closings = 1
    IdsReused = FALSE
INVARIANT OneWrapperServes
PROPERTY EveryChunkComes
CHECK_DEADLOCK FALSE
