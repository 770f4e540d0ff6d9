SPECIFICATION RunnerFairSpec
CONSTANTS
    Callers <- RunnerThreads
    Results = {"r1"}
    Exceptions <- FailuresSeen
    None = None
    Kinds = {"observer", "command", "waiting command"}
    Chunks = 2
    Terminates = TRUE
    AwaitTimeouts = {TRUE}
    Intruders = {}
    FeedMayDie = FALSE
INVARIANTS ResultXorException EndHasReason OnTimeoutOnce
PROPERTIES OutcomeIsFinal ObserverEnds
CHECK_DEADLOCK FALSE
