SPECIFICATION RunnerFairSpec
CONSTANTS
    Callers <- RunnerThreads
    Results = {"r1"}
    Exceptions <- FailuresSeen
    None = None
    Kinds = {"observer"}
    Chunks = 1
    Terminates = FALSE
    AwaitTimeouts = {FALSE}
    Intruders = {"cancel", "close", "shutdown"}
    FeedMayDie = TRUE
PROPERTIES DoneIsUnsubscribed WaitForReturns
CHECK_DEADLOCK FALSE
