SPECIFICATION SingleFairSpec
CONSTANTS
    Callers <- SingleThreads
    Results = {"r1"}
    Exceptions <- SingleFailures
    None = None
    Kinds = {"observer", "waiting command"}
    Timeout = 2
    Terminating = 1
    Scenarios <- SingleScenarios
    Chunks = 1
    LastAwait = 1
    MaxTime = 6
INVARIANTS OnTimeoutOnce EndHasReason
PROPERTIES NotTimedOutEarly DoneIsUnsubscribed ObserverEnds
CHECK_DEADLOCK FALSE
