SPECIFICATION Spec
CONSTANTS
    Disturbed <- Troubled
    BgStates <- ToRoot
    Budgets <- TwoCalls
    RemoveRerun = 1
INVARIANTS RequestIsServed OneWalk StateIsActual KeptIsReturnedTo GotoArrives
PROPERTIES RemoveLeavesNothingOpen GotoEnds
CHECK_DEADLOCK FALSE
