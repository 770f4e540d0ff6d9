SPECIFICATION Spec
CONSTANTS
    Observers = {o1, o2}
    Rounds = 1
    Chunks = 2
    Closings = 2
    IdsReused = TRUE
SYMMETRY ObserverSymmetry
PROPERTIES ImplementsPromise ToldBeforeStopped
CHECK_DEADLOCK FALSE
