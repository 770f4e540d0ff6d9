SPECIFICATION Spec
CONSTANTS
    Callers = {t1, t2}
    Results = {r1}
    Exceptions = {e1, e2}
    None = None
    Kinds = {"observer", "command", "waiting command"}
SYMMETRY CallerSymmetry
INVARIANTS FailureIsAccounted CallbackOnce
