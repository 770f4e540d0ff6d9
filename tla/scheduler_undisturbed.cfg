SPECIFICATION FairSpec
CONSTANTS
    Cmds = {c1, c2, c3}
    Events = {e1}
    NoCmd = NoCmd
    Interrupters = {}
INVARIANT NoSilentEnd
PROPERTIES SendsAlone SlotIsGivenBack EnqueuedEnds
CHECK_DEADLOCK FALSE
