SPECIFICATION FairSpec
CONSTANTS
    Cmds = {c1, c2}
    Events = {}
    NoCmd = NoCmd
    Interrupters = {"canceller"}
PROPERTY SlotIsGivenBack
CHECK_DEADLOCK FALSE
