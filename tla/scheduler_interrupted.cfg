SPECIFICATION Spec
CONSTANTS
    Cmds = {c1, c2, c3}
    Events = {}
    NoCmd = NoCmd
    Interrupters = {"canceller", "awaiter"}
SYMMETRY CmdSymmetry
INVARIANTS SchedulerInv OneCommandRuns
PROPERTY ImplementsSlot
CHECK_DEADLOCK FALSE
