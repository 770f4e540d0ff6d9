---------------------------- MODULE ConnectionSlot ----------------------------
(***************************************************************************)
(* What a user of one connection may rely on, whatever the scheduler and    *)
(* the runner do to keep it: commands run there one at a time.              *)
(***************************************************************************)
CONSTANT Cmds

VARIABLE phase   \* phase of each command, as its user sees it

Init == phase = [c \in Cmds |-> "idle"]

Move(c, p) == phase' = [phase EXCEPT ![c] = p]

\* start() was called.
Request(c) == phase[c] = "idle" /\ Move(c, "waiting")

\* The command gets the connection: no other command may run.
Run(c) ==
    /\ phase[c] = "waiting"
    /\ \A d \in Cmds : phase[d] # "running"
    /\ Move(c, "running")

\* The command ends: after it ran, before it ran, or before it was even started.
End(c) == phase[c] # "over" /\ Move(c, "over")

Next == \E c \in Cmds : Request(c) \/ Run(c) \/ End(c)

Spec == Init /\ [][Next]_phase

=============================================================================
