-------------------------- MODULE MCCommandScheduler --------------------------
(* Instances of CommandScheduler: model values come from the .cfg files.     *)
EXTENDS CommandScheduler, TLC

CmdSymmetry == Permutations(Cmds)

=============================================================================
