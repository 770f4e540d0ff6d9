------------------------- MODULE MCThreadedConnection -------------------------
(* Instances of ThreadedConnection.                                          *)
EXTENDS ThreadedConnection, TLC

ObserverSymmetry == Permutations(Observers)

=============================================================================
