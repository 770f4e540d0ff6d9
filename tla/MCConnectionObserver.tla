------------------------- MODULE MCConnectionObserver -------------------------
(* Instances of ConnectionObserver.                                          *)
EXTENDS ConnectionObserver, TLC

CallerSymmetry == Permutations(Callers)

=============================================================================
