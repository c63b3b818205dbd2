---------------------------- MODULE MCCoordinator ----------------------------
(* A small queue: drain goroutines are interchangeable. *)
EXTENDS Coordinator, TLC

CONSTANTS p1, p2, main, d1, d2

DrainerSymmetry == Permutations(Drainers)
=============================================================================
