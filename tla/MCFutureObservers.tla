-------------------------- MODULE MCFutureObservers --------------------------
(* Model-checking instance of FutureObservers. Readers are interchangeable *)
(* model values; symmetry is used only by the safety runs.                 *)
EXTENDS FutureObservers, TLC

MCSymmetry == Permutations(Readers)
=============================================================================
