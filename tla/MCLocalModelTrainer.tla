------------------------- MODULE MCLocalModelTrainer -------------------------
(* Model-checking instance of LocalModelTrainer: clients and futures are   *)
(* model values, interchangeable, so TLC may reduce by their permutations. *)
EXTENDS LocalModelTrainer, TLC

MCSymmetry == Permutations(Clients) \cup Permutations(Futures)
=============================================================================
