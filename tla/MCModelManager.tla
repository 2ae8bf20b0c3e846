--------------------------- MODULE MCModelManager ---------------------------
(* Instances of ModelManager for TLC.                                      *)
EXTENDS ModelManager, TLC

\* Threads and models are interchangeable in every safety property.
Symmetry == Permutations(Threads) \cup Permutations(Models)
=============================================================================
