--------------------------- MODULE MCStorePersist ---------------------------
(***************************************************************************)
(* StorePersist with symmetric handlers and inodes.                        *)
(***************************************************************************)
EXTENDS StorePersist, TLC

Symmetry == Permutations(Handlers) \cup Permutations(Inodes)
=============================================================================
