--------------------------- MODULE MCSharedLogger ---------------------------
(* Values of SharedLogger's constants for TLC. *)
EXTENDS SharedLogger, TLC

Symmetry == Permutations(Pools) \cup Permutations(Threads) \cup Permutations(Loggers)
=============================================================================
