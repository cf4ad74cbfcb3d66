---------------------------- MODULE MCThreadPool ----------------------------
(* Values of ThreadPool's constants for TLC, and the symmetry of its safety runs. *)
EXTENDS ThreadPoolRefinement, TLC

\* Workers are alike and so are tasks; Owner is the one client that is not like the others.
Symmetry == Permutations(Workers) \cup Permutations(Tasks)
=============================================================================
