--------------------------- MODULE MCSocketClient ---------------------------
(* Values of SocketClient's constants for TLC. *)
EXTENDS SocketClient, TLC

\* Descriptors are interchangeable: the kernel may hand out any of them, since the rest of the
\* process may hold the lower ones.
Symmetry == Permutations(Fds) \cup Permutations(Apps) \cup Permutations(Recievers)
=============================================================================
