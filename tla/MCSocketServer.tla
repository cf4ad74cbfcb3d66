--------------------------- MODULE MCSocketServer ---------------------------
(* Values of SocketServer's constants for TLC. *)
EXTENDS SocketServer, TLC

\* Descriptors are interchangeable: the kernel may hand out any of them, since the rest of the
\* process may hold the lower ones.
Symmetry == Permutations(Fds) \cup Permutations(Apps) \cup Permutations(Recievers)
              \cup Permutations(Peers)
=============================================================================
