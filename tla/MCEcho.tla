------------------------------- MODULE MCEcho -------------------------------
(* Values of Echo's constants for TLC. *)
EXTENDS Echo

CONSTANTS m1, m2, m3

\* With its header every frame is longer than the stream.
MCRequestSize == [m \in Requests |-> IF m = m2 THEN 2 ELSE 1]
MCReplySize == [m \in Requests |-> IF m = m3 THEN 2 ELSE 1]
=============================================================================
