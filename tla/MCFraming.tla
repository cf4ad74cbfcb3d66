----------------------------- MODULE MCFraming -----------------------------
(* Values of Framing's constants for TLC: an empty message among others, and a stream that is
   smaller than the longest frame. *)
EXTENDS Framing

CONSTANTS m0, m1, m2, m3

MCSize == (m0 :> 0) @@ (m1 :> 1) @@ (m2 :> 2) @@ (m3 :> 3)
MCSizeSmall == (m0 :> 0) @@ (m1 :> 1) @@ (m3 :> 3)
=============================================================================
