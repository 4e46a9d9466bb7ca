------------------------- MODULE MCMessageTimeline -------------------------
(***************************************************************************)
(* Instances of MessageTimeline for TLC.  The request slots are            *)
(* interchangeable model values; messages are ordered and are not.         *)
(***************************************************************************)
EXTENDS MessageTimeline, TLC

Symmetry == Permutations(Slots)
=============================================================================
