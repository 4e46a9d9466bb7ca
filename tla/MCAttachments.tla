--------------------------- MODULE MCAttachments ---------------------------
(***************************************************************************)
(* Instances of Attachments for TLC.  Files, messages and slots are model  *)
(* values; they are interchangeable.                                       *)
(***************************************************************************)
EXTENDS Attachments, TLC

Symmetry == Permutations(Files) \union Permutations(Messages)
              \union Permutations(Slots)

AnyStage == Stages \ {"idle"}
=============================================================================
