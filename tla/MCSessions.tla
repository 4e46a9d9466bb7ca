----------------------------- MODULE MCSessions -----------------------------
(***************************************************************************)
(* Instances of Sessions for TLC.  Keys, tokens and slots are model values *)
(* and interchangeable.                                                    *)
(***************************************************************************)
EXTENDS Sessions, TLC

Symmetry == Permutations(Keys) \union Permutations(Tokens) \union Permutations(Slots)
=============================================================================
