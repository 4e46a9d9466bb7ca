-------------------------- MODULE MCSocialDialogs --------------------------
(***************************************************************************)
(* Instances of SocialDialogs for TLC.  The users of the pair, the request *)
(* rows and the slots are model values; they are interchangeable.          *)
(***************************************************************************)
EXTENDS SocialDialogs, TLC

Symmetry == Permutations(Users) \union Permutations(FriendRequests)
              \union Permutations(Slots)
=============================================================================
