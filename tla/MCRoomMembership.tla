--------------------------- MODULE MCRoomMembership --------------------------
(***************************************************************************)
(* Instances of RoomMembership for TLC.  Users, request slots and          *)
(* invitation keys are model values; they are interchangeable.             *)
(***************************************************************************)
EXTENDS RoomMembership, TLC

Symmetry == Permutations(Users) \union Permutations(Requests)
              \union Permutations(Invitations)

\* The mixes of requests the runs ask for.
ConcurrentOps == AllOps \ {"read", "delete", "unban"}
=============================================================================
