--------------------------- MODULE MCRoomRealtime ---------------------------
(***************************************************************************)
(* Instance of RoomRealtime for TLC: the owner, and a member whose         *)
(* connection is observed; the owner's requests need no connection.        *)
(***************************************************************************)
EXTENDS RoomRealtime

MemberConn == [c \in Conns |-> CHOOSE u \in Users : u # Owner]

\* A loss of access with a control event and one without, and the way back.  A
\* departure is a ban here, and an unban sends the event of a return; a promotion
\* forces out a user with access, as does the event of a ban that arrives after
\* the return.
CheckedOps == {"post", "edit", "delete", "ban", "remove", "enter"}
=============================================================================
