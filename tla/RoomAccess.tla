----------------------------- MODULE RoomAccess -----------------------------
(***************************************************************************)
(* What room membership promises, without requests, locks or rows: every   *)
(* user is an outsider, a member or banned, never two of these, and moves  *)
(* between them one whole step at a time.  A ban ends a membership, and a  *)
(* banned user comes back only by being unbanned first.                    *)
(***************************************************************************)
CONSTANTS Users, NoUser
VARIABLES phase, founder, standing

vars == <<phase, founder, standing>>

Init ==
  /\ phase = "absent"
  /\ founder = NoUser
  /\ standing = [u \in Users |-> "outsider"]

Found(u) ==
  /\ phase = "absent"
  /\ phase' = "open"
  /\ founder' = u
  /\ standing' = [standing EXCEPT ![u] = "member"]

Move(u, from, to) ==
  /\ phase = "open"
  /\ standing[u] = from
  /\ standing' = [standing EXCEPT ![u] = to]
  /\ UNCHANGED <<phase, founder>>

Admit(u) == Move(u, "outsider", "member")
Depart(u) == u # founder /\ Move(u, "member", "outsider")
Exclude(u) == u # founder /\ Move(u, "member", "banned")
Readmit(u) == Move(u, "banned", "outsider")

Close ==
  /\ phase = "open"
  /\ phase' = "closed"
  /\ standing' = [u \in Users |-> "outsider"]
  /\ UNCHANGED founder

Next ==
  \/ \E u \in Users :
       Found(u) \/ Admit(u) \/ Depart(u) \/ Exclude(u) \/ Readmit(u)
  \/ Close

Spec == Init /\ [][Next]_vars
=============================================================================
