----------------------------- MODULE PairAccess -----------------------------
(***************************************************************************)
(* What friendship, bans and the personal dialog promise to two users,     *)
(* without requests, locks or rows: every rule is one whole step.  The     *)
(* dialog, once opened, is open exactly while they may talk, and a message *)
(* is written into an open dialog only.  A ban ends the friendship and not *)
(* the other's question, whose answer may come under the ban.              *)
(***************************************************************************)
EXTENDS Naturals

CONSTANT Users
VARIABLES
  friends,
  asking,     \* who has asked to be friends and waits for the answer
  banning,    \* who bans the other
  dialog,     \* "absent", "open" or "frozen"
  written     \* how many messages it has

vars == <<friends, asking, banning, dialog, written>>

Init ==
  /\ friends = FALSE /\ asking = {} /\ banning = {}
  /\ dialog = "absent" /\ written = 0

MayTalk == friends /\ banning = {}

\* The dialog follows, if there is one.
DialogFollows ==
  dialog' = IF dialog = "absent" THEN "absent" ELSE IF MayTalk' THEN "open" ELSE "frozen"

Ask(u) ==
  /\ ~friends /\ banning = {} /\ asking = {}
  /\ asking' = {u}
  /\ UNCHANGED <<friends, banning, dialog, written>>

Accept(u) ==
  /\ u \in asking /\ asking' = asking \ {u}
  /\ friends' = TRUE
  /\ DialogFollows
  /\ UNCHANGED <<banning, written>>

Decline(u) ==
  /\ u \in asking /\ asking' = asking \ {u}
  /\ UNCHANGED <<friends, banning, dialog, written>>

Part ==
  /\ friends /\ friends' = FALSE
  /\ DialogFollows
  /\ UNCHANGED <<asking, banning, written>>

Ban(u) ==
  /\ u \notin banning /\ banning' = banning \union {u}
  /\ friends' = FALSE
  /\ DialogFollows
  /\ UNCHANGED <<asking, written>>

Lift(u) ==
  /\ u \in banning /\ banning' = banning \ {u}
  /\ DialogFollows
  /\ UNCHANGED <<friends, asking, written>>

OpenDialog ==
  /\ MayTalk /\ dialog = "absent" /\ dialog' = "open"
  /\ UNCHANGED <<friends, asking, banning, written>>

Write ==
  /\ MayTalk /\ dialog = "open" /\ written' = written + 1
  /\ UNCHANGED <<friends, asking, banning, dialog>>

Next ==
  \/ \E u \in Users : Ask(u) \/ Accept(u) \/ Decline(u) \/ Ban(u) \/ Lift(u)
  \/ Part \/ OpenDialog \/ Write

Spec == Init /\ [][Next]_vars
=============================================================================
