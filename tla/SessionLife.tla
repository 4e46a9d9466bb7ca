---------------------------- MODULE SessionLife ----------------------------
(***************************************************************************)
(* What the sessions of one user promise, without requests, rows and       *)
(* records: a session is opened once under its key, lapses when its time   *)
(* or its password has passed, may be renewed until it is over, and then   *)
(* it is over.  A new password leaves no session in: the one that has set  *)
(* it is over too and goes on under a new key, once that key is renewed.   *)
(***************************************************************************)
CONSTANT Keys
VARIABLES
  closed,     \* the account is deleted
  standing    \* of each key: "unused", "in", "lapsed" or "over"

vars == <<closed, standing>>

Init == closed = FALSE /\ standing = [k \in Keys |-> "unused"]

Move(new) == ~closed /\ UNCHANGED closed /\ standing' = new

\* A login opens a session; the password may have changed meanwhile.
SignIn(k) ==
  /\ standing[k] = "unused"
  /\ \E now \in {"in", "lapsed"} : Move([standing EXCEPT ![k] = now])

\* The session the browser had is over with the login.
SignInAnew(old, k) ==
  /\ standing[old] # "unused" /\ standing[k] = "unused"
  /\ \E now \in {"in", "lapsed"} : Move([standing EXCEPT ![old] = "over", ![k] = now])

Renew(k) == standing[k] = "lapsed" /\ Move([standing EXCEPT ![k] = "in"])
Lapse(k) == standing[k] = "in" /\ Move([standing EXCEPT ![k] = "lapsed"])
End(k) == standing[k] \in {"in", "lapsed"} /\ Move([standing EXCEPT ![k] = "over"])

AllLapsed == [k \in Keys |-> IF standing[k] = "in" THEN "lapsed" ELSE standing[k]]

SetPassword(old, k) ==
  /\ standing[old] # "unused" /\ standing[k] = "unused"
  /\ Move([AllLapsed EXCEPT ![old] = "over", ![k] = "lapsed"])

ResetPassword == Move(AllLapsed)

Close == ~closed /\ closed' = TRUE /\ standing' = [k \in Keys |-> "over"]

Next ==
  \/ \E k \in Keys : SignIn(k) \/ Renew(k) \/ Lapse(k) \/ End(k)
  \/ \E old, k \in Keys : SignInAnew(old, k) \/ SetPassword(old, k)
  \/ ResetPassword \/ Close

Spec == Init /\ [][Next]_vars
=============================================================================
