------------------------- MODULE MCPresenceRegistry -------------------------
(***************************************************************************)
(* Instances of PresenceRegistry for TLC: all tabs on one server process,  *)
(* as the repository deploys it, or every tab on a process of its own, as  *)
(* docs/MIGRATION_PLAN.md asks for.                                        *)
(***************************************************************************)
EXTENDS PresenceRegistry

OneServer == [t \in Tabs |-> CHOOSE s \in Servers : TRUE]
OwnServer == CHOOSE f \in [Tabs -> Servers] : \A t, u \in Tabs : t # u => f[t] # f[u]
=============================================================================
