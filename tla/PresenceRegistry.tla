-------------------------- MODULE PresenceRegistry --------------------------
(***************************************************************************)
(* The presence of one user when it is kept in Redis                       *)
(* (CHAT_REDIS_PRESENCE_ENABLED): backend/apps/presence/services.py over   *)
(* chat/realtime/connection_registry.py, called by ChatConsumer and by the *)
(* REST presence query.                                                    *)
(*                                                                         *)
(* A tab's consumer first edits Redis, one command at a time and under no  *)
(* lock; then it locks the user row, lists the registry again, and commits *)
(* the presence it computed.  A query only does the second half.  Both     *)
(* list_connections calls also clean the registry up.  Consumers of one    *)
(* server process run these steps in the event loop, without an await, so  *)
(* they exclude each other; queries and other processes do not.            *)
(***************************************************************************)
EXTENDS Naturals, FiniteSets

CONSTANTS
  Tabs,      \* browser tabs; each opens one WebSocket, once
  Queries,   \* POST /presence/query requests that ask for the user
  Servers,   \* ASGI server processes
  ServerOf,  \* the process each tab's WebSocket is connected to
  NoActor,   \* the user row is not locked
  Crashing,  \* the processes that may die
  Hiding,    \* the tabs the user may put in the background
  MaxLapses  \* bound: how often an open tab falls silent for the whole TTL

ASSUME ServerAssumption == ServerOf \in [Tabs -> Servers] /\ Crashing \subseteq Servers
ASSUME HidingAssumption == Hiding \subseteq Tabs
ASSUME ActorAssumption == Tabs \cap Queries = {} /\ NoActor \notin Tabs \union Queries
ASSUME LapseAssumption == MaxLapses \in Nat

VARIABLES
  tab,        \* life of each tab's consumer: "new", "open", "gone" after a
              \* disconnect, "dead" when its process died
  visible,    \* the tabs the user looks at (not document.hidden)
  conn,       \* Redis presence:conn:<channel>; "none" when absent or expired
  registry,   \* Redis set of the user's connection keys
  presence,   \* User.presence_state
  announced,  \* the last presence.updated sent to PRESENCE_GROUP
  lock,       \* the transaction that holds the user row
  job,        \* where each consumer and query stands
  lapses      \* how often Lapse has happened

vars == <<tab, visible, conn, registry, presence, announced, lock, job, lapses>>
redis == <<conn, registry>>

Actors == Tabs \union Queries
States == {"online", "afk", "offline"}
\* is_active; not active but interacted within the minute; neither.
Activity == {"active", "recent", "idle"}

Stages == {"idle", "register", "enroll", "unregister", "withdraw", "lock",
           "members", "get", "save", "publish", "done"}
Resting == [at |-> "idle", todo |-> {}, found |-> {}, dead |-> {}, news |-> "offline"]

TypeOK ==
  /\ tab \in [Tabs -> {"new", "open", "gone", "dead"}]
  /\ visible \subseteq Tabs /\ Tabs \ visible \subseteq Hiding
  /\ conn \in [Tabs -> Activity \union {"none"}]
  /\ registry \subseteq Tabs
  /\ presence \in States
  /\ announced \in States
  /\ lock \in Actors \union {NoActor}
  /\ job \in [Actors -> [at : Stages, todo : SUBSET Tabs, found : SUBSET Activity,
                         dead : SUBSET Tabs, news : States]]
  /\ \A a \in Actors : job[a].at = "save" => lock = a
  /\ lapses \in 0..MaxLapses

Init ==
  /\ tab = [t \in Tabs |-> "new"]
  /\ visible = Tabs
  /\ conn = [t \in Tabs |-> "none"]
  /\ registry = {}
  /\ presence = "offline"
  /\ announced = "offline"
  /\ lock = NoActor
  /\ job = [a \in Actors |-> Resting]
  /\ lapses = 0

-----------------------------------------------------------------------------
\* compute_presence
Compute(found) ==
  IF found = {} THEN "offline"
  ELSE IF found \cap {"active", "recent"} # {} THEN "online" ELSE "afk"

At(a, stage) == job[a].at = stage
Go(a, stage) == job' = [job EXCEPT ![a].at = stage]

\* Only group_send suspends a consumer between its start and its end.
LoopFree(s) ==
  \A t \in Tabs : ServerOf[t] = s => job[t].at \in {"idle", "publish"}

-----------------------------------------------------------------------------
(* The WebSocket: connect, presence.heartbeat, disconnect.                 *)

Connect(t) ==
  /\ tab[t] = "new" /\ LoopFree(ServerOf[t])
  /\ tab' = [tab EXCEPT ![t] = "open"]
  /\ Go(t, "register")
  /\ UNCHANGED <<visible, redis, presence, announced, lock, lapses>>

\* Variant: a heartbeat of a connection the registry lost is ignored.
HeartbeatKnown(t) ==
  /\ tab[t] = "open" /\ At(t, "idle") /\ LoopFree(ServerOf[t])
  /\ t \in registry
  /\ Go(t, "register")
  /\ UNCHANGED <<tab, visible, redis, presence, announced, lock, lapses>>

Heartbeat(t) ==
  /\ tab[t] = "open" /\ At(t, "idle") /\ LoopFree(ServerOf[t])
  /\ Go(t, "register")
  /\ UNCHANGED <<tab, visible, redis, presence, announced, lock, lapses>>

Disconnect(t) ==
  /\ tab[t] = "open" /\ At(t, "idle") /\ LoopFree(ServerOf[t])
  /\ tab' = [tab EXCEPT ![t] = "gone"]
  /\ Go(t, "unregister")
  /\ UNCHANGED <<visible, redis, presence, announced, lock, lapses>>

-----------------------------------------------------------------------------
(* register_connection and unregister_connection, command by command.      *)

\* The client always reports last_interaction_at = now.
Register(t) ==
  /\ At(t, "register")
  /\ conn' = [conn EXCEPT ![t] = IF t \in visible THEN "active" ELSE "recent"]
  /\ Go(t, "enroll")
  /\ UNCHANGED <<tab, visible, registry, presence, announced, lock, lapses>>

Enroll(t) ==
  /\ At(t, "enroll")
  /\ registry' = registry \union {t}
  /\ Go(t, "members")
  /\ UNCHANGED <<tab, visible, conn, presence, announced, lock, lapses>>

Unregister(t) ==
  /\ At(t, "unregister")
  /\ conn' = [conn EXCEPT ![t] = "none"]
  /\ Go(t, "withdraw")
  /\ UNCHANGED <<tab, visible, registry, presence, announced, lock, lapses>>

\* Variant: a closing tab deletes the registry key.
WithdrawAll(t) ==
  /\ At(t, "withdraw")
  /\ registry' = {}
  /\ Go(t, "members")
  /\ UNCHANGED <<tab, visible, conn, presence, announced, lock, lapses>>

Withdraw(t) ==
  /\ At(t, "withdraw")
  /\ registry' = registry \ {t}
  /\ Go(t, "members")
  /\ UNCHANGED <<tab, visible, conn, presence, announced, lock, lapses>>

-----------------------------------------------------------------------------
(* list_connections: SMEMBERS, one GET per member, then the clean-up.      *)

Members(a) ==
  /\ At(a, "members")
  /\ job' = [job EXCEPT ![a] = [@ EXCEPT !.at = "get", !.todo = registry,
                                         !.found = {}, !.dead = {}]]
  /\ UNCHANGED <<tab, visible, redis, presence, announced, lock, lapses>>

Get(a, t) ==
  /\ At(a, "get") /\ t \in job[a].todo
  /\ job' = [job EXCEPT
               ![a].todo = @ \ {t},
               ![a].found = IF conn[t] = "none" THEN @ ELSE @ \union {conn[t]},
               ![a].dead = IF conn[t] = "none" THEN @ \union {t} ELSE @]
  /\ UNCHANGED <<tab, visible, redis, presence, announced, lock, lapses>>

\* SREM of the stale members; DELETE of the registry when none is live.
Cleaned(found, dead) == IF found = {} THEN {} ELSE registry \ dead

\* The first list of a consumer is followed by the lock, the second by the save.
Tidy(a) ==
  /\ At(a, "get") /\ job[a].todo = {}
  /\ registry' = Cleaned(job[a].found, job[a].dead)
  /\ job' = [job EXCEPT ![a] = IF lock = a
               THEN [@ EXCEPT !.at = "save", !.dead = {}]
               ELSE [@ EXCEPT !.at = "lock", !.dead = {}, !.found = {}]]
  /\ UNCHANGED <<tab, visible, conn, presence, announced, lock, lapses>>

-----------------------------------------------------------------------------
(* recompute_user_presence, and the broadcast of what it changed.          *)

QueryStart(q) ==
  /\ q \in Queries /\ At(q, "idle")
  /\ Go(q, "lock")
  /\ UNCHANGED <<tab, visible, redis, presence, announced, lock, lapses>>

\* Variant: the user row is read without select_for_update.
RowUnlocked == TRUE

RowFree == lock = NoActor

Lock(a) ==
  /\ At(a, "lock") /\ RowFree
  /\ lock' = a
  /\ Go(a, "members")
  /\ UNCHANGED <<tab, visible, redis, presence, announced, lapses>>

\* Only a consumer is told what changed; get_presence_snapshots publishes nothing.
Save(a) ==
  LET computed == Compute(job[a].found)
  IN  /\ At(a, "save")
      /\ presence' = computed
      /\ lock' = NoActor
      /\ job' = [job EXCEPT ![a] =
           IF a \in Queries THEN [Resting EXCEPT !.at = "done"]
           ELSE IF computed = presence THEN Resting
           ELSE [Resting EXCEPT !.at = "publish", !.news = computed]]
      /\ UNCHANGED <<tab, visible, redis, announced, lapses>>

Publish(t) ==
  /\ At(t, "publish")
  /\ announced' = job[t].news
  /\ job' = [job EXCEPT ![t] = Resting]
  /\ UNCHANGED <<tab, visible, redis, presence, lock, lapses>>

-----------------------------------------------------------------------------
(* The environment: the user, time, and crashes.                           *)

Look(t) ==
  /\ t \in Hiding /\ tab[t] = "open"
  /\ visible' = IF t \in visible THEN visible \ {t} ELSE visible \union {t}
  /\ UNCHANGED <<tab, redis, presence, announced, lock, job, lapses>>

\* A minute without interaction passes for a tab reported inactive.
Age(t) ==
  /\ conn[t] = "recent"
  /\ conn' = [conn EXCEPT ![t] = "idle"]
  /\ UNCHANGED <<tab, visible, registry, presence, announced, lock, job, lapses>>

\* The key of a tab nobody serves any more reaches its TTL.
Expire(t) ==
  /\ tab[t] \in {"gone", "dead"} /\ At(t, "idle") /\ conn[t] # "none"
  /\ conn' = [conn EXCEPT ![t] = "none"]
  /\ UNCHANGED <<tab, visible, registry, presence, announced, lock, job, lapses>>

\* An open tab is suspended (a sleeping laptop) for longer than the TTL.
Lapse(t) ==
  /\ tab[t] = "open" /\ At(t, "idle") /\ conn[t] # "none"
  /\ lapses < MaxLapses
  /\ lapses' = lapses + 1
  /\ conn' = [conn EXCEPT ![t] = "none"]
  /\ UNCHANGED <<tab, visible, registry, presence, announced, lock, job>>

\* The registry outlives the keys it lists.
ExpireRegistry ==
  /\ registry # {} /\ \A t \in registry : conn[t] = "none"
  /\ registry' = {}
  /\ UNCHANGED <<tab, visible, conn, presence, announced, lock, job, lapses>>

\* A server process dies: its transactions roll back, disconnect never runs.
Crash(s) ==
  LET lost == {t \in Tabs : ServerOf[t] = s /\ (tab[t] = "open" \/ ~At(t, "idle"))}
  IN  /\ s \in Crashing
      /\ lost # {}
      /\ tab' = [t \in Tabs |-> IF t \in lost THEN "dead" ELSE tab[t]]
      /\ job' = [a \in Actors |-> IF a \in lost THEN Resting ELSE job[a]]
      /\ lock' = IF lock \in lost THEN NoActor ELSE lock
      /\ UNCHANGED <<visible, redis, presence, announced, lapses>>

-----------------------------------------------------------------------------
ConsumerStep(t) ==
  Register(t) \/ Enroll(t) \/ Unregister(t) \/ Withdraw(t) \/ Publish(t)

PresenceStep(a) ==
  Members(a) \/ (\E t \in Tabs : Get(a, t)) \/ Tidy(a) \/ Lock(a) \/ Save(a)

Next ==
  \/ \E t \in Tabs : \/ Connect(t) \/ Heartbeat(t) \/ Disconnect(t)
                     \/ ConsumerStep(t) \/ Look(t)
                     \/ Age(t) \/ Expire(t) \/ Lapse(t)
  \/ \E q \in Queries : QueryStart(q)
  \/ \E a \in Actors : PresenceStep(a)
  \/ ExpireRegistry
  \/ \E s \in Servers : Crash(s)

Spec == Init /\ [][Next]_vars

(* Started work finishes (the event loop and PostgreSQL's lock queue are   *)
(* first come, first served); an open tab's 30 s interval timer keeps      *)
(* firing; the TTL of an orphaned key runs out.  Nobody has to query.      *)
Fairness ==
  /\ \A t \in Tabs : /\ SF_vars(Heartbeat(t))
                     /\ WF_vars(ConsumerStep(t))
                     /\ WF_vars(Expire(t))
  /\ \A a \in Actors : WF_vars(PresenceStep(a)) /\ SF_vars(Lock(a))

FairSpec == Spec /\ Fairness
-----------------------------------------------------------------------------
(* Properties.                                                             *)

Settled == \A a \in Actors : job[a].at \in {"idle", "publish", "done"}

(* When no consumer and no query is at work, an open tab whose key is      *)
(* alive means the user is not offline, and without any open tab the user  *)
(* is (docs/API_CONTRACT.md 20).                                           *)
OfflineMeansNoTab ==
  Settled => (presence = "offline" <=> \A t \in Tabs : tab[t] # "open")

\* No query has run, no key of an open tab has expired, no process has died.
ConsumersOnly ==
  /\ \A q \in Queries : At(q, "idle")
  /\ lapses = 0
  /\ \A t \in Tabs : tab[t] # "dead"

(* The consumers of one process keep to it, whatever connects, beats and   *)
(* disconnects: they run their Redis commands without an await in between. *)
OneProcessIsExact ==
  (\A t, u \in Tabs : ServerOf[t] = ServerOf[u]) /\ ConsumersOnly => OfflineMeansNoTab

(* Whatever consumers and queries overlap, and in whatever order they get  *)
(* the user row, the user is offline once every tab has been closed: the   *)
(* registry is read under the row lock, after the tab's own key is gone.   *)
(* Only the death of a process may leave it otherwise.                     *)
ClosedUserIsOffline ==
  Settled /\ (\A t \in Tabs : tab[t] \in {"new", "gone"}) => presence = "offline"

(* A live connection the clean-up of a concurrent list dropped from the    *)
(* registry is enrolled again by its next heartbeat: an open tab does not  *)
(* leave the user offline for good, once queries and lapses have stopped.  *)
OpenTabComesBack ==
  \A t \in Tabs : <>[](tab[t] = "open") => <>[](presence # "offline")
=============================================================================
