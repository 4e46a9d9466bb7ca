--------------------------- MODULE PresenceProofs ---------------------------
(***************************************************************************)
(* Proofs about PresenceRegistry for any tabs, queries and processes, with *)
(* any of the processes dying and any of the tabs falling silent.          *)
(***************************************************************************)
EXTENDS PresenceRegistry, TLAPS

-----------------------------------------------------------------------------
(* The inductive invariant.                                                *)

\* The lock is held by a transaction; a key exists while its tab is served, or
\* until its disconnect has deleted it.
StageInv ==
  /\ \A a \in Actors : lock = a => job[a].at \in {"members", "get", "save"}
  /\ \A t \in Tabs : At(t, "register") => tab[t] = "open"
  /\ \A t \in Tabs : conn[t] # "none" => tab[t] \in {"open", "dead"} \/ At(t, "unregister")

Served(t) == tab[t] \in {"open", "dead"}

\* The consumer of t has still to take the lock and compute the presence.
WillCompute(t) ==
  \/ job[t].at \in {"unregister", "withdraw", "lock"}
  \/ job[t].at \in {"members", "get"} /\ lock # t

\* ... or is computing it.
Computing(t) == job[t].at \in {"unregister", "withdraw", "lock", "members", "get", "save"}

\* A transaction that has found a key will be corrected when the key has gone.
FoundInv ==
  \A a \in Actors :
    lock = a /\ job[a].at \in {"get", "save"} /\ job[a].found # {} =>
      \E t \in Tabs : Served(t) \/ WillCompute(t)

\* So will a presence that is not offline.
PresenceInv == presence # "offline" => \E t \in Tabs : Served(t) \/ Computing(t)

IInv == TypeOK /\ StageInv /\ FoundInv /\ PresenceInv

-----------------------------------------------------------------------------
(* Steps of one consumer or query.                                         *)

Job == [at : Stages, todo : SUBSET Tabs, found : SUBSET Activity, dead : SUBSET Tabs,
        news : States]

LEMMA RestingTyped == Resting \in Job /\ Resting.at = "idle"
BY DEF Resting, Job, Stages, States

LEMMA TabsAreActors == Tabs \subseteq Actors /\ Queries \subseteq Actors
BY DEF Actors

\* One job goes on as r.
LEMMA JobChanges ==
  ASSUME TypeOK, NEW a \in Actors, NEW r \in Job, job' = [job EXCEPT ![a] = r]
  PROVE  /\ job' \in [Actors -> Job]
         /\ \A b \in Actors : job'[b] = IF b = a THEN r ELSE job[b]
BY DEF TypeOK, Job

LEMMA GoMoves ==
  ASSUME TypeOK, NEW a \in Actors, NEW x \in Stages, Go(a, x)
  PROVE  /\ job' \in [Actors -> Job]
         /\ \A b \in Actors : /\ job'[b].at = (IF b = a THEN x ELSE job[b].at)
                               /\ job'[b].found = job[b].found
<1>. DEFINE r == [job[a] EXCEPT !.at = x]
<1>1. r \in Job /\ r.at = x /\ r.found = job[a].found
  BY DEF TypeOK, Job
<1>2. job' = [job EXCEPT ![a] = r]
  BY DEF Go, TypeOK
<1>. HIDE DEF r
<1>. QED  BY <1>1, <1>2, JobChanges

\* A step that neither saves, nor takes or gives up the lock, nor finds a key.
LEMMA QuietStep ==
  ASSUME IInv, UNCHANGED <<lock, presence>>,
         \A t \in Tabs : Served(t) \/ WillCompute(t) => Served(t)' \/ WillCompute(t)',
         \A t \in Tabs : Computing(t) => Served(t)' \/ Computing(t)',
         \A a \in Actors : lock = a /\ job'[a].at \in {"get", "save"} /\ job'[a].found # {} =>
                            job[a].at \in {"get", "save"} /\ job[a].found # {}
  PROVE  FoundInv' /\ PresenceInv'
<1>1. FoundInv'
  BY DEF IInv, FoundInv
<1>2. \A t \in Tabs : WillCompute(t) => Computing(t)
  BY DEF WillCompute, Computing
<1>3. \A t \in Tabs : WillCompute(t)' => Computing(t)'
  BY DEF WillCompute, Computing
<1>4. PresenceInv'
  BY <1>2, <1>3 DEF IInv, PresenceInv
<1>. QED  BY <1>1, <1>4

-----------------------------------------------------------------------------
(* The tabs.                                                               *)

\* What the steps of a tab's consumer outside list_connections have in common:
\* they leave the lock and the presence alone.
TabStep(t, x) ==
  /\ Go(t, x) /\ x \in Stages \ {"get", "save"}
  /\ UNCHANGED <<visible, presence, announced, lock, lapses>>

LEMMA TabStepKeeps ==
  ASSUME IInv, NEW t \in Tabs, NEW x, TabStep(t, x),
         lock # t,
         tab' \in [Tabs -> {"new", "open", "gone", "dead"}],
         conn' \in [Tabs -> Activity \union {"none"}], registry' \subseteq Tabs,
         \A u \in Tabs \ {t} : tab'[u] = tab[u] /\ conn'[u] = conn[u],
         x = "register" => tab'[t] = "open",
         conn'[t] # "none" => tab'[t] \in {"open", "dead"} \/ x = "unregister",
         tab'[t] \in {"open", "dead"} \/ x \in {"unregister", "withdraw", "members", "lock"}
           \/ (~Served(t) /\ ~Computing(t))
  PROVE  IInv'
<1>1. /\ job' \in [Actors -> Job]
      /\ \A b \in Actors : /\ job'[b].at = (IF b = t THEN x ELSE job[b].at)
                            /\ job'[b].found = job[b].found
  BY TabsAreActors, GoMoves DEF TabStep, IInv
<1>2. UNCHANGED <<visible, presence, announced, lock, lapses>> /\ x \notin {"get", "save"}
  BY DEF TabStep
<1>3. TypeOK'
  BY <1>1, <1>2 DEF IInv, TypeOK, Job
<1>4. StageInv'
  BY <1>1, <1>2, TabsAreActors DEF IInv, StageInv, At
<1>5. \A u \in Tabs : Served(u) \/ WillCompute(u) => Served(u)' \/ WillCompute(u)'
  BY <1>1, <1>2, TabsAreActors DEF Served, WillCompute, Computing
<1>6. \A u \in Tabs : Computing(u) => Served(u)' \/ Computing(u)'
  BY <1>1, <1>2, TabsAreActors DEF Served, Computing
<1>7. \A a \in Actors : lock = a /\ job'[a].at \in {"get", "save"} /\ job'[a].found # {} =>
                          job[a].at \in {"get", "save"} /\ job[a].found # {}
  BY <1>1
<1>8. FoundInv' /\ PresenceInv'
  BY <1>2, <1>5, <1>6, <1>7, QuietStep
<1>. QED  BY <1>3, <1>4, <1>8 DEF IInv

\* Outside list_connections and the save a consumer does not hold the lock.
LEMMA HoldsNoLock ==
  ASSUME IInv, NEW t \in Tabs, job[t].at \notin {"members", "get", "save"}
  PROVE  lock # t
BY TabsAreActors DEF IInv, StageInv

LEMMA ClientKeeps ==
  ASSUME IInv, NEW t \in Tabs, Connect(t) \/ Heartbeat(t) \/ Disconnect(t)
  PROVE  IInv'
<1>1. job[t].at \in {"idle", "publish"}
  BY DEF Connect, Heartbeat, Disconnect, LoopFree, At
<1>2. lock # t /\ ~Computing(t)
  BY <1>1, HoldsNoLock DEF Computing
<1>3. {"register", "unregister"} \subseteq Stages \ {"get", "save"}
  BY DEF Stages
<1>4. CASE Connect(t) \/ Heartbeat(t)
  <2>1. tab' = [tab EXCEPT ![t] = "open"] /\ TabStep(t, "register") /\ UNCHANGED <<conn, registry>>
    BY <1>3, <1>4 DEF Connect, Heartbeat, TabStep, redis, IInv, TypeOK
  <2>. QED  BY <1>2, <2>1, TabStepKeeps DEF IInv, TypeOK
<1>5. CASE Disconnect(t)
  <2>1. tab' = [tab EXCEPT ![t] = "gone"] /\ TabStep(t, "unregister") /\ UNCHANGED <<conn, registry>>
    BY <1>3, <1>5 DEF Disconnect, TabStep, redis
  <2>. QED  BY <1>2, <2>1, TabStepKeeps DEF IInv, TypeOK
<1>. QED  BY <1>4, <1>5

LEMMA RegistryKeeps ==
  ASSUME IInv, NEW t \in Tabs, Register(t) \/ Enroll(t) \/ Unregister(t) \/ Withdraw(t)
  PROVE  IInv'
<1>1. {"enroll", "members", "withdraw"} \subseteq Stages \ {"get", "save"}
  BY DEF Stages
<1>2. lock # t
  BY HoldsNoLock DEF Register, Enroll, Unregister, Withdraw, At
<1>3. CASE Register(t)
  <2>1. TabStep(t, "enroll") /\ tab[t] = "open" /\ UNCHANGED <<tab, registry>>
    BY <1>1, <1>3 DEF Register, TabStep, IInv, StageInv
  <2>2. conn' \in [Tabs -> Activity \union {"none"}] /\ \A u \in Tabs \ {t} : conn'[u] = conn[u]
    BY <1>3 DEF Register, IInv, TypeOK, Activity
  <2>. QED  BY <1>2, <2>1, <2>2, TabStepKeeps DEF IInv, TypeOK
<1>4. CASE Enroll(t)
  <2>1. TabStep(t, "members") /\ UNCHANGED <<tab, conn>> /\ registry' = registry \union {t}
    BY <1>1, <1>4 DEF Enroll, TabStep
  <2>2. conn[t] # "none" => tab[t] \in {"open", "dead"}
    BY <1>4 DEF Enroll, At, IInv, StageInv
  <2>. QED  BY <1>2, <2>1, <2>2, TabStepKeeps DEF IInv, TypeOK
<1>5. CASE Unregister(t)
  <2>1. TabStep(t, "withdraw") /\ UNCHANGED <<tab, registry>> /\ conn' = [conn EXCEPT ![t] = "none"]
    BY <1>1, <1>5 DEF Unregister, TabStep
  <2>. QED  BY <1>2, <2>1, TabStepKeeps DEF IInv, TypeOK
<1>6. CASE Withdraw(t)
  <2>1. TabStep(t, "members") /\ UNCHANGED <<tab, conn>> /\ registry' = registry \ {t}
    BY <1>1, <1>6 DEF Withdraw, TabStep
  <2>2. conn[t] # "none" => tab[t] \in {"open", "dead"}
    BY <1>6 DEF Withdraw, At, IInv, StageInv
  <2>. QED  BY <1>2, <2>1, <2>2, TabStepKeeps DEF IInv, TypeOK
<1>. QED  BY <1>3, <1>4, <1>5, <1>6

\* Time, and the user.
LEMMA EnvironmentKeeps ==
  ASSUME IInv,
         \/ \E t \in Tabs : Look(t) \/ Age(t) \/ Expire(t) \/ Lapse(t)
         \/ ExpireRegistry
  PROVE  IInv'
<1>1. /\ UNCHANGED <<tab, presence, announced, lock, job>>
      /\ visible' \subseteq Tabs /\ Tabs \ visible' \subseteq Hiding
      /\ conn' \in [Tabs -> Activity \union {"none"}]
      /\ \A t \in Tabs : conn'[t] # "none" => conn[t] # "none"
      /\ registry' \subseteq Tabs
  BY DEF Look, Age, Expire, Lapse, ExpireRegistry, redis, IInv, TypeOK, Activity
<1>2. lapses' \in 0 .. MaxLapses
  BY LapseAssumption DEF Look, Age, Expire, Lapse, ExpireRegistry, IInv, TypeOK
<1>3. TypeOK'
  BY <1>1, <1>2 DEF IInv, TypeOK
<1>4. StageInv'
  BY <1>1 DEF IInv, StageInv, At
<1>5. FoundInv' /\ PresenceInv'
  BY <1>1 DEF IInv, FoundInv, PresenceInv, Served, WillCompute, Computing
<1>. QED  BY <1>3, <1>4, <1>5 DEF IInv

-----------------------------------------------------------------------------
(* list_connections and the transaction.                                   *)

LEMMA QueryStartKeeps ==
  ASSUME IInv, NEW q \in Queries, QueryStart(q) PROVE IInv'
<1>1. "lock" \in Stages
  BY DEF Stages
<1>2. /\ job' \in [Actors -> Job]
      /\ \A b \in Actors : /\ job'[b].at = (IF b = q THEN "lock" ELSE job[b].at)
                            /\ job'[b].found = job[b].found
  BY <1>1, TabsAreActors, GoMoves DEF QueryStart, IInv
<1>3. UNCHANGED <<tab, visible, conn, registry, presence, announced, lock, lapses>>
  BY DEF QueryStart, redis
<1>4. \A u \in Tabs : u # q /\ u \in Actors
  BY TabsAreActors, ActorAssumption
<1>5. lock # q
  BY TabsAreActors DEF QueryStart, At, IInv, StageInv
<1>6. TypeOK'
  BY <1>2, <1>3 DEF IInv, TypeOK, Job
<1>7. StageInv'
  BY <1>2, <1>3, <1>4, <1>5 DEF IInv, StageInv, At
<1>8. FoundInv' /\ PresenceInv'
  <2>1. \A u \in Tabs : Served(u) \/ WillCompute(u) => Served(u)' \/ WillCompute(u)'
    BY <1>2, <1>3, <1>4 DEF Served, WillCompute
  <2>2. \A u \in Tabs : Computing(u) => Served(u)' \/ Computing(u)'
    BY <1>2, <1>4 DEF Computing
  <2>3. \A a \in Actors : lock = a /\ job'[a].at \in {"get", "save"} /\ job'[a].found # {} =>
                            job[a].at \in {"get", "save"} /\ job[a].found # {}
    BY <1>2
  <2>. QED  BY <1>3, <2>1, <2>2, <2>3, QuietStep
<1>. QED  BY <1>6, <1>7, <1>8 DEF IInv

\* The steps of list_connections: a goes from members to get, reads, and leaves.
LEMMA ListStepKeeps ==
  ASSUME IInv, NEW a \in Actors, NEW r \in Job, job' = [job EXCEPT ![a] = r],
         UNCHANGED <<tab, visible, conn, presence, announced, lock, lapses>>,
         registry' \subseteq Tabs,
         job[a].at \in {"members", "get"},
         r.at = "get" \/ r.at = IF lock = a THEN "save" ELSE "lock",
         lock = a /\ r.found # {} =>
           \/ job[a].at = "get" /\ job[a].found # {}
           \/ \E t \in Tabs : conn[t] # "none"
  PROVE  IInv'
<1>1. job' \in [Actors -> Job] /\ \A b \in Actors : job'[b] = IF b = a THEN r ELSE job[b]
  BY JobChanges DEF IInv
<1>2. TypeOK'
  BY <1>1 DEF IInv, TypeOK, Job
<1>3. StageInv'
  BY <1>1, TabsAreActors DEF IInv, StageInv, At
<1>4. \A u \in Tabs : Served(u) \/ WillCompute(u) => Served(u)' \/ WillCompute(u)'
  BY <1>1, TabsAreActors DEF Served, WillCompute
<1>5. \A u \in Tabs : Computing(u) => Computing(u)'
  BY <1>1, TabsAreActors DEF Computing
<1>6. FoundInv'
  <2>1. SUFFICES ASSUME lock \in Actors, job'[lock].at \in {"get", "save"}, job'[lock].found # {}
                 PROVE  \E u \in Tabs : Served(u)' \/ WillCompute(u)'
    BY DEF FoundInv
  <2>2. CASE job[lock].at \in {"get", "save"} /\ job[lock].found # {}
    BY <1>4, <2>1, <2>2 DEF IInv, FoundInv
  <2>3. CASE ~(job[lock].at \in {"get", "save"} /\ job[lock].found # {})
    <3>1. PICK u \in Tabs : conn[u] # "none"
      BY <1>1, <2>1, <2>3
    <3>2. Served(u) \/ WillCompute(u)
      BY <3>1 DEF IInv, StageInv, Served, WillCompute, At
    <3>. QED  BY <1>4, <3>2
  <2>. QED  BY <2>2, <2>3
<1>7. PresenceInv'
  BY <1>5 DEF IInv, PresenceInv, Served
<1>. QED  BY <1>2, <1>3, <1>6, <1>7 DEF IInv

LEMMA ListKeeps ==
  ASSUME IInv, NEW a \in Actors, Members(a) \/ (\E t \in Tabs : Get(a, t)) \/ Tidy(a)
  PROVE  IInv'
<1>1. job[a] \in Job /\ registry \subseteq Tabs /\ {"get", "save", "lock"} \subseteq Stages
  BY DEF IInv, TypeOK, Job, Stages
<1>2. CASE Members(a)
  <2>. DEFINE r == [job[a] EXCEPT !.at = "get", !.todo = registry, !.found = {}, !.dead = {}]
  <2>1. r \in Job /\ r.at = "get" /\ r.found = {}
    BY <1>1 DEF Job
  <2>2. /\ job' = [job EXCEPT ![a] = r] /\ job[a].at = "members"
        /\ UNCHANGED <<tab, visible, conn, registry, presence, announced, lock, lapses>>
    BY <1>2 DEF Members, At, redis
  <2>. HIDE DEF r
  <2>. QED  BY <1>1, <2>1, <2>2, ListStepKeeps
<1>3. ASSUME NEW t \in Tabs, Get(a, t) PROVE IInv'
  <2>. DEFINE f == IF conn[t] = "none" THEN job[a].found ELSE job[a].found \union {conn[t]}
              d == IF conn[t] = "none" THEN job[a].dead \union {t} ELSE job[a].dead
              r == [job[a] EXCEPT !.todo = job[a].todo \ {t}, !.found = f, !.dead = d]
  <2>1. f \in SUBSET Activity /\ d \in SUBSET Tabs
    BY <1>1 DEF Job, IInv, TypeOK
  <2>2. f # {} => job[a].found # {} \/ conn[t] # "none"
    OBVIOUS
  <2>3. job' = [job EXCEPT ![a] = r]
    BY <1>3 DEF Get
  <2>. HIDE DEF f, d
  <2>4. r \in Job /\ r.at = job[a].at /\ r.found = f
    BY <1>1, <2>1 DEF Job
  <2>5. /\ job[a].at = "get"
        /\ UNCHANGED <<tab, visible, conn, registry, presence, announced, lock, lapses>>
    BY <1>3 DEF Get, At, redis
  <2>. HIDE DEF r
  <2>. QED  BY <1>1, <2>2, <2>3, <2>4, <2>5, ListStepKeeps
<1>4. CASE Tidy(a)
  <2>1. /\ job[a].at = "get" /\ registry' \subseteq Tabs
        /\ UNCHANGED <<tab, visible, conn, presence, announced, lock, lapses>>
    BY <1>1, <1>4 DEF Tidy, At, Cleaned
  <2>2. CASE lock = a
    <3>. DEFINE r == [job[a] EXCEPT !.at = "save", !.dead = {}]
    <3>1. r \in Job /\ r.at = "save" /\ r.found = job[a].found
      BY <1>1 DEF Job
    <3>2. job' = [job EXCEPT ![a] = r]
      BY <1>4, <2>2 DEF Tidy
    <3>. HIDE DEF r
    <3>. QED  BY <2>1, <2>2, <3>1, <3>2, ListStepKeeps
  <2>3. CASE lock # a
    <3>. DEFINE r == [job[a] EXCEPT !.at = "lock", !.dead = {}, !.found = {}]
    <3>1. r \in Job /\ r.at = "lock"
      BY <1>1 DEF Job
    <3>2. job' = [job EXCEPT ![a] = r]
      BY <1>4, <2>3 DEF Tidy
    <3>. HIDE DEF r
    <3>. QED  BY <2>1, <2>3, <3>1, <3>2, ListStepKeeps
  <2>. QED  BY <2>2, <2>3
<1>. QED  BY <1>2, <1>3, <1>4

LEMMA LockKeeps == ASSUME IInv, NEW a \in Actors, Lock(a) PROVE IInv'
<1>1. "members" \in Stages
  BY DEF Stages
<1>2. /\ job' \in [Actors -> Job]
      /\ \A b \in Actors : /\ job'[b].at = (IF b = a THEN "members" ELSE job[b].at)
                            /\ job'[b].found = job[b].found
  BY <1>1, GoMoves DEF Lock, IInv
<1>3. /\ lock = NoActor /\ lock' = a /\ job[a].at = "lock"
      /\ UNCHANGED <<tab, visible, conn, registry, presence, announced, lapses>>
  BY DEF Lock, RowFree, At, redis
<1>4. \A b \in Actors : job[b].at # "save"
  BY <1>3, ActorAssumption DEF IInv, TypeOK, Actors
<1>5. TypeOK'
  BY <1>2, <1>3, <1>4 DEF IInv, TypeOK, Job
<1>6. StageInv'
  BY <1>2, <1>3, TabsAreActors DEF IInv, StageInv, At
<1>7. FoundInv'
  BY <1>2, <1>3 DEF FoundInv
<1>8. PresenceInv'
  <2>1. \A t \in Tabs : Served(t) \/ Computing(t) => Served(t)' \/ Computing(t)'
    BY <1>2, <1>3, TabsAreActors DEF Served, Computing
  <2>. QED  BY <1>3, <2>1 DEF IInv, PresenceInv
<1>. QED  BY <1>5, <1>6, <1>7, <1>8 DEF IInv

LEMMA SaveKeeps == ASSUME IInv, NEW a \in Actors, Save(a) PROVE IInv'
<1>. DEFINE computed == Compute(job[a].found)
            r == IF a \in Queries THEN [Resting EXCEPT !.at = "done"]
                 ELSE IF computed = presence THEN Resting
                 ELSE [Resting EXCEPT !.at = "publish", !.news = computed]
<1>1. computed \in States /\ (computed # "offline" => job[a].found # {})
  BY DEF Compute, States
<1>2. /\ job[a].at = "save" /\ lock = a /\ presence' = computed /\ lock' = NoActor
      /\ job' = [job EXCEPT ![a] = r]
      /\ UNCHANGED <<tab, visible, conn, registry, announced, lapses>>
  BY DEF Save, At, redis, IInv, TypeOK
<1>. HIDE DEF computed
<1>3. r \in Job /\ r.at \in {"idle", "publish", "done"}
  BY <1>1, RestingTyped DEF Job, Stages
<1>. HIDE DEF r
<1>4. job' \in [Actors -> Job] /\ \A b \in Actors : job'[b] = IF b = a THEN r ELSE job[b]
  BY <1>2, <1>3, JobChanges DEF IInv
<1>5. \A b \in Actors : b # NoActor
  BY ActorAssumption DEF Actors
<1>6. TypeOK'
  <2>1. \A b \in Actors : job'[b].at # "save"
    BY <1>2, <1>3, <1>4 DEF IInv, TypeOK
  <2>. QED  BY <1>1, <1>2, <1>4, <2>1 DEF IInv, TypeOK, Job
<1>7. StageInv'
  BY <1>2, <1>3, <1>4, <1>5, TabsAreActors DEF IInv, StageInv, At
<1>8. FoundInv'
  BY <1>2, <1>5 DEF FoundInv
<1>9. PresenceInv'
  <2>1. SUFFICES ASSUME computed # "offline" PROVE \E t \in Tabs : Served(t)' \/ Computing(t)'
    BY <1>2 DEF PresenceInv
  <2>2. PICK t \in Tabs : Served(t) \/ WillCompute(t)
    BY <1>1, <1>2, <2>1 DEF IInv, FoundInv
  <2>3. WillCompute(t) => t # a /\ Computing(t)
    BY <1>2 DEF WillCompute, Computing
  <2>. QED  BY <1>2, <1>4, <2>2, <2>3, TabsAreActors DEF Served, Computing
<1>. QED  BY <1>6, <1>7, <1>8, <1>9 DEF IInv

LEMMA PublishKeeps == ASSUME IInv, NEW t \in Tabs, Publish(t) PROVE IInv'
<1>1. /\ job[t].at = "publish" /\ announced' \in States
      /\ job' = [job EXCEPT ![t] = Resting]
      /\ UNCHANGED <<tab, visible, conn, registry, presence, lock, lapses>>
  BY TabsAreActors DEF Publish, At, redis, IInv, TypeOK
<1>2. job' \in [Actors -> Job] /\ \A b \in Actors : job'[b] = IF b = t THEN Resting ELSE job[b]
  BY <1>1, RestingTyped, TabsAreActors, JobChanges DEF IInv
<1>3. lock # t
  BY <1>1, HoldsNoLock
<1>4. TypeOK'
  BY <1>1, <1>2, RestingTyped DEF IInv, TypeOK, Job
<1>5. StageInv'
  BY <1>1, <1>2, <1>3, RestingTyped, TabsAreActors DEF IInv, StageInv, At
<1>6. FoundInv' /\ PresenceInv'
  <2>1. \A u \in Tabs : Served(u) \/ WillCompute(u) => Served(u)' \/ WillCompute(u)'
    BY <1>1, <1>2, TabsAreActors DEF Served, WillCompute
  <2>2. \A u \in Tabs : Computing(u) => Served(u)' \/ Computing(u)'
    BY <1>1, <1>2, TabsAreActors DEF Computing
  <2>3. \A a \in Actors : lock = a /\ job'[a].at \in {"get", "save"} /\ job'[a].found # {} =>
                            job[a].at \in {"get", "save"} /\ job[a].found # {}
    BY <1>2, <1>3
  <2>. QED  BY <1>1, <2>1, <2>2, <2>3, QuietStep
<1>. QED  BY <1>4, <1>5, <1>6 DEF IInv

LEMMA CrashKeeps == ASSUME IInv, NEW s \in Servers, Crash(s) PROVE IInv'
<1>. DEFINE lost == {t \in Tabs : ServerOf[t] = s /\ (tab[t] = "open" \/ ~At(t, "idle"))}
<1>1. /\ lost # {} /\ lost \subseteq Tabs
      /\ tab' = [t \in Tabs |-> IF t \in lost THEN "dead" ELSE tab[t]]
      /\ job' = [a \in Actors |-> IF a \in lost THEN Resting ELSE job[a]]
      /\ lock' = IF lock \in lost THEN NoActor ELSE lock
      /\ UNCHANGED <<visible, conn, registry, presence, announced, lapses>>
  BY DEF Crash, redis
<1>. HIDE DEF lost
<1>2. \A b \in Actors : b # NoActor
  BY ActorAssumption DEF Actors
<1>3. TypeOK'
  BY <1>1, RestingTyped DEF IInv, TypeOK, Job
<1>4. StageInv'
  BY <1>1, <1>2, RestingTyped, TabsAreActors DEF IInv, StageInv, At
<1>5. \E t \in Tabs : Served(t)'
  BY <1>1 DEF Served
<1>6. FoundInv' /\ PresenceInv'
  BY <1>5 DEF FoundInv, PresenceInv
<1>. QED  BY <1>3, <1>4, <1>6 DEF IInv

-----------------------------------------------------------------------------
(* The theorems.                                                           *)

LEMMA InitIInv == Init => IInv
<1>. SUFFICES ASSUME Init PROVE IInv
  OBVIOUS
<1>1. \A a \in Actors : job[a] = Resting
  BY DEF Init
<1>2. job \in [Actors -> Job]
  BY RestingTyped DEF Init
<1>3. 0 \in 0 .. MaxLapses
  BY LapseAssumption
<1>4. TypeOK
  BY <1>1, <1>2, <1>3, RestingTyped DEF Init, TypeOK, Job, States
<1>5. StageInv /\ FoundInv /\ PresenceInv
  BY <1>1, RestingTyped, TabsAreActors, ActorAssumption
     DEF Init, StageInv, FoundInv, PresenceInv, At, Actors
<1>. QED  BY <1>4, <1>5 DEF IInv

LEMMA NextKeeps == IInv /\ [Next]_vars => IInv'
<1>. SUFFICES ASSUME IInv, [Next]_vars PROVE IInv'
  OBVIOUS
<1>1. ASSUME NEW t \in Tabs, Connect(t) \/ Heartbeat(t) \/ Disconnect(t) \/ ConsumerStep(t)
      PROVE  IInv'
  BY <1>1, ClientKeeps, RegistryKeeps, PublishKeeps DEF ConsumerStep
<1>2. ASSUME \/ \E t \in Tabs : Look(t) \/ Age(t) \/ Expire(t) \/ Lapse(t)
             \/ ExpireRegistry
      PROVE  IInv'
  BY <1>2, EnvironmentKeeps
<1>3. ASSUME NEW q \in Queries, QueryStart(q) PROVE IInv'
  BY <1>3, QueryStartKeeps
<1>4. ASSUME NEW a \in Actors, PresenceStep(a) PROVE IInv'
  BY <1>4, ListKeeps, LockKeeps, SaveKeeps DEF PresenceStep
<1>5. ASSUME NEW s \in Servers, Crash(s) PROVE IInv'
  BY <1>5, CrashKeeps
<1>6. CASE UNCHANGED vars
  BY <1>6 DEF vars, IInv, TypeOK, StageInv, FoundInv, PresenceInv, Served, WillCompute,
     Computing, At
<1>. QED  BY <1>1, <1>2, <1>3, <1>4, <1>5, <1>6 DEF Next

\* The inductive invariant holds in every state of Spec.
THEOREM PresenceInvariant == Spec => []IInv
BY InitIInv, NextKeeps, PTL DEF Spec

(* The registry, the row and the jobs stay in the sets the module names,   *)
(* and only the holder of the row lock is about to save.                   *)
THEOREM PresenceTypeCorrect == Spec => []TypeOK
<1>1. IInv => TypeOK
  BY DEF IInv
<1>. QED  BY <1>1, PresenceInvariant, PTL

(* However many tabs, queries and server processes there are and however   *)
(* they interleave, once every tab was closed and no consumer or query is  *)
(* at work the user is offline: whoever found the key of a tab that was    *)
(* still open is followed by the consumer that closes it.                  *)
THEOREM ClosedUserIsOfflineHolds == Spec => []ClosedUserIsOffline
<1>1. IInv => ClosedUserIsOffline
  BY TabsAreActors
     DEF IInv, TypeOK, PresenceInv, ClosedUserIsOffline, Settled, Served, Computing
<1>. QED  BY <1>1, PresenceInvariant, PTL
-----------------------------------------------------------------------------
(* The tabs of one process.                                                *)

OneProcess == \A t, u \in Tabs : ServerOf[t] = ServerOf[u]
Calm == OneProcess /\ ConsumersOnly
Running(t) == job[t].at \notin {"idle", "publish"}
OpenTab == \E t \in Tabs : tab[t] = "open"

\* What becomes of a tab and its consumer, on however many processes.
LifeInv ==
  \A t \in Tabs :
    /\ job[t].at # "done"
    /\ tab[t] = "new" => t \notin registry /\ job[t].at = "idle"
    /\ job[t].at \in {"unregister", "withdraw"} => tab[t] = "gone"

\* No consumer starts while another of its process is at work.
SoloInv == \A t, u \in Tabs : Running(t) /\ Running(u) => t = u

\* An open tab has its key and its place in the registry, but for the time its
\* consumer takes to write them.
KeptInv ==
  \A t \in Tabs : tab[t] = "open" =>
    /\ job[t].at # "register" => conn[t] # "none"
    /\ job[t].at \notin {"register", "enroll"} => t \in registry
    /\ t \in registry => conn[t] # "none"

\* What the job j of a consumer has found, or is still to find.
ListExact(j) ==
  /\ j.at = "get" => /\ \A u \in j.dead : conn[u] = "none"
                     /\ OpenTab => j.found # {} \/ \E u \in j.todo : conn[u] # "none"
  /\ j.at \in {"get", "save"} /\ j.found # {} => OpenTab
  /\ j.at = "save" /\ OpenTab => j.found # {}

ListInv == \A t \in Tabs : ListExact(job[t])

SettledInv == (\A t \in Tabs : ~Running(t)) => (presence = "offline" <=> ~OpenTab)

ProcessInv ==
  /\ LifeInv
  /\ OneProcess => SoloInv
  /\ Calm => KeptInv /\ ListInv /\ SettledInv

LEMMA GoLeaves ==
  ASSUME TypeOK, NEW a \in Actors, NEW x, Go(a, x)
  PROVE  job'[a].at = x /\ \A b \in Actors \ {a} : job'[b] = job[b]
BY DEF TypeOK, Go

LEMMA QueriesAreNoTabs == \A q \in Queries : q \notin Tabs /\ q \in Actors
BY ActorAssumption, TabsAreActors

\* A step of the consumer of t that no other consumer of its process overlaps.
LEMMA TabStepExact ==
  ASSUME IInv, ProcessInv, NEW t \in Tabs, NEW x, TabStep(t, x),
         x \notin {"idle", "publish", "done"},
         OneProcess => \A u \in Tabs \ {t} : ~Running(u),
         \A u \in Tabs \ {t} : tab'[u] = tab[u] /\ conn'[u] = conn[u]
                               /\ (u \in registry' <=> u \in registry),
         tab'[t] # "new", tab[t] = "dead" => tab'[t] = "dead",
         x \in {"unregister", "withdraw"} => tab'[t] = "gone",
         Calm /\ tab'[t] = "open" =>
           /\ x # "register" => conn'[t] # "none"
           /\ x \notin {"register", "enroll"} => t \in registry'
           /\ t \in registry' => conn'[t] # "none"
  PROVE  ProcessInv'
<1>1. /\ job'[t].at = x /\ \A b \in Actors \ {t} : job'[b] = job[b]
      /\ UNCHANGED <<presence, lapses>> /\ x \notin {"get", "save"}
  BY TabsAreActors, GoLeaves DEF TabStep, IInv
<1>2. \A u \in Tabs \ {t} : job'[u] = job[u]
  BY <1>1, TabsAreActors
<1>3. LifeInv'
  BY <1>1, <1>2 DEF ProcessInv, LifeInv
<1>4. OneProcess => \A u \in Tabs \ {t} : ~Running(u)'
  BY <1>2 DEF Running
<1>5. OneProcess' => SoloInv'
  BY <1>4 DEF OneProcess, SoloInv
<1>6. ASSUME Calm' PROVE KeptInv' /\ ListInv' /\ SettledInv'
  <2>1. ConsumersOnly
    <3>1. \A q \in Queries : At(q, "idle")
      BY <1>1, <1>6, QueriesAreNoTabs DEF Calm, ConsumersOnly, At
    <3>2. \A u \in Tabs : tab[u] # "dead"
      BY <1>6 DEF Calm, ConsumersOnly
    <3>. QED  BY <1>1, <1>6, <3>1, <3>2 DEF Calm, ConsumersOnly
  <2>2. Calm /\ OneProcess
    BY <1>6, <2>1 DEF Calm, OneProcess
  <2>3. KeptInv'
    BY <1>1, <1>2, <2>2 DEF ProcessInv, KeptInv
  <2>4. ListInv'
    BY <1>1, <1>4, <2>2 DEF ListInv, ListExact, Running
  <2>5. SettledInv'
    BY <1>1 DEF SettledInv, Running
  <2>. QED  BY <2>3, <2>4, <2>5
<1>. QED  BY <1>3, <1>5, <1>6 DEF ProcessInv

LEMMA ClientExact ==
  ASSUME IInv, ProcessInv, NEW t \in Tabs, Connect(t) \/ Heartbeat(t) \/ Disconnect(t)
  PROVE  ProcessInv'
<1>1. OneProcess => \A u \in Tabs \ {t} : ~Running(u)
  BY DEF Connect, Heartbeat, Disconnect, LoopFree, OneProcess, Running
<1>2. {"register", "unregister"} \subseteq Stages \ {"get", "save"}
  BY DEF Stages
<1>3. CASE Connect(t)
  <2>1. /\ tab' = [tab EXCEPT ![t] = "open"] /\ tab[t] = "new"
        /\ TabStep(t, "register") /\ UNCHANGED <<conn, registry>>
    BY <1>2, <1>3 DEF Connect, TabStep, redis
  <2>2. t \notin registry /\ tab \in [Tabs -> {"new", "open", "gone", "dead"}]
    BY <2>1 DEF ProcessInv, LifeInv, IInv, TypeOK
  <2>. QED  BY <1>1, <2>1, <2>2, TabStepExact
<1>4. CASE Heartbeat(t)
  <2>1. tab[t] = "open" /\ TabStep(t, "register") /\ UNCHANGED <<tab, conn, registry>>
    BY <1>2, <1>4 DEF Heartbeat, TabStep, redis
  <2>2. Calm /\ t \in registry => conn[t] # "none"
    BY <2>1 DEF ProcessInv, KeptInv
  <2>. QED  BY <1>1, <2>1, <2>2, TabStepExact
<1>5. CASE Disconnect(t)
  <2>1. /\ tab' = [tab EXCEPT ![t] = "gone"] /\ tab[t] = "open"
        /\ TabStep(t, "unregister") /\ UNCHANGED <<conn, registry>>
    BY <1>2, <1>5 DEF Disconnect, TabStep, redis
  <2>2. tab \in [Tabs -> {"new", "open", "gone", "dead"}]
    BY DEF IInv, TypeOK
  <2>. QED  BY <1>1, <2>1, <2>2, TabStepExact
<1>. QED  BY <1>3, <1>4, <1>5

LEMMA RegistryExact ==
  ASSUME IInv, ProcessInv, NEW t \in Tabs,
         Register(t) \/ Enroll(t) \/ Unregister(t) \/ Withdraw(t)
  PROVE  ProcessInv'
<1>1. {"enroll", "members", "withdraw"} \subseteq Stages \ {"get", "save"}
  BY DEF Stages
<1>2. OneProcess => \A u \in Tabs \ {t} : ~Running(u)
  BY DEF Register, Enroll, Unregister, Withdraw, At, Running, ProcessInv, SoloInv
<1>3. conn \in [Tabs -> Activity \union {"none"}] /\ "none" \notin {"active", "recent"}
  BY DEF IInv, TypeOK
<1>4. CASE Register(t)
  <2>1. TabStep(t, "enroll") /\ tab[t] = "open" /\ UNCHANGED <<tab, registry>>
    BY <1>1, <1>4 DEF Register, TabStep, IInv, StageInv
  <2>2. conn'[t] # "none" /\ \A u \in Tabs \ {t} : conn'[u] = conn[u]
    BY <1>3, <1>4 DEF Register
  <2>. QED  BY <1>2, <2>1, <2>2, TabStepExact
<1>5. CASE Enroll(t)
  <2>1. TabStep(t, "members") /\ UNCHANGED <<tab, conn>> /\ registry' = registry \union {t}
    BY <1>1, <1>5 DEF Enroll, TabStep
  <2>2. Calm /\ tab[t] = "open" => conn[t] # "none"
    BY <1>5 DEF Enroll, At, ProcessInv, KeptInv
  <2>3. tab[t] # "new"
    BY <1>5 DEF Enroll, At, ProcessInv, LifeInv
  <2>. QED  BY <1>2, <2>1, <2>2, <2>3, TabStepExact
<1>6. CASE Unregister(t)
  <2>1. /\ TabStep(t, "withdraw") /\ UNCHANGED <<tab, registry>> /\ tab[t] = "gone"
        /\ \A u \in Tabs \ {t} : conn'[u] = conn[u]
    BY <1>1, <1>3, <1>6 DEF Unregister, TabStep, At, ProcessInv, LifeInv
  <2>. QED  BY <1>2, <2>1, TabStepExact
<1>7. CASE Withdraw(t)
  <2>1. /\ TabStep(t, "members") /\ UNCHANGED <<tab, conn>> /\ tab[t] = "gone"
        /\ registry' = registry \ {t}
    BY <1>1, <1>7 DEF Withdraw, TabStep, At, ProcessInv, LifeInv
  <2>. QED  BY <1>2, <2>1, TabStepExact
<1>. QED  BY <1>4, <1>5, <1>6, <1>7
LEMMA EnvironmentExact ==
  ASSUME IInv, ProcessInv,
         \/ \E t \in Tabs : Look(t) \/ Age(t) \/ Expire(t) \/ Lapse(t)
         \/ ExpireRegistry
  PROVE  ProcessInv'
<1>1. UNCHANGED <<tab, presence, job>> /\ registry' \subseteq registry
  BY DEF Look, Age, Expire, Lapse, ExpireRegistry, redis
<1>2. LifeInv' /\ (OneProcess' => SoloInv')
  BY <1>1 DEF ProcessInv, LifeInv, OneProcess, SoloInv, Running
<1>3. ASSUME Calm' PROVE KeptInv' /\ ListInv' /\ SettledInv'
  <2>1. lapses' = lapses
    <3>1. CASE \E t \in Tabs : Lapse(t)
      <4>1. lapses' = lapses + 1 /\ lapses \in Nat
        BY <3>1, LapseAssumption DEF Lapse, IInv, TypeOK
      <4>. QED  BY <1>3, <4>1 DEF Calm, ConsumersOnly
    <3>. QED  BY <3>1 DEF Look, Age, Expire, ExpireRegistry
  <2>2. Calm
    BY <1>1, <1>3, <2>1 DEF Calm, OneProcess, ConsumersOnly, At
  <2>3. \A u \in Tabs : conn'[u] = "none" <=> conn[u] = "none"
    <3>1. CASE \E t \in Tabs : Age(t)
      BY <3>1 DEF Age, IInv, TypeOK
    <3>2. \A t \in Tabs : ~Lapse(t)
      BY <2>1, LapseAssumption DEF Lapse, IInv, TypeOK
    <3>3. \A t \in Tabs : ~Expire(t)
      BY <2>2 DEF Expire, Calm, ConsumersOnly, At, IInv, StageInv
    <3>. QED  BY <3>1, <3>2, <3>3 DEF Look, ExpireRegistry, redis
  <2>4. \A u \in Tabs : tab[u] = "open" => (u \in registry' <=> u \in registry)
    BY <2>2 DEF ProcessInv, KeptInv, Look, Age, Expire, Lapse, ExpireRegistry, redis
  <2>5. KeptInv'
    BY <1>1, <2>2, <2>3, <2>4 DEF ProcessInv, KeptInv
  <2>6. ListInv'
    <3>1. \A t \in Tabs : job[t] \in Job
      BY TabsAreActors DEF IInv, TypeOK, Job
    <3>. QED  BY <1>1, <2>2, <2>3, <3>1 DEF ProcessInv, ListInv, ListExact, OpenTab, Job
  <2>7. SettledInv'
    BY <1>1, <2>2 DEF ProcessInv, SettledInv, OpenTab, Running
  <2>. QED  BY <2>5, <2>6, <2>7
<1>. QED  BY <1>2, <1>3 DEF ProcessInv

LEMMA QueryStartExact ==
  ASSUME IInv, ProcessInv, NEW q \in Queries, QueryStart(q) PROVE ProcessInv'
<1>1. /\ job'[q].at = "lock" /\ \A t \in Tabs : job'[t] = job[t]
      /\ UNCHANGED <<tab, registry>>
  BY QueriesAreNoTabs, TabsAreActors, GoLeaves DEF QueryStart, redis, IInv
<1>2. LifeInv' /\ (OneProcess' => SoloInv')
  BY <1>1 DEF ProcessInv, LifeInv, OneProcess, SoloInv, Running
<1>3. ~Calm'
  BY <1>1 DEF Calm, ConsumersOnly, At
<1>. QED  BY <1>2, <1>3 DEF ProcessInv

\* The steps of list_connections, and the lock.
LEMMA ListStepExact ==
  ASSUME IInv, ProcessInv, NEW a \in Actors, NEW r \in Job, job' = [job EXCEPT ![a] = r],
         UNCHANGED <<tab, conn, presence, lapses>>, registry' \subseteq registry,
         job[a].at \in {"members", "get", "lock"},
         r.at \in {"members", "get", "save", "lock"},
         a \in Tabs /\ Calm => /\ ListExact(r)
                               /\ \A u \in Tabs : tab[u] = "open" /\ u \in registry => u \in registry'
  PROVE  ProcessInv'
<1>1. \A b \in Actors : job'[b] = IF b = a THEN r ELSE job[b]
  BY JobChanges DEF IInv
<1>2. LifeInv'
  BY <1>1, TabsAreActors DEF ProcessInv, LifeInv
<1>3. \A t \in Tabs : Running(t)' <=> Running(t)
  BY <1>1, TabsAreActors DEF Running
<1>4. OneProcess' => SoloInv'
  BY <1>3 DEF ProcessInv, OneProcess, SoloInv
<1>5. ASSUME Calm' PROVE KeptInv' /\ ListInv' /\ SettledInv'
  <2>1. a \in Tabs
    BY <1>1, <1>5 DEF Calm, ConsumersOnly, At, Actors
  <2>2. Calm
    BY <1>1, <1>5, <2>1, QueriesAreNoTabs DEF Calm, OneProcess, ConsumersOnly, At
  <2>3. KeptInv'
    BY <1>1, <2>1, <2>2, TabsAreActors DEF ProcessInv, KeptInv
  <2>4. \A t \in Tabs : ListExact(job[t])
    BY <2>2 DEF ProcessInv, ListInv
  <2>5. \A t \in Tabs : ListExact(job'[t])
    BY <1>1, <2>1, <2>2, <2>4, TabsAreActors
  <2>6. ListInv'
    BY <2>5 DEF ListInv, ListExact, OpenTab
  <2>7. SettledInv'
    BY <1>3, <2>2 DEF ProcessInv, SettledInv, OpenTab
  <2>. QED  BY <2>3, <2>6, <2>7
<1>. QED  BY <1>2, <1>4, <1>5 DEF ProcessInv

\* While a consumer works on the only process, the others have nothing to write.
LEMMA OthersKept ==
  ASSUME IInv, ProcessInv, Calm, NEW t \in Tabs, job[t].at \in {"members", "get"}
  PROVE  \A u \in Tabs : /\ conn[u] # "none" => tab[u] = "open"
                         /\ tab[u] = "open" => conn[u] # "none" /\ u \in registry
<1>1. \A u \in Tabs : u = t \/ ~Running(u)
  BY DEF ProcessInv, Calm, SoloInv, Running
<1>2. \A u \in Tabs : job[u].at \notin {"register", "enroll", "unregister"}
  BY <1>1 DEF Running
<1>. QED  BY <1>2 DEF IInv, StageInv, At, ProcessInv, KeptInv, Calm, ConsumersOnly

LEMMA ListExactKept ==
  ASSUME IInv, ProcessInv, NEW a \in Actors,
         Members(a) \/ (\E t \in Tabs : Get(a, t)) \/ Tidy(a) \/ Lock(a)
  PROVE  ProcessInv'
<1>1. job[a] \in Job /\ registry \subseteq Tabs
      /\ {"get", "save", "lock", "members"} \subseteq Stages
  BY DEF IInv, TypeOK, Job, Stages
<1>2. CASE Members(a)
  <2>. DEFINE r == [job[a] EXCEPT !.at = "get", !.todo = registry, !.found = {}, !.dead = {}]
  <2>1. r \in Job /\ r.at = "get" /\ r.found = {} /\ r.dead = {} /\ r.todo = registry
    BY <1>1 DEF Job
  <2>2. /\ job' = [job EXCEPT ![a] = r] /\ job[a].at = "members"
        /\ UNCHANGED <<tab, conn, registry, presence, lapses>>
    BY <1>2 DEF Members, At, redis
  <2>. HIDE DEF r
  <2>3. ASSUME a \in Tabs, Calm PROVE ListExact(r)
    BY <2>1, <2>2, <2>3, OthersKept DEF ListExact, OpenTab
  <2>. QED  BY <2>1, <2>2, <2>3, ListStepExact
<1>3. ASSUME NEW t \in Tabs, Get(a, t) PROVE ProcessInv'
  <2>. DEFINE f == IF conn[t] = "none" THEN job[a].found ELSE job[a].found \union {conn[t]}
              d == IF conn[t] = "none" THEN job[a].dead \union {t} ELSE job[a].dead
              r == [job[a] EXCEPT !.todo = job[a].todo \ {t}, !.found = f, !.dead = d]
  <2>1. f \in SUBSET Activity /\ d \in SUBSET Tabs
    BY <1>1 DEF Job, IInv, TypeOK
  <2>2. /\ f # {} <=> job[a].found # {} \/ conn[t] # "none"
        /\ \A u \in d : u \in job[a].dead \/ conn[u] = "none"
    OBVIOUS
  <2>3. job' = [job EXCEPT ![a] = r]
    BY <1>3 DEF Get
  <2>. HIDE DEF f, d
  <2>4. r \in Job /\ r.at = job[a].at /\ r.found = f /\ r.dead = d /\ r.todo = job[a].todo \ {t}
    BY <1>1, <2>1 DEF Job
  <2>5. job[a].at = "get" /\ UNCHANGED <<tab, conn, registry, presence, lapses>>
    BY <1>3 DEF Get, At, redis
  <2>. HIDE DEF r
  <2>6. ASSUME a \in Tabs, Calm PROVE ListExact(r)
    <3>1. ListExact(job[a])
      BY <2>6 DEF ProcessInv, ListInv
    <3>2. conn[t] # "none" => OpenTab
      BY <2>5, <2>6, OthersKept DEF OpenTab
    <3>. QED  BY <2>2, <2>4, <2>5, <3>1, <3>2 DEF ListExact
  <2>. QED  BY <1>1, <2>3, <2>4, <2>5, <2>6, ListStepExact
<1>4. CASE Tidy(a)
  <2>1. /\ job[a].at = "get" /\ job[a].todo = {}
        /\ registry' = IF job[a].found = {} THEN {} ELSE registry \ job[a].dead
        /\ UNCHANGED <<tab, conn, presence, lapses>>
    BY <1>4 DEF Tidy, At, Cleaned
  <2>2. registry' \subseteq registry
    BY <2>1
  <2>3. ASSUME a \in Tabs, Calm
        PROVE  /\ OpenTab <=> job[a].found # {}
               /\ \A u \in Tabs : tab[u] = "open" /\ u \in registry => u \in registry'
    <3>1. ListExact(job[a])
      BY <2>3 DEF ProcessInv, ListInv
    <3>2. OpenTab <=> job[a].found # {}
      BY <2>1, <3>1 DEF ListExact
    <3>3. \A u \in Tabs : tab[u] = "open" => u \notin job[a].dead
      BY <2>1, <2>3, <3>1, OthersKept DEF ListExact
    <3>. QED  BY <2>1, <3>2, <3>3 DEF OpenTab
  <2>4. CASE lock = a
    <3>. DEFINE r == [job[a] EXCEPT !.at = "save", !.dead = {}]
    <3>1. r \in Job /\ r.at = "save" /\ r.found = job[a].found
      BY <1>1 DEF Job
    <3>2. job' = [job EXCEPT ![a] = r]
      BY <1>4, <2>4 DEF Tidy
    <3>. HIDE DEF r
    <3>3. ASSUME a \in Tabs, Calm PROVE ListExact(r)
      BY <2>3, <3>1, <3>3 DEF ListExact
    <3>. QED  BY <2>1, <2>2, <2>3, <3>1, <3>2, <3>3, ListStepExact
  <2>5. CASE lock # a
    <3>. DEFINE r == [job[a] EXCEPT !.at = "lock", !.dead = {}, !.found = {}]
    <3>1. r \in Job /\ r.at = "lock"
      BY <1>1 DEF Job
    <3>2. job' = [job EXCEPT ![a] = r]
      BY <1>4, <2>5 DEF Tidy
    <3>. HIDE DEF r
    <3>3. ListExact(r)
      BY <3>1 DEF ListExact
    <3>. QED  BY <2>1, <2>2, <2>3, <3>1, <3>2, <3>3, ListStepExact
  <2>. QED  BY <2>4, <2>5
<1>5. CASE Lock(a)
  <2>. DEFINE r == [job[a] EXCEPT !.at = "members"]
  <2>1. r \in Job /\ r.at = "members"
    BY <1>1 DEF Job
  <2>2. /\ job' = [job EXCEPT ![a] = r] /\ job[a].at = "lock"
        /\ UNCHANGED <<tab, conn, registry, presence, lapses>>
    BY <1>5 DEF Lock, Go, At, redis
  <2>. HIDE DEF r
  <2>3. ListExact(r)
    BY <2>1 DEF ListExact
  <2>. QED  BY <2>1, <2>2, <2>3, ListStepExact
<1>. QED  BY <1>2, <1>3, <1>4, <1>5

\* The save, and the broadcast after it.
LEMMA EndExact ==
  ASSUME IInv, ProcessInv, NEW a \in Actors, NEW r \in Job, job' = [job EXCEPT ![a] = r],
         UNCHANGED <<tab, conn, registry, lapses>>,
         job[a].at \in {"save", "publish"},
         IF a \in Queries THEN r.at = "done" ELSE r.at \in {"idle", "publish"},
         a \in Tabs /\ Calm => IF job[a].at = "save" THEN presence' = "offline" <=> ~OpenTab
                               ELSE presence' = presence
  PROVE  ProcessInv'
<1>1. \A b \in Actors : job'[b] = IF b = a THEN r ELSE job[b]
  BY JobChanges DEF IInv
<1>2. LifeInv'
  BY <1>1, QueriesAreNoTabs, TabsAreActors DEF ProcessInv, LifeInv
<1>3. \A t \in Tabs : Running(t)' => Running(t) /\ t # a
  BY <1>1, QueriesAreNoTabs, TabsAreActors DEF Running
<1>4. OneProcess' => SoloInv'
  BY <1>3 DEF ProcessInv, OneProcess, SoloInv
<1>5. ASSUME Calm' PROVE KeptInv' /\ ListInv' /\ SettledInv'
  <2>1. a \in Tabs
    BY <1>1, <1>5 DEF Calm, ConsumersOnly, At, Actors
  <2>2. Calm
    BY <1>1, <1>5, <2>1, QueriesAreNoTabs DEF Calm, OneProcess, ConsumersOnly, At
  <2>3. KeptInv'
    BY <1>1, <2>1, <2>2, TabsAreActors DEF ProcessInv, KeptInv
  <2>4. ListExact(r)
    BY <2>1, QueriesAreNoTabs DEF ListExact
  <2>5. \A t \in Tabs : ListExact(job'[t])
    BY <1>1, <2>2, <2>4, TabsAreActors DEF ProcessInv, ListInv
  <2>6. ListInv'
    BY <2>5 DEF ListInv, ListExact, OpenTab
  <2>7. SettledInv'
    <3>1. CASE job[a].at = "save"
      BY <2>1, <2>2, <3>1 DEF SettledInv, OpenTab
    <3>2. CASE job[a].at = "publish"
      <4>1. \A t \in Tabs : Running(t) => Running(t)'
        BY <1>1, <3>2, TabsAreActors DEF Running
      <4>. QED  BY <2>1, <2>2, <3>2, <4>1 DEF ProcessInv, SettledInv, OpenTab
    <3>. QED  BY <3>1, <3>2
  <2>. QED  BY <2>3, <2>6, <2>7
<1>. QED  BY <1>2, <1>4, <1>5 DEF ProcessInv

LEMMA SaveExact == ASSUME IInv, ProcessInv, NEW a \in Actors, Save(a) PROVE ProcessInv'
<1>. DEFINE computed == Compute(job[a].found)
            r == IF a \in Queries THEN [Resting EXCEPT !.at = "done"]
                 ELSE IF computed = presence THEN Resting
                 ELSE [Resting EXCEPT !.at = "publish", !.news = computed]
<1>1. computed \in States /\ (computed = "offline" <=> job[a].found = {})
  BY DEF Compute, States
<1>2. /\ job[a].at = "save" /\ presence' = computed /\ job' = [job EXCEPT ![a] = r]
      /\ UNCHANGED <<tab, conn, registry, lapses>>
  BY DEF Save, At, redis
<1>. HIDE DEF computed
<1>3. r \in Job /\ IF a \in Queries THEN r.at = "done" ELSE r.at \in {"idle", "publish"}
  BY <1>1, RestingTyped DEF Job, Stages
<1>. HIDE DEF r
<1>4. ASSUME a \in Tabs, Calm PROVE presence' = "offline" <=> ~OpenTab
  BY <1>1, <1>2, <1>4 DEF ProcessInv, ListInv, ListExact
<1>. QED  BY <1>2, <1>3, <1>4, EndExact

LEMMA PublishExact == ASSUME IInv, ProcessInv, NEW t \in Tabs, Publish(t) PROVE ProcessInv'
<1>1. /\ job[t].at = "publish" /\ job' = [job EXCEPT ![t] = Resting]
      /\ UNCHANGED <<tab, conn, registry, presence, lapses>>
  BY DEF Publish, At, redis
<1>2. t \in Actors /\ t \notin Queries
  BY TabsAreActors, QueriesAreNoTabs
<1>. QED  BY <1>1, <1>2, RestingTyped, EndExact

LEMMA CrashExact == ASSUME IInv, ProcessInv, NEW s \in Servers, Crash(s) PROVE ProcessInv'
<1>. DEFINE lost == {t \in Tabs : ServerOf[t] = s /\ (tab[t] = "open" \/ ~At(t, "idle"))}
<1>1. /\ lost # {} /\ lost \subseteq Tabs
      /\ tab' = [t \in Tabs |-> IF t \in lost THEN "dead" ELSE tab[t]]
      /\ job' = [a \in Actors |-> IF a \in lost THEN Resting ELSE job[a]]
      /\ UNCHANGED registry
  BY DEF Crash, redis
<1>. HIDE DEF lost
<1>2. LifeInv'
  BY <1>1, RestingTyped, TabsAreActors DEF ProcessInv, LifeInv
<1>3. OneProcess' => SoloInv'
  BY <1>1, RestingTyped, TabsAreActors DEF ProcessInv, OneProcess, SoloInv, Running
<1>4. ~Calm'
  BY <1>1 DEF Calm, ConsumersOnly
<1>. QED  BY <1>2, <1>3, <1>4 DEF ProcessInv

LEMMA InitProcess == Init => ProcessInv
BY TabsAreActors
   DEF Init, Resting, ProcessInv, LifeInv, SoloInv, Running, KeptInv, ListInv, ListExact,
       SettledInv, OpenTab

LEMMA NextProcess == IInv /\ ProcessInv /\ [Next]_vars => ProcessInv'
<1>. SUFFICES ASSUME IInv, ProcessInv, [Next]_vars PROVE ProcessInv'
  OBVIOUS
<1>1. ASSUME NEW t \in Tabs, Connect(t) \/ Heartbeat(t) \/ Disconnect(t) \/ ConsumerStep(t)
      PROVE  ProcessInv'
  BY <1>1, ClientExact, RegistryExact, TabsAreActors, PublishExact DEF ConsumerStep
<1>2. ASSUME \/ \E t \in Tabs : Look(t) \/ Age(t) \/ Expire(t) \/ Lapse(t)
             \/ ExpireRegistry
      PROVE  ProcessInv'
  BY <1>2, EnvironmentExact
<1>3. ASSUME NEW q \in Queries, QueryStart(q) PROVE ProcessInv'
  BY <1>3, QueryStartExact
<1>4. ASSUME NEW a \in Actors, PresenceStep(a) PROVE ProcessInv'
  BY <1>4, ListExactKept, SaveExact DEF PresenceStep
<1>5. ASSUME NEW s \in Servers, Crash(s) PROVE ProcessInv'
  BY <1>5, CrashExact
<1>6. CASE UNCHANGED vars
  BY <1>6 DEF vars, ProcessInv, LifeInv, OneProcess, SoloInv, Running, Calm, ConsumersOnly,
     At, KeptInv, ListInv, ListExact, SettledInv, OpenTab
<1>. QED  BY <1>1, <1>2, <1>3, <1>4, <1>5, <1>6 DEF Next

(* The presence of a user whose tabs all talk to one server process is     *)
(* exact whenever that process is at rest, for any number of tabs and      *)
(* however their connections, heartbeats and closings interleave: no       *)
(* consumer starts while another is between two Redis commands.            *)
THEOREM OneProcessIsExactHolds == Spec => []OneProcessIsExact
<1>1. IInv /\ ProcessInv => OneProcessIsExact
  <2>. SUFFICES ASSUME IInv, ProcessInv, OneProcess, ConsumersOnly, Settled
                PROVE  presence = "offline" <=> \A t \in Tabs : tab[t] # "open"
    BY DEF OneProcessIsExact, OneProcess, OfflineMeansNoTab
  <2>1. \A t \in Tabs : ~Running(t)
    BY TabsAreActors DEF Settled, Running, ProcessInv, LifeInv
  <2>. QED  BY <2>1 DEF ProcessInv, Calm, SettledInv, OpenTab
<1>. QED  BY <1>1, InitProcess, NextProcess, PresenceInvariant, PTL DEF Spec
=============================================================================
