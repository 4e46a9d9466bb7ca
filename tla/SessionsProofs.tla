--------------------------- MODULE SessionsProofs ---------------------------
(***************************************************************************)
(* Proofs about Sessions for any keys, tokens and requests in flight.      *)
(***************************************************************************)
EXTENDS Sessions, TLAPS

-----------------------------------------------------------------------------
(* The inductive invariant.                                                *)

\* What the operation and the step of a request in flight imply about the rest
\* of it.
Shaped(r) ==
  /\ r.op = "idle" => r = Idle
  /\ r.op = "login" => r.step \in {"work", "commit"}
  /\ r.op = "reset" => r.step = "commit" /\ r.target \in Tokens
  /\ r.step \in {"mark", "row"} => r.target \in Keys
  /\ r.step = "save" => r.op = "change"
  /\ r.keeps => r.key # NoKey

ReqInv == \A s \in Slots : Shaped(req[s])

\* While the account exists no key is forgotten: one that has had a row, or that
\* a request in flight names, keeps its record; so it is never drawn again.
KeyInv ==
  account =>
    /\ \A k \in Keys : store[k] # "none" => record[k] # "none"
    /\ \A s \in Slots : req[s].key # NoKey => record[req[s].key] # "none"
    /\ \A s \in Slots : req[s].step \in {"mark", "row"} => record[req[s].target] # "none"

RevokedInv ==
  account => \A k \in revoked : store[k] = "none" /\ record[k] # "none"

\* A token that has set a password is spent, and so is no other request's.
TokenInv ==
  /\ \A t \in Tokens : effective[t] <= 1
  /\ \A t \in Tokens : token[t] = "fresh" => account /\ effective[t] = 0
  /\ \A t \in Tokens : account /\ token[t] = "none" => effective[t] = 0
  /\ \A s \in Slots : req[s].op = "reset" => effective[req[s].target] = 0

IInv == TypeOK /\ ReqInv /\ KeyInv /\ RevokedInv /\ TokenInv

-----------------------------------------------------------------------------
(* Requests in flight.                                                     *)

LEMMA IdleTyped == Idle \in Request /\ Shaped(Idle)
BY SlotAssumption, KeyAssumption DEF Idle, Request, Steps, AllOps, Shaped

LEMMA IdleFields ==
  ASSUME NEW r \in Request, r.op = "idle", r.step = "track", r.key = NoKey,
         r.target = NoKey, ~r.keeps, ~r.proved
  PROVE  r = Idle
BY DEF Request, Idle

\* What replacing one request leaves of the invariant of requests.
LEMMA ReplaceRequest ==
  ASSUME TypeOK, ReqInv, NEW s \in Slots, NEW r \in Request, Shaped(r),
         req' = [req EXCEPT ![s] = r]
  PROVE  /\ req' \in [Slots -> Request]
         /\ \A q \in Slots : req'[q] = IF q = s THEN r ELSE req[q]
         /\ ReqInv'
<1>1. req' \in [Slots -> Request] /\ \A q \in Slots : req'[q] = IF q = s THEN r ELSE req[q]
  BY DEF TypeOK
<1>2. \A q \in Slots : Shaped(req'[q])
  BY <1>1 DEF ReqInv
<1>. QED  BY <1>1, <1>2 DEF ReqInv

-----------------------------------------------------------------------------
(* What most steps have in common.                                         *)

\* Requests go on: no reset begins or ends, and the keys they name have records.
ReqFollows ==
  /\ req' \in [Slots -> Request]
  /\ \A q \in Slots :
       /\ Shaped(req'[q])
       /\ req'[q].op \in AllOps \ {"login", "reset"} => req'[q].key # NoKey
       /\ req'[q].op = "reset" <=> req[q].op = "reset"
       /\ req'[q].op = "reset" => req'[q].target = req[q].target
       /\ \/ req'[q].key \in {req[q].key, NoKey}
          \/ account => record'[req'[q].key] # "none"
       /\ req'[q].step \in {"mark", "row"} =>
            \/ req[q].step \in {"mark", "row"} /\ req'[q].target = req[q].target
            \/ account => record'[req'[q].target] # "none"

\* Rows change: records stay, a row is new only under a key without a record,
\* and a revoked key has a record and no row.
RowsFollow ==
  /\ UNCHANGED <<account, token, userLock, effective>>
  /\ store' \in [Keys -> {"none", "live", "expired"}]
  /\ current' \in [Keys -> BOOLEAN]
  /\ record' \in [Keys -> {"none", "valid", "ended"}]
  /\ \A k \in Keys : record[k] # "none" => record'[k] # "none"
  /\ \A k \in Keys : account /\ store'[k] # "none" =>
                       record'[k] # "none" /\ (store[k] # "none" \/ record[k] = "none")
  /\ revoked' \subseteq Keys
  /\ \A k \in revoked' : k \in revoked \/ (account => store'[k] = "none" /\ record'[k] # "none")
  /\ overlapped' \in BOOLEAN /\ crashed' \in BOOLEAN

LEMMA StepKeeps == IInv /\ ReqFollows /\ RowsFollow => IInv'
<1>. SUFFICES ASSUME IInv, ReqFollows, RowsFollow PROVE IInv'
  OBVIOUS
<1>1. TypeOK'
  BY DEF IInv, TypeOK, ReqFollows, RowsFollow
<1>2. ReqInv'
  BY DEF ReqInv, ReqFollows
<1>3. KeyInv'
  <2>1. ASSUME account, NEW q \in Slots, req'[q].key # NoKey
        PROVE  record'[req'[q].key] # "none"
    BY <2>1 DEF IInv, TypeOK, KeyInv, ReqFollows, RowsFollow, Request
  <2>2. ASSUME account, NEW q \in Slots, req'[q].step \in {"mark", "row"}
        PROVE  record'[req'[q].target] # "none"
    BY <2>2 DEF IInv, TypeOK, KeyInv, ReqInv, Shaped, ReqFollows, RowsFollow
  <2>. QED  BY <2>1, <2>2 DEF KeyInv, RowsFollow
<1>4. RevokedInv'
  BY DEF IInv, TypeOK, RevokedInv, RowsFollow
<1>5. TokenInv'
  BY DEF IInv, TokenInv, RowsFollow, ReqFollows
<1>. QED  BY <1>1, <1>2, <1>3, <1>4, <1>5 DEF IInv

\* One request goes on as r, and the others as they were.
LEMMA ReplaceFollows ==
  ASSUME IInv, NEW s \in Slots, NEW r \in Request, Shaped(r),
         req' = [req EXCEPT ![s] = r], r.op # "reset", req[s].op # "reset",
         r.op \notin {"idle", "login"} => r.key # NoKey,
         r.key \in {req[s].key, NoKey} \/ (account => record'[r.key] # "none"),
         r.step \in {"mark", "row"} =>
            \/ req[s].step \in {"mark", "row"} /\ r.target = req[s].target
            \/ account => record'[r.target] # "none"
  PROVE  ReqFollows
<1>1. req' \in [Slots -> Request] /\ \A q \in Slots : req'[q] = IF q = s THEN r ELSE req[q]
  BY ReplaceRequest DEF IInv
<1>2. \A q \in Slots : Shaped(req[q]) /\
        (req[q].op \in AllOps \ {"login", "reset"} => req[q].key # NoKey)
  BY DEF IInv, ReqInv, TypeOK
<1>3. "idle" \notin AllOps
  BY DEF AllOps
<1>. QED  BY <1>1, <1>2, <1>3 DEF ReqFollows

LEMMA SameFollows == IInv /\ UNCHANGED req => ReqFollows
BY DEF IInv, ReqInv, TypeOK, ReqFollows

LEMMA FinishFollows ==
  ASSUME IInv, NEW s \in Slots, Finish(s), req[s].op # "reset" PROVE ReqFollows
<1>1. Idle.op = "idle" /\ Idle.key = NoKey /\ Idle.step = "track"
  BY DEF Idle
<1>. QED  BY <1>1, IdleTyped, ReplaceFollows DEF Finish

\* A request that ends its view carries a key of its own or a new one.
LEMMA RespondFollows ==
  ASSUME IInv, NEW s \in Slots, NEW k \in Keys, Respond(s, k), req[s].op # "reset",
         k = req[s].key \/ (account => record'[k] # "none")
  PROVE  ReqFollows
<1>. DEFINE r == [Idle EXCEPT !.op = "visit", !.step = "track", !.key = k]
<1>1. /\ r.op = "visit" /\ r.step = "track" /\ r.key = k /\ ~r.keeps
      /\ k # NoKey
  BY KeyAssumption DEF Idle
<1>2. r \in Request
  BY IdleTyped DEF Request, Steps, AllOps
<1>3. req' = [req EXCEPT ![s] = r]
  BY DEF Respond
<1>. HIDE DEF r
<1>4. Shaped(r)
  BY <1>1 DEF Shaped
<1>. QED  BY <1>1, <1>2, <1>3, <1>4, ReplaceFollows

\* A request that takes its next step.
LEMMA GotoFollows ==
  ASSUME IInv, NEW s \in Slots, NEW x \in Steps, Goto(s, x),
         req[s].op \notin {"idle", "login", "reset"},
         x \in {"mark", "row"} => req[s].step \in {"mark", "row"},
         x = "save" => req[s].op = "change"
  PROVE  ReqFollows
<1>. DEFINE r == [req[s] EXCEPT !.step = x]
<1>1. req[s] \in Request /\ Shaped(req[s])
  BY DEF IInv, TypeOK, ReqInv
<1>2. /\ r.op = req[s].op /\ r.key = req[s].key /\ r.target = req[s].target
      /\ r.keeps = req[s].keeps /\ r.step = x /\ r \in Request
  BY <1>1 DEF Request
<1>3. Shaped(r)
  BY <1>1, <1>2 DEF Shaped
<1>4. req' = [req EXCEPT ![s] = r]
  BY DEF Goto, IInv, TypeOK
<1>5. r.op \notin {"idle", "login"} => r.key # NoKey
  BY <1>1, <1>2 DEF IInv, TypeOK, Request
<1>. HIDE DEF r
<1>. QED  BY <1>1, <1>2, <1>3, <1>4, <1>5, ReplaceFollows

\* A request that is neither idle, a login nor a reset carries a key, and so do
\* its steps.
LEMMA KeyOfRequest ==
  ASSUME IInv, NEW s \in Slots
  PROVE  /\ req[s] \in Request
         /\ req[s].op \notin {"idle", "login", "reset"} => req[s].key \in Keys
         /\ req[s].step \notin {"work", "commit"} => req[s] = Idle \/ req[s].key \in Keys
         /\ req[s].step \notin {"work", "commit"} => req[s].op \notin {"login", "reset"}
         /\ req[s].step \notin {"work", "commit", "track"} => req[s].op # "idle"
         /\ req[s].key \in Keys /\ account => record[req[s].key] # "none"
         /\ req[s].step \in {"mark", "row"} => req[s].target \in Keys
         /\ req[s].step \in {"mark", "row"} /\ account => record[req[s].target] # "none"
<1>1. req[s] \in Request /\ Shaped(req[s])
  BY DEF IInv, TypeOK, ReqInv
<1>2. req[s].op \in AllOps \ {"login", "reset"} => req[s].key # NoKey
  BY DEF IInv, TypeOK
<1>3. req[s].op \notin {"idle", "login", "reset"} => req[s].key \in Keys
  BY <1>1, <1>2 DEF Request
<1>4. Idle.step = "track"
  BY DEF Idle
<1>. QED  BY <1>1, <1>3, <1>4, KeyAssumption DEF Shaped, IInv, KeyInv

-----------------------------------------------------------------------------
(* The steps of a request.                                                 *)

LEMMA SyncKeeps == ASSUME IInv, NEW s \in Slots, Sync(s) PROVE IInv'
<1>1. req[s].key \in Keys /\ req[s].op \notin {"idle", "login", "reset"}
  BY KeyOfRequest DEF Sync
<1>2. RowsFollow
  BY <1>1 DEF Sync, Synced, IInv, TypeOK, KeyInv, RowsFollow, credentials, history
<1>3. ReqFollows
  <2>1. CASE req[s].op = "visit"
    BY <1>1, <2>1, RespondFollows DEF Sync
  <2>2. CASE req[s].op # "visit"
    BY <1>1, <2>2, GotoFollows DEF Sync, Steps
  <2>. QED  BY <2>1, <2>2
<1>. QED  BY <1>2, <1>3, StepKeeps

LEMMA TrackKeeps == ASSUME IInv, NEW s \in Slots, Track(s) PROVE IInv'
<1>1. req[s].key \in Keys /\ req[s].op # "reset"
  BY KeyOfRequest DEF Track
<1>2. RowsFollow
  BY <1>1 DEF Track, Synced, IInv, TypeOK, KeyInv, RowsFollow, credentials, history
<1>3. ReqFollows
  <2>1. CASE req[s].op = "change" /\ account
    BY <2>1, GotoFollows DEF Track, Steps
  <2>2. CASE ~(req[s].op = "change" /\ account)
    BY <1>1, <2>2, FinishFollows DEF Track
  <2>. QED  BY <2>1, <2>2
<1>. QED  BY <1>2, <1>3, StepKeeps

LEMMA SaveKeeps == ASSUME IInv, NEW s \in Slots, Save(s) PROVE IInv'
<1>1. req[s].key \in Keys /\ req[s].op = "change" /\ req[s].proved \in BOOLEAN
  BY KeyOfRequest DEF Save, At, Request
<1>2. RowsFollow
  BY <1>1 DEF Save, IInv, TypeOK, KeyInv, RowsFollow, credentials, history
<1>. QED  BY <1>1, <1>2, FinishFollows, StepKeeps DEF Save

LEMMA ListKeeps == ASSUME IInv, NEW s \in Slots, List(s) PROVE IInv'
<1>1. req[s].key \in Keys /\ req[s].op # "reset"
  BY KeyOfRequest DEF List, At
<1>2. RowsFollow
  BY DEF List, MayHaveExpired, IInv, TypeOK, KeyInv, RowsFollow, credentials, history
<1>3. ReqFollows
  BY <1>1, RespondFollows DEF List
<1>. QED  BY <1>2, <1>3, StepKeeps

LEMMA RevokeFindKeeps == ASSUME IInv, NEW s \in Slots, RevokeFind(s) PROVE IInv'
<1>1. req[s].key \in Keys /\ req[s].op = "revoke" /\ req[s] \in Request /\ Shaped(req[s])
  BY KeyOfRequest DEF RevokeFind, At, IInv, ReqInv
<1>2. RowsFollow
  BY DEF RevokeFind, IInv, TypeOK, KeyInv, RowsFollow, sessions, credentials, history
<1>3. CASE Respond(s, req[s].key)
  BY <1>1, <1>2, <1>3, RespondFollows, StepKeeps
<1>4. ASSUME NEW t \in Keys, Listed(t),
             req' = [req EXCEPT ![s].target = t, ![s].step = "mark"]
      PROVE  IInv'
  <2>. DEFINE r == [req[s] EXCEPT !.target = t, !.step = "mark"]
  <2>1. /\ r.op = "revoke" /\ r.step = "mark" /\ r.key = req[s].key /\ r.target = t
        /\ r.keeps = req[s].keeps
    BY <1>1 DEF Request
  <2>2. r \in Request
    BY <1>1 DEF Request, Steps
  <2>3. req' = [req EXCEPT ![s] = r]
    BY <1>1, <1>4 DEF IInv, TypeOK, Request
  <2>. HIDE DEF r
  <2>4. Shaped(r)
    BY <1>1, <2>1 DEF Shaped
  <2>5. record'[t] # "none"
    BY <1>4 DEF RevokeFind, sessions, Listed
  <2>6. r.key # NoKey
    BY <1>1, <2>1, KeyAssumption
  <2>. QED  BY <1>1, <1>2, <2>1, <2>2, <2>3, <2>4, <2>5, <2>6, ReplaceFollows, StepKeeps
<1>. QED  BY <1>3, <1>4 DEF RevokeFind

LEMMA RevokeMarkKeeps == ASSUME IInv, NEW s \in Slots, RevokeMark(s) PROVE IInv'
<1>1. /\ req[s].key \in Keys /\ req[s].op = "revoke" /\ req[s].step = "mark"
      /\ req[s].target \in Keys
  BY KeyOfRequest DEF RevokeMark, At
<1>2. RowsFollow
  BY <1>1 DEF RevokeMark, IInv, TypeOK, KeyInv, RowsFollow, credentials, history
<1>3. ReqFollows
  <2>1. CASE account
    BY <1>1, <2>1, GotoFollows DEF RevokeMark, Steps
  <2>2. CASE ~account
    BY <1>1, <2>2, RespondFollows DEF RevokeMark
  <2>. QED  BY <2>1, <2>2
<1>. QED  BY <1>2, <1>3, StepKeeps

LEMMA RevokeRowKeeps == ASSUME IInv, NEW s \in Slots, RevokeRow(s) PROVE IInv'
<1>1. /\ req[s].key \in Keys /\ req[s].op = "revoke" /\ req[s].target \in Keys
      /\ account => record[req[s].target] # "none"
  BY KeyOfRequest DEF RevokeRow, At
<1>2. RowsFollow
  BY <1>1 DEF RevokeRow, IInv, TypeOK, KeyInv, RowsFollow, credentials
<1>3. ReqFollows
  <2>1. CASE LogOut(s)
    <3>. DEFINE r == [Idle EXCEPT !.op = "logout", !.step = "out", !.key = req[s].key]
    <3>1. /\ r.op = "logout" /\ r.step = "out" /\ r.key = req[s].key /\ ~r.keeps
          /\ r.key # NoKey
      BY <1>1, KeyAssumption DEF Idle
    <3>2. r \in Request
      BY <1>1, IdleTyped DEF Request, Steps, AllOps
    <3>3. req' = [req EXCEPT ![s] = r]
      BY <2>1 DEF LogOut
    <3>. HIDE DEF r
    <3>4. Shaped(r)
      BY <3>1 DEF Shaped
    <3>. QED  BY <1>1, <3>1, <3>2, <3>3, <3>4, ReplaceFollows
  <2>2. CASE Respond(s, req[s].key)
    BY <1>1, <2>2, RespondFollows
  <2>. QED  BY <2>1, <2>2 DEF RevokeRow
<1>. QED  BY <1>2, <1>3, StepKeeps

LEMMA OutRecordKeeps == ASSUME IInv, NEW s \in Slots, OutRecord(s) PROVE IInv'
<1>1. req[s].key \in Keys /\ req[s].op \notin {"idle", "login", "reset"}
  BY KeyOfRequest DEF OutRecord
<1>2. RowsFollow
  BY <1>1 DEF OutRecord, Listed, IInv, TypeOK, KeyInv, RowsFollow, credentials, history
<1>3. ReqFollows
  BY <1>1, GotoFollows DEF OutRecord, Steps
<1>. QED  BY <1>2, <1>3, StepKeeps

LEMMA OutRowKeeps == ASSUME IInv, NEW s \in Slots, OutRow(s) PROVE IInv'
<1>1. /\ req[s].key \in Keys /\ req[s].op \notin {"idle", "login", "reset"}
      /\ account => record[req[s].key] # "none"
  BY KeyOfRequest DEF OutRow
<1>2. RowsFollow
  BY <1>1 DEF OutRow, IInv, TypeOK, KeyInv, RowsFollow, credentials
<1>3. ReqFollows
  <2>1. CASE req[s].op = "delete"
    BY <1>1, <2>1, GotoFollows DEF OutRow, Steps
  <2>2. CASE req[s].op # "delete"
    BY <1>1, <2>2, FinishFollows DEF OutRow
  <2>. QED  BY <2>1, <2>2
<1>. QED  BY <1>2, <1>3, StepKeeps

LEMMA DeleteCheckKeeps == ASSUME IInv, NEW s \in Slots, DeleteCheck(s) PROVE IInv'
<1>1. req[s].key \in Keys /\ req[s].op = "delete"
  BY KeyOfRequest DEF DeleteCheck, At
<1>2. RowsFollow
  BY DEF DeleteCheck, IInv, TypeOK, KeyInv, RowsFollow, sessions, credentials, history
<1>3. ReqFollows
  BY <1>1, GotoFollows, RespondFollows DEF DeleteCheck, Steps
<1>. QED  BY <1>2, <1>3, StepKeeps

-----------------------------------------------------------------------------
(* Logins and passwords.                                                   *)

LEMMA LoginCheckKeeps == ASSUME IInv, NEW s \in Slots, LoginCheck(s) PROVE IInv'
<1>1. req[s] \in Request /\ req[s].op = "login" /\ req[s].step = "work" /\ Shaped(req[s])
  BY DEF LoginCheck, At, IInv, TypeOK, ReqInv
<1>2. RowsFollow
  BY DEF LoginCheck, IInv, TypeOK, KeyInv, RowsFollow, sessions, credentials, history
<1>3. CASE req' = [req EXCEPT ![s].proved = TRUE, ![s].step = "commit"]
  <2>. DEFINE r == [req[s] EXCEPT !.proved = TRUE, !.step = "commit"]
  <2>1. r.op = "login" /\ r.step = "commit" /\ r.key = req[s].key /\ r.keeps = req[s].keeps
    BY <1>1 DEF Request
  <2>2. r \in Request
    BY <1>1 DEF Request, Steps
  <2>3. req' = [req EXCEPT ![s] = r]
    BY <1>1, <1>3 DEF IInv, TypeOK, Request
  <2>. HIDE DEF r
  <2>4. Shaped(r)
    BY <1>1, <2>1 DEF Shaped
  <2>5. ReqFollows
    BY <1>1, <2>1, <2>2, <2>3, <2>4, ReplaceFollows
  <2>. QED  BY <1>2, <2>5, StepKeeps
<1>4. CASE IF req[s].key = NoKey THEN Finish(s) ELSE Respond(s, req[s].key)
  <2>1. CASE req[s].key = NoKey
    BY <1>1, <1>2, <1>4, <2>1, FinishFollows, StepKeeps
  <2>2. CASE req[s].key # NoKey
    <3>1. req[s].key \in Keys
      BY <1>1, <2>2 DEF Request
    <3>. QED  BY <1>1, <1>2, <1>4, <2>2, <3>1, RespondFollows, StepKeeps
  <2>. QED  BY <2>1, <2>2
<1>. QED  BY <1>3, <1>4 DEF LoginCheck

LEMMA LoginCommitKeeps == ASSUME IInv, NEW s \in Slots, LoginCommit(s) PROVE IInv'
<1>1. /\ req[s] \in Request /\ req[s].op = "login" /\ Shaped(req[s])
      /\ UNCHANGED <<credentials, userLock, history>>
      /\ req[s].key \in Keys /\ account => record[req[s].key] # "none"
  BY KeyOfRequest DEF LoginCommit, At, IInv, ReqInv
<1>2. CASE Finish(s) /\ UNCHANGED sessions
  <2>1. RowsFollow
    BY <1>1, <1>2 DEF IInv, TypeOK, KeyInv, RowsFollow, sessions, credentials, history
  <2>. QED  BY <1>1, <1>2, <2>1, FinishFollows, StepKeeps
<1>3. CASE account /\ req[s].keeps /\ Relog(s)
  <2>1. req[s].key \in Keys
    BY <1>1, <1>3 DEF Shaped, Request
  <2>2. RowsFollow
    BY <1>1, <1>3, <2>1 DEF Relog, IInv, TypeOK, KeyInv, RowsFollow, credentials, history, Request
  <2>3. ReqFollows
    BY <1>1, <1>3, <2>1, RespondFollows DEF Relog
  <2>. QED  BY <2>2, <2>3, StepKeeps
<1>4. ASSUME NEW n \in Keys, Opened(s, n), Respond(s, n),
             current' = [current EXCEPT ![n] = req[s].proved],
             record' = [record EXCEPT ![n] = "valid"]
      PROVE  IInv'
  <2>1. RowsFollow
    BY <1>1, <1>4 DEF Opened, Fresh, IInv, TypeOK, KeyInv, RowsFollow, credentials, history, Request
  <2>2. ReqFollows
    <3>1. record'[n] # "none"
      BY <1>4 DEF IInv, TypeOK
    <3>. QED  BY <1>1, <1>4, <3>1, RespondFollows
  <2>. QED  BY <2>1, <2>2, StepKeeps
<1>. QED  BY <1>2, <1>3, <1>4 DEF LoginCommit

\* The other requests in flight when the password changes.
LEMMA OutdatedOthers ==
  ASSUME IInv, NEW s \in Slots, NEW r \in Request, Outdated(s, r)
  PROVE  /\ req' \in [Slots -> Request]
         /\ req'[s] = r
         /\ \A q \in Slots \ {s} :
              /\ Shaped(req'[q])
              /\ req'[q].op = req[q].op /\ req'[q].step = req[q].step
              /\ req'[q].key = req[q].key /\ req'[q].target = req[q].target
<1>. DEFINE o(q) == [req[q] EXCEPT !.keeps = @ /\ req[q].step = "commit", !.proved = FALSE]
<1>1. ASSUME NEW q \in Slots
      PROVE  /\ o(q) \in Request
             /\ o(q).op = req[q].op /\ o(q).step = req[q].step
             /\ o(q).key = req[q].key /\ o(q).target = req[q].target
             /\ o(q).keeps => req[q].keeps
             /\ ~o(q).proved
  <2>1. req[q] \in Request
    BY DEF IInv, TypeOK
  <2>. QED  BY <2>1 DEF Request
<1>2. req' = [q \in Slots |-> IF q = s THEN r ELSE o(q)]
  BY DEF Outdated
<1>. HIDE DEF o
<1>3. \A q \in Slots : o(q).op = "idle" => q = s \/ o(q) = Idle
  <2>1. SUFFICES ASSUME NEW q \in Slots, req[q].op = "idle" PROVE o(q) = Idle
    BY <1>1
  <2>2. req[q] = Idle
    BY <2>1 DEF IInv, ReqInv, Shaped
  <2>3. /\ o(q).op = "idle" /\ o(q).step = "track"
        /\ o(q).key = NoKey /\ o(q).target = NoKey
    BY <1>1, <2>2 DEF Idle
  <2>4. ~o(q).keeps /\ ~o(q).proved
    BY <1>1, <2>2 DEF Idle
  <2>. QED  BY <1>1, <2>3, <2>4, IdleFields
<1>4. ASSUME NEW q \in Slots \ {s} PROVE Shaped(o(q))
  <2>1. Shaped(req[q])
    BY DEF IInv, ReqInv
  <2>. QED  BY <1>1, <1>3, <1>4, <2>1 DEF Shaped
<1>. QED  BY <1>1, <1>2, <1>4

LEMMA ChangeKeeps == ASSUME IInv, NEW s \in Slots, Change(s) PROVE IInv'
<1>1. /\ req[s].op = "change" /\ req[s].key \in Keys
      /\ UNCHANGED <<credentials, userLock, history>>
  BY KeyOfRequest DEF Change, At
<1>2. CASE Respond(s, req[s].key) /\ UNCHANGED sessions
  <2>1. RowsFollow
    BY <1>1, <1>2 DEF IInv, TypeOK, KeyInv, RowsFollow, sessions, credentials, history
  <2>. QED  BY <1>1, <1>2, <2>1, RespondFollows, StepKeeps
<1>. DEFINE r(n) == [Idle EXCEPT !.op = "change", !.step = "track", !.key = n, !.proved = TRUE]
<1>3. ASSUME NEW n \in Keys, account, Opened(s, n), current' = [k \in Keys |-> FALSE],
             record' = [k \in Keys |-> IF k = n THEN "valid"
                          ELSE IF k = req[s].key /\ Listed(k) THEN "ended" ELSE record[k]],
             Outdated(s, r(n))
      PROVE  IInv'
  <2>1. RowsFollow
    BY <1>1, <1>3 DEF Opened, Fresh, Listed, IInv, TypeOK, KeyInv, RowsFollow, credentials, history
  <2>2. /\ r(n).op = "change" /\ r(n).step = "track" /\ r(n).key = n /\ ~r(n).keeps
        /\ n # NoKey
    BY KeyAssumption DEF Idle
  <2>3. r(n) \in Request
    BY IdleTyped DEF Request, Steps, AllOps
  <2>. HIDE DEF r
  <2>4. Shaped(r(n))
    BY <2>2 DEF Shaped
  <2>5. record'[n] # "none"
    BY <1>3
  <2>6. \A q \in Slots : req[q].op \in AllOps \ {"login", "reset"} => req[q].key # NoKey
    BY DEF IInv, TypeOK
  <2>7. ReqFollows
    BY <1>1, <1>3, <2>2, <2>3, <2>4, <2>5, <2>6, OutdatedOthers DEF ReqFollows
  <2>. QED  BY <2>1, <2>7, StepKeeps
<1>. QED  BY <1>2, <1>3 DEF Change

LEMMA ResetLockKeeps ==
  ASSUME IInv, NEW s \in Slots, NEW t \in Tokens, ResetLock(s, t) PROVE IInv'
<1>. DEFINE r == [Idle EXCEPT !.op = "reset", !.step = "commit", !.target = t]
<1>1. r.op = "reset" /\ r.step = "commit" /\ r.key = NoKey /\ r.target = t /\ ~r.keeps
  BY DEF Idle
<1>2. r \in Request
  BY IdleTyped DEF Request, Steps, AllOps
<1>3. req' = [req EXCEPT ![s] = r] /\ req[s].op = "idle"
  BY DEF ResetLock, Idle
<1>. HIDE DEF r
<1>4. Shaped(r)
  BY <1>1 DEF Shaped
<1>5. /\ req' \in [Slots -> Request] /\ ReqInv'
      /\ \A q \in Slots : req'[q] = IF q = s THEN r ELSE req[q]
  BY <1>2, <1>3, <1>4, ReplaceRequest DEF IInv
<1>6. userLock = NoSlot /\ userLock' = s
  BY <1>3 DEF ResetLock, UserRowFree, IInv, TypeOK
<1>7. UNCHANGED <<account, store, current, record, token, revoked, effective, crashed>>
  BY DEF ResetLock, sessions, credentials
<1>8. TypeOK'
  <2>1. overlapped' \in BOOLEAN
    BY DEF ResetLock, IInv, TypeOK
  <2>2. \A q \in Slots : req'[q].op \in AllOps \ {"login", "reset"} => req'[q].key # NoKey
    BY <1>1, <1>5 DEF IInv, TypeOK
  <2>3. \A q \in Slots : req'[q].op = "reset" <=> q = userLock'
    BY <1>1, <1>5, <1>6, SlotAssumption DEF IInv, TypeOK
  <2>. QED  BY <1>5, <1>6, <1>7, <2>1, <2>2, <2>3 DEF IInv, TypeOK
<1>9. KeyInv'
  BY <1>1, <1>5, <1>7 DEF IInv, KeyInv
<1>10. RevokedInv'
  BY <1>7 DEF IInv, RevokedInv
<1>11. TokenInv'
  <2>1. effective[t] = 0
    BY DEF ResetLock, IInv, TokenInv
  <2>. QED  BY <1>1, <1>5, <1>7, <2>1 DEF IInv, TokenInv
<1>. QED  BY <1>5, <1>8, <1>9, <1>10, <1>11 DEF IInv

LEMMA ResetCommitKeeps == ASSUME IInv, NEW s \in Slots, ResetCommit(s) PROVE IInv'
<1>1. /\ req[s].op = "reset" /\ req[s].target \in Tokens /\ s = userLock
      /\ effective[req[s].target] = 0
  BY DEF ResetCommit, At, IInv, ReqInv, Shaped, TypeOK, TokenInv
<1>2. /\ req' \in [Slots -> Request] /\ req'[s] = Idle
      /\ \A q \in Slots \ {s} :
           /\ Shaped(req'[q])
           /\ req'[q].op = req[q].op /\ req'[q].step = req[q].step
           /\ req'[q].key = req[q].key /\ req'[q].target = req[q].target
  BY OutdatedOthers, IdleTyped DEF ResetCommit
<1>3. Idle.op = "idle" /\ Idle.key = NoKey /\ Idle.step = "track"
  BY DEF Idle
<1>4. \A q \in Slots : req'[q].op # "reset"
  BY <1>1, <1>2, <1>3 DEF IInv, TypeOK
<1>5. UNCHANGED <<account, store, record, revoked, overlapped, crashed>> /\ userLock' = NoSlot
  BY DEF ResetCommit
<1>6. /\ token' = [token EXCEPT ![req[s].target] = "spent"]
      /\ effective' = [effective EXCEPT ![req[s].target] = 1]
  BY <1>1 DEF ResetCommit, IInv, TypeOK
<1>7. TypeOK'
  <2>1. \A q \in Slots : req'[q].op \in AllOps \ {"login", "reset"} => req'[q].key # NoKey
    BY <1>2, <1>3 DEF IInv, TypeOK, AllOps
  <2>2. \A q \in Slots : req'[q].op = "reset" <=> q = userLock'
    BY <1>4, <1>5, SlotAssumption
  <2>3. current' \in [Keys -> BOOLEAN]
    BY DEF ResetCommit
  <2>4. effective' \in [Tokens -> 0 .. 2]
    <3>1. effective \in [Tokens -> 0 .. 2] /\ 1 \in 0 .. 2
      BY DEF IInv, TypeOK
    <3>. QED  BY <1>6, <3>1
  <2>. QED  BY <1>2, <1>5, <1>6, <2>1, <2>2, <2>3, <2>4 DEF IInv, TypeOK
<1>8. ReqInv'
  BY <1>2, IdleTyped DEF ReqInv
<1>9. KeyInv'
  BY <1>2, <1>3, <1>5 DEF IInv, KeyInv
<1>10. RevokedInv'
  BY <1>5 DEF IInv, RevokedInv
<1>11. TokenInv'
  BY <1>1, <1>4, <1>5, <1>6 DEF IInv, TypeOK, TokenInv
<1>. QED  BY <1>7, <1>8, <1>9, <1>10, <1>11 DEF IInv

-----------------------------------------------------------------------------
(* The account, time and failures.                                         *)

\* A request that ends, whatever it was doing, with the lock it may hold.
LEMMA EndedTyped ==
  ASSUME IInv, NEW s \in Slots, Finish(s), userLock' = IF userLock = s THEN NoSlot ELSE userLock
  PROVE  /\ req' \in [Slots -> Request] /\ ReqInv'
         /\ \A q \in Slots : req'[q] = IF q = s THEN Idle ELSE req[q]
         /\ \A q \in Slots : req'[q].op \in AllOps \ {"login", "reset"} => req'[q].key # NoKey
         /\ \A q \in Slots : req'[q].op = "reset" <=> q = userLock'
<1>1. Idle.op = "idle" /\ "idle" \notin AllOps
  BY DEF Idle, AllOps
<1>2. /\ req' \in [Slots -> Request] /\ ReqInv'
      /\ \A q \in Slots : req'[q] = IF q = s THEN Idle ELSE req[q]
  BY IdleTyped, ReplaceRequest DEF IInv, Finish
<1>. QED  BY <1>1, <1>2, SlotAssumption DEF IInv, TypeOK

LEMMA DeleteKeeps == ASSUME IInv, NEW s \in Slots, Delete(s) PROVE IInv'
<1>1. req[s].op = "delete" /\ Finish(s) /\ UNCHANGED <<current, userLock, history>>
  BY DEF Delete, At
<1>2. CASE UNCHANGED <<account, store, record, token>>
  <2>1. RowsFollow
    BY <1>1, <1>2 DEF IInv, TypeOK, KeyInv, RowsFollow, history
  <2>. QED  BY <1>1, <2>1, FinishFollows, StepKeeps
<1>3. ASSUME account' = FALSE,
             store' = [k \in Keys |-> IF Listed(k) /\ store[k] = "live" THEN "none" ELSE store[k]],
             record' = [k \in Keys |-> "none"],
             token' = [t \in Tokens |-> "none"]
      PROVE  IInv'
  <2>1. userLock = NoSlot
    BY <1>1 DEF Delete, UserRowFree, IInv, TypeOK
  <2>2. /\ req' \in [Slots -> Request] /\ ReqInv'
        /\ \A q \in Slots : req'[q].op \in AllOps \ {"login", "reset"} => req'[q].key # NoKey
        /\ \A q \in Slots : req'[q].op = "reset" <=> q = userLock'
    BY <1>1, <2>1, EndedTyped
  <2>3. TypeOK'
    BY <1>1, <1>3, <2>2 DEF IInv, TypeOK, history
  <2>4. KeyInv' /\ RevokedInv'
    BY <1>3 DEF KeyInv, RevokedInv
  <2>5. TokenInv'
    <3>1. \A q \in Slots : req'[q].op # "reset"
      BY <1>1, <2>1, <2>2, SlotAssumption
    <3>. QED  BY <1>1, <1>3, <3>1 DEF IInv, TokenInv, history
  <2>. QED  BY <2>2, <2>3, <2>4, <2>5 DEF IInv
<1>. QED  BY <1>2, <1>3 DEF Delete

LEMMA CrashKeeps == ASSUME IInv, NEW s \in Slots, Crash(s) PROVE IInv'
<1>1. /\ UNCHANGED <<account, store, current, record, token, revoked, effective, overlapped>>
      /\ Finish(s) /\ crashed' = TRUE
      /\ userLock' = IF userLock = s THEN NoSlot ELSE userLock
  BY DEF Crash, sessions, credentials
<1>2. /\ req' \in [Slots -> Request] /\ ReqInv'
      /\ \A q \in Slots : req'[q] = IF q = s THEN Idle ELSE req[q]
      /\ \A q \in Slots : req'[q].op \in AllOps \ {"login", "reset"} => req'[q].key # NoKey
      /\ \A q \in Slots : req'[q].op = "reset" <=> q = userLock'
  BY <1>1, EndedTyped
<1>3. Idle.op = "idle" /\ Idle.key = NoKey /\ Idle.step = "track"
  BY DEF Idle
<1>4. TypeOK'
  BY <1>1, <1>2 DEF IInv, TypeOK
<1>5. KeyInv'
  BY <1>1, <1>2, <1>3 DEF IInv, KeyInv
<1>6. RevokedInv' /\ TokenInv'
  BY <1>1, <1>2, <1>3 DEF IInv, RevokedInv, TokenInv
<1>. QED  BY <1>2, <1>4, <1>5, <1>6 DEF IInv

\* A request begins with a key that has a session, or with none.
LEMMA BeginFollows ==
  ASSUME IInv, NEW s \in Slots, NEW op \in AllOps \ {"reset"},
         NEW x \in Steps \ {"mark", "row", "commit", "save"},
         NEW k \in Keys \union {NoKey}, Begin(s, op, x, k),
         op = "login" => x = "work",
         k # NoKey => store[k] # "none",
         op # "login" => k # NoKey,
         UNCHANGED <<sessions, credentials, userLock, revoked, effective, crashed>>
  PROVE  IInv'
<1>. DEFINE r == [Idle EXCEPT !.op = op, !.step = x, !.key = k,
                              !.keeps = op = "login" /\ k # NoKey]
<1>1. /\ r.op = op /\ r.step = x /\ r.key = k /\ r.keeps = (op = "login" /\ k # NoKey)
      /\ Idle.op = "idle"
  BY DEF Idle
<1>2. r \in Request
  BY IdleTyped DEF Request
<1>3. req' = [req EXCEPT ![s] = r] /\ req[s].op = "idle"
  BY <1>1 DEF Begin
<1>. HIDE DEF r
<1>4. op # "idle"
  BY DEF AllOps
<1>5. Shaped(r)
  BY <1>1, <1>4 DEF Shaped
<1>6. overlapped' \in BOOLEAN
  BY DEF Begin, IInv, TypeOK
<1>7. RowsFollow
  BY <1>6 DEF IInv, TypeOK, KeyInv, RowsFollow, sessions, credentials
<1>8. r.key \in {req[s].key, NoKey} \/ (account => record'[r.key] # "none")
  BY <1>1 DEF IInv, KeyInv, sessions
<1>9. ReqFollows
  BY <1>1, <1>2, <1>3, <1>5, <1>8, ReplaceFollows
<1>. QED  BY <1>7, <1>9, StepKeeps

LEMMA BeginAuthenticatedKeeps ==
  ASSUME IInv, NEW s \in Slots, NEW k \in Keys,
         NEW op \in {"visit", "list", "revoke", "change", "delete", "logout"},
         NEW x \in {"sync", "work", "out"},
         BeginAuthenticated(s, op, x, k)
  PROVE  IInv'
<1>1. /\ op \in AllOps \ {"reset"} /\ op # "login"
      /\ x \in Steps \ {"mark", "row", "commit", "save"}
  BY DEF AllOps, Steps
<1>2. /\ k # NoKey /\ store[k] # "none" /\ Begin(s, op, x, k)
      /\ UNCHANGED <<sessions, credentials, userLock, revoked, effective, crashed>>
  BY DEF BeginAuthenticated, MayAuthenticate
<1>. QED  BY <1>1, <1>2, BeginFollows

LEMMA LoginBeginKeeps ==
  ASSUME IInv, NEW s \in Slots, NEW k \in Keys \union {NoKey}, LoginBegin(s, k)
  PROVE  IInv'
<1>1. /\ Begin(s, "login", "work", k)
      /\ UNCHANGED <<sessions, credentials, userLock, revoked, effective, crashed>>
      /\ k # NoKey => store[k] # "none"
  BY DEF LoginBegin, MayAuthenticate
<1>2. "login" \in AllOps \ {"reset"} /\ "work" \in Steps \ {"mark", "row", "commit", "save"}
  BY DEF AllOps, Steps
<1>. QED  BY <1>1, <1>2, BeginFollows

LEMMA FlushedKeeps == ASSUME IInv, NEW k \in Keys, Flushed(k) PROVE IInv'
<1>1. RowsFollow
  BY DEF Flushed, IInv, TypeOK, KeyInv, RowsFollow, credentials, history
<1>. QED  BY <1>1, SameFollows, StepKeeps DEF Flushed

LEMMA ExpireRowKeeps == ASSUME IInv, NEW k \in Keys, ExpireRow(k) PROVE IInv'
<1>1. RowsFollow
  BY DEF ExpireRow, IInv, TypeOK, KeyInv, RowsFollow, credentials, history
<1>. QED  BY <1>1, SameFollows, StepKeeps DEF ExpireRow

\* The tokens of the user.
LEMMA TokenKeeps ==
  ASSUME IInv, NEW t \in Tokens, Ask(t)
  PROVE  IInv'
<1>1. /\ UNCHANGED <<account, store, current, record, userLock, req, revoked, effective,
                     overlapped, crashed>>
      /\ \/ account /\ token[t] = "none" /\ token' = [token EXCEPT ![t] = "fresh"]
         \/ token' = [token EXCEPT ![t] = "spent"]
  BY DEF Ask, sessions, history
<1>2. TypeOK'
  BY <1>1 DEF IInv, TypeOK
<1>3. ReqInv' /\ KeyInv' /\ RevokedInv'
  BY <1>1 DEF IInv, ReqInv, KeyInv, RevokedInv
<1>4. TokenInv'
  BY <1>1 DEF IInv, TypeOK, TokenInv
<1>. QED  BY <1>2, <1>3, <1>4 DEF IInv

-----------------------------------------------------------------------------
(* The theorems.                                                           *)

LEMMA InitIInv == Init => IInv
<1>. SUFFICES ASSUME Init PROVE IInv
  OBVIOUS
<1>1. Idle.op = "idle" /\ Idle.key = NoKey /\ Idle.step = "track" /\ "idle" \notin AllOps
  BY DEF Idle, AllOps
<1>2. \A s \in Slots : req[s] = Idle
  BY DEF Init
<1>3. TypeOK
  <2>1. /\ req \in [Slots -> Request]
        /\ \A s \in Slots : req[s].op \in AllOps \ {"login", "reset"} => req[s].key # NoKey
        /\ \A s \in Slots : req[s].op = "reset" <=> s = userLock
    BY <1>1, <1>2, IdleTyped, SlotAssumption DEF Init
  <2>2. /\ account \in BOOLEAN /\ overlapped \in BOOLEAN /\ crashed \in BOOLEAN
        /\ userLock \in Slots \union {NoSlot} /\ revoked \subseteq Keys
        /\ store \in [Keys -> {"none", "live", "expired"}]
        /\ record \in [Keys -> {"none", "valid", "ended"}]
        /\ token \in [Tokens -> {"none", "fresh", "spent"}]
    BY DEF Init
  <2>3. current \in [Keys -> BOOLEAN]
    BY DEF Init
  <2>4. effective \in [Tokens -> 0 .. 2]
    <3>1. 0 \in 0 .. 2
      OBVIOUS
    <3>. QED  BY <3>1 DEF Init
  <2>. QED  BY <2>1, <2>2, <2>3, <2>4 DEF TypeOK
<1>4. ReqInv
  BY <1>2, IdleTyped DEF ReqInv
<1>5. KeyInv /\ RevokedInv /\ TokenInv
  BY <1>1, <1>2 DEF Init, KeyInv, RevokedInv, TokenInv
<1>. QED  BY <1>3, <1>4, <1>5 DEF IInv

LEMMA NextKeeps == IInv /\ [Next]_vars => IInv'
<1>. SUFFICES ASSUME IInv, [Next]_vars PROVE IInv'
  OBVIOUS
<1>1. ASSUME NEW s \in Slots, NEW k \in Keys,
             \/ \E op \in {"visit", "list", "revoke"} : BeginAuthenticated(s, op, "sync", k)
             \/ \E op \in {"change", "delete"} : BeginAuthenticated(s, op, "work", k)
             \/ BeginAuthenticated(s, "logout", "out", k)
      PROVE  IInv'
  BY <1>1, BeginAuthenticatedKeeps
<1>2. ASSUME NEW s \in Slots,
             \/ \E k \in Keys \union {NoKey} : LoginBegin(s, k)
             \/ Sync(s) \/ Track(s) \/ List(s)
      PROVE  IInv'
  BY <1>2, LoginBeginKeeps, SyncKeeps, TrackKeeps, ListKeeps
<1>3. ASSUME NEW s \in Slots,
             RevokeFind(s) \/ RevokeMark(s) \/ RevokeRow(s) \/ OutRecord(s) \/ OutRow(s)
      PROVE  IInv'
  BY <1>3, RevokeFindKeeps, RevokeMarkKeeps, RevokeRowKeeps, OutRecordKeeps, OutRowKeeps
<1>4. ASSUME NEW s \in Slots,
             \/ LoginCheck(s) \/ LoginCommit(s) \/ Change(s) \/ Save(s)
             \/ \E t \in Tokens : ResetLock(s, t)
             \/ ResetCommit(s) \/ DeleteCheck(s) \/ Delete(s) \/ Crash(s)
      PROVE  IInv'
  BY <1>4, LoginCheckKeeps, LoginCommitKeeps, ChangeKeeps, SaveKeeps, ResetLockKeeps, ResetCommitKeeps,
     DeleteCheckKeeps, DeleteKeeps, CrashKeeps
<1>5. ASSUME NEW k \in Keys, Flushed(k) \/ ExpireRow(k)
      PROVE  IInv'
  BY <1>5, FlushedKeeps, ExpireRowKeeps
<1>6. ASSUME NEW t \in Tokens, Ask(t) PROVE IInv'
  BY <1>6, TokenKeeps
<1>7. CASE UNCHANGED vars
  <2>1. RowsFollow
    BY <1>7 DEF vars, IInv, TypeOK, KeyInv, RowsFollow
  <2>. QED  BY <1>7, <2>1, SameFollows, StepKeeps DEF vars
<1>. QED  BY <1>1, <1>2, <1>3, <1>4, <1>5, <1>6, <1>7 DEF Next

\* The inductive invariant holds in every state of Spec.
THEOREM SessionsInvariant == Spec => []IInv
BY InitIInv, NextKeeps, PTL DEF Spec

(* The tables, the tokens and the requests in flight stay in the sets the  *)
(* module names; every request but a login or a reset carries a session    *)
(* key, and the only reset in flight is the holder of the row locks.       *)
THEOREM SessionsTypeCorrect == Spec => []TypeOK
<1>1. IInv => TypeOK
  BY DEF IInv
<1>. QED  BY <1>1, SessionsInvariant, PTL

(* A session that was revoked or logged out while its row was live never   *)
(* authenticates a request or a handshake again, whatever the requests     *)
(* still in flight on it write, and however many there are.                *)
THEOREM RevokedStaysOutHolds == Spec => []RevokedStaysOut
<1>1. IInv => RevokedStaysOut
  BY DEF IInv, RevokedInv, RevokedStaysOut, MayAuthenticate, MayConnect
<1>. QED  BY <1>1, SessionsInvariant, PTL

(* A password reset token sets a password at most once, for any number of  *)
(* requests that present it at the same time.                              *)
THEOREM TokenWorksOnceHolds == Spec => []TokenWorksOnce
<1>1. IInv => TokenWorksOnce
  BY DEF IInv, TokenInv, TokenWorksOnce
<1>. QED  BY <1>1, SessionsInvariant, PTL
-----------------------------------------------------------------------------
(* The list of sessions and the store.                                     *)

\* The request in s has ended the record of k and will remove its row.
Ending(s, k) ==
  \/ req[s].step = "row" /\ req[s].target = k
  \/ req[s].step = "flush" /\ req[s].key = k

LiveInv ==
  account /\ ~crashed =>
    \A k \in Keys : store[k] = "live" => Listed(k) \/ \E s \in Slots : Ending(s, k)

GoneInv == account \/ \A k \in Keys : record[k] = "none"

\* A request that nobody overlaps: its key has a row, or an old password, until
\* it logs out; what it removes the row of is not listed any more.
Careful(r) ==
  /\ r.key # NoKey /\ r.step \notin {"out", "flush", "delete"} =>
       store[r.key] # "none" \/ ~current[r.key]
  /\ r.step = "row" => ~Listed(r.target)
  /\ r.step = "flush" => ~Listed(r.key)
  /\ r.op = "login" => (r.keeps <=> r.key # NoKey)

ListTrue == \A k \in Keys : Listed(k) => store[k] # "none" \/ ~current[k]

AloneInv ==
  ~overlapped =>
    /\ \A s, q \in Slots : req[s].op # "idle" /\ req[q].op # "idle" => s = q
    /\ \A s \in Slots : Careful(req[s])
    /\ ListTrue

MirrorInv == LiveInv /\ GoneInv /\ AloneInv

\* The row a password change has just written does not expire before the response.
UnsentInv == \A s \in Slots : req[s].op = "change" /\ req[s].step \in {"track", "save"} =>
               store[req[s].key] # "expired"

OthersSame(s) ==
  \A q \in Slots \ {s} : /\ req'[q].op = req[q].op /\ req'[q].step = req[q].step
                         /\ req'[q].key = req[q].key /\ req'[q].target = req[q].target

\* The rows of one key after a step of the request in s.
RowFollows(s, k) ==
  account' /\ ~crashed' /\ store'[k] = "live" =>
    \/ Listed(k)'
    \/ Ending(s, k)'
    \/ store[k] = "live" /\ ~Ending(s, k) /\ (Listed(k) => Listed(k)')

LEMMA IdleIs ==
  ASSUME IInv, NEW s \in Slots, req[s].op = "idle"
  PROVE  req[s].step = "track" /\ req[s].key = NoKey
BY DEF IInv, ReqInv, Shaped, Idle

LEMMA MirrorStep ==
  ASSUME IInv, MirrorInv, NEW s \in Slots, OthersSame(s),
         account' => account, overlapped => overlapped', crashed => crashed',
         ~overlapped' => \A q \in Slots \ {s} : req[q].op = "idle",
         ~overlapped' => Careful(req[s])' /\ ListTrue',
         account' \/ \A k \in Keys : record'[k] = "none",
         \A k \in Keys : RowFollows(s, k)
  PROVE  MirrorInv'
<1>1. LiveInv'
  <2>1. SUFFICES ASSUME account', ~crashed', NEW k \in Keys, store'[k] = "live", ~Listed(k)'
                 PROVE  \E q \in Slots : Ending(q, k)'
    BY DEF LiveInv
  <2>2. CASE Ending(s, k)'
    BY <2>2
  <2>3. CASE ~Ending(s, k)'
    <3>1. store[k] = "live" /\ ~Ending(s, k) /\ ~Listed(k)
      BY <2>1, <2>3 DEF RowFollows
    <3>2. PICK q \in Slots : Ending(q, k)
      BY <2>1, <3>1 DEF MirrorInv, LiveInv
    <3>3. q # s
      BY <3>1, <3>2
    <3>4. Ending(q, k)'
      BY <3>2, <3>3 DEF Ending, OthersSame
    <3>. QED  BY <3>4
  <2>. QED  BY <2>2, <2>3
<1>2. GoneInv'
  BY DEF GoneInv
<1>3. AloneInv'
  <2>1. SUFFICES ASSUME ~overlapped'
                 PROVE  /\ \A q \in Slots : Careful(req[q])'
                        /\ \A q, r \in Slots : req'[q].op # "idle" /\ req'[r].op # "idle" => q = r
                        /\ ListTrue'
    BY DEF AloneInv
  <2>2. \A q \in Slots \ {s} : req'[q].op = "idle" /\ req'[q].step = "track" /\ req'[q].key = NoKey
    BY <2>1, IdleIs DEF OthersSame
  <2>3. \A q \in Slots \ {s} : Careful(req[q])'
    BY <2>2 DEF Careful
  <2>. QED  BY <2>1, <2>2, <2>3
<1>. QED  BY <1>1, <1>2, <1>3 DEF MirrorInv

\* A request in flight, as long as none overlaps it.
LEMMA Alone ==
  ASSUME MirrorInv, NEW s \in Slots, req[s].op # "idle", ~overlapped
  PROVE  Careful(req[s]) /\ ListTrue /\ \A q \in Slots \ {s} : req[q].op = "idle"
BY DEF MirrorInv, AloneInv

LEMMA RespondIs ==
  ASSUME IInv, NEW s \in Slots, NEW k, Respond(s, k)
  PROVE  req'[s].op = "visit" /\ req'[s].step = "track" /\ req'[s].key = k /\ OthersSame(s)
BY DEF Respond, Idle, OthersSame, IInv, TypeOK

LEMMA GotoIs ==
  ASSUME IInv, NEW s \in Slots, NEW x, Goto(s, x)
  PROVE  /\ req'[s].op = req[s].op /\ req'[s].step = x /\ req'[s].key = req[s].key
         /\ req'[s].target = req[s].target /\ req'[s].keeps = req[s].keeps /\ OthersSame(s)
<1>1. req[s] \in Request
  BY DEF IInv, TypeOK
<1>2. /\ req'[s] = [req[s] EXCEPT !.step = x]
      /\ \A q \in Slots \ {s} : req'[q] = req[q]
  BY DEF Goto, IInv, TypeOK
<1>. QED  BY <1>1, <1>2 DEF OthersSame, Request

LEMMA FinishIs ==
  ASSUME IInv, NEW s \in Slots, Finish(s)
  PROVE  req'[s].op = "idle" /\ req'[s].step = "track" /\ req'[s].key = NoKey /\ OthersSame(s)
BY DEF Finish, Idle, OthersSame, IInv, TypeOK

-----------------------------------------------------------------------------
(* The row of a key that has yet to be sent.                               *)

\* The steps of a request, and those that begin one.
StepOf(s) ==
  \/ Sync(s) \/ Track(s) \/ List(s)
  \/ RevokeFind(s) \/ RevokeMark(s) \/ RevokeRow(s) \/ OutRecord(s) \/ OutRow(s)
  \/ LoginCheck(s) \/ LoginCommit(s) \/ Change(s) \/ Save(s)
  \/ ResetCommit(s) \/ DeleteCheck(s) \/ Delete(s) \/ Crash(s)

BeginningOf(s) ==
  \/ \E k \in Keys :
       \/ \E op \in {"visit", "list", "revoke"} : BeginAuthenticated(s, op, "sync", k)
       \/ \E op \in {"change", "delete"} : BeginAuthenticated(s, op, "work", k)
       \/ BeginAuthenticated(s, "logout", "out", k)
  \/ \E k \in Keys \union {NoKey} : LoginBegin(s, k)
  \/ \E t \in Tokens : ResetLock(s, t)

\* No request lets a row expire.
LEMMA RowsLast ==
  ASSUME IInv, NEW s \in Slots, StepOf(s), NEW k \in Keys, store'[k] = "expired"
  PROVE  store[k] = "expired"
<1>1. store \in [Keys -> {"none", "live", "expired"}]
  BY DEF IInv, TypeOK
<1>2. CASE \/ Sync(s) \/ Track(s) \/ List(s) \/ RevokeFind(s) \/ RevokeMark(s) \/ OutRecord(s)
           \/ LoginCheck(s) \/ DeleteCheck(s) \/ Crash(s) \/ ResetCommit(s)
  BY <1>2 DEF Sync, Track, List, RevokeFind, RevokeMark, OutRecord, LoginCheck, DeleteCheck,
              Crash, ResetCommit, sessions
<1>3. CASE RevokeRow(s) \/ OutRow(s) \/ Save(s) \/ Delete(s)
  BY <1>1, <1>3 DEF RevokeRow, OutRow, Save, Delete
<1>4. CASE LoginCommit(s) \/ Change(s)
  <2>1. \/ UNCHANGED store \/ Relog(s) \/ \E n \in Keys : Opened(s, n)
    BY <1>4 DEF LoginCommit, Change, sessions
  <2>. QED  BY <1>1, <2>1 DEF Relog, Opened
<1>. QED  BY <1>2, <1>3, <1>4 DEF StepOf

Holds(r) == r.op = "change" /\ r.step \in {"track", "save"}

\* A request has an unsent key from the commit that draws it to its response.
LEMMA UnsentFollows ==
  ASSUME IInv, NEW s \in Slots, StepOf(s)
  PROVE  /\ OthersSame(s)
         /\ Holds(req'[s]) => \/ Holds(req[s]) /\ req'[s].key = req[s].key
                              \/ store'[req'[s].key] = "live"
<1>1. req[s] \in Request /\ req \in [Slots -> Request]
  BY DEF IInv, TypeOK
<1>2. CASE Finish(s) \/ \E k \in Keys \union {NoKey} : Respond(s, k)
  BY <1>2, FinishIs, RespondIs DEF Holds
<1>3. CASE \E x \in {"work", "mark", "row", "flush", "out", "delete"} : Goto(s, x)
  BY <1>3, GotoIs DEF Holds
<1>4. req[s].key \in Keys \union {NoKey}
  BY <1>1 DEF Request
<1>5. CASE \/ Sync(s) \/ List(s) \/ RevokeMark(s) \/ OutRecord(s) \/ OutRow(s) \/ Save(s)
           \/ LoginCommit(s) \/ DeleteCheck(s) \/ Delete(s) \/ Crash(s)
  BY <1>2, <1>3, <1>4, <1>5 DEF Sync, List, RevokeMark, OutRecord, OutRow, Save, LoginCommit,
                               Relog, DeleteCheck, Delete, Crash
<1>6. CASE Track(s)
  <2>1. CASE req[s].op = "change" /\ Goto(s, "save")
    BY <1>6, <2>1, GotoIs DEF Track, Holds
  <2>. QED  BY <1>2, <1>6, <2>1 DEF Track
<1>7. CASE RevokeFind(s) \/ LoginCheck(s)
  <2>1. CASE \/ \E t \in Keys : req' = [req EXCEPT ![s].target = t, ![s].step = "mark"]
             \/ req' = [req EXCEPT ![s].proved = TRUE, ![s].step = "commit"]
    <3>1. OthersSame(s) /\ req'[s].step \in {"mark", "commit"}
      BY <1>1, <2>1 DEF OthersSame, Request
    <3>. QED  BY <3>1 DEF Holds
  <2>. QED  BY <1>2, <1>4, <1>7, <2>1 DEF RevokeFind, LoginCheck
<1>8. CASE RevokeRow(s)
  <2>1. CASE LogOut(s)
    BY <1>1, <2>1 DEF LogOut, Idle, OthersSame, Holds
  <2>. QED  BY <1>2, <1>4, <1>8, <2>1 DEF RevokeRow
<1>9. CASE ResetCommit(s)
  <2>1. req'[s] = Idle /\ OthersSame(s)
    BY <1>9, IdleTyped, OutdatedOthers DEF ResetCommit, OthersSame
  <2>. QED  BY <2>1 DEF Idle, Holds
<1>10. CASE Change(s)
  <2>. DEFINE r(n) == [Idle EXCEPT !.op = "change", !.step = "track", !.key = n, !.proved = TRUE]
  <2>1. ASSUME NEW n \in Keys, Opened(s, n), Outdated(s, r(n))
        PROVE  OthersSame(s) /\ req'[s].key = n /\ store'[n] = "live"
    <3>1. r(n) \in Request /\ r(n).key = n
      BY IdleTyped DEF Idle, Request, Steps, AllOps
    <3>. HIDE DEF r
    <3>2. OthersSame(s) /\ req'[s] = r(n)
      BY <2>1, <3>1, OutdatedOthers DEF OthersSame
    <3>. QED  BY <2>1, <3>1, <3>2 DEF Opened
  <2>. QED  BY <1>2, <1>4, <1>10, <2>1 DEF Change
<1>. QED  BY <1>5, <1>6, <1>7, <1>8, <1>9, <1>10 DEF StepOf

LEMMA NextUnsent == IInv /\ UnsentInv /\ [Next]_vars => UnsentInv'
<1>. SUFFICES ASSUME IInv, UnsentInv, [Next]_vars PROVE UnsentInv'
  OBVIOUS
<1>1. \A q \in Slots : Holds(req[q]) => req[q].key \in Keys /\ store[req[q].key] # "expired"
  BY KeyOfRequest DEF UnsentInv, Holds
<1>2. ASSUME NEW s \in Slots, StepOf(s) PROVE UnsentInv'
  BY <1>1, <1>2, RowsLast, UnsentFollows DEF UnsentInv, OthersSame, Holds
<1>3. ASSUME NEW s \in Slots, BeginningOf(s) PROVE UnsentInv'
  <2>1. UNCHANGED store
    BY <1>3 DEF BeginningOf, BeginAuthenticated, LoginBegin, ResetLock, sessions
  <2>2. req'[s].step \in {"sync", "work", "out", "commit"} /\ \A q \in Slots \ {s} : req'[q] = req[q]
    <3>1. CASE \E op \in AllOps, x \in {"sync", "work", "out"}, k \in Keys \union {NoKey} :
                 Begin(s, op, x, k)
      BY <3>1 DEF Begin, Idle, IInv, TypeOK
    <3>2. CASE \E t \in Tokens : ResetLock(s, t)
      BY <3>2 DEF ResetLock, Idle, IInv, TypeOK
    <3>. QED  BY <1>3, <3>1, <3>2 DEF BeginningOf, BeginAuthenticated, LoginBegin, AllOps
  <2>. QED  BY <2>1, <2>2 DEF UnsentInv
<1>4. ASSUME NEW k \in Keys, Flushed(k) \/ ExpireRow(k) PROVE UnsentInv'
  BY <1>1, <1>4 DEF Flushed, ExpireRow, Unsent, UnsentInv, Holds, IInv, TypeOK
<1>5. CASE (\E t \in Tokens : Ask(t)) \/ UNCHANGED vars
  BY <1>5 DEF Ask, sessions, vars, UnsentInv
<1>. QED  BY <1>2, <1>3, <1>4, <1>5 DEF Next, StepOf, BeginningOf

LEMMA UnsentStays == Spec => []UnsentInv
<1>1. Init => UnsentInv
  BY DEF Init, Idle, UnsentInv
<1>. QED  BY <1>1, NextUnsent, SessionsInvariant, PTL DEF Spec

-----------------------------------------------------------------------------
(* The steps of a request.                                                 *)

LEMMA SyncMirrors == ASSUME IInv, MirrorInv, NEW s \in Slots, Sync(s) \/ Track(s) PROVE MirrorInv'
<1>1. /\ UNCHANGED <<account, store, current, overlapped, crashed>>
      /\ record' = IF account THEN [record EXCEPT ![req[s].key] = "valid"] ELSE record
      /\ req[s].step \in {"sync", "track"} /\ req[s].op \notin {"idle", "login", "reset"}
      /\ req[s].key \in Keys
  <2>1. req[s] # Idle /\ req[s].step \in {"sync", "track"}
    BY KeyOfRequest DEF Sync, Track, Idle
  <2>2. req[s].op # "idle"
    BY <2>1 DEF IInv, ReqInv, Shaped
  <2>. QED  BY <2>1, <2>2, KeyOfRequest DEF Sync, Track, Synced, credentials, history
<1>2. /\ OthersSame(s) /\ req'[s].step \in {"work", "track", "save"}
      /\ \/ req'[s].op \notin {"idle", "login"} /\ req'[s].key = req[s].key
         \/ req'[s].op = "idle" /\ req'[s].key = NoKey
  BY <1>1, RespondIs, GotoIs, FinishIs DEF Sync, Track
<1>3. record \in [Keys -> {"none", "valid", "ended"}]
  BY DEF IInv, TypeOK
<1>4. ASSUME ~overlapped' PROVE Careful(req[s])' /\ ListTrue'
  <2>1. Careful(req[s]) /\ ListTrue
    BY <1>1, <1>4, Alone
  <2>2. Careful(req[s])'
    BY <1>1, <1>2, <2>1 DEF Careful
  <2>3. ListTrue'
    <3>1. store[req[s].key] # "none" \/ ~current[req[s].key]
      BY <1>1, <2>1, KeyAssumption DEF Careful
    <3>2. ASSUME NEW k \in Keys, Listed(k)' PROVE store[k] # "none" \/ ~current[k]
      <4>1. k = req[s].key \/ Listed(k)
        BY <1>1, <1>3, <3>2 DEF Listed
      <4>. QED  BY <2>1, <3>1, <4>1 DEF ListTrue
    <3>. QED  BY <1>1, <3>2 DEF ListTrue
  <2>. QED  BY <2>2, <2>3
<1>5. ASSUME NEW k \in Keys PROVE RowFollows(s, k)
  BY <1>1, <1>3 DEF RowFollows, Listed, Ending
<1>6. account' \/ \A k \in Keys : record'[k] = "none"
  BY <1>1 DEF MirrorInv, GoneInv
<1>. QED  BY <1>1, <1>2, <1>4, <1>5, <1>6, Alone, MirrorStep

\* A step that leaves the record of a key that has a live row.
LEMMA RespondMirrors ==
  ASSUME IInv, MirrorInv, NEW s \in Slots, Respond(s, req[s].key),
         req[s].op # "idle", req[s].step \in {"work", "mark", "commit"}, req[s].key \in Keys,
         UNCHANGED <<account, store, current, overlapped, crashed>>,
         \A k \in Keys : record'[k] \in {record[k], "ended"} \/ record'[k] = record[k],
         \A k \in Keys : account /\ store[k] = "live" => record'[k] = record[k],
         ~account => record' = record
  PROVE  MirrorInv'
<1>1. OthersSame(s) /\ req'[s].op = "visit" /\ req'[s].step = "track" /\ req'[s].key = req[s].key
  BY RespondIs
<1>2. ASSUME ~overlapped' PROVE Careful(req[s])' /\ ListTrue'
  <2>1. Careful(req[s]) /\ ListTrue
    BY <1>2, Alone
  <2>2. Careful(req[s])'
    BY <1>1, <2>1 DEF Careful
  <2>3. ListTrue'
    BY <2>1 DEF ListTrue, Listed
  <2>. QED  BY <2>2, <2>3
<1>3. ASSUME NEW k \in Keys PROVE RowFollows(s, k)
  BY <1>1 DEF RowFollows, Listed, Ending
<1>4. account' \/ \A k \in Keys : record'[k] = "none"
  BY DEF MirrorInv, GoneInv
<1>. QED  BY <1>1, <1>2, <1>3, <1>4, Alone, MirrorStep

LEMMA ListMirrors == ASSUME IInv, MirrorInv, NEW s \in Slots, List(s) PROVE MirrorInv'
<1>1. /\ req[s].op = "list" /\ req[s].step = "work" /\ req[s].key \in Keys
      /\ Respond(s, req[s].key) /\ UNCHANGED <<account, store, current, overlapped, crashed>>
  BY KeyOfRequest DEF List, At, credentials, history
<1>2. PICK expired \in SUBSET MayHaveExpired :
        record' = [k \in Keys |-> IF k \in expired THEN "ended" ELSE record[k]]
  BY DEF List
<1>3. \A k \in expired : record[k] = "valid" /\ store[k] # "live"
  BY <1>2 DEF MayHaveExpired
<1>4. ~account => record' = record
  BY <1>2, <1>3 DEF MirrorInv, GoneInv, IInv, TypeOK
<1>. QED  BY <1>1, <1>2, <1>3, <1>4, RespondMirrors

LEMMA RevokeMirrors ==
  ASSUME IInv, MirrorInv, NEW s \in Slots, RevokeFind(s) \/ RevokeMark(s)
  PROVE  MirrorInv'
<1>1. /\ req[s] \in Request /\ req[s].op = "revoke" /\ req[s].key \in Keys
      /\ req[s].step \in {"work", "mark"}
      /\ UNCHANGED <<account, store, current, overlapped, crashed>>
  BY KeyOfRequest DEF RevokeFind, RevokeMark, At, sessions, credentials, history
<1>2. record \in [Keys -> {"none", "valid", "ended"}]
  BY DEF IInv, TypeOK
<1>3. CASE Respond(s, req[s].key) /\ RevokeFind(s)
  BY <1>1, <1>3, RespondMirrors DEF RevokeFind, sessions
<1>4. CASE RevokeMark(s) /\ ~account
  <2>1. Respond(s, req[s].key) /\ \A k \in Keys : record[k] = "none"
    BY <1>4 DEF RevokeMark, MirrorInv, GoneInv
  <2>2. req[s].target \in Keys
    BY <1>4, KeyOfRequest DEF RevokeMark, At
  <2>3. record' = record
    BY <1>4, <2>1, <2>2 DEF RevokeMark
  <2>. QED  BY <1>1, <1>4, <2>1, <2>3, RespondMirrors
<1>5. ASSUME NEW t \in Keys, RevokeFind(s),
             req' = [req EXCEPT ![s].target = t, ![s].step = "mark"]
      PROVE  MirrorInv'
  <2>1. /\ OthersSame(s) /\ req'[s].op = "revoke" /\ req'[s].step = "mark"
        /\ req'[s].key = req[s].key
    BY <1>1, <1>5 DEF OthersSame, IInv, TypeOK, Request
  <2>2. record' = record /\ req[s].step = "work"
    BY <1>5 DEF RevokeFind, At, sessions
  <2>3. ASSUME ~overlapped' PROVE Careful(req[s])' /\ ListTrue'
    <3>1. Careful(req[s]) /\ ListTrue
      BY <1>1, <2>3, Alone
    <3>. QED  BY <1>1, <2>1, <2>2, <3>1 DEF Careful, ListTrue, Listed
  <2>4. ASSUME NEW k \in Keys PROVE RowFollows(s, k)
    BY <1>1, <2>1, <2>2 DEF RowFollows, Listed, Ending
  <2>5. account' \/ \A k \in Keys : record'[k] = "none"
    BY <1>1, <2>2 DEF MirrorInv, GoneInv
  <2>. QED  BY <1>1, <2>1, <2>3, <2>4, <2>5, Alone, MirrorStep
<1>6. CASE RevokeMark(s) /\ account
  <2>1. /\ req[s].target \in Keys /\ Goto(s, "row") /\ req[s].step = "mark"
        /\ record' = IF record[req[s].target] = "none" THEN record
                     ELSE [record EXCEPT ![req[s].target] = "ended"]
    BY <1>6, KeyOfRequest DEF RevokeMark, At
  <2>2. /\ OthersSame(s) /\ req'[s].op = "revoke" /\ req'[s].step = "row"
        /\ req'[s].key = req[s].key /\ req'[s].target = req[s].target
    BY <1>1, <2>1, GotoIs
  <2>3. ASSUME ~overlapped' PROVE Careful(req[s])' /\ ListTrue'
    <3>1. Careful(req[s]) /\ ListTrue
      BY <1>1, <2>3, Alone
    <3>2. Careful(req[s])'
      BY <1>1, <1>2, <2>1, <2>2, <3>1 DEF Careful, Listed
    <3>3. ListTrue'
      BY <1>1, <1>2, <2>1, <3>1 DEF ListTrue, Listed
    <3>. QED  BY <3>2, <3>3
  <2>4. ASSUME NEW k \in Keys PROVE RowFollows(s, k)
    BY <1>1, <1>2, <2>1, <2>2 DEF RowFollows, Listed, Ending
  <2>5. account'
    BY <1>1, <1>6
  <2>. QED  BY <1>1, <2>2, <2>3, <2>4, <2>5, Alone, MirrorStep
<1>. QED  BY <1>3, <1>4, <1>5, <1>6 DEF RevokeFind

LEMMA RevokeRowMirrors == ASSUME IInv, MirrorInv, NEW s \in Slots, RevokeRow(s) PROVE MirrorInv'
<1>. DEFINE t == req[s].target
<1>1. /\ req[s].op = "revoke" /\ req[s].step = "row" /\ req[s].key \in Keys /\ t \in Keys
      /\ UNCHANGED <<account, record, current, overlapped, crashed>>
  BY KeyOfRequest DEF RevokeRow, At, credentials
<1>2. store'[t] # "live" /\ \A k \in Keys \ {t} : store'[k] = store[k]
  BY <1>1 DEF RevokeRow, IInv, TypeOK
<1>3. /\ OthersSame(s) /\ req'[s].op # "login" /\ req'[s].key = req[s].key
      /\ IF t = req[s].key THEN req'[s].step = "out" ELSE req'[s].step = "track"
  <2>1. CASE t = req[s].key
    BY <2>1 DEF RevokeRow, LogOut, OthersSame, Idle, IInv, TypeOK
  <2>2. CASE t # req[s].key
    BY <1>1, <2>2, RespondIs DEF RevokeRow
  <2>. QED  BY <2>1, <2>2
<1>. HIDE DEF t
<1>4. ASSUME ~overlapped' PROVE Careful(req[s])' /\ ListTrue'
  <2>1. Careful(req[s]) /\ ListTrue
    BY <1>1, <1>4, Alone
  <2>2. ~Listed(t)
    BY <1>1, <2>1 DEF Careful, t
  <2>3. Careful(req[s])'
    BY <1>1, <1>2, <1>3, <2>1 DEF Careful
  <2>4. ListTrue'
    BY <1>1, <1>2, <2>1, <2>2 DEF ListTrue, Listed
  <2>. QED  BY <2>3, <2>4
<1>5. ASSUME NEW k \in Keys PROVE RowFollows(s, k)
  <2>1. k # t => ~Ending(s, k)
    BY <1>1 DEF Ending, t
  <2>. QED  BY <1>1, <1>2, <2>1 DEF RowFollows, Listed
<1>6. account' \/ \A k \in Keys : record'[k] = "none"
  BY <1>1 DEF MirrorInv, GoneInv
<1>. QED  BY <1>1, <1>3, <1>4, <1>5, <1>6, Alone, MirrorStep

LEMMA OutRecordMirrors == ASSUME IInv, MirrorInv, NEW s \in Slots, OutRecord(s) PROVE MirrorInv'
<1>1. /\ req[s].step = "out" /\ req[s].key \in Keys /\ req[s].op \notin {"idle", "login"}
      /\ UNCHANGED <<account, store, current, overlapped, crashed>>
  BY KeyOfRequest DEF OutRecord, credentials, history
<1>2. record \in [Keys -> {"none", "valid", "ended"}]
  BY DEF IInv, TypeOK
<1>3. /\ record'[req[s].key] # "valid"
      /\ \A k \in Keys : record'[k] = record[k] \/ (k = req[s].key /\ record'[k] = "ended")
  <2>1. record' = IF record[req[s].key] = "valid" THEN [record EXCEPT ![req[s].key] = "ended"]
                  ELSE record
    BY DEF OutRecord, Listed
  <2>. QED  BY <1>1, <1>2, <2>1
<1>4. /\ OthersSame(s) /\ req'[s].step = "flush" /\ req'[s].key = req[s].key
      /\ req'[s].op = req[s].op
  BY GotoIs DEF OutRecord
<1>5. ASSUME ~overlapped' PROVE Careful(req[s])' /\ ListTrue'
  <2>1. ListTrue
    BY <1>1, <1>5, Alone
  <2>2. Careful(req[s])'
    BY <1>1, <1>3, <1>4 DEF Careful, Listed
  <2>3. ListTrue'
    BY <1>1, <1>3, <2>1 DEF ListTrue, Listed
  <2>. QED  BY <2>2, <2>3
<1>6. ASSUME NEW k \in Keys PROVE RowFollows(s, k)
  BY <1>1, <1>3, <1>4 DEF RowFollows, Listed, Ending
<1>7. account' \/ \A k \in Keys : record'[k] = "none"
  BY <1>1, <1>2 DEF MirrorInv, GoneInv, OutRecord, Listed
<1>. QED  BY <1>1, <1>4, <1>5, <1>6, <1>7, Alone, MirrorStep

LEMMA OutRowMirrors == ASSUME IInv, MirrorInv, NEW s \in Slots, OutRow(s) PROVE MirrorInv'
<1>1. /\ req[s].step = "flush" /\ req[s].key \in Keys /\ req[s].op \notin {"idle", "login"}
      /\ UNCHANGED <<account, record, current, overlapped, crashed>>
  BY KeyOfRequest DEF OutRow, credentials
<1>2. store'[req[s].key] = "none" /\ \A k \in Keys \ {req[s].key} : store'[k] = store[k]
  BY <1>1 DEF OutRow, IInv, TypeOK
<1>3. /\ OthersSame(s) /\ req'[s].op # "login"
      /\ req'[s].step = "delete" \/ (req'[s].step = "track" /\ req'[s].key = NoKey)
  BY <1>1, GotoIs, FinishIs DEF OutRow
<1>4. ASSUME ~overlapped' PROVE Careful(req[s])' /\ ListTrue'
  <2>1. Careful(req[s]) /\ ListTrue
    BY <1>1, <1>4, Alone
  <2>2. ~Listed(req[s].key)
    BY <1>1, <2>1 DEF Careful
  <2>3. Careful(req[s])'
    BY <1>3 DEF Careful
  <2>4. ListTrue'
    BY <1>1, <1>2, <2>1, <2>2 DEF ListTrue, Listed
  <2>. QED  BY <2>3, <2>4
<1>5. ASSUME NEW k \in Keys PROVE RowFollows(s, k)
  <2>1. k # req[s].key => ~Ending(s, k)
    BY <1>1 DEF Ending
  <2>. QED  BY <1>1, <1>2, <2>1 DEF RowFollows, Listed
<1>6. account' \/ \A k \in Keys : record'[k] = "none"
  BY <1>1 DEF MirrorInv, GoneInv
<1>. QED  BY <1>1, <1>3, <1>4, <1>5, <1>6, Alone, MirrorStep

\* A request that goes on, or ends, and leaves the tables alone.
LEMMA QuietMirrors ==
  ASSUME IInv, MirrorInv, NEW s \in Slots, OthersSame(s),
         UNCHANGED <<account, store, current, record, overlapped, crashed>>,
         req[s].op # "idle", req[s].step \notin {"row", "flush"},
         ~overlapped => Careful(req[s])'
  PROVE  MirrorInv'
<1>1. ASSUME ~overlapped' PROVE Careful(req[s])' /\ ListTrue'
  <2>1. ListTrue
    BY <1>1, Alone
  <2>. QED  BY <1>1, <2>1 DEF ListTrue, Listed
<1>2. ASSUME NEW k \in Keys PROVE RowFollows(s, k)
  BY DEF RowFollows, Listed, Ending
<1>3. account' \/ \A k \in Keys : record'[k] = "none"
  BY DEF MirrorInv, GoneInv
<1>. QED  BY <1>1, <1>2, <1>3, Alone, MirrorStep

LEMMA IdleCareful ==
  ASSUME NEW s \in Slots, req'[s].op = "idle", req'[s].step = "track", req'[s].key = NoKey
  PROVE  Careful(req[s])'
BY DEF Careful

\* A request that begins with the row of its key, if it has one, in place.
LEMMA BeginMirrors ==
  ASSUME IInv, MirrorInv, NEW s \in Slots, NEW op \in AllOps, NEW x \in {"sync", "work", "out"},
         NEW k \in Keys \union {NoKey}, Begin(s, op, x, k),
         k # NoKey => store[k] # "none",
         UNCHANGED <<account, store, current, record, crashed>>
  PROVE  MirrorInv'
<1>1. /\ req'[s].op = op /\ req'[s].step = x /\ req'[s].key = k
      /\ req'[s].keeps = (op = "login" /\ k # NoKey) /\ OthersSame(s)
  BY DEF Begin, Idle, OthersSame, IInv, TypeOK
<1>2. req[s].step = "track" /\ Idle.op = "idle"
  BY DEF Begin, Idle
<1>3. /\ overlapped => overlapped'
      /\ ~overlapped' => \A q \in Slots \ {s} : req[q].op = "idle"
  BY <1>2 DEF Begin
<1>4. ASSUME ~overlapped' PROVE Careful(req[s])' /\ ListTrue'
  <2>1. ListTrue
    BY <1>3, <1>4 DEF MirrorInv, AloneInv
  <2>. QED  BY <1>1, <2>1 DEF Careful, ListTrue, Listed
<1>5. ASSUME NEW j \in Keys PROVE RowFollows(s, j)
  BY <1>2 DEF RowFollows, Listed, Ending
<1>6. account' \/ \A j \in Keys : record'[j] = "none"
  BY DEF MirrorInv, GoneInv
<1>. QED  BY <1>1, <1>3, <1>4, <1>5, <1>6, MirrorStep

LEMMA BeginningsMirror ==
  ASSUME IInv, MirrorInv, NEW s \in Slots, NEW k \in Keys \union {NoKey},
         \/ \E op \in {"visit", "list", "revoke"} : BeginAuthenticated(s, op, "sync", k)
         \/ \E op \in {"change", "delete"} : BeginAuthenticated(s, op, "work", k)
         \/ BeginAuthenticated(s, "logout", "out", k)
         \/ LoginBegin(s, k)
  PROVE  MirrorInv'
<1>1. /\ k # NoKey => store[k] # "none"
      /\ UNCHANGED <<account, store, current, record, crashed>>
  BY DEF BeginAuthenticated, LoginBegin, MayAuthenticate, sessions, credentials
<1>2. PICK op \in AllOps, x \in {"sync", "work", "out"} : Begin(s, op, x, k)
  BY DEF BeginAuthenticated, LoginBegin, AllOps
<1>. QED  BY <1>1, <1>2, BeginMirrors

-----------------------------------------------------------------------------
(* Logins, passwords and the account.                                      *)

LEMMA LoginCheckMirrors == ASSUME IInv, MirrorInv, NEW s \in Slots, LoginCheck(s) PROVE MirrorInv'
<1>1. /\ req[s] \in Request /\ req[s].op = "login" /\ req[s].step = "work"
      /\ UNCHANGED <<account, store, current, record, overlapped, crashed>>
  BY DEF LoginCheck, At, IInv, TypeOK, sessions, credentials, history
<1>2. CASE req' = [req EXCEPT ![s].proved = TRUE, ![s].step = "commit"]
  <2>1. /\ OthersSame(s) /\ req'[s].op = "login" /\ req'[s].step = "commit"
        /\ req'[s].key = req[s].key /\ req'[s].keeps = req[s].keeps
    BY <1>1, <1>2 DEF OthersSame, IInv, TypeOK, Request
  <2>2. ASSUME ~overlapped PROVE Careful(req[s])'
    <3>1. Careful(req[s])
      BY <1>1, <2>2, Alone
    <3>. QED  BY <1>1, <2>1, <3>1 DEF Careful, Listed
  <2>. QED  BY <1>1, <2>1, <2>2, QuietMirrors
<1>3. CASE req[s].key = NoKey /\ Finish(s)
  BY <1>1, <1>3, FinishIs, IdleCareful, QuietMirrors
<1>4. CASE req[s].key # NoKey /\ Respond(s, req[s].key)
  <2>1. req[s].key \in Keys
    BY <1>1, <1>4 DEF Request
  <2>. QED  BY <1>1, <1>4, <2>1, RespondMirrors
<1>. QED  BY <1>2, <1>3, <1>4 DEF LoginCheck

LEMMA LoginCommitMirrors ==
  ASSUME IInv, MirrorInv, NEW s \in Slots, LoginCommit(s) PROVE MirrorInv'
<1>1. /\ req[s] \in Request /\ Shaped(req[s]) /\ req[s].op = "login" /\ req[s].step = "commit"
      /\ UNCHANGED <<account, overlapped, crashed>>
  BY DEF LoginCommit, At, IInv, ReqInv, TypeOK, credentials, history
<1>2. CASE Finish(s) /\ UNCHANGED sessions
  BY <1>1, <1>2, FinishIs, IdleCareful, QuietMirrors DEF sessions
<1>3. CASE account /\ req[s].keeps /\ Relog(s)
  <2>1. req[s].key \in Keys /\ Respond(s, req[s].key)
    BY <1>1, <1>3 DEF Shaped, Request, Relog
  <2>2. CASE UNCHANGED <<store, current, record>>
    BY <1>1, <2>1, <2>2, RespondMirrors
  <2>3. CASE /\ store' = [store EXCEPT ![req[s].key] = "live"]
             /\ current' = [current EXCEPT ![req[s].key] = req[s].proved]
             /\ record' = [record EXCEPT ![req[s].key] = "valid"]
    <3>1. /\ store'[req[s].key] = "live" /\ record'[req[s].key] = "valid"
          /\ \A k \in Keys \ {req[s].key} : /\ store'[k] = store[k] /\ record'[k] = record[k]
                                            /\ current'[k] = current[k]
      BY <2>1, <2>3 DEF IInv, TypeOK
    <3>2. OthersSame(s) /\ req'[s].op = "visit" /\ req'[s].step = "track" /\ req'[s].key = req[s].key
      BY <2>1, RespondIs
    <3>3. ASSUME ~overlapped' PROVE Careful(req[s])' /\ ListTrue'
      <4>1. ListTrue
        BY <1>1, <3>3, Alone
      <4>. QED  BY <3>1, <3>2, <4>1 DEF Careful, ListTrue, Listed
    <3>4. ASSUME NEW k \in Keys PROVE RowFollows(s, k)
      BY <1>1, <3>1 DEF RowFollows, Listed, Ending
    <3>. QED  BY <1>1, <1>3, <3>2, <3>3, <3>4, Alone, MirrorStep
  <2>. QED  BY <1>3, <2>2, <2>3 DEF Relog
<1>4. ASSUME NEW n \in Keys, account, ~req[s].keeps, Opened(s, n), Respond(s, n),
             current' = [current EXCEPT ![n] = req[s].proved],
             record' = [record EXCEPT ![n] = "valid"]
      PROVE  MirrorInv'
  <2>1. /\ store'[n] = "live" /\ record'[n] = "valid"
        /\ \A k \in Keys \ {n} : /\ store'[k] = IF k = req[s].key THEN "none" ELSE store[k]
                                 /\ record'[k] = record[k] /\ current'[k] = current[k]
    BY <1>4 DEF Opened, IInv, TypeOK
  <2>2. OthersSame(s) /\ req'[s].op = "visit" /\ req'[s].step = "track" /\ req'[s].key = n
    BY <1>4, RespondIs
  <2>3. ASSUME ~overlapped' PROVE Careful(req[s])' /\ ListTrue'
    <3>1. ListTrue /\ req[s].key \notin Keys
      BY <1>1, <1>4, <2>3, Alone, KeyAssumption DEF Careful
    <3>2. \A k \in Keys \ {n} : store'[k] = store[k]
      BY <2>1, <3>1
    <3>. QED  BY <2>1, <2>2, <3>1, <3>2 DEF Careful, ListTrue, Listed
  <2>4. ASSUME NEW k \in Keys PROVE RowFollows(s, k)
    BY <1>1, <2>1 DEF RowFollows, Listed, Ending
  <2>. QED  BY <1>1, <1>4, <2>2, <2>3, <2>4, Alone, MirrorStep
<1>. QED  BY <1>2, <1>3, <1>4 DEF LoginCommit

LEMMA ChangeMirrors == ASSUME IInv, MirrorInv, NEW s \in Slots, Change(s) PROVE MirrorInv'
<1>1. /\ req[s].op = "change" /\ req[s].step = "work" /\ req[s].key \in Keys
      /\ UNCHANGED <<account, overlapped, crashed>>
  BY KeyOfRequest DEF Change, At, credentials, history
<1>2. CASE Respond(s, req[s].key) /\ UNCHANGED sessions
  BY <1>1, <1>2, RespondMirrors DEF sessions
<1>. DEFINE r(n) == [Idle EXCEPT !.op = "change", !.step = "track", !.key = n, !.proved = TRUE]
<1>3. ASSUME NEW n \in Keys, account, Opened(s, n), current' = [k \in Keys |-> FALSE],
             record' = [k \in Keys |-> IF k = n THEN "valid"
                          ELSE IF k = req[s].key /\ Listed(k) THEN "ended" ELSE record[k]],
             Outdated(s, r(n))
      PROVE  MirrorInv'
  <2>1. r(n).op = "change" /\ r(n).step = "track" /\ r(n).key = n
    BY DEF Idle
  <2>2. r(n) \in Request
    BY IdleTyped DEF Request, Steps, AllOps
  <2>. HIDE DEF r
  <2>3. OthersSame(s) /\ req'[s].op = "change" /\ req'[s].step = "track" /\ req'[s].key = n
    BY <1>3, <2>1, <2>2, OutdatedOthers DEF OthersSame
  <2>4. /\ store'[n] = "live" /\ record'[n] = "valid"
        /\ \A k \in Keys : ~current'[k]
        /\ \A k \in Keys : k # n /\ store'[k] = "live" =>
             store[k] = "live" /\ record'[k] = record[k]
    BY <1>3 DEF Opened, Listed
  <2>5. ASSUME ~overlapped' PROVE Careful(req[s])' /\ ListTrue'
    BY <2>3, <2>4 DEF Careful, ListTrue, Listed
  <2>6. ASSUME NEW k \in Keys PROVE RowFollows(s, k)
    BY <1>1, <2>4 DEF RowFollows, Listed, Ending
  <2>. QED  BY <1>1, <1>3, <2>3, <2>5, <2>6, Alone, MirrorStep
<1>. QED  BY <1>2, <1>3 DEF Change

LEMMA SaveMirrors == ASSUME IInv, UnsentInv, MirrorInv, NEW s \in Slots, Save(s) PROVE MirrorInv'
<1>. DEFINE n == req[s].key
<1>1. /\ n \in Keys /\ req[s].op = "change" /\ req[s].step = "save"
      /\ UNCHANGED <<account, record, overlapped, crashed>>
      /\ OthersSame(s) /\ Careful(req[s])'
  BY KeyOfRequest, FinishIs, IdleCareful DEF Save, At, credentials, history
<1>2. CASE UNCHANGED <<store, current>>
  BY <1>1, <1>2, QuietMirrors
<1>3. CASE /\ store[n] # "none" /\ store' = [store EXCEPT ![n] = "live"]
           /\ current' = [current EXCEPT ![n] = req[s].proved]
  <2>1. store[n] = "live" /\ store' = store /\ \A k \in Keys \ {n} : current'[k] = current[k]
    BY <1>1, <1>3 DEF UnsentInv, IInv, TypeOK
  <2>. HIDE DEF n
  <2>2. ASSUME ~overlapped' PROVE ListTrue'
    <3>1. ListTrue
      BY <1>1, <2>2, Alone
    <3>. QED  BY <1>1, <2>1, <3>1 DEF ListTrue, Listed
  <2>3. ASSUME NEW k \in Keys PROVE RowFollows(s, k)
    BY <1>1, <2>1 DEF RowFollows, Listed, Ending
  <2>4. account' \/ \A k \in Keys : record'[k] = "none"
    BY <1>1 DEF MirrorInv, GoneInv
  <2>. QED  BY <1>1, <2>2, <2>3, <2>4, Alone, MirrorStep
<1>. QED  BY <1>2, <1>3 DEF Save

LEMMA ResetLockMirrors ==
  ASSUME IInv, MirrorInv, NEW s \in Slots, NEW t \in Tokens, ResetLock(s, t) PROVE MirrorInv'
<1>1. /\ req'[s].op = "reset" /\ req'[s].step = "commit" /\ req'[s].key = NoKey /\ OthersSame(s)
  BY DEF ResetLock, Idle, OthersSame, IInv, TypeOK
<1>2. /\ req[s].step = "track" /\ Idle.op = "idle"
      /\ UNCHANGED <<account, store, current, record, crashed>>
  BY DEF ResetLock, Idle, sessions, credentials
<1>3. /\ overlapped => overlapped'
      /\ ~overlapped' => \A q \in Slots \ {s} : req[q].op = "idle"
  BY <1>2 DEF ResetLock
<1>4. ASSUME ~overlapped' PROVE Careful(req[s])' /\ ListTrue'
  <2>1. ListTrue
    BY <1>3, <1>4 DEF MirrorInv, AloneInv
  <2>. QED  BY <1>1, <1>2, <2>1 DEF Careful, ListTrue, Listed
<1>5. ASSUME NEW k \in Keys PROVE RowFollows(s, k)
  BY <1>2 DEF RowFollows, Listed, Ending
<1>6. account' \/ \A k \in Keys : record'[k] = "none"
  BY <1>2 DEF MirrorInv, GoneInv
<1>. QED  BY <1>1, <1>2, <1>3, <1>4, <1>5, <1>6, MirrorStep

LEMMA ResetCommitMirrors ==
  ASSUME IInv, MirrorInv, NEW s \in Slots, ResetCommit(s) PROVE MirrorInv'
<1>1. /\ req[s].op = "reset" /\ req[s].step = "commit"
      /\ UNCHANGED <<account, store, record, overlapped, crashed>>
      /\ \A k \in Keys : ~current'[k]
  BY DEF ResetCommit, At
<1>2. req'[s].op = "idle" /\ req'[s].step = "track" /\ req'[s].key = NoKey /\ OthersSame(s)
  <2>1. req'[s] = Idle /\ OthersSame(s)
    BY IdleTyped, OutdatedOthers DEF ResetCommit, OthersSame
  <2>. QED  BY <2>1 DEF Idle
<1>3. ListTrue'
  BY <1>1 DEF ListTrue
<1>4. ASSUME NEW k \in Keys PROVE RowFollows(s, k)
  BY <1>1 DEF RowFollows, Listed, Ending
<1>5. account' \/ \A k \in Keys : record'[k] = "none"
  BY <1>1 DEF MirrorInv, GoneInv
<1>. QED  BY <1>1, <1>2, <1>3, <1>4, <1>5, IdleCareful, Alone, MirrorStep

LEMMA DeleteCheckMirrors ==
  ASSUME IInv, MirrorInv, NEW s \in Slots, DeleteCheck(s) PROVE MirrorInv'
<1>1. /\ req[s].op = "delete" /\ req[s].step = "work" /\ req[s].key \in Keys
      /\ UNCHANGED <<account, store, current, record, overlapped, crashed>>
  BY KeyOfRequest DEF DeleteCheck, At, sessions, credentials, history
<1>2. CASE Goto(s, "out")
  <2>1. OthersSame(s) /\ req'[s].op = "delete" /\ req'[s].step = "out"
    BY <1>1, <1>2, GotoIs
  <2>2. Careful(req[s])'
    BY <2>1 DEF Careful
  <2>. QED  BY <1>1, <2>1, <2>2, QuietMirrors
<1>3. CASE Respond(s, req[s].key)
  BY <1>1, <1>3, RespondMirrors
<1>. QED  BY <1>2, <1>3 DEF DeleteCheck

LEMMA DeleteMirrors == ASSUME IInv, MirrorInv, NEW s \in Slots, Delete(s) PROVE MirrorInv'
<1>1. /\ req[s].op = "delete" /\ req[s].step = "delete"
      /\ UNCHANGED <<current, overlapped, crashed>>
      /\ OthersSame(s) /\ Careful(req[s])'
  BY FinishIs, IdleCareful DEF Delete, At, history
<1>2. CASE UNCHANGED <<account, store, record>>
  BY <1>1, <1>2, QuietMirrors
<1>3. CASE account /\ account' = FALSE /\ record' = [k \in Keys |-> "none"]
  <2>1. ListTrue' /\ \A k \in Keys : record'[k] = "none" /\ RowFollows(s, k)
    BY <1>3 DEF ListTrue, Listed, RowFollows
  <2>. QED  BY <1>1, <1>3, <2>1, Alone, MirrorStep
<1>. QED  BY <1>2, <1>3 DEF Delete

LEMMA CrashMirrors == ASSUME IInv, MirrorInv, NEW s \in Slots, Crash(s) PROVE MirrorInv'
<1>1. /\ UNCHANGED <<account, store, current, record, overlapped>> /\ crashed'
      /\ OthersSame(s) /\ Careful(req[s])' /\ req[s].op # "idle"
  BY FinishIs, IdleCareful DEF Crash, sessions, credentials, IInv, ReqInv, Shaped
<1>2. ASSUME ~overlapped' PROVE ListTrue'
  <2>1. ListTrue
    BY <1>1, <1>2, Alone
  <2>. QED  BY <1>1, <2>1 DEF ListTrue, Listed
<1>3. \A k \in Keys : RowFollows(s, k)
  BY <1>1 DEF RowFollows
<1>4. account' \/ \A k \in Keys : record'[k] = "none"
  BY <1>1 DEF MirrorInv, GoneInv
<1>. QED  BY <1>1, <1>2, <1>3, <1>4, Alone, MirrorStep

\* A row expires, or is flushed because the password has changed.
LEMMA RowsMirror ==
  ASSUME IInv, MirrorInv, UNCHANGED <<account, current, record, req, overlapped, crashed>>,
         \A k \in Keys : store'[k] = "live" => store[k] = "live",
         \A k \in Keys : store'[k] = "none" => store[k] = "none" \/ ~current[k]
  PROVE  MirrorInv'
<1>1. LiveInv'
  BY DEF MirrorInv, LiveInv, Listed, Ending
<1>2. GoneInv'
  BY DEF MirrorInv, GoneInv
<1>3. AloneInv'
  <2>1. \A s \in Slots : Careful(req[s]) => Careful(req[s])'
    <3>1. \A s \in Slots : req[s].key # NoKey => req[s].key \in Keys
      BY DEF IInv, TypeOK, Request
    <3>. QED  BY <3>1 DEF Careful, Listed
  <2>2. ListTrue => ListTrue'
    BY DEF ListTrue, Listed
  <2>. QED  BY <2>1, <2>2 DEF MirrorInv, AloneInv
<1>. QED  BY <1>1, <1>2, <1>3 DEF MirrorInv

-----------------------------------------------------------------------------
LEMMA InitMirrors == Init => MirrorInv
<1>. SUFFICES ASSUME Init PROVE MirrorInv
  OBVIOUS
<1>1. Idle.op = "idle" /\ Idle.key = NoKey /\ Idle.step = "track"
  BY DEF Idle
<1>2. \A s \in Slots : req[s] = Idle
  BY DEF Init
<1>3. LiveInv /\ GoneInv /\ ListTrue
  BY DEF Init, LiveInv, GoneInv, ListTrue, Listed
<1>4. \A s \in Slots : Careful(req[s])
  BY <1>1, <1>2 DEF Careful
<1>. QED  BY <1>1, <1>2, <1>3, <1>4 DEF MirrorInv, AloneInv

LEMMA NextMirrors == IInv /\ UnsentInv /\ MirrorInv /\ [Next]_vars => MirrorInv'
<1>. SUFFICES ASSUME IInv, UnsentInv, MirrorInv, [Next]_vars PROVE MirrorInv'
  OBVIOUS
<1>1. ASSUME NEW s \in Slots, NEW k \in Keys,
             \/ \E op \in {"visit", "list", "revoke"} : BeginAuthenticated(s, op, "sync", k)
             \/ \E op \in {"change", "delete"} : BeginAuthenticated(s, op, "work", k)
             \/ BeginAuthenticated(s, "logout", "out", k)
      PROVE  MirrorInv'
  BY <1>1, BeginningsMirror
<1>2. ASSUME NEW s \in Slots,
             \/ \E k \in Keys \union {NoKey} : LoginBegin(s, k)
             \/ Sync(s) \/ Track(s) \/ List(s)
      PROVE  MirrorInv'
  BY <1>2, BeginningsMirror, SyncMirrors, ListMirrors
<1>3. ASSUME NEW s \in Slots,
             RevokeFind(s) \/ RevokeMark(s) \/ RevokeRow(s) \/ OutRecord(s) \/ OutRow(s)
      PROVE  MirrorInv'
  BY <1>3, RevokeMirrors, RevokeRowMirrors, OutRecordMirrors, OutRowMirrors
<1>4. ASSUME NEW s \in Slots,
             \/ LoginCheck(s) \/ LoginCommit(s) \/ Change(s) \/ Save(s)
             \/ \E t \in Tokens : ResetLock(s, t)
             \/ ResetCommit(s) \/ DeleteCheck(s) \/ Delete(s) \/ Crash(s)
      PROVE  MirrorInv'
  BY <1>4, LoginCheckMirrors, LoginCommitMirrors, ChangeMirrors, SaveMirrors,
     ResetLockMirrors, ResetCommitMirrors, DeleteCheckMirrors, DeleteMirrors, CrashMirrors
<1>5. ASSUME NEW k \in Keys, Flushed(k) \/ ExpireRow(k)
      PROVE  MirrorInv'
  <2>1. /\ UNCHANGED <<account, current, record, req, overlapped, crashed>>
        /\ \A j \in Keys : \/ store'[j] = store[j]
                           \/ store'[j] = "expired"
                           \/ store'[j] = "none" /\ ~current[j]
    BY <1>5 DEF Flushed, ExpireRow, credentials, history, IInv, TypeOK
  <2>. QED  BY <2>1, RowsMirror
<1>6. ASSUME NEW t \in Tokens, Ask(t) PROVE MirrorInv'
  BY <1>6, RowsMirror DEF Ask, sessions, history
<1>7. CASE UNCHANGED vars
  BY <1>7, RowsMirror DEF vars
<1>. QED  BY <1>1, <1>2, <1>3, <1>4, <1>5, <1>6, <1>7 DEF Next

(* When no request is in flight, every session that authenticates is in    *)
(* the list, unless a worker died halfway through a revocation; and, if no *)
(* two requests ever overlapped, a listed session has a row or was opened  *)
(* with an older password.                                                 *)
THEOREM ListMirrorsSessionsHolds == Spec => []ListMirrorsSessions
<1>1. MirrorInv => ListMirrorsSessions
  <2>. SUFFICES ASSUME MirrorInv, Quiet, NEW k \in Keys
                PROVE  /\ ~crashed /\ MayAuthenticate(k) => Listed(k)
                       /\ ~overlapped /\ Listed(k) => store[k] # "none" \/ ~current[k]
    BY DEF ListMirrorsSessions
  <2>1. \A s \in Slots : ~Ending(s, k)
    <3>1. Idle.step = "track"
      BY DEF Idle
    <3>. QED  BY <3>1 DEF Quiet, Ending
  <2>2. ~crashed /\ MayAuthenticate(k) => Listed(k)
    BY <2>1 DEF MirrorInv, LiveInv, MayAuthenticate
  <2>3. ~overlapped /\ Listed(k) => store[k] # "none" \/ ~current[k]
    BY DEF MirrorInv, AloneInv, ListTrue
  <2>. QED  BY <2>2, <2>3
<1>. QED  BY <1>1, InitMirrors, NextMirrors, SessionsInvariant, UnsentStays, PTL DEF Spec
-----------------------------------------------------------------------------
(* What the sessions promise: SessionLife.                                 *)

\* A key without a row is unused, or over for good if it has a record.
StandingOf(k) ==
  IF ~account \/ (store[k] = "none" /\ record[k] # "none") THEN "over"
  ELSE IF store[k] = "none" THEN "unused"
  ELSE IF MayAuthenticate(k) THEN "in" ELSE "lapsed"

Standing == [k \in Keys |-> StandingOf(k)]

Life == INSTANCE SessionLife WITH closed <- ~account, standing <- Standing

\* A step leaves what the standing of k is made of.
Kept(k) ==
  /\ store'[k] = store[k]
  /\ record'[k] = "none" <=> record[k] = "none"
  /\ store[k] # "none" => current'[k] = current[k]

LEMMA KeptStands ==
  ASSUME UNCHANGED account, NEW k \in Keys, Kept(k)
  PROVE  StandingOf(k)' = StandingOf(k)
BY DEF Kept, StandingOf, MayAuthenticate

LEMMA AllKept ==
  ASSUME UNCHANGED account, ~account \/ \A k \in Keys : Kept(k)
  PROVE  UNCHANGED Life!vars
<1>1. \A k \in Keys : StandingOf(k)' = StandingOf(k)
  <2>1. CASE ~account
    BY <2>1 DEF StandingOf
  <2>2. CASE account
    BY <2>2, KeptStands
  <2>. QED  BY <2>1, <2>2
<1>2. UNCHANGED Standing
  BY <1>1 DEF Standing
<1>. QED  BY <1>2 DEF Life!vars

LEMMA OneMoves ==
  ASSUME UNCHANGED account, account, NEW j \in Keys, \A k \in Keys \ {j} : Kept(k)
  PROVE  Standing' = [Standing EXCEPT ![j] = StandingOf(j)']
<1>1. \A k \in Keys \ {j} : StandingOf(k)' = StandingOf(k)
  BY KeptStands
<1>. QED  BY <1>1 DEF Standing

\* How a key stands, by the rows of the two tables.
LEMMA StandsBy ==
  ASSUME IInv, account, NEW k \in Keys
  PROVE  /\ Standing[k] = StandingOf(k)
         /\ store[k] = "none" /\ record[k] # "none" => StandingOf(k) = "over"
         /\ Fresh(k) <=> StandingOf(k) = "unused"
         /\ store[k] # "none" => StandingOf(k) \in {"in", "lapsed"} /\ record[k] # "none"
         /\ StandingOf(k) = "in" <=> store[k] = "live" /\ current[k]
BY KeyAssumption DEF IInv, KeyInv, Standing, StandingOf, MayAuthenticate, Fresh

\* The row of a key goes.
LEMMA RowEnds ==
  ASSUME IInv, NEW k \in Keys, UNCHANGED <<account, current, record>>,
         store' = [store EXCEPT ![k] = "none"]
  PROVE  [Life!Next]_(Life!vars)
<1>1. \A j \in Keys \ {k} : Kept(j)
  BY DEF Kept, IInv, TypeOK
<1>2. store'[k] = "none"
  BY DEF IInv, TypeOK
<1>3. CASE ~account \/ store[k] = "none"
  <2>1. ~account \/ \A j \in Keys : Kept(j)
    BY <1>1, <1>2, <1>3 DEF Kept
  <2>. QED  BY <2>1, AllKept
<1>4. CASE account /\ store[k] # "none"
  <2>1. StandingOf(k)' = "over"
    BY <1>2, <1>4, StandsBy DEF StandingOf
  <2>2. Standing[k] \in {"in", "lapsed"}
    BY <1>4, StandsBy
  <2>3. Standing' = [Standing EXCEPT ![k] = "over"]
    BY <1>1, <1>4, <2>1, OneMoves
  <2>4. Life!End(k)
    BY <1>4, <2>2, <2>3 DEF Life!End, Life!Move
  <2>. QED  BY <2>4 DEF Life!Next
<1>. QED  BY <1>3, <1>4

\* A row stays, as current as it was or not.
LEMMA RowStays ==
  ASSUME IInv, account, NEW k \in Keys, UNCHANGED account,
         \A j \in Keys \ {k} : Kept(j),
         store[k] # "none", store'[k] # "none"
  PROVE  [Life!Next]_(Life!vars)
<1>1. Standing[k] \in {"in", "lapsed"}
  BY StandsBy
<1>2. StandingOf(k)' \in {"in", "lapsed"}
  BY DEF StandingOf
<1>3. Standing' = [Standing EXCEPT ![k] = StandingOf(k)']
  BY OneMoves
<1>4. CASE Standing[k] = StandingOf(k)'
  <2>1. UNCHANGED Standing
    BY <1>3, <1>4 DEF Standing
  <2>. QED  BY <2>1 DEF Life!vars
<1>5. CASE Standing[k] = "in" /\ StandingOf(k)' = "lapsed"
  <2>1. Life!Lapse(k)
    BY <1>3, <1>5 DEF Life!Lapse, Life!Move
  <2>. QED  BY <2>1 DEF Life!Next
<1>6. CASE Standing[k] = "lapsed" /\ StandingOf(k)' = "in"
  <2>1. Life!Renew(k)
    BY <1>3, <1>6 DEF Life!Renew, Life!Move
  <2>. QED  BY <2>1 DEF Life!Next
<1>. QED  BY <1>1, <1>2, <1>4, <1>5, <1>6

LEMMA RecordsLive ==
  ASSUME IInv, NEW s \in Slots,
         Sync(s) \/ Track(s) \/ List(s) \/ RevokeFind(s) \/ RevokeMark(s) \/ OutRecord(s)
  PROVE  UNCHANGED Life!vars
<1>1. UNCHANGED <<account, store, current>>
  BY DEF Sync, Track, List, RevokeFind, RevokeMark, OutRecord, credentials, sessions
<1>2. record \in [Keys -> {"none", "valid", "ended"}]
  BY DEF IInv, TypeOK
<1>3. ASSUME account, NEW k \in Keys PROVE record'[k] = "none" <=> record[k] = "none"
  <2>1. CASE Sync(s) \/ Track(s)
    <3>1. req[s] # Idle /\ req[s].step \in {"sync", "track"}
      BY <2>1, KeyOfRequest DEF Sync, Track, Idle
    <3>2. req[s].key \in Keys /\ record[req[s].key] # "none"
      BY <1>3, <3>1, KeyOfRequest
    <3>3. record' = [record EXCEPT ![req[s].key] = "valid"]
      BY <1>3, <2>1 DEF Sync, Track, Synced
    <3>. QED  BY <1>2, <3>2, <3>3
  <2>2. CASE List(s)
    BY <1>2, <2>2 DEF List, MayHaveExpired
  <2>3. CASE RevokeFind(s)
    BY <2>3 DEF RevokeFind, sessions
  <2>4. CASE RevokeMark(s)
    BY <1>2, <2>4 DEF RevokeMark
  <2>5. CASE OutRecord(s)
    BY <1>2, <2>5 DEF OutRecord, Listed
  <2>. QED  BY <2>1, <2>2, <2>3, <2>4, <2>5
<1>4. account => \A k \in Keys : Kept(k)
  BY <1>1, <1>3 DEF Kept
<1>. QED  BY <1>1, <1>4, AllKept

LEMMA RevocationsEnd ==
  ASSUME IInv, NEW s \in Slots, RevokeRow(s) \/ OutRow(s)
  PROVE  [Life!Next]_(Life!vars)
<1>1. UNCHANGED <<account, current, record>>
  BY DEF RevokeRow, OutRow, credentials
<1>2. CASE RevokeRow(s)
  <2>1. req[s].target \in Keys
    BY <1>2, KeyOfRequest DEF RevokeRow, At
  <2>2. CASE store[req[s].target] = "live"
    BY <1>1, <1>2, <2>1, <2>2, RowEnds DEF RevokeRow
  <2>3. CASE store[req[s].target] # "live"
    <3>1. \A k \in Keys : Kept(k)
      BY <1>1, <1>2, <2>3 DEF RevokeRow, Kept
    <3>. QED  BY <1>1, <3>1, AllKept
  <2>. QED  BY <2>2, <2>3
<1>3. CASE OutRow(s)
  <2>1. req[s].key \in Keys
    BY <1>3, KeyOfRequest DEF OutRow, Idle
  <2>. QED  BY <1>1, <1>3, <2>1, RowEnds DEF OutRow
<1>. QED  BY <1>2, <1>3

LEMMA FlushLives == ASSUME IInv, NEW k \in Keys, Flushed(k) PROVE [Life!Next]_(Life!vars)
BY RowEnds DEF Flushed, credentials

LEMMA ExpiryLives == ASSUME IInv, NEW k \in Keys, ExpireRow(k) PROVE [Life!Next]_(Life!vars)
<1>1. /\ account /\ UNCHANGED <<account, current, record>> /\ store[k] # "none"
      /\ store' = [store EXCEPT ![k] = "expired"]
  BY DEF ExpireRow, credentials
<1>2. store'[k] # "none" /\ \A j \in Keys \ {k} : Kept(j)
  BY <1>1 DEF Kept, IInv, TypeOK
<1>. QED  BY <1>1, <1>2, RowStays

LEMMA LoginLives ==
  ASSUME IInv, NEW s \in Slots, LoginCommit(s)
  PROVE  [Life!Next]_(Life!vars)
<1>1. UNCHANGED account /\ req[s] \in Request /\ Shaped(req[s])
  BY DEF LoginCommit, credentials, IInv, TypeOK, ReqInv
<1>2. /\ store \in [Keys -> {"none", "live", "expired"}]
      /\ record \in [Keys -> {"none", "valid", "ended"}] /\ current \in [Keys -> BOOLEAN]
  BY DEF IInv, TypeOK
<1>3. CASE ~account
  BY <1>1, <1>3, AllKept
<1>4. CASE account /\ req[s].keeps /\ Relog(s)
  <2>1. req[s].key \in Keys
    BY <1>1, <1>4 DEF Shaped, Request
  <2>2. CASE store[req[s].key] = "none"
    <3>1. \A k \in Keys : Kept(k)
      BY <1>4, <2>2 DEF Relog, Kept
    <3>. QED  BY <1>1, <3>1, AllKept
  <2>3. CASE store[req[s].key] # "none"
    <3>1. /\ store' = [store EXCEPT ![req[s].key] = "live"]
          /\ current' = [current EXCEPT ![req[s].key] = req[s].proved]
          /\ record' = [record EXCEPT ![req[s].key] = "valid"]
      BY <1>4, <2>3 DEF Relog
    <3>2. store'[req[s].key] # "none" /\ \A k \in Keys \ {req[s].key} : Kept(k)
      BY <1>2, <2>1, <3>1 DEF Kept
    <3>. QED  BY <1>1, <1>4, <2>1, <2>3, <3>2, RowStays
  <2>. QED  BY <2>2, <2>3
<1>5. ASSUME account, NEW n \in Keys, Opened(s, n),
             current' = [current EXCEPT ![n] = req[s].proved],
             record' = [record EXCEPT ![n] = "valid"]
      PROVE  [Life!Next]_(Life!vars)
  <2>1. Standing[n] = "unused" /\ record[n] = "none"
    BY <1>5, StandsBy DEF Opened, Fresh
  <2>2. StandingOf(n)' \in {"in", "lapsed"}
    BY <1>1, <1>5 DEF Opened, StandingOf
  <2>3. \A k \in Keys \ {n, req[s].key} : StandingOf(k)' = StandingOf(k)
    <3>1. \A k \in Keys \ {n, req[s].key} : Kept(k)
      BY <1>2, <1>5 DEF Opened, Kept
    <3>. QED  BY <1>1, <3>1, KeptStands
  <2>4. CASE req[s].key \notin Keys
    <3>1. Standing' = [Standing EXCEPT ![n] = StandingOf(n)']
      BY <2>3, <2>4 DEF Standing
    <3>2. Life!SignIn(n)
      BY <1>1, <1>5, <2>1, <2>2, <3>1 DEF Life!SignIn, Life!Move
    <3>. QED  BY <3>2 DEF Life!Next
  <2>5. ASSUME NEW old \in Keys, old = req[s].key PROVE [Life!Next]_(Life!vars)
    <3>1. record[old] # "none" /\ n # old
      BY <1>5, <2>1, <2>5, KeyOfRequest
    <3>2. StandingOf(old)' = "over"
      BY <1>2, <1>5, <2>5, <3>1 DEF Opened, StandingOf
    <3>3. Standing' = [Standing EXCEPT ![old] = "over", ![n] = StandingOf(n)']
      BY <2>3, <2>5, <3>1, <3>2 DEF Standing
    <3>4. Standing[old] # "unused"
      BY <1>5, <3>1, StandsBy DEF Fresh
    <3>5. Life!SignInAnew(old, n)
      BY <1>1, <1>5, <2>1, <2>2, <3>3, <3>4 DEF Life!SignInAnew, Life!Move
    <3>. QED  BY <3>5 DEF Life!Next
  <2>. QED  BY <2>4, <2>5
<1>. QED  BY <1>3, <1>4, <1>5 DEF LoginCommit

LEMMA ChangeLives == ASSUME IInv, NEW s \in Slots, Change(s) PROVE [Life!Next]_(Life!vars)
<1>1. UNCHANGED account
  BY DEF Change, credentials
<1>2. /\ store \in [Keys -> {"none", "live", "expired"}]
      /\ record \in [Keys -> {"none", "valid", "ended"}]
  BY DEF IInv, TypeOK
<1>3. CASE UNCHANGED sessions
  <2>1. \A k \in Keys : Kept(k)
    BY <1>3 DEF sessions, Kept
  <2>. QED  BY <1>1, <2>1, AllKept
<1>4. ASSUME account, NEW n \in Keys, Opened(s, n),
             current' = [k \in Keys |-> FALSE],
             record' = [k \in Keys |-> IF k = n THEN "valid"
                          ELSE IF k = req[s].key /\ Listed(k) THEN "ended" ELSE record[k]]
      PROVE  [Life!Next]_(Life!vars)
  <2>1. PICK old \in Keys : old = req[s].key /\ record[old] # "none"
    BY <1>4, KeyOfRequest DEF Change, At
  <2>2. Standing[n] = "unused" /\ record[n] = "none" /\ n # old
    BY <1>4, <2>1, StandsBy DEF Opened, Fresh
  <2>3. Standing[old] # "unused"
    BY <1>4, <2>1, StandsBy DEF Fresh
  <2>4. StandingOf(n)' = "lapsed"
    BY <1>1, <1>4, KeyAssumption DEF Opened, StandingOf, MayAuthenticate
  <2>5. StandingOf(old)' = "over"
    BY <1>4, <2>1, <2>2 DEF Opened, StandingOf, Listed
  <2>6. ASSUME NEW k \in Keys \ {n, old}
        PROVE  StandingOf(k)' = IF StandingOf(k) = "in" THEN "lapsed" ELSE StandingOf(k)
    <3>1. store'[k] = store[k] /\ record'[k] = record[k] /\ current'[k] = FALSE
      BY <1>4, <2>1, <2>6 DEF Opened
    <3>. QED  BY <1>1, <1>4, <3>1 DEF StandingOf, MayAuthenticate
  <2>7. Standing' = [Life!AllLapsed EXCEPT ![old] = "over", ![n] = "lapsed"]
    BY <2>1, <2>2, <2>4, <2>5, <2>6 DEF Standing, Life!AllLapsed
  <2>8. Life!SetPassword(old, n)
    BY <1>1, <1>4, <2>2, <2>3, <2>7 DEF Life!SetPassword, Life!Move
  <2>. QED  BY <2>1, <2>8 DEF Life!Next
<1>. QED  BY <1>3, <1>4 DEF Change

LEMMA SaveLives == ASSUME IInv, NEW s \in Slots, Save(s) PROVE [Life!Next]_(Life!vars)
<1>. DEFINE n == req[s].key
<1>1. n \in Keys /\ UNCHANGED <<account, record>>
  BY KeyOfRequest DEF Save, At, credentials
<1>2. CASE UNCHANGED <<store, current>> \/ ~account
  BY <1>1, <1>2, AllKept DEF Kept
<1>3. CASE /\ account /\ store[n] # "none" /\ store' = [store EXCEPT ![n] = "live"]
           /\ current' = [current EXCEPT ![n] = req[s].proved]
  <2>1. store'[n] # "none" /\ \A k \in Keys \ {n} : Kept(k)
    BY <1>1, <1>3 DEF Kept, IInv, TypeOK
  <2>. QED  BY <1>1, <1>3, <2>1, RowStays
<1>. QED  BY <1>2, <1>3 DEF Save

LEMMA ResetLives == ASSUME IInv, NEW s \in Slots, ResetCommit(s) PROVE [Life!Next]_(Life!vars)
<1>1. /\ UNCHANGED <<account, store, record>>
      /\ \A k \in Keys : current'[k] = FALSE
  BY DEF ResetCommit
<1>2. CASE ~account
  BY <1>1, <1>2, AllKept
<1>3. CASE account
  <2>1. ASSUME NEW k \in Keys
        PROVE  StandingOf(k)' = IF StandingOf(k) = "in" THEN "lapsed" ELSE StandingOf(k)
    BY <1>1, <1>3, <2>1 DEF StandingOf, MayAuthenticate
  <2>2. Standing' = Life!AllLapsed
    BY <2>1 DEF Standing, Life!AllLapsed
  <2>3. Life!ResetPassword
    BY <1>1, <1>3, <2>2 DEF Life!ResetPassword, Life!Move
  <2>. QED  BY <2>3 DEF Life!Next
<1>. QED  BY <1>2, <1>3

LEMMA DeleteLives == ASSUME IInv, NEW s \in Slots, Delete(s) PROVE [Life!Next]_(Life!vars)
<1>1. CASE account /\ ~account'
  <2>1. Standing' = [k \in Keys |-> "over"]
    BY <1>1 DEF Standing, StandingOf
  <2>2. Life!Close
    BY <1>1, <2>1 DEF Life!Close
  <2>. QED  BY <2>2 DEF Life!Next
<1>2. CASE UNCHANGED <<account, store, record>>
  <2>1. \A k \in Keys : Kept(k)
    BY <1>2 DEF Delete, Kept
  <2>. QED  BY <1>2, <2>1, AllKept
<1>. QED  BY <1>1, <1>2 DEF Delete

LEMMA OthersLive ==
  ASSUME UNCHANGED <<account, store, current, record>>
  PROVE  UNCHANGED Life!vars
<1>1. \A k \in Keys : Kept(k)
  BY DEF Kept
<1>. QED  BY <1>1, AllKept

LEMMA InitLives == Init => Life!Init
<1>. SUFFICES ASSUME Init PROVE Life!Init
  OBVIOUS
<1>1. account /\ \A k \in Keys : StandingOf(k) = "unused"
  BY DEF Init, StandingOf
<1>. QED  BY <1>1 DEF Life!Init, Standing

LEMMA NextLives == IInv /\ [Next]_vars => [Life!Next]_(Life!vars)
<1>. SUFFICES ASSUME IInv, [Next]_vars PROVE [Life!Next]_(Life!vars)
  OBVIOUS
<1>1. ASSUME NEW s \in Slots, NEW k \in Keys,
             \/ \E op \in {"visit", "list", "revoke"} : BeginAuthenticated(s, op, "sync", k)
             \/ \E op \in {"change", "delete"} : BeginAuthenticated(s, op, "work", k)
             \/ BeginAuthenticated(s, "logout", "out", k)
      PROVE  UNCHANGED Life!vars
  BY <1>1, OthersLive DEF BeginAuthenticated, sessions, credentials
<1>2. ASSUME NEW s \in Slots,
             \/ \E k \in Keys \union {NoKey} : LoginBegin(s, k)
             \/ LoginCheck(s) \/ DeleteCheck(s) \/ Crash(s)
             \/ \E t \in Tokens : ResetLock(s, t)
      PROVE  UNCHANGED Life!vars
  BY <1>2, OthersLive
     DEF LoginBegin, LoginCheck, DeleteCheck, Crash, ResetLock, sessions, credentials
<1>3. ASSUME NEW s \in Slots,
             Sync(s) \/ Track(s) \/ List(s) \/ RevokeFind(s) \/ RevokeMark(s) \/ OutRecord(s)
      PROVE  UNCHANGED Life!vars
  BY <1>3, RecordsLive
<1>4. ASSUME NEW s \in Slots,
             \/ RevokeRow(s) \/ OutRow(s) \/ LoginCommit(s) \/ Change(s)
             \/ Save(s) \/ ResetCommit(s) \/ Delete(s)
      PROVE  [Life!Next]_(Life!vars)
  BY <1>4, RevocationsEnd, LoginLives, ChangeLives, SaveLives, ResetLives, DeleteLives
<1>5. ASSUME NEW k \in Keys, Flushed(k) \/ ExpireRow(k)
      PROVE  [Life!Next]_(Life!vars)
  BY <1>5, FlushLives, ExpiryLives
<1>6. ASSUME NEW t \in Tokens, Ask(t) PROVE UNCHANGED Life!vars
  BY <1>6, OthersLive DEF Ask, sessions
<1>7. CASE UNCHANGED vars
  BY <1>7, OthersLive DEF vars
<1>. QED  BY <1>1, <1>2, <1>3, <1>4, <1>5, <1>6, <1>7 DEF Next

(* The two tables, however their commits interleave, keep what SessionLife *)
(* promises: each step of a request is one step in the life of a session,  *)
(* or none.  So no key is used twice, a session that is over never comes   *)
(* back, nor does any once the account is deleted, and a new password      *)
(* leaves no session in until one is renewed with it.                      *)
THEOREM ImplementsSessionLife == Spec => Life!Spec
BY InitLives, NextLives, SessionsInvariant, PTL DEF Spec, Life!Spec
=============================================================================
