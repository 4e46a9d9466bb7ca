------------------------------ MODULE Sessions ------------------------------
(***************************************************************************)
(* The sessions, password and account of one user:                         *)
(* backend/apps/accounts/services.py, views.py and middleware.py.          *)
(*                                                                         *)
(* A session lives in two tables.  Django's session row decides whether a  *)
(* request is authenticated; the UserSession record is what the user sees  *)
(* in the list of sessions and picks a session to revoke from.  A request  *)
(* is authenticated once, when it begins, and changes the two tables in    *)
(* several commits: SessionTrackingMiddleware writes the record once more  *)
(* after every view, whatever the view has done.                           *)
(***************************************************************************)
EXTENDS Naturals, FiniteSets

CONSTANTS
  Keys,          \* session keys; a key is drawn at random and never drawn again
  NoKey,
  Tokens,        \* password reset tokens that may be issued
  Slots,         \* requests in flight at once
  NoSlot,
  Ops            \* the kinds of request the clients send

AllOps == {"visit", "list", "revoke", "logout", "change", "delete", "login", "reset"}

ASSUME KeyAssumption == NoKey \notin Keys
ASSUME SlotAssumption == NoSlot \notin Slots
ASSUME OpsAssumption == Ops \subseteq AllOps

VARIABLES
  account,     \* the user row exists
  store,       \* django_session row of each key: "none", "live" or "expired"
  current,     \* the row's auth hash is, or was last, that of the current password
  record,      \* UserSession of each key: "none", "valid" or "ended"
               \* (is_currently_valid = False)
  token,       \* PasswordResetToken rows: "none", "fresh" or "spent"; one that
               \* expires is one that nobody presents any more
  userLock,    \* the reset that holds the row locks of its token and user
  req,         \* requests in flight
  revoked,     \* history: the keys a revocation has deleted the row of
  effective,   \* history: how many times each token has set a password
  overlapped,  \* history: a request has begun while another was in flight
  crashed      \* history: a worker has died in the middle of a request

vars == <<account, store, current, record, token, userLock, req,
          revoked, effective, overlapped, crashed>>
sessions == <<store, current, record>>
credentials == <<account, token>>
history == <<revoked, effective, overlapped, crashed>>

Steps == {"sync", "work", "commit", "mark", "row", "out", "flush", "delete", "track",
          "save"}
Idle == [op |-> "idle", step |-> "track", key |-> NoKey, target |-> NoKey,
         keeps |-> FALSE, proved |-> FALSE]

Request == [op : AllOps \union {"idle"}, step : Steps, key : Keys \union {NoKey},
            target : Keys \union Tokens \union {NoKey}, keeps : BOOLEAN, proved : BOOLEAN]

TypeOK ==
  /\ account \in BOOLEAN
  /\ store \in [Keys -> {"none", "live", "expired"}]
  /\ current \in [Keys -> BOOLEAN]
  /\ record \in [Keys -> {"none", "valid", "ended"}]
  /\ token \in [Tokens -> {"none", "fresh", "spent"}]
  /\ userLock \in Slots \union {NoSlot}
  /\ req \in [Slots -> Request]
  /\ \A s \in Slots : req[s].op \in AllOps \ {"login", "reset"} => req[s].key # NoKey
  /\ \A s \in Slots : req[s].op = "reset" <=> s = userLock
  /\ revoked \subseteq Keys /\ effective \in [Tokens -> 0 .. 2]
  /\ overlapped \in BOOLEAN /\ crashed \in BOOLEAN

Init ==
  /\ account = TRUE
  /\ store = [k \in Keys |-> "none"]
  /\ current = [k \in Keys |-> FALSE]
  /\ record = [k \in Keys |-> "none"]
  /\ token = [t \in Tokens |-> "none"]
  /\ userLock = NoSlot
  /\ req = [s \in Slots |-> Idle]
  /\ revoked = {} /\ effective = [t \in Tokens |-> 0]
  /\ overlapped = FALSE /\ crashed = FALSE

-----------------------------------------------------------------------------
(* Authentication.                                                         *)

\* SessionMiddleware loads an unexpired row; get_user compares its hash.
MayAuthenticate(k) == account /\ k # NoKey /\ store[k] = "live" /\ current[k]

\* The WebSocket handshake reads the same row but not its expiry date.
MayConnect(k) == account /\ store[k] # "none" /\ current[k]

Fresh(k) == store[k] = "none" /\ record[k] = "none"

\* Variant: get() instead of select_for_update().
UserRowUnlocked(s) == TRUE

\* A row locked FOR UPDATE keeps other writers of the user waiting.
UserRowFree(s) == userLock \in {s, NoSlot}

Begin(s, op, step, k) ==
  /\ op \in Ops /\ req[s] = Idle
  /\ req' = [req EXCEPT ![s] = [Idle EXCEPT !.op = op, !.step = step, !.key = k,
                                 !.keeps = op = "login" /\ k # NoKey]]
  /\ overlapped' = (overlapped \/ \E q \in Slots : req[q] # Idle)

BeginAuthenticated(s, op, step, k) ==
  /\ MayAuthenticate(k) /\ Begin(s, op, step, k)
  /\ UNCHANGED <<sessions, credentials, userLock, revoked, effective, crashed>>

\* The key a password change has drawn is in no request until the response that
\* carries it is saved.
Unsent(k) ==
  \E s \in Slots : req[s].op = "change" /\ req[s].step \in {"track", "save"} /\ req[s].key = k

\* get_user flushes a session whose hash does not match the password.
Flushed(k) ==
  /\ account /\ store[k] = "live" /\ ~current[k] /\ ~Unsent(k)
  /\ store' = [store EXCEPT ![k] = "none"]
  /\ UNCHANGED <<current, record, credentials, userLock, req, history>>

At(s, op, step) == req[s].op = op /\ req[s].step = step
Goto(s, step) == req' = [req EXCEPT ![s].step = step]
Finish(s) == req' = [req EXCEPT ![s] = Idle]

\* The view is done with the request, which carries key k.
Respond(s, k) ==
  req' = [req EXCEPT ![s] = [Idle EXCEPT !.op = "visit", !.step = "track", !.key = k]]

-----------------------------------------------------------------------------
(* sync_session_record.                                                    *)

\* update_or_create of the request's own record, revoked or not; the insert
\* fails when the user is gone.
Synced(k) == record' = IF account THEN [record EXCEPT ![k] = "valid"] ELSE record

\* MeView, SessionListView and SessionDetailView begin with it.
Sync(s) ==
  /\ req[s].step = "sync"
  /\ Synced(req[s].key)
  /\ IF req[s].op = "visit" THEN Respond(s, req[s].key) ELSE Goto(s, "work")
  /\ UNCHANGED <<store, current, credentials, userLock, history>>

\* SessionTrackingMiddleware ends every authenticated request with it.
Track(s) ==
  /\ req[s] # Idle /\ req[s].step = "track"
  /\ Synced(req[s].key)
  /\ IF req[s].op = "change" /\ account THEN Goto(s, "save") ELSE Finish(s)
  /\ UNCHANGED <<store, current, credentials, userLock, history>>

\* SessionMiddleware, the outer one, saves the session of a password change, now
\* with the hash of the new password, if its row is still there.
Save(s) ==
  /\ At(s, "change", "save")
  /\ LET k == req[s].key
     IN  IF store[k] = "none" THEN UNCHANGED <<store, current>>
         ELSE /\ store' = [store EXCEPT ![k] = "live"]
              /\ current' = [current EXCEPT ![k] = req[s].proved]
  /\ Finish(s)
  /\ UNCHANGED <<record, credentials, userLock, history>>

\* A record's expires_at is not before its row's: every request moves it.
MayHaveExpired == {k \in Keys : record[k] = "valid" /\ store[k] # "live"}

\* SessionListView: cleanup_expired_session_records.
List(s) ==
  /\ At(s, "list", "work")
  /\ \E expired \in SUBSET MayHaveExpired :
       record' = [k \in Keys |-> IF k \in expired THEN "ended" ELSE record[k]]
  /\ Respond(s, req[s].key)
  /\ UNCHANGED <<store, current, credentials, userLock, history>>

-----------------------------------------------------------------------------
(* Ending a session: SessionDetailView, LogoutView.                        *)

Listed(k) == record[k] = "valid"

\* The request goes on as a logout of its own session.
LogOut(s) ==
  req' = [req EXCEPT ![s] = [Idle EXCEPT !.op = "logout", !.step = "out", !.key = req[s].key]]

\* SessionDetailView looks the record up, or answers 404.
RevokeFind(s) ==
  /\ At(s, "revoke", "work")
  /\ \/ \E t \in Keys : Listed(t) /\ req' = [req EXCEPT ![s].target = t, ![s].step = "mark"]
     \/ Respond(s, req[s].key)
  /\ UNCHANGED <<sessions, credentials, userLock, history>>

\* revoke_session_record saves the record first; there is no transaction.
RevokeMark(s) ==
  /\ At(s, "revoke", "mark")
  /\ LET t == req[s].target
     IN  record' = IF record[t] = "none" THEN record ELSE [record EXCEPT ![t] = "ended"]
  /\ IF account THEN Goto(s, "row") ELSE Respond(s, req[s].key)
  /\ UNCHANGED <<store, current, credentials, userLock, history>>

\* Variant: expire_date__lte instead of expire_date__gt.
RevokeRowExpired(s) ==
  /\ At(s, "revoke", "row")
  /\ LET t == req[s].target
     IN  /\ store' = IF store[t] = "expired" THEN [store EXCEPT ![t] = "none"] ELSE store
         /\ revoked' = revoked \union {t}
         /\ IF t = req[s].key THEN LogOut(s) ELSE Respond(s, req[s].key)
  /\ UNCHANGED <<current, record, credentials, userLock, effective, overlapped, crashed>>

\* find_session_key_by_hash searches the unexpired rows.
RevokeRow(s) ==
  /\ At(s, "revoke", "row")
  /\ LET t == req[s].target
     IN  /\ store' = IF store[t] = "live" THEN [store EXCEPT ![t] = "none"] ELSE store
         /\ revoked' = IF store[t] = "live" THEN revoked \union {t} ELSE revoked
         /\ IF t = req[s].key THEN LogOut(s) ELSE Respond(s, req[s].key)
  /\ UNCHANGED <<current, record, credentials, userLock, effective, overlapped, crashed>>

\* revoke_current_session: the record ...
OutRecord(s) ==
  /\ req[s].step = "out"
  /\ LET k == req[s].key
     IN  record' = IF Listed(k) THEN [record EXCEPT ![k] = "ended"] ELSE record
  /\ Goto(s, "flush")
  /\ UNCHANGED <<store, current, credentials, userLock, history>>

\* ... and then logout(), which flushes the row and leaves the request anonymous.
OutRow(s) ==
  /\ req[s].step = "flush"
  /\ store' = [store EXCEPT ![req[s].key] = "none"]
  /\ revoked' = revoked \union {req[s].key}
  /\ IF req[s].op = "delete" THEN Goto(s, "delete") ELSE Finish(s)
  /\ UNCHANGED <<current, record, credentials, userLock, effective, overlapped, crashed>>

-----------------------------------------------------------------------------
(* Login.                                                                  *)

\* A browser may send the cookie of a session it still has.
LoginBegin(s, k) ==
  /\ k = NoKey \/ MayAuthenticate(k)
  /\ Begin(s, "login", "work", k)
  /\ UNCHANGED <<sessions, credentials, userLock, revoked, effective, crashed>>

\* authenticate_user checks the password it reads now.  login() keeps the key of
\* a session of this user if its hash matches (req[s].keeps).
LoginCheck(s) ==
  /\ At(s, "login", "work")
  /\ \/ account /\ req' = [req EXCEPT ![s].proved = TRUE, ![s].step = "commit"]
     \/ IF req[s].key = NoKey THEN Finish(s) ELSE Respond(s, req[s].key)
  /\ UNCHANGED <<sessions, credentials, userLock, history>>

\* Variant: the row is saved by INSERT OR UPDATE.
RelogSaved(s) ==
  LET k == req[s].key
  IN  /\ store' = [store EXCEPT ![k] = "live"]
      /\ current' = [current EXCEPT ![k] = req[s].proved]
      /\ record' = [record EXCEPT ![k] = "valid"]
      /\ Respond(s, req[s].key)

\* SessionStore.save updates an existing row; it raises when the row is gone.
Relog(s) ==
  LET k == req[s].key
  IN  /\ IF store[k] = "none"
         THEN UNCHANGED <<store, current, record>>
         ELSE /\ store' = [store EXCEPT ![k] = "live"]
              /\ current' = [current EXCEPT ![k] = req[s].proved]
              /\ record' = [record EXCEPT ![k] = "valid"]
      /\ Respond(s, req[s].key)

\* A new key: its row is committed with its record.
Opened(s, n) ==
  /\ Fresh(n)
  /\ store' = [j \in Keys |-> IF j = n THEN "live"
                             ELSE IF j = req[s].key THEN "none" ELSE store[j]]

\* create_authenticated_session
LoginCommit(s) ==
  /\ At(s, "login", "commit") /\ UserRowFree(s)
  /\ \/ ~account /\ Finish(s) /\ UNCHANGED sessions
     \/ account /\ req[s].keeps /\ Relog(s)
     \/ account /\ ~req[s].keeps /\ \E n \in Keys :
          /\ Opened(s, n)
          /\ current' = [current EXCEPT ![n] = req[s].proved]
          /\ record' = [record EXCEPT ![n] = "valid"]
          /\ Respond(s, n)
  /\ UNCHANGED <<credentials, userLock, history>>

-----------------------------------------------------------------------------
(* The password.                                                           *)

\* A login in flight that has yet to check the password will find that it does
\* not match the hash of its session; one that has checked it proved an old one.
Outdated(s, request) ==
  req' = [q \in Slots |-> IF q = s THEN request
                         ELSE [req[q] EXCEPT !.keeps = @ /\ req[q].step = "commit",
                                             !.proved = FALSE]]

\* change_password compares with the user loaded when the request began, which
\* the right answer of the client matches however old it is; a wrong one is
\* refused.  cycle_key moves the session to a new key, with the hash it had.
Change(s) ==
  /\ At(s, "change", "work") /\ UserRowFree(s)
  /\ \/ /\ account
        /\ \E n \in Keys :
             /\ Opened(s, n)
             /\ current' = [k \in Keys |-> FALSE]
             /\ record' = [k \in Keys |-> IF k = n THEN "valid"
                             ELSE IF k = req[s].key /\ Listed(k) THEN "ended" ELSE record[k]]
             /\ Outdated(s, [Idle EXCEPT !.op = "change", !.step = "track", !.key = n,
                                         !.proved = TRUE])
     \/ Respond(s, req[s].key) /\ UNCHANGED sessions
  /\ UNCHANGED <<credentials, userLock, history>>

\* RequestPasswordResetView: create_password_reset_token.
Ask(t) ==
  /\ "reset" \in Ops /\ account /\ token[t] = "none"
  /\ token' = [token EXCEPT ![t] = "fresh"]
  /\ UNCHANGED <<account, sessions, userLock, req, history>>

\* reset_password selects the token and its user FOR UPDATE.
ResetLock(s, t) ==
  /\ "reset" \in Ops /\ token[t] # "none" /\ req[s] = Idle
  /\ UserRowFree(s)
  /\ overlapped' = (overlapped \/ \E q \in Slots : req[q] # Idle)
  /\ token[t] = "fresh"              \* otherwise: invalid_token
  /\ userLock' = s
  /\ req' = [req EXCEPT ![s] = [Idle EXCEPT !.op = "reset", !.step = "commit", !.target = t]]
  /\ UNCHANGED <<sessions, credentials, revoked, effective, crashed>>

ResetCommit(s) ==
  /\ At(s, "reset", "commit")
  /\ current' = [k \in Keys |-> FALSE]
  /\ LET t == req[s].target
     IN  /\ token' = [token EXCEPT ![t] = "spent"]
         /\ effective' = [effective EXCEPT ![t] = @ + 1]
  /\ userLock' = NoSlot
  /\ Outdated(s, Idle)
  /\ UNCHANGED <<account, store, record, revoked, overlapped, crashed>>

-----------------------------------------------------------------------------
(* The account: DeleteAccountView.                                         *)

\* The password is checked against the user loaded when the request began.
DeleteCheck(s) ==
  /\ At(s, "delete", "work")
  /\ \/ Goto(s, "out")
     \/ Respond(s, req[s].key)
  /\ UNCHANGED <<sessions, credentials, userLock, history>>

\* delete_account, in a transaction of its own once the user is logged out.
\* It rolls back when a row that restricts deletion names the user.
Delete(s) ==
  /\ At(s, "delete", "delete") /\ UserRowFree(s)
  /\ \/ /\ account
        /\ account' = FALSE
        /\ store' = [k \in Keys |-> IF Listed(k) /\ store[k] = "live" THEN "none" ELSE store[k]]
        /\ record' = [k \in Keys |-> "none"]
        /\ token' = [t \in Tokens |-> "none"]
     \/ UNCHANGED <<account, store, record, token>>
  /\ Finish(s)
  /\ UNCHANGED <<current, userLock, history>>

-----------------------------------------------------------------------------
(* Time and failures.                                                      *)

\* expire_date passes; it is set when the row is saved and no request moves it.
ExpireRow(k) ==
  /\ account /\ store[k] = "live" /\ ~Unsent(k)
  /\ store' = [store EXCEPT ![k] = "expired"]
  /\ UNCHANGED <<current, record, credentials, userLock, req, history>>

\* A worker dies: its transaction is rolled back, its commits stay.
\* Bound: once.
Crash(s) ==
  /\ req[s] # Idle /\ ~crashed
  /\ Finish(s)
  /\ userLock' = IF userLock = s THEN NoSlot ELSE userLock
  /\ crashed' = TRUE
  /\ UNCHANGED <<sessions, credentials, revoked, effective, overlapped>>

-----------------------------------------------------------------------------
Next ==
  \/ \E s \in Slots, k \in Keys :
       \/ \E op \in {"visit", "list", "revoke"} : BeginAuthenticated(s, op, "sync", k)
       \/ \E op \in {"change", "delete"} : BeginAuthenticated(s, op, "work", k)
       \/ BeginAuthenticated(s, "logout", "out", k)
  \/ \E s \in Slots :
       \/ \E k \in Keys \union {NoKey} : LoginBegin(s, k)
       \/ Sync(s) \/ Track(s) \/ List(s)
       \/ RevokeFind(s) \/ RevokeMark(s) \/ RevokeRow(s) \/ OutRecord(s) \/ OutRow(s)
       \/ LoginCheck(s) \/ LoginCommit(s) \/ Change(s) \/ Save(s)
       \/ \E t \in Tokens : ResetLock(s, t)
       \/ ResetCommit(s) \/ DeleteCheck(s) \/ Delete(s) \/ Crash(s)
  \/ \E k \in Keys : Flushed(k) \/ ExpireRow(k)
  \/ \E t \in Tokens : Ask(t)

Spec == Init /\ [][Next]_vars
-----------------------------------------------------------------------------
(* Properties.                                                             *)

Quiet == \A s \in Slots : req[s] = Idle

(* docs/API_CONTRACT.md 8.2 and 7.4: a session that was revoked or logged  *)
(* out while its row was live is over.  Whatever the requests still in     *)
(* flight on it do - among them a login, which saves the row, and the      *)
(* middleware, which writes its record valid again - neither a request nor *)
(* a WebSocket handshake is authenticated by its key any more.             *)
RevokedStaysOut == \A k \in revoked : ~MayAuthenticate(k) /\ ~MayConnect(k)

(* docs/API_CONTRACT.md 8.1, docs/SCHEMA.md 5.3: when no request is in    *)
(* flight, every session that authenticates is in the list the user        *)
(* revokes from, unless a worker died halfway through a revocation; and a  *)
(* listed session can be used, or has expired or was opened with an older  *)
(* password - provided no two requests overlapped: the middleware of an    *)
(* overlapping one lists a session again whose row is gone.                *)
ListMirrorsSessions ==
  Quiet => \A k \in Keys :
    /\ ~crashed /\ MayAuthenticate(k) => Listed(k)
    /\ ~overlapped /\ Listed(k) => store[k] # "none" \/ ~current[k]

(* reset_password: a token sets a password once, however many requests     *)
(* present it at the same time.                                            *)
TokenWorksOnce == \A t \in Tokens : effective[t] <= 1
=============================================================================
