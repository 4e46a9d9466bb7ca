# A specification of the chat server

TLA+ models, model-checking runs and proofs for the chat application of this
repository: a Django / Channels backend (`src/backend`) and a React client
(`src/frontend`). The models are translations of the code; the documents under
`src/docs` are where the properties come from.

## 1. The system

| Part | State | Operations | Talks to |
|---|---|---|---|
| Rooms and moderation (`apps/chat/services.py`, `views.py`, `models.py`) | rows `Room`, `RoomMembership`, `RoomBan`, `RoomInvitation`, `RoomReadState`, `ModerationEvent` | create, update, delete, join, leave, invite, accept, reject, promote, demote, ban, remove, unban, mark read | PostgreSQL; publishes membership events after the commit |
| Messages (`apps/chat/services.py`) | `RoomMessage`, `DialogMessage` | create, update, delete, list pages, unread counts | attachments, read states, fan-out |
| Social (`apps/social`) and dialogs | `FriendRequest`, `Friendship`, `PeerBan`, `Dialog` | request, accept, reject, unfriend, ban, unban, open a dialog | freezes and unfreezes `Dialog` |
| Fan-out and consumer (`realtime/fanout.py`, `consumers.py`) | channel-layer groups and inboxes, the `room_subscriptions` of a connection | subscribe, unsubscribe, deliver, forced unsubscription, typing, heartbeat, read marks | Redis channel layer, database |
| Presence (`apps/presence`, `realtime/connection_registry.py`) | Redis keys per connection and a set per user; `User.presence_state` | connect, heartbeat, disconnect, query | consumers of all processes, REST queries |
| Attachments (`apps/attachments`) | `Attachment` rows, two join tables, objects in MinIO/S3, legacy files | upload, bind, discard, delete with message or room, download, backfill | object store, messages |
| Accounts and sessions (`apps/accounts`) | `UserSession` rows, the Django session store, reset tokens | sign in, sign out, revoke, change and reset password, delete account | every request, through a middleware |
| Client (`frontend/src/App.tsx`) | lists of rooms, dialogs, messages; one socket | load, send, apply events, heartbeat | REST and WebSocket |
| Start-up (`config/startup.py`, `entrypoint.py`) | one child process at a time | migrate, backfill, serve, forward signals | the container |

What is hard here:

* **READ COMMITTED.** Services run in `transaction.atomic` at PostgreSQL's
  default isolation. A check is a SELECT; the write it justifies comes later;
  other requests commit in between unless a row lock or a constraint stops them.
* **Two kinds of state.** A rollback restores the database, not Redis, not the
  object store, and not an event that has been sent.
* **Order of events.** A view publishes after its transaction has committed, so
  two requests can commit in one order and publish in the other. The channel
  layer drops what a full channel cannot take.
* **Crashes and silence.** A server process dies with its consumers; the keys
  of their tabs expire and nothing else happens.

`PROJECT.json` lists each hazard with its line and the property that covers it.

### What makes each part correct

* Rooms: one owner, who is a member, is never banned and cannot be demoted; a
  banned user is no member; an invitation is answered once; nobody becomes a
  member without a join, an accepted invitation or founding the room; a deleted
  room leaves no rows.
* Real time: nothing written after a user has lost access is shown to that user; a
  subscribed client ends up showing what the database holds; nothing owed to it is
  lost.
* Presence: offline exactly while no tab is open; changes are announced.
* Social: the dialog is open exactly between friends without bans; a friendship
  comes from an accepted request; a ban ends it.
* Attachments: bound at most once; a row has its object; nothing is orphaned; an
  attachment goes with its message.
* Storage migration and download: a file can be downloaded as it was at every
  moment of the move; a move run at startup ends; a range request gets its bytes and no others.
* Sessions: a revoked session stays out; every session that works is listed, so
  that it can be revoked; a reset token works once.
* Read states: unread is what came since the last mark; paging back skips or
  repeats nothing unless something was deleted or inserted.
* Client: the list shows the active chat, whatever order answers and events take;
  loading ends.

## 2. Modules

| Module | Models | Notes |
|---|---|---|
| `RoomMembership` | membership side of one room | requests as check and commit steps, row locks |
| `RoomAccess` | the abstract room: outsider, member, banned | refined by `RoomMembership` (`ImplementsAccess`) |
| `RoomMembershipProofs`, `SessionsProofs`, `SocialDialogsProofs`, `PresenceProofs`, `AttachmentsProofs`, `MessageTimelineProofs`, `AttachmentStorageProofs`, `RoomRealtimeProofs` | theorems about the modules they are named after; those about `ChatClient` are in `MessageTimelineProofs` | TLAPS |
| `RoomRealtime` | messages of one room from the handler to the client | channel layer, consumer, client list |
| `PresenceRegistry` | the Redis presence of one user | one Redis command per step |
| `SocialDialogs` | one pair of users and their dialog | locks on the users, the friendship, the ban rows |
| `PairAccess` | the abstract pair: friends, questions, bans, the dialog | refined by `SocialDialogs` (`ImplementsPair`) |
| `Attachments` | attachment rows, bindings and objects | uncommitted deletions, the post_delete signal, failures |
| `Sessions` | sessions, password and account of one user | one commit per step; the middleware after every view |
| `SessionLife` | the abstract sessions: unused, in, lapsed or over | refined by `Sessions` (proved, `ImplementsSessionLife`) |
| `MessageTimeline` | one chat, one reader: marks, unread counts, pages | messages become visible out of order |
| `AttachmentStorage` | the move between the stores, start-up, downloads | kills and store errors at any step; liveness |
| `ChatClient` | the message list of the web client | one step per `await`; sockets are queues; liveness |
| `MC*` | instances of the above for TLC | operation mixes, symmetry |

*History variables.* Several promises hold exactly as long as requests do not
overlap. Each model that has such a promise carries a history variable
(`overlapped`; `disturbed` in `Attachments`; `crashed` in `Sessions`; `cut` in
`RoomRealtime`, and `withheld`, a set of texts that is emptied when its user comes
back; `fate` in `AttachmentStorage`; `stray` and `missed` in
`ChatClient`; `inserted` and `deleted` in `MessageTimeline`) that no guard reads and that
turns TRUE for good once the condition is broken; the promise is then stated as
`~overlapped => ...`. One run checks it together with what survives every
overlap, and its states include the ones where the promise is gone. What then
happens is told in section 5.

A definition whose comment starts with "Variant" is not part of a
specification: it is a plausible bug in the definition it precedes, and shows
that the property named in `PROJECT.json` (`mutants`) notices it.

### 2.1 RoomMembership

*State.* `visibility` and `owner` are the `Room` row; `role`, `ban`,
`invitation`, `readers` the rows that hang from it; `req` the requests between
their checks and their writes, one slot each.

*Granularity.* A service that decides on a row it neither locks nor knows to be
constant is two actions, `XStart` (the SELECTs, with what they returned kept in
the slot) and `XCommit` (the writes, which others see at the commit). `Leave`,
`Promote`, `Reject`, `UpdateRoom` and `DeleteRoom` are single actions: each
decides on one row and then updates or deletes that row, so it behaves as if it
had read it at the moment of the write, or not run at all.

*Locks.* `accept_room_invitation` uses `select_for_update` with
`select_related`, without `of=`: besides the invitation it locks the room and
both users. Django's foreign keys are deferred: an INSERT of a row that references
a locked row goes through, its COMMIT waits for the lock. Every moderation service
inserts a `ModerationEvent` naming the room. So an
acceptance cannot overlap the commit of a ban, which is why invitations keep
banned users out while `join_room` does not.

*Left out.* `ModerationEvent` rows (written, never read), room names and
descriptions, the message rows of the room (`RoomRealtime`, `Attachments`).

### 2.2 RoomRealtime

A request checks, commits, and sends its events one by one (`Start`; `Post`,
`Edit`, `Delete` or `ChangeMembership`; `Send`). `group` is the channel-layer
group, `inbox` the channel of a connection with `Capacity` places, `subs` the
`room_subscriptions` set of the consumer. The consumer is a coroutine that looks at
the access and then awaits: `hand` is what it goes on to do after that, and any
commit may come in between. `broadcast_event` is `Check` (`_can_receive_room_event`,
`MayReceive`), then `Pass` (the awaited send) or `Drop` (the awaited `group_discard`);
`room.subscribe` is `Subscribe`, then `Join` (the awaited `group_add`), which goes
through although the user may have been banned meanwhile; `Forced` is the control
event. While its `hand` is full a consumer takes neither an event nor a message of its
client. `access` are the users who are members and not banned, `admins` those of them
who may delete the messages of others; all membership operations of the room are here
as far as they change the two or send something (an unban, a demotion). `view` is the
message list of the client. `withheld` (history) collects, for each user
without access, what has been written since the loss; `NothingWithheldIsShown` is about
`view` against that, so it depends on the check, on what is queued and on what is in
`hand` when access is lost. Two history variables state what the client may expect:
`subbed` (it asked to be subscribed and has had access since) and `owed` (what
was posted since). A message is edited at most once, which is enough for two
events to overtake each other. `overlapped` notes that a request began while
another had not yet sent all its events; `cut` collects the connections that lost
an event to a full channel, or their subscription to a forced one although their
user has access. `ViewFollowsSerialRequests` excepts only those.

### 2.3 PresenceRegistry

Every Redis command is a step: `Register` writes `presence:conn:*`, `Enroll`
adds it to the set (its EXPIRE is merged: the set outlives the keys), `Members`
and `Get` are `list_connections`, `Tidy` its clean-up, `Lock`, `Save` and
`Publish` the transaction on the user row and the event. Consumers of one
process run these steps without an `await`, so they exclude each other
(`LoopFree`); REST queries run in threads and exclude nobody. `Age`, `Expire`,
`Lapse`, `ExpireRegistry` are time. `Crash` is the death of a process: its tabs
are `"dead"`, neither open nor closed by the user, so no disconnect handler runs
and only the expiry of their keys removes them.
`write_presence_snapshot` is left out: nothing reads what it writes. The SQL
mode (`CHAT_LEGACY_SQL_PRESENCE_ENABLED`) is not modelled.

### 2.4 SocialDialogs

All rows are keyed by the pair, so a pair is the whole component. `request`
holds friend requests, `friends` the friendship, `ban` the two directions,
`dialog` the dialog and its `is_frozen`, `messages` a count. The slot of a
request keeps what it read: whether a friendship row was found, and the state it
computed for the dialog. The locks are those named at the head of the module; an
accepting request locks both users, so no INSERT that references them can
commit meanwhile (the foreign keys are deferred: the statement goes through, the COMMIT
waits), but a ban that has already deleted "the" friendship (there was
none) waits and commits afterwards, which is one of the two ways to be friends
under a ban. The other is a ban that leaves a pending request behind, which
`accept_friend_request` then accepts without looking at bans.

`PairAccess` is what all of this is for: each rule in one whole step. Its state is
computed from the rows: `asking` and `banning` are the users with a pending request
and with a ban row. `ImplementsPair` says that until requests overlap each step of
the services is one step of the pair or none, so that the acceptance of a question
the ban has left pending is the only thing that brings friends and a ban together;
and that at any overlap an answer is final and friends are made only by the
acceptance of a pending request.

The module has one action per service except that
`update_dialog_message` and `delete_dialog_message` are not here (they look at
neither friendship nor bans).

### 2.5 Attachments

`row`, `binding` and `message` are tables, `object` the store. `UploadPut`,
`UploadInsert` and `UploadFails` are `create_attachment`. `PostStart` takes the
locks of `_lock_owned_unbound_attachments`, `PostCommit` writes message,
bindings and binding types. A discard is four steps because it is not locked
until it deletes the row: the view's read, the cascade over the bindings, the
deletion with its signal, and the commit, where the deferred foreign key may
fail. Deletions of a message or a room remove one object per step (`Purge`).
`Abort` is a failure of the store, of the database, or of the worker, in the
stages named by `Failing`. A transaction that fails is undone by `RollBack`,
which restores rows and bindings; the store has no rollback, and `wasted`
(history) collects the files whose object was removed by it in vain.
`TakenFromMessage` is the step that ends a binding while its message stays.

### 2.6 Sessions

A session key has a row in Django's session table (`store`, with `current`
telling whether the hash in it is that of the present password) and a
`UserSession` record. A request is authenticated once, by `BeginAuthenticated`
(`MayAuthenticate` is `SessionMiddleware` and `get_user`), and then runs through
the steps of its view: `Sync` is the record its view writes first, `RevokeMark`
and `RevokeRow` the two commits of `revoke_session_record`, `OutRecord` and
`OutRow` those of `revoke_current_session`, `Track` the middleware after the view.
`Change` is the transaction of `change_password`: it deletes the row of the old key and
writes one under a new key, still with the hash of the old password; `Save` is
`SessionMiddleware` writing the new hash after `Track`. Nobody holds the new key in
between (`Unsent`), so the old hash in it flushes nothing.
`LoginCommit` opens a new key or, when the browser sent the cookie of a session
of the same user, keeps it (`Relog`: `SessionStore.save` updates the row and
raises when it has gone). `Outdated` is what a new password does to logins in
flight. `userLock` is the row lock of `reset_password`. `ExpireRow` is time and
`Crash` a worker that dies. Only `cleanup_expired_session_records` looks at the
`expires_at` of a record, so `List` chooses which of those that may have expired
have; an expired token is one that nobody presents any more. The WebSocket handshake
(`MayConnect`) reads the session row itself. Deletion of the account is modelled
as far as sessions, records and tokens go.

`SessionLife` is the user's view of it: each key is unused, in, lapsed or over. A key
without a row is unused if it has no record either, and over otherwise; a row that
may not authenticate, because it has expired or carries the hash of an earlier
password, is lapsed. The refinement mapping (`Standing`) and the proof are in
`SessionsProofs`.

### 2.7 MessageTimeline

A message is named by its stamp `created_at`, drawn at the INSERT; it is `"open"`
until the transaction commits, so a reader may see a later stamp first. `MarkRead`
and `MarkCommit` are the SELECT and the write of `mark_room_read` and
`mark_dialog_read`; the mark is the stamp of the latest visible message, or the
present in an empty chat. `ListStart` and `ListAnswer` are the two queries of the
lists with unread counts. `LoadFirst` and `LoadOlder` are the pages: `Slice` is
the SQL slice of `Limit` items at an offset from the newest, `cursor` the offset
of the next page. `acked` (what the request that set the mark saw), `since` and
`loaded` are the reader's side.

### 2.8 AttachmentStorage

Every file is from before the move: `legacy` and `object` are its copies in the
two stores, `"none"`, `"short"` (truncated) or `"whole"`. `backfill` holds two
runs of the command, at startup and by hand; a step is one call of a store.
`Restart` is the container being stopped or dying: the entry point passes the
signal to the one child it runs. It kills both runs and rolls back the deletions
under way; startup then runs again before the server does (`phase`). `onStartup` is the
setting `ATTACHMENTS_RUN_BACKFILL_ON_STARTUP` with the s3 backend, chosen once: without
it, which is the default, the server starts with nothing moved (`ServeUnmoved`) and only
the command run by hand moves files. A deletion
empties the object store, then the local disk, then commits. A `download` is the
access of one reader, from the Range header (`Parsed`, against the definition
`Wanted`) over the store that is open to the chunks that are read. `fate` tells
which promise a fault has cost a file: the command reported it as failed, could
not remove a truncated object, or its deletion was undone after both stores had
been emptied.

### 2.9 ChatClient

The client of one user: `active` and the effects of its changes (`SetActive`:
the subscription effect writes to the socket, the clean-up of the loading effect
cancels its run, a new run starts), the runs of `loadChat` (`Answer`, `Arrive`,
`LoadMarked`, `Fail`: one step per `await`, cancelled runs included), one request of
the user (send or edit, delete, older messages) and one `refreshShell`, which may fail. `outbox`
and `inbox` are the two directions of the socket; REST answers are ordered with
neither. The server is reduced to what exists (`sent`), who may read (`joined`)
and the groups of the connection. A message that has been loaded as part of an
older page is represented by its chat in `view`. `stray` notes that an answer or
event that outlived its chat, its message or a failed load is in the list until
the next page replaces it; `missed` that the chat changed when neither the page
still to be read nor a subscription covered it. The names `ClientInit`, `ClientNext`,
`ClientTypeOK` and the like keep the module apart from `MessageTimeline`, with which
it shares a proof module and nothing else.

## 3. Runs

Users, requests and rows are model values. Two overlapping requests are enough
for every race described in section 5; `SocialPair` takes three, because there a
third request can find what the first two leave behind.

| Run | Instance | Shows |
|---|---|---|
| `RoomSerial` | 3 users, 2 invitations, 1 two-step request, all operations | the operations implement `RoomAccess`; a ban excludes membership; a deleted room leaves nothing |
| `RoomConcurrent` | 3 users, 2 invitations, 2 requests | ownership, the admin hierarchy, one pending invitation, final answers and justified admissions survive any overlap |
| `RoomJoinRace` | violation, 2 requests | "banned users are no members" does not |
| `Realtime` | 2 users, 1 connection, 1 message, 2 requests, capacity 2, `CheckedOps`, fair | nothing written after a loss of access is shown, at any overlap and with a full channel; what is owed arrives; until requests overlap every client that was not cut off shows the database |
| `PresenceOverlap` | 2 tabs on 2 processes, one may hide, 2 queries | closing the last tab ends offline at any interleaving |
| `PresenceHeals` | 2 tabs on 1 process, 2 queries, a crash, a lapse, fair | exact without queries and failures; heartbeats repair what races break |
| `SocialPair` | 3 requests, 2 friend requests, 1 message | the services implement `PairAccess` until requests overlap; one pending request per direction, final answers, earned friendships at any overlap |
| `AttachmentLife` | 2 requests, 3 files, 2 messages, failures at any stage | bound at most once at any overlap; objects lost only by rolled-back deletions; nothing orphaned until requests overlap or die |
| `Sessions` | 3 keys, 2 requests, 1 reset token, 1 crash | a revoked key never authenticates again; list and store agree when nothing is in flight; a token works once |
| `Timeline` | 3 messages, pages of 1, 2 requests of the reader | unread is what came since the mark; lists hide nothing; pages skip only after deletions and repeat only after insertions |
| `Migration` | 2 files of 2 bytes, chunks of 1, 2 runs of the command, with and without the startup backfill, 1 fault, fair | files survive the move; downloads are exact; a move run at startup ends |
| `ChatClient` | 2 chats, 1 message, 2 acts of the user, 2 loads at once, fair | the list is that of the active chat; loading ends |

*Bounds.* Three users are an owner, an admin and a third whom both can act on.
Two invitations to one user are what `OnePendingInvitation` is about. Capacity 2
fills with the events of two requests and drops the next one. `CheckedOps` of
that run has a loss of access that sends the control event (a ban; a departure is the
same here), one that sends nothing (a removal) and the return, whose event an unban sends
too; promotions and demotions, which double the states of a liveness check, are left to
the theorems, which cover all operations and every property of the run but `OwedArrives`;
TLC has passed the same instance with `AllOps` (1,811,522 states), which takes longer than
a run should. `ConcurrentOps` of
the room runs leaves out deleting the room, lifting a ban and marking read, which
`RoomSerial` covers; the theorems of section 4 leave out nothing. `MaxLapses`
bounds how often an open tab misses its heartbeats so long that its keys expire,
`MaxMessages` the messages of a chat; the finite sets of invitations, friend
requests, files, keys and messages bound the rows. Three keys are the session of a
request, the one it revokes and the one a login or a new password opens; a key is
never drawn twice, so a fourth would only repeat them. Three messages are three
pages of one, with insertions and deletions on either side of the reader's
position; longer pages and histories are left to the proofs. Two bytes in
chunks of one are the smallest file with a boundary inside a range, a truncated
copy that is not empty, and every relation of a header to the size; `OrderedSpec`
starts with the local copies of the two files in one order, since the files are
interchangeable. `MaxFaults`
counts kills, truncated uploads and errors of the store; the run has one, at any step
of either file. What several faults in a row do to a file - a truncated object is left
behind, then the other run, which has looked before, fails to upload - takes three, and
is the business of the proof of `ContentSurvives`, which holds for any number of them;
instances with one file and up to five faults were used to check its invariant. Two acts let the user ask for something and leave the
chat before the answer; `MaxLoads` is a load and the one it superseded; with
`MaxOutbox` the user does not select again while more than one command waits in
the socket. A run has `CHECK_DEADLOCK FALSE` where the system really comes to
rest: the rows or keys are used up, the room is deleted, the tabs are closed.

*Symmetry* is used only in runs without liveness properties.

*Fairness.* `RoomRealtime`: weak fairness of each started request (a thread
that has committed goes on to publish) and of what a consumer goes on to do after an
await; strong fairness of taking an event from its channel. A consumer that is about its
client's message takes no event, but `await_many_dispatch` keeps one pending task per
source and serves every one that is done in each round, so a client that keeps sending
cannot shut its channel out. Nobody is obliged to post or to subscribe. `PresenceRegistry`: weak
fairness of the steps of a handler once it runs; strong fairness of starting a
heartbeat, whose timer fires every 30 seconds and waits in the first-in
first-out queue of the event loop, and of locking the user row, because
PostgreSQL queues waiters. With two server processes two tabs can in principle
keep emptying each other's registry for ever, so `OpenTabComesBack` is claimed,
and checked, for one process, as the repository deploys it. `AttachmentStorage`:
weak fairness of the startup run (the container restarts it when it fails, and a
store call returns) where `onStartup` is set, which is a premise of `MigrationCompletes`
and off by default; and of a deletion under way; nobody is obliged to delete, to
download or to run the command by hand. `ChatClient`: weak fairness of the loads
and of a refresh, because a browser ends every request with an answer or an error;
the user, the other users and the socket owe nothing.

## 4. Proofs

`RoomMembershipProofs` proves, for any sets of users, requests and invitations:

| Theorem | Statement |
|---|---|
| `TypeCorrect` | `[]TypeOK` |
| `OwnerStandingHolds` | `[]OwnerStanding` |
| `DeletedRoomIsEmpty` | `[]DeletedRoomLeavesNothing` |
| `OnePendingInvitationHolds` | `[]OnePendingInvitation` |
| `AnswersAreFinal` | `InvitationsAreFinal` |
| `AdmissionsAreJustified` | `AdmissionIsJustified` |
| `AdminsAnswerToOwnerHolds` | `AdminsAnswerToOwner` |
| `BanExcludesMembership`, `RequestsImplementAccess` | `[]BannedNotMember`, `ImplementsAccess`, assuming that joins overlap nothing |

The argument. `TypeOK` is inductive by itself. Ownership is not: that a request
in flight cannot take the owner's role needs `NoRoomNoRows` (before the room
exists there is nothing to ban), and together they are `OwnerInv`. `AcceptInv`
says what an acceptance in flight may rely on thanks to its locks: its
invitation is still pending, its user is not banned. `JoinInv` is the same for a
join, which has no lock; it is an invariant only under the assumption
`JoinsDoNotOverlap` (no joins, or one request slot), and the run
`RoomJoinRace` shows the assumption is needed. It covers two systems of
interest: a private room, which nobody joins, so that bans and acceptances alone
exclude each other whatever overlaps; and a server that handles one two-step
request at a time. `SeenInv` ties the roles a
moderation request read to what can have become of them. Each invariant has one
lemma for the single-step handlers, one for the starts, one for the commits.

The other proof modules have the same shape: an invariant `IInv` whose conjuncts
are named below, one lemma per group of actions, and theorems that follow from it.
They hold for any sets of keys, tabs, queries, files, connections, messages, friend
requests and request slots, any page size, file size and chunk, any capacity of a
channel and any number of crashes and faults.

| Module | Theorem | Statement |
|---|---|---|
| `SessionsProofs` | `SessionsTypeCorrect` | `[]TypeOK` |
| | `RevokedStaysOutHolds` | `[]RevokedStaysOut` |
| | `TokenWorksOnceHolds` | `[]TokenWorksOnce` |
| | `ListMirrorsSessionsHolds` | `[]ListMirrorsSessions` |
| | `ImplementsSessionLife` | `Life!Spec` |
| `SocialDialogsProofs` | `PairTypeCorrect` | `[]TypeOK` |
| | `DialogFollowsFriendshipHolds` | `[]DialogFollowsFriendship` |
| | `PendingMeansStrangersHolds` | `[]PendingMeansStrangers` |
| | `ImplementsPairHolds` | `ImplementsPair` |
| | `OneRequestImplementsPair` | `Pair!Spec`, for a server that handles one request at a time |
| `PresenceProofs` | `PresenceTypeCorrect` | `[]TypeOK` |
| | `ClosedUserIsOfflineHolds` | `[]ClosedUserIsOffline` |
| | `OneProcessIsExactHolds` | `[]OneProcessIsExact` |
| `AttachmentsProofs` | `AttachmentsTypeCorrect` | `[]TypeOK` |
| | `SingleBindingHolds` | `[]SingleBinding` |
| | `StoreMatchesRowsHolds` | `[]StoreMatchesRows` |
| | `OnlyARaceTakesAttachmentsHolds` | `OnlyARaceTakesAttachments` |
| `RoomRealtimeProofs` | `RealtimeTypeCorrect` | `[]TypeOK` |
| | `ViewFollowsSerialRequestsHolds` | `[]ViewFollowsSerialRequests` |
| | `NothingWithheldIsShownHolds` | `[]NothingWithheldIsShown` |
| `MessageTimelineProofs` | `TimelineTypeCorrect` | `[]TypeOK` |
| | `UnreadIsWhatCameHolds` | `[]UnreadIsWhatCame` |
| | `ListHidesNothingHolds` | `ListHidesNothing` |
| | `PagesDriftWithWritesHolds` | `[]PagesDriftWithWrites` |
| | `ClientTypesCorrect` (of `ChatClient`) | `[]ClientTypeOK` |
| | `ListShowsActiveChat` (of `ChatClient`) | `[]ListIsOfActiveChat` |
| `AttachmentStorageProofs` | `StorageTypeCorrect` | `[]TypeOK` |
| | `ContentSurvivesHolds` | `[]ContentSurvives` |
| | `DownloadIsExactHolds` | `[]DownloadIsExact` |

*Sessions.* What a revoked session could come back through is a request that still
carries its key, or a new session with the same key. `KeyInv`: while the account
exists, a key with a row or with a request in flight has a record, and a key with a
record is never drawn again. `RevokedInv`: a revoked key keeps its record and has
no row; every write of a row under an old key is an UPDATE of a row that exists.
`TokenInv`: a fresh token has set no password, and neither has the token of the
one reset that holds the lock on the user. The list is a second invariant on top,
`MirrorInv`: a row that works without being listed belongs to a request that is about
to remove it (`LiveInv`); and as long as no request overlaps another, what is listed
works (`AloneInv`), for which the request in flight must not write the record of a
key whose row it has removed (`Careful`). `MirrorStep` reduces every handler to what
it does to one key. That the tables implement `SessionLife` needs `KeyInv` alone: a key
whose row has gone keeps its record, so it counts as over and not as unused. The step
lemmas say which keys a commit leaves as they stand (`Kept`), and what becomes of the
one or two it touches; a new password lapses every key at once, and the save of its
response renews one. `UnsentInv`: the new key of a password change is in one request only,
and no other may use it before that save.

*Friends and dialogs.* `AcceptInv`: the request an acceptance has locked is still
pending, and there is one acceptance at a time. `PendingInv`: a user has one pending
request to the other. `MessagesInv`: a message in flight has a dialog. `SerialInv`
is the part that begins with `~overlapped`: the request in flight is alone, what it
read (`Current`) is still so, and dialog, friendship and bans agree. The refinement of
`PairAccess` rests on the same invariant: a start changes nothing the pair sees, and a
commit whose reads are still true is the step the service is meant to be. The part that
holds at any overlap comes from `AcceptInv`. With one slot nothing overlaps, so
`SocialDialogs` then implements the specification of the pair outright. Two assumptions
on the constants are used: `Users` are two distinct users
(`PairAssumption`) and `Slots` is finite (`SlotsAssumption`, so that requests in
flight can be counted against the rows that are left).

*Presence.* The argument is the order of the code: a consumer deletes its key
before it takes the lock on the user row, and reads the registry under that lock.
`FoundInv`: a transaction that has found a key alive is followed by the consumer of
some tab, which is still served or has yet to take the lock and compute
(`WillCompute`). `PresenceInv`: so is a stored presence other than offline. That one
process is exact is a second invariant, `ProcessInv`: no consumer starts while another
is between two Redis commands (`SoloInv`), so an open tab keeps its key and its place
in the registry (`KeptInv`), and what a consumer has listed and not yet looked up
decides the presence as the open tabs do (`ListInv`, `SettledInv`).

*Attachments.* `LockInv`: the files of posting and deleting requests are disjoint.
`HoldsInv`: what each request may rely on at any overlap; its heart is that the
deletion of a message has seen every attachment the message will ever have.
`StoreInv` and `BindInv` hold at any overlap, `SerialInv` until two requests
overlap or one dies; it accounts for the store file by file (an object is there
exactly if its row is live and no request in flight has removed it, or an upload
has just put it), which `StoreMatchesRows` says only of the moments when nothing
is in flight.

*Messages in real time.* What a lagging client shows says nothing about the
database; what it shows together with what waits for it does. `EndsWith` says that of
a channel's content: the last event in it about a message carries the stored text,
or there is none and the client shows that text. It is a statement about positions,
not a fold over the channel, so appending and taking an event are two lemmas
(`EndsAppend`, `EndsTail`). `ViewInv` claims it for every owed message unless the one
request in flight is about to send an event about it, whose text `SendInv` knows.
`SubInv` has what it rests on at any overlap: who is owed something is subscribed with
access, and in the group unless it was cut off. The capacity enters only where a
full channel puts a client among the cut ones.

That nothing withheld is shown is a second invariant, `KInv`, about what each step may
know: a text withheld from a user is in no list and in no `hand` of that user's
connections, nothing is withheld from a user with access, and an event that is waiting or
about to be sent carries a text that has been written. A commit withholds a text that no
list, channel or `hand` can hold yet, since it is new; `Check` is where an event that waits
could pass, and the access looked at there empties the set. An event in `hand` when access
is lost was written before the loss.

*Read states and pages.* `MarkInv`: until a mark overlaps, a message that is there or may
still commit is later than the mark exactly if the request that set the mark did
not see it. A page is a set of ranks (how many visible messages are at least as
new), so the pages need facts about ranks: they are bounded, distinct, grow towards
the older messages and with the set (`RankBounds`, `RankStrict`, `RankMonotonic`);
that a non-empty chat has a newest message (`NewestExists`) follows from them by the
pigeonhole principle, because induction is out of reach. `PageInv`: without deletions
what is not loaded yet is beyond the cursor and older than all that is.
`DriftInv`: without insertions what is loaded is within the cursor.

*Storage migration and download.* `RunInv`: a run that uploads has read a whole local
file and has found no object. `CopyInv`: a truncated object in a row's place is being
checked by a run, or that it was left is on record. `LostInv`: a local file goes only
with its deletion, with one undone, or with a stop of the container in a deletion while
a truncated object waits for its removal, which is then on record. `RangeOK`: the bytes asked for are those sent
and those from the handle's position on. The proof needs what one fault cannot show: a
truncated object left behind is still there after a failed upload of the other run, so
such an upload leaves the record of it standing (`Put`).

*Web client.* The property speaks of the moments when nothing is on its way, and what
the client then shows is the sum of a page, of events and of its own requests, which
cross. `LoadedInv` says it for every moment since the page of the active chat has been
put into the list: a message that the list lacks is in an event on its way, and one that
has been deleted and is still in the list is about to be removed by one - unless the
socket is down, something `stray` is in the list, or something was `missed`.
`AnsweredInv` carries this over the answer of the page, which is up to date until it
arrives unless the chat changes without a subscription, and `FitInv` and `LoadPageInv`
say whose messages these are. `SeenInv` keeps the future out: no list, page or event
names a message before it is sent, or removes one that is not deleted. `RequestInv` is
what an answered request may rely on. Queues are handled by membership (`InQueue`), with
one lemma for each end. The assumptions are that the placeholders `NoChat` and
`NoMessage` are no chats or messages, that chats and messages differ
(`ChatAssumption`: `view` holds both), that every message has a chat (`HomeAssumption`),
and that the bounds are numbers (`BoundAssumption`), whatever they are.

Model-checked only: the liveness properties (`OwedArrives`, `OpenTabComesBack`,
`MigrationCompletes`, `LoadingEnds`), which are out of the prover's reach; every other
property of a passing run is proved. `BannedNotMember` and `ImplementsAccess` are the two
whose theorem has a hypothesis, the one `RoomJoinRace` shows to be needed. TLC confirms
`ImplementsSessionLife` on the instance of the run `Sessions` (1,329,292 states), but that
is no run of its own, since the theorem needs no instance. What a fold over a sequence yields for every sequence would need
induction over data and is avoided, as above.

## 5. What disagrees with the documents

### With a run that shows it

The quoted line is in `PROJECT.json` (`findings`).

* `RoomJoinRace`: a user reads no ban twice (two joins), one join commits, the
  user is banned, the other join commits: banned and a member
  (`docs/SCHEMA.md:1032`).

### Reached by the models, without a run of their own

The states below are in the runs named; the properties of those runs are stated
so as to allow them, through a history variable or a premise.

Rooms and messages in real time (`Realtime`):

* Promoting an admin is announced as a removal and forces the promoted user out
  of the room's group; messages posted afterwards do not arrive (`views.py:448`,
  `docs/API_CONTRACT.md:2483`). No overlap is needed; the instance with `AllOps`
  reaches it.
* Two requests commit in one order and publish in the other: the client ends up
  with the older text, or with a deleted message (`views.py:685`).
* A forced unsubscription for a removed user waits in the channel while the user
  comes back and subscribes again; it then removes the new subscription
  (`consumers.py:179`).
* A full channel drops an event and no one is told (`consumers.py:434`).
* An event that was checked before a ban is passed on after it (`consumers.py:177`);
  what was written after the ban never is. A subscription looked up before a ban joins
  the group after it (`consumers.py:209`) and lasts until the control event or the first
  event that is refused.

Presence (`PresenceHeals`):

* A query deletes the registry key a connecting tab has just been added to; the
  tab is open and its user offline until its next heartbeat
  (`connection_registry.py:102`, `docs/API_CONTRACT.md:2971`).
* After a crash the keys of the dead tabs expire, but the stored presence is
  computed only by a consumer or a query, so the user stays "online" until
  somebody asks (`docs/MIGRATION_PLAN.md:253`: presence "MUST expire
  automatically when heartbeats stop").
* Every heartbeat of a hidden tab carries a fresh interaction
  (`App.tsx:814`), so an open but inactive user never turns "afk"
  (`docs/API_CONTRACT.md:2970`).
* A query computes and saves a change but publishes nothing; the consumer that
  comes after it finds the row already changed and publishes nothing either
  (`docs/TASKS.md:1108`: "MUST publish presence changes promptly").

Friends and dialogs (`SocialPair`):

* A ban leaves a pending friend request pending, and its acceptance makes friends
  of two users under a ban (`docs/API_CONTRACT.md:914`: "friendship MUST be
  terminated"). No overlap is needed.
* A dialog is created by a request that read no ban, while the ban commits and
  finds no dialog to freeze (`docs/API_CONTRACT.md:3162`).
* A message passes the frozen check, the dialog is frozen, the message is
  inserted (`docs/SCHEMA.md:1028`).
* Two bans, one in each direction, are lifted at once; each sees the other and
  leaves the dialog of the two frozen (`docs/SCHEMA.md:342`).

Attachments (`AttachmentLife`):

* A discard decides on an unlocked read; the message that binds the attachment
  meanwhile loses it (`services.py:162`, `docs/API_CONTRACT.md:2207`).
* The object is removed by a signal inside the transaction. A discard whose
  commit fails on the binding a message has just written, or any deletion that is
  rolled back, leaves a row without its object
  (`docs/ARCHITECTURE.md:107`: both "MUST" go).
* A message posted while its room is being deleted leaves an attachment whose
  room is gone (`docs/API_CONTRACT.md:1216`: "MUST permanently delete all room
  attachments").
* A worker that dies between storing the object and inserting the row leaves an
  object no row names; no document promises otherwise.

Storage migration (`Migration`):

* A truncated object that could not be removed, or was left by a kill between the
  upload and the comparison of sizes, is skipped as existing by every later run
  and hides the whole local file from downloads (`backfill...py:49`).
* A deletion rolled back after both stores were emptied leaves a row without a
  file.
* A backfill that overtakes a deletion puts an object back whose row then goes.

Sessions (`Sessions`):

* The middleware of a request that overlaps a revocation lists the session as
  valid again although its row is gone (`middleware.py:15`).
* The row of a session that has expired is not found by a revocation and stays;
  the WebSocket handshake does not look at its expiry date (`consumers.py:404`).
* `change_password` compares with the user loaded when the request began, so of
  two changes at once the later one succeeds with the password the earlier has
  replaced (`accounts/services.py:213`).
* A session revoked while its own `change_password` is under way lives on under
  the new key.
* The records of the other sessions stay listed after a password change, although
  their rows authenticate nobody.
* A worker that dies between the record and the row of a revocation leaves a
  session that works and is not listed.
* A further reset token issued earlier stays usable after another one was used.
* `delete_account` logs the user out first and may then be refused by a row that
  restricts deletion; the account stays.

Read states (`Timeline`):

* A message inserted before and committed after the message a reader marks is
  never unread (`chat/services.py:829`). Two overlapping marks that commit in the
  wrong order move the mark back, and what was read counts as unread again.
* Offset cursors skip messages after deletions and repeat them after insertions.

Web client (`ChatClient`):

* Answers to a send, an edit or "load older" are put into the list without
  comparing the chat they belong to with the active one (`App.tsx:1215`, `:1239`,
  `:1286`).
* A failed load leaves the list of the previous chat under the new title.
* A created event that is older than the page puts a deleted message back.
* A message posted between the page and the subscription is missing until the next
  load; a closed socket is not opened again while the profile stays.
* Leaving a chat while it loads leaves `messagesLoading` set until another chat
  has been loaded.

## 6. Not modelled

Deadlocks PostgreSQL resolves by aborting a request (the state afterwards is that
of the other request alone); validation and formatting; audit rows; the SQL
presence mode; the typing indicators, which no view, handler or client calls; the
parity checks, which read two stores and log; migrations and the schema reset of
`startup.py`. `PROJECT.json` gives the reason for each component.

Abstracted: an attachment has one size; the legacy store has files from before
the move only; a chat has one reader of interest; the client has one request and
one refresh of the user in flight.

## 7. Plan

The project keeps to a dozen runs: one for what holds at any overlap (and, by
history variables, until the first one) per component, and one for a promise the
code does not keep, which shows that the assumption of a theorem is needed.

1. Done: all components with state of their own but the typing indicators, each with its
   run; proofs of every safety property of every run, and of three abstract
   specifications (`RoomAccess`, `PairAccess`, `SessionLife`).
2. Left to model: the order in which two acceptances lock the room and the users, which
   needs a model of PostgreSQL's lock queues. The other hazards without a property are
   overlaps nothing in the code prevents: they are reached by the runs and described in
   section 5.
3. Left to prove: an abstract file (readable, gone) refined by `AttachmentStorage`, which
   would restate `ContentSurvives` as steps.
