# Formal models of amica

amica is a messenger: a Django application served over HTTP (REST) and
WebSockets (Channels), with PostgreSQL, Redis as the channel layer, Celery
workers and files on disk. This directory holds TLA+ modules that model its
concurrent core, TLC configurations that check them on small instances, and
proofs that TLAPS checks for every instance.

## How the program runs

Several web processes and threads serve requests. `ATOMIC_REQUESTS` is off, the
database runs at READ COMMITTED and every ORM call commits on its own, unless the
code opens `transaction.atomic()`. So a request handler is a *sequence* of
steps, other requests run between any two of them, and what a handler has read
may be stale when it acts on it. A WebSocket connection is served by one
consumer object, which handles one message at a time and keeps state of its own
(caches, batches, groups); tasks it starts run on the same event loop and
interleave where they await. A process may die between two commits.

That is how the modules are built: `pc[p]` is the statement process `p` is about
to run, `req[p]` holds the local variables of its handler, one action is what
commits (or is read) at once, and a block under `select_for_update` is one action.

## Inventory

| Component (source) | State | Operations | What is hard | Correct when |
| --- | --- | --- | --- | --- |
| Chat membership and roles (`ws/consumers/app_consumer.py`, `apps/Site/views.py`, `apps/Site/services/`) | `Chat`, `ChatMember` rows; per-connection `chat_users_cache` | create, join, leave, add, remove, set role, delete | check-then-act across commits; stale cache; joins, or a crash, between the chat and its owner | a channel never has two owners and keeps the one it has; only the owner demotes; a promotion hits the membership that was looked at; an emptied chat goes away |
| Posting (same, `ws_sender.py`) | `Message` rows, fan-out | post over WebSocket and REST | admission and fan-out on different, possibly stale lists | strangers neither post nor read; channels stay read-only for subscribers |
| Device-login confirmation (`apps/accounts/device_trust.py`, `login_gate.py`, `views.py`, `tasks.py`) | `DeviceLoginChallenge` rows, Celery queue, event group | login, deliver, submit, resend, allow/deny, poll, subscribe | unlocked read-modify-write next to locked blocks; expiry in mid-request; concurrent logins and polls | one session per challenge; a refusal holds; guesses are bounded |
| Acknowledging upload parts (`app_consumer.py`) | batch, flush task | frame, save, flush, disconnect | handler and task share the batch across awaits | each saved part is acknowledged exactly once |
| Chunked uploads (`apps/Site/message_chunk_upload_views.py`) | session directories, parts, `_merged.bin`, stored files | init, part, bundle | thread pool, files without locks, partial failure | a message has whole files; a session is used once unless its merges overlap |
| Sessions (`accounts/views.py`, `services/sessions.py`, `ws/consumers/base_consumer.py`, `ws/middleware/`) | refresh tokens, `ActiveSession` rows, cookies, connections | issue, refresh, revoke, log out, set lifetime, connect, daily tasks | a session is replaced in two commits; whole-row saves of stale rows; cookies lost with an answer | what was ended stays ended; a login keeps one session |
| One-time codes (`verify_email_otp`, `backup_codes.py`, `recovery_service.py`, `totp_service.py`, passkeys) | code rows, attempts, TOTP secret, challenges | issue, verify, set up, confirm, disable | unlocked counting and consuming; a secret replaced while it is confirmed | a proof is accepted once; TOTP in force was confirmed |
| Messages (`app_consumer.py`, `views.py`, `models.py`, `signals.py`, `tasks/purge_deleted_messages.py`) | `Message`, `MessageRecipient`, `MessageReaction`, read marks | post, edit, delete, update, purge, react, view | full saves of stale rows; a purge between a read and a save; reactions counted and made in separate commits | deleted stays deleted; everybody in the chat has a recipient's row; reactions are limited |
| History of a chat (`get_chat_service.py`, `GetMessagesAPIView`) | none: a cursor of the client | older, newer, next page | messages come and go between pages; cursors are ids, the order is by date | who reads to the end has seen everything |
| Stored videos (`tasks/compress_video_task.py`, `utils/message_media.py`) | storage, `VideoFile`, `DisplayVideo` rows, queue | upload, compress, retry, remove | the original is removed before the row is saved; names are freed and taken again | a row that is there has its film |
| Pictures of a profile (`media_files/models`, `views`, `serializers`) | `DisplayPhoto`, `DisplayVideo`, `is_primary` | create, set primary, destroy | a chain of saves, each with its own queries; a task saves the row too | one primary picture, the one last chosen |
| Chat lists, search, counts, serializers, thumbnails, admin, contacts, wallpapers | – | – | – | not modelled, see below |

How they interact: login produces sessions, sessions authenticate connections and
requests; membership decides who may post and who is sent events; uploads end in a
message; a message's video is compressed in the background, and removed with it.
`OneTimeCodes` is composed with `Sessions`, `Messages` with `MediaFiles`, and
`ChatPosting` with `ChatMembership`: each pair shares its processes, so that every
request of one may be interleaved with every request of the other.

`PROJECT.json` lists under `hazards` what in this code is hard to test, each at
its line, with the properties that watch it or the reason none does yet.

## Plan

Done: 1. membership and roles, their atomic specification, posting; 2. device
login and its life cycle; 3. acknowledgements; 4. `ChunkUpload`; 5. `Sessions`;
6. `OneTimeCodes`, on top of it; 7. `MediaFiles` and `Messages`, on top of it; and
theorems about all of them: 8. `DeviceLogin` implements `ChallengeLifecycle`, and its
bounds; 9. sessions and codes for any devices, requests and budgets; 10. posting,
from the membership model; 11. `ChunkUpload` for any uploads, parts and bundles; 12.
messages, paging, videos and pictures. Every safety property that a passing run checks
is now a theorem; liveness stays with TLC.

Runs are kept small enough to finish within a few minutes on two cores.

## Modules

### ChatMembership, ChatRoles

`ChatMembership` models group and channel chats. `kind` and `role` are the tables;
`rows[c][u]` tells one membership of a user from the next, because the code saves
and deletes rows by the primary key it read; `cache` is each connection's
`chat_users_cache`, filled by `get_chat_user_ids` and dropped only by the
connection's own operations. Each handler is split at its commits:

* create: `CreateChat` (Chat row), `CreateOwner` (owner's row), `CreatePrime` (the
  creator's list, taken to be the creator alone);
* add: `AddCheck`, `AddCommit` (one transaction), `Broadcast`;
* remove: `RemoveReadActor`, `RemoveReadTarget` (the decision, `MayRemove`),
  `RemoveDelete`, `RemoveCount`, `RemoveDissolve`;
* set role: `SetRoleReadActor`, `SetRoleReadTarget` (`MaySetRole`), `SetRoleWrite`;
* delete: `DeleteChatCheck` (cached membership), `DeleteChatVerify`, `DeleteChatCommit`;
* join: `JoinGet`, `JoinInsert`; leave: `LeaveRead`, `LeaveDelete`, `LeaveCount`,
  `LeaveDissolve`;
* the environment: `Reconnect` (a new consumer, empty cache), `Crash`.

Dialogs are left out: their membership does not change. Names, pictures and the
payloads of events are abstracted.

`search_groups` offers a chat as soon as its `Chat` row is committed, and
`JoinGroupView` does not ask for an owner, so `JoinGet` lets people in before the
owner's row: others, and the creator too, in another tab. What follows from it is in
the model. The row of a creator who is in already is refused, and the chat stays
without an owner; a creator's list, primed when others have come in, lacks them.
`contested` has the chats whose owner's row came in while a removal of an earlier row
of the creator was pending (the creator, as a subscriber, leaves over the WebSocket of
another tab, and over REST as well): `RemoveDelete` goes by chat and user, so it takes
the new row, and the channel loses its owner. The properties of channels that this
makes false leave out the contested ones, and nothing else.

`ChatRoles` says what these operations promise, one at a time: a chat is created,
founded by its owner, entered, left, and ends; in a channel the owner never
departs, and roles change only under an owner, unless the chat is contested.
`RolesMoveAtomically` states that `ChatMembership` implements it (same `kind`, `role`,
`rows` and `contested`, no mapping needed).

### ChatPosting

Extends `ChatMembership` with posting over a WebSocket (`PostCheckWs`: cached
list) and REST (`PostCheckHttp`: rows), the permission (`PostPermit`), the row
(`PostCreate`) and the fan-out (`PostSendWs`: cached list; `PostSendHttp`: rows). The
WebSocket's fan-out looks the chat up for each recipient, so if it is gone nobody is
sent anything, the author neither (`SendUnlessGone`).
`everMember` and `everManager` are history variables: since every check is made
before the row, the most the code can promise is about who *has been* a member or
manager.

### DeviceLogin, ChallengeLifecycle

`DeviceLogin` models one account: the gate at login (`LoginGate` to
`QueueDelivery`, with `create_device_challenge` as the two commits `Supersede` and
`InsertChallenge`), the Celery task (`Deliver`), the trusted device's decision,
and the new device's submit, resend, poll and subscription. Handlers begin with
`ReadRow`, an unlocked read; `SaveStatus` overwrites the row whatever it says by
now, and fails if it is gone; `Locked` and `PollLock` are the blocks under
`select_for_update`, which filter again on the status. `expired` grows on its own.
A handler's look at the clock is folded into the step that acts on it, which loses
no behaviour because expiry is final (see the module's header). The code itself
is abstracted to whether the user has been shown it (`revealed`).

`ChallengeLifecycle` is the promise: opened once, approved while open, used up by
one session, dead for good once denied, expired or superseded.
`ChallengesLiveOnce` is the refinement, with `issuing` mapped to the polls between
the deletion and `remember_session`.

### ChunkAck

One connection's batch of acknowledgements: `ReceivePart` (the part is handed to a
thread), `PartSaved` or `PartRefused`, `Wake` (the delayed task), `Sent`
(`send_json` returns), `Disconnect`. Handler and tasks run on one event loop, so
what lies between two awaits is one action. The branch of `Wake` for an empty
batch mirrors lines 130-134 of `app_consumer.py`; `BatchHasTimer` shows that it is
never taken.

### ChunkUpload

One user's upload sessions in one chat, on a disk that nobody locks. A session is a
directory (`dir`) with a file per part (`part`) and, during a merge, `_merged.bin`.
`name` says which file has that name, `inode` what is in each file, part by part: a
merge job goes on writing to the file it opened (`fd`, `offset`) when another job has
emptied or removed it. `PartOpen` and `PartWrite` are `chunk_part_service`;
`BundleBegin` the checks of `chunk_bundle_complete_service` and the submission of its
jobs; `JobOpen` to `JobRmtree` are `_merge_session_to_storage`, file operation by file
operation; `BundleJoin`, `MessageCreate`, `Attach` and `BundleOk` what follows.
`BundleRaises` and `JobSaveRaises` are exceptions the code catches, `CrashBundle` and
`CrashPart` the death of a process. A save that raises may leave the beginning of the
file in the storage ("cut"), and a deletion that fails is swallowed by `Discard`,
whose file then stays; both are on record in `botched`. Parts are taken to be equally
long and a client to send the same bytes when it sends a part again; media types are
left out. An upload id is a UUID the client learns after the directory exists. The
model meets `ChunkAck` at `PartWrite`: what it saves is what `PartSaved` acknowledges
there.

`disturbed` is a history of the jobs during which somebody else wrote to their
session. The properties are about what holds in spite of it, or without it:

* without locks, two bundles that merge one upload at the same time can both post
  it, and either file can be broken: each has read, or emptied, what the other wrote.
  `UsedOnceUnlessOverlapped` and `WholeUnlessDisturbed` say that this is the only way.
* the sum of the sizes is looked up before the bytes are copied, so it catches what
  a crash cut off earlier but not what is being sent again just then.
* an answer of 400 leaves no stored file behind (`NoStrayFiles`), except when one
  bundle names an upload twice: `merged_by_uid` then keeps one of the two files; and
  except for a file the storage itself failed to save or to delete (`botched`), of
  which the code keeps no note. An
  answer of 500 may leave a message with some of its files, and the sessions gone.

### Sessions

One account. `issued` numbers the refresh tokens as they are made, with the device,
the login and the line of tokens each replaced; `rows` and `lapsed` are the table
of `ActiveSession`, `black` and `dead` the blacklist and the tokens past their own
`exp`; `cookie`, `access` and `conn` are what the clients hold. A login ends in
`Issue` and `Answer`; `Refresh`, `RefreshDelete`, `RefreshInsert` are the rotation
(`remember_session`), whose answer may be lost. Sessions are ended by `RevokeWs`,
`RevokeRest`, `RevokeOthersWs` (`RevokeGet` or `RevokeList`, then `RevokeBlacklist`
and `RevokeDelete` for each), `KillOthers` (`KillRead`, `KillBlacklist`,
`KillDelete`) and `Logout`. `LifetimeSave` saves whole rows that were read earlier
and so may insert one again. `ConnectByCookie`, `ConnectByToken`, `AuthUpgrade`,
`RefreshAccess`, `MessageRefused` and `TouchFails` are what admits a connection and
ends it. `Lapse`, `TokenExpires`, `AccessExpires`, `Flush` and `CleanBlacklist` are
the clock and the daily tasks.

Two histories say what the code cannot promise. `ended` has a session only if no
request had read its row when it was deleted (`Held`) and it had not been replaced:
else a refresh or a change of lifetime brings it back, which is the hazard at
`sessions.py:77`. `excused` has the logins that lost an answer, were ended, lapsed,
were overtaken by another login of their device, or ran two requests at once: two
refreshes with one cookie make two sessions (`accounts/views.py:258`).

### OneTimeCodes

Extends `Sessions` with how an account proves who it is: the e-mail code
(`VerifyRead`, then `VerifyWrong` or `VerifyConsume` and `VerifySave`), a login with
its second factor (`Login`, `GoogleLogin`, `FactorNone`, `FactorTotp`, `FactorBackup`,
`FactorRefused`, and `Gate`, which lets in a device with a live session and defers any
other, to a code shown to the devices with a session or, if there is none, mailed:
`DeviceLogin` has how it is confirmed, `Confirmed` that it was; the code of the signup
has no gate, see `Passed`), passkeys, and TOTP with its backup codes from set-up to
disabling. A right TOTP code may be used twice within its step; only backup codes, the
e-mail code and a passkey's challenge are for one use. `together` has the proofs two
requests held at once, `raced` says that a TOTP secret was replaced between the
reading and the saving of a confirmation.

### MediaFiles

`disk` is the storage, a set of files with their names and the film they show; a
name is the directory, the name the user chose and the suffix `get_available_name`
adds when it is taken. `Take` to `Record` are the compression: `Encode` reads what
is stored under the name by then, `Drop` removes it, `Store` takes a name that is
free at that moment, `Record` saves the row, for a `DisplayVideo` without the name.
`TaskFails` is a time limit, a refusing storage or a database error at any of these
steps, the save of the row included, followed by a retry; `Skip` a file that is not
there. The
pictures of a profile share one action for each statement of `DisplayMedia.save`:
`SaveRow`, `Ensure`, `Unset`, `SaveFlag`, repeated for each save a request, a signal
or a task makes (`rounds`).

Excused: `hurt` has the videos a fault or a crash left without a file, or with one
under a name their row does not have (`Bereft`), a clip that was stored
under another name than its row keeps (after midnight, or because the name was
taken), videos whose film was removed for another one that had their name
before, and clips of which a second compression found another one's film under their
name. The last takes a clip that is destroyed and inserted again by `set_primary`
while its first compression runs, and an upload in between: more requests at once
than the runs have room for. The attempt to prove `VideoKeepsFile` found it: both
compressions hold the name in the row, and the second reads whatever took that name
when the first had removed the original. `mixed` says that two requests for pictures
overlapped, or one and a task that had read what it was changing.

### Messages

Extends `MediaFiles` with the messages of a chat. A message is posted by `PostWs`,
`PostRest` or `PostVideo`, which take the date, `Insert`, which gives the id,
`Recipients` (the signal), `PostFile`, `PostRow`, `PostAttach`, and for the viewset
once more `FullSave`. `EditRead`, `DeleteRead`, `UpdateRead` and `DestroyRead` read a
row; `EditSave` and `DeleteSave` write some columns and fail if it is gone, `FullSave`
writes all as they were read, and inserts the row again. `PurgeList` and `PurgeBatch`
are the purge that runs every 15 minutes, batch by batch; `PurgeFails` rolls the rows
back but not the files. `ReactFind` to `ReactCreate` are `set_user_reaction`; `View`
the read mark. `OlderPage`, `NewerPage` and `MessagesPage` answer a client that pages
through the history while all this goes on.

`fate` is "erased" if nobody held a live copy of the whole row when it was deleted,
else "disputed": the save of that copy undoes the deletion. This can happen with an
update that was begun earlier and with the viewset's own `create`, which saves the
row again after it has attached the files. `overlapped` has the messages to which
one user's requests reacted at once (each counts before the other inserts), `cut`
those whose request died before it made their recipients.

## Runs

| Run | Module, instance | Shows |
| --- | --- | --- |
| `chat_channel` | `MCChatMembership`: three users, two WebSocket connections, a worker thread, one channel, two memberships for the subscriber, one crash | governance of channels: never two owners, demotions are the owner's, promotions hit the row that was looked at |
| `chat_tabs` | `MCChatMembership`, `MCChatTabs.cfg`: two users, either of whom may come back, two connections of the creator, a worker, one group or channel, all operations | the inductive invariant and the refinement of `ChatRoles`, contested chats included; the owner stays; whoever empties a chat is about to delete it; a connection's own operations leave its member list right |
| `chat_posting` | `MCChatPosting`: two users, two connections, a worker, groups and channels, one post; nobody leaves over REST | posts and membership together; that an emptied chat goes away in the end |
| `device_login` | `MCDeviceLogin`: two challenges, of which one goes on after it was made, two devices, two requests in flight, one attempt allowed, one crash | the life of a challenge under concurrent handlers |
| `chunk_ack` | `ChunkAck`: batches of 3, six frames | each saved part acknowledged exactly once |
| `chunk_upload` | `MCChunkUpload`: two uploads of one part, one bundle of both (or of one twice) beside a bundle of one, two faults | what an answer says of the stored files |
| `chunk_retries` | `MCChunkUpload`, `MCChunkParts.cfg`: one upload of two parts, two bundles of it, two faults | when an attachment can be broken and an upload used twice |
| `account` | `MCAccount`: two devices, two requests in flight, eight families of requests | ended sessions stay ended, a login keeps one session, a proof is accepted once, TOTP in force was confirmed |
| `content` | `MCMessages`: two videos of one name, a photo, two clips, two processes, nine families of requests | deleted messages stay deleted, rows are well formed, videos keep their film, one primary picture, complete histories |
| `history_scroll` | `MCMessages`, `HistoryScroll.cfg`: two messages, one client | *violated*: a message is on no page (`ScrollSeesAll`) |
| `chat_stale_cache` | `MCChatPosting` | *violated*: a removed user is still let through to post (`NonMembersAreRefused`) |
| `chat_leave` | `MCChatMembership`, groups, two workers | *violated*: leaving takes away somebody else's new membership (`LeavingTakesOnlyTheLeaver`) |

Bounds. Two processes are enough for every race of the code between a check and the
act on it; the third user in `chat_channel` is the one who is promoted, removed and
comes back (`MaxRows` 2). In `chat_tabs` both connections are the creator's, so that
one tab creates while the other removes what was joined before; the two are symmetric.
`chat_posting` has no `leave`, which would take it out of the five minutes
(`chat_tabs` has it, with `EmptyChatHasReaper`). One channel suffices: no operation
touches two. One crash reaches every point of every handler. In `device_login` the
second challenge is there to supersede, and be superseded by, the first; `Followed`
keeps it from being submitted and polled as well. `CodeMaxAttempts` 1 makes the limit
bite at once. Two batches of three show the flush by size and by time, before, after
and during each other. In the upload runs two jobs on one session are enough for each
race on `_merged.bin`, two faults for a merge that fails and a deletion that the
storage then refuses, two parts for bytes that end up at the wrong place, and one part
thread for a part that is sent again; with two uploads one part each is enough, since
what a bundle does with its jobs' results does not depend on the parts.

`account` and `content` bound every sort of request by `left`, and a behaviour
begins with one of the `Budgets` of the MC module. Since a login waits for a
confirmation unless its device has a session, the first session comes from the code of
the signup or from a confirmed login. Each family brings together the
requests that touch the same rows: all of them at once would add only requests that
leave each other alone. Two processes are two requests in flight, and what a family
leaves room for is long enough to run two more after them. `MaxAttempts` and
`MaxRetries` are 1, so that their limits are met; `MaxReactions` is 2 and there are
three kinds, so that a reaction is dropped; a page has one message, so that every
message is a cursor. Whether the chat is a channel varies in the family that reads
the history: nothing else of these modules depends on it but who may react over a
WebSocket. Processes, videos, clips and
kinds are symmetric: no definition tells two of them apart.

A bundle that was answered, and a connection that was closed, stop:
`chunk_ack` and the upload runs have no deadlock check, and neither have
`account`, `content` and `history_scroll`, where the requests run out.

Fairness. `EmptyChatsVanish` assumes that a request that has begun is run to its
end (weak fairness of each process's continuation) and nothing of clients;
`SavedIsAcked` assumes that the event loop runs ready callbacks and that the
thread saving a part returns. Liveness is only checked where no process dies.
Sessions, codes, media and messages have no liveness property: their requests are
straight lines that end, and a task that is lost with its worker is not run again.

## Findings

* **A stale member list lets a removed user post.** `user_in_chat` trusts
  `chat_users_cache`, which only the connection's own operations invalidate.
* **Leaving may delete a chat somebody has just joined.** `LeaveGroupView` counts
  who remains and deletes the chat in separate commits.

* **Paging through a chat may skip a message.** `get_chat_for_user` cuts pages off
  by id and fills them by date; two messages posted at once may have ids and dates
  in opposite orders, and the one with the earlier date is then beyond the cursor.

Each is a run with `expect: violation`; `chat_posting` shows what still holds in
spite of the first, `content` (`ScrollSeesAllInOrder`) in spite of the last.

## Proofs

What the runs check on small instances, TLAPS proves for every value of the
constants. The proofs are in modules of their own, one for each component:

| Module | About | Properties proved |
| --- | --- | --- |
| `ChatMembershipProofs` | `ChatMembership`, `ChatRoles` | `TypeOK`, `Governance`, `ChannelGoverned`, `EmptyChatHasReaper`, the refinement, and the four action properties |
| `ChatPostingProofs` | `ChatPosting` | `PostsStayAmongMembers`, `ChannelsStayReadOnly`, `WsAuthorHearsBack` |
| `DeviceLoginProofs` | `DeviceLogin`, `ChallengeLifecycle` | all five invariants, and the refinement |
| `ChunkAckProofs` | `ChunkAck` | all its invariants |
| `ChunkUploadProofs` | `ChunkUpload` | all five invariants |
| `AccountProofs` | `Sessions`, `OneTimeCodes` | all five invariants |
| `MessagesProofs` | `Messages` | `DeletedStaysDeleted`, `WellFormed`, `ScrollSeesAllInOrder` |
| `MediaFilesProofs` | `MediaFiles` (with `Messages`) | `VideoKeepsFile`, `PrimaryIsLastChosen` |

Each proof has one lemma per action (or per shape of action), and the theorem
combines them. None of the properties is inductive as it stands; every inductive
invariant below was checked by TLC on the component's runs before it was proved.

**Membership** (`GovernanceHolds`, `OneOwner`, `RolesRefine`, `OwnerStays`,
`OwnersDemote`, `PromotionsHitTheirRow`, `OwnStepsKeepFresh`). A channel that has
managers has exactly one owner. A step that deletes or writes a row was decided on
earlier reads; `Governance` adds what those reads still guarantee: `OwnerSpared` (a
pending deletion or role change does not hit an owner), `SettersBacked` (a pending
role change has an owner behind it), `FounderAlone` (until the owner's row is in
nobody is in charge and one creator is at work, whoever has come in), `RowsCounted`
(what was read is a row there has been), and that untouched and deleted chats have no
rows. Nothing is assumed of when people join. Where a removal of the creator's earlier
row is pending when the owner's comes in, `contested` says so, and the parts that
would be false are not claimed of that chat. Every step of the interleaved handlers is
then a step of `ChatRoles` or changes nothing there. A connection drops its list of a
chat, or fills it with the members, in the very step in which its request changes
them; who removed the last member has dropped it before (`ListDropped`); the list a
creator is given is right if the creator is alone. `TypeCorrect` and
`EmptyChatsAreReaped` rest on less: whoever deletes a row goes on to count, and who
counts nobody goes on to dissolve, so a chat can only be empty while one of them is
under way.

**Posting** (`PostInvHolds` and its consequences). `PostInv` says that the histories
cover the rows and every cached list, that a handler past its check posts for
somebody they cover, and that a connection's poster is on the connection's cached
list from the check to the sending: only the connection's own operations change that
list, and it handles one frame at a time. So the author hears back, or finds the chat
gone. Membership steps matter only by what they
do to rows and lists, which is one lemma for all of them.

**Device login** (`InvHolds` and its consequences, `LifecycleRefined`). `RequestsSound`
says what a handler may still rely on of the row it read: without the lock nothing but
what never changes back (a terminal status, the deletion), under the lock the status.
`RowsSound` says that rows and histories agree: a challenge with a session has no row,
one that was denied is not approved, wrong guesses are what the row counted. In the
refinement most steps change no challenge or let some die; the others are the five
steps of `ChallengeLifecycle`. `IdleAssumption` says that "none" names no challenge
and no device; that there is a limit on attempts is all that is assumed of it.

**Acknowledgements** (`AccountingHolds` and its consequences). `Accounting` says where
each acknowledgement is (waiting, being sent by one sender, or sent), and that who
sends is free to.

**Uploads** (`UploadsHold` and its consequences). The invariant has six parts.
`Shaped` places each job at a part there is. `Stored` says which places have a file in
the storage; `Answered` that a request keeps merged files, one for each upload it
names, or has deleted them. `Apart` is the argument about overlaps: two jobs on one
upload that are at work or have merged it are both disturbed, because a bundle that
begins finds the directory, which whoever merged it has removed, and marks all it
meets. `Owned` says that files stay with the upload they were created for, so jobs on
other uploads cannot write to them, and `Whole` follows an undisturbed job: what it
has passed is in its file, part by part, if the sizes add up. Lists that name an
upload twice are covered, and so are saves and deletions that the storage refuses: what
they leave is `botched`. Assumes a part at least per upload and lists that are not
empty.

**Sessions and codes** (`AccountProofs`). `Typed` types the local variables of requests
label by label. `EndedStaysDown`: nothing in the table, nor in a request that may put
it there (`Held`), has an ended session in its line of tokens. `TotpWasConfirmed`: a
confirmation that was not raced has read the secret in force. `ProofsAcceptedOnce`:
two holders of one proof are on record as such, and a challenge that is spent but
still in a Django session is on record or still held. `LoginHasOneSession` is the
longest: for a login that is not excused, `Stands` says which row and which cookie it
has at each statement of its only request. A step is local to one login, so for every
other login what was true stays true (`OneRowStays`), and for its own one lemma per
statement shows how it moves (`OneRowMoves`). Assumes that budgets are natural numbers
and that "none" is no device.

**Messages** (`MessagesProofs`). `Typed` is the type invariant under everything about
messages and media: `Fits` says, label by label, what a request's locals are. Then:

* `ErasedStayErased`: a request may hold a live copy of a row; `Buried` adds that nobody
  holds one of an erased message: a copy read after the deletion is not live, and one
  read before makes the deletion disputed. `Shaped` and `SavedByRest` say that what is
  saved whole was read by the viewset.
* `MessagesWellFormed`: `RoomToReact` says that a message that is not `overlapped` has
  one request reacting to it at most, so that who is about to add a reaction has seen
  that there is room; `Delivered` that a message without recipients is being given
  them, or lost its request.
* `PagingSeesAll`: what a client that pages through the chat is owed and has not got
  lies ahead of its cursor (`OwedAhead`), and would be shown to it (`OwedShown`).
  A page that is not full has all there is ahead. A full one leaves out only what comes
  later by date, hence by id if ids follow dates; that a page can be cut off so is
  because a finite order has a first element, for which the proof cites the library's
  theorems on well-founded orders.

**Videos and pictures** (`MediaFilesProofs`, on the same types). `OneAtWork` says who
can be at work on a video: its own upload alone until it has a row, then one task at a
time. With it:

* `VideosKeepTheirFiles`: `FilmKept` excuses only a video whose own compression is past
  `Drop` and has not named the result yet, and one that a fault or a crash stopped there
is hurt; `OwnFilm` says that such a compression holds
  the film of its video, and that what was stored stays under its name. A step can
  only disturb the videos whose file it removes, and those have no row any more or are
  added to `hurt`.
* `PrimaryFollowsChoice`: unless requests got `mixed`, one request for pictures is at
  work at a time, and `PrimInv` says for each statement it may be at which pictures are
  primary by then; a task that will save a picture has its flag as it is in the table.

Both assume that no video of a message is a picture of a profile and no photo a clip
(`KindsAssumption`), that "none" is no file (`NobodyAssumption`), that there is a name
to upload under (`NamesAssumption`), and, of limits and budgets, that they are natural
numbers; a page has room for a message and a message for a reaction.

Only model-checked: liveness (`EmptyChatsVanish`, `SavedIsAcked`), which is beyond the
prover. The three violated properties are TLC's as well.

## Not modelled

* Dialogs: `get_or_create_direct_chat` can make two for the same users at once, but
  nothing promises there is one, and no constraint says so. Dialogs' members do not
  change.
* `group_renamed` is sent to consumers without such a handler: a missing method that
  any rename shows, not an order of steps.
* Lists of chats, search and counts: one query each, no state of their own.
* Serializers, admin, settings, mails, the text of messages, replies, forwarding,
  addresses and user agents: formatting and data no property tells apart.
* Thumbnails, waveforms and metadata of media: tasks around image and audio libraries
  that save columns nothing else writes, never the file.
* Contacts, profiles, wallpapers: single-row edits of one user's own data.
* `MessageRecipient.deleted_at`, which is read but which nothing sets; the view that
  serves protected files, which only reads.

## Reading the modules

A definition named `MutX` precedes `X` and is a faulty variant of it; no
specification uses it. Replacing `X` by `MutX` breaks the property that
`PROJECT.json` pairs it with, which shows that the property depends on that code.
