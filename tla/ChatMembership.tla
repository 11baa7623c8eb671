---------------------------- MODULE ChatMembership ----------------------------
(***************************************************************************)
(* Membership and roles of group and channel chats.                        *)
(*                                                                         *)
(* The rows of ChatMember live in PostgreSQL and every ORM call commits on *)
(* its own, so a request is a sequence of steps and the requests of        *)
(* different clients interleave between them.  A process is a WebSocket    *)
(* connection (AppConsumer: one user, one message at a time, and a private *)
(* cache of member lists, chat_users_cache) or an HTTP worker thread (the  *)
(* REST views; a request of any user).  pc[p] is the statement process p   *)
(* is about to run and req[p] holds what its handler has in local          *)
(* variables.  A refusal that changes nothing ends the request.            *)
(*                                                                         *)
(* A definition whose name begins with Mut is the faulty form of the one   *)
(* after it: no specification uses it, it shows which property would fail. *)
(***************************************************************************)
EXTENDS Naturals

CONSTANTS
    Users,        \* CustomUser rows
    Chats,        \* ids of Chat rows, used or not
    Conns,        \* WebSocket connections
    Workers,      \* HTTP worker threads
    UserOf,       \* the user authenticated on each connection
    Verbs,        \* the operations clients use in a run
    MaxRows,      \* bound: ChatMember rows created per chat and user
    MaxCrashes    \* bound: processes that die in mid-request

Procs == Conns \cup Workers
AllVerbs == {"create_group", "create_channel", "add", "remove", "set_role",
             "delete_chat", "join", "leave", "post_ws", "post_http"}

ASSUME UserOfAssumption == UserOf \in [Conns -> Users]
ASSUME ProcsAssumption == Conns \cap Workers = {}
ASSUME VerbsAssumption == Verbs \subseteq AllVerbs
ASSUME BoundsAssumption == MaxRows \in [Users -> Nat] /\ MaxCrashes \in Nat

VARIABLES
    kind,     \* kind[c]: "unused", "group", "channel" or "deleted"
    role,     \* role[c][u]: the role in u's ChatMember row, "none" without a row
    rows,     \* rows[c][u]: how many rows (c, u) has had; the last is the current one
    cache,    \* cache[k][c]: chat_users_cache of connection k
    pc,       \* pc[p]: the next statement of p's handler, "idle" between requests
    req,      \* req[p]: the local variables of p's handler
    crashes,  \* how many processes have died in mid-request
    contested \* history: the chats whose creator's owner row came in while a request had
              \* yet to delete, by chat and user, an earlier row of the creator's

vars == <<kind, role, rows, cache, pc, req, crashes, contested>>

Kinds == {"group", "channel"}
Roles == {"owner", "admin", "member", "subscriber"}
Managers == {"owner", "admin"}

Labels == {"idle", "create_owner", "create_prime", "add_commit", "broadcast",
           "remove_target", "remove_delete", "remove_count", "remove_dissolve",
           "set_target", "set_write", "delete_verify", "delete_commit",
           "join_insert", "leave_delete", "leave_count", "leave_dissolve",
           "post_permit", "post_create", "post_send"}   \* these three: ChatPosting

Request == [user : Users, chat : Chats, target : Users,
            grant : {"admin", "subscriber"}, batch : SUBSET Users,
            actorRole : Roles \cup {"none"}, row : Nat]

\* The locals of a handler that has read nothing yet.
Ask(u, c) == [user |-> u, chat |-> c, target |-> u, grant |-> "subscriber",
              batch |-> {}, actorRole |-> "none", row |-> 0]

NoRequest == [user |-> "nobody"]

\* An entry of chat_users_cache: a list of user ids, or none.
Cached(S) == [hit |-> TRUE, ids |-> S]
Uncached == [hit |-> FALSE, ids |-> {}]

Exists(c) == kind[c] \in Kinds
Members(c) == {u \in Users : role[c][u] # "none"}
MutDefaultRole(c) == kind[c]
DefaultRole(c) == IF kind[c] = "group" THEN "member" ELSE "subscriber"

TypeOK ==
    /\ kind \in [Chats -> Kinds \cup {"unused", "deleted"}]
    /\ role \in [Chats -> [Users -> Roles \cup {"none"}]]
    /\ rows \in [Chats -> [Users -> Nat]]
    /\ cache \in [Conns -> [Chats -> [hit : BOOLEAN, ids : SUBSET Users]]]
    /\ pc \in [Procs -> Labels]
    /\ req \in [Procs -> Request \cup {NoRequest}]
    /\ \A p \in Procs : pc[p] # "idle" => req[p] \in Request
    /\ crashes \in Nat
    /\ contested \subseteq Chats

Init ==
    /\ kind = [c \in Chats |-> "unused"]
    /\ role = [c \in Chats |-> [u \in Users |-> "none"]]
    /\ rows = [c \in Chats |-> [u \in Users |-> 0]]
    /\ cache = [k \in Conns |-> [c \in Chats |-> Uncached]]
    /\ pc = [p \in Procs |-> "idle"]
    /\ req = [p \in Procs |-> NoRequest]
    /\ crashes = 0
    /\ contested = {}

-----------------------------------------------------------------------------
(* What the steps of the handlers are made of.                             *)

Begin(p, verb, label, request) ==
    /\ verb \in Verbs
    /\ pc[p] = "idle"
    /\ pc' = [pc EXCEPT ![p] = label]
    /\ req' = [req EXCEPT ![p] = request]

\* On to the next statement, keeping the locals that are still to be used.
Goto(p, label, locals) ==
    /\ pc' = [pc EXCEPT ![p] = label]
    /\ req' = [req EXCEPT ![p] = locals]

Rest(p) == Ask(req[p].user, req[p].chat)

Finish(p) ==
    /\ pc' = [pc EXCEPT ![p] = "idle"]
    /\ req' = [req EXCEPT ![p] = NoRequest]

\* chat_users_cache.pop(chat_id, None)
PopCache(k, c) == cache' = [cache EXCEPT ![k][c] = Uncached]

\* get_chat_user_ids: the cached list, or the rows read now and cached for good.
ChatUserIds(k, c) == IF cache[k][c].hit THEN cache[k][c].ids ELSE Members(c)
CacheUserIds(k, c) == cache' = [cache EXCEPT ![k][c] = Cached(ChatUserIds(k, c))]

\* The list is looked up but nobody looks whether the user is on it.
MutUserInChat(k, c, verb, label) ==
    /\ Exists(c) \/ cache[k][c].hit
    /\ CacheUserIds(k, c)
    /\ Begin(k, verb, label, Ask(UserOf[k], c))
    /\ UNCHANGED <<kind, role, rows, crashes, contested>>

\* user_in_chat, how the handlers of a connection begin: looking a member list up
\* caches it whether or not the user turns out to be on it.
UserInChat(k, c, verb, label) ==
    LET u == UserOf[k] IN
    /\ verb \in Verbs
    /\ pc[k] = "idle"
    /\ Exists(c) \/ cache[k][c].hit
    /\ CacheUserIds(k, c)
    /\ IF u \in ChatUserIds(k, c)
       THEN Begin(k, verb, label, Ask(u, c))
       ELSE UNCHANGED <<pc, req>>
    /\ UNCHANGED <<kind, role, rows, crashes, contested>>

InsertRows(c, S, r) ==
    /\ role' = [role EXCEPT ![c] = [u \in Users |-> IF u \in S THEN r ELSE role[c][u]]]
    /\ rows' = [rows EXCEPT ![c] = [u \in Users |-> IF u \in S THEN rows[c][u] + 1
                                                             ELSE rows[c][u]]]

DeleteRow(c, u) ==
    /\ role' = [role EXCEPT ![c][u] = "none"]
    /\ UNCHANGED rows

\* chat.delete(): the rows go with the chat; deleting a deleted chat does nothing.
DeleteChat(c) ==
    /\ kind' = [kind EXCEPT ![c] = "deleted"]
    /\ role' = [role EXCEPT ![c] = [u \in Users |-> "none"]]
    /\ UNCHANGED rows

RowsLeft(c, S) == \A u \in S : rows[c][u] < MaxRows[u]

-----------------------------------------------------------------------------
(* Creating a group or channel: the Chat row, then the owner's row.        *)

CreateChat(p, u, c, k) ==
    /\ p \in Conns => u = UserOf[p]
    /\ kind[c] = "unused"
    /\ Begin(p, IF k = "group" THEN "create_group" ELSE "create_channel",
             "create_owner", Ask(u, c))
    /\ kind' = [kind EXCEPT ![c] = k]
    /\ UNCHANGED <<role, rows, cache, crashes, contested>>

RemovalPending(c, u) ==
    \E q \in Procs : pc[q] = "remove_delete" /\ req[q].chat = c /\ req[q].target = u

\* The chat can be found and joined before this: the row is refused when the creator
\* has joined meanwhile, or the chat has been left empty and is gone.
CreateOwner(p) ==
    LET c == req[p].chat
        u == req[p].user IN
    /\ pc[p] = "create_owner"
    /\ IF Exists(c) /\ role[c][u] = "none"
       THEN /\ InsertRows(c, {u}, "owner")
            /\ contested' = IF RemovalPending(c, u) THEN contested \cup {c} ELSE contested
            /\ IF p \in Conns THEN Goto(p, "create_prime", Rest(p)) ELSE Finish(p)
       ELSE /\ Finish(p)
            /\ UNCHANGED <<role, rows, contested>>
    /\ UNCHANGED <<kind, cache, crashes>>

\* The consumer takes the creator for the only member, whoever has come in since;
\* reading the chat back fails before that when the chat is gone.
CreatePrime(k) ==
    LET c == req[k].chat IN
    /\ pc[k] = "create_prime"
    /\ \/ cache' = [cache EXCEPT ![k][c] = Cached({req[k].user})]
       \/ ~Exists(c) /\ UNCHANGED cache
    /\ Finish(k)
    /\ UNCHANGED <<kind, role, rows, crashes, contested>>

-----------------------------------------------------------------------------
(* Adding members to a group (WebSocket): check, then one transaction.     *)

AddCheck(k, c, S) ==
    LET u == UserOf[k]
        new == {x \in S \ {u} : role[c][x] = "none"} IN
    /\ kind[c] = "group"
    /\ role[c][u] # "none"
    /\ new # {}
    /\ RowsLeft(c, new)
    /\ Begin(k, "add", "add_commit", [Ask(u, c) EXCEPT !.batch = new])
    /\ UNCHANGED <<kind, role, rows, cache, crashes, contested>>

\* A row that appeared meanwhile, or a chat that went, rolls the whole batch back.
AddCommit(k) ==
    LET c == req[k].chat
        S == req[k].batch IN
    /\ pc[k] = "add_commit"
    /\ IF Exists(c) /\ \A x \in S : role[c][x] = "none"
       THEN /\ InsertRows(c, S, "member")
            /\ PopCache(k, c)
            /\ Goto(k, "broadcast", Rest(k))
       ELSE /\ Finish(k)
            /\ UNCHANGED <<role, rows, cache>>
    /\ UNCHANGED <<kind, crashes, contested>>

\* group_members_updated goes to the members read now, and the list stays cached.
Broadcast(k) ==
    LET c == req[k].chat IN
    /\ pc[k] = "broadcast"
    /\ IF Exists(c) THEN CacheUserIds(k, c) ELSE UNCHANGED cache
    /\ Finish(k)
    /\ UNCHANGED <<kind, role, rows, crashes, contested>>

-----------------------------------------------------------------------------
(* Removing a member (WebSocket): read the actor's row, read the target's  *)
(* and decide, delete by (chat, user), count who is left, maybe delete the *)
(* chat.                                                                   *)

RemoveReadActor(k, c, t) ==
    LET u == UserOf[k] IN
    /\ Exists(c)
    /\ Begin(k, "remove", "remove_target",
             [Ask(u, c) EXCEPT !.target = t, !.actorRole = role[c][u]])
    /\ UNCHANGED <<kind, role, rows, cache, crashes, contested>>

\* The owner's row is not protected.
MutMayRemove(c, u, actorRole, t) ==
    \/ kind[c] = "group" /\ u \in Members(c) /\ t \in Members(c)
    \/ kind[c] = "channel" /\ actorRole \in Managers /\ role[c][t] # "none"

MayRemove(c, u, actorRole, t) ==
    \/ /\ kind[c] = "group"
       /\ u \in Members(c)
       /\ t \in Members(c)
    \/ /\ kind[c] = "channel"
       /\ t = u
       /\ role[c][t] = "subscriber"
    \/ /\ kind[c] = "channel"
       /\ actorRole \in Managers
       /\ role[c][t] \notin {"none", "owner"}
       /\ actorRole = "admin" => role[c][t] = "subscriber"

RemoveReadTarget(k) ==
    LET r == req[k] IN
    /\ pc[k] = "remove_target"
    /\ IF MayRemove(r.chat, r.user, r.actorRole, r.target)
       THEN Goto(k, "remove_delete", [Rest(k) EXCEPT !.target = r.target])
       ELSE Finish(k)
    /\ UNCHANGED <<kind, role, rows, cache, crashes, contested>>

\* The cached list is kept.
MutRemoveDelete(k) ==
    /\ pc[k] = "remove_delete"
    /\ DeleteRow(req[k].chat, req[k].target)
    /\ Goto(k, "remove_count", Rest(k))
    /\ UNCHANGED <<kind, cache, crashes, contested>>

RemoveDelete(k) ==
    /\ pc[k] = "remove_delete"
    /\ DeleteRow(req[k].chat, req[k].target)
    /\ PopCache(k, req[k].chat)
    /\ Goto(k, "remove_count", Rest(k))
    /\ UNCHANGED <<kind, crashes, contested>>

\* A chat is taken for abandoned when only the actor is left in it.
MutCountRemaining(p, label) ==
    /\ IF Exists(req[p].chat) /\ Members(req[p].chat) = {req[p].user}
       THEN Goto(p, label, Rest(p))
       ELSE Finish(p)
    /\ UNCHANGED <<kind, role, rows, cache, crashes, contested>>

\* What both removing and leaving do once the row is gone.
CountRemaining(p, label) ==
    /\ IF Exists(req[p].chat) /\ Members(req[p].chat) = {}
       THEN Goto(p, label, Rest(p))
       ELSE Finish(p)
    /\ UNCHANGED <<kind, role, rows, cache, crashes, contested>>

Dissolve(p) ==
    /\ DeleteChat(req[p].chat)
    /\ Finish(p)
    /\ UNCHANGED <<cache, crashes, contested>>

\* Nobody looks who is left.
MutRemoveCount(k) ==
    pc[k] = "remove_count" /\ Finish(k) /\ UNCHANGED <<kind, role, rows, cache, crashes, contested>>

RemoveCount(k) == pc[k] = "remove_count" /\ CountRemaining(k, "remove_dissolve")

RemoveDissolve(k) == pc[k] = "remove_dissolve" /\ Dissolve(k)

-----------------------------------------------------------------------------
(* Promoting and demoting in a channel (WebSocket): the row that was read  *)
(* is saved by primary key.                                                *)

SetRoleReadActor(k, c, t, g) ==
    LET u == UserOf[k] IN
    /\ kind[c] = "channel"
    /\ role[c][u] \in Managers
    /\ Begin(k, "set_role", "set_target",
             [Ask(u, c) EXCEPT !.target = t, !.grant = g, !.actorRole = role[c][u]])
    /\ UNCHANGED <<kind, role, rows, cache, crashes, contested>>

\* Admins demote each other.
MutMaySetRole(r) ==
    /\ r.target # r.user
    /\ role[r.chat][r.target] = (IF r.grant = "admin" THEN "subscriber" ELSE "admin")

MaySetRole(r) ==
    /\ r.target # r.user
    /\ \/ /\ r.grant = "admin"
          /\ role[r.chat][r.target] = "subscriber"
       \/ /\ r.grant = "subscriber"
          /\ role[r.chat][r.target] = "admin"
          /\ r.actorRole = "owner"

SetRoleReadTarget(k) ==
    LET r == req[k] IN
    /\ pc[k] = "set_target"
    /\ IF MaySetRole(r)
       THEN Goto(k, "set_write", [Rest(k) EXCEPT !.target = r.target, !.grant = r.grant,
                                                 !.row = rows[r.chat][r.target]])
       ELSE Finish(k)
    /\ UNCHANGED <<kind, role, rows, cache, crashes, contested>>

\* The row is looked up again by chat and user.
MutRowAlive(c, u, n) == role[c][u] # "none"

\* Is row n of (c, u) still in the table?
RowAlive(c, u, n) == role[c][u] # "none" /\ rows[c][u] = n

\* save(update_fields=["role"]) raises when the row is gone.
SetRoleWrite(k) ==
    LET r == req[k] IN
    /\ pc[k] = "set_write"
    /\ IF RowAlive(r.chat, r.target, r.row)
       THEN /\ role' = [role EXCEPT ![r.chat][r.target] = r.grant]
            /\ PopCache(k, r.chat)
            /\ Goto(k, "broadcast", Rest(k))
       ELSE /\ Finish(k)
            /\ UNCHANGED <<role, cache>>
    /\ UNCHANGED <<kind, rows, crashes, contested>>

-----------------------------------------------------------------------------
(* Deleting a chat (WebSocket): the cached membership, then the database.  *)

DeleteChatCheck(k, c) ==
    UserInChat(k, c, "delete_chat", "delete_verify")

DeleteChatVerify(k) ==
    LET c == req[k].chat
        r == role[c][req[k].user] IN
    /\ pc[k] = "delete_verify"
    /\ IF Exists(c) /\ r # "none" /\ (kind[c] = "channel" => r \in Managers)
       THEN Goto(k, "delete_commit", Rest(k))
       ELSE Finish(k)
    /\ UNCHANGED <<kind, role, rows, cache, crashes, contested>>

DeleteChatCommit(k) ==
    /\ pc[k] = "delete_commit"
    /\ DeleteChat(req[k].chat)
    /\ PopCache(k, req[k].chat)
    /\ Finish(k)
    /\ UNCHANGED <<crashes, contested>>

-----------------------------------------------------------------------------
(* Joining and leaving (HTTP).                                             *)

JoinGet(p, u, c) ==
    /\ Exists(c)
    /\ RowsLeft(c, {u})
    /\ Begin(p, "join", "join_insert", Ask(u, c))
    /\ UNCHANGED <<kind, role, rows, cache, crashes, contested>>

\* update_or_create: a row that exists gets the default role.
MutJoinInsert(p) ==
    LET c == req[p].chat
        u == req[p].user IN
    /\ pc[p] = "join_insert"
    /\ IF Exists(c) THEN InsertRows(c, {u}, DefaultRole(c)) ELSE UNCHANGED <<role, rows>>
    /\ Finish(p)
    /\ UNCHANGED <<kind, cache, crashes, contested>>

\* get_or_create: a row that exists is left as it is; a deleted chat is an error.
JoinInsert(p) ==
    LET c == req[p].chat
        u == req[p].user IN
    /\ pc[p] = "join_insert"
    /\ IF Exists(c) /\ role[c][u] = "none"
       THEN InsertRows(c, {u}, DefaultRole(c))
       ELSE UNCHANGED <<role, rows>>
    /\ Finish(p)
    /\ UNCHANGED <<kind, cache, crashes, contested>>

\* The owner may leave, too.
MutLeaveRead(p, u, c) ==
    /\ Exists(c)
    /\ role[c][u] # "none"
    /\ Begin(p, "leave", "leave_delete", [Ask(u, c) EXCEPT !.row = rows[c][u]])
    /\ UNCHANGED <<kind, role, rows, cache, crashes, contested>>

LeaveRead(p, u, c) ==
    /\ Exists(c)
    /\ role[c][u] # "none"
    /\ ~(kind[c] = "channel" /\ role[c][u] = "owner")
    /\ Begin(p, "leave", "leave_delete", [Ask(u, c) EXCEPT !.row = rows[c][u]])
    /\ UNCHANGED <<kind, role, rows, cache, crashes, contested>>

\* The row is deleted by the primary key that was read.
LeaveDelete(p) ==
    LET r == req[p] IN
    /\ pc[p] = "leave_delete"
    /\ IF RowAlive(r.chat, r.user, r.row)
       THEN DeleteRow(r.chat, r.user)
       ELSE UNCHANGED <<role, rows>>
    /\ Goto(p, "leave_count", Rest(p))
    /\ UNCHANGED <<kind, cache, crashes, contested>>

LeaveCount(p) == pc[p] = "leave_count" /\ CountRemaining(p, "leave_dissolve")

LeaveDissolve(p) == pc[p] = "leave_dissolve" /\ Dissolve(p)

-----------------------------------------------------------------------------
(* The environment.                                                        *)

\* A client drops its connection and opens another: the cache starts empty.
Reconnect(k) ==
    /\ pc[k] = "idle"
    /\ cache' = [cache EXCEPT ![k] = [c \in Chats |-> Uncached]]
    /\ UNCHANGED <<kind, role, rows, pc, req, crashes, contested>>

\* The process dies between two statements: what it committed stays.
Crash(p) ==
    /\ pc[p] # "idle"
    /\ crashes < MaxCrashes
    /\ crashes' = crashes + 1
    /\ Finish(p)
    /\ cache' = IF p \in Conns
                THEN [cache EXCEPT ![p] = [c \in Chats |-> Uncached]]
                ELSE cache
    /\ UNCHANGED <<kind, role, rows, contested>>

\* The steps of a request that has begun: the server runs these by itself.
ConnContinue(k) ==
    \/ CreatePrime(k) \/ AddCommit(k) \/ Broadcast(k)
    \/ RemoveReadTarget(k) \/ RemoveDelete(k) \/ RemoveCount(k) \/ RemoveDissolve(k)
    \/ SetRoleReadTarget(k) \/ SetRoleWrite(k)
    \/ DeleteChatVerify(k) \/ DeleteChatCommit(k)

WorkerContinue(p) ==
    JoinInsert(p) \/ LeaveDelete(p) \/ LeaveCount(p) \/ LeaveDissolve(p)

Continue(p) ==
    \/ CreateOwner(p)
    \/ p \in Conns /\ ConnContinue(p)
    \/ p \in Workers /\ WorkerContinue(p)

\* The requests a client may send.
ConnRequest(k) ==
    \E c \in Chats :
        \/ \E S \in SUBSET Users : AddCheck(k, c, S)
        \/ \E t \in Users : RemoveReadActor(k, c, t)
        \/ \E t \in Users, g \in {"admin", "subscriber"} : SetRoleReadActor(k, c, t, g)
        \/ DeleteChatCheck(k, c)

WorkerRequest(p) ==
    \E u \in Users, c \in Chats : JoinGet(p, u, c) \/ LeaveRead(p, u, c)

Next ==
    \/ \E p \in Procs, u \in Users, c \in Chats, k \in Kinds : CreateChat(p, u, c, k)
    \/ \E k \in Conns : ConnRequest(k) \/ Reconnect(k)
    \/ \E p \in Workers : WorkerRequest(p)
    \/ \E p \in Procs : Continue(p) \/ Crash(p)

Spec == Init /\ [][Next]_vars

-----------------------------------------------------------------------------
(* Properties.                                                             *)

\* p takes a step of a request it has begun (a crash is not one).
Moved(p) == pc[p] # "idle" /\ pc'[p] # pc[p] /\ crashes' = crashes

\* A channel never has two owners, and has one as long as it has admins: no interleaving
\* of removals, role changes, joins and departures takes the owner from over them. (Only
\* a creator with a removal pending against an earlier row of theirs can lose the new one.)
ChannelGoverned ==
    \A c \in Chats : kind[c] = "channel" =>
        /\ \A u, v \in Users : role[c][u] = "owner" /\ role[c][v] = "owner" => u = v
        /\ c \notin contested /\ (\E u \in Users : role[c][u] \in Managers) =>
               \E u \in Users : role[c][u] = "owner"

\* The owner of a channel stays its owner until the channel is deleted: a remove,
\* leave or role change that decided on an older state never hits the owner's row,
\* not even when the creator joined and left before becoming the owner.
ChannelOwnerStays ==
    [][\A c \in Chats \ contested, u \in Users :
         kind'[c] = "channel" /\ role[c][u] = "owner" => role'[c][u] = "owner"]_vars

\* An admin becomes a subscriber only by the doing of who owns the channel then,
\* whatever happened since the request read its actor's role.
OnlyOwnerDemotes ==
    [][\A c \in Chats \ contested, u \in Users :
         kind[c] = "channel" /\ role[c][u] = "admin" /\ role'[c][u] = "subscriber" =>
             \E k \in Conns : Moved(k) /\ req[k].chat = c /\ role[c][req[k].user] = "owner"]_vars

\* A promotion reaches only the membership that was looked at: who left and came
\* back while the request was under way keeps the role given on coming back.
PromotionSparesNewRows ==
    [][\A c \in Chats, u \in Users :
         role[c][u] # "admin" /\ role'[c][u] = "admin" =>
             \E k \in Conns : Moved(k) /\ req[k].target = u /\ req[k].row = rows[c][u]]_vars

\* An empty chat is about to go: as long as no process dies, somebody who saw it
\* lose its last member, or is still creating it, has work left on it.
EmptyChatHasReaper ==
    \A c \in Chats :
        crashes = 0 /\ Exists(c) /\ Members(c) = {} =>
            \E p \in Procs :
                /\ pc[p] \in {"create_owner", "remove_count", "remove_dissolve",
                             "leave_count", "leave_dissolve"}
                /\ req[p].chat = c

\* A connection's member list goes stale only through others: what its own handlers do to
\* a chat never leaves it with a list that is not the members'. The one exception is the
\* creator's list, which is taken to be the creator alone when others are in already.
CacheFresh(k, c) == cache[k][c] \in {Uncached, Cached(Members(c))}
OwnStepsKeepCacheFresh ==
    [][\A k \in Conns, c \in Chats :
         /\ CacheFresh(k, c) /\ Moved(k)
         /\ pc[k] = "create_prime" => Members(c) = {req[k].user}
         => CacheFresh(k, c)']_vars

\* LeaveGroupView says "Remove current user from a group/channel": a request to
\* leave costs nobody else their membership.
LeavingTakesOnlyTheLeaver ==
    [][\A p \in Workers : Moved(p) =>
         \A c \in Chats, u \in Users :
             role[c][u] # "none" /\ role'[c][u] = "none" => u = req[p].user]_vars

\* An empty chat does not stay, unless the process that was to delete it dies.
EmptyChatsVanish ==
    \A c \in Chats :
        Exists(c) /\ Members(c) = {} ~> ~Exists(c) \/ Members(c) # {} \/ crashes > 0

\* The interleaved requests move the roles only as the one-at-a-time operations do.
Atomic == INSTANCE ChatRoles
RolesMoveAtomically == Atomic!Spec

-----------------------------------------------------------------------------
(* Why the channel properties hold: what is true of requests under way.    *)

Busy(p, c) == pc[p] # "idle" /\ req[p].chat = c
Owned(c) == \E u \in Users : role[c][u] = "owner"

\* Nobody works on a chat that was never created, and no list mentions it.
UnusedUntouched ==
    \A c \in Chats : kind[c] = "unused" =>
        /\ c \notin contested
        /\ \A u \in Users : role[c][u] = "none"
        /\ \A k \in Conns : cache[k][c] = Uncached
        /\ \A p \in Procs : ~Busy(p, c)

DeletedEmpty ==
    \A c \in Chats, u \in Users : kind[c] = "deleted" => role[c][u] = "none"

\* Until the owner's row is in, a chat has one creator at work on it and nobody in
\* charge, whoever else has found it and come in.
FounderAlone ==
    \A p \in Procs : pc[p] = "create_owner" =>
        LET c == req[p].chat IN
        /\ c \notin contested
        /\ \A u \in Users : role[c][u] \notin Managers
        /\ \A q \in Procs \ {p} : ~(pc[q] = "create_owner" /\ req[q].chat = c)

\* A member has had a row, and so has who is about to lose one; a row that was read is
\* one of those there have been.
RowsCounted ==
    /\ \A c \in Chats, u \in Users : role[c][u] # "none" => rows[c][u] > 0
    /\ \A p \in Procs :
           /\ pc[p] = "remove_delete" => rows[req[p].chat][req[p].target] > 0
           /\ pc[p] = "leave_delete" => req[p].row <= rows[req[p].chat][req[p].user]
           /\ pc[p] = "set_write" => req[p].row <= rows[req[p].chat][req[p].target]

ChannelRoles ==
    \A c \in Chats, u \in Users : kind[c] = "channel" => role[c][u] # "member"

\* Only groups are added to, only channels have roles set.
RightKind ==
    \A p \in Procs :
        /\ pc[p] = "add_commit" => kind[req[p].chat] # "channel"
        /\ pc[p] \in {"set_target", "set_write"} => kind[req[p].chat] # "group"

\* What is about to touch a channel's row has decided that it is not the owner's.  Who
\* read the row touches that one; who deletes by chat and user, whichever there is then.
OwnerSpared ==
    \A p \in Procs : pc[p] # "idle" /\ kind[req[p].chat] = "channel" =>
        LET r == req[p] IN
        /\ pc[p] = "set_write" /\ RowAlive(r.chat, r.target, r.row) =>
               role[r.chat][r.target] # "owner"
        /\ pc[p] = "leave_delete" /\ RowAlive(r.chat, r.user, r.row) =>
               role[r.chat][r.user] # "owner"
        /\ pc[p] = "remove_delete" /\ r.chat \notin contested =>
               role[r.chat][r.target] # "owner"

\* A role is being set only where there is an owner, and taken away only by the owner.
SettersBacked ==
    \A p \in Procs :
        pc[p] # "idle" /\ kind[req[p].chat] = "channel" /\ req[p].chat \notin contested =>
            /\ pc[p] \in {"set_target", "set_write"} => Owned(req[p].chat)
            /\ \/ pc[p] = "set_target" /\ req[p].actorRole = "owner"
               \/ pc[p] = "set_write" /\ req[p].grant = "subscriber"
               => role[req[p].chat][req[p].user] = "owner"

\* The inductive invariant behind the properties of channels.
Governance ==
    /\ TypeOK /\ UnusedUntouched /\ DeletedEmpty /\ FounderAlone /\ RowsCounted
    /\ ChannelRoles /\ RightKind /\ OwnerSpared /\ SettersBacked /\ ChannelGoverned
=============================================================================
