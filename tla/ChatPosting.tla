----------------------------- MODULE ChatPosting ------------------------------
(***************************************************************************)
(* Posting to chats while their membership changes.                        *)
(*                                                                         *)
(* A message sent over a WebSocket is admitted and fanned out on the list  *)
(* of members the connection has cached; one sent over HTTP on the rows.   *)
(* Both ask the database whether the user may post, which only tells       *)
(* anything about channels, and create the message in a later statement.   *)
(***************************************************************************)
EXTENDS ChatMembership, Sequences, FiniteSets

CONSTANT MaxPosts   \* bound: messages created

ASSUME MaxPostsAssumption == MaxPosts \in Nat

VARIABLES
    posts,        \* the Message rows: chat, author, the process they came by (via), and
                  \* the users whose connections they were sent to, once they were sent
    everMember,   \* history: everMember[c], who has ever had a row in chat c
    everManager   \* history: everManager[c], who has ever been its owner or an admin

postVars == <<kind, role, rows, cache, pc, req, crashes, contested,
              posts, everMember, everManager>>

PostInit ==
    /\ Init
    /\ posts = <<>>
    /\ everMember = [c \in Chats |-> {}]
    /\ everManager = [c \in Chats |-> {}]

ManagersOf(c) == {u \in Users : role[c][u] \in Managers}

Remember ==
    /\ everMember' = [c \in Chats |-> everMember[c] \cup Members(c)']
    /\ everManager' = [c \in Chats |-> everManager[c] \cup ManagersOf(c)']

-----------------------------------------------------------------------------

RoomForPost ==
    Len(posts) + Cardinality({p \in Procs : pc[p] \in {"post_permit", "post_create"}}) < MaxPosts

\* handle_chat_message: the cached list decides who may talk.
PostCheckWs(k, c) ==
    /\ RoomForPost
    /\ UserInChat(k, c, "post_ws", "post_permit")
    /\ UNCHANGED posts

\* MessageViewSet.create: the rows decide.
PostCheckHttp(p, u, c) ==
    /\ RoomForPost
    /\ Exists(c)
    /\ u \in Members(c)
    /\ Begin(p, "post_http", "post_permit", Ask(u, c))
    /\ UNCHANGED <<kind, role, rows, cache, crashes, contested, posts>>

\* Being in the chat is enough.
MutCanPost(c, u) == u \in Members(c)

\* user_can_post_in_chat: in a channel the owner and the admins, elsewhere everybody.
CanPost(c, u) == kind[c] = "channel" => role[c][u] \in Managers

PostPermit(p) ==
    /\ pc[p] = "post_permit"
    /\ IF Exists(req[p].chat) /\ CanPost(req[p].chat, req[p].user)
       THEN Goto(p, "post_create", Rest(p))
       ELSE Finish(p)
    /\ UNCHANGED <<kind, role, rows, cache, crashes, contested, posts>>

\* Message.objects.create: the foreign key refuses a chat that is gone.
PostCreate(p) ==
    LET c == req[p].chat IN
    /\ pc[p] = "post_create"
    /\ IF Exists(c)
       THEN /\ posts' = Append(posts, [chat |-> c, author |-> req[p].user, via |-> p,
                                       to |-> {}, sent |-> FALSE])
            /\ Goto(p, "post_send", [Rest(p) EXCEPT !.row = Len(posts) + 1])
       ELSE Finish(p) /\ UNCHANGED posts
    /\ UNCHANGED <<kind, role, rows, cache, crashes, contested>>

SendTo(p, S) ==
    /\ posts' = [posts EXCEPT ![req[p].row].to = S, ![req[p].row].sent = TRUE]
    /\ Finish(p)
    /\ UNCHANGED <<kind, role, rows, crashes, contested>>

\* Serialising the message for its recipients reads its chat, which fails for all of
\* them once the chat is gone: nobody is sent anything, and the request ends there.
SendUnlessGone(k, S) ==
    IF Exists(req[k].chat)
    THEN SendTo(k, S)
    ELSE Finish(k) /\ UNCHANGED <<kind, role, rows, crashes, contested, posts>>

\* The members are read anew.
MutPostSendWs(k) ==
    pc[k] = "post_send" /\ SendUnlessGone(k, Members(req[k].chat)) /\ UNCHANGED cache

\* broadcast_message_to_chat_users: the cached list again.
PostSendWs(k) ==
    LET c == req[k].chat IN
    /\ pc[k] = "post_send"
    /\ SendUnlessGone(k, ChatUserIds(k, c))
    /\ IF Exists(c) THEN CacheUserIds(k, c) ELSE UNCHANGED cache

\* send_ws_message: the members now.
PostSendHttp(p) ==
    /\ pc[p] = "post_send"
    /\ SendTo(p, Members(req[p].chat))
    /\ UNCHANGED cache

PostContinue(p) ==
    \/ PostPermit(p) \/ PostCreate(p)
    \/ p \in Conns /\ PostSendWs(p)
    \/ p \in Workers /\ PostSendHttp(p)

PostStep ==
    \/ \E k \in Conns, c \in Chats : PostCheckWs(k, c)
    \/ \E p \in Workers, u \in Users, c \in Chats : PostCheckHttp(p, u, c)
    \/ \E p \in Procs : PostContinue(p)

PostNext == (PostStep \/ (Next /\ UNCHANGED posts)) /\ Remember

PostSpec == PostInit /\ [][PostNext]_postVars

\* The server finishes what it has begun; clients need not send anything.
FairPostSpec ==
    /\ PostSpec
    /\ \A p \in Procs :
           WF_postVars((PostContinue(p) \/ (Continue(p) /\ UNCHANGED posts)) /\ Remember)

-----------------------------------------------------------------------------
(* Properties.                                                             *)

Posts == {posts[i] : i \in DOMAIN posts}

\* However stale the lists, a chat's messages come from people who belong or have
\* belonged to it and go to nobody else: a stale list never admits a stranger.
PostsStayAmongMembers ==
    \A m \in Posts : {m.author} \cup m.to \subseteq everMember[m.chat]

\* Only somebody who is or was in charge of a channel gets a message into it: the
\* race between the permission and the row lets in the demoted, never a subscriber.
ChannelsStayReadOnly ==
    \A m \in Posts : kind[m.chat] = "channel" => m.author \in everManager[m.chat]

\* Who sends over a WebSocket is sent the message back, which is how the sending
\* client learns the row's id: being put out of the chat meanwhile does not stop it,
\* only the end of the chat or of the process does.
WsAuthorHearsBack ==
    \A i \in DOMAIN posts :
        LET m == posts[i] IN
        m.via \in Conns =>
            \/ m.author \in m.to
            \/ pc[m.via] = "post_send" /\ req[m.via].row = i
            \/ ~Exists(m.chat)
            \/ crashes > 0

\* handle_chat_message refuses with "Not a member of chat": whoever it lets through
\* to post is a member at that moment.
NonMembersAreRefused ==
    [][\A p \in Procs : pc[p] = "idle" /\ pc'[p] = "post_permit" =>
           req'[p].user \in Members(req'[p].chat)]_postVars
=============================================================================
