--------------------------- MODULE ChatPostingProofs ---------------------------
(* A chat's messages come from and go to people who belong or have belonged to it, *)
(* only its managers, present or past, write to a channel, and who posts over a     *)
(* WebSocket is sent the message back unless the chat or the process ends: for any  *)
(* users, chats, processes and bounds.  All of it rests on what cached member lists  *)
(* and posting handlers can hold.                                                    *)
EXTENDS ChatPosting, ChatMembershipProofs, SequenceTheorems

PostLabels == {"post_permit", "post_create", "post_send"}
Post == [chat : Chats, author : Users, via : Procs, to : SUBSET Users, sent : BOOLEAN]

\* The histories cover the rows there are and the member lists that were cached.
HistorySound(c) ==
    /\ Members(c) \subseteq everMember[c]
    /\ ManagersOf(c) \subseteq everManager[c]
    /\ \A k \in Conns : cache[k][c].hit => cache[k][c].ids \subseteq everMember[c]

\* A handler posts for somebody who belongs or has belonged to the chat, and a
\* connection's has its user on the cached list until it has sent the message; past the
\* permission, the user is or was in charge if the chat is a channel, and the row that
\* is to be sent is the handler's own.  A creator who is taken for the only member has
\* been one.
PosterSound(p) ==
    LET c == req[p].chat
        u == req[p].user IN
    /\ pc[p] = "create_prime" => u \in everMember[c]
    /\ pc[p] \in PostLabels => /\ u \in everMember[c]
                               /\ p \in Conns => cache[p][c].hit /\ u \in cache[p][c].ids
    /\ pc[p] \in {"post_create", "post_send"} =>
           kind[c] # "unused" /\ (kind[c] = "channel" => u \in everManager[c])
    /\ pc[p] = "post_send" => /\ req[p].row \in DOMAIN posts
                              /\ posts[req[p].row].chat = c
                              /\ posts[req[p].row].author = u
                              /\ posts[req[p].row].via = p

PostSound(m) ==
    /\ {m.author} \cup m.to \subseteq everMember[m.chat]
    /\ kind[m.chat] # "unused" /\ (kind[m.chat] = "channel" => m.author \in everManager[m.chat])
    /\ m.via \in Conns /\ m.sent => m.author \in m.to

\* A connection's message has been sent, or is about to be, or the chat is gone.
Delivered(i) ==
    LET m == posts[i] IN
    m.via \in Conns => \/ m.sent
                       \/ pc[m.via] = "post_send" /\ req[m.via].row = i
                       \/ ~Exists(m.chat)
                       \/ crashes > 0

\* The inductive invariant.
PostInv ==
    /\ TypeOK
    /\ posts \in Seq(Post)
    /\ everMember \in [Chats -> SUBSET Users] /\ everManager \in [Chats -> SUBSET Users]
    /\ \A c \in Chats : HistorySound(c)
    /\ \A p \in Procs : PosterSound(p)
    /\ \A i \in DOMAIN posts : PostSound(posts[i]) /\ Delivered(i)

-----------------------------------------------------------------------------
(* What a step of the membership operations does to posting: nothing, but for the    *)
(* lists its own connection caches and chats that come and go.                       *)

\* What a member list holds was there before, or are past or present members.
CachesGrow ==
    \A k \in Conns, c \in Chats, u \in Users :
        cache'[k][c].hit /\ u \in cache'[k][c].ids =>
            \/ cache[k][c].hit /\ u \in cache[k][c].ids
            \/ u \in Members(c)
            \/ u \in everMember[c]

KindsMove == \A c \in Chats : kind[c] # "unused" => kind'[c] \in {kind[c], "deleted"}

Frame(q) ==
    /\ \A p \in Procs \ {q} : pc'[p] = pc[p] /\ req'[p] = req[p]
    /\ \A k \in Conns \ {q} : cache'[k] = cache[k]

\* q is not at work on a post afterwards; it gives a sending up only by dying.
Leaves(q) ==
    /\ pc'[q] \notin PostLabels
    /\ pc'[q] = "create_prime" => role'[req'[q].chat][req'[q].user] # "none"
    /\ pc[q] = "post_send" \/ crashes > 0 => crashes' > 0

LEMMA CacheFrame ==
    ASSUME TypeOK, NEW k \in Conns, NEW c \in Chats,
           \/ cache' = cache
           \/ PopCache(k, c)
           \/ CacheUserIds(k, c)
           \/ cache' = [cache EXCEPT ![k] = [d \in Chats |-> Uncached]]
           \/ \E u \in Users : u \in everMember[c] /\ cache' = [cache EXCEPT ![k][c] = Cached({u})]
    PROVE  CachesGrow /\ \A l \in Conns \ {k} : cache'[l] = cache[l]
<1>1. cache \in [Conns -> [Chats -> [hit : BOOLEAN, ids : SUBSET Users]]]
  BY DEF TypeOK
<1>2. CASE cache' = cache
  BY <1>2 DEF CachesGrow
<1>3. CASE PopCache(k, c) \/ cache' = [cache EXCEPT ![k] = [d \in Chats |-> Uncached]]
  <2>1. \A l \in Conns, d \in Chats : cache'[l][d] = cache[l][d] \/ cache'[l][d] = Uncached
    BY <1>1, <1>3 DEF PopCache
  <2>2. \A l \in Conns \ {k} : cache'[l] = cache[l]
    BY <1>1, <1>3 DEF PopCache
  <2> QED
    BY <2>1, <2>2 DEF Uncached, CachesGrow
<1>4. CASE CacheUserIds(k, c)
  BY <1>1, <1>4 DEF CacheUserIds, ChatUserIds, Cached, CachesGrow
<1>5. CASE \E u \in Users : u \in everMember[c] /\ cache' = [cache EXCEPT ![k][c] = Cached({u})]
  BY <1>1, <1>5 DEF Cached, CachesGrow
<1> QED
  BY <1>2, <1>3, <1>4, <1>5

\* p goes on, or comes to rest, somewhere outside the posting handlers.
LEMMA MoveFrame ==
    ASSUME TypeOK, NEW p \in Procs, NEW label, NEW r,
           \/ UNCHANGED <<pc, req>>
           \/ pc' = [pc EXCEPT ![p] = label] /\ req' = [req EXCEPT ![p] = r]
    PROVE  /\ \A q \in Procs \ {p} : pc'[q] = pc[q] /\ req'[q] = req[q]
           /\ pc'[p] \in {label, pc[p]}
BY DEF TypeOK

LEMMA CreateFrame ==
    ASSUME TypeOK, NEW p \in Procs,
           \/ CreateOwner(p)
           \/ \E u \in Users, c \in Chats, k \in Kinds : CreateChat(p, u, c, k)
    PROVE  Frame(p) /\ Leaves(p) /\ CachesGrow /\ KindsMove
<1>1. CASE \E u \in Users, c \in Chats, k \in Kinds : CreateChat(p, u, c, k)
  <2>1. PICK u \in Users, c \in Chats, k \in Kinds : CreateChat(p, u, c, k)
    BY <1>1
  <2>2. /\ pc' = [pc EXCEPT ![p] = "create_owner"] /\ req' = [req EXCEPT ![p] = Ask(u, c)]
        /\ cache' = cache /\ kind[c] = "unused" /\ kind' = [kind EXCEPT ![c] = k]
    BY <2>1 DEF CreateChat, Begin
  <2>3. KindsMove
    BY <2>2 DEF KindsMove, TypeOK
  <2> QED
    BY <2>1, <2>2, <2>3 DEF Frame, Leaves, PostLabels, CachesGrow, TypeOK, CreateChat, Begin
<1>2. CASE CreateOwner(p)
  <2>1. PICK c \in Chats, u \in Users :
          c = req[p].chat /\ u = req[p].user /\ Rest(p).chat = c /\ Rest(p).user = u
    BY <1>2, RestTyped, TypeParts DEF CreateOwner, Rest, Ask
  <2>2. /\ \/ pc' = [pc EXCEPT ![p] = "idle"] /\ req' = [req EXCEPT ![p] = NoRequest]
           \/ /\ pc' = [pc EXCEPT ![p] = "create_prime"] /\ req' = [req EXCEPT ![p] = Rest(p)]
              /\ InsertRows(c, {u}, "owner")
        /\ kind' = kind /\ cache' = cache /\ crashes' = crashes /\ pc[p] = "create_owner"
    BY <1>2, <2>1 DEF CreateOwner, Finish, Goto
  <2>3. InsertRows(c, {u}, "owner") => role'[c][u] # "none"
    BY DEF InsertRows, TypeOK
  <2> QED
    BY <2>1, <2>2, <2>3 DEF Frame, Leaves, PostLabels, CachesGrow, KindsMove, TypeOK
<1> QED
  BY <1>1, <1>2

LEMMA WorkerFrame ==
    ASSUME TypeOK, NEW p \in Workers, WorkerRequest(p) \/ WorkerContinue(p)
    PROVE  Frame(p) /\ Leaves(p) /\ CachesGrow /\ KindsMove
<1>1. p \in Procs /\ cache' = cache
  BY DEF WorkerRequest, WorkerContinue, JoinGet, LeaveRead, JoinInsert, LeaveDelete, LeaveCount,
         LeaveDissolve, CountRemaining, Dissolve, Procs
<1>2. PICK l \in Labels \ (PostLabels \cup {"create_prime"}) :
        \E r : pc' = [pc EXCEPT ![p] = l] /\ req' = [req EXCEPT ![p] = r]
  BY DEF WorkerRequest, WorkerContinue, JoinGet, LeaveRead, JoinInsert, LeaveDelete, LeaveCount,
         LeaveDissolve, CountRemaining, Dissolve, Begin, Goto, Finish, Labels, PostLabels
<1>3. kind' = kind \/ kind' = [kind EXCEPT ![req[p].chat] = "deleted"]
  BY DEF WorkerRequest, WorkerContinue, JoinGet, LeaveRead, JoinInsert, LeaveDelete, LeaveCount,
         LeaveDissolve, CountRemaining, Dissolve, DeleteChat
<1>4. crashes' = crashes /\ pc[p] # "post_send"
  BY DEF WorkerRequest, WorkerContinue, JoinGet, LeaveRead, JoinInsert, LeaveDelete, LeaveCount,
         LeaveDissolve, CountRemaining, Dissolve, Begin
<1> QED
  BY <1>1, <1>2, <1>3, <1>4 DEF Frame, Leaves, CachesGrow, KindsMove, TypeOK

LEMMA ConnRequestFrame ==
    ASSUME TypeOK, NEW k \in Conns, ConnRequest(k) \/ Reconnect(k)
    PROVE  Frame(k) /\ Leaves(k) /\ CachesGrow /\ KindsMove
<1>1. k \in Procs /\ kind' = kind /\ crashes' = crashes /\ pc[k] = "idle"
  BY DEF ConnRequest, AddCheck, RemoveReadActor, SetRoleReadActor, DeleteChatCheck, UserInChat,
         Reconnect, Begin, Procs
<1>2. \/ UNCHANGED <<pc, req>>
      \/ \E l \in Labels \ (PostLabels \cup {"create_prime"}) : \E r :
             pc' = [pc EXCEPT ![k] = l] /\ req' = [req EXCEPT ![k] = r]
  BY DEF ConnRequest, AddCheck, RemoveReadActor, SetRoleReadActor, DeleteChatCheck, UserInChat,
         Reconnect, Begin, Labels, PostLabels
<1>3. \/ cache' = cache
      \/ \E c \in Chats : CacheUserIds(k, c)
      \/ cache' = [cache EXCEPT ![k] = [d \in Chats |-> Uncached]]
  BY DEF ConnRequest, AddCheck, RemoveReadActor, SetRoleReadActor, DeleteChatCheck, UserInChat,
         Reconnect
<1>4. CachesGrow /\ \A l \in Conns \ {k} : cache'[l] = cache[l]
  <2>1. CASE cache' = cache
    BY <2>1 DEF CachesGrow
  <2>2. CASE cache' = [cache EXCEPT ![k] = [d \in Chats |-> Uncached]]
    BY <2>2 DEF CachesGrow, TypeOK, Uncached
  <2> QED
    BY <1>3, <2>1, <2>2, CacheFrame
<1> QED
  BY <1>1, <1>2, <1>4 DEF Frame, Leaves, KindsMove, PostLabels, TypeOK

LEMMA ConnContinueFrame ==
    ASSUME PostInv, NEW k \in Conns, ConnContinue(k)
    PROVE  Frame(k) /\ Leaves(k) /\ CachesGrow /\ KindsMove
<1> USE DEF ConnContinue, CreatePrime, AddCommit, Broadcast, RemoveReadTarget, RemoveDelete, RemoveCount,
        RemoveDissolve, SetRoleReadTarget, SetRoleWrite, DeleteChatVerify, DeleteChatCommit,
        CountRemaining, Dissolve
<1>1. TypeOK /\ k \in Procs /\ pc[k] # "idle" /\ pc[k] # "post_send" /\ crashes' = crashes
  BY DEF Procs, PostInv
<1>2. req[k].chat \in Chats /\ req[k].user \in Users
  BY <1>1, RestTyped, TypeParts
<1>3. PICK l \in Labels \ (PostLabels \cup {"create_prime"}) :
        \E r : pc' = [pc EXCEPT ![k] = l] /\ req' = [req EXCEPT ![k] = r]
  BY DEF Goto, Finish, Labels, PostLabels
<1>4. kind' = kind \/ kind' = [kind EXCEPT ![req[k].chat] = "deleted"]
  BY DEF DeleteChat
<1>5. \/ cache' = cache \/ CacheUserIds(k, req[k].chat) \/ PopCache(k, req[k].chat)
      \/ /\ req[k].user \in everMember[req[k].chat]
         /\ cache' = [cache EXCEPT ![k][req[k].chat] = Cached({req[k].user})]
  BY <1>1 DEF PostInv, PosterSound
<1>6. CachesGrow /\ \A c \in Conns \ {k} : cache'[c] = cache[c]
  BY <1>1, <1>2, <1>5, CacheFrame
<1> QED
  BY <1>1, <1>3, <1>4, <1>6 DEF Frame, Leaves, KindsMove, TypeOK

LEMMA CrashFrame ==
    ASSUME TypeOK, NEW p \in Procs, Crash(p)
    PROVE  Frame(p) /\ Leaves(p) /\ CachesGrow /\ KindsMove
<1>1. /\ pc' = [pc EXCEPT ![p] = "idle"] /\ req' = [req EXCEPT ![p] = NoRequest]
      /\ kind' = kind /\ crashes' = crashes + 1 /\ crashes \in Nat
      /\ \/ cache' = cache
         \/ p \in Conns /\ cache' = [cache EXCEPT ![p] = [c \in Chats |-> Uncached]]
  BY DEF Crash, Finish, TypeOK
<1>2. CachesGrow /\ \A l \in Conns \ {p} : cache'[l] = cache[l]
  <2>1. CASE cache' = cache
    BY <2>1 DEF CachesGrow
  <2>2. CASE p \in Conns /\ cache' = [cache EXCEPT ![p] = [c \in Chats |-> Uncached]]
    BY <2>2 DEF CachesGrow, TypeOK, Uncached
  <2> QED
    BY <1>1, <2>1, <2>2
<1> QED
  BY <1>1, <1>2 DEF Frame, Leaves, KindsMove, PostLabels, TypeOK

LEMMA MembershipFrame ==
    ASSUME PostInv, Next
    PROVE  \E p \in Procs : Frame(p) /\ Leaves(p) /\ CachesGrow /\ KindsMove
<1>1. Conns \subseteq Procs /\ Workers \subseteq Procs
  BY DEF Procs
<1> QED
  BY <1>1, CreateFrame, WorkerFrame, ConnRequestFrame, ConnContinueFrame, CrashFrame
  DEF Next, Continue, PostInv

-----------------------------------------------------------------------------
(* Histories only grow, and so do the posts: what was sound of a handler or a message *)
(* that a step does not touch stays so.                                               *)

PostsStand ==
    \A i \in DOMAIN posts : /\ i \in DOMAIN posts'
                            /\ posts'[i].chat = posts[i].chat
                            /\ posts'[i].author = posts[i].author
                            /\ posts'[i].via = posts[i].via

LEMMA HistoriesKept ==
    ASSUME PostInv, Remember, CachesGrow
    PROVE  /\ everMember' \in [Chats -> SUBSET Users] /\ everManager' \in [Chats -> SUBSET Users]
           /\ \A c \in Chats : /\ everMember[c] \subseteq everMember'[c]
                               /\ everManager[c] \subseteq everManager'[c]
           /\ TypeOK' => \A c \in Chats : HistorySound(c)'
<1>1. \A c \in Chats : /\ everMember'[c] = everMember[c] \cup Members(c)'
                       /\ everManager'[c] = everManager[c] \cup ManagersOf(c)'
                       /\ Members(c)' \subseteq Users /\ ManagersOf(c)' \subseteq Users
  BY DEF Remember, Members, ManagersOf
<1>2. everMember' \in [Chats -> SUBSET Users] /\ everManager' \in [Chats -> SUBSET Users]
  BY <1>1 DEF Remember, PostInv
<1>3. ASSUME TypeOK', NEW c \in Chats PROVE HistorySound(c)'
  <2>1. HistorySound(c)
    BY DEF PostInv
  <2>2. ASSUME NEW k \in Conns, cache'[k][c].hit, NEW u \in cache'[k][c].ids
        PROVE  u \in everMember'[c]
    <3>1. cache'[k][c] \in [hit : BOOLEAN, ids : SUBSET Users]
      BY <1>3 DEF TypeOK
    <3>2. u \in Users
      BY <2>2, <3>1
    <3> QED
      BY <1>1, <2>1, <2>2, <3>2 DEF CachesGrow, HistorySound
  <2> QED
    BY <1>1, <2>2 DEF HistorySound
<1> QED
  BY <1>1, <1>2, <1>3

LEMMA PostersKept ==
    ASSUME PostInv, Remember, CachesGrow, KindsMove, PostsStand,
           NEW p \in Procs, pc'[p] = pc[p], req'[p] = req[p], p \in Conns => cache'[p] = cache[p]
    PROVE  PosterSound(p)'
<1>1. PosterSound(p) /\ (pc[p] \in PostLabels \cup {"create_prime"} => req[p].chat \in Chats)
  BY DEF PostInv, TypeOK, PostLabels, Request
<1>2. \A c \in Chats : /\ everMember[c] \subseteq everMember'[c]
                       /\ everManager[c] \subseteq everManager'[c]
  BY HistoriesKept
<1>3. \A c \in Chats : kind[c] # "unused" =>
          kind'[c] # "unused" /\ (kind'[c] = "channel" => kind[c] = "channel")
  BY DEF KindsMove
<1> QED
  BY <1>1, <1>2, <1>3 DEF PosterSound, PostLabels, PostsStand

LEMMA PostKept ==
    ASSUME PostInv, Remember, CachesGrow, KindsMove, NEW m \in Post, PostSound(m)
    PROVE  PostSound(m)'
<1>1. m.chat \in Chats
  BY DEF Post
<1>2. \A c \in Chats : /\ everMember[c] \subseteq everMember'[c]
                       /\ everManager[c] \subseteq everManager'[c]
  BY HistoriesKept
<1>3. \A c \in Chats : kind[c] # "unused" =>
          kind'[c] # "unused" /\ (kind'[c] = "channel" => kind[c] = "channel")
  BY DEF KindsMove
<1> QED
  BY <1>1, <1>2, <1>3 DEF PostSound

\* A message is still to be sent, or excused, if its process stays at it or dies.
LEMMA DeliveryKept ==
    ASSUME PostInv, KindsMove, crashes > 0 => crashes' > 0,
           NEW i \in DOMAIN posts, i \in DOMAIN posts', posts'[i] = posts[i],
           LET v == posts[i].via IN
           pc[v] = "post_send" /\ req[v].row = i =>
               crashes' > 0 \/ (pc'[v] = pc[v] /\ req'[v] = req[v])
    PROVE  Delivered(i)'
<1>1. /\ Delivered(i) /\ PostSound(posts[i]) /\ posts[i] \in Post
  BY DEF PostInv
<1>2. posts[i].chat \in Chats /\ kind[posts[i].chat] # "unused"
  BY <1>1 DEF Post, PostSound
<1>3. ~Exists(posts[i].chat) => ~Exists(posts[i].chat)'
  BY <1>2 DEF KindsMove, Exists, Kinds
<1> QED
  BY <1>1, <1>3 DEF Delivered

\* Of a step that writes one message at most, only its process and that message have to be
\* looked at.
LEMMA OnePostStep ==
    ASSUME PostInv, TypeOK', Remember, CachesGrow, KindsMove,
           NEW p \in Procs, Frame(p), PosterSound(p)', posts' \in Seq(Post), PostsStand,
           NEW n, n \in DOMAIN posts' => PostSound(posts[n])' /\ Delivered(n)',
           \A i \in DOMAIN posts' : i # n => i \in DOMAIN posts /\ posts'[i] = posts[i],
           crashes > 0 => crashes' > 0, pc[p] = "post_send" => crashes' > 0 \/ req[p].row = n
    PROVE  PostInv'
<1>1. \A q \in Procs \ {p} : PosterSound(q)'
  BY PostersKept DEF Frame
<1>2. ASSUME NEW i \in DOMAIN posts' PROVE PostSound(posts[i])' /\ Delivered(i)'
  <2>1. CASE i = n
    BY <2>1 DEF PostSound, Delivered
  <2>2. CASE i # n
    <3>1. i \in DOMAIN posts /\ posts'[i] = posts[i]
      BY <2>2
    <3>2. PICK m \in Post : m = posts[i] /\ PostSound(m)
      BY <3>1 DEF PostInv
    <3>3. PostSound(m)'
      BY <3>2, PostKept
    <3>4. m.via \in Procs
      BY DEF Post
    <3>5. pc[m.via] = "post_send" /\ req[m.via].row = i =>
              crashes' > 0 \/ (pc'[m.via] = pc[m.via] /\ req'[m.via] = req[m.via])
      BY <2>2, <3>4 DEF Frame
    <3>6. Delivered(i)'
      BY <3>1, <3>2, <3>5, DeliveryKept
    <3> QED
      BY <3>1, <3>2, <3>3, <3>6 DEF PostSound
  <2> QED
    BY <2>1, <2>2
<1> QED
  BY <1>1, <1>2, HistoriesKept DEF PostInv

LEMMA SilentStep ==
    ASSUME PostInv, TypeOK', Remember, CachesGrow, KindsMove, posts' = posts,
           NEW p \in Procs, Frame(p), PosterSound(p)',
           crashes > 0 => crashes' > 0, pc[p] = "post_send" => crashes' > 0
    PROVE  PostInv'
<1>1. posts \in Seq(Post)
  BY DEF PostInv
<1>2. PostsStand /\ 0 \notin DOMAIN posts' /\ posts' \in Seq(Post)
  BY <1>1 DEF PostsStand
<1> QED
  BY <1>2, OnePostStep

LEMMA MembershipStep ==
    ASSUME PostInv, Next, Remember, posts' = posts
    PROVE  PostInv'
<1>1. TypeOK /\ TypeOK'
  BY TypeStep DEF PostInv
<1>2. PICK p \in Procs : Frame(p) /\ Leaves(p) /\ CachesGrow /\ KindsMove
  BY <1>1, MembershipFrame
<1>3. ASSUME pc'[p] = "create_prime" PROVE req'[p].user \in everMember'[req'[p].chat]
  <2>1. req'[p].chat \in Chats /\ req'[p].user \in Users
    BY <1>1, <1>3 DEF TypeOK, Request
  <2> QED
    BY <1>2, <1>3, <2>1 DEF Leaves, Remember, Members
<1>4. PosterSound(p)'
  BY <1>2, <1>3 DEF PosterSound, PostLabels, Leaves
<1> QED
  BY <1>1, <1>2, <1>4, SilentStep DEF Leaves

-----------------------------------------------------------------------------
(* The posting handlers.                                                              *)

LEMMA PostCheckWsStep ==
    ASSUME PostInv, NEW k \in Conns, NEW c \in Chats, PostCheckWs(k, c), Remember
    PROVE  PostInv'
<1> DEFINE u == UserOf[k]
           ids == ChatUserIds(k, c)
<1>1. /\ TypeOK /\ k \in Procs /\ u \in Users
      /\ UserInChat(k, c, "post_ws", "post_permit") /\ posts' = posts /\ kind' = kind
      /\ crashes' = crashes /\ pc[k] = "idle"
  BY UserOfAssumption DEF PostInv, PostCheckWs, UserInChat, Procs
<1>2. TypeOK'
  BY <1>1, UserInChatTyped DEF Labels
<1>3. CacheUserIds(k, c)
  BY <1>1 DEF UserInChat
<1>4. CachesGrow /\ \A l \in Conns \ {k} : cache'[l] = cache[l]
  BY <1>1, <1>3, CacheFrame
<1>5. \/ pc' = [pc EXCEPT ![k] = "post_permit"] /\ req' = [req EXCEPT ![k] = Ask(u, c)]
         /\ u \in ids
      \/ UNCHANGED <<pc, req>> /\ pc[k] = "idle"
  BY <1>1 DEF UserInChat, Begin
<1>6. Frame(k) /\ KindsMove
  BY <1>1, <1>4, <1>5, MoveFrame DEF Frame, KindsMove
<1>7. PosterSound(k)'
  <2>1. CASE pc' = [pc EXCEPT ![k] = "post_permit"] /\ req' = [req EXCEPT ![k] = Ask(u, c)]
             /\ u \in ids
    <3>1. pc'[k] = "post_permit" /\ req'[k].user = u /\ req'[k].chat = c
      BY <1>1, <2>1 DEF TypeOK, Ask
    <3>2. cache'[k][c].hit /\ cache'[k][c].ids = ids
      BY <1>1, <1>3 DEF TypeOK, CacheUserIds, Cached
    <3>3. u \in everMember'[c]
      BY <1>2, <1>4, <2>1, <3>2, HistoriesKept DEF HistorySound
    <3> QED
      BY <2>1, <3>1, <3>2, <3>3 DEF PosterSound
  <2>2. CASE UNCHANGED <<pc, req>> /\ pc[k] = "idle"
    BY <2>2 DEF PosterSound, PostLabels
  <2> QED
    BY <1>5, <2>1, <2>2
<1> QED
  BY <1>1, <1>2, <1>4, <1>6, <1>7, SilentStep

LEMMA PostCheckHttpStep ==
    ASSUME PostInv, NEW p \in Workers, NEW u \in Users, NEW c \in Chats,
           PostCheckHttp(p, u, c), Remember
    PROVE  PostInv'
<1>1. /\ TypeOK /\ p \in Procs /\ p \notin Conns
      /\ pc' = [pc EXCEPT ![p] = "post_permit"] /\ req' = [req EXCEPT ![p] = Ask(u, c)]
      /\ UNCHANGED <<kind, role, rows, cache, crashes, contested, posts>> /\ u \in Members(c)
      /\ pc[p] = "idle"
  BY ProcsAssumption DEF PostInv, PostCheckHttp, Begin, Procs
<1>2. TypeOK'
  BY <1>1, TypeParts, AskTyped, GotoTyped DEF Labels, TablesOK, CacheOK
<1>3. CachesGrow /\ KindsMove /\ Frame(p)
  BY <1>1 DEF CachesGrow, KindsMove, Frame, TypeOK
<1>4. pc'[p] = "post_permit" /\ req'[p].user = u /\ req'[p].chat = c
  BY <1>1 DEF TypeOK, Ask
<1>5. u \in everMember'[c]
  BY <1>1, <1>3, HistoriesKept DEF PostInv, HistorySound
<1>6. PosterSound(p)'
  BY <1>1, <1>4, <1>5 DEF PosterSound
<1> QED
  BY <1>1, <1>2, <1>3, <1>6, SilentStep

\* What a posting handler that is about to go on may rely on.
LEMMA PosterKnows ==
    ASSUME PostInv, NEW p \in Procs, pc[p] \in PostLabels
    PROVE  /\ TypeOK /\ PosterSound(p)
           /\ req[p].chat \in Chats /\ req[p].user \in Users /\ Rest(p) \in Request
           /\ Rest(p).chat = req[p].chat /\ Rest(p).user = req[p].user
<1>1. TypeOK /\ PosterSound(p) /\ pc[p] # "idle"
  BY DEF PostInv, PostLabels
<1> QED
  BY <1>1, RestTyped, TypeParts DEF Rest, Ask

LEMMA PostPermitStep ==
    ASSUME PostInv, NEW p \in Procs, PostPermit(p), Remember
    PROVE  PostInv'
<1>1. PICK c \in Chats, u \in Users :
        /\ c = req[p].chat /\ u = req[p].user /\ TypeOK /\ PosterSound(p)
        /\ Rest(p) \in Request /\ Rest(p).chat = c /\ Rest(p).user = u
  BY PosterKnows DEF PostPermit, PostLabels
<1>2. /\ pc[p] = "post_permit" /\ UNCHANGED <<kind, role, rows, cache, crashes, contested, posts>>
      /\ \/ Finish(p)
         \/ Goto(p, "post_create", Rest(p)) /\ Exists(c) /\ CanPost(c, u)
  BY <1>1 DEF PostPermit
<1>3. TypeOK'
  BY <1>1, <1>2, OnwardTyped DEF Labels
<1>4. CachesGrow /\ KindsMove /\ Frame(p)
  BY <1>1, <1>2 DEF CachesGrow, KindsMove, Frame, TypeOK, Finish, Goto
<1>5. CASE Finish(p)
  <2>1. pc'[p] = "idle"
    BY <1>1, <1>5 DEF Finish, TypeOK
  <2> QED
    BY <1>2, <1>3, <1>4, <2>1, SilentStep DEF PosterSound, PostLabels
<1>6. CASE Goto(p, "post_create", Rest(p)) /\ Exists(c) /\ CanPost(c, u)
  <2>1. pc'[p] = "post_create" /\ req'[p].chat = c /\ req'[p].user = u
    BY <1>1, <1>6 DEF Goto, TypeOK
  <2>2. kind[c] # "unused" /\ (kind[c] = "channel" => u \in everManager[c])
    BY <1>6 DEF Exists, Kinds, CanPost, PostInv, HistorySound, ManagersOf
  <2>3. u \in everMember'[c] /\ everManager[c] \subseteq everManager'[c]
    BY <1>1, <1>2, <1>4, HistoriesKept DEF PosterSound, PostLabels
  <2>4. PosterSound(p)'
    BY <1>1, <1>2, <2>1, <2>2, <2>3 DEF PosterSound, PostLabels
  <2> QED
    BY <1>2, <1>3, <1>4, <2>4, SilentStep
<1> QED
  BY <1>2, <1>5, <1>6

LEMMA PostCreateStep ==
    ASSUME PostInv, NEW p \in Procs, PostCreate(p), Remember
    PROVE  PostInv'
<1>0. PICK n \in Nat : n = Len(posts) + 1
  BY DEF PostInv
<1>1. PICK c \in Chats, u \in Users :
        /\ c = req[p].chat /\ u = req[p].user /\ TypeOK /\ PosterSound(p)
        /\ Rest(p) \in Request /\ Rest(p).chat = c /\ Rest(p).user = u
  BY PosterKnows DEF PostCreate, PostLabels
<1> DEFINE m == [chat |-> c, author |-> u, via |-> p, to |-> {}, sent |-> FALSE]
           r == [Rest(p) EXCEPT !.row = n]
<1>2. /\ pc[p] = "post_create" /\ UNCHANGED <<kind, role, rows, cache, crashes, contested>>
      /\ \/ Finish(p) /\ posts' = posts
         \/ Goto(p, "post_send", r) /\ posts' = Append(posts, m)
  BY <1>1, <1>0 DEF PostCreate
<1>3. posts \in Seq(Post) /\ m \in Post
  BY <1>1 DEF PostInv, Post
<1>4. r \in Request /\ r.chat = c /\ r.user = u /\ r.row = n
  BY <1>1, <1>3 DEF Request
<1>5. TypeOK'
  BY <1>1, <1>2, <1>4, OnwardTyped DEF Labels
<1>6. CachesGrow /\ KindsMove /\ Frame(p)
  BY <1>1, <1>2 DEF CachesGrow, KindsMove, Frame, TypeOK, Finish, Goto
<1>7. CASE Finish(p) /\ posts' = posts
  <2>1. pc'[p] = "idle"
    BY <1>1, <1>7 DEF Finish, TypeOK
  <2> QED
    BY <1>2, <1>5, <1>6, <1>7, <2>1, SilentStep DEF PosterSound, PostLabels
<1>8. CASE Goto(p, "post_send", r) /\ posts' = Append(posts, m)
  <2>1. pc'[p] = "post_send" /\ req'[p] = r
    BY <1>1, <1>8 DEF Goto, TypeOK
  <2>2. /\ posts' \in Seq(Post) /\ n \in DOMAIN posts' /\ posts'[n] = m
        /\ \A i \in DOMAIN posts' : i # n => i \in DOMAIN posts /\ posts'[i] = posts[i]
        /\ \A i \in DOMAIN posts : i \in DOMAIN posts' /\ posts'[i] = posts[i]
    BY <1>3, <1>0, <1>8
  <2>3. PostsStand
    BY <2>2 DEF PostsStand
  <2>4. /\ u \in everMember'[c] /\ everManager[c] \subseteq everManager'[c]
    BY <1>1, <1>2, <1>6, HistoriesKept DEF PosterSound, PostLabels
  <2>5. kind[c] # "unused" /\ (kind[c] = "channel" => u \in everManager[c])
    BY <1>1, <1>2 DEF PosterSound
  <2>6. posts'[n].chat = c /\ posts'[n].author = u /\ posts'[n].via = p
    BY <2>2
  <2>7. PosterSound(p)'
    <3>1. p \in Conns => cache[p][c].hit /\ u \in cache[p][c].ids
      BY <1>1, <1>2 DEF PosterSound, PostLabels
    <3> QED
      BY <1>2, <1>4, <2>1, <2>2, <2>4, <2>5, <2>6, <3>1 DEF PosterSound, PostLabels
  <2>8. PostSound(posts[n])'
    BY <1>2, <2>2, <2>4, <2>5 DEF PostSound
  <2>9. Delivered(n)'
    <3>1. req'[p].row = n
      BY <1>4, <2>1
    <3> QED
      BY <2>1, <2>6, <3>1 DEF Delivered
  <2> QED
    BY <1>2, <1>5, <1>6, <2>2, <2>3, <2>7, <2>8, <2>9, OnePostStep
<1> QED
  BY <1>2, <1>7, <1>8

\* Sending writes to whom the message went into its row, and into no other.
LEMMA RowWritten ==
    ASSUME posts \in Seq(Post), NEW n \in DOMAIN posts, NEW S \in SUBSET Users,
           posts' = [posts EXCEPT ![n].to = S, ![n].sent = TRUE]
    PROVE  /\ posts' \in Seq(Post) /\ n \in DOMAIN posts' /\ PostsStand
           /\ posts'[n] = [posts[n] EXCEPT !.to = S, !.sent = TRUE]
           /\ \A i \in DOMAIN posts' : i # n => i \in DOMAIN posts /\ posts'[i] = posts[i]
<1>1. /\ Len(posts) \in Nat /\ DOMAIN posts = 1..Len(posts)
      /\ posts \in [1..Len(posts) -> Post]
  OBVIOUS
<1>2. posts[n] \in Post
  BY <1>1
<1>3. [posts[n] EXCEPT !.to = S, !.sent = TRUE] \in Post
  BY <1>2 DEF Post
<1>4. posts' = [posts EXCEPT ![n] = [posts[n] EXCEPT !.to = S, !.sent = TRUE]]
  BY <1>1
<1>5. posts' \in [1..Len(posts) -> Post]
  BY <1>1, <1>3, <1>4
<1>6. posts' \in Seq(Post)
  <2>1. \A e \in Post : [posts EXCEPT ![n] = e] \in Seq(Post)
    BY <1>1, ExceptSeq, Zenon
  <2> QED
    BY <1>3, <1>4, <2>1, Zenon
<1>7. \A i \in DOMAIN posts : i # n => posts'[i] = posts[i]
  BY <1>1, <1>4
<1>8. posts'[n] = [posts[n] EXCEPT !.to = S, !.sent = TRUE]
  BY <1>1, <1>4
<1>9. /\ posts'[n].chat = posts[n].chat /\ posts'[n].author = posts[n].author
      /\ posts'[n].via = posts[n].via
  BY <1>2, <1>8 DEF Post
<1>10. DOMAIN posts' = DOMAIN posts
  BY <1>1, <1>5
<1>11. PostsStand
  BY <1>7, <1>9, <1>10 DEF PostsStand
<1> QED
  BY <1>6, <1>7, <1>8, <1>10, <1>11

\* The chat is gone: the handler gives up, and the message need not be sent.
LEMMA PostGoneStep ==
    ASSUME PostInv, NEW p \in Conns, pc[p] = "post_send", ~Exists(req[p].chat), Finish(p),
           UNCHANGED <<kind, role, rows, cache, crashes, contested, posts>>, Remember
    PROVE  PostInv'
<1>1. p \in Procs /\ TypeOK /\ PosterSound(p) /\ posts \in Seq(Post)
  BY DEF PostInv, Procs
<1>2. PICK n \in DOMAIN posts : n = req[p].row /\ posts[n].chat = req[p].chat
  BY <1>1 DEF PosterSound
<1>3. TypeOK'
  BY <1>1, OnwardTyped
<1>4. CachesGrow /\ KindsMove /\ Frame(p) /\ PostsStand
  BY <1>1 DEF CachesGrow, KindsMove, Frame, TypeOK, Finish, PostsStand
<1>5. pc'[p] = "idle"
  BY <1>1 DEF Finish, TypeOK
<1>6. PosterSound(p)'
  BY <1>5 DEF PosterSound, PostLabels
<1>7. PostSound(posts[n])'
  <2>1. PICK m \in Post : m = posts[n] /\ PostSound(m)
    BY <1>1 DEF PostInv
  <2>2. PostSound(m)'
    BY <1>4, <2>1, PostKept
  <2> QED
    BY <2>1, <2>2 DEF PostSound
<1>8. Delivered(n)'
  BY <1>2 DEF Delivered, Exists
<1> QED
  BY <1>1, <1>2, <1>3, <1>4, <1>6, <1>7, <1>8, OnePostStep

LEMMA PostSendStep ==
    ASSUME PostInv, NEW p \in Procs, Remember,
           \/ p \in Conns /\ PostSendWs(p) /\ Exists(req[p].chat)
           \/ p \in Workers /\ PostSendHttp(p)
    PROVE  PostInv'
<1>1. PICK c \in Chats, u \in Users :
        /\ c = req[p].chat /\ u = req[p].user /\ TypeOK /\ PosterSound(p)
        /\ Rest(p) \in Request /\ Rest(p).chat = c /\ Rest(p).user = u
  BY PosterKnows DEF PostSendWs, PostSendHttp, PostLabels
<1>2. PICK S \in SUBSET Users :
        /\ pc[p] = "post_send" /\ SendTo(p, S)
        /\ \/ p \in Conns /\ CacheUserIds(p, c) /\ S = ChatUserIds(p, c)
           \/ p \notin Conns /\ cache' = cache /\ S = Members(c)
  <2>1. CASE p \in Conns /\ PostSendWs(p) /\ Exists(c)
    <3>1. ChatUserIds(p, c) \in SUBSET Users
      BY <1>1, <2>1 DEF ChatUserIds, TypeOK, Members
    <3> QED
      BY <1>1, <2>1, <3>1 DEF PostSendWs, SendUnlessGone
  <2>2. CASE p \in Workers /\ PostSendHttp(p)
    BY <1>1, <2>2, ProcsAssumption DEF PostSendHttp, Members
  <2> QED
    BY <1>1, <2>1, <2>2
<1>3. PICK n \in DOMAIN posts :
        n = req[p].row /\ posts[n].chat = c /\ posts[n].author = u /\ posts[n].via = p
  BY <1>1, <1>2 DEF PosterSound
<1>4. /\ posts' = [posts EXCEPT ![n].to = S, ![n].sent = TRUE]
      /\ UNCHANGED <<kind, role, rows, crashes, contested>>
      /\ pc' = [pc EXCEPT ![p] = "idle"] /\ req' = [req EXCEPT ![p] = NoRequest]
  BY <1>2, <1>3 DEF SendTo, Finish
<1>5. posts \in Seq(Post) /\ posts[n] \in Post
  BY DEF PostInv
<1>6. /\ posts' \in Seq(Post) /\ n \in DOMAIN posts' /\ PostsStand
      /\ posts'[n] = [posts[n] EXCEPT !.to = S, !.sent = TRUE]
      /\ \A i \in DOMAIN posts' : i # n => i \in DOMAIN posts /\ posts'[i] = posts[i]
  BY <1>4, <1>5, RowWritten
<1>7. TypeOK'
  <2>1. TablesOK' /\ crashes' \in Nat /\ contested' \subseteq Chats
    BY <1>1, <1>4, TypeParts DEF TablesOK
  <2>2. HandlersOK'
    BY <1>1, <1>4, TypeParts, FinishTyped DEF Finish
  <2>3. CacheOK'
    BY <1>1, <1>2, TypeParts, CacheTyped DEF CacheOK
  <2> QED
    BY <2>1, <2>2, <2>3, TypeParts
<1>8. CachesGrow /\ \A l \in Conns \ {p} : cache'[l] = cache[l]
  <2>1. CASE cache' = cache
    BY <2>1 DEF CachesGrow
  <2> QED
    BY <1>1, <1>2, <2>1, CacheFrame
<1>9. KindsMove /\ Frame(p) /\ pc'[p] = "idle"
  BY <1>1, <1>4, <1>8 DEF KindsMove, Frame, TypeOK
<1>10. PosterSound(p)'
  BY <1>9 DEF PosterSound, PostLabels
<1>11. S \subseteq everMember'[c]
  <2>1. HistorySound(c)'
    BY <1>7, <1>8, HistoriesKept
  <2>2. CASE p \in Conns /\ CacheUserIds(p, c) /\ S = ChatUserIds(p, c)
    <3>1. cache'[p][c].hit /\ cache'[p][c].ids = S
      BY <1>1, <2>2 DEF TypeOK, CacheUserIds, Cached
    <3> QED
      BY <2>1, <2>2, <3>1 DEF HistorySound
  <2>3. CASE S = Members(c)
    BY <1>8, <2>3, HistoriesKept DEF PostInv, HistorySound
  <2> QED
    BY <1>2, <2>2, <2>3
<1>12. PostSound(posts[n])'
  <2>1. /\ posts'[n].chat = c /\ posts'[n].author = u /\ posts'[n].via = p
        /\ posts'[n].to = S
    BY <1>3, <1>5, <1>6 DEF Post
  <2>2. u \in everMember'[c] /\ everManager[c] \subseteq everManager'[c]
    BY <1>1, <1>2, <1>8, HistoriesKept DEF PosterSound, PostLabels
  <2>3. kind[c] # "unused" /\ (kind[c] = "channel" => u \in everManager[c])
    BY <1>1, <1>2 DEF PosterSound
  <2>4. p \in Conns => u \in S
    BY <1>1, <1>2 DEF PosterSound, PostLabels, ChatUserIds
  <2> QED
    BY <1>4, <1>11, <2>1, <2>2, <2>3, <2>4 DEF PostSound
<1>13. Delivered(n)'
  BY <1>5, <1>6 DEF Delivered, Post
<1> QED
  BY <1>3, <1>4, <1>6, <1>7, <1>8, <1>9, <1>10, <1>12, <1>13, OnePostStep

-----------------------------------------------------------------------------

LEMMA PostInitInv == PostInit => PostInv
<1> SUFFICES ASSUME PostInit PROVE PostInv
  OBVIOUS
<1>1. TypeOK /\ posts = <<>>
  BY TypeInit DEF PostInit
<1>2. \A c \in Chats : HistorySound(c)
  BY DEF PostInit, Init, HistorySound, Members, ManagersOf, Managers, Uncached
<1>3. \A p \in Procs : PosterSound(p)
  BY DEF PostInit, Init, PosterSound, PostLabels
<1> QED
  BY <1>1, <1>2, <1>3 DEF PostInv, PostInit

LEMMA PostStepInv == PostInv /\ [PostNext]_postVars => PostInv'
<1> SUFFICES ASSUME PostInv, [PostNext]_postVars PROVE PostInv'
  OBVIOUS
<1>1. CASE UNCHANGED postVars
  <2>1. TypeOK'
    BY <1>1 DEF postVars, PostInv, TypeOK
  <2> QED
    BY <1>1, <2>1 DEF postVars, PostInv, HistorySound, PosterSound, PostSound, Delivered, Exists,
       Members, ManagersOf
<1>2. ASSUME NEW p \in Conns, PostSendWs(p), ~Exists(req[p].chat), Remember PROVE PostInv'
  BY <1>2, PostGoneStep DEF PostSendWs, SendUnlessGone
<1>3. CASE PostNext
  BY <1>2, <1>3, MembershipStep, PostCheckWsStep, PostCheckHttpStep, PostPermitStep, PostCreateStep,
     PostSendStep DEF PostNext, PostStep, PostContinue
<1> QED
  BY <1>1, <1>3

\* What cached lists and posting handlers hold of the chats' histories stays true.
THEOREM PostInvHolds == PostSpec => []PostInv
BY PostInitInv, PostStepInv, PTL DEF PostSpec

\* However stale the lists, a chat's messages come from people who belong or have belonged
\* to it and go to nobody else (handle_chat_message, broadcast_message_to_chat_users).
THEOREM PostsAmongMembers == PostSpec => []PostsStayAmongMembers
<1>1. PostInv => PostsStayAmongMembers
  BY DEF PostInv, PostSound, PostsStayAmongMembers, Posts
<1> QED
  BY <1>1, PostInvHolds, PTL

\* Only somebody who is or was in charge of a channel gets a message into it, whatever
\* happens between the permission and the row (user_can_post_in_chat).
THEOREM ChannelsReadOnly == PostSpec => []ChannelsStayReadOnly
<1>1. PostInv => ChannelsStayReadOnly
  BY DEF PostInv, PostSound, ChannelsStayReadOnly, Posts
<1> QED
  BY <1>1, PostInvHolds, PTL

\* Who sends over a WebSocket is sent the message back, unless the chat or a process ends
\* first: the list that admitted the sender is still cached when the message goes out.
THEOREM AuthorsHearBack == PostSpec => []WsAuthorHearsBack
<1>1. PostInv => WsAuthorHearsBack
  BY DEF PostInv, PostSound, Delivered, WsAuthorHearsBack
<1> QED
  BY <1>1, PostInvHolds, PTL
=============================================================================
