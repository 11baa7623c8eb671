------------------------ MODULE ChatMembershipProofs -------------------------
(***************************************************************************)
(* Proofs about ChatMembership, for any users, chats, connections and      *)
(* worker threads.                                                         *)
(***************************************************************************)
EXTENDS ChatMembership, TLAPS

\* The part of TypeOK that is about the handlers.
HandlersOK ==
    /\ pc \in [Procs -> Labels]
    /\ req \in [Procs -> Request \cup {NoRequest}]
    /\ \A p \in Procs : pc[p] # "idle" => req[p] \in Request

\* The parts of TypeOK that are about the tables and about the member lists.
TablesOK ==
    /\ kind \in [Chats -> Kinds \cup {"unused", "deleted"}]
    /\ role \in [Chats -> [Users -> Roles \cup {"none"}]]
    /\ rows \in [Chats -> [Users -> Nat]]
CacheOK == cache \in [Conns -> [Chats -> [hit : BOOLEAN, ids : SUBSET Users]]]

\* Locals that mention existing users and chats are well-formed.
LEMMA AskTyped ==
    ASSUME NEW u \in Users, NEW c \in Chats
    PROVE  Ask(u, c) \in Request
BY DEF Ask, Request, Roles

\* A process that moves to a label with well-formed locals leaves all handlers
\* well-formed.
LEMMA GotoTyped ==
    ASSUME HandlersOK, NEW p \in Procs, NEW l \in Labels, NEW r \in Request,
           pc' = [pc EXCEPT ![p] = l], req' = [req EXCEPT ![p] = r]
    PROVE  HandlersOK'
BY DEF HandlersOK

\* So does one that ends its request.
LEMMA FinishTyped ==
    ASSUME HandlersOK, NEW p \in Procs, Finish(p)
    PROVE  HandlersOK'
BY DEF HandlersOK, Finish, Labels

\* Inserting rows of a proper role keeps the table well-formed.
LEMMA InsertRowsTyped ==
    ASSUME TypeOK, NEW c \in Chats, NEW S \in SUBSET Users, NEW r \in Roles, InsertRows(c, S, r)
    PROVE  UNCHANGED kind => TablesOK'
BY DEF TypeOK, TablesOK, InsertRows

\* So does deleting one row.
LEMMA DeleteRowTyped ==
    ASSUME TypeOK, NEW c \in Chats, NEW u \in Users, DeleteRow(c, u)
    PROVE  UNCHANGED kind => TablesOK'
BY DEF TypeOK, TablesOK, DeleteRow

\* So does deleting a chat.
LEMMA DeleteChatTyped ==
    ASSUME TypeOK, NEW c \in Chats, DeleteChat(c)
    PROVE  TablesOK'
BY DEF TypeOK, TablesOK, DeleteChat

\* Popping or filling a member list, or emptying a whole cache, leaves it well-formed.
LEMMA CacheTyped ==
    ASSUME TypeOK, NEW k \in Conns, NEW c \in Chats,
           \/ PopCache(k, c)
           \/ CacheUserIds(k, c)
           \/ \E S \in SUBSET Users : cache' = [cache EXCEPT ![k][c] = Cached(S)]
           \/ cache' = [cache EXCEPT ![k] = [d \in Chats |-> Uncached]]
    PROVE  CacheOK'
<1> DEFINE Entry == [hit : BOOLEAN, ids : SUBSET Users]
<1>1. /\ Uncached \in Entry
      /\ \A S \in SUBSET Users : Cached(S) \in Entry
  BY DEF Uncached, Cached
<1>2. cache \in [Conns -> [Chats -> Entry]]
  BY DEF TypeOK
<1>3. Cached(ChatUserIds(k, c)) \in Entry
  <2>1. ChatUserIds(k, c) \in SUBSET Users
    BY <1>2 DEF ChatUserIds, Members
  <2> QED
    BY <1>1, <2>1
<1> HIDE DEF Entry
<1>4. \A e \in Entry : [cache EXCEPT ![k][c] = e] \in [Conns -> [Chats -> Entry]]
  BY <1>2
<1>5. [cache EXCEPT ![k] = [d \in Chats |-> Uncached]] \in [Conns -> [Chats -> Entry]]
  BY <1>1, <1>2
<1>6. cache' \in [Conns -> [Chats -> Entry]]
  BY <1>1, <1>3, <1>4, <1>5 DEF PopCache, CacheUserIds
<1> QED
  BY <1>6 DEF Entry, CacheOK

LEMMA TypeParts ==
    /\ TypeOK <=> TablesOK /\ CacheOK /\ HandlersOK /\ crashes \in Nat /\ contested \subseteq Chats
    /\ TypeOK' <=> /\ TablesOK' /\ CacheOK' /\ HandlersOK'
                   /\ crashes' \in Nat /\ contested' \subseteq Chats
BY DEF TypeOK, TablesOK, CacheOK, HandlersOK

LEMMA TypeInit == Init => TypeOK
BY DEF Init, TypeOK, Labels, Kinds, Roles, Request, NoRequest, Uncached

\* Beginning a request and going on with one, in terms of the lemmas above.
LEMMA BeginTyped ==
    ASSUME HandlersOK, NEW p \in Procs, NEW verb, NEW l \in Labels, NEW r \in Request,
           Begin(p, verb, l, r)
    PROVE  HandlersOK'
BY GotoTyped DEF Begin

LEMMA RestTyped ==
    ASSUME HandlersOK, NEW p \in Procs, pc[p] # "idle"
    PROVE  /\ req[p] \in Request
           /\ Rest(p) \in Request
           /\ req[p].user \in Users /\ req[p].chat \in Chats /\ req[p].target \in Users
           /\ req[p].batch \in SUBSET Users /\ req[p].grant \in {"admin", "subscriber"}
           /\ req[p].row \in Nat
           /\ req[p].actorRole \in Roles \cup {"none"}
<1>1. req[p] \in Request
  BY DEF HandlersOK
<1>2. /\ req[p].user \in Users /\ req[p].chat \in Chats /\ req[p].target \in Users
      /\ req[p].batch \in SUBSET Users /\ req[p].grant \in {"admin", "subscriber"}
      /\ req[p].row \in Nat
      /\ req[p].actorRole \in Roles \cup {"none"}
  BY <1>1 DEF Request
<1> QED
  BY <1>1, <1>2, AskTyped DEF Rest

\* Creating a chat and its owner's row, joining and leaving.
LEMMA CreateTyped ==
    ASSUME TypeOK, NEW p \in Procs, NEW u \in Users, NEW c \in Chats, NEW k \in Kinds,
           CreateChat(p, u, c, k)
    PROVE  TypeOK'
<1>1. HandlersOK'
  BY TypeParts, BeginTyped, AskTyped DEF CreateChat, Labels
<1>2. TablesOK'
  BY DEF CreateChat, TypeOK, TablesOK, Kinds
<1> QED
  BY <1>1, <1>2, TypeParts DEF CreateChat, CacheOK

LEMMA CreateOwnerTyped ==
    ASSUME TypeOK, NEW p \in Procs, CreateOwner(p)
    PROVE  TypeOK'
<1> DEFINE c == req[p].chat
           u == req[p].user
<1>1. c \in Chats /\ u \in Users /\ Rest(p) \in Request
  BY TypeParts, RestTyped DEF CreateOwner
<1>2. HandlersOK'
  BY <1>1, TypeParts, FinishTyped, GotoTyped DEF CreateOwner, Goto, Labels
<1>3. TablesOK'
  BY <1>1, TypeParts, InsertRowsTyped, "owner" \in Roles DEF CreateOwner, TablesOK, Roles
<1>4. contested' \subseteq Chats
  BY <1>1, TypeParts DEF CreateOwner
<1> QED
  BY <1>2, <1>3, <1>4, TypeParts DEF CreateOwner, CacheOK

LEMMA CreatePrimeTyped ==
    ASSUME TypeOK, NEW k \in Conns, CreatePrime(k)
    PROVE  TypeOK'
<1>1. req[k].chat \in Chats /\ {req[k].user} \in SUBSET Users /\ k \in Procs
  BY TypeParts, RestTyped DEF CreatePrime, Procs
<1>2. CacheOK'
  BY <1>1, TypeParts, CacheTyped DEF CreatePrime, CacheOK
<1> QED
  BY <1>1, <1>2, TypeParts, FinishTyped DEF CreatePrime, TablesOK

LEMMA JoinLeaveTyped ==
    ASSUME TypeOK, NEW p \in Procs, NEW u \in Users, NEW c \in Chats,
           JoinGet(p, u, c) \/ LeaveRead(p, u, c)
    PROVE  TypeOK'
<1>1. Ask(u, c) \in Request /\ [Ask(u, c) EXCEPT !.row = rows[c][u]] \in Request
  <2>1. Ask(u, c) \in Request /\ rows[c][u] \in Nat
    BY AskTyped DEF TypeOK
  <2> QED
    BY <2>1 DEF Request
<1>2. HandlersOK'
  BY <1>1, TypeParts, BeginTyped DEF JoinGet, LeaveRead, Labels
<1> QED
  BY <1>2, TypeParts DEF JoinGet, LeaveRead, TablesOK, CacheOK

\* Every step that only moves its process on, or ends the request.
LEMMA OnwardTyped ==
    ASSUME TypeOK, NEW p \in Procs, pc[p] # "idle",
           UNCHANGED <<kind, role, rows, cache, crashes, contested>>,
           \/ Finish(p)
           \/ \E l \in Labels, r \in Request : Goto(p, l, r)
    PROVE  TypeOK'
<1>1. HandlersOK'
  BY TypeParts, FinishTyped, GotoTyped DEF Goto
<1> QED
  BY <1>1, TypeParts DEF TablesOK, CacheOK

LEMMA JoinInsertTyped ==
    ASSUME TypeOK, NEW p \in Procs, JoinInsert(p)
    PROVE  TypeOK'
<1> DEFINE c == req[p].chat
           u == req[p].user
<1>1. c \in Chats /\ u \in Users /\ {u} \in SUBSET Users
  BY TypeParts, RestTyped DEF JoinInsert
<1>2. TablesOK'
  BY <1>1, TypeParts, InsertRowsTyped, DefaultRole(c) \in Roles DEF JoinInsert, TablesOK, DefaultRole, Roles
<1> QED
  BY <1>2, TypeParts, FinishTyped DEF JoinInsert, CacheOK

\* Removing: by way of the rows and of the list.
LEMMA DeleteStepTyped ==
    ASSUME TypeOK, NEW p \in Procs, (RemoveDelete(p) /\ p \in Conns) \/ LeaveDelete(p)
    PROVE  TypeOK'
<1>1. pc[p] # "idle" /\ req[p].chat \in Chats /\ req[p].user \in Users /\ req[p].target \in Users
      /\ Rest(p) \in Request
  BY TypeParts, RestTyped DEF RemoveDelete, LeaveDelete
<1>2. HandlersOK'
  BY <1>1, TypeParts, GotoTyped DEF RemoveDelete, LeaveDelete, Goto, Labels
<1>3. TablesOK'
  BY <1>1, TypeParts, DeleteRowTyped DEF RemoveDelete, LeaveDelete, TablesOK
<1>4. CacheOK'
  BY <1>1, TypeParts, CacheTyped DEF RemoveDelete, LeaveDelete, CacheOK
<1> QED
  BY <1>2, <1>3, <1>4, TypeParts DEF RemoveDelete, LeaveDelete

LEMMA DissolveTyped ==
    ASSUME TypeOK, NEW p \in Procs, pc[p] # "idle",
           Dissolve(p) \/ (DeleteChatCommit(p) /\ p \in Conns)
    PROVE  TypeOK'
<1>1. req[p].chat \in Chats
  BY TypeParts, RestTyped
<1>2. HandlersOK'
  BY TypeParts, FinishTyped DEF Dissolve, DeleteChatCommit
<1>3. TablesOK'
  BY <1>1, DeleteChatTyped DEF Dissolve, DeleteChatCommit
<1>4. CacheOK'
  BY <1>1, TypeParts, CacheTyped DEF Dissolve, DeleteChatCommit, CacheOK
<1> QED
  BY <1>2, <1>3, <1>4, TypeParts DEF Dissolve, DeleteChatCommit

\* The steps of a request under way.
LEMMA WorkerContinueTyped ==
    ASSUME TypeOK, NEW p \in Procs, WorkerContinue(p)
    PROVE  TypeOK'
<1>1. CASE LeaveCount(p)
  <2>1. pc[p] # "idle" /\ Rest(p) \in Request
    BY <1>1, TypeParts, RestTyped DEF LeaveCount
  <2> QED
    BY <1>1, <2>1, OnwardTyped DEF LeaveCount, CountRemaining, Labels
<1> QED
  BY <1>1, JoinInsertTyped, DeleteStepTyped, DissolveTyped DEF WorkerContinue, LeaveDissolve

LEMMA ConnContinueTyped ==
    ASSUME TypeOK, NEW k \in Conns, ConnContinue(k)
    PROVE  TypeOK'
<1> DEFINE c == req[k].chat
<1>1. pc[k] # "idle" /\ k \in Procs
  BY DEF ConnContinue, CreatePrime, AddCommit, Broadcast, RemoveReadTarget, RemoveDelete, RemoveCount,
         RemoveDissolve, SetRoleReadTarget, SetRoleWrite, DeleteChatVerify, DeleteChatCommit, Procs
<1>2. /\ c \in Chats /\ req[k].batch \in SUBSET Users /\ req[k].target \in Users
      /\ req[k].grant \in Roles
      /\ Rest(k) \in Request
      /\ [Rest(k) EXCEPT !.target = req[k].target] \in Request
      /\ [Rest(k) EXCEPT !.target = req[k].target, !.grant = req[k].grant,
                         !.row = rows[c][req[k].target]] \in Request
  <2>1. /\ c \in Chats /\ req[k].batch \in SUBSET Users /\ req[k].target \in Users
        /\ req[k].grant \in {"admin", "subscriber"} /\ Rest(k) \in Request
    BY <1>1, TypeParts, RestTyped
  <2>2. rows[c][req[k].target] \in Nat
    BY <2>1, TypeParts DEF TablesOK
  <2> QED
    BY <2>1, <2>2 DEF Request, Roles
<1>3. CASE AddCommit(k)
  <2>1. HandlersOK'
    BY <1>1, <1>2, <1>3, TypeParts, GotoTyped, FinishTyped DEF AddCommit, Goto, Labels
  <2>2. TablesOK'
    BY <1>2, <1>3, TypeParts, InsertRowsTyped, "member" \in Roles DEF AddCommit, TablesOK, Roles
  <2>3. CacheOK'
    BY <1>2, <1>3, TypeParts, CacheTyped DEF AddCommit, CacheOK
  <2> QED
    BY <1>3, <2>1, <2>2, <2>3, TypeParts DEF AddCommit
<1>4. CASE Broadcast(k)
  <2>1. CacheOK'
    BY <1>2, <1>4, TypeParts, CacheTyped DEF Broadcast, CacheOK
  <2> QED
    BY <1>1, <1>4, <2>1, TypeParts, FinishTyped DEF Broadcast, TablesOK
<1>5. CASE SetRoleWrite(k)
  <2>1. HandlersOK'
    BY <1>1, <1>2, <1>5, TypeParts, GotoTyped, FinishTyped DEF SetRoleWrite, Goto, Labels
  <2>2. TablesOK'
    <3>1. [role EXCEPT ![c][req[k].target] = req[k].grant]
              \in [Chats -> [Users -> Roles \cup {"none"}]]
      BY <1>2, TypeParts DEF TablesOK
    <3>2. role' = role \/ role' = [role EXCEPT ![c][req[k].target] = req[k].grant]
      BY <1>5 DEF SetRoleWrite
    <3> QED
      BY <1>5, <3>1, <3>2, TypeParts DEF SetRoleWrite, TablesOK
  <2>3. CacheOK'
    BY <1>2, <1>5, TypeParts, CacheTyped DEF SetRoleWrite, CacheOK
  <2> QED
    BY <1>5, <2>1, <2>2, <2>3, TypeParts DEF SetRoleWrite
<1>6. CASE RemoveReadTarget(k) \/ RemoveCount(k) \/ SetRoleReadTarget(k) \/ DeleteChatVerify(k)
  BY <1>1, <1>2, <1>6, OnwardTyped
     DEF RemoveReadTarget, RemoveCount, CountRemaining, SetRoleReadTarget, DeleteChatVerify, Labels
<1>7. CASE RemoveDissolve(k) \/ DeleteChatCommit(k)
  BY <1>1, <1>7, DissolveTyped DEF RemoveDissolve
<1> QED
  BY <1>1, <1>3, <1>4, <1>5, <1>6, <1>7, DeleteStepTyped, CreatePrimeTyped
     DEF ConnContinue

\* The requests.
LEMMA UserInChatTyped ==
    ASSUME TypeOK, NEW k \in Conns, NEW c \in Chats, NEW verb, NEW l \in Labels,
           UserInChat(k, c, verb, l)
    PROVE  TypeOK'
<1>1. k \in Procs /\ UserOf[k] \in Users /\ Ask(UserOf[k], c) \in Request
  BY UserOfAssumption, AskTyped DEF Procs
<1>2. HandlersOK'
  BY <1>1, TypeParts, BeginTyped DEF UserInChat, HandlersOK
<1>3. CacheOK'
  BY CacheTyped DEF UserInChat
<1> QED
  BY <1>2, <1>3, TypeParts DEF UserInChat, TablesOK

LEMMA ConnRequestTyped ==
    ASSUME TypeOK, NEW k \in Conns, ConnRequest(k)
    PROVE  TypeOK'
<1>1. PICK c \in Chats :
        \/ \E S \in SUBSET Users : AddCheck(k, c, S)
        \/ \E t \in Users : RemoveReadActor(k, c, t)
        \/ \E t \in Users, g \in {"admin", "subscriber"} : SetRoleReadActor(k, c, t, g)
        \/ DeleteChatCheck(k, c)
  BY DEF ConnRequest
<1> DEFINE u == UserOf[k]
<1>2. k \in Procs /\ u \in Users /\ Ask(u, c) \in Request /\ role[c][u] \in Roles \cup {"none"}
  BY UserOfAssumption, AskTyped DEF Procs, TypeOK
<1> HIDE DEF u
<1>3. /\ \A S \in SUBSET Users : [Ask(u, c) EXCEPT !.batch = S] \in Request
      /\ \A t \in Users : [Ask(u, c) EXCEPT !.target = t, !.actorRole = role[c][u]] \in Request
      /\ \A t \in Users, g \in {"admin", "subscriber"} :
           [Ask(u, c) EXCEPT !.target = t, !.grant = g, !.actorRole = role[c][u]] \in Request
  BY <1>2 DEF Request
<1>4. ASSUME NEW S \in SUBSET Users, AddCheck(k, c, S) PROVE TypeOK'
  <2>1. HandlersOK'
    BY <1>2, <1>3, <1>4, TypeParts, BeginTyped, \A new \in SUBSET S : new \in SUBSET Users
       DEF AddCheck, Labels, u
  <2> QED
    BY <1>4, <2>1, TypeParts DEF AddCheck, TablesOK, CacheOK
<1>5. ASSUME NEW t \in Users, RemoveReadActor(k, c, t) PROVE TypeOK'
  <2>1. HandlersOK'
    BY <1>2, <1>3, <1>5, TypeParts, BeginTyped DEF RemoveReadActor, Labels, u
  <2> QED
    BY <1>5, <2>1, TypeParts DEF RemoveReadActor, TablesOK, CacheOK
<1>6. ASSUME NEW t \in Users, NEW g \in {"admin", "subscriber"}, SetRoleReadActor(k, c, t, g)
      PROVE  TypeOK'
  <2>1. HandlersOK'
    BY <1>2, <1>3, <1>6, TypeParts, BeginTyped DEF SetRoleReadActor, Labels, u
  <2> QED
    BY <1>6, <2>1, TypeParts DEF SetRoleReadActor, TablesOK, CacheOK
<1>7. CASE DeleteChatCheck(k, c)
  BY <1>7, UserInChatTyped, "delete_verify" \in Labels DEF DeleteChatCheck, Labels
<1> QED
  BY <1>1, <1>4, <1>5, <1>6, <1>7

LEMMA CrashTyped ==
    ASSUME TypeOK, NEW p \in Procs, Crash(p)
    PROVE  TypeOK'
<1>1. CacheOK'
  <2>1. PICK c : c \in Chats
    BY TypeParts, RestTyped DEF Crash
  <2> QED
    BY <2>1, TypeParts, CacheTyped DEF Crash, CacheOK
<1>2. crashes' \in Nat
  BY DEF Crash, TypeOK
<1> QED
  BY <1>1, <1>2, TypeParts, FinishTyped DEF Crash, TablesOK

LEMMA ReconnectTyped ==
    ASSUME TypeOK, NEW k \in Conns, Reconnect(k)
    PROVE  TypeOK'
<1>1. CacheOK'
  BY DEF Reconnect, TypeOK, CacheOK, Uncached
<1> QED
  BY <1>1, TypeParts DEF Reconnect, TablesOK, HandlersOK

LEMMA TypeStep == TypeOK /\ [Next]_vars => TypeOK'
<1> SUFFICES ASSUME TypeOK, [Next]_vars PROVE TypeOK'
  OBVIOUS
<1>1. CASE UNCHANGED vars
  BY <1>1 DEF vars, TypeOK
<1>2. CASE \E p \in Workers : WorkerRequest(p)
  BY <1>2, JoinLeaveTyped DEF WorkerRequest, Procs
<1>3. CASE \E k \in Conns : ConnRequest(k) \/ Reconnect(k)
  BY <1>3, ConnRequestTyped, ReconnectTyped
<1>4. CASE \E p \in Procs : Continue(p) \/ Crash(p)
  BY <1>4, CreateOwnerTyped, ConnContinueTyped, WorkerContinueTyped, CrashTyped DEF Continue
<1> QED
  BY <1>1, <1>2, <1>3, <1>4, CreateTyped DEF Next

\* Every variable keeps to its type, whatever the handlers do between each other's steps.
THEOREM TypeCorrect == Spec => []TypeOK
BY TypeInit, TypeStep, PTL DEF Spec

-----------------------------------------------------------------------------
(* Governance is inductive, whoever comes in before the owner's row is in.  *)
(* A step of process p on chat c changes nothing that concerns the other    *)
(* chats, and of what the other processes rely on it could only change who  *)
(* owns c and who is in charge of it.                                       *)

\* Governance, chat by chat and process by process.
ChatSound(c) ==
    /\ kind[c] = "unused" =>
          /\ c \notin contested
          /\ \A u \in Users : role[c][u] = "none"
          /\ \A k \in Conns : cache[k][c] = Uncached
          /\ \A p \in Procs : ~Busy(p, c)
    /\ kind[c] = "deleted" => \A u \in Users : role[c][u] = "none"
    /\ \A u \in Users : role[c][u] # "none" => rows[c][u] > 0
    /\ kind[c] = "channel" =>
          /\ \A u \in Users : role[c][u] # "member"
          /\ \A u, v \in Users : role[c][u] = "owner" /\ role[c][v] = "owner" => u = v
          /\ c \notin contested /\ (\E u \in Users : role[c][u] \in Managers) => Owned(c)

RequestSound(p) ==
    pc[p] # "idle" =>
        LET c == req[p].chat
            u == req[p].user
            t == req[p].target IN
        /\ pc[p] = "add_commit" => kind[c] # "channel"
        /\ pc[p] \in {"set_target", "set_write"} =>
               kind[c] # "group" /\ (kind[c] = "channel" /\ c \notin contested => Owned(c))
        /\ pc[p] = "remove_delete" => rows[c][t] > 0
        /\ pc[p] = "leave_delete" => req[p].row <= rows[c][u]
        /\ pc[p] = "set_write" => req[p].row <= rows[c][t]
        /\ kind[c] = "channel" =>
             /\ pc[p] = "set_write" /\ RowAlive(c, t, req[p].row) => role[c][t] # "owner"
             /\ pc[p] = "leave_delete" /\ RowAlive(c, u, req[p].row) => role[c][u] # "owner"
             /\ c \notin contested =>
                  /\ pc[p] = "remove_delete" => role[c][t] # "owner"
                  /\ pc[p] = "set_target" /\ req[p].actorRole = "owner" => role[c][u] = "owner"
                  /\ pc[p] = "set_write" /\ req[p].grant = "subscriber" => role[c][u] = "owner"

LEMMA GovernanceParts ==
    /\ Governance <=> /\ TypeOK /\ FounderAlone
                      /\ \A c \in Chats : ChatSound(c)
                      /\ \A p \in Procs : RequestSound(p)
    /\ Governance' <=> /\ TypeOK' /\ FounderAlone'
                       /\ \A c \in Chats : ChatSound(c)'
                       /\ \A p \in Procs : RequestSound(p)'
<1>1. Governance <=> /\ TypeOK /\ FounderAlone
                     /\ \A c \in Chats : ChatSound(c)
                     /\ \A p \in Procs : RequestSound(p)
  <2>1. /\ UnusedUntouched /\ DeletedEmpty /\ ChannelRoles /\ ChannelGoverned
        /\ (\A c \in Chats, u \in Users : role[c][u] # "none" => rows[c][u] > 0)
        <=> \A c \in Chats : ChatSound(c)
    BY DEF UnusedUntouched, DeletedEmpty, ChannelRoles, ChannelGoverned, ChatSound, Owned
  <2>2. /\ RightKind /\ OwnerSpared /\ SettersBacked
        /\ (\A p \in Procs :
              /\ pc[p] = "remove_delete" => rows[req[p].chat][req[p].target] > 0
              /\ pc[p] = "leave_delete" => req[p].row <= rows[req[p].chat][req[p].user]
              /\ pc[p] = "set_write" => req[p].row <= rows[req[p].chat][req[p].target])
        <=> \A p \in Procs : RequestSound(p)
    BY DEF RightKind, OwnerSpared, SettersBacked, RequestSound
  <2> QED
    BY <2>1, <2>2 DEF Governance, RowsCounted
<1>2. (Governance <=> /\ TypeOK /\ FounderAlone
                      /\ \A c \in Chats : ChatSound(c)
                      /\ \A p \in Procs : RequestSound(p))'
  BY <1>1, PTL
<1> QED
  BY <1>1, <1>2

\* p's step is about chat c only.
Confined(p, c) ==
    /\ \A q \in Procs \ {p} : pc'[q] = pc[q] /\ req'[q] = req[q]
    /\ \A d \in Chats \ {c} :
          /\ kind'[d] = kind[d] /\ role'[d] = role[d] /\ rows'[d] = rows[d]
          /\ d \in contested' <=> d \in contested
          /\ \A k \in Conns : cache'[k][d] = cache[k][d] \/ cache'[k][d] = Uncached
    /\ pc'[p] # "idle" => req'[p].chat = c

\* It gives c no owner and no first manager, and takes its owner away only with the chat
\* or where that is contested.
Unobtrusive(c) ==
    /\ kind'[c] \in {kind[c], "deleted"}
    /\ c \in contested' <=> c \in contested
    /\ \A u \in Users : rows'[c][u] >= rows[c][u]
    /\ \A u \in Users : role'[c][u] = "owner" => role[c][u] = "owner"
    /\ kind'[c] = "channel" /\ c \notin contested =>
           \A u \in Users : role[c][u] = "owner" => role'[c][u] = "owner"
    /\ c \notin contested /\ (\A u \in Users : role[c][u] \notin Managers) =>
           \A u \in Users : role'[c][u] \notin Managers

LEMMA OtherChatsSound ==
    ASSUME Governance, NEW p \in Procs, NEW c \in Chats, Confined(p, c),
           NEW d \in Chats \ {c}
    PROVE  ChatSound(d)'
<1>1. /\ ChatSound(d) /\ kind'[d] = kind[d] /\ role'[d] = role[d] /\ rows'[d] = rows[d]
      /\ d \in contested' <=> d \in contested
  BY GovernanceParts DEF Confined
<1>2. ASSUME kind[d] = "unused" PROVE \A q \in Procs : ~Busy(q, d)'
  BY <1>1, <1>2 DEF Confined, ChatSound, Busy
<1>3. ASSUME kind[d] = "unused" PROVE \A k \in Conns : cache'[k][d] = Uncached
  BY <1>1, <1>3 DEF Confined, ChatSound
<1>4. Owned(d)' <=> Owned(d)
  BY <1>1 DEF Owned
<1> QED
  BY <1>1, <1>2, <1>3, <1>4 DEF ChatSound

LEMMA OtherRequestsSound ==
    ASSUME Governance, NEW p \in Procs, NEW c \in Chats, Confined(p, c), Unobtrusive(c),
           TypeOK', NEW q \in Procs \ {p}
    PROVE  RequestSound(q)'
<1> SUFFICES ASSUME pc[q] # "idle" PROVE RequestSound(q)'
  BY DEF RequestSound, Confined
<1> DEFINE d == req[q].chat
           n == req[q].row
<1>1. /\ pc'[q] = pc[q] /\ req'[q] = req[q] /\ RequestSound(q)
      /\ d \in Chats /\ req[q].user \in Users /\ req[q].target \in Users /\ n \in Nat
  BY GovernanceParts, TypeParts, RestTyped DEF Confined
<1>2. /\ kind'[d] \in {kind[d], "deleted"}
      /\ d \in contested' <=> d \in contested
      /\ \A u \in Users : role'[d][u] = "owner" => role[d][u] = "owner"
      /\ kind'[d] = "channel" /\ d \notin contested =>
            \A u \in Users : role[d][u] = "owner" => role'[d][u] = "owner"
  BY <1>1 DEF Confined, Unobtrusive
<1>3. \A u \in Users : rows[d][u] \in Nat /\ rows'[d][u] \in Nat /\ rows'[d][u] >= rows[d][u]
  <2>1. \A u \in Users : rows[d][u] \in Nat /\ rows'[d][u] \in Nat
    BY <1>1, GovernanceParts DEF TypeOK
  <2>2. rows'[d] = rows[d] \/ \A u \in Users : rows'[d][u] >= rows[d][u]
    BY <1>1 DEF Confined, Unobtrusive
  <2> QED
    BY <2>1, <2>2
<1>4. kind'[d] = "channel" /\ d \notin contested /\ Owned(d) => Owned(d)'
  BY <1>1, <1>2 DEF Owned
<1>5. ASSUME NEW u \in Users, n <= rows[d][u], RowAlive(d, u, n) => role[d][u] # "owner",
             RowAlive(d, u, n)'
      PROVE  role'[d][u] # "owner"
  BY <1>1, <1>2, <1>3, <1>5 DEF RowAlive
<1>6. kind'[d] = "channel" => kind[d] = "channel"
  BY <1>2
<1>7. ASSUME pc[q] = "set_write", kind'[d] = "channel", RowAlive(d, req[q].target, n)'
      PROVE  role'[d][req[q].target] # "owner"
  BY <1>1, <1>5, <1>6, <1>7 DEF RequestSound
<1>8. ASSUME pc[q] = "leave_delete", kind'[d] = "channel", RowAlive(d, req[q].user, n)'
      PROVE  role'[d][req[q].user] # "owner"
  BY <1>1, <1>5, <1>6, <1>8 DEF RequestSound
<1>9. /\ pc[q] = "remove_delete" => rows'[d][req[q].target] > 0
      /\ pc[q] = "leave_delete" => n <= rows'[d][req[q].user]
      /\ pc[q] = "set_write" => n <= rows'[d][req[q].target]
  BY <1>1, <1>3 DEF RequestSound
<1> QED
  BY <1>1, <1>2, <1>4, <1>6, <1>7, <1>8, <1>9 DEF RequestSound, RowAlive

\* A step on c leaves those who are creating a chat alone if they are creating another
\* one, or if it puts nobody in charge of c.
NobodyElseCreates(p, c) ==
    \A q \in Procs \ {p} : pc[q] = "create_owner" => req[q].chat # c

LEMMA OtherFoundersAlone ==
    ASSUME Governance, NEW p \in Procs, NEW c \in Chats, Confined(p, c),
           NobodyElseCreates(p, c) \/ Unobtrusive(c), pc'[p] # "create_owner"
    PROVE  FounderAlone'
<1> SUFFICES ASSUME NEW q \in Procs, pc'[q] = "create_owner"
             PROVE  LET d == req'[q].chat IN
                    /\ d \notin contested'
                    /\ \A u \in Users : role'[d][u] \notin Managers
                    /\ \A r \in Procs \ {q} : ~(pc'[r] = "create_owner" /\ req'[r].chat = d)
  BY DEF FounderAlone
<1> DEFINE d == req[q].chat
<1>1. q # p /\ pc[q] = "create_owner" /\ req'[q] = req[q] /\ d \in Chats
  BY GovernanceParts, TypeParts, RestTyped DEF Confined
<1>2. /\ d \notin contested
      /\ \A u \in Users : role[d][u] \notin Managers
      /\ \A r \in Procs \ {q} : ~(pc[r] = "create_owner" /\ req[r].chat = d)
  BY <1>1, GovernanceParts DEF FounderAlone
<1>3. \A r \in Procs \ {q} : ~(pc'[r] = "create_owner" /\ req'[r].chat = d)
  BY <1>2 DEF Confined
<1>4. d \notin contested' /\ \A u \in Users : role'[d][u] \notin Managers
  BY <1>1, <1>2 DEF Confined, NobodyElseCreates, Unobtrusive
<1> QED
  BY <1>1, <1>3, <1>4

\* What a step on c has to show.
LEMMA StepSound ==
    ASSUME Governance, TypeOK', NEW p \in Procs, NEW c \in Chats, Confined(p, c), Unobtrusive(c),
           pc'[p] # "create_owner", ChatSound(c)', RequestSound(p)'
    PROVE  Governance'
<1>1. \A d \in Chats : ChatSound(d)'
  BY OtherChatsSound
<1>2. \A q \in Procs : RequestSound(q)'
  BY OtherRequestsSound
<1> QED
  BY <1>1, <1>2, OtherFoundersAlone, GovernanceParts

\* What a step on c has to show that leaves the tables as they are.
LEMMA QuietStepSound ==
    ASSUME Governance, TypeOK', NEW p \in Procs, NEW c \in Chats, Confined(p, c),
           UNCHANGED <<kind, role, rows, contested>>, kind[c] # "unused",
           pc'[p] # "create_owner", RequestSound(p)'
    PROVE  Governance'
<1>1. Unobtrusive(c)
  BY GovernanceParts DEF Unobtrusive, TypeOK
<1>2. ChatSound(c)'
  BY GovernanceParts DEF ChatSound, Owned
<1> QED
  BY <1>1, <1>2, StepSound

\* A process at work is at work on a chat that has been created.
LEMMA BusyKnows ==
    ASSUME Governance, NEW p \in Procs, pc[p] # "idle"
    PROVE  /\ req[p] \in Request /\ req[p].chat \in Chats /\ req[p].user \in Users
           /\ req[p].target \in Users /\ req[p].batch \in SUBSET Users
           /\ req[p].grant \in {"admin", "subscriber"} /\ req[p].row \in Nat
           /\ Rest(p).chat = req[p].chat /\ Rest(p).user = req[p].user
           /\ Rest(p) \in Request
           /\ Busy(p, req[p].chat)
           /\ kind[req[p].chat] # "unused"
           /\ RequestSound(p) /\ ChatSound(req[p].chat)
<1>1. /\ req[p] \in Request /\ req[p].chat \in Chats /\ req[p].user \in Users
      /\ req[p].target \in Users /\ req[p].batch \in SUBSET Users
      /\ req[p].grant \in {"admin", "subscriber"} /\ req[p].row \in Nat /\ Rest(p) \in Request
  BY GovernanceParts, TypeParts, RestTyped
<1>2. Rest(p).chat = req[p].chat /\ Rest(p).user = req[p].user
  BY DEF Rest, Ask
<1> QED
  BY <1>1, <1>2, GovernanceParts DEF Busy, ChatSound

\* Moving on to a label that nothing is asked of.
LEMMA OnwardSound ==
    ASSUME Governance, TypeOK', NEW p \in Procs, pc[p] # "idle",
           UNCHANGED <<kind, role, rows, contested>>,
           \A q \in Procs \ {p} : pc'[q] = pc[q] /\ req'[q] = req[q],
           \A d \in Chats \ {req[p].chat}, k \in Conns :
               cache'[k][d] = cache[k][d] \/ cache'[k][d] = Uncached,
           \/ pc'[p] = "idle"
           \/ pc'[p] \in {"broadcast", "remove_count", "remove_dissolve", "delete_commit",
                          "leave_count", "leave_dissolve"}
              /\ req'[p].chat = req[p].chat
    PROVE  Governance'
<1> DEFINE c == req[p].chat
<1>1. Confined(p, c)
  BY DEF Confined
<1>2. RequestSound(p)'
  BY DEF RequestSound
<1> QED
  BY <1>1, <1>2, BusyKnows, QuietStepSound

\* The requests of a connection.
LEMMA UserInChatSound ==
    ASSUME Governance, TypeOK', NEW k \in Conns, NEW c \in Chats,
           DeleteChatCheck(k, c)
    PROVE  Governance'
<1> DEFINE u == UserOf[k]
<1>1. /\ k \in Procs /\ u \in Users /\ pc[k] = "idle" /\ UNCHANGED <<kind, role, rows, contested>>
      /\ CacheUserIds(k, c) /\ TypeOK
      /\ IF u \in ChatUserIds(k, c) THEN Begin(k, "delete_chat", "delete_verify", Ask(u, c))
                                    ELSE UNCHANGED <<pc, req>>
  BY UserOfAssumption, GovernanceParts DEF DeleteChatCheck, UserInChat, Procs
<1>2. kind[c] # "unused"
  BY GovernanceParts DEF DeleteChatCheck, UserInChat, Exists, ChatSound, Uncached, Kinds
<1>3. \A d \in Chats \ {c}, l \in Conns : cache'[l][d] = cache[l][d]
  BY <1>1 DEF CacheUserIds, TypeOK
<1>4. \/ UNCHANGED <<pc, req>>
      \/ pc' = [pc EXCEPT ![k] = "delete_verify"] /\ req' = [req EXCEPT ![k] = Ask(u, c)]
  BY <1>1 DEF Begin
<1>5. Confined(k, c)
  BY <1>1, <1>3, <1>4 DEF Confined, Ask, TypeOK
<1>6. RequestSound(k)' /\ pc'[k] # "create_owner"
  BY <1>1, <1>4 DEF RequestSound, TypeOK
<1> QED
  BY <1>1, <1>2, <1>5, <1>6, QuietStepSound

LEMMA ConnRequestSound ==
    ASSUME Governance, TypeOK', NEW k \in Conns, ConnRequest(k)
    PROVE  Governance'
<1>1. PICK c \in Chats :
        \/ \E S \in SUBSET Users : AddCheck(k, c, S)
        \/ \E t \in Users : RemoveReadActor(k, c, t)
        \/ \E t \in Users, g \in {"admin", "subscriber"} : SetRoleReadActor(k, c, t, g)
        \/ DeleteChatCheck(k, c)
  BY DEF ConnRequest
<1> DEFINE u == UserOf[k]
<1>2. k \in Procs /\ u \in Users /\ TypeOK /\ ChatSound(c)
  BY UserOfAssumption, GovernanceParts DEF Procs
<1>3. ASSUME NEW S \in SUBSET Users, AddCheck(k, c, S) PROVE Governance'
  <2>1. /\ kind[c] = "group" /\ UNCHANGED <<kind, role, rows, cache, contested>>
        /\ pc' = [pc EXCEPT ![k] = "add_commit"]
        /\ \E new : req' = [req EXCEPT ![k] = [Ask(u, c) EXCEPT !.batch = new]]
    BY <1>3 DEF AddCheck, Begin
  <2>2. Confined(k, c) /\ RequestSound(k)' /\ pc'[k] # "create_owner"
    BY <1>2, <2>1 DEF Confined, RequestSound, Ask, TypeOK
  <2> QED
    BY <1>2, <2>1, <2>2, QuietStepSound
<1>4. ASSUME NEW t \in Users, RemoveReadActor(k, c, t) PROVE Governance'
  <2>1. /\ kind[c] # "unused" /\ UNCHANGED <<kind, role, rows, cache, contested>>
        /\ pc' = [pc EXCEPT ![k] = "remove_target"]
        /\ req' = [req EXCEPT ![k] = [Ask(u, c) EXCEPT !.target = t, !.actorRole = role[c][u]]]
    BY <1>4 DEF RemoveReadActor, Begin, Exists, Kinds
  <2>2. Confined(k, c) /\ RequestSound(k)' /\ pc'[k] # "create_owner"
    BY <1>2, <2>1 DEF Confined, RequestSound, Ask, TypeOK
  <2> QED
    BY <1>2, <2>1, <2>2, QuietStepSound
<1>5. ASSUME NEW t \in Users, NEW g \in {"admin", "subscriber"}, SetRoleReadActor(k, c, t, g)
      PROVE  Governance'
  <2>1. /\ kind[c] = "channel" /\ role[c][u] \in Managers
        /\ UNCHANGED <<kind, role, rows, cache, contested>>
        /\ pc' = [pc EXCEPT ![k] = "set_target"]
        /\ req' = [req EXCEPT ![k] = [Ask(u, c) EXCEPT !.target = t, !.grant = g,
                                                      !.actorRole = role[c][u]]]
    BY <1>5 DEF SetRoleReadActor, Begin
  <2>2. c \notin contested => Owned(c)'
    BY <1>2, <2>1 DEF ChatSound, Owned
  <2>3. Confined(k, c) /\ pc'[k] = "set_target"
    BY <1>2, <2>1 DEF Confined, Ask, TypeOK
  <2>4. req'[k].chat = c /\ req'[k].user = u /\ req'[k].actorRole = role[c][u]
    BY <1>2, <2>1 DEF Ask, TypeOK
  <2>5. RequestSound(k)'
    BY <1>2, <2>1, <2>2, <2>3, <2>4 DEF RequestSound, Owned
  <2> QED
    BY <1>2, <2>1, <2>3, <2>5, QuietStepSound
<1> QED
  BY <1>1, <1>3, <1>4, <1>5, UserInChatSound

\* The requests of a worker.
LEMMA WorkerRequestSound ==
    ASSUME Governance, TypeOK', NEW p \in Workers, WorkerRequest(p)
    PROVE  Governance'
<1>1. PICK u \in Users, c \in Chats : JoinGet(p, u, c) \/ LeaveRead(p, u, c)
  BY DEF WorkerRequest
<1>2. p \in Procs /\ TypeOK
  BY GovernanceParts DEF Procs
<1>3. CASE JoinGet(p, u, c)
  <2>1. /\ kind[c] # "unused" /\ UNCHANGED <<kind, role, rows, cache, contested>>
        /\ pc' = [pc EXCEPT ![p] = "join_insert"] /\ req' = [req EXCEPT ![p] = Ask(u, c)]
    BY <1>3 DEF JoinGet, Begin, Exists, Kinds
  <2>2. Confined(p, c) /\ RequestSound(p)' /\ pc'[p] # "create_owner"
    BY <1>2, <2>1 DEF Confined, RequestSound, Ask, TypeOK
  <2> QED
    BY <1>2, <2>1, <2>2, QuietStepSound
<1>4. CASE LeaveRead(p, u, c)
  <2>1. /\ Exists(c) /\ role[c][u] # "none" /\ ~(kind[c] = "channel" /\ role[c][u] = "owner")
        /\ UNCHANGED <<kind, role, rows, cache, contested>>
        /\ pc' = [pc EXCEPT ![p] = "leave_delete"]
        /\ req' = [req EXCEPT ![p] = [Ask(u, c) EXCEPT !.row = rows[c][u]]]
    BY <1>4 DEF LeaveRead, Begin
  <2>2. /\ Confined(p, c) /\ pc'[p] = "leave_delete" /\ req'[p].chat = c /\ req'[p].user = u
        /\ req'[p].row = rows[c][u] /\ rows[c][u] \in Nat
    BY <1>2, <2>1 DEF Confined, Ask, TypeOK
  <2>3. RequestSound(p)'
    BY <2>1, <2>2 DEF RequestSound
  <2> QED
    BY <1>2, <2>1, <2>2, <2>3, QuietStepSound DEF Exists, Kinds
<1> QED
  BY <1>1, <1>3, <1>4

\* Creating a chat: nobody knows it yet.
LEMMA CreateChatSound ==
    ASSUME Governance, TypeOK', NEW p \in Procs, NEW u \in Users, NEW c \in Chats, NEW k \in Kinds,
           CreateChat(p, u, c, k)
    PROVE  Governance'
<1>1. /\ kind[c] = "unused" /\ pc[p] = "idle" /\ TypeOK
      /\ kind' = [kind EXCEPT ![c] = k] /\ UNCHANGED <<role, rows, cache, contested>>
      /\ pc' = [pc EXCEPT ![p] = "create_owner"] /\ req' = [req EXCEPT ![p] = Ask(u, c)]
  BY GovernanceParts DEF CreateChat, Begin
<1>2. /\ c \notin contested
      /\ \A v \in Users : role[c][v] = "none"
      /\ \A q \in Procs : pc[q] # "idle" => req[q].chat # c
  BY <1>1, GovernanceParts DEF ChatSound, Busy
<1>3. /\ Confined(p, c) /\ pc'[p] = "create_owner" /\ req'[p].chat = c
      /\ kind'[c] = k
  BY <1>1 DEF Confined, TypeOK, Ask
<1>4. \A d \in Chats : ChatSound(d)'
  <2>1. ChatSound(c)'
    BY <1>1, <1>2, <1>3 DEF ChatSound, Kinds, Managers
  <2> QED
    BY <1>3, <2>1, OtherChatsSound
<1>5. ASSUME NEW q \in Procs PROVE RequestSound(q)'
  <2>1. CASE q = p
    BY <1>3, <2>1 DEF RequestSound
  <2>2. CASE q # p /\ pc[q] # "idle"
    <3>1. req[q].chat \in Chats /\ req[q].chat # c /\ RequestSound(q)
      BY <1>2, <2>2, BusyKnows
    <3>2. kind'[req[q].chat] = kind[req[q].chat] /\ pc'[q] = pc[q] /\ req'[q] = req[q]
      BY <1>3, <2>2, <3>1 DEF Confined
    <3> QED
      BY <1>1, <3>1, <3>2 DEF RequestSound, Owned, RowAlive
  <2>3. CASE q # p /\ pc[q] = "idle"
    BY <1>3, <2>3 DEF RequestSound, Confined
  <2> QED
    BY <2>1, <2>2, <2>3
<1>6. FounderAlone'
  <2> SUFFICES ASSUME NEW q \in Procs, pc'[q] = "create_owner"
               PROVE  LET d == req'[q].chat IN
                      /\ d \notin contested'
                      /\ \A v \in Users : role'[d][v] \notin Managers
                      /\ \A r \in Procs \ {q} : ~(pc'[r] = "create_owner" /\ req'[r].chat = d)
    BY DEF FounderAlone
  <2>1. CASE q = p
    BY <1>1, <1>2, <1>3, <2>1 DEF Confined, Managers
  <2>2. CASE q # p
    <3>1. pc[q] = "create_owner" /\ req'[q] = req[q] /\ req[q].chat \in Chats \ {c}
      BY <1>2, <1>3, <2>2, BusyKnows DEF Confined
    <3>2. LET d == req[q].chat IN
          /\ d \notin contested
          /\ \A v \in Users : role[d][v] \notin Managers
          /\ \A r \in Procs \ {q} : ~(pc[r] = "create_owner" /\ req[r].chat = d)
      BY <3>1, GovernanceParts DEF FounderAlone
    <3>3. \A r \in Procs \ {q} : ~(pc'[r] = "create_owner" /\ req'[r].chat = req[q].chat)
      BY <1>3, <3>1, <3>2 DEF Confined
    <3> QED
      BY <1>1, <3>1, <3>2, <3>3
  <2> QED
    BY <2>1, <2>2
<1> QED
  BY <1>4, <1>5, <1>6, GovernanceParts

\* The owner's row goes into a chat that nobody is in charge of.  Nobody is setting a
\* role there, whoever is leaving goes by an older row, and who is about to remove the
\* owner by an older decision makes the chat contested.
LEMMA CreateOwnerSound ==
    ASSUME Governance, TypeOK', NEW p \in Procs, CreateOwner(p)
    PROVE  Governance'
<1>0. PICK c \in Chats, u \in Users :
        c = req[p].chat /\ u = req[p].user /\ Rest(p).chat = c /\ kind[c] # "unused"
  BY BusyKnows DEF CreateOwner
<1>1. /\ pc[p] = "create_owner" /\ TypeOK /\ UNCHANGED <<kind, cache>>
      /\ \/ pc' = [pc EXCEPT ![p] = "idle"] /\ req' = [req EXCEPT ![p] = NoRequest]
         \/ pc' = [pc EXCEPT ![p] = "create_prime"] /\ req' = [req EXCEPT ![p] = Rest(p)]
  BY GovernanceParts DEF CreateOwner, Finish, Goto
<1>2. /\ \A q \in Procs \ {p} : pc'[q] = pc[q] /\ req'[q] = req[q]
      /\ pc'[p] \in {"idle", "create_prime"}
      /\ pc'[p] # "idle" => req'[p].chat = c
  BY <1>0, <1>1 DEF TypeOK
<1>3. CASE ~(Exists(c) /\ role[c][u] = "none")
  <2>1. UNCHANGED <<role, rows, contested>> /\ pc' = [pc EXCEPT ![p] = "idle"]
    BY <1>0, <1>3 DEF CreateOwner, Finish
  <2>2. pc'[p] = "idle"
    BY <1>1, <2>1 DEF TypeOK
  <2> QED
    BY <1>1, <1>2, <2>1, <2>2, OnwardSound
<1>4. CASE Exists(c) /\ role[c][u] = "none"
  <2>1. /\ InsertRows(c, {u}, "owner")
        /\ contested' = IF RemovalPending(c, u) THEN contested \cup {c} ELSE contested
    BY <1>0, <1>4 DEF CreateOwner
  <2>2. /\ c \notin contested
        /\ \A v \in Users : role[c][v] \notin Managers
        /\ \A q \in Procs \ {p} : ~(pc[q] = "create_owner" /\ req[q].chat = c)
    BY <1>0, <1>1, GovernanceParts DEF FounderAlone
  <2>3. /\ \A v \in Users : role'[c][v] = IF v = u THEN "owner" ELSE role[c][v]
        /\ \A v \in Users : rows'[c][v] = IF v = u THEN rows[c][v] + 1 ELSE rows[c][v]
        /\ \A d \in Chats \ {c} : role'[d] = role[d] /\ rows'[d] = rows[d]
        /\ \A v \in Users : rows[c][v] \in Nat
    BY <1>1, <2>1 DEF InsertRows, TypeOK
  <2>4. Confined(p, c) /\ NobodyElseCreates(p, c)
    BY <1>1, <1>2, <2>1, <2>2, <2>3 DEF Confined, NobodyElseCreates
  <2>5. \A v \in Users : role'[c][v] = "owner" <=> v = u
    BY <2>2, <2>3 DEF Managers
  <2>6. ChatSound(c)'
    <3>1. ChatSound(c) /\ kind'[c] \in Kinds
      BY <1>1, <1>4, GovernanceParts DEF Exists
    <3>2. Owned(c)'
      BY <2>5 DEF Owned
    <3>3. \A v \in Users : role'[c][v] # "none" => rows'[c][v] > 0
      BY <2>3, <3>1 DEF ChatSound
    <3>4. kind'[c] = "channel" => \A v \in Users : role'[c][v] # "member"
      BY <1>1, <2>3, <3>1 DEF ChatSound
    <3> QED
      BY <2>5, <3>1, <3>2, <3>3, <3>4 DEF ChatSound, Kinds
  <2>7. \A d \in Chats : ChatSound(d)'
    BY <2>4, <2>6, OtherChatsSound
  <2>8. ASSUME NEW q \in Procs PROVE RequestSound(q)'
    <3>1. CASE q = p
      BY <1>2, <3>1 DEF RequestSound
    <3>2. CASE q # p /\ pc[q] # "idle" /\ req[q].chat # c
      <4>1. /\ req[q].chat \in Chats /\ RequestSound(q) /\ pc'[q] = pc[q] /\ req'[q] = req[q]
        BY <1>2, <3>2, BusyKnows
      <4>2. /\ role'[req[q].chat] = role[req[q].chat] /\ kind'[req[q].chat] = kind[req[q].chat]
            /\ rows'[req[q].chat] = rows[req[q].chat]
            /\ req[q].chat \in contested' <=> req[q].chat \in contested
        BY <2>4, <3>2, <4>1 DEF Confined
      <4> QED
        BY <4>1, <4>2 DEF RequestSound, Owned, RowAlive
    <3>3. CASE q # p /\ pc[q] # "idle" /\ req[q].chat = c
      <4>1. /\ RequestSound(q) /\ pc'[q] = pc[q] /\ req'[q] = req[q] /\ kind'[c] = kind[c]
            /\ req[q].user \in Users /\ req[q].target \in Users /\ req[q].row \in Nat
        BY <1>1, <1>2, <3>3, BusyKnows
      <4>2. Owned(c)'
        BY <2>5 DEF Owned
      <4>3. ~Owned(c)
        BY <2>2 DEF Owned, Managers
      <4>4. kind[c] = "channel" => pc[q] \notin {"set_target", "set_write"}
        BY <2>2, <3>3, <4>1, <4>3 DEF RequestSound
      <4>5. pc[q] \in {"set_target", "set_write"} => kind[c] # "group"
        BY <3>3, <4>1 DEF RequestSound
      <4>6. pc[q] \notin {"set_target", "set_write"}
        BY <1>4, <4>4, <4>5 DEF Exists, Kinds
      <4>7. ASSUME pc[q] = "leave_delete"
            PROVE  /\ req[q].row <= rows'[c][req[q].user]
                   /\ RowAlive(c, req[q].user, req[q].row)' => role'[c][req[q].user] # "owner"
        <5>1. req[q].row <= rows[c][req[q].user]
          BY <3>3, <4>1, <4>7 DEF RequestSound
        <5>2. CASE req[q].user = u
          BY <2>3, <4>1, <5>1, <5>2 DEF RowAlive
        <5>3. CASE req[q].user # u
          BY <2>3, <2>5, <4>1, <5>1, <5>3
        <5> QED
          BY <5>2, <5>3
      <4>8. ASSUME pc[q] = "remove_delete"
            PROVE  /\ rows'[c][req[q].target] > 0
                   /\ c \notin contested' => role'[c][req[q].target] # "owner"
        <5>1. rows[c][req[q].target] > 0
          BY <3>3, <4>1, <4>8 DEF RequestSound
        <5>2. rows'[c][req[q].target] > 0
          BY <2>3, <4>1, <5>1
        <5>3. c \notin contested' => req[q].target # u
          BY <2>1, <3>3, <4>8 DEF RemovalPending
        <5> QED
          BY <2>5, <4>1, <5>2, <5>3
      <4>9. pc[q] = "add_commit" => kind[c] # "channel"
        BY <3>3, <4>1 DEF RequestSound
      <4> QED
        BY <3>3, <4>1, <4>6, <4>7, <4>8, <4>9 DEF RequestSound, RowAlive
    <3>4. CASE q # p /\ pc[q] = "idle"
      BY <1>2, <3>4 DEF RequestSound
    <3> QED
      BY <3>1, <3>2, <3>3, <3>4
  <2> QED
    BY <1>2, <2>4, <2>7, <2>8, OtherFoundersAlone, GovernanceParts
<1> QED
  BY <1>3, <1>4

\* Rows of the default role may go into any chat.
LEMMA InsertSound ==
    ASSUME Governance, TypeOK', NEW p \in Procs, pc[p] # "idle",
           NEW c \in Chats, c = req[p].chat,
           NEW S \in SUBSET Users, NEW r \in Roles,
           Exists(c), \A u \in S : role[c][u] = "none",
           InsertRows(c, S, r),
           kind[c] = "channel" => r = "subscriber", r \notin Managers,
           Confined(p, c), UNCHANGED <<kind, contested>>,
           pc'[p] \in {"idle", "broadcast"}
    PROVE  Governance'
<1>1. c \in Chats /\ ChatSound(c) /\ TypeOK
  BY BusyKnows, GovernanceParts
<1>2. \A u \in Users : role'[c][u] = IF u \in S THEN r ELSE role[c][u]
  BY <1>1 DEF InsertRows, TypeOK
<1>3. \A u \in Users : /\ rows[c][u] \in Nat
                       /\ rows'[c][u] = IF u \in S THEN rows[c][u] + 1 ELSE rows[c][u]
  BY <1>1 DEF InsertRows, TypeOK
<1>4. Unobtrusive(c)
  BY <1>1, <1>2, <1>3 DEF Unobtrusive, Managers
<1>5. ChatSound(c)'
  <2>1. \A u \in Users : role'[c][u] = "owner" <=> role[c][u] = "owner"
    BY <1>2 DEF Managers
  <2>2. (\E u \in Users : role'[c][u] \in Managers) => \E u \in Users : role[c][u] \in Managers
    BY <1>2
  <2>3. \A u \in Users : role'[c][u] # "none" => rows'[c][u] > 0
    BY <1>1, <1>2, <1>3 DEF ChatSound
  <2>4. Owned(c)' <=> Owned(c)
    BY <2>1 DEF Owned
  <2>5. kind[c] = "channel" => \A u \in Users : role'[c][u] # "member"
    BY <1>1, <1>2 DEF ChatSound
  <2> QED
    BY <1>1, <2>1, <2>2, <2>3, <2>4, <2>5 DEF ChatSound, Exists, Kinds
<1>6. RequestSound(p)' /\ pc'[p] # "create_owner"
  BY DEF RequestSound
<1> QED
  BY <1>1, <1>4, <1>5, <1>6, StepSound

\* Roles other than the owner's may be taken away, and those of a group; the owner's, too,
\* where it is contested.
LEMMA DeleteRowSound ==
    ASSUME Governance, TypeOK', NEW p \in Procs, pc[p] # "idle",
           NEW c \in Chats, c = req[p].chat,
           NEW u \in Users, DeleteRow(c, u),
           kind[c] = "channel" /\ c \notin contested => role[c][u] # "owner",
           Confined(p, c), UNCHANGED <<kind, contested>>,
           pc'[p] \in {"remove_count", "leave_count"}
    PROVE  Governance'
<1>1. c \in Chats /\ ChatSound(c) /\ TypeOK /\ kind[c] # "unused"
  BY BusyKnows, GovernanceParts
<1>2. /\ \A v \in Users : role'[c][v] = IF v = u THEN "none" ELSE role[c][v]
      /\ \A v \in Users : rows[c][v] \in Nat /\ rows'[c][v] = rows[c][v]
  BY <1>1 DEF DeleteRow, TypeOK
<1>3. Unobtrusive(c)
  BY <1>1, <1>2 DEF Unobtrusive, Managers
<1>4. ChatSound(c)'
  <2>1. (\E v \in Users : role'[c][v] \in Managers) => \E v \in Users : role[c][v] \in Managers
    BY <1>2 DEF Managers
  <2>2. kind[c] = "channel" /\ c \notin contested /\ Owned(c) => Owned(c)'
    BY <1>2 DEF Owned
  <2> QED
    BY <1>1, <1>2, <2>1, <2>2 DEF ChatSound
<1>5. RequestSound(p)' /\ pc'[p] # "create_owner"
  BY DEF RequestSound
<1> QED
  BY <1>1, <1>3, <1>4, <1>5, StepSound

LEMMA DeleteChatSound ==
    ASSUME Governance, TypeOK', NEW p \in Procs, pc[p] # "idle",
           NEW c \in Chats, c = req[p].chat,
           DeleteChat(c), UNCHANGED contested, Confined(p, c), pc'[p] = "idle"
    PROVE  Governance'
<1>1. c \in Chats /\ TypeOK
  BY BusyKnows, GovernanceParts
<1>2. /\ kind'[c] = "deleted" /\ \A v \in Users : role'[c][v] = "none"
      /\ \A v \in Users : rows[c][v] \in Nat /\ rows'[c][v] = rows[c][v]
  BY <1>1 DEF DeleteChat, TypeOK
<1>3. Unobtrusive(c) /\ ChatSound(c)'
  BY <1>2 DEF Unobtrusive, ChatSound, Managers
<1>4. RequestSound(p)' /\ pc'[p] # "create_owner"
  BY DEF RequestSound
<1> QED
  BY <1>1, <1>3, <1>4, StepSound

\* The steps of a request under way.
LEMMA WorkerContinueSound ==
    ASSUME Governance, TypeOK', NEW p \in Workers, WorkerContinue(p)
    PROVE  Governance'
<1>1. p \in Procs /\ TypeOK /\ pc[p] # "idle" /\ p \notin Conns
  BY GovernanceParts, ProcsAssumption
     DEF Procs, WorkerContinue, JoinInsert, LeaveDelete, LeaveCount, LeaveDissolve
<1>2. PICK c \in Chats, u \in Users :
        c = req[p].chat /\ u = req[p].user /\ Rest(p).chat = c /\ ChatSound(c) /\ RequestSound(p)
  BY <1>1, BusyKnows
<1>3. CASE JoinInsert(p)
  <2>1. /\ pc[p] = "join_insert" /\ UNCHANGED <<kind, cache, contested>>
        /\ pc' = [pc EXCEPT ![p] = "idle"] /\ req' = [req EXCEPT ![p] = NoRequest]
        /\ \/ UNCHANGED <<role, rows>>
           \/ Exists(c) /\ role[c][u] = "none" /\ InsertRows(c, {u}, DefaultRole(c))
    BY <1>2, <1>3 DEF JoinInsert, Finish
  <2>2. pc'[p] = "idle" /\ \A q \in Procs \ {p} : pc'[q] = pc[q] /\ req'[q] = req[q]
    BY <1>1, <2>1 DEF TypeOK
  <2>3. CASE UNCHANGED <<role, rows>>
    BY <1>1, <2>1, <2>2, <2>3, OnwardSound
  <2>4. CASE Exists(c) /\ role[c][u] = "none" /\ InsertRows(c, {u}, DefaultRole(c))
    <3>1. Confined(p, c)
      BY <1>1, <2>1, <2>2, <2>4 DEF Confined, InsertRows, TypeOK
    <3>2. /\ DefaultRole(c) \in Roles /\ DefaultRole(c) \notin Managers
          /\ kind[c] = "channel" => DefaultRole(c) = "subscriber"
      BY DEF DefaultRole, Roles, Managers
    <3>3. {u} \in SUBSET Users /\ \A v \in {u} : role[c][v] = "none"
      BY <2>4
    <3> QED
      BY <1>1, <1>2, <2>1, <2>2, <2>4, <3>1, <3>2, <3>3, InsertSound
  <2> QED
    BY <2>1, <2>3, <2>4
<1>4. CASE LeaveDelete(p)
  <2>1. /\ pc[p] = "leave_delete" /\ UNCHANGED <<kind, cache, contested>>
        /\ pc' = [pc EXCEPT ![p] = "leave_count"] /\ req' = [req EXCEPT ![p] = Rest(p)]
        /\ \/ UNCHANGED <<role, rows>>
           \/ RowAlive(c, u, req[p].row) /\ DeleteRow(c, u)
    BY <1>2, <1>4 DEF LeaveDelete, Goto
  <2>2. /\ pc'[p] = "leave_count" /\ req'[p].chat = c
        /\ \A q \in Procs \ {p} : pc'[q] = pc[q] /\ req'[q] = req[q]
    BY <1>1, <1>2, <2>1 DEF TypeOK
  <2>3. CASE UNCHANGED <<role, rows>>
    BY <1>1, <1>2, <2>1, <2>2, <2>3, OnwardSound
  <2>4. CASE RowAlive(c, u, req[p].row) /\ DeleteRow(c, u)
    <3>1. Confined(p, c)
      BY <1>1, <2>1, <2>2, <2>4 DEF Confined, DeleteRow, TypeOK
    <3>2. kind[c] = "channel" => role[c][u] # "owner"
      BY <1>1, <1>2, <2>1, <2>4 DEF RequestSound
    <3> QED
      BY <1>1, <1>2, <2>1, <2>2, <2>4, <3>1, <3>2, DeleteRowSound
  <2> QED
    BY <2>1, <2>3, <2>4
<1>5. CASE LeaveCount(p)
  <2>1. /\ pc[p] = "leave_count" /\ UNCHANGED <<kind, role, rows, cache, contested>>
        /\ \/ pc' = [pc EXCEPT ![p] = "idle"] /\ req' = [req EXCEPT ![p] = NoRequest]
           \/ pc' = [pc EXCEPT ![p] = "leave_dissolve"] /\ req' = [req EXCEPT ![p] = Rest(p)]
    BY <1>5 DEF LeaveCount, CountRemaining, Goto, Finish
  <2>2. /\ pc'[p] = "idle" \/ (pc'[p] = "leave_dissolve" /\ req'[p].chat = c)
        /\ \A q \in Procs \ {p} : pc'[q] = pc[q] /\ req'[q] = req[q]
    BY <1>1, <1>2, <2>1 DEF TypeOK
  <2> QED
    BY <1>1, <1>2, <2>1, <2>2, OnwardSound
<1>6. CASE LeaveDissolve(p)
  <2>1. /\ pc[p] = "leave_dissolve" /\ UNCHANGED <<cache, contested>> /\ DeleteChat(c)
        /\ pc' = [pc EXCEPT ![p] = "idle"] /\ req' = [req EXCEPT ![p] = NoRequest]
    BY <1>2, <1>6 DEF LeaveDissolve, Dissolve, Finish
  <2>2. pc'[p] = "idle" /\ Confined(p, c)
    BY <1>1, <2>1 DEF TypeOK, DeleteChat, Confined
  <2> QED
    BY <1>1, <1>2, <2>1, <2>2, DeleteChatSound
<1> QED
  BY <1>3, <1>4, <1>5, <1>6 DEF WorkerContinue

\* A target's row is about to be deleted only if it is not the owner's.
LEMMA RemoveReadTargetSound ==
    ASSUME Governance, TypeOK', NEW k \in Conns, RemoveReadTarget(k)
    PROVE  Governance'
<1>1. k \in Procs /\ TypeOK /\ pc[k] = "remove_target"
  BY GovernanceParts DEF Procs, RemoveReadTarget
<1>2. PICK c \in Chats :
        /\ c = req[k].chat /\ Rest(k).chat = c /\ kind[c] # "unused" /\ ChatSound(c)
        /\ req[k].user \in Users /\ req[k].target \in Users
  BY <1>1, BusyKnows
<1>3. UNCHANGED <<kind, role, rows, cache, contested>>
  BY DEF RemoveReadTarget
<1>4. CASE ~MayRemove(c, req[k].user, req[k].actorRole, req[k].target)
  <2>1. pc' = [pc EXCEPT ![k] = "idle"] /\ req' = [req EXCEPT ![k] = NoRequest]
    BY <1>2, <1>4 DEF RemoveReadTarget, Finish
  <2>2. pc'[k] = "idle" /\ \A q \in Procs \ {k} : pc'[q] = pc[q] /\ req'[q] = req[q]
    BY <1>1, <2>1 DEF TypeOK
  <2> QED
    BY <1>1, <1>3, <2>2, OnwardSound
<1>5. CASE MayRemove(c, req[k].user, req[k].actorRole, req[k].target)
  <2>1. /\ pc' = [pc EXCEPT ![k] = "remove_delete"]
        /\ req' = [req EXCEPT ![k] = [Rest(k) EXCEPT !.target = req[k].target]]
    BY <1>2, <1>5 DEF RemoveReadTarget, Goto
  <2>2. pc'[k] = "remove_delete" /\ req'[k].chat = c /\ req'[k].target = req[k].target
    BY <1>1, <1>2, <2>1 DEF TypeOK, Rest, Ask
  <2>3. Confined(k, c)
    BY <1>1, <1>3, <2>1, <2>2 DEF Confined, TypeOK
  <2>4. /\ kind[c] = "channel" => role[c][req[k].target] # "owner"
        /\ role[c][req[k].target] # "none"
    BY <1>5 DEF MayRemove, Members
  <2>5. rows[c][req[k].target] > 0
    BY <1>2, <2>4 DEF ChatSound
  <2>6. RequestSound(k)'
    BY <1>3, <2>2, <2>4, <2>5 DEF RequestSound
  <2> QED
    BY <1>1, <1>2, <1>3, <2>2, <2>3, <2>6, QuietStepSound
<1> QED
  BY <1>4, <1>5

\* A role is about to be written only where there is an owner, and not on the owner.
LEMMA SetRoleReadTargetSound ==
    ASSUME Governance, TypeOK', NEW k \in Conns, SetRoleReadTarget(k)
    PROVE  Governance'
<1>1. k \in Procs /\ TypeOK /\ pc[k] = "set_target"
  BY GovernanceParts DEF Procs, SetRoleReadTarget
<1>2. PICK c \in Chats, u \in Users, t \in Users :
        /\ c = req[k].chat /\ u = req[k].user /\ t = req[k].target
        /\ Rest(k).chat = c /\ Rest(k).user = u /\ Rest(k) \in Request
        /\ kind[c] # "unused" /\ Busy(k, c) /\ RequestSound(k)
  BY <1>1, BusyKnows
<1>3. UNCHANGED <<kind, role, rows, cache, contested>>
  BY DEF SetRoleReadTarget
<1>4. CASE ~MaySetRole(req[k])
  <2>1. pc' = [pc EXCEPT ![k] = "idle"] /\ req' = [req EXCEPT ![k] = NoRequest]
    BY <1>4 DEF SetRoleReadTarget, Finish
  <2>2. pc'[k] = "idle" /\ \A q \in Procs \ {k} : pc'[q] = pc[q] /\ req'[q] = req[q]
    BY <1>1, <2>1 DEF TypeOK
  <2> QED
    BY <1>1, <1>3, <2>2, OnwardSound
<1>5. CASE MaySetRole(req[k])
  <2>1. /\ pc' = [pc EXCEPT ![k] = "set_write"]
        /\ req' = [req EXCEPT ![k] = [Rest(k) EXCEPT !.target = t, !.grant = req[k].grant,
                                                     !.row = rows[c][t]]]
    BY <1>2, <1>5 DEF SetRoleReadTarget, Goto
  <2>2. /\ pc'[k] = "set_write" /\ req'[k].chat = c /\ req'[k].user = u /\ req'[k].target = t
        /\ req'[k].grant = req[k].grant /\ req'[k].row = rows[c][t] /\ rows[c][t] \in Nat
    BY <1>1, <1>2, <2>1 DEF TypeOK, Request
  <2>3. Confined(k, c)
    BY <1>1, <1>3, <2>1, <2>2 DEF Confined, TypeOK
  <2>4. role[c][t] # "owner" /\ (req[k].grant = "subscriber" => req[k].actorRole = "owner")
    BY <1>2, <1>5 DEF MaySetRole
  <2>5. RequestSound(k)'
    <3>1. /\ kind[c] # "group"
          /\ kind[c] = "channel" /\ c \notin contested =>
                /\ Owned(c)
                /\ req[k].actorRole = "owner" => role[c][u] = "owner"
      BY <1>1, <1>2 DEF RequestSound
    <3> QED
      BY <1>3, <2>2, <2>4, <3>1 DEF RequestSound, Owned
  <2> QED
    BY <1>1, <1>2, <1>3, <2>2, <2>3, <2>5, QuietStepSound
<1> QED
  BY <1>4, <1>5

\* Setting a role that is not the owner's under an owner keeps the channel governed.
LEMMA SetRoleWriteSound ==
    ASSUME Governance, TypeOK', NEW k \in Conns, SetRoleWrite(k)
    PROVE  Governance'
<1>1. k \in Procs /\ TypeOK /\ pc[k] = "set_write" /\ UNCHANGED <<kind, rows, contested>>
  BY GovernanceParts DEF Procs, SetRoleWrite
<1>2. PICK c \in Chats, t \in Users :
        /\ c = req[k].chat /\ t = req[k].target /\ req[k].grant \in {"admin", "subscriber"}
        /\ Rest(k).chat = c /\ kind[c] # "unused" /\ Busy(k, c) /\ RequestSound(k) /\ ChatSound(c)
  BY <1>1, BusyKnows
<1>3. CASE ~RowAlive(c, t, req[k].row)
  <2>1. /\ pc' = [pc EXCEPT ![k] = "idle"] /\ req' = [req EXCEPT ![k] = NoRequest]
        /\ UNCHANGED <<role, cache>>
    BY <1>2, <1>3 DEF SetRoleWrite, Finish
  <2>2. pc'[k] = "idle" /\ \A q \in Procs \ {k} : pc'[q] = pc[q] /\ req'[q] = req[q]
    BY <1>1, <2>1 DEF TypeOK
  <2> QED
    BY <1>1, <2>1, <2>2, OnwardSound
<1>4. CASE RowAlive(c, t, req[k].row)
  <2>1. /\ pc' = [pc EXCEPT ![k] = "broadcast"] /\ req' = [req EXCEPT ![k] = Rest(k)]
        /\ role' = [role EXCEPT ![c][t] = req[k].grant]
        /\ cache' = [cache EXCEPT ![k][c] = Uncached]
        /\ role[c][t] # "none"
    BY <1>2, <1>4 DEF SetRoleWrite, Goto, PopCache, RowAlive
  <2>2. pc'[k] = "broadcast" /\ Confined(k, c)
    BY <1>1, <1>2, <2>1 DEF Confined, TypeOK
  <2>3. \A u \in Users : role'[c][u] = IF u = t THEN req[k].grant ELSE role[c][u]
    BY <1>1, <2>1 DEF TypeOK
  <2>4. kind[c] # "deleted"
    BY <1>2, <2>1 DEF ChatSound
  <2>5. /\ kind[c] = "channel" /\ role[c][t] # "owner"
        /\ c \notin contested => Owned(c)
    BY <1>1, <1>2, <1>4, <2>4 DEF RequestSound, TypeOK, Kinds
  <2>6. \A u \in Users : role'[c][u] = "owner" <=> role[c][u] = "owner"
    BY <1>2, <2>3, <2>5
  <2>7. \A u \in Users : role'[c][u] # "none" => role[c][u] # "none"
    BY <2>1, <2>3
  <2>8. Unobtrusive(c)
    BY <1>1, <2>5, <2>6 DEF Unobtrusive, Owned, Managers, TypeOK
  <2>9. c \notin contested => Owned(c)'
    BY <2>5, <2>6 DEF Owned
  <2>10. \A u \in Users : role'[c][u] # "member"
    BY <1>2, <2>3, <2>5 DEF ChatSound
  <2>11. ChatSound(c)'
    BY <1>1, <1>2, <2>5, <2>6, <2>7, <2>9, <2>10 DEF ChatSound
  <2>12. RequestSound(k)'
    BY <2>2 DEF RequestSound
  <2> QED
    BY <1>1, <2>2, <2>8, <2>11, <2>12, StepSound
<1> QED
  BY <1>3, <1>4

LEMMA ConnContinueSound ==
    ASSUME Governance, TypeOK', NEW k \in Conns, ConnContinue(k)
    PROVE  Governance'
<1>1. k \in Procs /\ TypeOK /\ pc[k] # "idle"
  BY GovernanceParts DEF ConnContinue, CreatePrime, AddCommit, Broadcast, RemoveReadTarget, RemoveDelete,
     RemoveCount, RemoveDissolve, SetRoleReadTarget, SetRoleWrite, DeleteChatVerify,
     DeleteChatCommit, Procs
<1>2. PICK c \in Chats, t \in Users :
        /\ c = req[k].chat /\ t = req[k].target /\ req[k].batch \in SUBSET Users
        /\ Rest(k).chat = c /\ ChatSound(c) /\ RequestSound(k)
  BY <1>1, BusyKnows
<1>3. CASE AddCommit(k)
  <2>1. \/ /\ pc' = [pc EXCEPT ![k] = "idle"] /\ req' = [req EXCEPT ![k] = NoRequest]
           /\ UNCHANGED <<kind, role, rows, cache, contested>>
        \/ /\ Exists(c) /\ \A x \in req[k].batch : role[c][x] = "none"
           /\ InsertRows(c, req[k].batch, "member") /\ PopCache(k, c)
           /\ UNCHANGED <<kind, contested>>
           /\ pc' = [pc EXCEPT ![k] = "broadcast"] /\ req' = [req EXCEPT ![k] = Rest(k)]
    BY <1>2, <1>3 DEF AddCommit, Finish, Goto
  <2>2. pc[k] = "add_commit"
    BY <1>3 DEF AddCommit
  <2>3. CASE /\ pc' = [pc EXCEPT ![k] = "idle"] /\ req' = [req EXCEPT ![k] = NoRequest]
             /\ UNCHANGED <<kind, role, rows, cache, contested>>
    <3>1. pc'[k] = "idle" /\ \A q \in Procs \ {k} : pc'[q] = pc[q] /\ req'[q] = req[q]
      BY <1>1, <2>3 DEF TypeOK
    <3> QED
      BY <1>1, <2>2, <2>3, <3>1, OnwardSound
  <2>4. CASE /\ Exists(c) /\ \A x \in req[k].batch : role[c][x] = "none"
             /\ InsertRows(c, req[k].batch, "member") /\ PopCache(k, c)
             /\ UNCHANGED <<kind, contested>>
             /\ pc' = [pc EXCEPT ![k] = "broadcast"] /\ req' = [req EXCEPT ![k] = Rest(k)]
    <3>1. pc'[k] = "broadcast" /\ Confined(k, c)
      BY <1>1, <1>2, <2>4 DEF Confined, InsertRows, PopCache, TypeOK
    <3>2. kind[c] # "channel" /\ "member" \in Roles /\ "member" \notin Managers
      BY <1>1, <1>2, <2>2 DEF RequestSound, Roles, Managers
    <3> QED
      BY <1>1, <1>2, <2>2, <2>4, <3>1, <3>2, InsertSound
  <2> QED
    BY <2>1, <2>3, <2>4
<1>4. CASE Broadcast(k) \/ CreatePrime(k)
  <2>1. /\ pc' = [pc EXCEPT ![k] = "idle"] /\ req' = [req EXCEPT ![k] = NoRequest]
        /\ UNCHANGED <<kind, role, rows, contested>> /\ pc[k] \in {"broadcast", "create_prime"}
        /\ \/ cache' = cache \/ CacheUserIds(k, c)
           \/ \E e : cache' = [cache EXCEPT ![k][c] = e]
    BY <1>2, <1>4 DEF Broadcast, CreatePrime, Finish
  <2>2. pc'[k] = "idle" /\ \A q \in Procs \ {k} : pc'[q] = pc[q] /\ req'[q] = req[q]
    BY <1>1, <2>1 DEF TypeOK
  <2>3. \A d \in Chats \ {c}, l \in Conns : cache'[l][d] = cache[l][d]
    <3>1. CASE \E e : cache' = [cache EXCEPT ![k][c] = e]
      BY <1>1, <3>1 DEF TypeOK
    <3> QED
      BY <2>1, <3>1 DEF CacheUserIds
  <2> QED
    BY <1>1, <1>2, <2>1, <2>2, <2>3, OnwardSound
<1>5. CASE RemoveDelete(k)
  <2>1. /\ pc[k] = "remove_delete" /\ UNCHANGED <<kind, contested>>
        /\ DeleteRow(c, t) /\ PopCache(k, c)
        /\ pc' = [pc EXCEPT ![k] = "remove_count"] /\ req' = [req EXCEPT ![k] = Rest(k)]
    BY <1>2, <1>5 DEF RemoveDelete, Goto
  <2>2. pc'[k] = "remove_count" /\ Confined(k, c)
    BY <1>1, <1>2, <2>1 DEF Confined, DeleteRow, PopCache, TypeOK
  <2>3. kind[c] = "channel" /\ c \notin contested => role[c][t] # "owner"
    BY <1>1, <1>2, <2>1 DEF RequestSound
  <2> QED
    BY <1>1, <1>2, <2>1, <2>2, <2>3, DeleteRowSound
<1>6. CASE RemoveCount(k) \/ DeleteChatVerify(k)
  <2>1. /\ pc[k] \in {"remove_count", "delete_verify"}
        /\ UNCHANGED <<kind, role, rows, cache, contested>>
        /\ \/ pc' = [pc EXCEPT ![k] = "idle"] /\ req' = [req EXCEPT ![k] = NoRequest]
           \/ pc' = [pc EXCEPT ![k] = "remove_dissolve"] /\ req' = [req EXCEPT ![k] = Rest(k)]
           \/ pc' = [pc EXCEPT ![k] = "delete_commit"] /\ req' = [req EXCEPT ![k] = Rest(k)]
    BY <1>6 DEF RemoveCount, CountRemaining, DeleteChatVerify, Goto, Finish
  <2>2. /\ pc'[k] = "idle" \/ (pc'[k] \in {"remove_dissolve", "delete_commit"} /\ req'[k].chat = c)
        /\ \A q \in Procs \ {k} : pc'[q] = pc[q] /\ req'[q] = req[q]
    BY <1>1, <1>2, <2>1 DEF TypeOK
  <2> QED
    BY <1>1, <1>2, <2>1, <2>2, OnwardSound
<1>7. CASE RemoveDissolve(k) \/ DeleteChatCommit(k)
  <2>1. /\ pc[k] \in {"remove_dissolve", "delete_commit"} /\ DeleteChat(c)
        /\ (cache' = cache \/ PopCache(k, c)) /\ UNCHANGED contested
        /\ pc' = [pc EXCEPT ![k] = "idle"] /\ req' = [req EXCEPT ![k] = NoRequest]
    BY <1>2, <1>7 DEF RemoveDissolve, Dissolve, DeleteChatCommit, Finish
  <2>2. \A d \in Chats \ {c}, l \in Conns : cache'[l][d] = cache[l][d]
    <3>1. CASE PopCache(k, c)
      BY <1>1, <3>1 DEF TypeOK, PopCache
    <3> QED
      BY <2>1, <3>1
  <2>3. pc'[k] = "idle" /\ Confined(k, c)
    BY <1>1, <2>1, <2>2 DEF TypeOK, DeleteChat, Confined
  <2> QED
    BY <1>1, <1>2, <2>1, <2>3, DeleteChatSound
<1> QED
  BY <1>3, <1>4, <1>5, <1>6, <1>7, RemoveReadTargetSound, SetRoleReadTargetSound,
     SetRoleWriteSound DEF ConnContinue

\* A process that dies leaves nothing half done that the others rely on.
LEMMA CrashSound ==
    ASSUME Governance, TypeOK', NEW p \in Procs, Crash(p)
    PROVE  Governance'
<1>1. /\ TypeOK /\ pc[p] # "idle" /\ UNCHANGED <<kind, role, rows, contested>>
      /\ pc' = [pc EXCEPT ![p] = "idle"] /\ req' = [req EXCEPT ![p] = NoRequest]
      /\ \/ cache' = cache
         \/ p \in Conns /\ cache' = [cache EXCEPT ![p] = [c \in Chats |-> Uncached]]
  BY GovernanceParts DEF Crash, Finish
<1>2. pc'[p] = "idle" /\ \A q \in Procs \ {p} : pc'[q] = pc[q] /\ req'[q] = req[q]
  BY <1>1 DEF TypeOK
<1>3. \A d \in Chats, l \in Conns : cache'[l][d] = cache[l][d] \/ cache'[l][d] = Uncached
  <2>1. CASE p \in Conns /\ cache' = [cache EXCEPT ![p] = [b \in Chats |-> Uncached]]
    BY <1>1, <2>1 DEF TypeOK
  <2> QED
    BY <1>1, <2>1
<1> QED
  BY <1>1, <1>2, <1>3, OnwardSound

LEMMA ReconnectSound ==
    ASSUME Governance, TypeOK', NEW k \in Conns, Reconnect(k)
    PROVE  Governance'
<1>1. TypeOK /\ UNCHANGED <<kind, role, rows, pc, req, contested>>
      /\ cache' = [cache EXCEPT ![k] = [c \in Chats |-> Uncached]]
  BY GovernanceParts DEF Reconnect
<1>2. \A d \in Chats, l \in Conns : cache'[l][d] = cache[l][d] \/ cache'[l][d] = Uncached
  BY <1>1 DEF TypeOK
<1>3. \A d \in Chats : ChatSound(d)'
  <2> TAKE d \in Chats
  <2>1. ChatSound(d)
    BY GovernanceParts
  <2>2. kind[d] = "unused" => \A l \in Conns : cache'[l][d] = Uncached
    BY <1>2, <2>1 DEF ChatSound
  <2>3. \A p \in Procs : Busy(p, d)' <=> Busy(p, d)
    BY <1>1 DEF Busy
  <2> QED
    BY <1>1, <2>1, <2>2, <2>3 DEF ChatSound, Owned
<1>4. \A p \in Procs : RequestSound(p)'
  BY <1>1, GovernanceParts DEF RequestSound, Owned, RowAlive
<1>5. FounderAlone'
  BY <1>1, GovernanceParts DEF FounderAlone
<1> QED
  BY <1>3, <1>4, <1>5, GovernanceParts

LEMMA GovernanceInit == Init => Governance
<1> SUFFICES ASSUME Init PROVE Governance
  OBVIOUS
<1>1. \A p \in Procs : pc[p] = "idle"
  BY DEF Init
<1>2. TypeOK /\ FounderAlone
  BY <1>1, TypeInit DEF FounderAlone
<1>3. \A c \in Chats : ChatSound(c)
  BY <1>1 DEF Init, ChatSound, Busy
<1>4. \A p \in Procs : RequestSound(p)
  BY <1>1 DEF RequestSound
<1> QED
  BY <1>2, <1>3, <1>4, GovernanceParts

LEMMA GovernanceStep == Governance /\ [Next]_vars => Governance'
<1> SUFFICES ASSUME Governance, [Next]_vars PROVE Governance'
  OBVIOUS
<1>1. TypeOK'
  BY TypeStep, GovernanceParts
<1>2. CASE UNCHANGED vars
  BY <1>2 DEF vars, Governance, TypeOK, UnusedUntouched, DeletedEmpty, FounderAlone, ChannelRoles,
     RightKind, OwnerSpared, SettersBacked, ChannelGoverned, RowsCounted, RowAlive, Busy, Owned
<1>3. CASE Next
  <2>1. CASE \E p \in Procs, u \in Users, c \in Chats, k \in Kinds : CreateChat(p, u, c, k)
    BY <1>1, <2>1, CreateChatSound
  <2>2. CASE \E k \in Conns : ConnRequest(k) \/ Reconnect(k)
    BY <1>1, <2>2, ConnRequestSound, ReconnectSound
  <2>3. CASE \E p \in Workers : WorkerRequest(p)
    BY <1>1, <2>3, WorkerRequestSound
  <2>4. CASE \E p \in Procs : Continue(p) \/ Crash(p)
    BY <1>1, <2>4, CreateOwnerSound, ConnContinueSound, WorkerContinueSound, CrashSound DEF Continue
  <2> QED
    BY <1>3, <2>1, <2>2, <2>3, <2>4 DEF Next
<1> QED
  BY <1>2, <1>3

\* What every interleaving of the handlers keeps true of chats and of requests under way.
THEOREM GovernanceHolds == Spec => []Governance
BY GovernanceInit, GovernanceStep, PTL DEF Spec

\* A channel never has two owners, and has one whenever anybody is in charge of it, at
\* every moment and whoever has come in before the owner.
THEOREM OneOwner == Spec => []ChannelGoverned
<1>1. Governance => ChannelGoverned
  BY DEF Governance
<1> QED
  BY <1>1, GovernanceHolds, PTL

-----------------------------------------------------------------------------
(* Empty chats.  That somebody is about to clear an empty chat away is      *)
(* inductive by itself: who empties a chat goes on to count its members,    *)
(* and gives up only when he counts some.                                   *)

Reaping == {"create_owner", "remove_count", "remove_dissolve", "leave_count", "leave_dissolve"}
Reaps(p, c) == pc[p] \in Reaping /\ req[p].chat = c

\* A step of p that empties a chat makes p its reaper, and p stays the reaper of a chat
\* that is empty.
KeepsReaping(p) ==
    /\ crashes' = crashes
    /\ \A q \in Procs \ {p} : pc'[q] = pc[q] /\ req'[q] = req[q]
    /\ \A c \in Chats : Exists(c)' /\ Members(c)' = {} =>
           /\ Reaps(p, c) => Reaps(p, c)'
           /\ (Exists(c) /\ Members(c) = {}) \/ Reaps(p, c)'

LEMMA ReaperKept ==
    ASSUME EmptyChatHasReaper, NEW p \in Procs, KeepsReaping(p)
    PROVE  EmptyChatHasReaper'
<1> SUFFICES ASSUME NEW c \in Chats, (crashes = 0 /\ Exists(c) /\ Members(c) = {})'
             PROVE  \E q \in Procs : Reaps(q, c)'
  BY DEF EmptyChatHasReaper, Reaps, Reaping
<1>1. CASE Reaps(p, c)'
  BY <1>1
<1>2. CASE ~Reaps(p, c)'
  <2>1. crashes = 0 /\ Exists(c) /\ Members(c) = {} /\ ~Reaps(p, c)
    BY <1>2 DEF KeepsReaping
  <2>2. PICK q \in Procs : Reaps(q, c)
    BY <2>1 DEF EmptyChatHasReaper, Reaps, Reaping
  <2>3. Reaps(q, c)'
    BY <2>1, <2>2 DEF KeepsReaping, Reaps
  <2> QED
    BY <2>3
<1> QED
  BY <1>1, <1>2

\* A handler that is nobody's reaper and takes no one's membership away.
LEMMA GrowingKeeps ==
    ASSUME NEW p \in Procs, pc[p] \notin Reaping, kind' = kind, crashes' = crashes,
           \A q \in Procs \ {p} : pc'[q] = pc[q] /\ req'[q] = req[q],
           \A c \in Chats, u \in Users : role[c][u] # "none" => role'[c][u] # "none"
    PROVE  KeepsReaping(p)
BY DEF KeepsReaping, Reaps, Exists, Members

LEMMA RequestsKeepReaping ==
    ASSUME TypeOK, NEW p \in Procs, UNCHANGED <<kind, role, crashes>>,
           \/ UNCHANGED <<pc, req>>
           \/ pc[p] = "idle" /\ \E l, r : /\ pc' = [pc EXCEPT ![p] = l]
                                          /\ req' = [req EXCEPT ![p] = r]
    PROVE  KeepsReaping(p)
<1>1. CASE UNCHANGED <<pc, req>>
  BY <1>1 DEF KeepsReaping, Reaps, Exists, Members
<1>2. CASE pc[p] = "idle" /\ \E l, r : /\ pc' = [pc EXCEPT ![p] = l]
                                       /\ req' = [req EXCEPT ![p] = r]
  BY <1>2, GrowingKeeps DEF TypeOK, Reaping
<1> QED
  BY <1>1, <1>2

LEMMA FoundingKeepsReaping ==
    ASSUME TypeOK, NEW p \in Procs,
           \/ CreateOwner(p)
           \/ \E u \in Users, c \in Chats, k \in Kinds : CreateChat(p, u, c, k)
    PROVE  KeepsReaping(p)
<1>1. ASSUME NEW u \in Users, NEW c \in Chats, NEW k \in Kinds, CreateChat(p, u, c, k)
      PROVE  KeepsReaping(p)
  <2>1. /\ pc[p] = "idle" /\ pc'[p] = "create_owner" /\ req'[p].chat = c
        /\ \A q \in Procs \ {p} : pc'[q] = pc[q] /\ req'[q] = req[q]
        /\ role' = role /\ crashes' = crashes
        /\ \A d \in Chats \ {c} : kind'[d] = kind[d]
    BY <1>1 DEF CreateChat, Begin, Ask, TypeOK
  <2> QED
    BY <2>1 DEF KeepsReaping, Reaps, Reaping, Exists, Members
<1>2. ASSUME CreateOwner(p) PROVE KeepsReaping(p)
  <2>1. PICK c \in Chats, u \in Users : c = req[p].chat /\ u = req[p].user
    BY <1>2, RestTyped, TypeParts DEF CreateOwner
  <2>2. /\ \A q \in Procs \ {p} : pc'[q] = pc[q] /\ req'[q] = req[q]
        /\ kind' = kind /\ crashes' = crashes
    BY <1>2 DEF CreateOwner, Finish, Goto, TypeOK
  <2>3. /\ Exists(c) => role'[c][u] # "none"
        /\ \A d \in Chats \ {c} : role'[d] = role[d]
    BY <1>2, <2>1 DEF CreateOwner, InsertRows, TypeOK
  <2> QED
    BY <2>1, <2>2, <2>3 DEF KeepsReaping, Reaps, Exists, Members
<1> QED
  BY <1>1, <1>2

\* Who deletes a row goes on to count.
LEMMA DeletingKeepsReaping ==
    ASSUME TypeOK, NEW p \in Procs, RemoveDelete(p) \/ LeaveDelete(p)
    PROVE  KeepsReaping(p)
<1>1. req[p].chat \in Chats /\ Rest(p).chat = req[p].chat
  BY RestTyped, TypeParts DEF RemoveDelete, LeaveDelete, Rest, Ask
<1>2. /\ \A q \in Procs \ {p} : pc'[q] = pc[q] /\ req'[q] = req[q]
      /\ kind' = kind /\ crashes' = crashes
      /\ pc[p] \notin Reaping /\ pc'[p] \in Reaping /\ req'[p].chat = req[p].chat
  BY <1>1 DEF RemoveDelete, LeaveDelete, Goto, TypeOK, Reaping
<1>3. \A d \in Chats \ {req[p].chat} : role'[d] = role[d]
  BY DEF RemoveDelete, LeaveDelete, DeleteRow, TypeOK
<1> QED
  BY <1>1, <1>2, <1>3 DEF KeepsReaping, Reaps, Exists, Members

\* Who counts nobody goes on to delete the chat.
LEMMA CountingKeepsReaping ==
    ASSUME TypeOK, NEW p \in Procs, RemoveCount(p) \/ LeaveCount(p)
    PROVE  KeepsReaping(p)
<1>1. /\ kind' = kind /\ role' = role /\ crashes' = crashes
      /\ \A q \in Procs \ {p} : pc'[q] = pc[q] /\ req'[q] = req[q]
  BY DEF RemoveCount, LeaveCount, CountRemaining, Goto, Finish, TypeOK
<1>2. CASE Exists(req[p].chat) /\ Members(req[p].chat) = {}
  BY <1>1, <1>2
  DEF RemoveCount, LeaveCount, CountRemaining, Goto, Rest, Ask, TypeOK, KeepsReaping, Reaps,
      Reaping, Exists, Members
<1>3. CASE ~(Exists(req[p].chat) /\ Members(req[p].chat) = {})
  BY <1>1, <1>3 DEF KeepsReaping, Reaps, Exists, Members
<1> QED
  BY <1>2, <1>3

\* Who deletes a chat leaves none to be deleted.
LEMMA DissolvingKeepsReaping ==
    ASSUME TypeOK, NEW p \in Procs,
           RemoveDissolve(p) \/ LeaveDissolve(p) \/ DeleteChatCommit(p)
    PROVE  KeepsReaping(p)
<1>1. req[p].chat \in Chats
  BY RestTyped, TypeParts DEF RemoveDissolve, LeaveDissolve, DeleteChatCommit
<1>2. /\ \A q \in Procs \ {p} : pc'[q] = pc[q] /\ req'[q] = req[q]
      /\ crashes' = crashes
  BY DEF RemoveDissolve, LeaveDissolve, DeleteChatCommit, Dissolve, Finish, TypeOK
<1>3. DeleteChat(req[p].chat)
  BY DEF RemoveDissolve, LeaveDissolve, DeleteChatCommit, Dissolve
<1>4. /\ kind'[req[p].chat] = "deleted"
      /\ \A d \in Chats \ {req[p].chat} : kind'[d] = kind[d] /\ role'[d] = role[d]
  BY <1>1, <1>3 DEF DeleteChat, TypeOK
<1> QED
  BY <1>1, <1>2, <1>4 DEF KeepsReaping, Reaps, Exists, Members, Kinds

\* The other steps of a request that has begun.
LEMMA GoingOnKeepsReaping ==
    ASSUME TypeOK, NEW p \in Procs,
           \/ JoinInsert(p) \/ CreatePrime(p)
           \/ AddCommit(p) \/ Broadcast(p) \/ RemoveReadTarget(p)
           \/ SetRoleReadTarget(p) \/ SetRoleWrite(p) \/ DeleteChatVerify(p)
    PROVE  KeepsReaping(p)
<1>1. /\ kind' = kind /\ crashes' = crashes /\ pc[p] \notin Reaping
      /\ \A q \in Procs \ {p} : pc'[q] = pc[q] /\ req'[q] = req[q]
  BY DEF Goto, Finish, TypeOK, Reaping, JoinInsert, CreatePrime, AddCommit, Broadcast, RemoveReadTarget,
         SetRoleReadTarget, SetRoleWrite, DeleteChatVerify
<1>2. PICK c \in Chats, t \in Users, g \in Roles :
        c = req[p].chat /\ t = req[p].target /\ g = req[p].grant
  <2>1. pc[p] # "idle"
    BY DEF JoinInsert, CreatePrime, AddCommit, Broadcast, RemoveReadTarget,
           SetRoleReadTarget, SetRoleWrite, DeleteChatVerify
  <2> QED
    BY <2>1, RestTyped, TypeParts DEF Roles
<1>3. \/ role' = role
      \/ role' = [role EXCEPT ![c][t] = g]
      \/ \E S : InsertRows(c, S, "member") \/ InsertRows(c, S, "subscriber")
  BY <1>2 DEF JoinInsert, DefaultRole, CreatePrime, AddCommit, Broadcast, RemoveReadTarget,
              SetRoleReadTarget, SetRoleWrite, DeleteChatVerify
<1>4. ASSUME NEW S, NEW r \in {"member", "subscriber"}, InsertRows(c, S, r),
             NEW d \in Chats, NEW u \in Users, role[d][u] # "none"
      PROVE  role'[d][u] # "none"
  BY <1>4 DEF InsertRows, TypeOK
<1>5. ASSUME NEW d \in Chats, NEW u \in Users, role[d][u] # "none"
      PROVE  role'[d][u] # "none"
  <2>1. CASE role' = [role EXCEPT ![c][t] = g]
    <3>1. role \in [Chats -> [Users -> Roles \cup {"none"}]] /\ g # "none"
      BY DEF TypeOK, Roles
    <3> QED
      BY <1>5, <2>1, <3>1
  <2> QED
    BY <1>3, <1>4, <1>5, <2>1
<1> QED
  BY <1>1, <1>5, GrowingKeeps

LEMMA ReaperStep ==
    ASSUME TypeOK, EmptyChatHasReaper, [Next]_vars
    PROVE  EmptyChatHasReaper'
<1>1. ASSUME NEW p \in Procs, Continue(p) PROVE EmptyChatHasReaper'
  BY <1>1, ReaperKept, FoundingKeepsReaping, DeletingKeepsReaping, CountingKeepsReaping,
     DissolvingKeepsReaping, GoingOnKeepsReaping DEF Continue, ConnContinue, WorkerContinue
<1>2. ASSUME NEW p \in Procs, NEW u \in Users, NEW c \in Chats, NEW k \in Kinds,
             CreateChat(p, u, c, k)
      PROVE  EmptyChatHasReaper'
  BY <1>2, ReaperKept, FoundingKeepsReaping
<1>3. ASSUME NEW k \in Conns, ConnRequest(k) \/ Reconnect(k) PROVE EmptyChatHasReaper'
  <2>1. k \in Procs
    BY DEF Procs
  <2>2. UNCHANGED <<kind, role, crashes>>
    BY <1>3 DEF ConnRequest, AddCheck, RemoveReadActor, SetRoleReadActor, DeleteChatCheck,
                UserInChat, Reconnect
  <2>3. \/ UNCHANGED <<pc, req>>
        \/ pc[k] = "idle" /\ \E l, r : /\ pc' = [pc EXCEPT ![k] = l]
                                       /\ req' = [req EXCEPT ![k] = r]
    BY <1>3 DEF ConnRequest, AddCheck, RemoveReadActor, SetRoleReadActor, DeleteChatCheck,
                UserInChat, Reconnect, Begin
  <2> QED
    BY <2>1, <2>2, <2>3, RequestsKeepReaping, ReaperKept
<1>4. ASSUME NEW p \in Workers, WorkerRequest(p) PROVE EmptyChatHasReaper'
  <2>1. p \in Procs /\ UNCHANGED <<kind, role, crashes>>
    BY <1>4 DEF WorkerRequest, JoinGet, LeaveRead, Procs
  <2>2. pc[p] = "idle" /\ \E l, r : /\ pc' = [pc EXCEPT ![p] = l]
                                    /\ req' = [req EXCEPT ![p] = r]
    BY <1>4 DEF WorkerRequest, JoinGet, LeaveRead, Begin
  <2> QED
    BY <2>1, <2>2, RequestsKeepReaping, ReaperKept
<1>5. ASSUME NEW p \in Procs, Crash(p) PROVE EmptyChatHasReaper'
  BY <1>5 DEF Crash, TypeOK, EmptyChatHasReaper
<1>6. ASSUME UNCHANGED vars PROVE EmptyChatHasReaper'
  BY <1>6 DEF vars, EmptyChatHasReaper, Exists, Members
<1> QED
  BY <1>1, <1>2, <1>3, <1>4, <1>5, <1>6 DEF Next

\* An empty chat is always about to go: somebody who saw it lose its last member, or is
\* still creating it, has work left on it, unless a process died (app_consumer.py and
\* views.py delete a chat only when they count nobody left in it).
THEOREM EmptyChatsAreReaped == Spec => []EmptyChatHasReaper
<1>1. Init => EmptyChatHasReaper
  BY DEF Init, EmptyChatHasReaper, Exists, Kinds
<1>2. TypeOK /\ EmptyChatHasReaper /\ [Next]_vars => EmptyChatHasReaper'
  BY ReaperStep
<1> QED
  BY <1>1, <1>2, TypeCorrect, PTL DEF Spec
-----------------------------------------------------------------------------
(* Cached member lists.  A connection that inserts the owner's row, or      *)
(* dissolves a chat, keeps its list of that chat's members: it has none by  *)
(* then, as nobody has a list of a chat that is not there and it dropped    *)
(* the list when it deleted the row, and only its own handlers fill it.     *)

Listless == {"create_owner", "remove_count", "remove_dissolve"}
ListDropped == \A k \in Conns : pc[k] \in Listless => cache[k][req[k].chat] = Uncached

\* A step that p takes and that touches no other connection.
Alone(p) ==
    \A k \in Conns \ {p} : pc'[k] = pc[k] /\ req'[k] = req[k] /\ cache'[k] = cache[k]

LEMMA BeginAlone ==
    ASSUME TypeOK, NEW p \in Procs, NEW verb, NEW l, NEW r, Begin(p, verb, l, r), cache' = cache
    PROVE  Alone(p)
BY DEF Begin, Alone, TypeOK

\* Beginning a request, reconnecting and dying.
LEMMA RequestsAlone ==
    ASSUME TypeOK, NEW p \in Procs,
           \/ \E u \in Users, c \in Chats, k \in Kinds : CreateChat(p, u, c, k)
           \/ p \in Conns /\ (ConnRequest(p) \/ Reconnect(p))
           \/ p \in Workers /\ WorkerRequest(p)
           \/ Crash(p)
    PROVE  /\ Alone(p)
           /\ p \in Conns => \/ pc'[p] \notin Listless
                             \/ \E u \in Users, c \in Chats, k \in Kinds : CreateChat(p, u, c, k)
<1>1. /\ pc \in [Procs -> Labels] /\ req \in [Procs -> Request \cup {NoRequest}]
      /\ cache \in [Conns -> [Chats -> [hit : BOOLEAN, ids : SUBSET Users]]]
      /\ \A k \in Conns : k \in Procs
  BY DEF TypeOK, Procs
<1>2. CASE \E u \in Users, c \in Chats, k \in Kinds : CreateChat(p, u, c, k)
  BY <1>1, <1>2 DEF CreateChat, Begin, Alone
<1>3. ASSUME NEW c \in Chats, p \in Conns, DeleteChatCheck(p, c)
      PROVE  Alone(p) /\ pc'[p] \notin Listless
  BY <1>1, <1>3 DEF DeleteChatCheck, UserInChat, CacheUserIds, Begin, Alone, Listless
<1>4. ASSUME p \in Conns, ConnRequest(p) PROVE Alone(p) /\ pc'[p] \notin Listless
  BY <1>1, <1>3, <1>4 DEF ConnRequest, AddCheck, RemoveReadActor, SetRoleReadActor, Begin, Alone,
     Listless
<1>5. ASSUME p \in Conns, Reconnect(p) PROVE Alone(p) /\ pc'[p] \notin Listless
  BY <1>1, <1>5 DEF Reconnect, Alone, Listless
<1>6. ASSUME p \in Workers, WorkerRequest(p) PROVE Alone(p) /\ p \notin Conns
  BY <1>1, <1>6, ProcsAssumption DEF WorkerRequest, JoinGet, LeaveRead, Begin, Alone
<1>7. CASE Crash(p)
  BY <1>1, <1>7 DEF Crash, Finish, Alone, Listless
<1> QED
  BY <1>2, <1>4, <1>5, <1>6, <1>7

\* Going on: who counts has dropped the list, or had when beginning to.
LEMMA ContinueAlone ==
    ASSUME TypeOK, NEW p \in Procs, Continue(p)
    PROVE  /\ Alone(p)
           /\ p \in Conns => \/ pc'[p] \notin Listless
                             \/ RemoveDelete(p)
                             \/ RemoveCount(p)
<1>1. /\ pc \in [Procs -> Labels] /\ req \in [Procs -> Request \cup {NoRequest}]
      /\ cache \in [Conns -> [Chats -> [hit : BOOLEAN, ids : SUBSET Users]]]
      /\ \A k \in Conns : k \in Procs
  BY DEF TypeOK, Procs
<1>2. CASE CreateOwner(p)
  BY <1>1, <1>2 DEF CreateOwner, Finish, Goto, Alone, Listless
<1>3. CASE p \in Conns /\ ConnContinue(p)
  <2>1. ASSUME AddCommit(p) \/ Broadcast(p) \/ CreatePrime(p)
        PROVE  Alone(p) /\ pc'[p] \notin Listless
    BY <1>1, <2>1 DEF AddCommit, Broadcast, CreatePrime, PopCache, CacheUserIds, Goto, Finish, Alone, Listless
  <2>2. ASSUME RemoveReadTarget(p) \/ RemoveDissolve(p) PROVE Alone(p) /\ pc'[p] \notin Listless
    BY <1>1, <2>2 DEF RemoveReadTarget, RemoveDissolve, Dissolve, Goto, Finish, Alone, Listless
  <2>3. ASSUME RemoveDelete(p) \/ RemoveCount(p) PROVE Alone(p)
    BY <1>1, <2>3 DEF RemoveDelete, RemoveCount, CountRemaining, PopCache, Goto, Finish, Alone
  <2>4. ASSUME SetRoleReadTarget(p) \/ SetRoleWrite(p) PROVE Alone(p) /\ pc'[p] \notin Listless
    BY <1>1, <2>4 DEF SetRoleReadTarget, SetRoleWrite, PopCache, Goto, Finish, Alone, Listless
  <2>5. ASSUME DeleteChatVerify(p) \/ DeleteChatCommit(p)
        PROVE  Alone(p) /\ pc'[p] \notin Listless
    BY <1>1, <2>5 DEF DeleteChatVerify, DeleteChatCommit, PopCache, Goto, Finish, Alone, Listless
  <2> QED
    BY <1>3, <2>1, <2>2, <2>3, <2>4, <2>5 DEF ConnContinue
<1>4. CASE p \in Workers /\ WorkerContinue(p)
  <2>1. UNCHANGED cache /\ \A q \in Procs \ {p} : pc'[q] = pc[q] /\ req'[q] = req[q]
    BY <1>1, <1>4 DEF WorkerContinue, JoinInsert, LeaveDelete, LeaveCount, LeaveDissolve, Dissolve,
       CountRemaining, Goto, Finish
  <2> QED
    BY <1>1, <1>4, <2>1, ProcsAssumption DEF Alone
<1> QED
  BY <1>2, <1>3, <1>4 DEF Continue

LEMMA ListDroppedStep ==
    ASSUME Governance, ListDropped, [Next]_vars
    PROVE  ListDropped'
<1>0. TypeOK
  BY DEF Governance
<1>1. CASE UNCHANGED vars
  BY <1>1 DEF vars, ListDropped
<1>2. ASSUME NEW p \in Procs, Alone(p), p \in Conns => pc'[p] \notin Listless
      PROVE  ListDropped'
  BY <1>2 DEF Alone, ListDropped
<1>3. ASSUME NEW p \in Conns, Alone(p), RemoveDelete(p) \/ RemoveCount(p)
      PROVE  ListDropped'
  <2>1. p \in Procs /\ req[p].chat \in Chats /\ Rest(p).chat = req[p].chat
    BY <1>0, <1>3, RestTyped, TypeParts DEF RemoveDelete, RemoveCount, Rest, Ask, Procs
  <2>2. pc'[p] \in Listless => req'[p].chat = req[p].chat /\ cache'[p][req[p].chat] = Uncached
    <3>1. CASE RemoveDelete(p)
      BY <1>0, <2>1, <3>1 DEF RemoveDelete, PopCache, Goto, TypeOK
    <3>2. CASE RemoveCount(p)
      BY <1>0, <2>1, <3>2 DEF RemoveCount, CountRemaining, Goto, Finish, TypeOK, Listless, ListDropped
    <3> QED
      BY <1>3, <3>1, <3>2
  <2> QED
    BY <1>3, <2>2 DEF Alone, ListDropped
<1>4. ASSUME NEW p \in Procs, Continue(p) PROVE ListDropped'
  BY <1>0, <1>2, <1>3, <1>4, ContinueAlone
<1>5. ASSUME NEW p \in Procs, NEW u \in Users, NEW c \in Chats, NEW x \in Kinds,
             CreateChat(p, u, c, x)
      PROVE  ListDropped'
  <2>1. kind[c] = "unused" /\ cache' = cache /\ Alone(p)
    BY <1>0, <1>5, RequestsAlone DEF CreateChat
  <2>2. \A k \in Conns : cache[k][c] = Uncached
    BY <2>1, GovernanceParts DEF ChatSound
  <2>3. req'[p].chat = c
    BY <1>0, <1>5 DEF CreateChat, Begin, Ask, TypeOK
  <2> QED
    BY <2>1, <2>2, <2>3 DEF Alone, ListDropped
<1>6. CASE Next
  BY <1>0, <1>2, <1>4, <1>5, <1>6, RequestsAlone DEF Next, Procs
<1> QED
  BY <1>1, <1>6

\* A step that keeps the members of every chat but one, and every list of k but k's
\* list of that one, which is none or theirs afterwards.
LEMMA FreshStep ==
    ASSUME TypeOK, NEW k \in Conns, NEW c \in Chats,
           \A d \in Chats \ {c} : role'[d] = role[d] /\ cache'[k][d] = cache[k][d],
           CacheFresh(k, c) => CacheFresh(k, c)',
           NEW d \in Chats, CacheFresh(k, d)
    PROVE  CacheFresh(k, d)'
BY DEF CacheFresh, Members

\* What a connection's own handler does to a list that was fresh.
LEMMA OwnContinueFresh ==
    ASSUME Governance, ListDropped, NEW k \in Conns, Continue(k), ~CreatePrime(k),
           NEW d \in Chats, CacheFresh(k, d)
    PROVE  CacheFresh(k, d)'
<1>1. /\ TypeOK /\ k \in Procs /\ pc[k] # "idle"
      /\ role \in [Chats -> [Users -> Roles \cup {"none"}]]
      /\ cache \in [Conns -> [Chats -> [hit : BOOLEAN, ids : SUBSET Users]]]
  BY ProcsAssumption DEF Governance, TypeOK, Procs, Continue, CreateOwner, ConnContinue, AddCommit,
     Broadcast, RemoveReadTarget, RemoveDelete, RemoveCount, RemoveDissolve, SetRoleReadTarget,
     SetRoleWrite, DeleteChatVerify, DeleteChatCommit
<1>2. PICK c \in Chats, u \in Users, t \in Users, g \in Roles, S \in SUBSET Users :
        /\ c = req[k].chat /\ u = req[k].user /\ t = req[k].target /\ g = req[k].grant
        /\ S = req[k].batch
  BY <1>1, RestTyped, TypeParts DEF Roles
<1> SUFFICES /\ \A e \in Chats \ {c} : role'[e] = role[e] /\ cache'[k][e] = cache[k][e]
             /\ CacheFresh(k, c) => CacheFresh(k, c)'
  BY <1>1, FreshStep
<1>3. CASE CreateOwner(k)
  <2>1. cache[k][c] = Uncached
    BY <1>2, <1>3 DEF CreateOwner, ListDropped, Listless
  <2>2. cache' = cache /\ \A e \in Chats \ {c} : role'[e] = role[e]
    BY <1>1, <1>2, <1>3 DEF CreateOwner, InsertRows
  <2> QED
    BY <2>1, <2>2 DEF CacheFresh
<1>4. CASE PopCache(k, c) /\ \A e \in Chats \ {c} : role'[e] = role[e]
  BY <1>1, <1>4 DEF PopCache, CacheFresh
<1>5. CASE UNCHANGED <<role, cache>>
  BY <1>5 DEF CacheFresh, Members
<1>6. CASE AddCommit(k)
  BY <1>1, <1>2, <1>4, <1>5, <1>6 DEF AddCommit, InsertRows
<1>7. CASE Broadcast(k)
  <2>1. role' = role
    BY <1>7 DEF Broadcast
  <2>2. CASE CacheUserIds(k, c)
    <3>1. \A e \in Chats \ {c} : cache'[k][e] = cache[k][e]
      BY <1>1, <2>2 DEF CacheUserIds
    <3>2. ASSUME CacheFresh(k, c) PROVE ChatUserIds(k, c) = Members(c)
      BY <3>2 DEF CacheFresh, ChatUserIds, Cached, Uncached
    <3>3. cache'[k][c] = Cached(ChatUserIds(k, c))
      BY <1>1, <2>2 DEF CacheUserIds
    <3> QED
      BY <2>1, <3>1, <3>2, <3>3 DEF CacheFresh, Members
  <2> QED
    BY <1>2, <1>5, <1>7, <2>1, <2>2 DEF Broadcast
<1>8. CASE RemoveDelete(k)
  BY <1>1, <1>2, <1>4, <1>8 DEF RemoveDelete, DeleteRow
<1>9. CASE RemoveReadTarget(k) \/ RemoveCount(k) \/ SetRoleReadTarget(k) \/ DeleteChatVerify(k)
  BY <1>5, <1>9 DEF RemoveReadTarget, RemoveCount, CountRemaining, SetRoleReadTarget,
     DeleteChatVerify
<1>10. CASE RemoveDissolve(k)
  <2>1. cache[k][c] = Uncached
    BY <1>2, <1>10 DEF RemoveDissolve, ListDropped, Listless
  <2>2. cache' = cache /\ \A e \in Chats \ {c} : role'[e] = role[e]
    BY <1>1, <1>2, <1>10 DEF RemoveDissolve, Dissolve, DeleteChat
  <2> QED
    BY <2>1, <2>2 DEF CacheFresh
<1>11. CASE SetRoleWrite(k)
  BY <1>1, <1>2, <1>4, <1>5, <1>11 DEF SetRoleWrite
<1>12. CASE DeleteChatCommit(k)
  BY <1>1, <1>2, <1>4, <1>12 DEF DeleteChatCommit, DeleteChat
<1> QED
  BY <1>3, <1>6, <1>7, <1>8, <1>9, <1>10, <1>11, <1>12, ProcsAssumption DEF Continue, ConnContinue

\* The creator's list is right if nobody else is in when it is made.
LEMMA CreatePrimeFresh ==
    ASSUME TypeOK, NEW k \in Conns, CreatePrime(k),
           NEW d \in Chats, CacheFresh(k, d), Members(d) = {req[k].user}
    PROVE  CacheFresh(k, d)'
<1>1. role' = role /\ cache'[k][d] \in {cache[k][d], Cached({req[k].user})}
  BY DEF CreatePrime, TypeOK
<1> QED
  BY <1>1 DEF CacheFresh, Members

\* A connection that goes on with its request leaves every list of its own that was
\* fresh fresh (chat_users_cache.pop and the creator's list in app_consumer.py): its list
\* goes stale only through others, the creator's excepted that others were quicker to come in.
THEOREM OwnStepsKeepFresh == Spec => OwnStepsKeepCacheFresh
<1> DEFINE Kept == \A k \in Conns, c \in Chats :
             /\ CacheFresh(k, c) /\ Moved(k)
             /\ pc[k] = "create_prime" => Members(c) = {req[k].user}
             => CacheFresh(k, c)'
<1>1. ASSUME TypeOK, [Next]_vars, NEW k \in Conns, Moved(k)
      PROVE  Continue(k)
  <2>1. Next /\ k \in Procs
    BY <1>1 DEF Moved, vars, Procs
  <2>2. ASSUME NEW p \in Procs, Alone(p) PROVE p = k
    BY <1>1, <2>2 DEF Alone, Moved
  <2>3. ~Crash(k) /\ crashes \in Nat
    BY <1>1 DEF Crash, Moved, TypeOK
  <2>4. ~ConnRequest(k) /\ ~Reconnect(k) /\ ~WorkerRequest(k)
    BY <1>1 DEF ConnRequest, AddCheck, RemoveReadActor, SetRoleReadActor, DeleteChatCheck,
       UserInChat, Reconnect, WorkerRequest, JoinGet, LeaveRead, Begin, Moved
  <2>5. \A u \in Users, c \in Chats, x \in Kinds : ~CreateChat(k, u, c, x)
    BY <1>1 DEF CreateChat, Begin, Moved
  <2> QED
    BY <1>1, <2>1, <2>2, <2>3, <2>4, <2>5, RequestsAlone, ContinueAlone DEF Next, Procs
<1>2. Governance /\ ListDropped /\ [Next]_vars => Kept
  BY <1>1, OwnContinueFresh, CreatePrimeFresh DEF Governance, CreatePrime
<1>3. Governance /\ ListDropped /\ [Next]_vars => [Kept]_vars
  BY <1>2
<1> HIDE DEF Kept
<1>4. Init => ListDropped
  BY DEF Init, ListDropped, Listless, Procs
<1>5. Governance /\ ListDropped /\ [Next]_vars => ListDropped'
  BY ListDroppedStep
<1>6. Spec => []ListDropped
  BY <1>4, <1>5, GovernanceHolds, PTL DEF Spec
<1>7. Spec => [][Kept]_vars
  BY <1>3, <1>6, GovernanceHolds, PTL DEF Spec
<1> QED
  BY <1>7 DEF Kept, OwnStepsKeepCacheFresh

-----------------------------------------------------------------------------
(* The interleaved handlers implement the atomic operations of ChatRoles, and what *)
(* follows from it for owners and admins.                                           *)

AtomicStep == Atomic!Next \/ UNCHANGED <<kind, role, rows, contested>>

\* What the tables look like between two steps.
LEMMA TablesTyped ==
    ASSUME Governance, NEW c \in Chats
    PROVE  /\ kind \in [Chats -> Kinds \cup {"unused", "deleted"}]
           /\ role \in [Chats -> [Users -> Roles \cup {"none"}]]
           /\ rows \in [Chats -> [Users -> Nat]]
           /\ ChatSound(c)
           /\ kind[c] \in Kinds \cup {"unused", "deleted"}
           /\ role[c] \in [Users -> Roles \cup {"none"}]
BY GovernanceParts, TypeParts DEF TablesOK

LEMMA InsertIsEntry ==
    ASSUME Governance, NEW c \in Chats, NEW S \in SUBSET Users, Exists(c),
           \A u \in S : role[c][u] = "none", InsertRows(c, S, DefaultRole(c)),
           UNCHANGED <<kind, contested>>
    PROVE  AtomicStep
<1>1. Atomic!Enter(c, S)
  BY DEF Atomic!Enter, Atomic!Alive, Atomic!EntryRole, Exists, Kinds, InsertRows, DefaultRole
<1> QED
  BY <1>1 DEF AtomicStep, Atomic!Next

LEMMA DeleteRowIsDeparture ==
    ASSUME Governance, NEW c \in Chats, NEW u \in Users, kind[c] # "unused", DeleteRow(c, u),
           kind[c] = "channel" /\ c \notin contested => role[c][u] # "owner",
           UNCHANGED <<kind, contested>>
    PROVE  AtomicStep
<1>1. CASE kind[c] \in Kinds
  <2>1. Atomic!Depart(c, u)
    BY <1>1 DEF Atomic!Depart, Atomic!Alive, Kinds, DeleteRow
  <2> QED
    BY <2>1 DEF AtomicStep, Atomic!Next
<1>2. CASE kind[c] = "deleted"
  <2>1. role[c][u] = "none"
    BY <1>2, TablesTyped DEF ChatSound
  <2>2. role' = role /\ rows' = rows
    BY <2>1, TablesTyped DEF DeleteRow
  <2> QED
    BY <2>2 DEF AtomicStep
<1> QED
  BY <1>1, <1>2, TablesTyped

LEMMA DeleteChatIsEnd ==
    ASSUME Governance, NEW c \in Chats, kind[c] # "unused", DeleteChat(c), UNCHANGED contested
    PROVE  AtomicStep
<1>1. CASE kind[c] \in Kinds
  <2>1. Atomic!End(c)
    BY <1>1 DEF Atomic!End, Atomic!Alive, Kinds, DeleteChat
  <2> QED
    BY <2>1 DEF AtomicStep, Atomic!Next
<1>2. CASE kind[c] = "deleted"
  <2>1. \A u \in Users : role[c][u] = "none"
    BY <1>2, TablesTyped DEF ChatSound
  <2>2. [u \in Users |-> "none"] = role[c]
    BY <2>1, TablesTyped
  <2>3. role' = role /\ kind' = kind /\ rows' = rows
    BY <1>2, <2>2, TablesTyped DEF DeleteChat
  <2> QED
    BY <2>3 DEF AtomicStep
<1> QED
  BY <1>1, <1>2, TablesTyped

\* Writing a role is a promotion, a demotion, or changes nothing.
LEMMA SetRoleIsChange ==
    ASSUME Governance, NEW k \in Conns, SetRoleWrite(k)
    PROVE  AtomicStep
<1>1. pc[k] = "set_write" /\ UNCHANGED <<kind, rows, contested>> /\ k \in Procs
  BY DEF SetRoleWrite, Procs
<1>2. PICK c \in Chats, t \in Users :
        /\ c = req[k].chat /\ t = req[k].target /\ req[k].grant \in {"admin", "subscriber"}
        /\ RequestSound(k) /\ kind[c] # "unused"
  BY <1>1, BusyKnows
<1>3. CASE ~RowAlive(c, t, req[k].row)
  BY <1>1, <1>2, <1>3 DEF SetRoleWrite, AtomicStep
<1>4. CASE RowAlive(c, t, req[k].row)
  <2>1. role' = [role EXCEPT ![c][t] = req[k].grant] /\ role[c][t] # "none"
    BY <1>2, <1>4 DEF SetRoleWrite, RowAlive
  <2>2. kind[c] = "channel"
    BY <1>1, <1>2, <2>1, TablesTyped DEF RequestSound, ChatSound, Kinds
  <2>3. role[c][t] \in {"admin", "subscriber"}
    BY <1>1, <1>2, <1>4, <2>1, <2>2, TablesTyped DEF RequestSound, ChatSound, Roles
  <2>4. Atomic!Owned(c) \/ c \in contested
    BY <1>1, <1>2, <2>2 DEF RequestSound, Owned, Atomic!Owned
  <2>5. CASE role[c][t] = req[k].grant
    <3>1. role' = role
      BY <2>1, <2>5, TablesTyped
    <3> QED
      BY <1>1, <3>1 DEF AtomicStep
  <2>6. CASE role[c][t] = "subscriber" /\ req[k].grant = "admin"
    BY <1>1, <2>1, <2>2, <2>4, <2>6 DEF AtomicStep, Atomic!Next, Atomic!Promote
  <2>7. CASE role[c][t] = "admin" /\ req[k].grant = "subscriber"
    BY <1>1, <2>1, <2>2, <2>4, <2>7 DEF AtomicStep, Atomic!Next, Atomic!Demote
  <2> QED
    BY <1>2, <2>3, <2>5, <2>6, <2>7
<1> QED
  BY <1>3, <1>4

\* The owner's row comes in where nobody is in charge, or not at all.
LEMMA CreateOwnerIsFounding ==
    ASSUME Governance, NEW p \in Procs, CreateOwner(p)
    PROVE  AtomicStep
<1>1. pc[p] = "create_owner" /\ UNCHANGED kind
  BY DEF CreateOwner
<1>2. PICK c \in Chats, u \in Users : c = req[p].chat /\ u = req[p].user
  BY <1>1, BusyKnows
<1>3. CASE ~(Exists(c) /\ role[c][u] = "none")
  BY <1>1, <1>2, <1>3 DEF CreateOwner, AtomicStep
<1>4. CASE Exists(c) /\ role[c][u] = "none"
  <2>1. /\ InsertRows(c, {u}, "owner")
        /\ contested' = IF RemovalPending(c, u) THEN contested \cup {c} ELSE contested
    BY <1>2, <1>4 DEF CreateOwner
  <2>2. \A v \in Users : role[c][v] \notin {"owner", "admin"}
    BY <1>1, <1>2, GovernanceParts DEF FounderAlone, Managers
  <2>3. /\ [v \in Users |-> IF v \in {u} THEN "owner" ELSE role[c][v]]
               = [role[c] EXCEPT ![u] = "owner"]
        /\ [v \in Users |-> IF v \in {u} THEN rows[c][v] + 1 ELSE rows[c][v]]
               = [rows[c] EXCEPT ![u] = @ + 1]
    BY <1>2, TablesTyped
  <2>4. role' = [role EXCEPT ![c][u] = "owner"] /\ rows' = [rows EXCEPT ![c][u] = @ + 1]
    BY <2>1, <2>3 DEF InsertRows
  <2>5. RemovalPending(c, u) => rows[c][u] > 0
    <3> SUFFICES ASSUME NEW q \in Procs, pc[q] = "remove_delete", req[q].chat = c, req[q].target = u
                 PROVE  rows[c][u] > 0
      BY DEF RemovalPending
    <3> QED
      BY BusyKnows DEF RequestSound
  <2>6. Atomic!Found(c, u)
    BY <1>1, <1>4, <2>1, <2>2, <2>4, <2>5 DEF Atomic!Found, Atomic!Alive, Exists, Kinds
  <2> QED
    BY <2>6 DEF AtomicStep, Atomic!Next
<1> QED
  BY <1>3, <1>4

LEMMA ContinueIsAtomic ==
    ASSUME Governance, NEW p \in Procs, Continue(p)
    PROVE  AtomicStep
<1>1. pc[p] # "idle"
  BY DEF Continue, CreateOwner, ConnContinue, WorkerContinue, CreatePrime, AddCommit, Broadcast,
     RemoveReadTarget, RemoveDelete, RemoveCount, RemoveDissolve, SetRoleReadTarget,
     SetRoleWrite, DeleteChatVerify, DeleteChatCommit, JoinInsert, LeaveDelete, LeaveCount,
     LeaveDissolve
<1>2. PICK c \in Chats, u \in Users, t \in Users :
        /\ c = req[p].chat /\ u = req[p].user /\ t = req[p].target
        /\ req[p].batch \in SUBSET Users /\ kind[c] # "unused" /\ RequestSound(p)
  BY <1>1, BusyKnows
<1>3. CASE AddCommit(p)
  <2>1. CASE UNCHANGED <<role, rows>>
    BY <1>3, <2>1 DEF AddCommit, AtomicStep
  <2>2. CASE Exists(c) /\ (\A x \in req[p].batch : role[c][x] = "none")
             /\ InsertRows(c, req[p].batch, "member")
    <3>1. kind[c] # "channel"
      BY <1>1, <1>2, <1>3 DEF AddCommit, RequestSound
    <3>2. DefaultRole(c) = "member"
      BY <2>2, <3>1 DEF Exists, Kinds, DefaultRole
    <3>3. UNCHANGED <<kind, contested>>
      BY <1>3 DEF AddCommit
    <3> QED
      BY <1>2, <2>2, <3>2, <3>3, InsertIsEntry
  <2> QED
    BY <1>2, <1>3, <2>1, <2>2 DEF AddCommit
<1>4. CASE JoinInsert(p)
  <2>1. CASE UNCHANGED <<role, rows>>
    BY <1>4, <2>1 DEF JoinInsert, AtomicStep
  <2>2. CASE Exists(c) /\ role[c][u] = "none" /\ InsertRows(c, {u}, DefaultRole(c))
    <3>1. {u} \in SUBSET Users /\ (\A v \in {u} : role[c][v] = "none") /\ UNCHANGED <<kind, contested>>
      BY <1>4, <2>2 DEF JoinInsert
    <3> QED
      BY <2>2, <3>1, InsertIsEntry
  <2> QED
    BY <1>2, <1>4, <2>1, <2>2 DEF JoinInsert
<1>5. CASE RemoveDelete(p)
  <2>1. kind[c] = "channel" /\ c \notin contested => role[c][t] # "owner"
    BY <1>1, <1>2, <1>5 DEF RemoveDelete, RequestSound
  <2> QED
    BY <1>2, <1>5, <2>1, DeleteRowIsDeparture DEF RemoveDelete
<1>6. CASE LeaveDelete(p)
  <2>1. CASE RowAlive(c, u, req[p].row) /\ DeleteRow(c, u)
    <3>1. kind[c] = "channel" => role[c][u] # "owner"
      BY <1>1, <1>2, <1>6, <2>1 DEF LeaveDelete, RequestSound
    <3> QED
      BY <1>2, <1>6, <2>1, <3>1, DeleteRowIsDeparture DEF LeaveDelete
  <2>2. CASE UNCHANGED <<role, rows>>
    BY <1>6, <2>2 DEF LeaveDelete, AtomicStep
  <2> QED
    BY <1>2, <1>6, <2>1, <2>2 DEF LeaveDelete
<1>7. CASE Dissolve(p) \/ DeleteChatCommit(p)
  BY <1>2, <1>7, DeleteChatIsEnd DEF Dissolve, DeleteChatCommit
<1>8. CASE \/ CreatePrime(p) \/ Broadcast(p) \/ RemoveReadTarget(p)
           \/ SetRoleReadTarget(p) \/ DeleteChatVerify(p)
  BY <1>8 DEF AtomicStep, CreatePrime, Broadcast, RemoveReadTarget, SetRoleReadTarget, DeleteChatVerify
<1>9. CASE RemoveCount(p) \/ LeaveCount(p)
  BY <1>9 DEF AtomicStep, RemoveCount, LeaveCount, CountRemaining
<1> QED
  BY <1>3, <1>4, <1>5, <1>6, <1>7, <1>8, <1>9, SetRoleIsChange, CreateOwnerIsFounding
     DEF Continue, ConnContinue, WorkerContinue, RemoveDissolve, LeaveDissolve

LEMMA StepIsAtomic == Governance /\ [Next]_vars => AtomicStep
<1> SUFFICES ASSUME Governance, [Next]_vars PROVE AtomicStep
  OBVIOUS
<1>1. CASE UNCHANGED vars
  BY <1>1 DEF vars, AtomicStep
<1>2. ASSUME NEW p \in Procs, NEW u \in Users, NEW c \in Chats, NEW k \in Kinds, CreateChat(p, u, c, k)
      PROVE  AtomicStep
  BY <1>2 DEF CreateChat, AtomicStep, Atomic!Next, Atomic!Create, Kinds
<1>3. CASE \E k \in Conns : ConnRequest(k) \/ Reconnect(k)
  <2>1. ASSUME NEW k \in Conns, ConnRequest(k) PROVE UNCHANGED <<kind, role, rows, contested>>
    BY <2>1 DEF ConnRequest, AddCheck, RemoveReadActor, SetRoleReadActor, DeleteChatCheck, UserInChat
  <2>2. ASSUME NEW k \in Conns, Reconnect(k) PROVE UNCHANGED <<kind, role, rows, contested>>
    BY <2>2 DEF Reconnect
  <2> QED
    BY <1>3, <2>1, <2>2 DEF AtomicStep
<1>4. CASE \E p \in Workers : WorkerRequest(p)
  BY <1>4 DEF WorkerRequest, JoinGet, LeaveRead, AtomicStep
<1>5. CASE \E p \in Procs : Crash(p)
  BY <1>5 DEF Crash, AtomicStep
<1> QED
  BY <1>1, <1>2, <1>3, <1>4, <1>5, ContinueIsAtomic DEF Next

\* Whatever the handlers interleave to, the roles move as the atomic operations move them.
THEOREM RolesRefine == Spec => RolesMoveAtomically
<1>1. Init => Atomic!Init
  BY DEF Init, Atomic!Init
<1>2. Governance /\ [Next]_vars => [Atomic!Next]_<<kind, role, rows, contested>>
  BY StepIsAtomic DEF AtomicStep
<1> QED
  BY <1>1, <1>2, GovernanceHolds, PTL DEF Spec, RolesMoveAtomically, Atomic!Spec, Atomic!roleVars

\* The owner of a channel stays its owner until the channel is deleted, unless a removal
\* of the creator's earlier row was pending when the owner's row came in.
THEOREM OwnerStays == Spec => ChannelOwnerStays
<1>1. Governance /\ [Next]_vars =>
        [\A c \in Chats \ contested, u \in Users :
           kind'[c] = "channel" /\ role[c][u] = "owner" => role'[c][u] = "owner"]_vars
  <2> SUFFICES ASSUME Governance, [Next]_vars, NEW c \in Chats \ contested, NEW u \in Users,
                      kind'[c] = "channel", role[c][u] = "owner"
               PROVE  role'[c][u] = "owner"
    OBVIOUS
  <2>1. AtomicStep
    BY StepIsAtomic
  <2>2. ChatSound(c) /\ kind \in [Chats -> Kinds \cup {"unused", "deleted"}]
        /\ role \in [Chats -> [Users -> Roles \cup {"none"}]]
    BY TablesTyped
  <2>3. CASE UNCHANGED <<kind, role, rows, contested>>
    BY <2>3
  <2>4. ASSUME NEW d \in Chats, Atomic!Create(d) PROVE role'[c][u] = "owner"
    BY <2>4 DEF Atomic!Create
  <2>5. ASSUME NEW d \in Chats, Atomic!End(d) PROVE role'[c][u] = "owner"
    BY <2>2, <2>5 DEF Atomic!End
  <2>6. ASSUME NEW d \in Chats, NEW S \in SUBSET Users, Atomic!Enter(d, S) PROVE role'[c][u] = "owner"
    BY <2>2, <2>6 DEF Atomic!Enter
  <2>7. ASSUME NEW d \in Chats, NEW v \in Users,
               Atomic!Found(d, v) \/ Atomic!Depart(d, v) \/ Atomic!Promote(d, v) \/ Atomic!Demote(d, v)
        PROVE  role'[c][u] = "owner"
    BY <2>2, <2>7 DEF Atomic!Found, Atomic!Depart, Atomic!Promote, Atomic!Demote
  <2> QED
    BY <2>1, <2>3, <2>4, <2>5, <2>6, <2>7 DEF AtomicStep, Atomic!Next
<1> QED
  BY <1>1, GovernanceHolds, PTL DEF Spec, ChannelOwnerStays

\* Roles are given by inserting rows, which gives nobody the admin's, and by SetRoleWrite.
LEMMA InsertGivesDefault ==
    ASSUME Governance, NEW c \in Chats, NEW S \in SUBSET Users, NEW r,
           \A v \in S : role[c][v] = "none", InsertRows(c, S, r),
           NEW d \in Chats, NEW u \in Users, role'[d][u] # role[d][u]
    PROVE  role[d][u] = "none" /\ role'[d][u] = r
BY TablesTyped DEF InsertRows

LEMMA AdminsAreMade ==
    ASSUME Governance, Next, NEW c \in Chats, NEW u \in Users, role'[c][u] # role[c][u],
           role'[c][u] # "none", ~(role[c][u] = "none" /\ role'[c][u] # "admin")
    PROVE  \E k \in Conns : SetRoleWrite(k) /\ req[k].chat = c /\ req[k].target = u
                            /\ RowAlive(c, u, req[k].row) /\ role'[c][u] = req[k].grant
<1>1. ASSUME NEW p \in Procs, NEW v \in Users, NEW d \in Chats, NEW k \in Kinds, CreateChat(p, v, d, k)
      PROVE  FALSE
  BY <1>1 DEF CreateChat
<1>2. ASSUME NEW k \in Conns, ConnRequest(k) PROVE FALSE
  BY <1>2 DEF ConnRequest, AddCheck, RemoveReadActor, SetRoleReadActor, DeleteChatCheck, UserInChat
<1>3. ASSUME NEW p \in Procs, Crash(p) \/ (p \in Conns /\ Reconnect(p)) PROVE FALSE
  BY <1>3 DEF Crash, Reconnect
<1>4. ASSUME NEW p \in Workers, WorkerRequest(p) PROVE FALSE
  BY <1>4 DEF WorkerRequest, JoinGet, LeaveRead
<1>5. ASSUME NEW p \in Procs, Continue(p) PROVE p \in Conns /\ SetRoleWrite(p)
  <2>1. pc[p] # "idle"
    BY <1>5 DEF Continue, CreateOwner, ConnContinue, WorkerContinue, CreatePrime, AddCommit, Broadcast,
       RemoveReadTarget, RemoveDelete, RemoveCount, RemoveDissolve, SetRoleReadTarget,
       SetRoleWrite, DeleteChatVerify, DeleteChatCommit, JoinInsert, LeaveDelete, LeaveCount,
       LeaveDissolve
  <2>2. PICK d \in Chats, x \in Users, t \in Users :
          d = req[p].chat /\ x = req[p].user /\ t = req[p].target /\ req[p].batch \in SUBSET Users
    BY <2>1, BusyKnows
  <2>3. ~CreateOwner(p)
    <3> SUFFICES ASSUME CreateOwner(p) PROVE FALSE
      OBVIOUS
    <3>1. role[d][x] = "none" /\ InsertRows(d, {x}, "owner")
      BY <2>2 DEF CreateOwner
    <3> QED
      BY <2>2, <3>1, {x} \in SUBSET Users, InsertGivesDefault
  <2>4. ~AddCommit(p)
    <3> SUFFICES ASSUME AddCommit(p) PROVE FALSE
      OBVIOUS
    <3>1. (\A v \in req[p].batch : role[d][v] = "none") /\ InsertRows(d, req[p].batch, "member")
      BY <2>2 DEF AddCommit
    <3> QED
      BY <2>2, <3>1, InsertGivesDefault
  <2>5. ~JoinInsert(p)
    <3> SUFFICES ASSUME JoinInsert(p) PROVE FALSE
      OBVIOUS
    <3>1. role[d][x] = "none" /\ InsertRows(d, {x}, DefaultRole(d))
      BY <2>2 DEF JoinInsert
    <3> QED
      BY <2>2, <3>1, {x} \in SUBSET Users, InsertGivesDefault DEF DefaultRole
  <2>6. ~RemoveDelete(p) /\ ~LeaveDelete(p)
    BY <2>2, TablesTyped DEF RemoveDelete, LeaveDelete, DeleteRow
  <2>7. ~Dissolve(p) /\ ~DeleteChatCommit(p)
    BY <2>2, TablesTyped DEF Dissolve, DeleteChatCommit, DeleteChat
  <2>8. /\ ~CreatePrime(p) /\ ~Broadcast(p) /\ ~RemoveReadTarget(p) /\ ~SetRoleReadTarget(p) /\ ~DeleteChatVerify(p)
        /\ ~RemoveCount(p) /\ ~LeaveCount(p)
    BY DEF CreatePrime, Broadcast, RemoveReadTarget, SetRoleReadTarget, DeleteChatVerify,
       RemoveCount, LeaveCount, CountRemaining
  <2> QED
    BY <1>5, <2>3, <2>4, <2>5, <2>6, <2>7, <2>8
       DEF Continue, ConnContinue, WorkerContinue, RemoveDissolve, LeaveDissolve
<1>6. PICK k \in Conns : SetRoleWrite(k)
  BY <1>1, <1>2, <1>3, <1>4, <1>5 DEF Next, Procs
<1>7. PICK d \in Chats, t \in Users : d = req[k].chat /\ t = req[k].target
  BY <1>6, BusyKnows DEF SetRoleWrite, Procs
<1>8. RowAlive(d, t, req[k].row) /\ role' = [role EXCEPT ![d][t] = req[k].grant]
  BY <1>6, <1>7 DEF SetRoleWrite
<1>9. d = c /\ t = u /\ role'[c][u] = req[k].grant
  BY <1>8, TablesTyped
<1> QED
  BY <1>6, <1>7, <1>8, <1>9

\* A connection that writes a role has moved.
LEMMA WriterMoves ==
    ASSUME Governance, NEW k \in Conns, SetRoleWrite(k)
    PROVE  Moved(k)
<1>1. pc \in [Procs -> Labels] /\ k \in Procs /\ pc[k] = "set_write" /\ crashes' = crashes
  BY GovernanceParts DEF TypeOK, SetRoleWrite, Procs
<1>2. pc'[k] \in {"idle", "broadcast"}
  BY <1>1 DEF SetRoleWrite, Goto, Finish
<1> QED
  BY <1>1, <1>2 DEF Moved

\* An admin becomes a subscriber only by the doing of who owns the channel then.
THEOREM OwnersDemote == Spec => OnlyOwnerDemotes
<1>1. Governance /\ [Next]_vars =>
        [\A c \in Chats \ contested, u \in Users :
           kind[c] = "channel" /\ role[c][u] = "admin" /\ role'[c][u] = "subscriber" =>
             \E k \in Conns : Moved(k) /\ req[k].chat = c /\ role[c][req[k].user] = "owner"]_vars
  <2> SUFFICES ASSUME Governance, Next, NEW c \in Chats \ contested, NEW u \in Users,
                      kind[c] = "channel", role[c][u] = "admin", role'[c][u] = "subscriber"
               PROVE  \E k \in Conns : Moved(k) /\ req[k].chat = c /\ role[c][req[k].user] = "owner"
    OBVIOUS
  <2>1. PICK k \in Conns : SetRoleWrite(k) /\ req[k].chat = c /\ req[k].grant = "subscriber"
    BY AdminsAreMade
  <2>2. pc[k] = "set_write" /\ RequestSound(k)
    BY <2>1, GovernanceParts DEF SetRoleWrite, Procs
  <2>3. role[c][req[k].user] = "owner"
    BY <2>1, <2>2 DEF RequestSound
  <2> QED
    BY <2>1, <2>3, WriterMoves
<1> QED
  BY <1>1, GovernanceHolds, PTL DEF Spec, OnlyOwnerDemotes

\* A promotion reaches only the membership that was looked at.
THEOREM PromotionsHitTheirRow == Spec => PromotionSparesNewRows
<1>1. Governance /\ [Next]_vars =>
        [\A c \in Chats, u \in Users :
           role[c][u] # "admin" /\ role'[c][u] = "admin" =>
             \E k \in Conns : Moved(k) /\ req[k].target = u /\ req[k].row = rows[c][u]]_vars
  <2> SUFFICES ASSUME Governance, Next, NEW c \in Chats, NEW u \in Users,
                      role[c][u] # "admin", role'[c][u] = "admin"
               PROVE  \E k \in Conns : Moved(k) /\ req[k].target = u /\ req[k].row = rows[c][u]
    OBVIOUS
  <2>1. PICK k \in Conns : SetRoleWrite(k) /\ req[k].target = u /\ RowAlive(c, u, req[k].row)
    BY AdminsAreMade
  <2> QED
    BY <2>1, WriterMoves DEF RowAlive
<1> QED
  BY <1>1, GovernanceHolds, PTL DEF Spec, PromotionSparesNewRows
==============================================================================
