----------------------------- MODULE MediaFilesProofs -----------------------------
(***************************************************************************)
(* What holds of the videos and pictures: a video keeps its film, and the  *)
(* primary picture is the one last chosen, together with the messages that *)
(* carry videos.  The types are those of MessagesProofs.                   *)
(***************************************************************************)
EXTENDS MessagesProofs


-----------------------------------------------------------------------------
(* Who works on a video.  The request that posts one has it to itself until it has  *)
(* a row; a video is compressed by one task at a time (a clip that was destroyed    *)
(* and inserted again may be by two); and only rows that were made are compressed,  *)
(* attached or saved.                                                               *)

Founding(q) ==
    pc[q] \in {"insert", "recipients", "file", "video"} /\ req[q].via = "rest" /\ req[q].m \in Videos
FoundersAlone ==
    \A q \in Procs : Founding(q) =>
        /\ row[req[q].m] = "none"
        /\ \A r \in Procs \ {q} : pc[r] # "idle" => req[r].m # req[q].m
RowsKnown ==
    /\ \A q \in Procs : pc[q] \in Tasking \cup {"attach"} => row[req[q].m] # "none"
    /\ \A m \in queue : row[m] # "none"
    /\ \A x \in Ids : msgs[x].file # "none" => row[msgs[x].file] # "none"
    /\ \A q \in Procs : pc[q] \in SavingPicture =>
           row[req[q].m] # "none" \/ (pc[q] = "row" /\ Head(req[q].rounds) = "new")
OneTask ==
    \A q \in Procs : pc[q] \in Tasking /\ req[q].m \in Videos =>
        /\ req[q].m \notin queue
        /\ \A r \in Procs \ {q} : pc[r] \in Tasking => req[r].m # req[q].m
OneAtWork == FoundersAlone /\ RowsKnown /\ OneTask

\* What a step of p does to what it works on.
Works(p) ==
    /\ pc'[p] # "idle" /\ req'[p].m \in Videos =>
          \/ pc[p] # "idle" /\ req'[p].m = req[p].m
          \/ row[req'[p].m] # "none" \/ ~InHand(req'[p].m)
    /\ Founding(p)' => \/ Founding(p) /\ req'[p].m = req[p].m
                       \/ row[req'[p].m] = "none" /\ ~InHand(req'[p].m)
    /\ pc'[p] \in Tasking => \/ pc[p] \in Tasking /\ req'[p].m = req[p].m
                             \/ req'[p].m \in queue \ queue'
    /\ pc'[p] = "attach" => row'[req'[p].m] # "none"
    /\ pc'[p] \in SavingPicture => \/ pc'[p] = "row" /\ Head(req'[p].rounds) = "new"
                                   \/ row'[req'[p].m] # "none"

LEMMA WorkFrame ==
    ASSUME MediaOK, MediaOK', OneAtWork, NEW p \in Procs, Elsewhere(p), Works(p),
           \A m \in Media : row[m] # "none" => row'[m] # "none",
           \A m \in Videos : row[m] = "none" =>
               row'[m] = "none" \/ (Founding(p) /\ m = req[p].m /\ ~Founding(p)'),
           \A m \in queue' \ queue :
               /\ row'[m] # "none"
               /\ m \in Videos => \A q \in Procs : pc'[q] \in Tasking => req'[q].m # m,
           \A x \in Ids' : msgs'[x].file # "none" => row'[msgs'[x].file] # "none"
    PROVE  OneAtWork'
<1> USE DEF Elsewhere
<1>1. FoundersAlone'
    <2> SUFFICES ASSUME NEW q \in Procs, Founding(q)'
                 PROVE  /\ row'[req'[q].m] = "none"
                        /\ \A r \in Procs \ {q} : pc'[r] # "idle" => req'[r].m # req'[q].m
        BY DEF FoundersAlone
    <2>1. req'[q].m \in Videos
        BY DEF Founding
    <2>2. CASE q = p /\ Founding(p) /\ req'[p].m = req[p].m
        <3>1. /\ row[req[p].m] = "none"
              /\ \A r \in Procs \ {p} : pc[r] # "idle" => req[r].m # req[p].m
            BY <2>2 DEF OneAtWork, FoundersAlone
        <3> QED
            BY <2>1, <2>2, <3>1
    <2>3. CASE q = p /\ row[req'[p].m] = "none" /\ ~InHand(req'[p].m)
        <3>1. Founding(p) => req[p].m # req'[p].m
            BY <2>3 DEF InHand, Founding
        <3>2. row'[req'[p].m] = "none"
            BY <2>1, <2>3, <3>1
        <3> QED
            BY <2>3, <3>2 DEF InHand
    <2>4. CASE q # p
        <3>1. Founding(q) /\ req'[q] = req[q] /\ pc[q] # "idle"
            BY <2>4 DEF Founding
        <3>2. /\ row[req[q].m] = "none"
              /\ \A r \in Procs \ {q} : pc[r] # "idle" => req[r].m # req[q].m
            BY <3>1 DEF OneAtWork, FoundersAlone
        <3>3. Founding(p) => req[p].m # req[q].m
            BY <2>4, <3>2 DEF Founding
        <3>4. row'[req'[q].m] = "none"
            BY <2>1, <3>1, <3>2, <3>3
        <3>5. pc'[p] # "idle" => req'[p].m # req[q].m
            BY <2>1, <2>4, <3>1, <3>2 DEF Works, InHand
        <3> QED
            BY <3>1, <3>2, <3>4, <3>5
    <2> QED
        BY <2>2, <2>3, <2>4 DEF Works
<1>2. RowsKnown'
    <2>1. ASSUME NEW q \in Procs, pc'[q] \in Tasking \cup {"attach"}
          PROVE  row'[req'[q].m] # "none"
        <3>1. req'[q].m \in Media
            BY <2>1, HeldTyped, MediaDisjoint DEF MediaOK, ProcsOK, Fits, Tasking
        <3>2. CASE q # p
            BY <2>1, <3>1, <3>2 DEF OneAtWork, RowsKnown
        <3>3. CASE q = p
            BY <2>1, <3>1, <3>3 DEF OneAtWork, RowsKnown, Works
        <3> QED
            BY <3>2, <3>3
    <2>2. \A m \in queue' : row'[m] # "none"
        BY MediaDisjoint DEF OneAtWork, RowsKnown, MediaOK, TasksOK
    <2>3. ASSUME NEW q \in Procs, pc'[q] \in SavingPicture
          PROVE  row'[req'[q].m] # "none" \/ (pc'[q] = "row" /\ Head(req'[q].rounds) = "new")
        <3>1. req'[q].m \in Media
            BY <2>3, MediaDisjoint DEF MediaOK, ProcsOK, Fits
        <3>2. CASE q # p
            BY <2>3, <3>1, <3>2 DEF OneAtWork, RowsKnown
        <3>3. CASE q = p
            BY <2>3, <3>3 DEF Works
        <3> QED
            BY <3>2, <3>3
    <2> QED
        BY <2>1, <2>2, <2>3 DEF RowsKnown
<1>3. OneTask'
    <2> SUFFICES ASSUME NEW q \in Procs, pc'[q] \in Tasking, req'[q].m \in Videos
                 PROVE  /\ req'[q].m \notin queue'
                        /\ \A r \in Procs \ {q} : pc'[r] \in Tasking => req'[r].m # req'[q].m
        BY DEF OneTask
    <2>1. \A r \in Procs, m \in Videos : pc[r] \in Tasking /\ req[r].m = m =>
              m \notin queue /\ \A k \in Procs \ {r} : pc[k] \in Tasking => req[k].m # m
        BY DEF OneAtWork, OneTask
    <2>2. \A r \in Procs : pc'[r] \in Tasking =>
              \/ pc[r] \in Tasking /\ req'[r].m = req[r].m
              \/ r = p /\ req'[r].m \in queue \ queue'
        BY DEF Works
    <2>3. req'[q].m \notin queue'
        BY <2>1, <2>2
    <2>4. ASSUME NEW r \in Procs \ {q}, pc'[r] \in Tasking PROVE req'[r].m # req'[q].m
        BY <2>1, <2>2, <2>4
    <2> QED
        BY <2>3, <2>4
<1> QED
    BY <1>1, <1>2, <1>3 DEF OneAtWork

LEMMA StillWork ==
    ASSUME MediaOK, MsgsOK, OneAtWork, UNCHANGED <<pc, req, msgs>>, queue' \subseteq queue,
           \A m \in Media : row'[m] = "none" <=> row[m] = "none"
    PROVE  OneAtWork'
<1>1. \A q \in Procs : /\ pc[q] \in Tasking \cup {"attach"} => req[q].m \in Media
                       /\ pc[q] \in SavingPicture => req[q].m \in Media
    BY MediaDisjoint DEF MediaOK, ProcsOK, Fits, Tasking
<1>2. /\ queue \subseteq Media
      /\ \A x \in Ids : msgs[x].file # "none" => msgs[x].file \in Media
    BY MediaDisjoint, IdsTyped DEF MediaOK, TasksOK, Message
<1>3. FoundersAlone'
    BY MediaDisjoint DEF OneAtWork, FoundersAlone, Founding
<1>4. RowsKnown'
    BY <1>1, <1>2 DEF OneAtWork, RowsKnown, Ids
<1>5. OneTask'
    BY DEF OneAtWork, OneTask
<1> QED
    BY <1>3, <1>4, <1>5 DEF OneAtWork

\* A step that takes up no video, and leaves what has one alone.
Aside(p) ==
    /\ Elsewhere(p) /\ UNCHANGED <<row, queue>>
    /\ pc'[p] \notin Tasking \cup SavingPicture \cup {"attach"}
    /\ pc'[p] # "idle" /\ req'[p].m \in Videos => pc[p] # "idle" /\ req'[p].m = req[p].m
    /\ Founding(p)' => Founding(p)
    /\ \A x \in Ids' : msgs'[x].file # "none" => x \in Ids /\ msgs'[x].file = msgs[x].file

LEMMA AsideKeeps ==
    ASSUME MediaOK, MediaOK', OneAtWork, NEW p \in Procs, Aside(p)
    PROVE  OneAtWork'
<1>1. Works(p)
    BY DEF Aside, Works, Founding
<1>2. \A x \in Ids' : msgs'[x].file # "none" => row'[msgs'[x].file] # "none"
    BY DEF Aside, OneAtWork, RowsKnown
<1> QED
    BY <1>1, <1>2, WorkFrame DEF Aside

\* Steps that change no message.
LEMMA QuietAside ==
    ASSUME MediaOK, NEW p \in Procs,
           \/ PostWs(p) \/ PostRest(p) \/ Recipients(p) \/ PostFile(p)
           \/ \E x \in Ids : EditRead(p, x) \/ DeleteRead(p, x) \/ UpdateRead(p, x)
                             \/ DestroyRead(p, x)
           \/ EditSave(p) \/ PurgeStart(p) \/ PurgeList(p) \/ PurgeFails(p)
           \/ \E x \in Ids, kind \in Kinds : React(p, x, kind)
           \/ ReactFind(p) \/ ReactCount(p) \/ MessageCrash(p)
    PROVE  Aside(p)
<1> DEFINE Labels == {"insert", "recipients", "file", "video", "edit", "delete", "save", "list",
                      "purge", "idle"} \cup Reacting
<1>1. /\ UNCHANGED <<msgs, row, queue>>
      /\ \E label \in Labels : \E r :
             /\ GoWith(p, label, r)
             /\ \/ r.m = "none"
                \/ pc[p] # "idle" /\ r.m = req[p].m
             /\ Founding(p) \/ label \notin {"insert", "recipients", "file", "video"}
                            \/ r.via # "rest" \/ r.m = "none"
    <2>1. CASE PostWs(p) \/ PostRest(p)
        <3>1. PICK via \in {"ws", "rest"} : Post(p, "post", [NoRequest EXCEPT !.via = via])
            BY <2>1 DEF PostWs, PostRest
        <3> DEFINE r == [[NoRequest EXCEPT !.via = via] EXCEPT !.at = clock]
        <3>2. r.m = "none"
            BY DEF NoRequest
        <3>3. GoWith(p, "insert", r) /\ UNCHANGED <<msgs, row, queue>>
            BY <3>1 DEF Post, Begin, stored, tasks
        <3> QED
            BY <3>2, <3>3
    <2>2. CASE Recipients(p) \/ ReactFind(p) \/ ReactCount(p)
        <3>1. /\ UNCHANGED <<msgs, row, queue>> /\ pc[p] # "idle"
              /\ \/ GoWith(p, "idle", NoRequest)
                 \/ GoWith(p, "file", req[p]) /\ req[p].m # "none" /\ pc[p] = "recipients"
                                              /\ req[p].via = "rest"
                 \/ \E label \in Reacting \cup {"save"} : GoWith(p, label, req[p])
            BY <2>2 DEF Recipients, ReactFind, ReactCount, ReactQuery, Goto, Finish, Reacting,
               stored, tasks, messageVars
        <3>2. NoRequest.m = "none"
            BY DEF NoRequest
        <3>3. req[p].m # "none" /\ pc[p] = "recipients" /\ req[p].via = "rest" => Founding(p)
            BY HeldTyped DEF MediaOK, Fits, Founding, SavingPicture, Tasking
        <3>4. \A label \in Reacting \cup {"save"} :
                  label \notin {"insert", "recipients", "file", "video"}
            BY DEF Reacting
        <3> QED
            BY <3>1, <3>2, <3>3, <3>4
    <2>3. CASE PostFile(p)
        <3> DEFINE r == [req[p] EXCEPT !.path = StoredAs(req[p].m, req[p].path)]
        <3>1. r.m = req[p].m
            BY HeldTyped DEF MediaOK, Locals
        <3>2. GoWith(p, "video", r) /\ UNCHANGED <<msgs, row, queue>> /\ pc[p] = "file"
            BY <2>3 DEF PostFile, tasks, messageVars
        <3>3. Founding(p)
            BY <3>2, HeldTyped DEF MediaOK, Fits, Founding
        <3> QED
            BY <3>1, <3>2, <3>3
    <2>4. CASE \E x \in Ids : EditRead(p, x) \/ DeleteRead(p, x) \/ UpdateRead(p, x)
                              \/ DestroyRead(p, x)
        <3>1. PICK x \in Ids, label \in {"edit", "delete", "save"}, via \in {"ws", "rest"} :
                  \E d : Begin(p, "edit", label, [NoRequest EXCEPT !.x = x, !.via = via, !.deleted = d])
            BY <2>4 DEF EditRead, DeleteRead, UpdateRead, DestroyRead, Read
        <3>2. PICK d :
                  Begin(p, "edit", label, [NoRequest EXCEPT !.x = x, !.via = via, !.deleted = d])
            BY <3>1
        <3> DEFINE r == [NoRequest EXCEPT !.x = x, !.via = via, !.deleted = d]
        <3>3. r.m = "none"
            BY DEF NoRequest
        <3>4. GoWith(p, label, r)
            BY <3>2 DEF Begin
        <3>5. UNCHANGED <<msgs, row, queue>>
            BY <2>4 DEF EditRead, DeleteRead, UpdateRead, DestroyRead, Read, stored, tasks, messageVars
        <3> QED
            BY <3>3, <3>4, <3>5
    <2>5. CASE EditSave(p) \/ PurgeFails(p) \/ MessageCrash(p)
        BY <2>5 DEF EditSave, PurgeFails, MessageCrash, Crash, Finish, NoRequest, stored, tasks,
           messageVars
    <2>6. CASE PurgeStart(p)
        <3> DEFINE r == [NoRequest EXCEPT !.via = "purge"]
        <3>1. r.m = "none"
            BY DEF NoRequest
        <3>2. GoWith(p, "list", r) /\ UNCHANGED <<msgs, row, queue>>
            BY <2>6 DEF PurgeStart, Begin, stored, tasks, messageVars
        <3> QED
            BY <3>1, <3>2
    <2>7. CASE PurgeList(p)
        <3> DEFINE r == [req[p] EXCEPT !.todo = {x \in Ids : msgs[x].there /\ msgs[x].deleted}]
        <3>1. r.m = req[p].m /\ NoRequest.m = "none"
            BY HeldTyped DEF MediaOK, Locals, NoRequest
        <3>2. /\ UNCHANGED <<msgs, row, queue>> /\ pc[p] # "idle"
              /\ GoWith(p, "idle", NoRequest) \/ GoWith(p, "purge", r)
            BY <2>7 DEF PurgeList, Finish, stored, tasks, messageVars
        <3> HIDE DEF r
        <3>3. CASE GoWith(p, "idle", NoRequest)
            BY <3>1, <3>2, <3>3
        <3>4. CASE GoWith(p, "purge", r)
            BY <3>1, <3>2, <3>4
        <3> QED
            BY <3>2, <3>3, <3>4
    <2>8. CASE \E x \in Ids, kind \in Kinds : React(p, x, kind)
        <3>1. PICK x \in Ids, kind \in Kinds : React(p, x, kind)
            BY <2>8
        <3> DEFINE r == [NoRequest EXCEPT !.x = x, !.kind = kind, !.via = "react"]
        <3>2. r.m = "none"
            BY DEF NoRequest
        <3>3. GoWith(p, "find", r) /\ UNCHANGED <<msgs, row, queue>>
            BY <3>1 DEF React, Begin, stored, tasks
        <3> QED
            BY <3>2, <3>3 DEF Reacting
    <2> QED
        BY <2>1, <2>2, <2>3, <2>4, <2>5, <2>6, <2>7, <2>8
<1>2. PICK label \in Labels : \E r :
          /\ GoWith(p, label, r)
          /\ \/ r.m = "none"
             \/ pc[p] # "idle" /\ r.m = req[p].m
          /\ Founding(p) \/ label \notin {"insert", "recipients", "file", "video"}
                         \/ r.via # "rest" \/ r.m = "none"
    BY <1>1
<1>3. PICK r : /\ GoWith(p, label, r)
               /\ \/ r.m = "none"
                  \/ pc[p] # "idle" /\ r.m = req[p].m
               /\ Founding(p) \/ label \notin {"insert", "recipients", "file", "video"}
                              \/ r.via # "rest" \/ r.m = "none"
    BY <1>2
<1>4. Elsewhere(p) /\ pc'[p] = label /\ req'[p] = r
    BY <1>3, MoveElsewhere DEF MediaOK
<1>5. label \notin Tasking \cup SavingPicture \cup {"attach"}
    BY DEF Tasking, SavingPicture, Reacting
<1>6. "none" \notin Videos
    BY MediaDisjoint
<1> HIDE DEF Labels
<1>7. Founding(p)' => Founding(p)
    BY <1>3, <1>4, <1>6 DEF Founding
<1> QED
    BY <1>1, <1>3, <1>4, <1>5, <1>6, <1>7 DEF Aside, Ids

\* Steps that change a message, but not the video it has.
LEMMA MessageAside ==
    ASSUME MediaOK, MsgsOK, NEW p \in Procs,
           \/ Insert(p) \/ DeleteSave(p) \/ FullSave(p)
           \/ Unreact(p) \/ DropOldest(p) \/ ReactCreate(p)
    PROVE  Aside(p)
<1>1. CASE Insert(p)
    <2> DEFINE r == [req[p] EXCEPT !.x = Len(msgs) + 1]
               new == NewMessage(req[p].at)
    <2>1. r.m = req[p].m /\ r.via = req[p].via /\ new \in Message /\ new.file = "none"
        BY HeldTyped, EmptySeq DEF MediaOK, Locals, NewMessage, Message
    <2>2. GoWith(p, "recipients", r) /\ UNCHANGED <<row, queue>> /\ pc[p] = "insert"
        BY <1>1 DEF Insert, stored, tasks
    <2>3. msgs' = Append(msgs, new)
        BY <1>1 DEF Insert
    <2> HIDE DEF r, new
    <2>4. Elsewhere(p) /\ pc'[p] = "recipients" /\ req'[p] = r
        BY <2>2, MoveElsewhere DEF MediaOK
    <2>5. \A x \in Ids' : msgs'[x].file # "none" => x \in Ids /\ msgs'[x].file = msgs[x].file
        BY <2>1, <2>3, MessageAdded
    <2> QED
        BY <2>1, <2>2, <2>4, <2>5 DEF Aside, Founding, Tasking, SavingPicture
<1>2. CASE DeleteSave(p) \/ FullSave(p)
    <2>1. pc[p] \in {"delete", "save"} /\ req[p].x \in Ids /\ msgs[req[p].x] \in Message
        BY <1>2, HeldTyped, IdsTyped DEF DeleteSave, FullSave, MediaOK, Fits, OnMessage
    <2>2. Ids' = Ids /\ \A x \in Ids : msgs'[x].file = msgs[x].file
        <3>1. CASE DeleteSave(p)
            BY <2>1, <3>1 DEF DeleteSave, Ids, Message
        <3>2. CASE FullSave(p)
            <4> DEFINE y == req[p].x
                       del == req[p].deleted
            <4>1. msgs' = [msgs EXCEPT ![y] = [msgs[y] EXCEPT !.there = TRUE, !.deleted = del,
                                               !.fate = IF del THEN Fate(p, y) ELSE @]]
                BY <3>2 DEF FullSave
            <4>2. \A d, f : [msgs[y] EXCEPT !.there = TRUE, !.deleted = d, !.fate = f].file
                            = msgs[y].file
                BY <2>1 DEF Message
            <4> QED
                BY <2>1, <4>1, <4>2 DEF Ids
        <3> QED
            BY <1>2, <3>1, <3>2
    <2>3. /\ UNCHANGED <<row, queue>>
          /\ \/ GoWith(p, "idle", NoRequest)
             \/ GoWith(p, "recipients", [req[p] EXCEPT !.via = "again"])
        BY <1>2 DEF DeleteSave, FullSave, Finish, stored, tasks
    <2>4. [req[p] EXCEPT !.via = "again"].m = req[p].m /\ [req[p] EXCEPT !.via = "again"].via = "again"
        BY HeldTyped DEF MediaOK, Locals
    <2>5. /\ Elsewhere(p)
          /\ \/ pc'[p] = "idle"
             \/ pc'[p] = "recipients" /\ req'[p].m = req[p].m /\ req'[p].via = "again"
        <3>1. CASE GoWith(p, "idle", NoRequest)
            BY <3>1, MoveElsewhere DEF MediaOK
        <3>2. CASE GoWith(p, "recipients", [req[p] EXCEPT !.via = "again"])
            <4>1. Elsewhere(p) /\ pc'[p] = "recipients" /\ req'[p] = [req[p] EXCEPT !.via = "again"]
                BY <3>2, MoveElsewhere DEF MediaOK
            <4> QED
                BY <2>4, <4>1
        <3> QED
            BY <2>3, <3>1, <3>2
    <2> QED
        BY <2>1, <2>2, <2>3, <2>5 DEF Aside, Founding, Tasking, SavingPicture
<1>3. CASE Unreact(p) \/ DropOldest(p) \/ ReactCreate(p)
    <2>1. pc[p] \in Reacting /\ pc[p] # "idle"
        BY <1>3 DEF Unreact, DropOldest, ReactCreate, Reacting
    <2>2. PICK marks : Marks(p, marks)
        BY <1>3, MarkStepMakes
    <2>3. req[p].x \in Ids /\ msgs[req[p].x] \in Message
        BY <2>1, ReactingTyped
    <2>4. Ids' = Ids /\ \A x \in Ids : msgs'[x].file = msgs[x].file
        BY <2>2, <2>3 DEF Marks, Ids, Message
    <2>5. UNCHANGED <<row, queue>>
        BY <2>2 DEF Marks, stored, tasks
    <2>6. GoWith(p, "idle", NoRequest) \/ GoWith(p, "create", req[p])
        BY <1>3 DEF Unreact, DropOldest, ReactCreate, Finish, Goto
    <2>7. /\ Elsewhere(p)
          /\ \/ pc'[p] = "idle"
             \/ pc'[p] = "create" /\ req'[p] = req[p]
        BY <2>6, MoveElsewhere DEF MediaOK
    <2> QED
        BY <2>1, <2>4, <2>5, <2>7 DEF Aside, Founding, Tasking, SavingPicture
<1> QED
    BY <1>1, <1>2, <1>3

LEMMA PostVideoWorks ==
    ASSUME MediaOK, MsgsOK, MediaOK', OneAtWork, NEW p \in Procs, NEW m \in Videos, NEW base,
           PostVideo(p, m, base)
    PROVE  OneAtWork'
<1> DEFINE r == [[NoRequest EXCEPT !.via = "rest", !.m = m, !.path.base = base] EXCEPT !.at = clock]
<1>1. r.m = m
    BY DEF NoRequest
<1>2. GoWith(p, "insert", r) /\ row[m] = "none" /\ ~InHand(m) /\ UNCHANGED <<msgs, row, queue>>
    BY DEF PostVideo, Post, Begin, stored, tasks
<1> HIDE DEF r
<1>3. Elsewhere(p) /\ pc'[p] = "insert" /\ req'[p].m = m
    BY <1>1, <1>2, MoveElsewhere DEF MediaOK
<1>4. Works(p)
    BY <1>2, <1>3 DEF Works, Tasking, SavingPicture
<1>5. \A x \in Ids' : msgs'[x].file # "none" => row'[msgs'[x].file] # "none"
    BY <1>2 DEF OneAtWork, RowsKnown, Ids
<1> QED
    BY <1>2, <1>3, <1>4, <1>5, WorkFrame

LEMMA PostRowWorks ==
    ASSUME MediaOK, MsgsOK, MediaOK', OneAtWork, NEW p \in Procs, PostRow(p)
    PROVE  OneAtWork'
<1> DEFINE m == req[p].m
<1>1. /\ m \in Videos /\ m \in Media /\ Founding(p) /\ pc[p] = "video"
    BY HeldTyped, MediaDisjoint DEF PostRow, MediaOK, Fits, Founding
<1>2. /\ row' = [row EXCEPT ![m] = "there"] /\ queue' = queue \cup {m}
      /\ msgs' = msgs
    BY DEF PostRow, messageVars
<1>3. Elsewhere(p) /\ pc'[p] = "attach" /\ req'[p] = req[p]
    BY MoveElsewhere DEF PostRow, Goto, MediaOK
<1>4. \A k \in Media : row'[k] = IF k = m THEN "there" ELSE row[k]
    BY <1>2 DEF MediaOK, StorageOK
<1>5. Works(p) /\ ~Founding(p)'
    BY <1>1, <1>3, <1>4 DEF Works, Founding, Tasking, SavingPicture
<1>6. \A q \in Procs : pc'[q] \in Tasking => req'[q].m # m
    <2>1. \A q \in Procs \ {p} : pc[q] # "idle" => req[q].m # m
        BY <1>1 DEF OneAtWork, FoundersAlone
    <2>2. \A q \in Procs : pc'[q] \in Tasking => q # p /\ pc[q] # "idle" /\ req'[q] = req[q]
        BY <1>3 DEF Elsewhere, Tasking
    <2> QED
        BY <2>1, <2>2
<1>7. \A x \in Ids' : msgs'[x].file # "none" => row'[msgs'[x].file] # "none"
    BY <1>2, <1>4, IdsTyped, MediaDisjoint DEF OneAtWork, RowsKnown, Ids, Message
<1>8. /\ \A k \in Media : row[k] # "none" => row'[k] # "none"
      /\ \A k \in Videos : row[k] = "none" => row'[k] = "none" \/ k = req[p].m
      /\ \A k \in queue' \ queue : k = req[p].m /\ row'[k] # "none"
    BY <1>1, <1>2, <1>4, MediaDisjoint
<1> QED
    BY <1>1, <1>3, <1>5, <1>6, <1>7, <1>8, WorkFrame

LEMMA PostAttachWorks ==
    ASSUME MediaOK, MsgsOK, MediaOK', OneAtWork, NEW p \in Procs, PostAttach(p)
    PROVE  OneAtWork'
<1> DEFINE y == req[p].x
<1>1. /\ req[p].m \in Videos /\ y \in Ids /\ msgs[y] \in Message /\ pc[p] = "attach"
      /\ row[req[p].m] # "none"
    BY HeldTyped, IdsTyped DEF PostAttach, MediaOK, Fits, OnMessage, OneAtWork, RowsKnown
<1>2. UNCHANGED <<row, queue>> /\ Ids' = Ids
    BY DEF PostAttach, stored, tasks, Ids
<1>3. \A x \in Ids : msgs'[x].file = msgs[x].file \/ msgs'[x].file = req[p].m
    BY <1>1 DEF PostAttach, Message, Ids
<1>4. /\ Elsewhere(p)
      /\ pc'[p] = "idle" \/ (pc'[p] = "save" /\ req'[p] = req[p])
    BY MoveElsewhere DEF PostAttach, Goto, Finish, MediaOK
<1>5. Works(p)
    BY <1>1, <1>4 DEF Works, Founding, Tasking, SavingPicture
<1>6. \A x \in Ids' : msgs'[x].file # "none" => row'[msgs'[x].file] # "none"
    BY <1>1, <1>2, <1>3 DEF OneAtWork, RowsKnown
<1> QED
    BY <1>2, <1>4, <1>5, <1>6, WorkFrame

LEMMA PurgeBatchWorks ==
    ASSUME MediaOK, MsgsOK, MediaOK', OneAtWork, NEW p \in Procs, PurgeBatch(p)
    PROVE  OneAtWork'
<1> DEFINE batch == req[p].todo
<1>1. batch \subseteq Ids /\ pc[p] = "purge"
    BY HeldTyped DEF PurgeBatch, MediaOK, Fits
<1>2. /\ Ids' = Ids
      /\ \A x \in Ids : msgs'[x].file # "none" => msgs'[x].file = msgs[x].file
    BY <1>1, MessagesCleared DEF PurgeBatch, Cleared
<1>3. \A m \in Media : row'[m] = IF m \in Films(batch) THEN "gone" ELSE row[m]
    BY DEF PurgeBatch
<1>4. \A m \in Films(batch) : row[m] # "none"
    BY <1>1 DEF Films, OneAtWork, RowsKnown
<1>5. \A m \in Media : row'[m] = "none" <=> row[m] = "none"
    BY <1>3, <1>4
<1>6. Elsewhere(p) /\ pc'[p] = "list" /\ req'[p] = req[p] /\ queue' = queue
    BY MoveElsewhere DEF PurgeBatch, Goto, MediaOK, tasks
<1>7. Works(p)
    BY <1>1, <1>6 DEF Works, Founding, Tasking, SavingPicture
<1>8. \A x \in Ids' : msgs'[x].file # "none" => row'[msgs'[x].file] # "none"
    BY <1>2, <1>5, IdsTyped, MediaDisjoint DEF OneAtWork, RowsKnown, Message
<1> QED
    BY <1>5, <1>6, <1>7, <1>8, MediaDisjoint, WorkFrame

\* A step of a task that goes on with its video.
LEMMA TaskGoesOn ==
    ASSUME MediaOK, MediaOK', OneAtWork, UNCHANGED <<msgs, row>>, NEW p \in Procs, pc[p] \in Tasking,
           Elsewhere(p),
           \/ pc'[p] = "idle"
           \/ pc'[p] \in Tasking \cup {"row"} /\ req'[p].m = req[p].m,
           queue' = queue \/ (queue' = queue \cup {req[p].m} /\ pc'[p] \notin Tasking)
    PROVE  OneAtWork'
<1>1. row[req[p].m] # "none" /\ pc[p] # "idle"
    BY DEF OneAtWork, RowsKnown, Tasking
<1>2. Works(p)
    BY <1>1 DEF Works, Founding, Tasking, SavingPicture
<1>3. \A x \in Ids' : msgs'[x].file # "none" => row'[msgs'[x].file] # "none"
    BY DEF OneAtWork, RowsKnown, Ids
<1>4. ASSUME NEW m \in queue' \ queue
      PROVE  /\ row'[m] # "none"
             /\ m \in Videos => \A q \in Procs : pc'[q] \in Tasking => req'[q].m # m
    <2>1. m = req[p].m /\ pc'[p] \notin Tasking
        BY <1>4
    <2>2. m \in Videos => \A q \in Procs \ {p} : pc[q] \in Tasking => req[q].m # m
        BY <2>1 DEF OneAtWork, OneTask
    <2> QED
        BY <1>1, <2>1, <2>2 DEF Elsewhere
<1> QED
    BY <1>2, <1>3, <1>4, WorkFrame

LEMMA TaskWorks ==
    ASSUME MediaOK, MediaOK', OneAtWork, UNCHANGED msgs, NEW p \in Procs,
           \/ Encode(p) \/ Skip(p) \/ Drop(p) \/ Store(p) \/ Record(p) \/ TaskFails(p)
    PROVE  OneAtWork'
<1>1. pc[p] \in Tasking /\ row' = row
    BY DEF Encode, Skip, Drop, Store, Record, TaskFails, Tasking, stored
<1>2. queue' = queue \/ (queue' = queue \cup {req[p].m} /\ TaskFails(p))
    BY DEF Encode, Skip, Drop, Store, Record, TaskFails, tasks
<1>3. \E label \in Tasking \cup {"row", "idle"} : \E r :
          /\ GoWith(p, label, r)
          /\ label = "idle" \/ r.m = req[p].m
          /\ Skip(p) \/ TaskFails(p) => label \in {"idle", "row"}
    <2>1. CASE Encode(p) /\ ~Skip(p) /\ ~TaskFails(p)
        <3>1. \A o : [req[p] EXCEPT !.of = o].m = req[p].m
            BY HeldTyped DEF MediaOK, Locals
        <3> QED
            BY <2>1, <3>1 DEF Encode, Tasking
    <2>2. CASE Drop(p) /\ ~TaskFails(p)
        BY <2>2 DEF Drop, Goto, Skip, Tasking
    <2>3. CASE Store(p) /\ ~Skip(p) /\ ~TaskFails(p)
        <3>1. \A x : [req[p] EXCEPT !.path = x].m = req[p].m
            BY HeldTyped DEF MediaOK, Locals
        <3>2. PICK x : GoWith(p, "record", [req[p] EXCEPT !.path = x])
            BY <2>3 DEF Store
        <3> QED
            BY <2>3, <3>1, <3>2 DEF Tasking
    <2>4. CASE Record(p)
        <3>1. \A s : [req[p] EXCEPT !.rounds = s].m = req[p].m
            BY HeldTyped DEF MediaOK, Locals
        <3> QED
            BY <2>4, <3>1 DEF Record, Finish, Skip, TaskFails
    <2>5. CASE Skip(p) \/ TaskFails(p)
        <3>1. \A s, f : [req[p] EXCEPT !.flag = f, !.rounds = s].m = req[p].m
            BY HeldTyped DEF MediaOK, Locals
        <3>2. MarkFailed(p)
            BY <2>5 DEF Skip, TaskFails
        <3> QED
            BY <3>1, <3>2 DEF MarkFailed
    <2> QED
        BY <2>1, <2>2, <2>3, <2>4, <2>5
<1>4. PICK label \in Tasking \cup {"row", "idle"} : \E r :
          /\ GoWith(p, label, r)
          /\ label = "idle" \/ r.m = req[p].m
          /\ Skip(p) \/ TaskFails(p) => label \in {"idle", "row"}
    BY <1>3
<1>5. /\ Elsewhere(p) /\ pc'[p] = label
      /\ label = "idle" \/ req'[p].m = req[p].m
    BY <1>4, MoveElsewhere DEF MediaOK
<1>6. queue' = queue \/ (queue' = queue \cup {req[p].m} /\ pc'[p] \notin Tasking)
    BY <1>2, <1>4, <1>5 DEF Tasking
<1> QED
    BY <1>1, <1>5, <1>6, TaskGoesOn

LEMMA TakeWorks ==
    ASSUME MediaOK, MediaOK', OneAtWork, UNCHANGED msgs, NEW p \in Procs, NEW m \in Videos \cup Clips,
           Take(p, m)
    PROVE  OneAtWork'
<1> DEFINE r == [NoRequest EXCEPT !.m = m, !.path = path[m], !.via = "task",
                                  !.flag = m \in Clips /\ primary[m]]
<1>1. r.m = m
    BY DEF NoRequest
<1>2. GoWith(p, "encode", r) /\ row' = row /\ queue' = queue \ {m} /\ m \in queue /\ row[m] # "none"
    BY DEF Take, There, stored
<1> HIDE DEF r
<1>3. Elsewhere(p) /\ pc'[p] = "encode" /\ req'[p].m = m
    BY <1>1, <1>2, MoveElsewhere DEF MediaOK
<1>4. Works(p)
    BY <1>2, <1>3 DEF Works, Founding, SavingPicture
<1>5. \A x \in Ids' : msgs'[x].file # "none" => row'[msgs'[x].file] # "none"
    BY <1>2 DEF OneAtWork, RowsKnown, Ids
<1> QED
    BY <1>2, <1>3, <1>4, <1>5, WorkFrame

\* A step of a request that saves a picture.
LEMMA PictureGoesOn ==
    ASSUME MediaOK, MediaOK', MsgsOK, OneAtWork, UNCHANGED msgs, NEW p \in Procs, Elsewhere(p),
           \/ pc'[p] = "idle"
           \/ /\ pc'[p] \in SavingPicture /\ req'[p].m \in Pictures
              /\ \/ pc'[p] = "row" /\ Head(req'[p].rounds) = "new"
                 \/ row'[req'[p].m] # "none",
           \A m \in Media : row[m] # "none" => row'[m] # "none",
           \A m \in Videos : row'[m] = row[m],
           \A m \in queue' \ queue : m \in Pictures /\ row'[m] # "none"
    PROVE  OneAtWork'
<1>1. Works(p)
    BY MediaDisjoint DEF Works, Founding, Tasking, SavingPicture
<1>2. \A x \in Ids' : msgs'[x].file # "none" => row'[msgs'[x].file] # "none"
    <2>1. Ids' = Ids
        BY DEF Ids
    <2>2. \A x \in Ids : msgs[x].file # "none" => msgs[x].file \in Media
        BY IdsTyped, MediaDisjoint DEF Message
    <2> QED
        BY <2>1, <2>2 DEF OneAtWork, RowsKnown
<1>3. \A m \in queue' \ queue : m \notin Videos
    BY MediaDisjoint
<1> QED
    BY <1>1, <1>2, <1>3, WorkFrame

LEMMA BeginPictureWorks ==
    ASSUME MediaOK, MediaOK', MsgsOK, OneAtWork, UNCHANGED msgs, NEW p \in Procs, NEW m \in Pictures,
           NEW flag, NEW rounds, NEW base, BeginPicture(p, m, flag, rounds, base),
           Head(rounds) = "new" \/ There(m)
    PROVE  OneAtWork'
<1> DEFINE r == [NoRequest EXCEPT !.m = m, !.flag = flag, !.rounds = rounds,
                                  !.path = [dir |-> today, base |-> base, own |-> "none"]]
<1>1. r.m = m /\ r.rounds = rounds
    BY DEF NoRequest
<1>2. GoWith(p, "row", r) /\ UNCHANGED <<row, queue>>
    BY DEF BeginPicture, Begin, stored, tasks
<1> HIDE DEF r
<1>3. Elsewhere(p) /\ pc'[p] = "row" /\ req'[p].m = m /\ req'[p].rounds = rounds
    BY <1>1, <1>2, MoveElsewhere DEF MediaOK
<1> QED
    BY <1>2, <1>3, PictureGoesOn DEF SavingPicture, There

LEMMA RequestPictureWorks ==
    ASSUME MediaOK, MediaOK', MsgsOK, OneAtWork, UNCHANGED msgs, NEW p \in Procs,
           \/ \E m \in Photos, base \in Names, asked \in BOOLEAN : CreatePhoto(p, m, base, asked)
           \/ \E m \in Clips, base \in Names, asked \in BOOLEAN : CreateClip(p, m, base, asked)
           \/ \E m \in Pictures : SetPrimary(p, m)
    PROVE  OneAtWork'
<1>1. /\ Head(<<"new", "part", "full", "part">>) = "new" /\ Head(<<"new", "part">>) = "new"
      /\ Head(<<"new", "full">>) = "new" /\ Head(<<"new">>) = "new"
    OBVIOUS
<1>2. PICK m \in Pictures : \E flag, rounds, base :
          BeginPicture(p, m, flag, rounds, base) /\ (Head(rounds) = "new" \/ There(m))
    <2>1. CASE \E m \in Photos, base \in Names, asked \in BOOLEAN : CreatePhoto(p, m, base, asked)
        BY <1>1, <2>1 DEF CreatePhoto, Pictures
    <2>2. CASE \E m \in Clips, base \in Names, asked \in BOOLEAN : CreateClip(p, m, base, asked)
        BY <1>1, <2>2 DEF CreateClip, Pictures
    <2>3. CASE \E m \in Pictures : SetPrimary(p, m)
        BY <2>3 DEF SetPrimary
    <2> QED
        BY <2>1, <2>2, <2>3
<1> QED
    BY <1>2, BeginPictureWorks

LEMMA SavePictureWorks ==
    ASSUME MediaOK, MediaOK', MsgsOK, OneAtWork, UNCHANGED msgs, NEW p \in Procs,
           SaveRow(p) \/ Ensure(p) \/ Unset(p) \/ SaveFlag(p)
    PROVE  OneAtWork'
<1> DEFINE m == req[p].m
<1>1. pc[p] \in SavingPicture /\ m \in Pictures /\ m \in Media /\ NoRequest.m = "none"
    <2>1. pc[p] \in SavingPicture
        BY DEF SaveRow, Ensure, Unset, SaveFlag, SavingPicture
    <2> QED
        BY <2>1, SavingTyped DEF NoRequest
<1>2. /\ \A f : [req[p] EXCEPT !.flag = f].m = m
      /\ \A s : [req[p] EXCEPT !.rounds = s].m = m
    BY <1>1, SavingTyped DEF Locals
<1>3. /\ Elsewhere(p)
      /\ pc'[p] = "idle" \/ (pc'[p] \in SavingPicture /\ req'[p].m = m)
    <2>1. \/ GoWith(p, "idle", NoRequest)
          \/ \E label \in SavingPicture : \E r : GoWith(p, label, r) /\ r.m = m
        <3>1. CASE SaveRow(p)
            BY <1>2, <3>1 DEF SaveRow, Finish, SavingPicture
        <3>2. CASE Ensure(p) \/ Unset(p) \/ SaveFlag(p)
            BY <1>2, <3>2 DEF Ensure, Unset, SaveFlag, Goto, Finish, SavingPicture
        <3> QED
            BY <3>1, <3>2
    <2>2. CASE GoWith(p, "idle", NoRequest)
        BY <2>2, MoveElsewhere DEF MediaOK
    <2>3. ASSUME NEW label \in SavingPicture, NEW r, GoWith(p, label, r), r.m = m
          PROVE  Elsewhere(p) /\ pc'[p] \in SavingPicture /\ req'[p].m = m
        BY <2>3, MoveElsewhere DEF MediaOK
    <2> QED
        BY <2>1, <2>2, <2>3
<1>4. CASE SaveRow(p) /\ pc'[p] # "idle"
    <2>1. row' = [row EXCEPT ![m] = "there"] /\ queue' \subseteq queue \cup {m}
        <3>1. ~Finish(p)
            BY <1>4, MoveElsewhere DEF Finish, MediaOK
        <3> QED
            BY <1>4, <3>1 DEF SaveRow, StoreVideo
    <2>2. \A k \in Media : row'[k] = IF k = m THEN "there" ELSE row[k]
        BY <2>1 DEF MediaOK, StorageOK
    <2> QED
        BY <1>1, <1>3, <1>4, <2>1, <2>2, MediaDisjoint, PictureGoesOn
<1>5. CASE ~(SaveRow(p) /\ pc'[p] # "idle")
    <2>1. UNCHANGED <<row, queue>>
        <3>1. CASE SaveRow(p)
            <4>1. pc'[p] \in {"ensure", "unset"} \/ UNCHANGED <<stored, primary, tasks>>
                BY <3>1, MoveElsewhere DEF SaveRow, MediaOK
            <4> QED
                BY <1>5, <3>1, <4>1 DEF stored, tasks
        <3>2. CASE Ensure(p) \/ Unset(p) \/ SaveFlag(p)
            BY <3>2 DEF Ensure, Unset, SaveFlag, stored, tasks
        <3> QED
            BY <3>1, <3>2
    <2>2. ASSUME pc'[p] # "idle" PROVE row[m] # "none"
        <3>1. pc[p] \in SavingPicture \ {"row"}
            BY <1>1, <1>5, <2>2 DEF Ensure, Unset, SaveFlag
        <3> QED
            BY <3>1 DEF OneAtWork, RowsKnown
    <2> QED
        BY <1>1, <1>3, <2>1, <2>2, PictureGoesOn
<1> QED
    BY <1>4, <1>5

LEMMA MediaWorks ==
    ASSUME MediaOK, MediaOK', MsgsOK, OneAtWork, UNCHANGED msgs, MediaNext
    PROVE  OneAtWork'
<1>1. ASSUME NEW m \in Media, TakeStale(m) \/ Destroy(m) \/ Midnight PROVE OneAtWork'
    <2>1. UNCHANGED <<pc, req>> /\ queue' \subseteq queue
        BY <1>1 DEF TakeStale, Destroy, Midnight, proc, tasks
    <2>2. \A k \in Media : row'[k] = "none" <=> row[k] = "none"
        BY <1>1 DEF TakeStale, Destroy, Midnight, stored, There, MediaOK, StorageOK
    <2> QED
        BY <2>1, <2>2, StillWork
<1>2. ASSUME Midnight PROVE OneAtWork'
    BY <1>2, StillWork DEF Midnight, tasks
<1> QED
    BY <1>1, <1>2, MediaDisjoint, TakeWorks, TaskWorks, RequestPictureWorks, SavePictureWorks
    DEF MediaNext

LEMMA WorkInit == Init => OneAtWork
BY DEF Init, MediaInit, OneAtWork, FoundersAlone, RowsKnown, OneTask, Founding, Tasking,
   SavingPicture, Ids

LEMMA WorkStep == Typed /\ Typed' /\ OneAtWork /\ [Next]_vars => OneAtWork'
<1> SUFFICES ASSUME MediaOK, MediaOK', MsgsOK, OneAtWork, [Next]_vars PROVE OneAtWork'
    BY DEF Typed, MediaOK
<1>1. CASE PostNext
    BY <1>1, QuietAside, MessageAside, AsideKeeps, PostVideoWorks, PostRowWorks, PostAttachWorks
    DEF PostNext
<1>2. CASE ChangeNext
    BY <1>2, QuietAside, MessageAside, AsideKeeps, PurgeBatchWorks DEF ChangeNext
<1>3. CASE ReaderNext
    <2>1. CASE \E p \in Procs :
                  \/ \E x \in Ids, kind \in Kinds : ReactWs(p, x, kind) \/ ReactRest(p, x, kind)
                  \/ ReactFind(p) \/ ReactCount(p) \/ Unreact(p) \/ DropOldest(p) \/ ReactCreate(p)
        BY <2>1, QuietAside, MessageAside, AsideKeeps DEF ReactWs, ReactRest
    <2>2. CASE \/ \E x \in Ids : View(x)
               \/ \E way \in {"older", "messages"} : ScrollStart(way, 0)
               \/ \E cursor \in Ids : ScrollStart("newer", cursor)
               \/ OlderPage \/ NewerPage \/ MessagesPage
        <3>1. UNCHANGED <<pc, req, msgs, row, queue>>
            BY <2>2 DEF View, ScrollStart, OlderPage, NewerPage, MessagesPage, Turn, mediaVars,
               proc, stored, tasks
        <3> QED
            BY <3>1, StillWork
    <2> QED
        BY <1>3, <2>1, <2>2 DEF ReaderNext
<1>4. CASE MediaNext /\ UNCHANGED messageVars
    BY <1>4, MediaWorks DEF messageVars
<1>5. CASE \E p \in Procs : MessageCrash(p)
    BY <1>5, QuietAside, AsideKeeps
<1>6. CASE UNCHANGED vars
    BY <1>6, StillWork DEF vars, mediaVars, messageVars, proc, stored, tasks
<1> QED
    BY <1>1, <1>2, <1>3, <1>4, <1>5, <1>6 DEF Next

-----------------------------------------------------------------------------
(* Films.  A video that was not hurt has its film under the name in its row, except *)
(* while its compression has removed the original and not yet named the result; and *)
(* what such a compression holds, or a request has just stored, is the video's film. *)

HasFilm(m) == [at |-> path[m], of |-> m] \in disk
Kept(m) == There(m) \/ (m \in Clips /\ row[m] # "none")
Underway(q, m) ==
    req[q].m = m /\ (pc[q] = "store" \/ (pc[q] = "record" /\ req[q].path # path[m]))
FilmKept ==
    \A m \in (Videos \cup Clips) \ hurt : Kept(m) => HasFilm(m) \/ \E q \in Procs : Underway(q, m)

Own(q) == pc[q] \in {"drop", "store"} /\ req[q].m \notin hurt => req[q].of = req[q].m
Placed(q) ==
    (pc[q] = "video" \/ (pc[q] = "record" /\ req[q].m \in Videos /\ There(req[q].m))) =>
        req[q].m \in hurt \/ [at |-> req[q].path, of |-> req[q].m] \in disk
OwnFilm == \A q \in Procs : Own(q) /\ Placed(q)

\* A step that names or removes the films of no other videos than those of Z.
LEMMA FilmFrame ==
    ASSUME MediaOK, FilmKept, OwnFilm, NEW Z, hurt \subseteq hurt',
           \A f \in disk : f \in disk' \/ f.of \in hurt' \cup Z,
           \A m \in (Videos \cup Clips) \ Z : path'[m] = path[m] /\ (Kept(m)' => Kept(m)),
           \A m \in Z \ hurt' : Kept(m)' => HasFilm(m)' \/ \E q \in Procs : Underway(q, m)',
           \A q \in Procs :
               \/ pc'[q] = pc[q] /\ req'[q] = req[q] /\ (req[q].m \in Z => Placed(q)')
               \/ /\ Own(q)' /\ Placed(q)'
                  /\ \A m \in (Videos \cup Clips) \ (hurt' \cup Z) :
                         Underway(q, m) => Underway(q, m)' \/ HasFilm(m)'
    PROVE  FilmKept' /\ OwnFilm'
<1>1. FilmKept'
    <2> SUFFICES ASSUME NEW m \in (Videos \cup Clips) \ hurt', Kept(m)', ~HasFilm(m)'
                 PROVE  \E q \in Procs : Underway(q, m)'
        BY DEF FilmKept
    <2>1. CASE m \in Z
        BY <2>1
    <2>2. CASE m \notin Z
        <3>1. path'[m] = path[m] /\ Kept(m) /\ m \notin hurt
            BY <2>2
        <3>2. ~HasFilm(m)
            <4>1. ASSUME HasFilm(m) PROVE FALSE
                <5>1. [at |-> path[m], of |-> m] \in disk'
                    BY <2>2, <4>1 DEF HasFilm
                <5> QED
                    BY <3>1, <5>1 DEF HasFilm
            <4> QED
                BY <4>1
        <3>3. PICK q \in Procs : Underway(q, m)
            BY <3>1, <3>2 DEF FilmKept
        <3>4. CASE pc'[q] = pc[q] /\ req'[q] = req[q]
            BY <3>1, <3>3, <3>4 DEF Underway
        <3>5. CASE ~(pc'[q] = pc[q] /\ req'[q] = req[q])
            BY <2>2, <3>3, <3>5
        <3> QED
            BY <3>4, <3>5
    <2> QED
        BY <2>1, <2>2
<1>2. OwnFilm'
    <2> SUFFICES ASSUME NEW q \in Procs PROVE Own(q)' /\ Placed(q)'
        BY DEF OwnFilm
    <2>1. CASE pc'[q] = pc[q] /\ req'[q] = req[q] /\ (req[q].m \in Z => Placed(q)')
        <3>1. Own(q)'
            BY <2>1 DEF OwnFilm, Own
        <3>2. CASE req[q].m \notin Z
            <4> SUFFICES ASSUME req[q].m \notin hurt',
                                \/ pc[q] = "video"
                                \/ /\ pc[q] = "record" /\ req[q].m \in Videos
                                   /\ row'[req[q].m] = "there"
                         PROVE  [at |-> req[q].path, of |-> req[q].m] \in disk'
                BY <2>1, <3>1 DEF Placed, There
            <4>1. req[q].m \in Videos /\ row'[req[q].m] = "there" => There(req[q].m)
                <5> SUFFICES ASSUME NEW m \in Videos, m = req[q].m, row'[m] = "there" PROVE There(m)
                    OBVIOUS
                <5>1. Kept(m)' => Kept(m)
                    BY <3>2
                <5> QED
                    BY <5>1, MediaDisjoint DEF Kept, There, Pictures
            <4>2. [at |-> req[q].path, of |-> req[q].m] \in disk
                BY <4>1 DEF OwnFilm, Placed
            <4> QED
                BY <3>2, <4>2
        <3> QED
            BY <2>1, <3>1, <3>2
    <2> QED
        BY <2>1
<1> QED
    BY <1>1, <1>2

LEMMA FilmsInPlace ==
    ASSUME MediaOK, FilmKept, OwnFilm, hurt \subseteq hurt', UNCHANGED path,
           \A f \in disk : f \in disk' \/ f.of \in hurt',
           \A m \in Videos \cup Clips : Kept(m)' => Kept(m),
           \A q \in Procs :
               \/ pc'[q] = pc[q] /\ req'[q] = req[q]
               \/ /\ Own(q)' /\ Placed(q)'
                  /\ \A m \in (Videos \cup Clips) \ hurt' :
                         Underway(q, m) => Underway(q, m)' \/ HasFilm(m)'
    PROVE  FilmKept' /\ OwnFilm'
<1> DEFINE Z == {}
<1>1. /\ \A f \in disk : f \in disk' \/ f.of \in hurt' \cup Z
      /\ \A m \in (Videos \cup Clips) \ Z : path'[m] = path[m] /\ (Kept(m)' => Kept(m))
      /\ \A m \in Z \ hurt' : Kept(m)' => HasFilm(m)' \/ \E q \in Procs : Underway(q, m)'
    OBVIOUS
<1>2. \A q \in Procs :
          \/ pc'[q] = pc[q] /\ req'[q] = req[q] /\ (req[q].m \in Z => Placed(q)')
          \/ /\ Own(q)' /\ Placed(q)'
             /\ \A m \in (Videos \cup Clips) \ (hurt' \cup Z) :
                    Underway(q, m) => Underway(q, m)' \/ HasFilm(m)'
    OBVIOUS
<1> HIDE DEF Z
<1> QED
    BY <1>1, <1>2, FilmFrame

\* Steps that leave the storage as it is, or add to it, and are not about a film.
LEMMA FilmAside ==
    ASSUME MediaOK, FilmKept, OwnFilm, NEW p \in Procs, Elsewhere(p), UNCHANGED path,
           hurt \subseteq hurt', disk \subseteq disk',
           \A m \in Videos \cup Clips : Kept(m)' => Kept(m),
           pc'[p] \notin {"drop", "store", "record", "video"},
           pc[p] = "store" => req[p].m \in hurt',
           pc[p] = "record" => req[p].m \in hurt' \/ req[p].path = path[req[p].m]
    PROVE  FilmKept' /\ OwnFilm'
<1>1. Own(p)' /\ Placed(p)'
    BY DEF Own, Placed
<1>2. \A m \in (Videos \cup Clips) \ hurt' : ~Underway(p, m)
    BY DEF Underway
<1> QED
    BY <1>1, <1>2, FilmsInPlace DEF Elsewhere

LEMMA FilmStill ==
    ASSUME MediaOK, FilmKept, OwnFilm, UNCHANGED <<pc, req, path, hurt, disk>>,
           \A m \in Videos \cup Clips : Kept(m)' => Kept(m)
    PROVE  FilmKept' /\ OwnFilm'
BY FilmsInPlace

\* Most steps that are about messages.
LEMMA MessageFilm ==
    ASSUME MediaOK, MsgsOK, FilmKept, OwnFilm, NEW p \in Procs,
           \/ PostWs(p) \/ PostRest(p)
           \/ \E m \in Videos, base \in Names : PostVideo(p, m, base)
           \/ Insert(p) \/ Recipients(p) \/ PostAttach(p)
           \/ \E x \in Ids : EditRead(p, x) \/ DeleteRead(p, x) \/ UpdateRead(p, x)
                             \/ DestroyRead(p, x)
           \/ EditSave(p) \/ DeleteSave(p) \/ FullSave(p) \/ PurgeStart(p) \/ PurgeList(p)
           \/ \E x \in Ids, kind \in Kinds : React(p, x, kind)
           \/ ReactFind(p) \/ ReactCount(p) \/ Unreact(p) \/ DropOldest(p) \/ ReactCreate(p)
    PROVE  FilmKept' /\ OwnFilm'
<1> DEFINE Labels == {"insert", "recipients", "file", "edit", "delete", "save", "list", "purge",
                      "idle"} \cup Reacting
<1>1. /\ UNCHANGED stored /\ pc[p] \notin {"store", "record"}
      /\ \E label \in Labels : \E r : GoWith(p, label, r)
    <2>1. CASE \/ PostWs(p) \/ PostRest(p)
               \/ \E m \in Videos, base \in Names : PostVideo(p, m, base)
        BY <2>1 DEF PostWs, PostRest, PostVideo, Post, Begin
    <2>2. CASE Insert(p) \/ Recipients(p) \/ PostAttach(p)
        BY <2>2 DEF Insert, Recipients, PostAttach, Goto, Finish
    <2>3. CASE \E x \in Ids : EditRead(p, x) \/ DeleteRead(p, x) \/ UpdateRead(p, x)
                              \/ DestroyRead(p, x)
        BY <2>3 DEF EditRead, DeleteRead, UpdateRead, DestroyRead, Read, Begin
    <2>4. CASE EditSave(p) \/ DeleteSave(p) \/ FullSave(p) \/ PurgeStart(p) \/ PurgeList(p)
        BY <2>4 DEF EditSave, DeleteSave, FullSave, PurgeStart, PurgeList, Begin, Finish
    <2>5. CASE \/ \E x \in Ids, kind \in Kinds : React(p, x, kind)
               \/ ReactFind(p) \/ ReactCount(p)
        BY <2>5 DEF React, Begin, ReactFind, ReactCount, ReactQuery, Goto, Reacting
    <2>6. CASE Unreact(p) \/ DropOldest(p) \/ ReactCreate(p)
        <3>1. UNCHANGED stored
            BY <2>6, MarkStepMakes DEF Marks
        <3> QED
            BY <2>6, <3>1 DEF Unreact, DropOldest, ReactCreate, Goto, Finish, Reacting
    <2> QED
        BY <2>1, <2>2, <2>3, <2>4, <2>5, <2>6
<1>2. \A label \in Labels : label \notin {"drop", "store", "record", "video"}
    BY DEF Reacting
<1>3. UNCHANGED <<row, path, disk, hurt>>
    BY <1>1 DEF stored
<1> HIDE DEF Labels
<1>4. Elsewhere(p) /\ pc'[p] \notin {"drop", "store", "record", "video"}
    BY <1>1, <1>2, MoveElsewhere DEF MediaOK
<1> QED
    BY <1>1, <1>3, <1>4, FilmAside DEF Kept, There

LEMMA PostFileFilm ==
    ASSUME MediaOK, FilmKept, OwnFilm, NEW p \in Procs, PostFile(p)
    PROVE  FilmKept' /\ OwnFilm'
<1> DEFINE m == req[p].m
           at == StoredAs(m, req[p].path)
           r == [req[p] EXCEPT !.path = at]
<1>1. r.m = m /\ r.path = at
    BY HeldTyped DEF MediaOK, Locals
<1>2. /\ GoWith(p, "video", r) /\ pc[p] = "file" /\ UNCHANGED <<row, path, hurt>>
      /\ disk' = disk \cup {[at |-> at, of |-> m]}
    BY DEF PostFile
<1> HIDE DEF r
<1>3. Elsewhere(p) /\ pc'[p] = "video" /\ req'[p] = r
    BY <1>2, MoveElsewhere DEF MediaOK
<1>4. Own(p)' /\ Placed(p)'
    BY <1>1, <1>2, <1>3 DEF Own, Placed
<1>5. \A k : ~Underway(p, k)
    BY <1>2 DEF Underway
<1> QED
    BY <1>2, <1>3, <1>4, <1>5, FilmsInPlace DEF Elsewhere, Kept, There

LEMMA PostRowFilm ==
    ASSUME MediaOK, OneAtWork, FilmKept, OwnFilm, NEW p \in Procs, PostRow(p)
    PROVE  FilmKept' /\ OwnFilm'
<1> DEFINE m == req[p].m
           Z == {m}
<1>1. /\ m \in Videos /\ m \in Media /\ Founding(p) /\ pc[p] = "video"
    BY HeldTyped, MediaDisjoint DEF PostRow, MediaOK, Fits, Founding
<1>2. /\ row' = [row EXCEPT ![m] = "there"] /\ path' = [path EXCEPT ![m] = req[p].path]
      /\ UNCHANGED <<disk, hurt>>
    BY DEF PostRow
<1>3. Elsewhere(p) /\ pc'[p] = "attach" /\ req'[p] = req[p]
    BY MoveElsewhere DEF PostRow, Goto, MediaOK
<1>4. /\ \A k \in Media : row'[k] = IF k = m THEN "there" ELSE row[k]
      /\ \A k \in Media : path'[k] = IF k = m THEN req[p].path ELSE path[k]
    BY <1>2 DEF MediaOK, StorageOK
<1>5. m \in hurt \/ [at |-> req[p].path, of |-> m] \in disk
    BY <1>1 DEF OwnFilm, Placed
<1>6. \A q \in Procs : q # p /\ pc[q] # "idle" => req[q].m # m
    BY <1>1 DEF OneAtWork, FoundersAlone
<1>7. \A q \in Procs : q # p => (req[q].m = m => Placed(q)')
    BY <1>3, <1>6 DEF Placed, Elsewhere
<1>8. /\ Own(p)' /\ Placed(p)'
      /\ \A k : ~Underway(p, k)
    BY <1>1, <1>3 DEF Own, Placed, Underway
<1>9. /\ \A k \in (Videos \cup Clips) \ Z : path'[k] = path[k] /\ (Kept(k)' => Kept(k))
      /\ \A k \in Z \ hurt' : HasFilm(k)'
    BY <1>1, <1>2, <1>4, <1>5, MediaDisjoint DEF Kept, There, HasFilm
<1>10. hurt \subseteq hurt' /\ \A f \in disk : f \in disk' \/ f.of \in hurt' \cup Z
    BY <1>2
<1>11. \A q \in Procs :
          \/ pc'[q] = pc[q] /\ req'[q] = req[q] /\ (req[q].m \in Z => Placed(q)')
          \/ /\ Own(q)' /\ Placed(q)'
             /\ \A k \in (Videos \cup Clips) \ (hurt' \cup Z) :
                    Underway(q, k) => Underway(q, k)' \/ HasFilm(k)'
    BY <1>3, <1>7, <1>8 DEF Elsewhere
<1> HIDE DEF Z
<1> QED
    BY <1>9, <1>10, <1>11, FilmFrame

\* The batch is gone, and with it the files whose names its videos' rows have: what is
\* hurt has lost its film to another video of the batch.
LEMMA PurgeBatchFilm ==
    ASSUME MediaOK, MsgsOK, OneAtWork, FilmKept, OwnFilm, NEW p \in Procs, PurgeBatch(p)
    PROVE  FilmKept' /\ OwnFilm'
<1> DEFINE batch == req[p].todo
           Z == Films(batch)
<1>1. batch \subseteq Ids /\ Z \subseteq Videos /\ Z \subseteq Media /\ pc[p] = "purge"
    BY HeldTyped, FilmsTyped, MediaDisjoint DEF PurgeBatch, MediaOK, Fits
<1>2. /\ row' = [m \in Media |-> IF m \in Z THEN "gone" ELSE row[m]]
      /\ disk' = {f \in disk : \A m \in Z : f.at # path[m]}
      /\ hurt' = hurt \cup UNION {Robbed(path[m], m) : m \in Z}
      /\ path' = path
    BY DEF PurgeBatch, RemoveFiles
<1>3. Elsewhere(p) /\ pc'[p] = "list" /\ req'[p] = req[p]
    BY MoveElsewhere DEF PurgeBatch, Goto, MediaOK
<1>4. \A m \in Z : row[m] # "none" /\ row'[m] = "gone"
    BY <1>1, <1>2 DEF Films, OneAtWork, RowsKnown
<1> HIDE DEF Z
<1>5. ASSUME NEW f \in disk, f \notin disk', f.of \notin Z PROVE f.of \in hurt'
    <2>1. PICK m \in Z : f.at = path[m]
        BY <1>2, <1>5
    <2>2. f.of \in Robbed(path[m], m)
        BY <1>5, <2>1 DEF Robbed
    <2> QED
        BY <1>2, <2>2
<1>6. \A k \in (Videos \cup Clips) \ Z : path'[k] = path[k] /\ (Kept(k)' => Kept(k))
    BY <1>2, MediaDisjoint DEF Kept, There
<1>7. \A k \in Z : ~Kept(k)'
    BY <1>1, <1>4, MediaDisjoint DEF Kept, There, Pictures
<1>8. ASSUME NEW q \in Procs, q # p, req[q].m \in Z PROVE Placed(q)'
    <2>1. pc'[q] = pc[q] /\ req'[q] = req[q]
        BY <1>3, <1>8 DEF Elsewhere
    <2>2. pc[q] # "video"
        <3>1. ASSUME pc[q] = "video" PROVE FALSE
            <4>1. Founding(q)
                BY <3>1, HeldTyped DEF MediaOK, Fits, Founding
            <4> QED
                BY <1>4, <1>8, <4>1 DEF OneAtWork, FoundersAlone
        <3> QED
            BY <3>1
    <2> QED
        BY <1>4, <1>8, <2>1, <2>2 DEF Placed, There
<1>9. Own(p)' /\ Placed(p)' /\ \A k : ~Underway(p, k)
    BY <1>1, <1>3 DEF Own, Placed, Underway
<1>10. \A q \in Procs :
          \/ pc'[q] = pc[q] /\ req'[q] = req[q] /\ (req[q].m \in Z => Placed(q)')
          \/ /\ Own(q)' /\ Placed(q)'
             /\ \A k \in (Videos \cup Clips) \ (hurt' \cup Z) :
                    Underway(q, k) => Underway(q, k)' \/ HasFilm(k)'
    BY <1>3, <1>8, <1>9 DEF Elsewhere
<1> QED
    BY <1>2, <1>5, <1>6, <1>7, <1>10, FilmFrame

LEMMA PurgeFailsFilm ==
    ASSUME MediaOK, FilmKept, OwnFilm, NEW p \in Procs, PurgeFails(p)
    PROVE  FilmKept' /\ OwnFilm'
<1>1. PICK films : /\ disk' = {f \in disk : \A m \in films : f.at # path[m]}
                   /\ hurt' = hurt \cup films \cup UNION {Robbed(path[m], m) : m \in films}
    BY DEF PurgeFails
<1>2. ASSUME NEW f \in disk, f \notin disk' PROVE f.of \in hurt'
    <2>1. PICK m \in films : f.at = path[m]
        BY <1>1, <1>2
    <2>2. f.of = m \/ f.of \in Robbed(path[m], m)
        BY <1>2, <2>1 DEF Robbed
    <2> QED
        BY <1>1, <2>1, <2>2
<1>3. Elsewhere(p) /\ pc'[p] = "idle" /\ pc[p] = "purge" /\ UNCHANGED <<row, path>>
    BY MoveElsewhere DEF PurgeFails, MediaOK
<1>4. Own(p)' /\ Placed(p)' /\ \A k : ~Underway(p, k)
    BY <1>3 DEF Own, Placed, Underway
<1> QED
    BY <1>1, <1>2, <1>3, <1>4, FilmsInPlace DEF Elsewhere, Kept, There

LEMMA TaskAsideFilm ==
    ASSUME MediaOK, FilmKept, OwnFilm, NEW p \in Procs,
           \/ \E m \in Videos \cup Clips : Take(p, m)
           \/ Skip(p) \/ TaskFails(p)
           \/ Record(p) /\ req[p].m \in Clips
           \/ Crash(p)
    PROVE  FilmKept' /\ OwnFilm'
<1>1. /\ UNCHANGED <<row, path, disk>> /\ hurt \subseteq hurt'
      /\ pc[p] = "store" => req[p].m \in hurt'
      /\ pc[p] = "record" => req[p].m \in hurt' \/ req[p].path = path[req[p].m]
    BY DEF Take, Skip, TaskFails, Bereft, Record, Crash, stored
<1>2. /\ Elsewhere(p) /\ pc'[p] \in {"encode", "row", "idle"}
    <2>1. \E label \in {"encode", "row", "idle"} : \E r : GoWith(p, label, r)
        <3>1. CASE \E m \in Videos \cup Clips : Take(p, m)
            BY <3>1 DEF Take
        <3>2. CASE Skip(p) \/ TaskFails(p)
            BY <3>2 DEF Skip, TaskFails, MarkFailed
        <3>3. CASE Record(p) /\ req[p].m \in Clips
            BY <3>3 DEF Record
        <3>4. CASE Crash(p)
            BY <3>4 DEF Crash
        <3> QED
            BY <3>1, <3>2, <3>3, <3>4
    <2> QED
        BY <2>1, MoveElsewhere DEF MediaOK
<1> QED
    BY <1>1, <1>2, FilmAside DEF Kept, There

LEMMA EncodeFilm ==
    ASSUME MediaOK, FilmKept, OwnFilm, NEW p \in Procs, Encode(p)
    PROVE  FilmKept' /\ OwnFilm'
<1>1. PICK f \in disk :
          /\ GoWith(p, "drop", [req[p] EXCEPT !.of = f.of])
          /\ hurt' = IF f.of = req[p].m THEN hurt ELSE hurt \cup {req[p].m}
    BY DEF Encode
<1>2. /\ [req[p] EXCEPT !.of = f.of].m = req[p].m
      /\ [req[p] EXCEPT !.of = f.of].of = f.of
    BY HeldTyped DEF MediaOK, Locals
<1>3. /\ Elsewhere(p) /\ pc'[p] = "drop" /\ req'[p] = [req[p] EXCEPT !.of = f.of]
      /\ pc[p] = "encode" /\ UNCHANGED <<row, path, disk>>
    BY <1>1, MoveElsewhere DEF Encode, MediaOK
<1>4. Own(p)' /\ Placed(p)' /\ \A k : ~Underway(p, k)
    BY <1>1, <1>2, <1>3 DEF Own, Placed, Underway
<1> QED
    BY <1>1, <1>3, <1>4, FilmsInPlace DEF Elsewhere, Kept, There

LEMMA DropFilm ==
    ASSUME MediaOK, OneAtWork, FilmKept, OwnFilm, NEW p \in Procs, Drop(p)
    PROVE  FilmKept' /\ OwnFilm'
<1> DEFINE m == req[p].m
           Z == {m}
<1>1. /\ pc[p] = "drop" /\ UNCHANGED <<row, path>>
      /\ disk' = Without(req[p].path) /\ hurt' = hurt \cup Robbed(req[p].path, m)
    BY DEF Drop
<1>2. Elsewhere(p) /\ pc'[p] = "store" /\ req'[p] = req[p]
    BY MoveElsewhere DEF Drop, Goto, MediaOK
<1>3. \A f \in disk : f \in disk' \/ f.of \in hurt' \cup Z
    BY <1>1 DEF Without, Robbed
<1>4. /\ \A k \in (Videos \cup Clips) \ Z : path'[k] = path[k] /\ (Kept(k)' => Kept(k))
      /\ \A k \in Z \ hurt' : \E q \in Procs : Underway(q, k)'
    BY <1>1, <1>2 DEF Kept, There, Underway
<1>5. ASSUME NEW q \in Procs, q # p, req[q].m = m PROVE Placed(q)'
    <2>1. pc'[q] = pc[q] /\ req'[q] = req[q]
        BY <1>2, <1>5 DEF Elsewhere
    <2>2. pc[q] # "video"
        <3>1. ASSUME pc[q] = "video" PROVE FALSE
            <4>1. Founding(q)
                BY <3>1, HeldTyped DEF MediaOK, Fits, Founding
            <4> QED
                BY <1>1, <1>5, <4>1 DEF OneAtWork, FoundersAlone
        <3> QED
            BY <3>1
    <2>3. ~(pc[q] = "record" /\ req[q].m \in Videos)
        BY <1>1, <1>5 DEF OneAtWork, OneTask, Tasking
    <2> QED
        BY <2>1, <2>2, <2>3 DEF Placed
<1>6. Own(p)' /\ Placed(p)' /\ \A k : ~Underway(p, k)
    <2>1. Own(p)
        BY DEF OwnFilm
    <2> QED
        BY <1>1, <1>2, <2>1 DEF Own, Placed, Underway
<1>7. \A q \in Procs :
          \/ pc'[q] = pc[q] /\ req'[q] = req[q] /\ (req[q].m \in Z => Placed(q)')
          \/ /\ Own(q)' /\ Placed(q)'
             /\ \A k \in (Videos \cup Clips) \ (hurt' \cup Z) :
                    Underway(q, k) => Underway(q, k)' \/ HasFilm(k)'
    BY <1>2, <1>5, <1>6 DEF Elsewhere
<1>8. hurt \subseteq hurt'
    BY <1>1
<1> HIDE DEF Z
<1> QED
    BY <1>3, <1>4, <1>7, <1>8, FilmFrame

LEMMA StoreFilm ==
    ASSUME MediaOK, FilmKept, OwnFilm, NEW p \in Procs, Store(p)
    PROVE  FilmKept' /\ OwnFilm'
<1>1. PICK x : /\ disk' = disk \cup {[at |-> x, of |-> req[p].of]}
               /\ GoWith(p, "record", [req[p] EXCEPT !.path = x])
    BY DEF Store
<1>2. /\ [req[p] EXCEPT !.path = x].m = req[p].m
      /\ [req[p] EXCEPT !.path = x].path = x
    BY HeldTyped DEF MediaOK, Locals
<1>3. /\ Elsewhere(p) /\ pc'[p] = "record" /\ req'[p] = [req[p] EXCEPT !.path = x]
      /\ pc[p] = "store" /\ UNCHANGED <<row, path, hurt>>
    BY <1>1, MoveElsewhere DEF Store, MediaOK
<1>4. req[p].m \notin hurt => [at |-> x, of |-> req[p].m] \in disk'
    <2>1. Own(p)
        BY DEF OwnFilm
    <2> QED
        BY <1>1, <1>3, <2>1 DEF Own
<1>5. Own(p)' /\ Placed(p)'
    BY <1>2, <1>3, <1>4 DEF Own, Placed
<1>6. ASSUME NEW k \in (Videos \cup Clips) \ hurt', Underway(p, k), ~Underway(p, k)'
      PROVE  HasFilm(k)'
    <2>1. k = req[p].m /\ x = path[k]
        BY <1>2, <1>3, <1>6 DEF Underway
    <2> QED
        BY <1>3, <1>4, <1>6, <2>1 DEF HasFilm
<1> QED
    BY <1>1, <1>3, <1>5, <1>6, FilmsInPlace DEF Elsewhere, Kept, There

LEMMA RecordFilm ==
    ASSUME MediaOK, FilmKept, OwnFilm, NEW p \in Procs, Record(p), req[p].m \notin Clips
    PROVE  FilmKept' /\ OwnFilm'
<1> DEFINE m == req[p].m
           Z == {m}
<1>1. pc[p] = "record" /\ m \in Videos /\ m \in Media
    BY HeldTyped, MediaDisjoint DEF Record, MediaOK, Fits, Tasking
<1>2. /\ path' = IF There(m) THEN [path EXCEPT ![m] = req[p].path] ELSE path
      /\ UNCHANGED <<row, disk, hurt>>
    BY DEF Record
<1>3. Elsewhere(p) /\ pc'[p] = "idle"
    BY MoveElsewhere DEF Record, Finish, MediaOK
<1>4. \A k \in Media : path'[k] = IF k = m /\ There(m) THEN req[p].path ELSE path[k]
    BY <1>2 DEF MediaOK, StorageOK
<1>5. Kept(m) /\ m \notin hurt => There(m) /\ [at |-> req[p].path, of |-> m] \in disk
    <2>1. Placed(p)
        BY DEF OwnFilm
    <2> QED
        BY <1>1, <2>1 DEF Placed, Kept
<1>6. /\ \A k \in (Videos \cup Clips) \ Z : path'[k] = path[k] /\ (Kept(k)' => Kept(k))
      /\ \A k \in Z \ hurt' : Kept(k)' => HasFilm(k)'
    BY <1>1, <1>2, <1>4, <1>5, MediaDisjoint DEF Kept, There, HasFilm
<1>7. \A q \in Procs : q # p => (Placed(q) => Placed(q)')
    BY <1>2, <1>3 DEF Elsewhere, Placed, There
<1>8. Own(p)' /\ Placed(p)' /\ \A k : k \notin Z => ~Underway(p, k)
    BY <1>3 DEF Own, Placed, Underway
<1>9. \A q \in Procs :
          \/ pc'[q] = pc[q] /\ req'[q] = req[q] /\ (req[q].m \in Z => Placed(q)')
          \/ /\ Own(q)' /\ Placed(q)'
             /\ \A k \in (Videos \cup Clips) \ (hurt' \cup Z) :
                    Underway(q, k) => Underway(q, k)' \/ HasFilm(k)'
    BY <1>3, <1>7, <1>8 DEF Elsewhere, OwnFilm
<1>10. hurt \subseteq hurt' /\ \A f \in disk : f \in disk' \/ f.of \in hurt' \cup Z
    BY <1>2
<1> HIDE DEF Z
<1> QED
    BY <1>6, <1>9, <1>10, FilmFrame

LEMMA PictureFilm ==
    ASSUME MediaOK, OneAtWork, FilmKept, OwnFilm, NEW p \in Procs,
           \/ \E m \in Photos, base \in Names, asked \in BOOLEAN : CreatePhoto(p, m, base, asked)
           \/ \E m \in Clips, base \in Names, asked \in BOOLEAN : CreateClip(p, m, base, asked)
           \/ \E m \in Pictures : SetPrimary(p, m)
           \/ Ensure(p) \/ Unset(p) \/ SaveFlag(p)
    PROVE  FilmKept' /\ OwnFilm'
<1>1. UNCHANGED stored /\ pc[p] \notin {"store", "record"}
    BY DEF CreatePhoto, CreateClip, SetPrimary, BeginPicture, Begin, Ensure, Unset, SaveFlag
<1>2. \E label \in SavingPicture \cup {"idle"} : \E r : GoWith(p, label, r)
    BY DEF CreatePhoto, CreateClip, SetPrimary, BeginPicture, Begin, Ensure, Unset, SaveFlag,
       Goto, Finish, SavingPicture
<1>3. Elsewhere(p) /\ pc'[p] \notin {"drop", "store", "record", "video"}
    BY <1>2, MoveElsewhere DEF MediaOK, SavingPicture
<1> QED
    BY <1>1, <1>3, FilmAside DEF stored, Kept, There

LEMMA SaveRowFilm ==
    ASSUME MediaOK, OneAtWork, FilmKept, OwnFilm, NEW p \in Procs, SaveRow(p)
    PROVE  FilmKept' /\ OwnFilm'
<1> DEFINE m == req[p].m
           kind == Head(req[p].rounds)
           at == StoredAs(m, req[p].path)
           Z == {m}
<1>1. pc[p] = "row" /\ m \in Pictures /\ m \in Media
    BY SavingTyped DEF SaveRow, SavingPicture
<1>2. Elsewhere(p) /\ pc'[p] \in {"idle", "ensure", "unset"}
    BY MoveElsewhere DEF SaveRow, Finish, MediaOK
<1>3. Own(p)' /\ Placed(p)' /\ \A k : ~Underway(p, k)
    BY <1>1, <1>2 DEF Own, Placed, Underway
<1>4. CASE UNCHANGED stored
    BY <1>1, <1>2, <1>4, FilmAside DEF stored, Kept, There
<1>5. CASE row' = [row EXCEPT ![m] = "there"] /\ kind # "new" /\ UNCHANGED <<path, disk, hurt>>
    <2>1. row[m] # "none"
        BY <1>1, <1>5 DEF OneAtWork, RowsKnown, SavingPicture
    <2>2. \A k \in Media : row'[k] = IF k = m THEN "there" ELSE row[k]
        BY <1>1, <1>5 DEF MediaOK, StorageOK
    <2>3. \A k \in Videos \cup Clips : Kept(k)' => Kept(k)
        BY <1>1, <2>1, <2>2, MediaDisjoint DEF Kept, There
    <2> QED
        BY <1>1, <1>2, <1>5, <2>3, FilmAside
<1>6. CASE row' = [row EXCEPT ![m] = "there"] /\ m \in Photos /\ UNCHANGED <<path, disk, hurt>>
    <2>1. \A k \in Videos \cup Clips : row'[k] = row[k]
        BY <1>1, <1>6, MediaDisjoint DEF MediaOK, StorageOK
    <2>2. \A k \in Videos \cup Clips : Kept(k)' => Kept(k)
        BY <2>1 DEF Kept, There
    <2> QED
        BY <1>1, <1>2, <1>6, <2>2, FilmAside
<1>7. CASE StoreVideo(m, req[p].path) /\ m \in Clips
    <2>1. /\ row' = [row EXCEPT ![m] = "there"] /\ path' = [path EXCEPT ![m] = at]
          /\ disk' = disk \cup {[at |-> at, of |-> m]} /\ hurt' = hurt
        BY <1>7 DEF StoreVideo
    <2>2. /\ \A k \in Media : row'[k] = IF k = m THEN "there" ELSE row[k]
          /\ \A k \in Media : path'[k] = IF k = m THEN at ELSE path[k]
        BY <2>1 DEF MediaOK, StorageOK
    <2>3. /\ \A k \in (Videos \cup Clips) \ Z : path'[k] = path[k] /\ (Kept(k)' => Kept(k))
          /\ \A k \in Z \ hurt' : HasFilm(k)'
        BY <1>1, <2>1, <2>2, MediaDisjoint DEF Kept, There, HasFilm
    <2>4. \A q \in Procs \ {p} : req[q].m = m => Placed(q)'
        <3> SUFFICES ASSUME NEW q \in Procs \ {p}, req[q].m = m PROVE Placed(q)'
            OBVIOUS
        <3>1. m \notin Videos /\ pc'[q] = pc[q] /\ req'[q] = req[q]
            BY <1>1, <1>2, MediaDisjoint DEF Elsewhere
        <3>2. pc[q] # "video"
            BY <3>1, HeldTyped DEF MediaOK, Fits
        <3> QED
            BY <3>1, <3>2 DEF Placed
    <2>5. \A q \in Procs :
              \/ pc'[q] = pc[q] /\ req'[q] = req[q] /\ (req[q].m \in Z => Placed(q)')
              \/ /\ Own(q)' /\ Placed(q)'
                 /\ \A k \in (Videos \cup Clips) \ (hurt' \cup Z) :
                        Underway(q, k) => Underway(q, k)' \/ HasFilm(k)'
        BY <1>2, <1>3, <2>4 DEF Elsewhere
    <2>6. hurt \subseteq hurt' /\ \A f \in disk : f \in disk' \/ f.of \in hurt' \cup Z
        BY <2>1
    <2> HIDE DEF Z
    <2> QED
        BY <2>3, <2>5, <2>6, FilmFrame
<1> QED
    BY <1>1, <1>4, <1>5, <1>6, <1>7 DEF SaveRow, Pictures

LEMMA MediaFilm ==
    ASSUME MediaOK, OneAtWork, FilmKept, OwnFilm, MediaNext
    PROVE  FilmKept' /\ OwnFilm'
<1>1. ASSUME NEW m, TakeStale(m) \/ Destroy(m) \/ Midnight PROVE FilmKept' /\ OwnFilm'
    <2>1. UNCHANGED <<pc, req, path, hurt, disk>>
        BY <1>1 DEF TakeStale, Destroy, Midnight, proc, stored
    <2>2. \A k \in Media : row'[k] = row[k] \/ (row[k] = "there" /\ row'[k] = "gone")
        BY <1>1 DEF TakeStale, Destroy, Midnight, stored, There, MediaOK, StorageOK
    <2>3. \A k \in Videos \cup Clips : Kept(k)' => Kept(k)
        BY <2>2, MediaDisjoint DEF Kept, There
    <2> QED
        BY <2>1, <2>3, FilmStill
<1>2. ASSUME NEW p \in Procs, Record(p) PROVE FilmKept' /\ OwnFilm'
    BY <1>2, TaskAsideFilm, RecordFilm
<1> QED
    BY <1>1, <1>2, TaskAsideFilm, EncodeFilm, DropFilm, StoreFilm, PictureFilm, SaveRowFilm
    DEF MediaNext

LEMMA FilmInit == Init => FilmKept /\ OwnFilm
BY DEF Init, MediaInit, FilmKept, OwnFilm, Kept, There, Own, Placed, Media, Pictures

LEMMA FilmStep == Typed /\ OneAtWork /\ FilmKept /\ OwnFilm /\ [Next]_vars => FilmKept' /\ OwnFilm'
<1> SUFFICES ASSUME MediaOK, MsgsOK, OneAtWork, FilmKept, OwnFilm, [Next]_vars
             PROVE  FilmKept' /\ OwnFilm'
    BY DEF Typed, MediaOK
<1>1. CASE PostNext
    BY <1>1, MessageFilm, PostFileFilm, PostRowFilm DEF PostNext
<1>2. CASE ChangeNext
    BY <1>2, MessageFilm, PurgeBatchFilm, PurgeFailsFilm DEF ChangeNext
<1>3. CASE ReaderNext
    <2>1. CASE \E p \in Procs :
                  \/ \E x \in Ids, kind \in Kinds : ReactWs(p, x, kind) \/ ReactRest(p, x, kind)
                  \/ ReactFind(p) \/ ReactCount(p) \/ Unreact(p) \/ DropOldest(p) \/ ReactCreate(p)
        BY <2>1, MessageFilm DEF ReactWs, ReactRest
    <2>2. CASE \/ \E x \in Ids : View(x)
               \/ \E way \in {"older", "messages"} : ScrollStart(way, 0)
               \/ \E cursor \in Ids : ScrollStart("newer", cursor)
               \/ OlderPage \/ NewerPage \/ MessagesPage
        <3>1. UNCHANGED <<pc, req, row, path, hurt, disk>>
            BY <2>2 DEF View, ScrollStart, OlderPage, NewerPage, MessagesPage, Turn, mediaVars,
               proc, stored
        <3> QED
            BY <3>1, FilmStill DEF Kept, There
    <2> QED
        BY <1>3, <2>1, <2>2 DEF ReaderNext
<1>4. CASE MediaNext /\ UNCHANGED messageVars
    BY <1>4, MediaFilm
<1>5. CASE \E p \in Procs : MessageCrash(p)
    BY <1>5, TaskAsideFilm DEF MessageCrash
<1>6. CASE UNCHANGED vars
    BY <1>6, FilmStill DEF vars, mediaVars, proc, stored, Kept, There
<1> QED
    BY <1>1, <1>2, <1>3, <1>4, <1>5, <1>6 DEF Next

\* A video whose row is there has its own film in the storage, under the name in the row,
\* whenever no compression of it is under way, unless it was hurt: however uploads of one
\* name, compressions, purges and deletions take turns at freeing and taking names
\* (compress_video_sync, delete_orphan_message_files, get_available_name).
THEOREM VideosKeepTheirFiles == Spec => []VideoKeepsFile
<1>1. Typed /\ OneAtWork /\ FilmKept => VideoKeepsFile
    <2> SUFFICES ASSUME FilmKept, NEW m \in (Videos \cup Clips) \ hurt, There(m), ~InHand(m)
                 PROVE  HasFilm(m)
        BY DEF VideoKeepsFile, HasFilm
    <2>1. \A q \in Procs : ~Underway(q, m)
        BY DEF Underway, InHand
    <2> QED
        BY <2>1 DEF FilmKept, Kept
<1>2. Init => Typed /\ OneAtWork /\ FilmKept /\ OwnFilm
    BY TypedInit, WorkInit, FilmInit
<1>3. /\ Typed /\ OneAtWork /\ FilmKept /\ OwnFilm /\ [Next]_vars
      => Typed' /\ OneAtWork' /\ FilmKept' /\ OwnFilm'
    BY TypedStep, WorkStep, FilmStep
<1> QED
    BY <1>1, <1>2, <1>3, PTL DEF Spec

-----------------------------------------------------------------------------
(* The primary picture.  As long as the requests that save pictures did not get in  *)
(* one another's or a task's way there is one of them at a time, whose progress says *)
(* which pictures are primary; and what a task holds of its clip is up to date.      *)

Web(q) == pc[q] \in SavingPicture /\ req[q].via = "web"
Tsk(q) == pc[q] \in SavingPicture \cup Tasking /\ req[q].via = "task" /\ req[q].m \in Clips
Prim == {m \in Pictures : primary[m]}
Clean == Prim = {chosen} \ {"none"}

\* The picture of a request between its first save and the second one of is_primary.
Settling(q) ==
    IF req[q].flag THEN Prim \ {req[q].m} \subseteq {chosen}
                   ELSE Clean /\ req[q].m \notin Prim
WebOK(q) ==
    LET m == req[q].m
        rounds == req[q].rounds
    IN  /\ pc[q] = "row" => /\ Clean
                            /\ There(m) <=> Head(rounds) # "new"
                            /\ Head(rounds) = "part" => req[q].flag
        /\ pc[q] # "row" => There(m)
        /\ pc[q] \in {"ensure", "unset"} => Settling(q)
        /\ pc[q] = "flag" => IF req[q].flag THEN Prim \subseteq {m} ELSE Clean /\ m \notin Prim
        /\ m \in Photos => req[q].flag
        /\ \A i \in DOMAIN rounds : rounds[i] = "part" => m \in Photos
        /\ \A i \in DOMAIN rounds : i > 1 => rounds[i] # "new"
TaskOK(q) ==
    /\ pc[q] # "ensure"
    /\ There(req[q].m) => (req[q].flag <=> primary[req[q].m])
    /\ req[q].flag => Prim \subseteq {req[q].m}

ChosenThere == chosen # "none" => There(chosen)
OneWeb == \A p, q \in Procs : Web(p) /\ Web(q) => p = q
CleanBetween == (\A q \in Procs : ~Web(q)) => Clean
WebsOK == \A q \in Procs : Web(q) => WebOK(q)
TasksFresh == \A q \in Procs : Tsk(q) => TaskOK(q)
Apart == \A p, q \in Procs : Web(p) /\ Tsk(q) => ~req[q].flag /\ req[q].m # req[p].m
PrimOK == ChosenThere /\ OneWeb /\ CleanBetween /\ WebsOK /\ TasksFresh /\ Apart
PrimInv == ~mixed => PrimOK

\* What the excuses are about.
LEMMA WhoRequests ==
    ASSUME MediaOK
    PROVE  /\ \A q \in Procs : Web(q) => Requesting
           /\ \A q \in Procs : \A m : Tsk(q) /\ (req[q].m = m \/ req[q].flag) => StaleTask(m)
           /\ mixed \in BOOLEAN
<1>1. \A q \in Procs : Web(q) => req[q].m \in Pictures /\ pc[q] # "idle"
    BY HeldTyped DEF MediaOK, Fits, Web, SavingPicture
<1>2. \A q \in Procs : Tsk(q) => req[q].m \in Clips /\ pc[q] # "idle" /\ req[q].via = "task"
    BY DEF Tsk, SavingPicture, Tasking
<1> QED
    BY <1>1, <1>2 DEF Requesting, StaleTask, Web, MediaOK, PicturesOK

\* A step of p that is no request's, and leaves the pictures alone.
LEMMA PrimAside ==
    ASSUME MediaOK, PrimInv, NEW p \in Procs, Elsewhere(p), UNCHANGED <<primary, chosen>>,
           ~mixed' => ~mixed /\ ~Web(p), \A m \in Pictures : row'[m] = row[m], ~Web(p)',
           ~mixed' /\ Tsk(p)' =>
               \/ /\ Tsk(p) /\ req'[p].m = req[p].m /\ req'[p].flag = req[p].flag
                  /\ pc'[p] # "ensure"
               \/ /\ req'[p].flag <=> primary[req'[p].m]
                  /\ pc'[p] # "ensure"
                  /\ \A q \in Procs : ~Web(q)
    PROVE  PrimInv'
<1> SUFFICES ASSUME ~mixed', ~mixed, ~Web(p), PrimOK PROVE PrimOK'
    BY DEF PrimInv
<1>1. \A q \in Procs : q # p => pc'[q] = pc[q] /\ req'[q] = req[q]
    BY DEF Elsewhere
<1>2. Prim' = Prim /\ (Clean' <=> Clean)
    BY DEF Prim, Clean
<1>3. chosen \in Pictures \cup {"none"} /\ (\A q \in Procs : Web(q) \/ Tsk(q) => req[q].m \in Pictures)
    BY HeldTyped DEF MediaOK, PicturesOK, Fits, Web, Tsk, Pictures
<1>4. \A m \in Pictures : There(m)' <=> There(m)
    BY DEF There
<1>5. ChosenThere'
    BY <1>3, <1>4 DEF PrimOK, ChosenThere, There
<1>6. \A q \in Procs : /\ Web(q)' => q # p /\ Web(q)
                       /\ Web(q) => Web(q)'
    BY <1>1 DEF Web
<1>7. OneWeb' /\ CleanBetween'
    BY <1>2, <1>6 DEF PrimOK, OneWeb, CleanBetween
<1>8. WebsOK'
    <2> SUFFICES ASSUME NEW q \in Procs, Web(q)' PROVE WebOK(q)'
        BY DEF WebsOK
    <2>1. q # p /\ Web(q) /\ WebOK(q) /\ pc'[q] = pc[q] /\ req'[q] = req[q] /\ req[q].m \in Pictures
        BY <1>1, <1>3, <1>6 DEF PrimOK, WebsOK
    <2> QED
        BY <1>2, <2>1 DEF WebOK, There, Settling
<1>9. ASSUME NEW q \in Procs, Tsk(q)'
      PROVE  TaskOK(q)' /\ \A r \in Procs : Web(r) => ~req'[q].flag /\ req'[q].m # req[r].m
    <2>1. CASE Tsk(q) /\ req'[q].m = req[q].m /\ req'[q].flag = req[q].flag /\ pc'[q] # "ensure"
        <3>1. /\ TaskOK(q) /\ req[q].m \in Pictures
              /\ \A r \in Procs : Web(r) => ~req[q].flag /\ req[q].m # req[r].m
            BY <1>3, <2>1 DEF PrimOK, TasksFresh, Apart
        <3> QED
            BY <1>2, <2>1, <3>1 DEF TaskOK, There
    <2>2. CASE /\ q = p
               /\ req'[p].flag <=> primary[req'[p].m]
               /\ pc'[p] # "ensure"
               /\ \A r \in Procs : ~Web(r)
        <3>1. Clean /\ req'[q].m \in Pictures
            BY <1>9, <2>2 DEF PrimOK, CleanBetween, Tsk, Pictures
        <3> QED
            BY <1>2, <2>2, <3>1 DEF TaskOK, There, Clean, Prim
    <2>3. CASE q # p
        <3>1. Tsk(q) /\ req'[q] = req[q] /\ pc'[q] = pc[q]
            BY <1>1, <1>9, <2>3 DEF Tsk
        <3>2. pc[q] # "ensure"
            BY <3>1 DEF PrimOK, TasksFresh, TaskOK
        <3> QED
            BY <2>1, <3>1, <3>2
    <2> QED
        BY <1>9, <2>1, <2>2, <2>3
<1>10. TasksFresh'
    BY <1>9 DEF TasksFresh
<1>11. Apart'
    BY <1>1, <1>6, <1>9 DEF Apart
<1> QED
    BY <1>5, <1>7, <1>8, <1>10, <1>11 DEF PrimOK

LEMMA PrimAway ==
    ASSUME MediaOK, PrimInv, NEW p \in Procs, Elsewhere(p), UNCHANGED <<primary, chosen>>,
           ~mixed' => ~mixed /\ ~Web(p), \A m \in Pictures : row'[m] = row[m],
           pc'[p] \notin Tasking \cup SavingPicture
    PROVE  PrimInv'
BY PrimAside DEF Web, Tsk

LEMMA PrimStill ==
    ASSUME MediaOK, PrimInv, UNCHANGED <<pc, req, primary, chosen, mixed>>,
           \A m \in Pictures : row'[m] = row[m]
    PROVE  PrimInv'
<1> SUFFICES ASSUME ~mixed, PrimOK PROVE PrimOK'
    BY DEF PrimInv
<1>1. chosen \in Pictures \cup {"none"} /\ (\A q \in Procs : Web(q) \/ Tsk(q) => req[q].m \in Pictures)
    BY HeldTyped DEF MediaOK, PicturesOK, Fits, Web, Tsk, Pictures
<1>2. \A m \in Pictures : There(m)' <=> There(m)
    BY DEF There
<1>3. ChosenThere'
    BY <1>1 DEF PrimOK, ChosenThere, There
<1>4. OneWeb' /\ CleanBetween' /\ Apart'
    BY DEF PrimOK, OneWeb, CleanBetween, Apart, Web, Tsk, Clean, Prim
<1>5. ASSUME NEW q \in Procs, Web(q) PROVE WebOK(q)'
    <2>1. WebOK(q) /\ req[q].m \in Pictures
        BY <1>1, <1>5 DEF PrimOK, WebsOK
    <2> QED
        BY <2>1 DEF WebOK, There, Settling, Clean, Prim
<1>6. ASSUME NEW q \in Procs, Tsk(q) PROVE TaskOK(q)'
    <2>1. TaskOK(q) /\ req[q].m \in Pictures
        BY <1>1, <1>6 DEF PrimOK, TasksFresh
    <2> QED
        BY <2>1 DEF TaskOK, There, Prim
<1>7. WebsOK' /\ TasksFresh'
    BY <1>5, <1>6 DEF WebsOK, TasksFresh, Web, Tsk
<1> QED
    BY <1>3, <1>4, <1>7 DEF PrimOK

LEMMA MessagePrim ==
    ASSUME MediaOK, MsgsOK, PrimInv, NEW p \in Procs,
           \/ PostWs(p) \/ PostRest(p)
           \/ \E m \in Videos, base \in Names : PostVideo(p, m, base)
           \/ Insert(p) \/ Recipients(p) \/ PostFile(p) \/ PostRow(p) \/ PostAttach(p)
           \/ \E x \in Ids : EditRead(p, x) \/ DeleteRead(p, x) \/ UpdateRead(p, x)
                             \/ DestroyRead(p, x)
           \/ EditSave(p) \/ DeleteSave(p) \/ FullSave(p)
           \/ PurgeStart(p) \/ PurgeList(p) \/ PurgeBatch(p) \/ PurgeFails(p)
           \/ \E x \in Ids, kind \in Kinds : React(p, x, kind)
           \/ ReactFind(p) \/ ReactCount(p) \/ Unreact(p) \/ DropOldest(p) \/ ReactCreate(p)
    PROVE  PrimInv'
<1> DEFINE Labels == {"insert", "recipients", "file", "video", "attach", "edit", "delete", "save",
                      "list", "purge", "idle"} \cup Reacting
<1>1. /\ UNCHANGED pictures /\ pc[p] \notin SavingPicture
      /\ \E label \in Labels : \E r : GoWith(p, label, r)
      /\ \A m \in Pictures : row'[m] = row[m]
    <2>1. CASE \/ PostWs(p) \/ PostRest(p)
               \/ \E m \in Videos, base \in Names : PostVideo(p, m, base)
        BY <2>1 DEF PostWs, PostRest, PostVideo, Post, Begin, SavingPicture, stored
    <2>2. CASE Insert(p) \/ Recipients(p) \/ PostFile(p) \/ PostAttach(p)
        BY <2>2 DEF Insert, Recipients, PostFile, PostAttach, Goto, Finish, SavingPicture, stored
    <2>3. CASE PostRow(p)
        <3>1. req[p].m \in Videos
            BY <2>3, HeldTyped DEF PostRow, MediaOK, Fits
        <3>2. \A m \in Pictures : row'[m] = row[m]
            BY <2>3, <3>1, MediaDisjoint DEF PostRow, MediaOK, StorageOK
        <3> QED
            BY <2>3, <3>2 DEF PostRow, Goto, SavingPicture
    <2>4. CASE \E x \in Ids : EditRead(p, x) \/ DeleteRead(p, x) \/ UpdateRead(p, x)
                              \/ DestroyRead(p, x)
        BY <2>4 DEF EditRead, DeleteRead, UpdateRead, DestroyRead, Read, Begin, SavingPicture, stored
    <2>5. CASE \/ EditSave(p) \/ DeleteSave(p) \/ FullSave(p)
               \/ PurgeStart(p) \/ PurgeList(p) \/ PurgeFails(p)
        BY <2>5 DEF EditSave, DeleteSave, FullSave, PurgeStart, PurgeList, PurgeFails, Begin, Finish,
           SavingPicture, stored
    <2>6. CASE PurgeBatch(p)
        <3>1. Films(req[p].todo) \subseteq Videos
            BY <2>6, HeldTyped, FilmsTyped DEF PurgeBatch, MediaOK, Fits
        <3>2. \A m \in Pictures : row'[m] = row[m]
            BY <2>6, <3>1, MediaDisjoint DEF PurgeBatch
        <3> QED
            BY <2>6, <3>2 DEF PurgeBatch, Goto, SavingPicture
    <2>7. CASE \/ \E x \in Ids, kind \in Kinds : React(p, x, kind)
               \/ ReactFind(p) \/ ReactCount(p)
        BY <2>7 DEF React, Begin, ReactFind, ReactCount, ReactQuery, Goto, Reacting, SavingPicture,
           stored
    <2>8. CASE Unreact(p) \/ DropOldest(p) \/ ReactCreate(p)
        <3>1. UNCHANGED <<stored, pictures>>
            BY <2>8, MarkStepMakes DEF Marks
        <3> QED
            BY <2>8, <3>1 DEF Unreact, DropOldest, ReactCreate, Goto, Finish, Reacting,
               SavingPicture, stored
    <2> QED
        BY <2>1, <2>2, <2>3, <2>4, <2>5, <2>6, <2>7, <2>8
<1>2. \A label \in Labels : label \notin Tasking \cup SavingPicture
    BY DEF Reacting, Tasking, SavingPicture
<1> HIDE DEF Labels
<1>3. Elsewhere(p) /\ pc'[p] \notin Tasking \cup SavingPicture
    BY <1>1, <1>2, MoveElsewhere DEF MediaOK
<1> QED
    BY <1>1, <1>3, PrimAway DEF pictures, Web

LEMMA CrashPrim ==
    ASSUME MediaOK, PrimInv, NEW p \in Procs, Crash(p)
    PROVE  PrimInv'
<1>1. Elsewhere(p) /\ pc'[p] = "idle" /\ UNCHANGED <<row, primary, chosen>>
    BY MoveElsewhere DEF Crash, MediaOK
<1>2. ~mixed' => ~mixed /\ ~Web(p)
    <2>1. Web(p) => req[p].m \in Pictures /\ req[p].via = "web"
        BY HeldTyped DEF Web, MediaOK, Fits
    <2> QED
        BY <2>1 DEF Crash, MediaOK, PicturesOK
<1> QED
    BY <1>1, <1>2, PrimAway DEF Tasking, SavingPicture

\* Compressions.
LEMMA TaskPrim ==
    ASSUME MediaOK, PrimInv, NEW p \in Procs,
           \/ \E m \in Videos \cup Clips : Take(p, m)
           \/ Encode(p) \/ Skip(p) \/ Drop(p) \/ Store(p) \/ Record(p) \/ TaskFails(p)
    PROVE  PrimInv'
<1>1. UNCHANGED <<row, primary, chosen>> /\ pc[p] \notin SavingPicture
    BY DEF Take, Encode, Skip, Drop, Store, Record, TaskFails, MarkFailed, stored, pictures,
       SavingPicture
<1>2. ~mixed' => ~mixed /\ ~Web(p)
    BY <1>1 DEF Take, Encode, Skip, Drop, Store, Record, TaskFails, MarkFailed, pictures, Web,
       MediaOK, PicturesOK
<1>3. ~Requesting => \A q \in Procs : ~Web(q)
    BY WhoRequests
<1>4. CASE \E m \in Videos \cup Clips : Take(p, m)
    <2>1. PICK m \in Videos \cup Clips : Take(p, m)
        BY <1>4
    <2> DEFINE r == [NoRequest EXCEPT !.m = m, !.path = path[m], !.via = "task",
                                      !.flag = m \in Clips /\ primary[m]]
    <2>2. r.m = m /\ r.via = "task" /\ (m \in Clips => r.flag = primary[m])
        <3>1. r.m = m /\ r.via = "task" /\ r.flag = (m \in Clips /\ primary[m])
            BY DEF NoRequest
        <3> HIDE DEF r
        <3>2. m \in Clips => primary[m] \in BOOLEAN
            BY DEF MediaOK, PicturesOK, Pictures
        <3> QED
            BY <3>1, <3>2
    <2>3. GoWith(p, "encode", r) /\ mixed' = (mixed \/ (m \in Clips /\ Requesting))
        BY <2>1 DEF Take
    <2> HIDE DEF r
    <2>4. Elsewhere(p) /\ pc'[p] = "encode" /\ req'[p] = r
        BY <2>3, MoveElsewhere DEF MediaOK
    <2>5. ~mixed' /\ Tsk(p)' => /\ req'[p].flag <=> primary[req'[p].m]
                                /\ pc'[p] # "ensure"
                                /\ \A q \in Procs : ~Web(q)
        BY <1>3, <2>2, <2>3, <2>4 DEF Tsk
    <2>6. ~Web(p)'
        BY <2>2, <2>4 DEF Web
    <2> QED
        BY <1>1, <1>2, <2>4, <2>5, <2>6, PrimAside
<1>5. CASE Encode(p) \/ Drop(p) \/ Store(p) \/ Record(p)
    <2>1. pc[p] \in Tasking /\ req[p].via = "task"
        BY <1>5, HeldTyped DEF Encode, Drop, Store, Record, Tasking, MediaOK, Fits
    <2>2. \E label \in Tasking \cup {"row", "idle"} : \E r :
              /\ GoWith(p, label, r)
              /\ label = "idle" \/ (r.m = req[p].m /\ r.flag = req[p].flag /\ r.via = "task")
        <3>1. ASSUME NEW label \in Tasking \cup {"row"}, NEW r, GoWith(p, label, r),
                     r.m = req[p].m, r.flag = req[p].flag, r.via = req[p].via
              PROVE  \E l \in Tasking \cup {"row", "idle"} : \E s :
                         /\ GoWith(p, l, s)
                         /\ l = "idle" \/ (s.m = req[p].m /\ s.flag = req[p].flag /\ s.via = "task")
            BY <2>1, <3>1
        <3>2. CASE Encode(p)
            <4>1. PICK o : GoWith(p, "drop", [req[p] EXCEPT !.of = o])
                BY <3>2 DEF Encode
            <4> DEFINE r == [req[p] EXCEPT !.of = o]
            <4>2. r.m = req[p].m /\ r.flag = req[p].flag /\ r.via = req[p].via
                BY HeldTyped DEF MediaOK, Locals
            <4> HIDE DEF r
            <4> QED
                BY <3>1, <4>1, <4>2 DEF Tasking, r
        <3>3. CASE Drop(p)
            BY <2>1, <3>3 DEF Drop, Goto, Tasking
        <3>4. CASE Store(p)
            <4>1. PICK x : GoWith(p, "record", [req[p] EXCEPT !.path = x])
                BY <3>4 DEF Store
            <4> DEFINE r == [req[p] EXCEPT !.path = x]
            <4>2. r.m = req[p].m /\ r.flag = req[p].flag /\ r.via = req[p].via
                BY HeldTyped DEF MediaOK, Locals
            <4> QED
                BY <3>1, <4>1, <4>2 DEF Tasking
        <3>5. CASE Record(p)
            <4> DEFINE r == [req[p] EXCEPT !.rounds = <<"part">>]
            <4>1. GoWith(p, "row", r) \/ GoWith(p, "idle", NoRequest)
                BY <3>5 DEF Record, Finish
            <4>2. r.m = req[p].m /\ r.flag = req[p].flag /\ r.via = req[p].via
                BY HeldTyped DEF MediaOK, Locals
            <4> HIDE DEF r
            <4> QED
                BY <3>1, <4>1, <4>2
        <3> QED
            BY <1>5, <3>2, <3>3, <3>4, <3>5
    <2>3. PICK label \in Tasking \cup {"row", "idle"} : \E r :
              /\ GoWith(p, label, r)
              /\ label = "idle" \/ (r.m = req[p].m /\ r.flag = req[p].flag /\ r.via = "task")
        BY <2>2
    <2>4. /\ Elsewhere(p) /\ pc'[p] = label
          /\ \/ label = "idle"
             \/ req'[p].m = req[p].m /\ req'[p].flag = req[p].flag /\ req'[p].via = "task"
        BY <2>3, MoveElsewhere DEF MediaOK
    <2>5. ~Web(p)' /\ pc'[p] # "ensure"
        BY <2>4 DEF Web, Tasking, SavingPicture
    <2>6. Tsk(p)' => Tsk(p) /\ req'[p].m = req[p].m /\ req'[p].flag = req[p].flag
        BY <2>1, <2>4 DEF Tsk, Tasking, SavingPicture
    <2> QED
        BY <1>1, <1>2, <2>4, <2>5, <2>6, PrimAside
<1>6. CASE Skip(p) \/ TaskFails(p)
    <2> DEFINE m == req[p].m
               r == [req[p] EXCEPT !.flag = primary[m], !.rounds = <<"part">>]
    <2>1. /\ GoWith(p, "idle", NoRequest) \/ (GoWith(p, "row", r) /\ m \in Clips /\ There(m))
          /\ mixed' = (mixed \/ (m \in Clips /\ There(m) /\ Requesting))
          /\ pc[p] \in Tasking
        BY <1>6 DEF Skip, TaskFails, MarkFailed, Tasking
    <2>2. CASE GoWith(p, "idle", NoRequest)
        <3>1. Elsewhere(p) /\ pc'[p] = "idle"
            BY <2>2, MoveElsewhere DEF MediaOK
        <3> QED
            BY <1>1, <1>2, <3>1, PrimAway DEF Tasking, SavingPicture
    <2>3. CASE GoWith(p, "row", r) /\ m \in Clips /\ There(m)
        <3>1. r.m = m /\ r.via = "task" /\ r.flag = primary[m]
            BY <2>1, HeldTyped DEF MediaOK, Locals, Fits
        <3> HIDE DEF r
        <3>2. Elsewhere(p) /\ pc'[p] = "row" /\ req'[p] = r
            BY <2>3, MoveElsewhere DEF MediaOK
        <3>3. ~mixed' => \A q \in Procs : ~Web(q)
            BY <1>3, <2>1, <2>3
        <3>4. ~Web(p)' /\ pc'[p] # "ensure" /\ (req'[p].flag <=> primary[req'[p].m])
            BY <3>1, <3>2 DEF Web
        <3> QED
            BY <1>1, <1>2, <3>2, <3>3, <3>4, PrimAside
    <2> QED
        BY <2>1, <2>2, <2>3
<1> QED
    BY <1>4, <1>5, <1>6

\* A request to save a picture begins.
LEMMA BeginPrim ==
    ASSUME MediaOK, PrimInv, NEW p \in Procs, NEW m \in Pictures, NEW flag \in BOOLEAN,
           NEW rounds \in Seq(Rounds), rounds # <<>>, NEW base,
           BeginPicture(p, m, flag, rounds, base),
           There(m) <=> Head(rounds) # "new", Head(rounds) # "part", m \in Photos => flag,
           \A i \in DOMAIN rounds : rounds[i] = "part" => m \in Photos,
           \A i \in DOMAIN rounds : i > 1 => rounds[i] # "new"
    PROVE  PrimInv'
<1> SUFFICES ASSUME ~mixed' PROVE PrimOK'
    BY DEF PrimInv
<1> DEFINE r == [NoRequest EXCEPT !.m = m, !.flag = flag, !.rounds = rounds,
                                  !.path = [dir |-> today, base |-> base, own |-> "none"]]
<1>1. r.m = m /\ r.flag = flag /\ r.rounds = rounds /\ r.via = "web"
    BY DEF NoRequest
<1>2. /\ GoWith(p, "row", r) /\ UNCHANGED <<row, primary, chosen>> /\ pc[p] = "idle"
      /\ ~mixed /\ ~Requesting /\ ~StaleTask(m)
    BY DEF BeginPicture, Begin, stored, MediaOK, PicturesOK
<1> HIDE DEF r
<1>3. Elsewhere(p) /\ pc'[p] = "row" /\ req'[p] = r
    BY <1>2, MoveElsewhere DEF MediaOK
<1>4. /\ PrimOK /\ \A q \in Procs : ~Web(q)
      /\ \A q \in Procs : Tsk(q) => ~req[q].flag /\ req[q].m # m
    BY <1>2, WhoRequests DEF PrimInv
<1>5. Prim' = Prim /\ Clean /\ Clean'
    BY <1>2, <1>4 DEF Prim, Clean, PrimOK, CleanBetween
<1>6. /\ Web(p)' /\ \A q \in Procs : Web(q)' => q = p
      /\ \A q \in Procs : Tsk(q)' => q # p /\ Tsk(q) /\ req'[q] = req[q] /\ pc'[q] = pc[q]
    BY <1>1, <1>3, <1>4 DEF Web, Tsk, SavingPicture, Elsewhere
<1>7. WebOK(p)'
    BY <1>1, <1>2, <1>3, <1>5 DEF WebOK, There
<1>8. ChosenThere' /\ TasksFresh'
    BY <1>2, <1>4, <1>5, <1>6 DEF PrimOK, ChosenThere, TasksFresh, TaskOK, There
<1>9. Apart'
    <2> SUFFICES ASSUME NEW o \in Procs, NEW q \in Procs, Web(o)', Tsk(q)'
                 PROVE  ~req'[q].flag /\ req'[q].m # req'[o].m
        BY DEF Apart
    <2> QED
        BY <1>1, <1>3, <1>4, <1>6
<1>10. OneWeb' /\ CleanBetween' /\ WebsOK'
    BY <1>6, <1>7 DEF OneWeb, CleanBetween, WebsOK
<1> QED
    BY <1>8, <1>9, <1>10 DEF PrimOK

LEMMA RequestPrim ==
    ASSUME MediaOK, PrimInv, NEW p \in Procs,
           \/ \E m \in Photos, base \in Names, asked \in BOOLEAN : CreatePhoto(p, m, base, asked)
           \/ \E m \in Clips, base \in Names, asked \in BOOLEAN : CreateClip(p, m, base, asked)
           \/ \E m \in Pictures : SetPrimary(p, m)
    PROVE  PrimInv'
<1>1. ASSUME NEW m \in Photos, NEW base, NEW asked \in BOOLEAN, CreatePhoto(p, m, base, asked)
      PROVE  PrimInv'
    <2>1. m \in Pictures /\ ~There(m)
        BY <1>1 DEF CreatePhoto, Pictures, There
    <2>2. CASE asked
        <3> DEFINE s == <<"new", "part", "full", "part">>
        <3>1. /\ s \in Seq(Rounds) /\ s # <<>> /\ Head(s) = "new"
              /\ \A i \in DOMAIN s : i > 1 => s[i] # "new"
            BY DEF Rounds
        <3> QED
            BY <1>1, <2>1, <2>2, <3>1, BeginPrim DEF CreatePhoto
    <2>3. CASE ~asked
        <3> DEFINE s == <<"new", "part">>
        <3>1. /\ s \in Seq(Rounds) /\ s # <<>> /\ Head(s) = "new"
              /\ \A i \in DOMAIN s : i > 1 => s[i] # "new"
            BY DEF Rounds
        <3> QED
            BY <1>1, <2>1, <2>3, <3>1, BeginPrim DEF CreatePhoto
    <2> QED
        BY <2>2, <2>3
<1>2. ASSUME NEW m \in Clips, NEW base, NEW asked \in BOOLEAN, CreateClip(p, m, base, asked)
      PROVE  PrimInv'
    <2>1. m \in Pictures /\ m \notin Photos /\ ~There(m)
        BY <1>2, MediaDisjoint DEF CreateClip, There
    <2>2. CASE asked
        <3> DEFINE s == <<"new", "full">>
        <3>1. /\ s \in Seq(Rounds) /\ s # <<>> /\ Head(s) = "new"
              /\ \A i \in DOMAIN s : (i > 1 => s[i] # "new") /\ s[i] # "part"
            BY DEF Rounds
        <3> QED
            BY <1>2, <2>1, <2>2, <3>1, BeginPrim DEF CreateClip
    <2>3. CASE ~asked
        <3> DEFINE s == <<"new">>
        <3>1. /\ s \in Seq(Rounds) /\ s # <<>> /\ Head(s) = "new"
              /\ \A i \in DOMAIN s : (i > 1 => s[i] # "new") /\ s[i] # "part"
            BY DEF Rounds
        <3> QED
            BY <1>2, <2>1, <2>3, <3>1, BeginPrim DEF CreateClip
    <2> QED
        BY <2>2, <2>3
<1>3. ASSUME NEW m \in Pictures, SetPrimary(p, m) PROVE PrimInv'
    <2>1. CASE m \in Photos
        <3> DEFINE s == <<"full", "part">>
        <3>1. /\ s \in Seq(Rounds) /\ s # <<>> /\ Head(s) = "full"
              /\ \A i \in DOMAIN s : i > 1 => s[i] # "new"
            BY DEF Rounds
        <3> QED
            BY <1>3, <2>1, <3>1, BeginPrim DEF SetPrimary
    <2>2. CASE m \notin Photos
        <3> DEFINE s == <<"full">>
        <3>1. /\ s \in Seq(Rounds) /\ s # <<>> /\ Head(s) = "full"
              /\ \A i \in DOMAIN s : (i > 1 => s[i] # "new") /\ s[i] # "part"
            BY DEF Rounds
        <3> QED
            BY <1>3, <2>2, <3>1, BeginPrim DEF SetPrimary
    <2> QED
        BY <2>1, <2>2
<1> QED
    BY <1>1, <1>2, <1>3

LEMMA DestroyPrim ==
    ASSUME MediaOK, PrimInv, NEW m \in Pictures, Destroy(m)
    PROVE  PrimInv'
<1> SUFFICES ASSUME ~mixed' PROVE PrimOK'
    BY DEF PrimInv
<1>1. /\ row' = [row EXCEPT ![m] = "gone"] /\ primary' = [primary EXCEPT ![m] = FALSE]
      /\ chosen' = (IF chosen = m THEN "none" ELSE chosen)
      /\ UNCHANGED <<pc, req>> /\ ~mixed /\ ~Requesting
    BY DEF Destroy, MediaOK, PicturesOK
<1>2. PrimOK /\ \A q \in Procs : ~Web(q)
    BY <1>1, WhoRequests DEF PrimInv
<1>3. /\ chosen \in Pictures \cup {"none"} /\ "none" \notin Pictures /\ Pictures \subseteq Media
      /\ \A k \in Pictures : primary'[k] <=> primary[k] /\ k # m
      /\ \A k \in Pictures : There(k)' <=> There(k) /\ k # m
      /\ \A q \in Procs : Tsk(q) => req[q].m \in Pictures
    <2>1. primary \in [Pictures -> BOOLEAN] /\ row \in [Media -> {"none", "there", "gone"}]
        BY DEF MediaOK, PicturesOK, StorageOK
    <2>2. Pictures \subseteq Media /\ "none" \notin Pictures
        BY MediaDisjoint
    <2> QED
        BY <1>1, <2>1, <2>2 DEF MediaOK, PicturesOK, There, Tsk, Pictures
<1>4. Prim' = Prim \ {m} /\ Clean
    BY <1>2, <1>3 DEF Prim, PrimOK, CleanBetween
<1>5. ChosenThere' /\ Clean'
    BY <1>1, <1>2, <1>3, <1>4 DEF PrimOK, ChosenThere, Clean, There
<1>6. \A q \in Procs : ~Web(q)' /\ (Tsk(q)' <=> Tsk(q))
    BY <1>1, <1>2 DEF Web, Tsk
<1>7. TasksFresh'
    <2> SUFFICES ASSUME NEW q \in Procs, Tsk(q) PROVE TaskOK(q)'
        BY <1>6 DEF TasksFresh
    <2>1. TaskOK(q)
        BY <1>2 DEF PrimOK, TasksFresh
    <2> QED
        BY <1>1, <1>3, <1>4, <2>1 DEF TaskOK, There
<1> QED
    BY <1>5, <1>6, <1>7 DEF PrimOK, OneWeb, CleanBetween, WebsOK, Apart

\* A request goes on saving its picture, or is at its end.
LEMMA WebGoesOn ==
    ASSUME MediaOK, PrimOK, NEW p \in Procs, Web(p), Elsewhere(p), ChosenThere',
           \A m \in Pictures \ {req[p].m} : row'[m] = row[m] /\ (primary'[m] => primary[m]),
           \/ pc'[p] = "idle" /\ Clean'
           \/ pc'[p] \in SavingPicture /\ req'[p].m = req[p].m /\ req'[p].via = "web" /\ WebOK(p)'
    PROVE  PrimOK'
<1>1. /\ \A q \in Procs : q # p => ~Web(q) /\ pc'[q] = pc[q] /\ req'[q] = req[q]
      /\ \A q \in Procs : Tsk(q) => /\ q # p /\ TaskOK(q) /\ ~req[q].flag
                                    /\ req[q].m # req[p].m /\ req[q].m \in Pictures
    BY DEF PrimOK, OneWeb, TasksFresh, Apart, Web, Tsk, Elsewhere, Pictures
<1>2. ~Tsk(p)' /\ (Web(p)' => req'[p].m = req[p].m /\ WebOK(p)') /\ (~Web(p)' => Clean')
    BY DEF Web, Tsk, SavingPicture, Tasking
<1>3. /\ \A q \in Procs : q # p => ~Web(q)'
      /\ \A q \in Procs : Tsk(q)' => q # p /\ Tsk(q)
    BY <1>1, <1>2 DEF Web, Tsk
<1>4. OneWeb' /\ CleanBetween' /\ WebsOK'
    BY <1>2, <1>3 DEF OneWeb, CleanBetween, WebsOK
<1>5. TasksFresh'
    <2> SUFFICES ASSUME NEW q \in Procs, Tsk(q)' PROVE TaskOK(q)'
        BY DEF TasksFresh
    <2>1. q # p /\ Tsk(q) /\ TaskOK(q) /\ ~req[q].flag
        BY <1>1, <1>3
    <2>2. pc'[q] = pc[q] /\ req'[q] = req[q]
        BY <1>1, <2>1
    <2>3. row'[req[q].m] = row[req[q].m] /\ (primary'[req[q].m] => primary[req[q].m])
        BY <1>1, <2>1
    <2> QED
        BY <2>1, <2>2, <2>3 DEF TaskOK, There
<1>6. Apart'
    BY <1>1, <1>2, <1>3 DEF Apart
<1> QED
    BY <1>4, <1>5, <1>6 DEF PrimOK

\* What a request that saves a picture is about, and may find.
LEMMA SavingNow ==
    ASSUME MediaOK, PrimInv, ~mixed, NEW p \in Procs, pc[p] \in SavingPicture
    PROVE  /\ PrimOK /\ req[p].m \in Pictures /\ req[p].m \in Media /\ req[p].flag \in BOOLEAN
           /\ req[p].rounds \in Seq(Rounds) /\ req[p].rounds # <<>>
           /\ Head(req[p].rounds) \in Rounds
           /\ \/ Web(p) /\ WebOK(p) /\ ~Tsk(p)
              \/ /\ Tsk(p) /\ TaskOK(p) /\ ~Web(p)
                 /\ req[p].m \in Clips /\ req[p].rounds = <<"part">> /\ req[p].via = "task"
           /\ chosen \in Pictures \cup {"none"} /\ "none" \notin Pictures
           /\ primary \in [Pictures -> BOOLEAN] /\ row \in [Media -> {"none", "there", "gone"}]
<1>1. /\ PrimOK /\ req[p].m \in Pictures /\ req[p].m \in Media /\ req[p].flag \in BOOLEAN
      /\ req[p].rounds \in Seq(Rounds) /\ req[p].rounds # <<>>
      /\ Head(req[p].rounds) \in Rounds
    BY SavingTyped DEF PrimInv
<1>2. /\ req[p].via \in {"web", "task"}
      /\ req[p].via = "task" => req[p].m \in Clips /\ req[p].rounds = <<"part">>
    BY HeldTyped DEF MediaOK, Fits
<1>3. \/ Web(p) /\ WebOK(p) /\ ~Tsk(p)
      \/ /\ Tsk(p) /\ TaskOK(p) /\ ~Web(p)
         /\ req[p].m \in Clips /\ req[p].rounds = <<"part">> /\ req[p].via = "task"
    BY <1>1, <1>2 DEF PrimOK, WebsOK, TasksFresh, Web, Tsk
<1> QED
    BY <1>1, <1>3, MediaDisjoint DEF MediaOK, PicturesOK, StorageOK

LEMMA SaveRowPrim ==
    ASSUME MediaOK, PrimInv, NEW p \in Procs, SaveRow(p)
    PROVE  PrimInv'
<1> DEFINE m == req[p].m
           kind == Head(req[p].rounds)
           flag == req[p].flag \/ kind = "full"
           r == [req[p] EXCEPT !.flag = flag]
<1>1. pc[p] = "row" /\ pc[p] \in SavingPicture /\ mixed' = mixed /\ chosen' = chosen
    BY DEF SaveRow, SavingPicture
<1> SUFFICES ASSUME ~mixed, PrimOK PROVE PrimInv'
    BY <1>1 DEF PrimInv
<1>2. /\ m \in Pictures /\ m \in Media /\ req[p].flag \in BOOLEAN /\ kind \in Rounds
      /\ \/ Web(p) /\ WebOK(p) /\ ~Tsk(p)
         \/ /\ Tsk(p) /\ TaskOK(p) /\ ~Web(p)
            /\ m \in Clips /\ req[p].rounds = <<"part">> /\ req[p].via = "task"
      /\ chosen \in Pictures \cup {"none"} /\ "none" \notin Pictures
      /\ primary \in [Pictures -> BOOLEAN] /\ row \in [Media -> {"none", "there", "gone"}]
    BY <1>1, SavingNow
<1>3. r.m = m /\ r.flag = flag /\ r.via = req[p].via /\ r.rounds = req[p].rounds /\ flag \in BOOLEAN
    BY <1>2, HeldTyped DEF MediaOK, Locals
<1>4. CASE kind = "part" /\ ~There(m)
    <2>1. GoWith(p, "idle", NoRequest) /\ UNCHANGED <<row, primary>>
        BY <1>4 DEF SaveRow, Finish, stored
    <2>2. Elsewhere(p) /\ pc'[p] = "idle"
        BY <2>1, MoveElsewhere DEF MediaOK
    <2>3. ~Web(p)
        BY <1>1, <1>4 DEF PrimOK, WebsOK, WebOK
    <2> QED
        BY <1>1, <2>1, <2>2, <2>3, PrimAway DEF Tasking, SavingPicture
<1>5. CASE ~(kind = "part" /\ ~There(m))
    <2>1. /\ row' = [row EXCEPT ![m] = "there"]
          /\ primary' = IF kind = "part" THEN primary ELSE [primary EXCEPT ![m] = flag]
          /\ GoWith(p, IF kind = "new" THEN "ensure" ELSE "unset", r)
        BY <1>5 DEF SaveRow, StoreVideo
    <2>2. /\ Elsewhere(p) /\ pc'[p] = (IF kind = "new" THEN "ensure" ELSE "unset") /\ req'[p] = r
        BY <2>1, MoveElsewhere DEF MediaOK
    <2> HIDE DEF r
    <2>3. /\ \A k \in Media : row'[k] = IF k = m THEN "there" ELSE row[k]
          /\ \A k \in Pictures : primary'[k] = IF k = m /\ kind # "part" THEN flag ELSE primary[k]
        BY <1>2, <2>1
    <2>4. There(m)' <=> TRUE
        <3>1. req'[p].m = m
            BY <1>3, <2>2
        <3> QED
            BY <1>2, <2>3, <3>1 DEF There
    <2>5. CASE Tsk(p)
        <3>1. kind = "part" /\ There(m) /\ ~Web(p) /\ req[p].via = "task" /\ m \in Clips
            BY <1>2, <1>5, <2>5
        <3>2. /\ UNCHANGED primary
              /\ \A k \in Pictures : row'[k] = row[k]
            BY <1>2, <2>1, <2>3, <3>1, MediaDisjoint DEF There
        <3>3. flag = req[p].flag
            BY <1>2, <3>1
        <3>4. ~Web(p)' /\ pc'[p] # "ensure"
            BY <1>3, <2>2, <3>1 DEF Web
        <3> HIDE DEF flag
        <3>5. req'[p].m = req[p].m /\ req'[p].flag = req[p].flag
            BY <1>3, <2>2, <3>3
        <3> QED
            BY <1>1, <2>2, <2>5, <3>1, <3>2, <3>4, <3>5, PrimAside
    <2>6. CASE Web(p)
        <3>1. /\ Clean /\ WebOK(p)
              /\ There(m) <=> kind # "new"
              /\ kind = "part" => req[p].flag
            BY <1>1, <1>2, <2>6 DEF WebOK
        <3>2. m \in Photos => req[p].flag
            BY <3>1 DEF WebOK
        <3>3. /\ \A i \in DOMAIN req[p].rounds : req[p].rounds[i] = "part" => m \in Photos
              /\ \A i \in DOMAIN req[p].rounds : i > 1 => req[p].rounds[i] # "new"
            BY <3>1 DEF WebOK
        <3>4. ChosenThere'
            BY <1>1, <1>2, <2>3, MediaDisjoint DEF PrimOK, ChosenThere, There
        <3>5. \A k \in Pictures \ {m} : row'[k] = row[k] /\ (primary'[k] => primary[k])
            BY <2>3, MediaDisjoint
        <3>6. /\ Prim' \ {m} = Prim \ {m}
              /\ m \in Prim' <=> IF kind = "part" THEN m \in Prim ELSE flag
            BY <1>2, <2>3 DEF Prim
        <3>7. kind = "new" => m \notin Prim
            BY <1>2, <3>1 DEF PrimOK, ChosenThere, Clean
        <3>8. IF flag THEN Prim' \ {m} \subseteq {chosen} ELSE Prim' = {chosen} \ {"none"} /\ m \notin Prim'
            <4>1. CASE flag
                BY <3>1, <3>6, <4>1 DEF Clean
            <4>2. CASE ~flag
                <5>1. kind = "new"
                    BY <1>2, <3>1, <4>2 DEF Rounds
                <5>2. m \notin Prim' /\ Prim' = Prim
                    BY <3>6, <3>7, <4>2, <5>1 DEF Prim
                <5> QED
                    BY <3>1, <4>2, <5>2 DEF Clean
            <4> QED
                BY <4>1, <4>2
        <3>9. m \in Photos => flag
            BY <3>2
        <3> HIDE DEF flag, kind
        <3>10. WebOK(p)'
            <4>1. /\ pc'[p] # "row" /\ pc'[p] # "flag"
                  /\ req'[p].m = m /\ req'[p].flag = flag /\ req'[p].rounds = req[p].rounds
                BY <1>3, <2>2
            <4>2. Settling(p)'
                BY <1>1, <3>8, <4>1 DEF Settling, Clean
            <4>3. row'[m] = "there"
                BY <1>2, <2>3
            <4> QED
                BY <3>3, <3>9, <4>1, <4>2, <4>3 DEF WebOK, There
        <3>11. pc'[p] \in SavingPicture /\ req'[p].m = req[p].m /\ req'[p].via = "web"
            BY <1>3, <2>2, <2>6 DEF SavingPicture, Web
        <3>12. PrimOK'
            BY <2>2, <2>6, <3>4, <3>5, <3>10, <3>11, WebGoesOn
        <3> QED
            BY <3>12 DEF PrimInv
    <2> QED
        BY <1>2, <2>5, <2>6
<1> QED
    BY <1>4, <1>5

LEMMA EnsurePrim ==
    ASSUME MediaOK, PrimInv, NEW p \in Procs, Ensure(p)
    PROVE  PrimInv'
<1> DEFINE m == req[p].m
           none == ~\E k \in Pictures : primary[k]
           flag == req[p].flag \/ none
           r == [req[p] EXCEPT !.flag = flag]
<1>1. /\ pc[p] = "ensure" /\ pc[p] \in SavingPicture
      /\ UNCHANGED <<row, primary, chosen, mixed>>
    BY DEF Ensure, SavingPicture, stored, pictures
<1> SUFFICES ASSUME ~mixed, PrimOK PROVE PrimOK'
    BY <1>1 DEF PrimInv
<1>2. Web(p) /\ WebOK(p) /\ req[p].flag \in BOOLEAN
    BY <1>1, SavingNow DEF TaskOK
<1>3. r.m = m /\ r.flag = flag /\ r.via = req[p].via /\ r.rounds = req[p].rounds
    BY <1>1, SavingTyped DEF Locals
<1>4. GoWith(p, "unset", r)
    <2>1. GoWith(p, "unset", [req[p] EXCEPT !.flag = @ \/ none])
        BY DEF Ensure
    <2>2. [req[p] EXCEPT !.flag = @ \/ none] = r
        BY <1>1, SavingTyped DEF Locals
    <2> QED
        BY <2>1, <2>2
<1>5. Elsewhere(p) /\ pc'[p] = "unset" /\ req'[p] = r
    BY <1>4, MoveElsewhere DEF MediaOK
<1> HIDE DEF r
<1>6. none <=> Prim = {}
    BY DEF Prim
<1>7. Prim' = Prim
    BY <1>1 DEF Prim
<1>8. WebOK(p)'
    <2>1. /\ There(m) /\ Settling(p) /\ (m \in Photos => req[p].flag)
          /\ \A i \in DOMAIN req[p].rounds : req[p].rounds[i] = "part" => m \in Photos
          /\ \A i \in DOMAIN req[p].rounds : i > 1 => req[p].rounds[i] # "new"
        BY <1>1, <1>2 DEF WebOK
    <2>2. IF flag THEN Prim \ {m} \subseteq {chosen} ELSE Clean /\ m \notin Prim
        BY <1>6, <2>1 DEF Settling
    <2>3. m \in Photos => flag
        BY <2>1
    <2> HIDE DEF flag
    <2>4. Settling(p)'
        BY <1>1, <1>3, <1>5, <1>7, <2>2 DEF Settling, Clean
    <2> QED
        BY <1>1, <1>3, <1>5, <2>1, <2>3, <2>4 DEF WebOK, There
<1>9. ChosenThere'
    BY <1>1 DEF PrimOK, ChosenThere, There
<1>10. pc'[p] \in SavingPicture /\ req'[p].m = req[p].m /\ req'[p].via = "web"
    BY <1>2, <1>3, <1>5 DEF SavingPicture, Web
<1> QED
    BY <1>1, <1>2, <1>5, <1>8, <1>9, <1>10, WebGoesOn

LEMMA UnsetPrim ==
    ASSUME MediaOK, PrimInv, NEW p \in Procs, Unset(p)
    PROVE  PrimInv'
<1> DEFINE m == req[p].m
<1>1. /\ pc[p] = "unset" /\ pc[p] \in SavingPicture /\ UNCHANGED <<row, chosen, mixed>>
      /\ primary' = IF req[p].flag THEN [k \in Pictures |-> k = m /\ primary[k]] ELSE primary
    BY DEF Unset, SavingPicture, stored
<1> SUFFICES ASSUME ~mixed, PrimOK PROVE PrimInv'
    BY <1>1 DEF PrimInv
<1>2. /\ m \in Pictures /\ req[p].flag \in BOOLEAN
      /\ \/ Web(p) /\ WebOK(p) /\ ~Tsk(p)
         \/ Tsk(p) /\ TaskOK(p) /\ ~Web(p) /\ req[p].via = "task"
      /\ primary \in [Pictures -> BOOLEAN]
    BY <1>1, SavingNow
<1>3. Elsewhere(p) /\ pc'[p] = "flag" /\ req'[p] = req[p]
    BY MoveElsewhere DEF Unset, Goto, MediaOK
<1>4. CASE Tsk(p)
    <2>1. primary' = primary
        <3>1. req[p].flag => \A k \in Pictures : primary[k] => k = m
            BY <1>2, <1>4 DEF Prim, TaskOK, Web, Tsk
        <3> QED
            BY <1>1, <1>2, <3>1
    <2>2. ~Web(p) /\ ~Web(p)'
        BY <1>2, <1>3, <1>4 DEF Web
    <2> QED
        BY <1>1, <1>3, <1>4, <2>1, <2>2, PrimAside
<1>5. CASE Web(p)
    <2>1. /\ There(m) /\ Settling(p) /\ (m \in Photos => req[p].flag)
          /\ \A i \in DOMAIN req[p].rounds : req[p].rounds[i] = "part" => m \in Photos
          /\ \A i \in DOMAIN req[p].rounds : i > 1 => req[p].rounds[i] # "new"
        BY <1>1, <1>2, <1>5 DEF WebOK
    <2>2. \A k \in Pictures : primary'[k] <=> primary[k] /\ (req[p].flag => k = m)
        BY <1>1, <1>2
    <2>3. IF req[p].flag THEN Prim' \subseteq {m} ELSE Prim' = {chosen} \ {"none"} /\ m \notin Prim'
        BY <2>1, <2>2 DEF Settling, Prim, Clean
    <2>4. WebOK(p)'
        BY <1>1, <1>3, <2>1, <2>3 DEF WebOK, There, Clean
    <2>5. ChosenThere'
        BY <1>1 DEF PrimOK, ChosenThere, There
    <2>6. PrimOK'
        BY <1>1, <1>3, <1>5, <2>2, <2>4, <2>5, WebGoesOn DEF SavingPicture, Web
    <2> QED
        BY <2>6 DEF PrimInv
<1> QED
    BY <1>2, <1>4, <1>5

\* The rounds that are left are those from the second on.
LEMMA RoundsLeft ==
    ASSUME NEW s \in Seq(Rounds), s # <<>>
    PROVE  /\ Tail(s) \in Seq(Rounds)
           /\ \A i \in DOMAIN Tail(s) : i + 1 \in DOMAIN s /\ i + 1 > 1 /\ Tail(s)[i] = s[i + 1]
           /\ Tail(s) # <<>> => Head(Tail(s)) = s[2] /\ 2 \in DOMAIN s
<1>1. /\ Tail(s) \in Seq(Rounds) /\ Len(s) \in Nat /\ Len(s) # 0
      /\ Len(Tail(s)) = Len(s) - 1
      /\ \A i \in 1..Len(Tail(s)) : Tail(s)[i] = s[i + 1]
    BY HeadTailProperties, EmptySeq
<1>2. /\ DOMAIN s = 1..Len(s)
      /\ DOMAIN Tail(s) = 1..Len(Tail(s))
    BY <1>1, LenProperties
<1>3. Tail(s) # <<>> => Len(Tail(s)) # 0 /\ Head(Tail(s)) = Tail(s)[1]
    BY <1>1, EmptySeq, HeadTailProperties
<1> DEFINE t == Tail(s)
<1> HIDE DEF t
<1>4. /\ \A i \in DOMAIN t : i + 1 \in DOMAIN s /\ i + 1 > 1 /\ t[i] = s[i + 1]
      /\ t # <<>> => Head(t) = s[2] /\ 2 \in DOMAIN s
    BY <1>1, <1>2, <1>3 DEF t
<1> QED
    BY <1>1, <1>4 DEF t

LEMMA SaveFlagPrim ==
    ASSUME MediaOK, PrimInv, NEW p \in Procs, SaveFlag(p)
    PROVE  PrimInv'
<1> DEFINE m == req[p].m
           flag == req[p].flag
           rounds == req[p].rounds
           more == Tail(rounds)
           r == [req[p] EXCEPT !.rounds = more]
<1>1. /\ pc[p] = "flag" /\ pc[p] \in SavingPicture /\ UNCHANGED <<row, mixed>>
      /\ primary' = IF There(m) THEN [primary EXCEPT ![m] = flag] ELSE primary
      /\ chosen' = IF flag /\ req[p].via = "web" THEN m ELSE chosen
      /\ \/ GoWith(p, "idle", NoRequest)
         \/ There(m) /\ more # <<>> /\ GoWith(p, "row", r)
      /\ (There(m) /\ more # <<>>) => GoWith(p, "row", r)
    BY DEF SaveFlag, SavingPicture, stored, Finish
<1> SUFFICES ASSUME ~mixed, PrimOK PROVE PrimInv'
    BY <1>1 DEF PrimInv
<1>2. /\ m \in Pictures /\ flag \in BOOLEAN /\ rounds \in Seq(Rounds) /\ rounds # <<>>
      /\ \/ Web(p) /\ WebOK(p) /\ ~Tsk(p)
         \/ Tsk(p) /\ TaskOK(p) /\ ~Web(p) /\ rounds = <<"part">> /\ req[p].via = "task"
      /\ chosen \in Pictures \cup {"none"} /\ "none" \notin Pictures
      /\ primary \in [Pictures -> BOOLEAN]
    BY <1>1, SavingNow
<1>3. CASE Tsk(p)
    <2>1. TaskOK(p) /\ ~Web(p) /\ more = <<>> /\ req[p].via = "task"
        <3>1. Len(<<"part">>) = 1 /\ <<"part">> \in Seq(Rounds) /\ <<"part">> # <<>>
            BY DEF Rounds
        <3>2. Tail(<<"part">>) \in Seq(Rounds) /\ Len(Tail(<<"part">>)) = 0
            BY <3>1, HeadTailProperties
        <3>3. Tail(<<"part">>) = <<>>
            BY <3>2, EmptySeq
        <3> QED
            BY <1>2, <1>3, <3>3
    <2>2. UNCHANGED <<primary, chosen>>
        <3>1. There(m) => (flag <=> primary[m])
            BY <2>1 DEF TaskOK
        <3>2. primary[m] \in BOOLEAN
            BY <1>2
        <3>3. There(m) => flag = primary[m]
            BY <1>2, <3>1, <3>2
        <3> QED
            BY <1>1, <1>2, <2>1, <3>3
    <2>3. Elsewhere(p) /\ pc'[p] = "idle"
        BY <1>1, <2>1, MoveElsewhere DEF MediaOK
    <2> QED
        BY <1>1, <2>1, <2>2, <2>3, PrimAway DEF Tasking, SavingPicture
<1>4. CASE Web(p)
    <2>1. /\ There(m) /\ req[p].via = "web"
          /\ IF flag THEN Prim \subseteq {m} ELSE Clean /\ m \notin Prim
          /\ m \in Photos => flag
          /\ \A i \in DOMAIN rounds : rounds[i] = "part" => m \in Photos
          /\ \A i \in DOMAIN rounds : i > 1 => rounds[i] # "new"
        BY <1>1, <1>2, <1>4 DEF WebOK, Web
    <2>2. /\ \A k \in Pictures : primary'[k] = IF k = m THEN flag ELSE primary[k]
          /\ chosen' = IF flag THEN m ELSE chosen
        BY <1>1, <1>2, <2>1
    <2>3. Clean'
        <3>1. CASE flag
            <4>1. Prim' = {m}
                BY <1>2, <2>1, <2>2, <3>1 DEF Prim
            <4> QED
                BY <1>2, <2>2, <3>1, <4>1 DEF Clean
        <3>2. CASE ~flag
            BY <1>2, <2>1, <2>2, <3>2 DEF Clean, Prim
        <3> QED
            BY <3>1, <3>2
    <2>4. ChosenThere'
        BY <1>1, <2>1, <2>2 DEF PrimOK, ChosenThere, There
    <2>5. \A k \in Pictures \ {m} : row'[k] = row[k] /\ (primary'[k] => primary[k])
        BY <1>1, <2>2
    <2>6. CASE GoWith(p, "idle", NoRequest)
        <3>1. Elsewhere(p) /\ pc'[p] = "idle"
            BY <2>6, MoveElsewhere DEF MediaOK
        <3>2. PrimOK'
            BY <1>4, <2>3, <2>4, <2>5, <3>1, WebGoesOn
        <3> QED
            BY <3>2 DEF PrimInv
    <2>7. CASE more # <<>> /\ GoWith(p, "row", r)
        <3>1. r.m = m /\ r.flag = flag /\ r.via = "web" /\ r.rounds = more
            BY <1>1, <2>1, SavingTyped DEF Locals
        <3> HIDE DEF r
        <3>2. Elsewhere(p) /\ pc'[p] = "row" /\ req'[p] = r
            BY <2>7, MoveElsewhere DEF MediaOK
        <3>3. /\ \A i \in DOMAIN more : more[i] = "part" => m \in Photos
              /\ \A i \in DOMAIN more : i > 1 => more[i] # "new"
              /\ Head(more) # "new" /\ (Head(more) = "part" => m \in Photos)
            <4>1. /\ \A i \in DOMAIN more : i + 1 \in DOMAIN rounds /\ i + 1 > 1
                                            /\ more[i] = rounds[i + 1]
                  /\ Head(more) = rounds[2] /\ 2 \in DOMAIN rounds
                BY <1>2, <2>7, RoundsLeft
            <4> HIDE DEF more, rounds, m
            <4> QED
                BY <2>1, <4>1
        <3> HIDE DEF more
        <3>4. WebOK(p)'
            <4>1. row'[m] = "there"
                BY <1>1, <2>1 DEF There
            <4> QED
                BY <2>1, <2>3, <3>1, <3>2, <3>3, <4>1 DEF WebOK, There
        <3>5. pc'[p] \in SavingPicture /\ req'[p].m = req[p].m /\ req'[p].via = "web"
            BY <3>1, <3>2 DEF SavingPicture
        <3>6. PrimOK'
            BY <1>4, <2>4, <2>5, <3>2, <3>4, <3>5, WebGoesOn
        <3> QED
            BY <3>6 DEF PrimInv
    <2> QED
        BY <1>1, <2>6, <2>7
<1> QED
    BY <1>2, <1>3, <1>4

LEMMA MediaPrim ==
    ASSUME MediaOK, PrimInv, MediaNext
    PROVE  PrimInv'
<1>1. ASSUME NEW m, TakeStale(m) \/ Midnight PROVE PrimInv'
    BY <1>1, PrimStill DEF TakeStale, Midnight, pictures, proc, stored
<1> QED
    BY <1>1, TaskPrim, RequestPrim, SaveRowPrim, EnsurePrim, UnsetPrim, SaveFlagPrim, DestroyPrim
    DEF MediaNext

LEMMA PrimInit == Init => PrimInv
BY NobodyAssumption
DEF Init, MediaInit, PrimInv, PrimOK, ChosenThere, OneWeb, CleanBetween, WebsOK, TasksFresh, Apart,
    Web, Tsk, Clean, Prim, SavingPicture, Tasking

LEMMA PrimStep == Typed /\ PrimInv /\ [Next]_vars => PrimInv'
<1> SUFFICES ASSUME MediaOK, MsgsOK, PrimInv, [Next]_vars
             PROVE  PrimInv'
    BY DEF Typed, MediaOK
<1>1. CASE PostNext
    BY <1>1, MessagePrim DEF PostNext
<1>2. CASE ChangeNext
    BY <1>2, MessagePrim DEF ChangeNext
<1>3. CASE ReaderNext
    <2>1. CASE \E p \in Procs :
                  \/ \E x \in Ids, kind \in Kinds : ReactWs(p, x, kind) \/ ReactRest(p, x, kind)
                  \/ ReactFind(p) \/ ReactCount(p) \/ Unreact(p) \/ DropOldest(p) \/ ReactCreate(p)
        BY <2>1, MessagePrim DEF ReactWs, ReactRest
    <2>2. CASE \/ \E x \in Ids : View(x)
               \/ \E way \in {"older", "messages"} : ScrollStart(way, 0)
               \/ \E cursor \in Ids : ScrollStart("newer", cursor)
               \/ OlderPage \/ NewerPage \/ MessagesPage
        <3>1. UNCHANGED <<pc, req, row, primary, chosen, mixed>>
            BY <2>2 DEF View, ScrollStart, OlderPage, NewerPage, MessagesPage, Turn, mediaVars,
               proc, stored, pictures
        <3> QED
            BY <3>1, PrimStill
    <2> QED
        BY <1>3, <2>1, <2>2 DEF ReaderNext
<1>4. CASE MediaNext /\ UNCHANGED messageVars
    BY <1>4, MediaPrim
<1>5. CASE \E p \in Procs : MessageCrash(p)
    BY <1>5, CrashPrim DEF MessageCrash
<1>6. CASE UNCHANGED vars
    BY <1>6, PrimStill DEF vars, mediaVars, proc, stored, pictures
<1> QED
    BY <1>1, <1>2, <1>3, <1>4, <1>5, <1>6 DEF Next

\* Between requests the one primary picture is the one that was last made or set so, or
\* there is none if that one was destroyed, whatever compressions save in the meantime,
\* unless requests or tasks got in one another's way (DisplayMedia.save, set_primary,
\* ensure_primary_if_needed).
THEOREM PrimaryFollowsChoice == Spec => []PrimaryIsLastChosen
<1>1. PrimInv => PrimaryIsLastChosen
    BY DEF PrimInv, PrimOK, CleanBetween, Web, Clean, Prim, PrimaryIsLastChosen
<1>2. Init => Typed /\ PrimInv
    BY TypedInit, PrimInit
<1>3. Typed /\ PrimInv /\ [Next]_vars => Typed' /\ PrimInv'
    BY TypedStep, PrimStep
<1> QED
    BY <1>1, <1>2, <1>3, PTL DEF Spec
=============================================================================
