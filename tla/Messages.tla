--------------------------------- MODULE Messages ---------------------------------
(***************************************************************************)
(* The messages of one chat: posted, edited, deleted, purged, reacted to,  *)
(* viewed and read page by page, together with the videos they carry       *)
(* (MediaFiles).  ChatPosting has who may post and who is sent what.       *)
(*                                                                         *)
(* Every ORM call is a step of its own, and so is the batch of the         *)
(* purge, one transaction.  A message's text is left out: what matters is  *)
(* which columns a save writes.  save() writes every column as it was read *)
(* and inserts the row if it is gone; save(update_fields) writes some.     *)
(* The requests to change a message are its author's; the reader stands    *)
(* for the members who were in the chat when it was posted.                *)
(***************************************************************************)
EXTENDS MediaFiles

CONSTANTS
    PageSize,     \* messages on a page of the history
    Kinds,        \* MessageReaction.REACTION_TYPES
    MaxReactions  \* reactions of one user to one message

ASSUME PageAssumption == PageSize \in Nat \ {0}
ASSUME ReactionsAssumption == MaxReactions \in Nat \ {0}

VARIABLES
    msgs,        \* Message rows by id, see NewMessage
    clock,       \* the next value of timezone.now()
    inbox,       \* the messages the reader has a MessageRecipient row of
    read,        \* those whose read_date is set
    channel,     \* whether the chat is a channel
    scroll,      \* a client that pages through the history
    overlapped,  \* messages to which two requests of the reader reacted at once
    cut          \* messages whose request died before it made their recipients

messageVars == <<msgs, clock, inbox, read, channel, scroll, overlapped, cut>>
vars == <<mediaVars, messageVars>>

\* deleted: deleted_at is set.  file: the video attached.  marks: the reader's
\* reactions, oldest first.  fate: "erased" if it was ever deleted for good, see Fate.
NewMessage(stamp) == [there |-> TRUE, stamp |-> stamp, deleted |-> FALSE, file |-> "none",
                      marks |-> <<>>, fate |-> "kept"]
Message == [there : BOOLEAN, stamp : Nat, deleted : BOOLEAN, file : Videos \cup {"none"},
            marks : Seq(Kinds), fate : {"kept", "disputed", "erased"}]

Ids == DOMAIN msgs
Live(x) == msgs[x].there /\ ~msgs[x].deleted

\* q is about to save the whole row of x as it was before it was deleted.
HoldsLive(q, x) == /\ pc[q] # "idle" /\ req[q].via = "rest"
                   /\ req[q].x = x /\ ~req[q].deleted
\* What a deletion by p makes of x: such a save would undo it.
Fate(p, x) == IF \E q \in Procs \ {p} : HoldsLive(q, x) THEN "disputed" ELSE "erased"

-----------------------------------------------------------------------------
(* Posting.                                                                *)

\* Message(...) takes its date before the INSERT gives it its id.
Post(p, k, r) ==
    /\ Begin(p, k, "insert", [r EXCEPT !.at = clock])
    /\ clock' = clock + 1
    /\ UNCHANGED <<stored, pictures, tasks, msgs, inbox, read, channel, scroll, overlapped, cut>>

\* save_message of the consumer; create of the viewset, with a video or without.
PostWs(p) == Post(p, "post", [NoRequest EXCEPT !.via = "ws"])
PostRest(p) == Post(p, "post", [NoRequest EXCEPT !.via = "rest"])
PostVideo(p, m, base) ==
    /\ row[m] = "none" /\ ~InHand(m)
    /\ Post(p, "film", [NoRequest EXCEPT !.via = "rest", !.m = m, !.path.base = base])

Insert(p) ==
    /\ pc[p] = "insert"
    /\ msgs' = Append(msgs, NewMessage(req[p].at))
    /\ GoWith(p, "recipients", [req[p] EXCEPT !.x = Len(msgs) + 1])
    /\ UNCHANGED <<stored, pictures, tasks, left, clock, inbox, read, channel, scroll,
                   overlapped, cut>>

\* The signal of a row that was inserted: rows for all who are in the chat, refused if
\* the message is gone or has them, which ends the request.
Recipients(p) ==
    LET x == req[p].x
        made == msgs[x].there /\ x \notin inbox
    IN  /\ pc[p] = "recipients"
        /\ inbox' = IF made THEN inbox \cup {x} ELSE inbox
        /\ IF made /\ req[p].via = "rest"
           THEN Goto(p, IF req[p].m = "none" THEN "save" ELSE "file")
           ELSE Finish(p)
        /\ UNCHANGED <<stored, pictures, tasks, msgs, clock, read, channel, scroll,
                       overlapped, cut>>

\* The upload goes into the storage, gets its VideoFile row and the row its task ...
PostFile(p) ==
    LET m == req[p].m
        at == StoredAs(m, req[p].path)
    IN  /\ pc[p] = "file"
        /\ disk' = disk \cup {[at |-> at, of |-> m]}
        /\ GoWith(p, "video", [req[p] EXCEPT !.path = at])
        /\ UNCHANGED <<row, path, today, hurt, pictures, tasks, left, messageVars>>

PostRow(p) ==
    LET m == req[p].m
    IN  /\ pc[p] = "video"
        /\ row' = [row EXCEPT ![m] = "there"]
        /\ path' = [path EXCEPT ![m] = req[p].path]
        /\ queue' = queue \cup {m}
        /\ Goto(p, "attach")
        /\ UNCHANGED <<disk, today, hurt, pictures, tries, messageVars>>

\* ... and is attached to the message, if that is still there.
PostAttach(p) ==
    LET x == req[p].x
    IN  /\ pc[p] = "attach"
        /\ IF msgs[x].there
           THEN msgs' = [msgs EXCEPT ![x].file = req[p].m] /\ Goto(p, "save")
           ELSE Finish(p) /\ UNCHANGED msgs
        /\ UNCHANGED <<stored, pictures, tasks, clock, inbox, read, channel, scroll,
                       overlapped, cut>>

-----------------------------------------------------------------------------
(* Editing and deleting: the row is read, and later saved.                 *)

\* p has read x: edit, delete of the consumer; update, partial_update, destroy of the
\* viewset, the last of which sets deleted_at.
Read(p, x, label, via) ==
    /\ msgs[x].there
    /\ Begin(p, "edit", label, [NoRequest EXCEPT !.x = x, !.via = via,
                                                 !.deleted = msgs[x].deleted])
    /\ UNCHANGED <<stored, pictures, tasks, messageVars>>

EditRead(p, x) == Read(p, x, "edit", "ws")
DeleteRead(p, x) == Read(p, x, "delete", "ws")
UpdateRead(p, x) == Read(p, x, "save", "rest")
DestroyRead(p, x) ==
    /\ msgs[x].there
    /\ Begin(p, "edit", "save", [NoRequest EXCEPT !.x = x, !.via = "rest", !.deleted = TRUE])
    /\ UNCHANGED <<stored, pictures, tasks, messageVars>>

MutEditSave(p) ==
    /\ pc[p] = "edit"
    /\ msgs' = [msgs EXCEPT ![req[p].x].deleted = req[p].deleted]
    /\ Finish(p)
    /\ UNCHANGED <<stored, pictures, tasks, clock, inbox, read, channel, scroll,
                   overlapped, cut>>
\* save(update_fields = value and edit_date), none of which matters here.
EditSave(p) ==
    /\ pc[p] = "edit"
    /\ Finish(p)
    /\ UNCHANGED <<stored, pictures, tasks, messageVars>>

\* save(update_fields = value and deleted_at), refused if the row is gone.
DeleteSave(p) ==
    LET x == req[p].x
    IN  /\ pc[p] = "delete"
        /\ msgs' = IF msgs[x].there
                   THEN [msgs EXCEPT ![x].deleted = TRUE, ![x].fate = Fate(p, x)]
                   ELSE msgs
        /\ Finish(p)
        /\ UNCHANGED <<stored, pictures, tasks, clock, inbox, read, channel, scroll,
                       overlapped, cut>>

\* save(): the columns as they were read; the row is inserted again if it is gone, and
\* then gets recipients again.
FullSave(p) ==
    LET x == req[p].x
        del == req[p].deleted
    IN  /\ pc[p] = "save"
        /\ msgs' = [msgs EXCEPT ![x].there = TRUE, ![x].deleted = del,
                                ![x].fate = IF del THEN Fate(p, x) ELSE @]
        /\ IF msgs[x].there
           THEN Finish(p)
           ELSE GoWith(p, "recipients", [req[p] EXCEPT !.via = "again"]) /\ UNCHANGED left
        /\ UNCHANGED <<stored, pictures, tasks, clock, inbox, read, channel, scroll,
                       overlapped, cut>>

-----------------------------------------------------------------------------
(* Purging what was deleted.                                               *)

PurgeStart(p) ==
    /\ Begin(p, "purge", "list", [NoRequest EXCEPT !.via = "purge"])
    /\ UNCHANGED <<stored, pictures, tasks, messageVars>>

PurgeList(p) ==
    LET batch == {x \in Ids : msgs[x].there /\ msgs[x].deleted}
    IN  /\ pc[p] = "list"
        /\ IF batch = {} THEN Finish(p)
           ELSE GoWith(p, "purge", [req[p] EXCEPT !.todo = batch]) /\ UNCHANGED left
        /\ UNCHANGED <<stored, pictures, tasks, messageVars>>

Films(X) == {msgs[x].file : x \in X} \ {"none"}

\* delete_orphan_message_files: the files of the videos' rows, whosever they are by now.
RemoveFiles(films) ==
    /\ disk' = {f \in disk : \A m \in films : f.at # path[m]}
    /\ hurt' = hurt \cup UNION {Robbed(path[m], m) : m \in films}

\* The listed messages go, deleted or not by now, with all that depends on them.
PurgeBatch(p) ==
    LET batch == req[p].todo
    IN  /\ pc[p] = "purge"
        /\ msgs' = [x \in Ids |-> IF x \in batch
                       THEN [msgs[x] EXCEPT !.there = FALSE, !.file = "none", !.marks = <<>>]
                       ELSE msgs[x]]
        /\ inbox' = inbox \ batch /\ read' = read \ batch
        /\ row' = [m \in Media |-> IF m \in Films(batch) THEN "gone" ELSE row[m]]
        /\ RemoveFiles(Films(batch))
        /\ Goto(p, "list")
        /\ UNCHANGED <<path, today, pictures, tasks, clock, channel, scroll, overlapped, cut>>

\* The transaction is rolled back; the files it has removed are not.
PurgeFails(p) ==
    /\ pc[p] = "purge"
    /\ \E films \in SUBSET Films(req[p].todo) :
          /\ disk' = {f \in disk : \A m \in films : f.at # path[m]}
          /\ hurt' = hurt \cup films \cup UNION {Robbed(path[m], m) : m \in films}
    /\ Spend("fault")
    /\ GoWith(p, "idle", NoRequest)
    /\ UNCHANGED <<row, path, today, pictures, tasks, messageVars>>

-----------------------------------------------------------------------------
(* Reacting and viewing.                                                   *)

Reacting == {"find", "unreact", "count", "drop_oldest", "create"}

\* set_user_reaction, for a message that was found.
React(p, x, kind) ==
    /\ msgs[x].there
    /\ Begin(p, "react", "find", [NoRequest EXCEPT !.x = x, !.kind = kind, !.via = "react"])
    /\ overlapped' = IF \E q \in Procs : pc[q] \in Reacting /\ req[q].x = x
                     THEN overlapped \cup {x} ELSE overlapped
    /\ UNCHANGED <<stored, pictures, tasks, msgs, clock, inbox, read, channel, scroll, cut>>

\* The consumer refuses a channel's subscribers, as which the reader counts; the view
\* does not.
ReactWs(p, x, kind) == ~channel /\ React(p, x, kind)
ReactRest(p, x, kind) == React(p, x, kind)

\* Its queries: does the reader react in this way already, and how many times in all?
ReactQuery(p, label, yes, then, else) ==
    /\ pc[p] = label
    /\ Goto(p, IF yes THEN then ELSE else)
    /\ UNCHANGED <<stored, pictures, tasks, messageVars>>

ReactFind(p) ==
    ReactQuery(p, "find", \E i \in DOMAIN msgs[req[p].x].marks :
                              msgs[req[p].x].marks[i] = req[p].kind, "unreact", "count")

MutReactCount(p) ==
    ReactQuery(p, "count", Len(msgs[req[p].x].marks) > MaxReactions, "drop_oldest", "create")
ReactCount(p) ==
    ReactQuery(p, "count", Len(msgs[req[p].x].marks) >= MaxReactions, "drop_oldest", "create")

Marks(p, marks) ==
    /\ msgs' = [msgs EXCEPT ![req[p].x].marks = marks]
    /\ UNCHANGED <<stored, pictures, tasks, clock, inbox, read, channel, scroll,
                   overlapped, cut>>

\* The reaction that was found is deleted, if it still is there.
Unreact(p) ==
    LET marks == msgs[req[p].x].marks
        found == {i \in DOMAIN marks : marks[i] = req[p].kind}
    IN  /\ pc[p] = "unreact"
        /\ \/ found = {} /\ Marks(p, marks)
           \/ \E i \in found : Marks(p, SubSeq(marks, 1, i - 1)
                                          \o SubSeq(marks, i + 1, Len(marks)))
        /\ Finish(p)

\* The oldest one is looked up and deleted.
DropOldest(p) ==
    LET marks == msgs[req[p].x].marks
    IN  /\ pc[p] = "drop_oldest"
        /\ Marks(p, IF marks = <<>> THEN marks ELSE Tail(marks))
        /\ Goto(p, "create")

\* Refused if the message is gone or has this reaction, which is unique.
ReactCreate(p) ==
    LET x == req[p].x
        marks == msgs[x].marks
        refused == ~msgs[x].there \/ \E i \in DOMAIN marks : marks[i] = req[p].kind
    IN  /\ pc[p] = "create"
        /\ Marks(p, IF refused THEN marks ELSE Append(marks, req[p].kind))
        /\ Finish(p)

\* mark_message_as_viewed: only somebody who has a recipient's row can view, for what
\* would create one is given an id where it needs a user, and fails.
View(x) ==
    /\ x \in inbox
    /\ Spend("view")
    /\ read' = read \cup {x}
    /\ UNCHANGED <<stored, pictures, tasks, pc, req, msgs, clock, inbox, channel, scroll,
                   overlapped, cut>>

-----------------------------------------------------------------------------
(* Reading the history page by page.                                       *)

NoScroll == [way |-> "none", cursor |-> 0, got |-> {}, owed |-> {}, done |-> FALSE]

\* The messages the reader may be shown: a channel's all, others only to recipients;
\* GetMessagesAPIView asks nobody.
Shown(way) == {x \in Ids : Live(x) /\ (channel \/ way = "messages" \/ x \in inbox)}

\* A client begins, without a cursor or at the last message it knows.
ScrollStart(way, cursor) ==
    /\ scroll.way = "none"
    /\ Spend("scroll")
    /\ scroll' = [NoScroll EXCEPT !.way = way, !.cursor = cursor,
                                  !.owed = {x \in Shown(way) : x > cursor}]
    /\ UNCHANGED <<stored, pictures, tasks, pc, req, msgs, clock, inbox, read, channel,
                   overlapped, cut>>

\* The first PageSize of X in the order of their dates, and in the reverse order.
Earliest(X) ==
    {x \in X : Cardinality({y \in X : msgs[y].stamp < msgs[x].stamp}) < PageSize}
Latest(X) ==
    {x \in X : Cardinality({y \in X : msgs[y].stamp > msgs[x].stamp}) < PageSize}
First(X) == CHOOSE x \in X : \A y \in X : msgs[x].stamp <= msgs[y].stamp
Last(X) == CHOOSE x \in X : \A y \in X : msgs[x].stamp >= msgs[y].stamp

\* What a page gives the client, and where the next one begins: nowhere if it is last.
Turn(page, last, next) ==
    /\ scroll' = [scroll EXCEPT !.got = @ \cup page, !.done = last,
                                !.cursor = IF last THEN @ ELSE next]
    /\ UNCHANGED <<mediaVars, msgs, clock, inbox, read, channel, overlapped, cut>>

Before == {x \in Shown(scroll.way) : scroll.cursor = 0 \/ x < scroll.cursor}

MutOlderPage ==
    LET page == Earliest(Before)
    IN  /\ scroll.way = "older" /\ ~scroll.done
        /\ Turn(page, Cardinality(page) < PageSize, Last(page))
\* get_chat_for_user, towards older messages and towards newer ones.
OlderPage ==
    LET page == Latest(Before)
    IN  /\ scroll.way = "older" /\ ~scroll.done
        /\ Turn(page, Cardinality(page) < PageSize, First(page))

NewerPage ==
    LET page == Earliest({x \in Shown("newer") : x > scroll.cursor})
    IN  /\ scroll.way = "newer" /\ ~scroll.done
        /\ Turn(page, Cardinality(page) < PageSize, Last(page))

\* GetMessagesAPIView: the next page begins at the newest message of this one.
MessagesPage ==
    LET page == Latest(Before)
    IN  /\ scroll.way = "messages" /\ ~scroll.done
        /\ Turn(page, page = {}, Last(page))

-----------------------------------------------------------------------------
\* A message that was inserted is left without recipients.
MessageCrash(p) ==
    /\ Crash(p)
    /\ cut' = IF pc[p] = "recipients" THEN cut \cup {req[p].x} ELSE cut
    /\ UNCHANGED <<msgs, clock, inbox, read, channel, scroll, overlapped>>

Init ==
    /\ MediaInit
    /\ msgs = <<>> /\ clock = 1
    /\ inbox = {} /\ read = {} /\ overlapped = {} /\ cut = {}
    /\ channel \in BOOLEAN
    /\ scroll = NoScroll

PostNext ==
    \E p \in Procs :
        \/ PostWs(p) \/ PostRest(p)
        \/ \E m \in Videos, base \in Names : PostVideo(p, m, base)
        \/ Insert(p) \/ Recipients(p) \/ PostFile(p) \/ PostRow(p) \/ PostAttach(p)

ChangeNext ==
    \E p \in Procs :
        \/ \E x \in Ids : \/ EditRead(p, x) \/ DeleteRead(p, x)
                          \/ UpdateRead(p, x) \/ DestroyRead(p, x)
        \/ EditSave(p) \/ DeleteSave(p) \/ FullSave(p)
        \/ PurgeStart(p) \/ PurgeList(p) \/ PurgeBatch(p) \/ PurgeFails(p)

ReaderNext ==
    \/ \E p \in Procs :
          \/ \E x \in Ids, kind \in Kinds : ReactWs(p, x, kind) \/ ReactRest(p, x, kind)
          \/ ReactFind(p) \/ ReactCount(p) \/ Unreact(p) \/ DropOldest(p) \/ ReactCreate(p)
    \/ \E x \in Ids : View(x)
    \/ \E way \in {"older", "messages"} : ScrollStart(way, 0)
    \/ \E cursor \in Ids : ScrollStart("newer", cursor)
    \/ OlderPage \/ NewerPage \/ MessagesPage

Next ==
    \/ PostNext \/ ChangeNext \/ ReaderNext
    \/ MediaNext /\ UNCHANGED messageVars
    \/ \E p \in Procs : MessageCrash(p)

Spec == Init /\ [][Next]_vars

-----------------------------------------------------------------------------
(* What the messages promise.                                              *)

\* Well-typed; only recipients have viewed a message; nobody has more than MaxReactions
\* reactions to one, unless two of their requests reacted to it at once; and a message
\* that is there, however it came back, has its recipients, unless the request that
\* inserts it is still at it or has died (set_user_reaction, create_message_recipients).
WellFormed ==
    /\ MediaTypeOK
    /\ msgs \in Seq(Message)
    /\ read \subseteq inbox /\ inbox \cup overlapped \cup cut \subseteq Ids
    /\ \A x \in Ids \ overlapped : Len(msgs[x].marks) <= MaxReactions
    /\ \A x \in Ids \ (inbox \cup cut) :
           msgs[x].there => \E q \in Procs : pc[q] = "recipients" /\ req[q].x = x

\* A message that its author deleted is never shown again, whatever edits, updates,
\* purges and late saves of the same message are under way.  Excused (disputed) are
\* messages deleted while another request was about to save the whole row as it was
\* before: such a save brings them back (delete_message, destroy, update, create).
DeletedStaysDeleted ==
    \A x \in Ids : msgs[x].fate = "erased" => ~Live(x)

\* Who pages through a chat to the end, either way, has got every message that was
\* there when they began and that nobody has deleted since.  get_chat_service.py, lines
\* 49 and 50: the pages are of the messages "older than this (smaller id)", or newer.
AllSeen == {x \in scroll.owed : msgs[x].fate = "kept"} \subseteq scroll.got
ScrollSeesAll == scroll.done /\ scroll.way # "messages" => AllSeen

\* As long as the ids of the messages follow their dates, which they may not when two are
\* posted at once, every way of paging through the chat shows all its messages, deleted
\* ones and new ones apart (get_chat_for_user, GetMessagesAPIView).
InDateOrder == \A x, y \in Ids : x < y => msgs[x].stamp < msgs[y].stamp
ScrollSeesAllInOrder == scroll.done /\ InDateOrder => AllSeen
=============================================================================
