-------------------------------- MODULE MediaFiles --------------------------------
(***************************************************************************)
(* Stored videos and their compression, and the pictures of a profile.     *)
(*                                                                         *)
(* A VideoFile is attached to a message (Messages); DisplayPhoto and       *)
(* DisplayVideo rows are the pictures of one profile, of which one is      *)
(* primary.  A Celery task, queued when a video's row is made, transcodes  *)
(* it to a temporary file, removes the original from the storage, stores   *)
(* the result under the name the storage then has free, and saves the row. *)
(*                                                                         *)
(* Every ORM call and every call of the storage is a step of its own.      *)
(* Dimensions, thumbnails and waveforms are left out.  A storage name is   *)
(* its directory (DisplayVideo's has the date in it), the name the user    *)
(* gave and, when that was taken, a suffix nothing else has: the medium's. *)
(*                                                                         *)
(* A definition whose name begins with Mut is the faulty form of the one   *)
(* after it: no specification uses it, it shows which property would fail. *)
(***************************************************************************)
EXTENDS Naturals, Sequences, FiniteSets

CONSTANTS
    Videos,      \* VideoFile rows there may be
    Photos,      \* DisplayPhoto rows
    Clips,       \* DisplayVideo rows
    Names,       \* the names users give their files
    Procs,       \* web threads and Celery workers
    MaxRetries,  \* max_retries of compress_video_task
    Sorts,       \* sorts of requests and events, see Spend
    Budgets      \* bound: how many of each sort a behaviour may have

Pictures == Photos \cup Clips
Media == Videos \cup Pictures

ASSUME KindsAssumption == Videos \cap Pictures = {} /\ Photos \cap Clips = {}
ASSUME NobodyAssumption == "none" \notin Media
ASSUME NamesAssumption == Names # {}
ASSUME RetriesAssumption == MaxRetries \in Nat
ASSUME BudgetsAssumption == Budgets \subseteq [Sorts -> Nat]

VARIABLES
    row,      \* row[m]: "none" before INSERT, "there", "gone" after DELETE
    path,     \* path[m]: the storage name in the row
    primary,  \* primary[m]: is_primary of a picture
    disk,     \* the storage: files, each with its name and the medium it shows
    queue,    \* the media with a compression in the Celery queue
    tries,    \* tries[m]: retries of m's compression so far
    today,    \* the date that goes into a DisplayVideo's directory
    hurt,     \* videos that a fault, or another one of the same name, has left without file
    chosen,   \* the picture that was last made or set primary
    mixed,    \* requests that save pictures got in one another's or a task's way
    pc,       \* pc[p]: the next statement of p's handler or task
    req,      \* req[p]: its local variables
    left      \* left[k]: how many more requests or events of sort k may begin

stored == <<row, path, disk, today, hurt>>
pictures == <<primary, chosen, mixed>>
tasks == <<queue, tries>>
proc == <<pc, req, left>>
mediaVars == <<stored, pictures, tasks, proc>>

Days == {"monday", "tuesday"}
Paths == [dir : Days \cup {"files"}, base : Names, own : Media \cup {"none"}]
NoPath == [dir |-> "files", base |-> CHOOSE n \in Names : TRUE, own |-> "none"]
There(m) == row[m] = "there"

\* get_available_name: the name asked for, or one with a suffix of its own.
Taken(x) == \E f \in disk : f.at = x
StoredAs(m, x) == IF Taken(x) THEN [x EXCEPT !.own = m] ELSE x
Without(x) == {f \in disk : f.at # x}

-----------------------------------------------------------------------------
(* What the steps of handlers and tasks are made of.                       *)

\* Of a task or a request for media: the medium, its storage name and whose film
\* that shows, is_primary as read or set, the saves of the picture still to do.  Of a
\* request for Messages: the message, its date, deleted_at as read or set, the
\* messages to purge, the reaction.  via tells apart the callers of common steps.
NoRequest == [m |-> "none", path |-> NoPath, of |-> "none", flag |-> FALSE,
              rounds |-> <<>>, x |-> 0, at |-> 0, deleted |-> FALSE, todo |-> {},
              kind |-> "none", via |-> "web"]

Spend(k) == left[k] > 0 /\ left' = [left EXCEPT ![k] = @ - 1]

GoWith(p, label, r) ==
    /\ pc' = [pc EXCEPT ![p] = label]
    /\ req' = [req EXCEPT ![p] = r]

Goto(p, label) == GoWith(p, label, req[p]) /\ UNCHANGED left
Finish(p) == GoWith(p, "idle", NoRequest) /\ UNCHANGED left

Begin(p, k, label, r) == pc[p] = "idle" /\ Spend(k) /\ GoWith(p, label, r)

InHand(m) == \E q \in Procs : pc[q] # "idle" /\ req[q].m = m

\* A request saves a picture; a compression holds an is_primary that a save of m
\* makes out of date.
Requesting == \E q \in Procs : /\ pc[q] # "idle" /\ req[q].via = "web"
                               /\ req[q].m \in Pictures
StaleTask(m) == \E q \in Procs : /\ pc[q] # "idle" /\ req[q].via = "task"
                                 /\ req[q].m \in Clips /\ (req[q].m = m \/ req[q].flag)

-----------------------------------------------------------------------------
(* Compressing a video.                                                    *)

\* A row is made for a video that is in the storage; its compression is queued.
StoreVideo(m, x) ==
    /\ row[m] = "none"
    /\ row' = [row EXCEPT ![m] = "there"]
    /\ path' = [path EXCEPT ![m] = StoredAs(m, x)]
    /\ disk' = disk \cup {[at |-> StoredAs(m, x), of |-> m]}
    /\ queue' = queue \cup {m}
    /\ UNCHANGED <<today, hurt, tries>>

\* A worker takes the task and reads the row; is_primary is read with it.
Take(w, m) ==
    /\ pc[w] = "idle"
    /\ m \in queue /\ There(m)
    /\ queue' = queue \ {m}
    /\ GoWith(w, "encode", [NoRequest EXCEPT !.m = m, !.path = path[m], !.via = "task",
                                             !.flag = m \in Clips /\ primary[m]])
    /\ mixed' = (mixed \/ (m \in Clips /\ Requesting))
    /\ UNCHANGED <<stored, primary, chosen, tries, left>>

\* No such row: the task fails, and so does every retry.
TakeStale(m) ==
    /\ m \in queue /\ ~There(m)
    /\ queue' = queue \ {m}
    /\ UNCHANGED <<stored, pictures, tries, proc>>

\* ffmpeg reads what is stored under the name, whosever it is by now ...
Encode(w) ==
    /\ pc[w] = "encode"
    /\ \E f \in disk : /\ f.at = req[w].path
                       /\ GoWith(w, "drop", [req[w] EXCEPT !.of = f.of])
                       /\ hurt' = IF f.of = req[w].m THEN hurt ELSE hurt \cup {req[w].m}
    /\ UNCHANGED <<row, path, disk, today, pictures, tasks, left>>

\* A task that fails marks a DisplayVideo as failed: its row is read and saved.
MarkFailed(w) ==
    LET m == req[w].m
        marks == m \in Clips /\ There(m)
    IN  /\ IF marks
           THEN GoWith(w, "row", [req[w] EXCEPT !.flag = primary[m], !.rounds = <<"part">>])
           ELSE GoWith(w, "idle", NoRequest)
        /\ mixed' = (mixed \/ (marks /\ Requesting))
        /\ UNCHANGED <<primary, chosen>>

\* ... or fails for want of it, and the task ends as skipped.
Skip(w) ==
    /\ pc[w] = "encode"
    /\ ~Taken(req[w].path)
    /\ MarkFailed(w)
    /\ UNCHANGED <<stored, tasks, left>>

\* Others than m whose film goes when the file named x is removed for m.
Robbed(x, m) == {f.of : f \in {f \in disk : f.at = x}} \ {m}

\* The original is removed ...
Drop(w) ==
    /\ pc[w] = "drop"
    /\ disk' = Without(req[w].path)
    /\ hurt' = hurt \cup Robbed(req[w].path, req[w].m)
    /\ Goto(w, "store")
    /\ UNCHANGED <<row, path, today, pictures, tasks>>

\* ... the result is stored, under the same name if it is still free and, with a
\* date in it, the date is still the same ...
Store(w) ==
    LET m == req[w].m
        want == IF m \in Clips THEN [req[w].path EXCEPT !.dir = today] ELSE req[w].path
    IN  /\ pc[w] = "store"
        /\ disk' = disk \cup {[at |-> StoredAs(m, want), of |-> req[w].of]}
        /\ GoWith(w, "record", [req[w] EXCEPT !.path = StoredAs(m, want)])
        /\ UNCHANGED <<row, path, today, hurt, pictures, tasks, left>>

MutRecord(w) ==
    LET m == req[w].m
    IN  /\ pc[w] = "record"
        /\ IF m \in Clips
           THEN /\ GoWith(w, "row", [req[w] EXCEPT !.rounds = <<"part">>])
                /\ UNCHANGED left
           ELSE Finish(w)
        /\ UNCHANGED <<stored, pictures, tasks>>
\* ... and the row saved: with the name of the file for a VideoFile, but without it
\* (status alone) for a DisplayVideo.  A row that is gone leaves the file behind.
Record(w) ==
    LET m == req[w].m
    IN  /\ pc[w] = "record"
        /\ IF m \in Clips
           THEN /\ GoWith(w, "row", [req[w] EXCEPT !.rounds = <<"part">>])
                /\ hurt' = IF path[m] = req[w].path THEN hurt ELSE hurt \cup {m}
                /\ UNCHANGED <<left, path>>
           ELSE /\ path' = IF There(m) THEN [path EXCEPT ![m] = req[w].path] ELSE path
                /\ Finish(w)
                /\ UNCHANGED hurt
        /\ UNCHANGED <<row, disk, today, pictures, tasks>>

\* Stopped now, p's compression leaves the row with a name under which its film is
\* not stored.
Bereft(p) == pc[p] = "store" \/ (pc[p] = "record" /\ req[p].path # path[req[p].m])

\* The time limit is over, the storage refuses the result, or the database the save of
\* the row: the task is tried again, as often as it may.
TaskFails(w) ==
    LET m == req[w].m
        again == tries[m] < MaxRetries
    IN  /\ pc[w] \in {"encode", "drop", "store", "record"}
        /\ Spend("fault")
        /\ hurt' = IF Bereft(w) THEN hurt \cup {m} ELSE hurt
        /\ tries' = IF again THEN [tries EXCEPT ![m] = @ + 1] ELSE tries
        /\ queue' = IF again THEN queue \cup {m} ELSE queue
        /\ MarkFailed(w)
        /\ UNCHANGED <<row, path, disk, today>>

-----------------------------------------------------------------------------
(* The pictures of a profile: every save of one is a chain of saves.       *)

\* A request that saves the picture m begins.
BeginPicture(p, m, flag, rounds, base) ==
    /\ Begin(p, "picture", "row",
             [NoRequest EXCEPT !.m = m, !.flag = flag, !.rounds = rounds,
                               !.path = [dir |-> today, base |-> base, own |-> "none"]])
    /\ mixed' = (mixed \/ Requesting \/ StaleTask(m))
    /\ UNCHANGED <<stored, primary, chosen, tasks>>

\* DisplayMediaCreateSerializer.create: a photo is made primary, a clip only if asked
\* for; asking makes for a second save.  A photo is saved in part after each save, for
\* its thumbnails.
CreatePhoto(p, m, base, asked) ==
    /\ row[m] = "none" /\ ~InHand(m)
    /\ BeginPicture(p, m, TRUE, IF asked THEN <<"new", "part", "full", "part">>
                                ELSE <<"new", "part">>, base)
CreateClip(p, m, base, asked) ==
    /\ row[m] = "none" /\ ~InHand(m)
    /\ BeginPicture(p, m, FALSE, IF asked THEN <<"new", "full">> ELSE <<"new">>, base)

\* set_primary of the viewset: the row is read, and saved whole as primary.
SetPrimary(p, m) ==
    /\ There(m)
    /\ BeginPicture(p, m, TRUE, IF m \in Photos THEN <<"full", "part">> ELSE <<"full">>,
                    path[m].base)

\* destroy of the viewset: the row goes, its file stays.
Destroy(m) ==
    /\ There(m)
    /\ Spend("picture")
    /\ row' = [row EXCEPT ![m] = "gone"]
    /\ primary' = [primary EXCEPT ![m] = FALSE]
    /\ chosen' = IF chosen = m THEN "none" ELSE chosen
    /\ mixed' = (mixed \/ Requesting)
    /\ UNCHANGED <<path, disk, today, hurt, tasks, pc, req>>

\* DisplayMedia.save, the first save: an INSERT; all columns, which inserts a row that
\* is gone again; or some, which fails without a row.
SaveRow(p) ==
    LET m == req[p].m
        kind == Head(req[p].rounds)
        flag == req[p].flag \/ kind = "full"
    IN  /\ pc[p] = "row"
        /\ IF kind = "part" /\ ~There(m)
           THEN Finish(p) /\ UNCHANGED <<stored, primary, tasks>>
           ELSE /\ IF kind = "new" /\ m \in Clips
                   THEN StoreVideo(m, req[p].path)
                   ELSE /\ row' = [row EXCEPT ![m] = "there"]
                        /\ queue' = IF m \in Clips /\ ~There(m) THEN queue \cup {m} ELSE queue
                        /\ UNCHANGED <<path, disk, today, hurt, tries>>
                /\ primary' = IF kind = "part" THEN primary ELSE [primary EXCEPT ![m] = flag]
                /\ GoWith(p, IF kind = "new" THEN "ensure" ELSE "unset",
                          [req[p] EXCEPT !.flag = flag])
                /\ UNCHANGED left
        /\ UNCHANGED <<chosen, mixed>>

\* ensure_primary_if_needed, for a new row: primary if there is no other.
Ensure(p) ==
    /\ pc[p] = "ensure"
    /\ GoWith(p, "unset", [req[p] EXCEPT !.flag = @ \/ ~\E k \in Pictures : primary[k]])
    /\ UNCHANGED <<stored, pictures, tasks, left>>

MutUnset(p) ==
    /\ pc[p] = "unset"
    /\ Goto(p, "flag")
    /\ UNCHANGED <<stored, pictures, tasks>>
\* set_primary of the models: no other picture is primary any more ...
Unset(p) ==
    LET m == req[p].m
    IN  /\ pc[p] = "unset"
        /\ primary' = IF req[p].flag THEN [k \in Pictures |-> k = m /\ primary[k]] ELSE primary
        /\ Goto(p, "flag")
        /\ UNCHANGED <<stored, chosen, mixed, tasks>>

\* ... and is_primary is saved once more, if there is a row.
SaveFlag(p) ==
    LET m == req[p].m
        more == Tail(req[p].rounds)
    IN  /\ pc[p] = "flag"
        /\ primary' = IF There(m) THEN [primary EXCEPT ![m] = req[p].flag] ELSE primary
        /\ chosen' = IF req[p].flag /\ req[p].via = "web" THEN m ELSE chosen
        /\ IF There(m) /\ more # <<>>
           THEN GoWith(p, "row", [req[p] EXCEPT !.rounds = more]) /\ UNCHANGED left
           ELSE Finish(p)
        /\ UNCHANGED <<stored, mixed, tasks>>

-----------------------------------------------------------------------------
Midnight ==
    /\ today = "monday"
    /\ Spend("clock")
    /\ today' = "tuesday"
    /\ UNCHANGED <<row, path, disk, hurt, pictures, tasks, pc, req>>

\* A web thread or a worker dies.  A task it had is lost.
Crash(p) ==
    LET m == req[p].m
    IN  /\ pc[p] # "idle"
        /\ left["crash"] > 0 /\ left' = [left EXCEPT !["crash"] = @ - 1]
        /\ GoWith(p, "idle", NoRequest)
        /\ hurt' = IF Bereft(p) THEN hurt \cup {m} ELSE hurt
        /\ mixed' = (mixed \/ (m \in Pictures /\ req[p].via = "web"))
        /\ UNCHANGED <<row, path, disk, today, primary, chosen, tasks>>

MediaInit ==
    /\ row = [m \in Media |-> "none"]
    /\ path = [m \in Media |-> NoPath]
    /\ primary = [m \in Pictures |-> FALSE]
    /\ disk = {} /\ queue = {} /\ hurt = {}
    /\ tries = [m \in Media |-> 0]
    /\ today = "monday"
    /\ chosen = "none" /\ mixed = FALSE
    /\ pc = [p \in Procs |-> "idle"]
    /\ req = [p \in Procs |-> NoRequest]
    /\ left \in Budgets

MediaNext ==
    \/ \E p \in Procs :
          \/ \E m \in Videos \cup Clips : Take(p, m)
          \/ Encode(p) \/ Skip(p) \/ Drop(p) \/ Store(p) \/ Record(p) \/ TaskFails(p)
          \/ \E base \in Names, asked \in BOOLEAN :
                \/ \E m \in Photos : CreatePhoto(p, m, base, asked)
                \/ \E m \in Clips : CreateClip(p, m, base, asked)
          \/ \E m \in Pictures : SetPrimary(p, m)
          \/ SaveRow(p) \/ Ensure(p) \/ Unset(p) \/ SaveFlag(p)
    \/ \E m \in Videos \cup Clips : TakeStale(m)
    \/ \E m \in Pictures : Destroy(m)
    \/ Midnight

-----------------------------------------------------------------------------
(* What the media promise.                                                 *)

MediaTypeOK ==
    /\ row \in [Media -> {"none", "there", "gone"}]
    /\ path \in [Media -> Paths]
    /\ primary \in [Pictures -> BOOLEAN]
    /\ disk \subseteq [at : Paths, of : Media]
    /\ queue \cup hurt \subseteq Videos \cup Clips
    /\ tries \in [Media -> 0..MaxRetries]
    /\ chosen \in Pictures \cup {"none"}
    /\ left \in [Sorts -> Nat]

\* A video whose row is there has its own film in the storage, under the name in the
\* row, whenever no compression of it is under way: however uploads of the same name,
\* compressions and purges take turns at freeing and taking names.  Excused (hurt) are
\* videos a fault or a crash has left between the removal of the original and the save
\* of the row, clips stored under another name than their row keeps, videos whose film
\* was removed on behalf of another one, which had had the name before, and clips of
\* which a second compression found another one's film under that name
\* (compress_video_sync, delete_orphan_message_files).
VideoKeepsFile ==
    \A m \in (Videos \cup Clips) \ hurt :
        There(m) /\ ~InHand(m) => [at |-> path[m], of |-> m] \in disk

\* Between requests the one primary picture is the one that was last made or set so,
\* or there is none if that one was destroyed, whatever compressions of clips save in
\* the meantime.  Excused (mixed) once a request was under way together with another
\* one, or with a compression that had read the clip it saves or one that was primary,
\* or died (DisplayMedia.save, set_primary, ensure_primary_if_needed).
SavingPicture == {"row", "ensure", "unset", "flag"}
PrimaryIsLastChosen ==
    ~mixed /\ (\A q \in Procs : pc[q] \notin SavingPicture) =>
        {m \in Pictures : primary[m]} = {chosen} \ {"none"}
=============================================================================
