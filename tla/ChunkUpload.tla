------------------------------ MODULE ChunkUpload ------------------------------
(***************************************************************************)
(* Uploading a message's attachments in parts.                             *)
(*                                                                         *)
(* An upload session is a directory: meta.json, a file per part, and for a *)
(* while _merged.bin.  A bundle request names the uploads of one message;  *)
(* a thread per upload (ThreadPoolExecutor) puts its parts together in     *)
(* _merged.bin, saves that to the protected storage and removes the        *)
(* directory; then the message is created and the files attached.  Nothing *)
(* locks the directory: part requests and bundles that name the same       *)
(* upload interleave file operation by file operation.                     *)
(*                                                                         *)
(* A file that was opened lives on when its name is removed, so what       *)
(* _merged.bin holds is kept by inode; an inode has the name of the job    *)
(* that created it.  The model is of one user's uploads to one chat.       *)
(*                                                                         *)
(* A definition whose name begins with Mut is the faulty form of the one   *)
(* after it: no specification uses it, it shows which property would fail. *)
(***************************************************************************)
EXTENDS Naturals, Sequences, FiniteSets

CONSTANTS
    Uploads,      \* upload ids
    ChunkCount,   \* chunk_count of every upload
    Senders,      \* threads that serve part requests
    Requests,     \* bundle requests
    Bundles,      \* Bundles[r]: the lists of upload ids that request r may name
    MaxFaults     \* bound: processes that die in mid-request, and calls that raise

ASSUME ChunkCountAssumption == ChunkCount \in Nat \ {0}
ASSUME FaultsAssumption == MaxFaults \in Nat
ASSUME BundlesAssumption ==
    \A r \in Requests : \A b \in Bundles[r] : b \in Seq(Uploads) /\ Len(b) > 0

VARIABLES
    dir,         \* dir[u]: is the session's directory "none", "there" or "removed"?
    part,        \* part[u][i]: the part's file is "none", "cut" (opened, empty) or "whole"
    name,        \* name[u]: the inode that is called _merged.bin, or NoFile
    inode,       \* inode[j][n]: the part whose bytes are n-th in the file job j created, or Hole
    writing,     \* writing[s]: the part whose file thread s has open, or Nothing
    bundle,      \* bundle[r]: the upload ids that request r names, <<>> before it comes
    pc,          \* pc[r]: the next statement of the request
    step,        \* step[j]: the next statement of merge job j
    pos,         \* pos[j]: the part the job is at
    exact,       \* exact[j]: do the sizes looked up so far add up?
    fd,          \* fd[j]: the inode the job writes to
    offset,      \* offset[j]: and where in it
    saved,       \* saved[j], the file in the storage: "none", "whole", "broken" (whose bytes
                 \* are not the parts'), "cut" (by a save that raised), or "deleted"
    kept,        \* kept[r]: merged_by_uid, the jobs whose files r goes on with
    attached,    \* attached[r]: the jobs whose files are attached to r's message
    disturbed,   \* history: jobs during which somebody else worked on their upload
    botched,     \* history: jobs whose file the storage failed to save or to delete
    faults

vars == <<dir, part, name, inode, writing, bundle, pc, step, pos, exact, fd, offset,
          saved, kept, attached, disturbed, botched, faults>>

Parts == 1..ChunkCount
Slots(r) == UNION {DOMAIN b : b \in Bundles[r]}
Jobs == UNION {{r} \X Slots(r) : r \in Requests}  \* <<r, i>>: merges the i-th of r's uploads
NoFile == <<>>
Nothing == <<>>
Hole == 0
EmptyFile == [n \in Parts |-> Hole]
WholeFile == [n \in Parts |-> n]

JobsOf(r) == {<<r, i>> : i \in DOMAIN bundle[r]}
UploadOf(j) == bundle[j[1]][j[2]]
Running == {"start", "size", "copy", "compare", "save", "unlink", "rmtree"}
Ended == {"merged", "failed"}

TypeOK ==
    /\ dir \in [Uploads -> {"none", "there", "removed"}]
    /\ part \in [Uploads -> [Parts -> {"none", "cut", "whole"}]]
    /\ name \in [Uploads -> Jobs \cup {NoFile}]
    /\ \A u \in Uploads : dir[u] # "there" =>
          name[u] = NoFile /\ part[u] = [i \in Parts |-> "none"]
    /\ inode \in [Jobs -> [Parts -> Parts \cup {Hole}]]
    /\ writing \in [Senders -> (Uploads \X Parts) \cup {Nothing}]
    /\ \A r \in Requests : bundle[r] \in Bundles[r] \cup {<<>>}
    /\ pc \in [Requests -> {"new", "merge", "create", "attach", "ok", "error", "raised", "dead"}]
    /\ step \in [Jobs -> Running \cup Ended \cup {"none"}]
    /\ pos \in [Jobs -> 1..(ChunkCount + 1)]
    /\ exact \in [Jobs -> BOOLEAN]
    /\ fd \in [Jobs -> Jobs \cup {NoFile}]
    /\ offset \in [Jobs -> 1..(ChunkCount + 1)]
    /\ saved \in [Jobs -> {"none", "whole", "broken", "cut", "deleted"}]
    /\ \A r \in Requests : attached[r] \subseteq kept[r] /\ kept[r] \subseteq JobsOf(r)
    /\ disturbed \subseteq Jobs /\ botched \subseteq Jobs
    /\ faults \in Nat

Init ==
    /\ dir = [u \in Uploads |-> "none"]
    /\ part = [u \in Uploads |-> [i \in Parts |-> "none"]]
    /\ name = [u \in Uploads |-> NoFile]
    /\ inode = [j \in Jobs |-> EmptyFile]
    /\ writing = [s \in Senders |-> Nothing]
    /\ bundle = [r \in Requests |-> <<>>]
    /\ pc = [r \in Requests |-> "new"]
    /\ step = [j \in Jobs |-> "none"]
    /\ pos = [j \in Jobs |-> 1]
    /\ exact = [j \in Jobs |-> TRUE]
    /\ fd = [j \in Jobs |-> NoFile]
    /\ offset = [j \in Jobs |-> 1]
    /\ saved = [j \in Jobs |-> "none"]
    /\ kept = [r \in Requests |-> {}]
    /\ attached = [r \in Requests |-> {}]
    /\ disturbed = {} /\ botched = {}
    /\ faults = 0

files == <<dir, part, name, inode>>
jobVars == <<step, pos, exact, fd, offset, saved>>
requestVars == <<bundle, pc, kept, attached>>

Merging(u) == {j \in Jobs : step[j] \in Running /\ UploadOf(j) = u}
Sending(u) == {s \in Senders : writing[s] # Nothing /\ writing[s][1] = u}

-----------------------------------------------------------------------------
(* chunk_init_service and chunk_part_service.                              *)

\* The id is told to the client after meta.json is written.
InitUpload(u) ==
    /\ dir[u] = "none"
    /\ dir' = [dir EXCEPT ![u] = "there"]
    /\ UNCHANGED <<part, name, inode, writing, jobVars, requestVars, disturbed, botched, faults>>

\* meta.json is there and names the user, and the index is in range: the part's file is
\* opened, and emptied if it was sent before.  (If the directory goes in between, the
\* open raises, which leaves what a refused part leaves.)
PartOpen(s, u, i) ==
    /\ writing[s] = Nothing
    /\ dir[u] = "there"
    /\ part' = [part EXCEPT ![u][i] = "cut"]
    /\ writing' = [writing EXCEPT ![s] = <<u, i>>]
    /\ disturbed' = disturbed \cup Merging(u)
    /\ UNCHANGED <<dir, name, inode, jobVars, requestVars, botched, faults>>

\* The part is there again although its directory has gone.
MutPartWrite(s) ==
    LET u == writing[s][1]
        i == writing[s][2] IN
    /\ writing[s] # Nothing
    /\ part' = [part EXCEPT ![u][i] = "whole"]
    /\ writing' = [writing EXCEPT ![s] = Nothing]
    /\ UNCHANGED <<dir, name, inode, jobVars, requestVars, disturbed, botched, faults>>

\* The bytes are written and the part is answered ok, even if the file has lost its
\* name meanwhile.
PartWrite(s) ==
    LET u == writing[s][1]
        i == writing[s][2] IN
    /\ writing[s] # Nothing
    /\ part' = IF dir[u] = "there" THEN [part EXCEPT ![u][i] = "whole"] ELSE part
    /\ writing' = [writing EXCEPT ![s] = Nothing]
    /\ UNCHANGED <<dir, name, inode, jobVars, requestVars, disturbed, botched, faults>>

-----------------------------------------------------------------------------
(* chunk_bundle_complete_service, up to the merges.  The pool runs at most  *)
(* four jobs at a time, which no bundle here would notice.                  *)

ChunksComplete(u) == dir[u] = "there" /\ \A i \in Parts : part[u][i] # "none"

\* The user may post in the chat and each upload passes _session_chunks_complete: a
\* job for each is submitted.
BundleBegin(r, b) ==
    LET mine == {<<r, i>> : i \in DOMAIN b}
        on(u) == {j \in mine : b[j[2]] = u} IN
    /\ pc[r] = "new"
    /\ bundle' = [bundle EXCEPT ![r] = b]
    /\ IF \A i \in DOMAIN b : ChunksComplete(b[i])
       THEN /\ pc' = [pc EXCEPT ![r] = "merge"]
            /\ step' = [j \in Jobs |-> IF j \in mine THEN "start" ELSE step[j]]
            /\ disturbed' = disturbed \cup UNION {on(u) \cup Merging(u) :
                 u \in {v \in Uploads : on(v) # {} /\
                          (Sending(v) # {} \/ Cardinality(on(v) \cup Merging(v)) > 1)}}
       ELSE /\ pc' = [pc EXCEPT ![r] = "error"]
            /\ UNCHANGED <<step, disturbed>>
    /\ UNCHANGED <<files, writing, pos, exact, fd, offset, saved, kept, attached, botched,
                   faults>>

-----------------------------------------------------------------------------
(* _merge_session_to_storage, one job.                                     *)

\* The jobs' results are these; their local variables are gone.
Results(J, how) ==
    /\ step' = [j \in Jobs |-> IF j \in J THEN how ELSE step[j]]
    /\ pos' = [j \in Jobs |-> IF j \in J THEN 1 ELSE pos[j]]
    /\ exact' = [j \in Jobs |-> j \in J \/ exact[j]]
    /\ fd' = [j \in Jobs |-> IF j \in J THEN NoFile ELSE fd[j]]
    /\ offset' = [j \in Jobs |-> IF j \in J THEN 1 ELSE offset[j]]

Fail(j) == Results({j}, "failed")

\* meta.json is read and _merged.bin opened for writing: a new file, or the one that
\* is there, emptied.
JobOpen(j) ==
    LET u == UploadOf(j) IN
    /\ step[j] = "start"
    /\ IF dir[u] = "there"
       THEN LET f == IF name[u] = NoFile THEN j ELSE name[u] IN
            /\ name' = [name EXCEPT ![u] = f]
            /\ inode' = [inode EXCEPT ![f] = EmptyFile]
            /\ fd' = [fd EXCEPT ![j] = f]
            /\ step' = [step EXCEPT ![j] = "size"]
            /\ UNCHANGED <<pos, exact, offset>>
       ELSE Fail(j) /\ UNCHANGED <<name, inode>>
    /\ UNCHANGED <<dir, part, writing, saved, requestVars, disturbed, botched, faults>>

\* The part is there, and how large is it?
JobSize(j) ==
    LET u == UploadOf(j) IN
    /\ step[j] = "size"
    /\ IF part[u][pos[j]] # "none"
       THEN /\ exact' = [exact EXCEPT ![j] = @ /\ part[u][pos[j]] = "whole"]
            /\ step' = [step EXCEPT ![j] = "copy"]
            /\ UNCHANGED <<pos, fd, offset>>
       ELSE Fail(j)
    /\ UNCHANGED <<files, writing, saved, requestVars, disturbed, botched, faults>>

\* Its bytes, as they are by now, are copied to where the job has come to; what may
\* be there of a part that is being written counts as nothing.  Opening it raises if
\* it is gone.
JobCopy(j) ==
    LET u == UploadOf(j)
        i == pos[j] IN
    /\ step[j] = "copy"
    /\ IF part[u][i] = "none" THEN Fail(j) /\ UNCHANGED inode
       ELSE /\ IF part[u][i] = "whole"
               THEN /\ inode' = [inode EXCEPT ![fd[j]][offset[j]] = i]
                    /\ offset' = [offset EXCEPT ![j] = @ + 1]
               ELSE UNCHANGED <<inode, offset>>
            /\ pos' = [pos EXCEPT ![j] = i + 1]
            /\ step' = [step EXCEPT ![j] = IF i = ChunkCount THEN "compare" ELSE "size"]
            /\ UNCHANGED <<exact, fd>>
    /\ UNCHANGED <<dir, part, name, writing, saved, requestVars, disturbed, botched, faults>>

\* The sum is not looked at.
MutJobCompare(j) ==
    /\ step[j] = "compare"
    /\ step' = [step EXCEPT ![j] = "save"]
    /\ UNCHANGED <<files, writing, pos, exact, fd, offset, saved, requestVars, disturbed,
                   botched, faults>>

\* written against total_size; on a mismatch whatever is called _merged.bin is removed.
JobCompare(j) ==
    /\ step[j] = "compare"
    /\ IF exact[j]
       THEN step' = [step EXCEPT ![j] = "save"] /\ UNCHANGED <<name, pos, exact, fd, offset>>
       ELSE Fail(j) /\ name' = [name EXCEPT ![UploadOf(j)] = NoFile]
    /\ UNCHANGED <<dir, part, inode, writing, saved, requestVars, disturbed, botched, faults>>

\* _merged.bin is opened again, by name, and saved to the storage as it is by now.
JobSave(j) ==
    LET f == name[UploadOf(j)] IN
    /\ step[j] = "save"
    /\ IF f # NoFile
       THEN /\ saved' = [saved EXCEPT ![j] = IF inode[f] = WholeFile THEN "whole" ELSE "broken"]
            /\ step' = [step EXCEPT ![j] = "unlink"]
            /\ UNCHANGED <<pos, exact, fd, offset>>
       ELSE Fail(j) /\ UNCHANGED saved
    /\ UNCHANGED <<files, writing, requestVars, disturbed, botched, faults>>

\* The storage has no room, say: what it has written of the file may stay there, and
\* the exception is the job's result.
JobSaveRaises(j) ==
    /\ step[j] = "save"
    /\ faults < MaxFaults
    /\ faults' = faults + 1
    /\ \E what \in {"none", "cut"} : saved' = [saved EXCEPT ![j] = what]
    /\ botched' = botched \cup {j}
    /\ Fail(j)
    /\ UNCHANGED <<files, writing, requestVars, disturbed>>

\* os.remove(merged_tmp), whoever's it is by now.
JobUnlink(j) ==
    /\ step[j] = "unlink"
    /\ name' = [name EXCEPT ![UploadOf(j)] = NoFile]
    /\ step' = [step EXCEPT ![j] = "rmtree"]
    /\ UNCHANGED <<dir, part, inode, writing, pos, exact, fd, offset, saved, requestVars,
                   disturbed, botched, faults>>

\* The directory is left where it is.
MutJobRmtree(j) ==
    /\ step[j] = "rmtree"
    /\ Results({j}, "merged")
    /\ UNCHANGED <<files, writing, saved, requestVars, disturbed, botched, faults>>

\* rmtree of the session, errors ignored.
JobRmtree(j) ==
    LET u == UploadOf(j) IN
    /\ step[j] = "rmtree"
    /\ dir' = [dir EXCEPT ![u] = "removed"]
    /\ part' = [part EXCEPT ![u] = [i \in Parts |-> "none"]]
    /\ name' = [name EXCEPT ![u] = NoFile]
    /\ Results({j}, "merged")
    /\ UNCHANGED <<inode, writing, saved, requestVars, disturbed, botched, faults>>

Merge(j) ==
    \/ JobOpen(j) \/ JobSize(j) \/ JobCopy(j) \/ JobCompare(j)
    \/ JobSave(j) \/ JobSaveRaises(j) \/ JobUnlink(j) \/ JobRmtree(j)

-----------------------------------------------------------------------------
(* chunk_bundle_complete_service, after the merges.                        *)

Merged(r) == {j \in JobsOf(r) : step[j] = "merged"}

\* merged_by_uid: of two jobs on one upload the one that ended last counts.
ByUid(r, M) ==
    /\ M \subseteq Merged(r)
    /\ \A j, k \in M : UploadOf(j) = UploadOf(k) => j = k
    /\ {UploadOf(j) : j \in M} = {UploadOf(j) : j \in Merged(r)}

\* A bundle fails only when nothing could be merged.
MutFailed(r) == Merged(r) = {}
Failed(r) == \E j \in JobsOf(r) : step[j] = "failed"

\* The files that were merged stay in the storage.
MutDiscard(M) == UNCHANGED <<saved, botched, faults>>
\* protected_storage.delete for what was merged; where it raises, the exception is
\* passed over and the file stays.
Discard(M) ==
    \E stuck \in SUBSET M :
        /\ stuck # {} => faults < MaxFaults
        /\ faults' = IF stuck = {} THEN faults ELSE faults + 1
        /\ saved' = [j \in Jobs |-> IF j \in M \ stuck THEN "deleted" ELSE saved[j]]
        /\ botched' = botched \cup stuck

\* All jobs are done: one failure fails the bundle.  M is merged_by_uid.
BundleJoin(r, M) ==
    /\ pc[r] = "merge"
    /\ \A j \in JobsOf(r) : step[j] \in Ended
    /\ ByUid(r, M)
    /\ IF Failed(r)
       THEN /\ Discard(M)
            /\ pc' = [pc EXCEPT ![r] = "error"]
            /\ UNCHANGED kept
       ELSE /\ pc' = [pc EXCEPT ![r] = "create"]
            /\ kept' = [kept EXCEPT ![r] = M]
            /\ UNCHANGED <<saved, botched, faults>>
    /\ UNCHANGED <<files, writing, step, pos, exact, fd, offset, bundle, attached, disturbed>>

\* Message.objects.create.
MessageCreate(r) ==
    /\ pc[r] = "create"
    /\ pc' = [pc EXCEPT ![r] = "attach"]
    /\ UNCHANGED <<files, writing, jobVars, bundle, kept, attached, disturbed, botched, faults>>

\* _attach_storage_file_to_message for one upload; the order is of no account here,
\* nor that an upload listed twice has its file attached twice.
Attach(r, j) ==
    /\ pc[r] = "attach"
    /\ j \in kept[r] \ attached[r]
    /\ attached' = [attached EXCEPT ![r] = @ \cup {j}]
    /\ UNCHANGED <<files, writing, jobVars, bundle, pc, kept, disturbed, botched, faults>>

\* Everything is attached: the message is sent to the chat and the answer is ok.
BundleOk(r) ==
    /\ pc[r] = "attach"
    /\ attached[r] = kept[r]
    /\ pc' = [pc EXCEPT ![r] = "ok"]
    /\ UNCHANGED <<files, writing, jobVars, bundle, kept, attached, disturbed, botched, faults>>

\* The database or the task queue raises, and the answer is "Server error": what was
\* created and attached stays.
BundleRaises(r) ==
    /\ pc[r] \in {"create", "attach"}
    /\ faults < MaxFaults
    /\ faults' = faults + 1
    /\ pc' = [pc EXCEPT ![r] = "raised"]
    /\ UNCHANGED <<files, writing, jobVars, bundle, kept, attached, disturbed, botched>>

-----------------------------------------------------------------------------

\* The process serving a bundle dies, its jobs with it.
CrashBundle(r) ==
    /\ pc[r] \in {"merge", "create", "attach"}
    /\ faults < MaxFaults
    /\ faults' = faults + 1
    /\ pc' = [pc EXCEPT ![r] = "dead"]
    /\ Results({j \in JobsOf(r) : step[j] \in Running}, "failed")
    /\ UNCHANGED <<files, writing, saved, bundle, kept, attached, disturbed, botched>>

\* The process serving a part dies.
CrashPart(s) ==
    /\ writing[s] # Nothing
    /\ faults < MaxFaults
    /\ faults' = faults + 1
    /\ writing' = [writing EXCEPT ![s] = Nothing]
    /\ UNCHANGED <<files, jobVars, requestVars, disturbed, botched>>

Next ==
    \/ \E u \in Uploads : InitUpload(u)
    \/ \E s \in Senders, u \in Uploads, i \in Parts : PartOpen(s, u, i)
    \/ \E s \in Senders : PartWrite(s) \/ CrashPart(s)
    \/ \E r \in Requests : \E b \in Bundles[r] : BundleBegin(r, b)
    \/ \E r \in Requests : MessageCreate(r) \/ BundleOk(r) \/ BundleRaises(r) \/ CrashBundle(r)
    \/ \E r \in Requests, M \in SUBSET Jobs : BundleJoin(r, M)
    \/ \E r \in Requests, j \in Jobs : Attach(r, j)
    \/ \E j \in Jobs : Merge(j)

Spec == Init /\ [][Next]_vars

-----------------------------------------------------------------------------
(* Properties.                                                             *)

Posted == UNION {attached[r] : r \in Requests}

\* An attachment is the whole file, unless another bundle worked on the same upload,
\* or a part of it was sent again, during the merge: the sum of the sizes catches what
\* was cut off before (message_chunk_upload_views.py:284-295).
WholeUnlessDisturbed == \A j \in Posted : saved[j] = "whole" \/ j \in disturbed

\* A bundle answered ok has a file in the storage for each of its uploads, whatever
\* order its jobs ended in and whoever else consumed the same uploads.
OkHasEveryFile ==
    \A r \in Requests : pc[r] = "ok" =>
        \A i \in DOMAIN bundle[r] :
            \E j \in attached[r] : UploadOf(j) = bundle[r][i] /\ saved[j] \in {"whole", "broken"}

\* A bundle that was answered leaves no file in the storage that no message has, if it
\* names an upload once, whichever of its merges failed -- but for a file that the
\* storage itself failed to write or to delete, of which the code keeps no note
\* (message_chunk_upload_views.py:509-514).
NoStrayFiles ==
    \A r \in Requests : \A j \in JobsOf(r) :
        /\ pc[r] \in {"ok", "error"}
        /\ \A k \in JobsOf(r) : UploadOf(k) = UploadOf(j) => k = j
        => saved[j] \in {"none", "deleted"} \/ j \in attached[r] \/ j \in botched

\* An upload is used in one message, unless the merges of two bundles ran at once:
\* the first to end takes the session away (message_chunk_upload_views.py:300-308),
\* and one that fails leaves it to a retry.
UsedOnceUnlessOverlapped ==
    \A r, q \in Requests : r # q =>
        \A j \in attached[r], k \in attached[q] :
            UploadOf(j) = UploadOf(k) => {j, k} \subseteq disturbed
=============================================================================
