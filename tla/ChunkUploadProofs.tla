--------------------------- MODULE ChunkUploadProofs ---------------------------
(* A bundle that is answered ok has a file for each upload, one that is answered leaves *)
(* no stray files, an attachment is the whole file and an upload goes into one message  *)
(* unless merges overlapped: for any uploads, parts, requests, lists of uploads, threads *)
(* and faults.  The argument follows the merge jobs: what each has in its variables and *)
(* in _merged.bin, which is its own as long as nobody else works on its upload.         *)
EXTENDS ChunkUpload, FiniteSetTheorems, TLAPS

\* The statements after the last part was copied.
Past == {"compare", "save", "unlink", "rmtree"}

\* A job that may still use its upload, or has.
Lives(j) == step[j] \in Running \cup {"merged"}

\* Where the jobs are: begun only for a bundle that came, behind no more parts than
\* there are.
Places == \A j \in Jobs :
    /\ step[j] # "none" => j \in JobsOf(j[1])
    /\ step[j] \in Past => pos[j] = ChunkCount + 1
    /\ step[j] \notin Past => pos[j] <= ChunkCount
    /\ offset[j] <= pos[j]

Shaped ==
    /\ TypeOK
    /\ bundle = [r \in Requests |-> bundle[r]]
    /\ kept = [r \in Requests |-> kept[r]]
    /\ attached = [r \in Requests |-> attached[r]]
    /\ \A r \in Requests : pc[r] = "new" => bundle[r] = <<>>
    /\ \A r \in Requests : pc[r] \in {"new", "merge", "error"} => kept[r] = {}
    /\ Places

\* What a job has in the storage, as its place and its request's tell.
Stored == \A j \in Jobs :
    /\ step[j] \in {"unlink", "rmtree", "merged"} => saved[j] \notin {"none", "cut"}
    /\ step[j] \in {"none", "start", "size", "copy", "compare", "save"} => saved[j] = "none"
    /\ step[j] = "failed" => saved[j] = "none" \/ j \in botched \/ pc[j[1]] = "dead"
    /\ saved[j] = "deleted" => pc[j[1]] = "error"
    /\ step[j] \in Running => pc[j[1]] = "merge"

\* What a request may answer for: it keeps merged files, one for each upload it names,
\* and has deleted them if one is missing, but those that the storage would not.
Answered == \A r \in Requests :
    /\ \A j \in kept[r] : step[j] = "merged"
    /\ pc[r] \in {"create", "attach", "ok"} =>
         \A j \in JobsOf(r) : \E k \in kept[r] : UploadOf(k) = UploadOf(j)
    /\ pc[r] = "ok" => attached[r] = kept[r]
    /\ pc[r] = "error" => \A j \in JobsOf(r) :
         (\A k \in JobsOf(r) : UploadOf(k) = UploadOf(j) => k = j)
            => saved[j] \in {"none", "deleted"} \/ j \in botched

\* Jobs that nobody disturbed are alone on their upload, and what is merged is gone.
Apart ==
    /\ IsFiniteSet({j \in Jobs : step[j] # "none"})
    /\ \A j, k \in Jobs :
          Lives(j) /\ Lives(k) /\ j # k /\ UploadOf(j) = UploadOf(k) => j \in disturbed
    /\ \A j \in Jobs : step[j] = "merged" => dir[UploadOf(j)] = "removed"
    /\ \A j \in Jobs : step[j] \in Running /\ j \notin disturbed => Sending(UploadOf(j)) = {}

\* Files stay with the upload they were created for, and a job that has not opened its
\* own is at the first part.
Owned ==
    /\ \A u \in Uploads : name[u] # NoFile =>
          step[name[u]] # "none" /\ UploadOf(name[u]) = u
    /\ \A j \in Jobs : fd[j] # NoFile =>
          step[j] \in Running /\ step[fd[j]] # "none" /\ UploadOf(fd[j]) = UploadOf(j)
    /\ \A j \in Jobs : step[j] \in {"none", "start"} => pos[j] = 1

\* A job alone on its upload has copied the parts it has passed, if their sizes add up,
\* to a _merged.bin that is still the one of that name.
Copying(j) ==
    /\ step[j] \in {"size", "copy", "compare", "save"} =>
         /\ fd[j] # NoFile
         /\ name[UploadOf(j)] = fd[j]
         /\ exact[j] => /\ offset[j] = pos[j]
                        /\ \A n \in Parts : n < pos[j] => inode[fd[j]][n] = n
    /\ step[j] = "copy" /\ exact[j] => part[UploadOf(j)][pos[j]] = "whole"
    /\ step[j] = "save" => exact[j]
    /\ step[j] \in {"unlink", "rmtree", "merged"} => saved[j] \in {"whole", "deleted"}

Whole == \A j \in Jobs : j \notin disturbed => Copying(j)

\* The inductive invariant.
UploadInv == Shaped /\ Stored /\ Answered /\ Apart /\ Owned /\ Whole

-----------------------------------------------------------------------------
(* Jobs and the lists they come from.                                               *)

LEMMA JobForm == \A j \in Jobs : j[1] \in Requests /\ j = <<j[1], j[2]>>
BY DEF Jobs

LEMMA ListOf ==
  ASSUME NEW r \in Requests, NEW b \in Bundles[r]
  PROVE  /\ DOMAIN b = 1..Len(b)
         /\ Len(b) \in Nat
         /\ \A i \in DOMAIN b : b[i] \in Uploads /\ <<r, i>> \in Jobs
         /\ DOMAIN b # {}
         /\ b # <<>>
<1>1. b \in Seq(Uploads) /\ Len(b) > 0
  BY BundlesAssumption
<1>2. \A i \in DOMAIN b : i \in Slots(r)
  BY DEF Slots
<1>3. {r} \X Slots(r) \in {{q} \X Slots(q) : q \in Requests}
  OBVIOUS
<1>4. \A i \in DOMAIN b : <<r, i>> \in Jobs
  BY <1>2, <1>3 DEF Jobs
<1>5. DOMAIN b = 1..Len(b) /\ Len(b) \in Nat /\ \A i \in DOMAIN b : b[i] \in Uploads
  BY <1>1
<1>6. 1 \in DOMAIN b
  BY <1>1, <1>5
<1>7. b # <<>>
  BY <1>6
<1> QED
  BY <1>4, <1>5, <1>6, <1>7

\* The jobs of a request are jobs, on uploads it names.
LEMMA JobsOfForm ==
  ASSUME TypeOK, NEW r \in Requests, NEW j \in JobsOf(r)
  PROVE  /\ j \in Jobs /\ j[1] = r /\ j[2] \in DOMAIN bundle[r]
         /\ UploadOf(j) \in Uploads
         /\ bundle[r] \in Bundles[r]
<1>1. PICK i \in DOMAIN bundle[r] : j = <<r, i>>
  BY DEF JobsOf
<1>2. bundle[r] \in Bundles[r]
  BY <1>1 DEF TypeOK
<1>3. j \in Jobs /\ bundle[r][i] \in Uploads
  BY <1>1, <1>2, ListOf
<1> QED
  BY <1>1, <1>2, <1>3 DEF UploadOf

\* A job that has begun belongs to a request whose list has come.
LEMMA Begun ==
  ASSUME Shaped, NEW j \in Jobs, step[j] # "none"
  PROVE  /\ j[1] \in Requests /\ j \in JobsOf(j[1]) /\ pc[j[1]] # "new"
         /\ UploadOf(j) \in Uploads
<1>1. j[1] \in Requests /\ j \in JobsOf(j[1])
  BY JobForm DEF Shaped, Places
<1>2. UploadOf(j) \in Uploads
  BY <1>1, JobsOfForm DEF Shaped
<1>3. bundle[j[1]] # <<>>
  BY <1>1, JobsOfForm, ListOf DEF Shaped
<1> QED
  BY <1>1, <1>2, <1>3 DEF Shaped

-----------------------------------------------------------------------------
(* The shape of the state.                                                          *)

LEMMA ShapedAtFirst == Init => Shaped
<1> SUFFICES ASSUME Init PROVE Shaped
  OBVIOUS
<1>1. TypeOK
  BY ChunkCountAssumption, FaultsAssumption DEF Init, TypeOK, EmptyFile, Parts, Running, Ended, Jobs
<1>2. Places
  BY ChunkCountAssumption DEF Init, Places, Past
<1> QED
  BY <1>1, <1>2 DEF Init, Shaped

\* What a job's step leaves alone: everything of requests, senders and other jobs.
OthersStay(j) ==
    \A k \in Jobs \ {j} :
        /\ step'[k] = step[k] /\ pos'[k] = pos[k] /\ exact'[k] = exact[k]
        /\ fd'[k] = fd[k] /\ offset'[k] = offset[k] /\ saved'[k] = saved[k]

JobFrame(j) ==
    /\ UNCHANGED <<writing, bundle, pc, kept, attached, disturbed>>
    /\ faults' \in Nat /\ botched \subseteq botched' /\ botched' \subseteq Jobs
    /\ step' \in [Jobs -> Running \cup Ended \cup {"none"}]
    /\ step'[j] \in (Running \ {"start"}) \cup Ended
    /\ OthersStay(j)

\* A job at work is of a request that waits for its merges.
LEMMA JobsMove ==
  ASSUME Shaped, NEW j \in Jobs, Merge(j)
  PROVE  /\ JobFrame(j)
         /\ step[j] \in Running
         /\ j[1] \in Requests /\ j \in JobsOf(j[1]) /\ pc[j[1]] # "new"
         /\ UploadOf(j) \in Uploads
<1>1. step[j] \in Running
  BY DEF Merge, JobOpen, JobSize, JobCopy, JobCompare, JobSave, JobSaveRaises, JobUnlink,
         JobRmtree, Running
<1>2. /\ step \in [Jobs -> Running \cup Ended \cup {"none"}]
      /\ pos \in [Jobs -> 1..(ChunkCount + 1)] /\ exact \in [Jobs -> BOOLEAN]
      /\ fd \in [Jobs -> Jobs \cup {NoFile}] /\ offset \in [Jobs -> 1..(ChunkCount + 1)]
      /\ saved \in [Jobs -> {"none", "whole", "broken", "cut", "deleted"}] /\ faults \in Nat
      /\ botched \subseteq Jobs
  BY DEF Shaped, TypeOK
<1>11. step[j] # "none"
  BY <1>1 DEF Running
<1> SUFFICES JobFrame(j)
  BY <1>1, <1>11, Begun
<1> HIDE DEF Shaped
<1>3. CASE JobOpen(j)
  <2>1. UNCHANGED <<writing, bundle, pc, kept, attached, disturbed>> /\ faults' \in Nat
        /\ botched \subseteq botched' /\ botched' \subseteq Jobs
    BY <1>2, <1>3 DEF JobOpen, requestVars
  <2>2. step' \in [Jobs -> Running \cup Ended \cup {"none"}]
    BY <1>2, <1>3 DEF JobOpen, Fail, Results, Running, Ended
  <2>3. step'[j] \in (Running \ {"start"}) \cup Ended
    BY <1>2, <1>3 DEF JobOpen, Fail, Results, Running, Ended
  <2>4. OthersStay(j)
    BY <1>2, <1>3 DEF JobOpen, Fail, Results, OthersStay
  <2> QED
    BY <2>1, <2>2, <2>3, <2>4 DEF JobFrame
<1>4. CASE JobSize(j)
  <2>1. UNCHANGED <<writing, bundle, pc, kept, attached, disturbed>> /\ faults' \in Nat
        /\ botched \subseteq botched' /\ botched' \subseteq Jobs
    BY <1>2, <1>4 DEF JobSize, requestVars
  <2>2. step' \in [Jobs -> Running \cup Ended \cup {"none"}]
    BY <1>2, <1>4 DEF JobSize, Fail, Results, Running, Ended
  <2>3. step'[j] \in (Running \ {"start"}) \cup Ended
    BY <1>2, <1>4 DEF JobSize, Fail, Results, Running, Ended
  <2>4. OthersStay(j)
    BY <1>2, <1>4 DEF JobSize, Fail, Results, OthersStay
  <2> QED
    BY <2>1, <2>2, <2>3, <2>4 DEF JobFrame
<1>5. CASE JobCopy(j)
  <2>1. UNCHANGED <<writing, bundle, pc, kept, attached, disturbed>> /\ faults' \in Nat
        /\ botched \subseteq botched' /\ botched' \subseteq Jobs
    BY <1>2, <1>5 DEF JobCopy, requestVars
  <2>2. step' \in [Jobs -> Running \cup Ended \cup {"none"}]
    BY <1>2, <1>5 DEF JobCopy, Fail, Results, Running, Ended
  <2>3. step'[j] \in (Running \ {"start"}) \cup Ended
    BY <1>2, <1>5 DEF JobCopy, Fail, Results, Running, Ended
  <2>4. OthersStay(j)
    BY <1>2, <1>5 DEF JobCopy, Fail, Results, OthersStay
  <2> QED
    BY <2>1, <2>2, <2>3, <2>4 DEF JobFrame
<1>6. CASE JobCompare(j)
  <2>1. UNCHANGED <<writing, bundle, pc, kept, attached, disturbed>> /\ faults' \in Nat
        /\ botched \subseteq botched' /\ botched' \subseteq Jobs
    BY <1>2, <1>6 DEF JobCompare, requestVars
  <2>2. step' \in [Jobs -> Running \cup Ended \cup {"none"}]
    BY <1>2, <1>6 DEF JobCompare, Fail, Results, Running, Ended
  <2>3. step'[j] \in (Running \ {"start"}) \cup Ended
    BY <1>2, <1>6 DEF JobCompare, Fail, Results, Running, Ended
  <2>4. OthersStay(j)
    BY <1>2, <1>6 DEF JobCompare, Fail, Results, OthersStay
  <2> QED
    BY <2>1, <2>2, <2>3, <2>4 DEF JobFrame
<1>7. CASE JobSave(j)
  <2>1. UNCHANGED <<writing, bundle, pc, kept, attached, disturbed>> /\ faults' \in Nat
        /\ botched \subseteq botched' /\ botched' \subseteq Jobs
    BY <1>2, <1>7 DEF JobSave, requestVars
  <2>2. step' \in [Jobs -> Running \cup Ended \cup {"none"}]
    BY <1>2, <1>7 DEF JobSave, Fail, Results, Running, Ended
  <2>3. step'[j] \in (Running \ {"start"}) \cup Ended
    BY <1>2, <1>7 DEF JobSave, Fail, Results, Running, Ended
  <2>4. OthersStay(j)
    BY <1>2, <1>7 DEF JobSave, Fail, Results, OthersStay
  <2> QED
    BY <2>1, <2>2, <2>3, <2>4 DEF JobFrame
<1>8. CASE JobSaveRaises(j)
  <2>1. UNCHANGED <<writing, bundle, pc, kept, attached, disturbed>> /\ faults' \in Nat
        /\ botched \subseteq botched' /\ botched' \subseteq Jobs
    BY <1>2, <1>8 DEF JobSaveRaises, requestVars
  <2>2. step' \in [Jobs -> Running \cup Ended \cup {"none"}]
    BY <1>2, <1>8 DEF JobSaveRaises, Fail, Results, Running, Ended
  <2>3. step'[j] \in (Running \ {"start"}) \cup Ended
    BY <1>2, <1>8 DEF JobSaveRaises, Fail, Results, Running, Ended
  <2>4. OthersStay(j)
    BY <1>2, <1>8 DEF JobSaveRaises, Fail, Results, OthersStay
  <2> QED
    BY <2>1, <2>2, <2>3, <2>4 DEF JobFrame
<1>9. CASE JobUnlink(j)
  <2>1. UNCHANGED <<writing, bundle, pc, kept, attached, disturbed>> /\ faults' \in Nat
        /\ botched \subseteq botched' /\ botched' \subseteq Jobs
    BY <1>2, <1>9 DEF JobUnlink, requestVars
  <2>2. step' \in [Jobs -> Running \cup Ended \cup {"none"}]
    BY <1>2, <1>9 DEF JobUnlink, Running, Ended
  <2>3. step'[j] \in (Running \ {"start"}) \cup Ended
    BY <1>2, <1>9 DEF JobUnlink, Running, Ended
  <2>4. OthersStay(j)
    BY <1>2, <1>9 DEF JobUnlink, OthersStay
  <2> QED
    BY <2>1, <2>2, <2>3, <2>4 DEF JobFrame
<1>10. CASE JobRmtree(j)
  <2>1. UNCHANGED <<writing, bundle, pc, kept, attached, disturbed>> /\ faults' \in Nat
        /\ botched \subseteq botched' /\ botched' \subseteq Jobs
    BY <1>2, <1>10 DEF JobRmtree, requestVars
  <2>2. step' \in [Jobs -> Running \cup Ended \cup {"none"}]
    BY <1>2, <1>10 DEF JobRmtree, Results, Running, Ended
  <2>3. step'[j] \in (Running \ {"start"}) \cup Ended
    BY <1>2, <1>10 DEF JobRmtree, Results, Running, Ended
  <2>4. OthersStay(j)
    BY <1>2, <1>10 DEF JobRmtree, Results, OthersStay
  <2> QED
    BY <2>1, <2>2, <2>3, <2>4 DEF JobFrame
<1> QED
  BY <1>3, <1>4, <1>5, <1>6, <1>7, <1>8, <1>9, <1>10 DEF Merge

\* Jobs that get their results leave their variables as they were at first.
LEMMA ResultsShaped ==
  ASSUME TypeOK, NEW J \in SUBSET Jobs, NEW how \in Ended, Results(J, how)
  PROVE  /\ step' \in [Jobs -> Running \cup Ended \cup {"none"}]
         /\ pos' \in [Jobs -> 1..(ChunkCount + 1)] /\ exact' \in [Jobs -> BOOLEAN]
         /\ fd' \in [Jobs -> Jobs \cup {NoFile}] /\ offset' \in [Jobs -> 1..(ChunkCount + 1)]
         /\ \A j \in J : /\ step'[j] = how /\ pos'[j] = 1 /\ exact'[j] /\ fd'[j] = NoFile
                         /\ offset'[j] = 1
         /\ \A j \in Jobs \ J : /\ step'[j] = step[j] /\ pos'[j] = pos[j] /\ exact'[j] = exact[j]
                                /\ fd'[j] = fd[j] /\ offset'[j] = offset[j]
<1>1. /\ step \in [Jobs -> Running \cup Ended \cup {"none"}]
      /\ pos \in [Jobs -> 1..(ChunkCount + 1)] /\ exact \in [Jobs -> BOOLEAN]
      /\ fd \in [Jobs -> Jobs \cup {NoFile}] /\ offset \in [Jobs -> 1..(ChunkCount + 1)]
      /\ 1 \in 1..(ChunkCount + 1)
  BY ChunkCountAssumption DEF TypeOK
<1>2. step' \in [Jobs -> Running \cup Ended \cup {"none"}]
  BY <1>1 DEF Results
<1>3. pos' \in [Jobs -> 1..(ChunkCount + 1)] /\ offset' \in [Jobs -> 1..(ChunkCount + 1)]
  BY <1>1 DEF Results
<1>4. fd' \in [Jobs -> Jobs \cup {NoFile}]
  BY <1>1 DEF Results
<1>5. exact' \in [Jobs -> BOOLEAN]
  BY <1>1 DEF Results
<1>6. \A j \in J : /\ step'[j] = how /\ pos'[j] = 1 /\ exact'[j] /\ fd'[j] = NoFile
                   /\ offset'[j] = 1
  BY DEF Results
<1>7. \A j \in Jobs \ J : step'[j] = step[j] /\ pos'[j] = pos[j] /\ fd'[j] = fd[j] /\ offset'[j] = offset[j]
  BY DEF Results
<1>8. \A j \in Jobs \ J : exact'[j] = exact[j]
  BY <1>1 DEF Results
<1> QED
  BY <1>2, <1>3, <1>4, <1>5, <1>6, <1>7, <1>8

LEMMA FailShaped ==
  ASSUME TypeOK, NEW j \in Jobs, Fail(j)
  PROVE  /\ pos' \in [Jobs -> 1..(ChunkCount + 1)] /\ exact' \in [Jobs -> BOOLEAN]
         /\ fd' \in [Jobs -> Jobs \cup {NoFile}] /\ offset' \in [Jobs -> 1..(ChunkCount + 1)]
         /\ step'[j] = "failed" /\ pos'[j] = 1 /\ offset'[j] = 1
         /\ step'[j] \notin Past /\ 1 <= ChunkCount
<1>1. {j} \in SUBSET Jobs /\ "failed" \in Ended /\ Results({j}, "failed") /\ j \in {j}
  BY DEF Fail, Ended
<1>2. step'[j] = "failed" /\ pos'[j] = 1 /\ offset'[j] = 1
  BY <1>1, ResultsShaped
<1>3. /\ pos' \in [Jobs -> 1..(ChunkCount + 1)] /\ exact' \in [Jobs -> BOOLEAN]
      /\ fd' \in [Jobs -> Jobs \cup {NoFile}] /\ offset' \in [Jobs -> 1..(ChunkCount + 1)]
  BY <1>1, ResultsShaped
<1>4. "failed" \notin Past
  BY DEF Past
<1>5. 1 <= ChunkCount
  BY ChunkCountAssumption
<1>6. step'[j] \notin Past
  BY <1>2, <1>4
<1> QED
  BY <1>2, <1>3, <1>5, <1>6

\* A part's number written anywhere, its place out of the file included.
LEMMA PutShaped ==
  ASSUME NEW S, NEW m \in [Jobs -> [Parts -> S]], NEW f, NEW o, NEW i \in S
  PROVE  [m EXCEPT ![f][o] = i] \in [Jobs -> [Parts -> S]]
<1>1. CASE f \in Jobs
  <2>1. [m[f] EXCEPT ![o] = i] \in [Parts -> S]
    BY <1>1
  <2> QED
    BY <2>1
<1>2. CASE f \notin Jobs
  BY <1>2
<1> QED
  BY <1>1, <1>2

\* The directories and the files of one job's step are as they should be, and so is the
\* place it comes to.
LEMMA JobShaped ==
  ASSUME Shaped, NEW j \in Jobs, Merge(j)
  PROVE  /\ dir' \in [Uploads -> {"none", "there", "removed"}]
         /\ part' \in [Uploads -> [Parts -> {"none", "cut", "whole"}]]
         /\ name' \in [Uploads -> Jobs \cup {NoFile}]
         /\ \A u \in Uploads : dir'[u] # "there" =>
               name'[u] = NoFile /\ part'[u] = [i \in Parts |-> "none"]
         /\ inode' \in [Jobs -> [Parts -> Parts \cup {Hole}]]
         /\ pos' \in [Jobs -> 1..(ChunkCount + 1)] /\ exact' \in [Jobs -> BOOLEAN]
         /\ fd' \in [Jobs -> Jobs \cup {NoFile}] /\ offset' \in [Jobs -> 1..(ChunkCount + 1)]
         /\ saved' \in [Jobs -> {"none", "whole", "broken", "cut", "deleted"}]
         /\ step'[j] \in Past => pos'[j] = ChunkCount + 1
         /\ step'[j] \notin Past => pos'[j] <= ChunkCount
         /\ offset'[j] <= pos'[j]
<1> DEFINE u == UploadOf(j)
<1>1. u \in Uploads /\ step[j] \in Running
  BY JobsMove
<1>2. /\ dir \in [Uploads -> {"none", "there", "removed"}]
      /\ part \in [Uploads -> [Parts -> {"none", "cut", "whole"}]]
      /\ name \in [Uploads -> Jobs \cup {NoFile}]
      /\ \A v \in Uploads : dir[v] # "there" =>
            name[v] = NoFile /\ part[v] = [i \in Parts |-> "none"]
      /\ inode \in [Jobs -> [Parts -> Parts \cup {Hole}]]
      /\ step \in [Jobs -> Running \cup Ended \cup {"none"}]
      /\ pos \in [Jobs -> 1..(ChunkCount + 1)] /\ exact \in [Jobs -> BOOLEAN]
      /\ fd \in [Jobs -> Jobs \cup {NoFile}] /\ offset \in [Jobs -> 1..(ChunkCount + 1)]
      /\ saved \in [Jobs -> {"none", "whole", "broken", "cut", "deleted"}]
  BY DEF Shaped, TypeOK
<1>3. /\ step[j] \in Past => pos[j] = ChunkCount + 1
      /\ step[j] \notin Past => pos[j] <= ChunkCount
      /\ offset[j] <= pos[j]
  BY DEF Shaped, Places
<1>4. ChunkCount \in Nat /\ ChunkCount >= 1 /\ EmptyFile \in [Parts -> Parts \cup {Hole}]
  BY ChunkCountAssumption DEF EmptyFile
<1>13. TypeOK
  BY DEF Shaped
<1> HIDE DEF u
<1>5. CASE JobOpen(j)
  <2>1. CASE dir[u] = "there"
    <3> DEFINE f == IF name[u] = NoFile THEN j ELSE name[u]
    <3>1. f \in Jobs
      BY <1>1, <1>2
    <3>2. /\ name' = [name EXCEPT ![u] = f] /\ inode' = [inode EXCEPT ![f] = EmptyFile]
          /\ fd' = [fd EXCEPT ![j] = f] /\ step' = [step EXCEPT ![j] = "size"]
          /\ UNCHANGED <<pos, exact, offset, dir, part, saved>> /\ step[j] = "start"
      BY <1>5, <2>1 DEF JobOpen, u
    <3> HIDE DEF f
    <3>3. name' \in [Uploads -> Jobs \cup {NoFile}] /\ inode' \in [Jobs -> [Parts -> Parts \cup {Hole}]]
          /\ fd' \in [Jobs -> Jobs \cup {NoFile}]
      BY <1>2, <1>4, <3>1, <3>2
    <3>4. \A v \in Uploads : dir'[v] # "there" =>
            name'[v] = NoFile /\ part'[v] = [i \in Parts |-> "none"]
      BY <1>1, <1>2, <2>1, <3>2
    <3>5. step[j] \notin Past /\ step'[j] \notin Past
      BY <1>2, <3>2 DEF Past
    <3> QED
      BY <1>2, <1>3, <3>2, <3>3, <3>4, <3>5
  <2>2. CASE dir[u] # "there"
    <3>1. Fail(j) /\ UNCHANGED <<dir, part, name, inode, saved>>
      BY <1>5, <2>2 DEF JobOpen, u
    <3> QED
      BY <1>2, <1>13, <3>1, FailShaped
  <2> QED
    BY <2>1, <2>2
<1>6. CASE JobSize(j)
  <2>1. UNCHANGED <<dir, part, name, inode, saved>> /\ step[j] = "size" /\ j \in Jobs
    BY <1>6 DEF JobSize, files
  <2>2. CASE Fail(j)
    BY <1>2, <1>13, <2>1, <2>2, FailShaped
  <2>3. CASE ~ Fail(j)
    <3>1. /\ exact' = [exact EXCEPT ![j] = @ /\ part[u][pos[j]] = "whole"]
          /\ step' = [step EXCEPT ![j] = "copy"]
          /\ UNCHANGED <<pos, fd, offset>>
      BY <1>6, <2>3 DEF JobSize, u
    <3>2. exact' \in [Jobs -> BOOLEAN]
      BY <1>2, <3>1
    <3>3. step[j] \notin Past /\ step'[j] \notin Past
      BY <1>2, <2>1, <3>1 DEF Past
    <3> QED
      BY <1>2, <1>3, <2>1, <3>1, <3>2, <3>3
  <2> QED
    BY <2>2, <2>3
<1>7. CASE JobCopy(j)
  <2> DEFINE i == pos[j]
  <2>1. i \in Parts /\ step[j] = "copy"
    BY <1>2, <1>3, <1>4, <1>7 DEF JobCopy, Past, Parts
  <2>2. CASE part[u][i] = "none"
    <3>1. Fail(j) /\ UNCHANGED <<dir, part, name, inode, saved>>
      BY <1>7, <2>2 DEF JobCopy, u
    <3> QED
      BY <1>2, <1>13, <3>1, FailShaped
  <2>3. CASE part[u][i] # "none"
    <3>1. /\ \/ /\ inode' = [inode EXCEPT ![fd[j]][offset[j]] = i]
                /\ offset' = [offset EXCEPT ![j] = @ + 1]
             \/ UNCHANGED <<inode, offset>>
          /\ pos' = [pos EXCEPT ![j] = i + 1]
          /\ step' = [step EXCEPT ![j] = IF i = ChunkCount THEN "compare" ELSE "size"]
          /\ UNCHANGED <<exact, fd, dir, part, name, saved>>
      BY <1>7, <2>3 DEF JobCopy, u
    <3>2. inode' \in [Jobs -> [Parts -> Parts \cup {Hole}]]
      <4>1. i \in Parts \cup {Hole}
        BY <2>1
      <4>2. [inode EXCEPT ![fd[j]][offset[j]] = i] \in [Jobs -> [Parts -> Parts \cup {Hole}]]
        BY <1>2, <4>1, PutShaped
      <4> QED
        BY <1>2, <3>1, <4>2
    <3>3. offset' \in [Jobs -> 1..(ChunkCount + 1)] /\ pos' \in [Jobs -> 1..(ChunkCount + 1)]
          /\ offset'[j] <= pos'[j] /\ pos'[j] = i + 1
      <4>1. pos' \in [Jobs -> 1..(ChunkCount + 1)] /\ pos'[j] = i + 1
        BY <1>2, <1>4, <2>1, <3>1 DEF Parts
      <4>2. CASE offset' = [offset EXCEPT ![j] = @ + 1]
        BY <1>2, <1>3, <1>4, <2>1, <4>1, <4>2 DEF Parts
      <4>3. CASE offset' = offset
        BY <1>2, <1>3, <1>4, <2>1, <4>1, <4>3 DEF Parts
      <4> QED
        BY <3>1, <4>1, <4>2, <4>3
    <3>4. /\ step'[j] \in Past => pos'[j] = ChunkCount + 1
          /\ step'[j] \notin Past => pos'[j] <= ChunkCount
      BY <1>2, <1>4, <2>1, <3>1, <3>3 DEF Past, Parts
    <3> QED
      BY <1>2, <3>1, <3>2, <3>3, <3>4
  <2> QED
    BY <2>2, <2>3
<1>8. CASE JobCompare(j)
  <2>1. /\ name' \in {name, [name EXCEPT ![u] = NoFile]}
        /\ UNCHANGED <<dir, part, inode, saved>> /\ step[j] = "compare"
    BY <1>8 DEF JobCompare, u
  <2>2. /\ name' \in [Uploads -> Jobs \cup {NoFile}]
        /\ \A v \in Uploads : dir'[v] # "there" =>
               name'[v] = NoFile /\ part'[v] = [i \in Parts |-> "none"]
    BY <1>1, <1>2, <2>1
  <2>3. CASE Fail(j)
    BY <1>2, <1>13, <2>1, <2>2, <2>3, FailShaped
  <2>4. CASE ~ Fail(j)
    <3>1. step' = [step EXCEPT ![j] = "save"] /\ UNCHANGED <<pos, exact, fd, offset>>
      BY <1>8, <2>4 DEF JobCompare
    <3>2. step[j] \in Past /\ step'[j] \in Past
      BY <1>2, <2>1, <3>1 DEF Past
    <3> QED
      BY <1>2, <1>3, <2>1, <2>2, <3>1, <3>2
  <2> QED
    BY <2>3, <2>4
<1>9. CASE JobSave(j)
  <2>1. UNCHANGED <<dir, part, name, inode>> /\ step[j] = "save"
    BY <1>9 DEF JobSave, files
  <2>2. saved' \in [Jobs -> {"none", "whole", "broken", "cut", "deleted"}]
    BY <1>2, <1>9 DEF JobSave
  <2>3. CASE Fail(j)
    BY <1>2, <1>13, <2>1, <2>2, <2>3, FailShaped
  <2>4. CASE ~ Fail(j)
    <3>1. step' = [step EXCEPT ![j] = "unlink"] /\ UNCHANGED <<pos, exact, fd, offset>>
      BY <1>9, <2>4 DEF JobSave
    <3>2. step[j] \in Past /\ step'[j] \in Past
      BY <1>2, <2>1, <3>1 DEF Past
    <3> QED
      BY <1>2, <1>3, <2>1, <2>2, <3>1, <3>2
  <2> QED
    BY <2>3, <2>4
<1>10. CASE JobSaveRaises(j)
  BY <1>1, <1>2, <1>3, <1>4, <1>10 DEF JobSaveRaises, Fail, Results, Past, files, u
<1>11. CASE JobUnlink(j)
  BY <1>1, <1>2, <1>3, <1>4, <1>11 DEF JobUnlink, Past, u
<1>12. CASE JobRmtree(j)
  <2>1. /\ dir' = [dir EXCEPT ![u] = "removed"]
        /\ part' = [part EXCEPT ![u] = [i \in Parts |-> "none"]]
        /\ name' = [name EXCEPT ![u] = NoFile]
        /\ UNCHANGED <<inode, saved>> /\ Results({j}, "merged")
    BY <1>12 DEF JobRmtree, u
  <2>2. /\ dir' \in [Uploads -> {"none", "there", "removed"}]
        /\ part' \in [Uploads -> [Parts -> {"none", "cut", "whole"}]]
        /\ name' \in [Uploads -> Jobs \cup {NoFile}]
        /\ \A v \in Uploads : dir'[v] # "there" =>
               name'[v] = NoFile /\ part'[v] = [i \in Parts |-> "none"]
    BY <1>1, <1>2, <2>1
  <2> QED
    BY <1>2, <1>3, <1>4, <2>1, <2>2 DEF Results, Past
<1> QED
  BY <1>5, <1>6, <1>7, <1>8, <1>9, <1>10, <1>11, <1>12 DEF Merge

\* The state keeps its shape when a bundle comes, and in a job's step.
LEMMA BeginShaped ==
  ASSUME Shaped, NEW r \in Requests, NEW b \in Bundles[r], BundleBegin(r, b)
  PROVE  Shaped'
<1> DEFINE mine == {<<r, i>> : i \in DOMAIN b}
<1>1. /\ pc[r] = "new" /\ bundle[r] = <<>> /\ kept[r] = {} /\ attached[r] = {}
      /\ bundle' = [bundle EXCEPT ![r] = b]
      /\ UNCHANGED <<dir, part, name, inode, writing, pos, exact, fd, offset, saved, kept, attached, botched, faults>>
  BY DEF Shaped, TypeOK, BundleBegin, files
<1>2. \/ /\ pc' = [pc EXCEPT ![r] = "merge"]
         /\ step' = [j \in Jobs |-> IF j \in mine THEN "start" ELSE step[j]]
         /\ disturbed' \subseteq Jobs
      \/ pc' = [pc EXCEPT ![r] = "error"] /\ UNCHANGED <<step, disturbed>>
  <2>1. CASE \A i \in DOMAIN b : ChunksComplete(b[i])
    <3>1. \A i \in DOMAIN b : <<r, i>> \in Jobs
      BY ListOf
    <3>2. disturbed \subseteq Jobs
      BY DEF Shaped, TypeOK
    <3> DEFINE on(u) == {j \in mine : b[j[2]] = u}
    <3>3. \A u : on(u) \subseteq Jobs /\ Merging(u) \subseteq Jobs
      BY <3>1 DEF Merging
    <3>4. disturbed' = disturbed \cup UNION {on(u) \cup Merging(u) :
                 u \in {v \in Uploads : on(v) # {} /\
                          (Sending(v) # {} \/ Cardinality(on(v) \cup Merging(v)) > 1)}}
      BY <2>1 DEF BundleBegin
    <3>5. disturbed' \subseteq Jobs
      <4> HIDE DEF on
      <4> QED
        BY <3>2, <3>3, <3>4
    <3> QED
      BY <2>1, <3>5 DEF BundleBegin
  <2>2. CASE ~ \A i \in DOMAIN b : ChunksComplete(b[i])
    BY <2>2 DEF BundleBegin
  <2> QED
    BY <2>1, <2>2
<1>3. \A q \in Requests : q # r => bundle'[q] = bundle[q] /\ JobsOf(q)' = JobsOf(q) /\ pc'[q] = pc[q]
  BY <1>1, <1>2 DEF Shaped, TypeOK, JobsOf
<1>4. bundle'[r] = b /\ pc'[r] \in {"merge", "error"} /\ bundle' = [q \in Requests |-> bundle'[q]]
  BY <1>1, <1>2 DEF Shaped, TypeOK
<1>5. pc' \in [Requests -> {"new", "merge", "create", "attach", "ok", "error", "raised", "dead"}]
  BY <1>2 DEF Shaped, TypeOK
<1>6. step' \in [Jobs -> Running \cup Ended \cup {"none"}]
  BY <1>2 DEF Shaped, TypeOK, Running
<1>7. disturbed' \subseteq Jobs
  BY <1>2 DEF Shaped, TypeOK
<1>8. \A q \in Requests : attached[q] \subseteq kept[q] /\ kept[q] \subseteq JobsOf(q)'
  <2>1. \A q \in Requests : attached[q] \subseteq kept[q] /\ kept[q] \subseteq JobsOf(q)
    BY DEF Shaped, TypeOK
  <2> TAKE q \in Requests
  <2>2. CASE q = r
    BY <1>1, <2>2
  <2>3. CASE q # r
    BY <1>3, <2>1, <2>3
  <2> QED
    BY <2>2, <2>3
<1>9. TypeOK'
  BY <1>1, <1>3, <1>4, <1>5, <1>6, <1>7, <1>8 DEF Shaped, TypeOK
<1>10. ASSUME NEW j \in Jobs
       PROVE  /\ step'[j] # "none" => j \in JobsOf(j[1])'
              /\ step'[j] \in Past => pos[j] = ChunkCount + 1
              /\ step'[j] \notin Past => pos[j] <= ChunkCount
              /\ offset[j] <= pos[j]
  <2>1. /\ step[j] # "none" => j \in JobsOf(j[1])
        /\ step[j] \in Past => pos[j] = ChunkCount + 1
        /\ step[j] \notin Past => pos[j] <= ChunkCount
        /\ offset[j] <= pos[j]
        /\ j[1] \in Requests
    BY JobForm DEF Shaped, Places
  <2>2. CASE step'[j] = step[j]
    <3>1. CASE step[j] # "none"
      <4>1. j[1] # r
        BY <1>1, <3>1, Begun
      <4> QED
        BY <1>3, <2>1, <2>2, <4>1
    <3>2. CASE step[j] = "none"
      BY <2>1, <2>2, <3>2
    <3> QED
      BY <3>1, <3>2
  <2>3. CASE step'[j] # step[j]
    <3>1. j \in mine /\ step'[j] = "start"
      BY <1>2, <2>3
    <3>2. PICK i \in DOMAIN b : j = <<r, i>>
      BY <3>1
    <3>3. step[j] = "none"
      BY <1>1, <3>2, Begun
    <3>4. j[1] = r /\ j \in JobsOf(r)'
      BY <1>4, <3>2 DEF JobsOf
    <3>5. step[j] \notin Past /\ step'[j] \notin Past
      BY <3>1, <3>3 DEF Past
    <3> QED
      BY <2>1, <3>4, <3>5
  <2> QED
    BY <2>2, <2>3
<1>11. Places'
  BY <1>1, <1>10 DEF Places
<1>12. \A q \in Requests : (pc'[q] = "new" => bundle'[q] = <<>>)
                        /\ (pc'[q] \in {"new", "merge", "error"} => kept'[q] = {})
  BY <1>1, <1>3, <1>4 DEF Shaped
<1>13. kept' = [q \in Requests |-> kept'[q]] /\ attached' = [q \in Requests |-> attached'[q]]
  BY <1>1 DEF Shaped
<1> QED
  BY <1>4, <1>9, <1>11, <1>12, <1>13 DEF Shaped

LEMMA MergeShaped ==
  ASSUME Shaped, NEW j \in Jobs, Merge(j)
  PROVE  Shaped'
<1>1. JobFrame(j) /\ step[j] \in Running /\ j[1] \in Requests /\ j \in JobsOf(j[1])
  BY JobsMove
<1>2. UNCHANGED <<writing, bundle, pc, kept, attached, disturbed>> /\ faults' \in Nat /\ botched' \subseteq Jobs
      /\ step' \in [Jobs -> Running \cup Ended \cup {"none"}] /\ OthersStay(j)
  BY <1>1 DEF JobFrame
<1>3. \A r \in Requests : JobsOf(r)' = JobsOf(r)
  BY <1>2 DEF JobsOf
<1>4. \A r \in Requests : attached'[r] \subseteq kept'[r] /\ kept'[r] \subseteq JobsOf(r)'
  BY <1>2, <1>3 DEF Shaped, TypeOK
<1>5. /\ writing' \in [Senders -> (Uploads \X Parts) \cup {Nothing}]
      /\ \A r \in Requests : bundle'[r] \in Bundles[r] \cup {<<>>}
      /\ pc' \in [Requests -> {"new", "merge", "create", "attach", "ok", "error", "raised", "dead"}]
      /\ disturbed' \subseteq Jobs /\ botched' \subseteq Jobs
  BY <1>2 DEF Shaped, TypeOK
<1>6. /\ dir' \in [Uploads -> {"none", "there", "removed"}]
      /\ part' \in [Uploads -> [Parts -> {"none", "cut", "whole"}]]
      /\ name' \in [Uploads -> Jobs \cup {NoFile}]
      /\ \A u \in Uploads : dir'[u] # "there" =>
            name'[u] = NoFile /\ part'[u] = [i \in Parts |-> "none"]
      /\ inode' \in [Jobs -> [Parts -> Parts \cup {Hole}]]
      /\ pos' \in [Jobs -> 1..(ChunkCount + 1)] /\ exact' \in [Jobs -> BOOLEAN]
      /\ fd' \in [Jobs -> Jobs \cup {NoFile}] /\ offset' \in [Jobs -> 1..(ChunkCount + 1)]
      /\ saved' \in [Jobs -> {"none", "whole", "broken", "cut", "deleted"}]
  BY JobShaped
<1>7. TypeOK'
  BY <1>2, <1>4, <1>5, <1>6 DEF TypeOK
<1>8. ASSUME NEW k \in Jobs
      PROVE  /\ step'[k] # "none" => k \in JobsOf(k[1])'
             /\ step'[k] \in Past => pos'[k] = ChunkCount + 1
             /\ step'[k] \notin Past => pos'[k] <= ChunkCount
             /\ offset'[k] <= pos'[k]
  <2>1. CASE k = j
    BY <1>1, <1>3, <2>1, JobShaped
  <2>2. CASE k # j
    <3>1. step'[k] = step[k] /\ pos'[k] = pos[k] /\ offset'[k] = offset[k]
      BY <1>2, <2>2 DEF OthersStay
    <3>2. k[1] \in Requests
      BY JobForm
    <3> QED
      BY <1>3, <3>1, <3>2 DEF Shaped, Places
  <2> QED
    BY <2>1, <2>2
<1>9. Places'
  BY <1>8 DEF Places
<1> QED
  BY <1>2, <1>7, <1>9 DEF Shaped

-----------------------------------------------------------------------------
(* The other steps, in two groups: of upload sessions and their parts, and of a      *)
(* request after its merges.                                                        *)

Sender ==
    \/ \E u \in Uploads : InitUpload(u)
    \/ \E s \in Senders, u \in Uploads, i \in Parts : PartOpen(s, u, i)
    \/ \E s \in Senders : PartWrite(s) \/ CrashPart(s)

Answer(r) ==
    \/ MessageCreate(r) \/ BundleOk(r) \/ BundleRaises(r)
    \/ \E j \in Jobs : Attach(r, j)

LEMMA NextCases ==
  ASSUME Next
  PROVE  \/ Sender
         \/ \E r \in Requests : \E b \in Bundles[r] : BundleBegin(r, b)
         \/ \E j \in Jobs : Merge(j)
         \/ \E r \in Requests : Answer(r) \/ CrashBundle(r)
         \/ \E r \in Requests, M \in SUBSET Jobs : BundleJoin(r, M)
BY DEF Next, Sender, Answer

\* Sessions and parts touch no job and no request; they raise disturbed for the jobs on
\* the upload whose part is opened.
LEMMA SendersMove ==
  ASSUME Shaped, Sender
  PROVE  /\ UNCHANGED <<name, inode, step, pos, exact, fd, offset, saved, bundle, pc, kept, attached,
                        botched>>
         /\ dir' \in [Uploads -> {"none", "there", "removed"}]
         /\ part' \in [Uploads -> [Parts -> {"none", "cut", "whole"}]]
         /\ writing' \in [Senders -> (Uploads \X Parts) \cup {Nothing}]
         /\ disturbed \subseteq disturbed' /\ disturbed' \subseteq Jobs
         /\ faults' \in Nat
         /\ \A u \in Uploads :
               /\ dir[u] # "none" => dir'[u] = dir[u]
               /\ dir'[u] # "there" => dir[u] # "there" /\ part'[u] = part[u]
               /\ Merging(u) \subseteq disturbed' \/ Sending(u)' \subseteq Sending(u)
               /\ part'[u] = part[u] \/ Merging(u) \subseteq disturbed' \/ Sending(u) # {}
<1>1. /\ dir \in [Uploads -> {"none", "there", "removed"}]
      /\ part \in [Uploads -> [Parts -> {"none", "cut", "whole"}]]
      /\ writing \in [Senders -> (Uploads \X Parts) \cup {Nothing}]
      /\ disturbed \subseteq Jobs /\ faults \in Nat
  BY DEF Shaped, TypeOK
<1>2. \A u : Merging(u) \subseteq Jobs
  BY DEF Merging
<1>3. CASE \E u \in Uploads : InitUpload(u)
  <2>1. PICK u \in Uploads : InitUpload(u)
    BY <1>3
  <2>2. dir[u] = "none" /\ dir' = [dir EXCEPT ![u] = "there"]
        /\ UNCHANGED <<part, name, inode, writing, step, pos, exact, fd, offset, saved, bundle, pc,
                       kept, attached, disturbed, botched, faults>>
    BY <2>1 DEF InitUpload, jobVars, requestVars
  <2>3. \A v \in Uploads : Sending(v)' = Sending(v)
    BY <2>2 DEF Sending
  <2> QED
    BY <1>1, <2>2, <2>3
<1>4. CASE \E s \in Senders, u \in Uploads, i \in Parts : PartOpen(s, u, i)
  <2>1. PICK s \in Senders, u \in Uploads, i \in Parts : PartOpen(s, u, i)
    BY <1>4
  <2>2. /\ writing[s] = Nothing /\ dir[u] = "there"
        /\ part' = [part EXCEPT ![u][i] = "cut"]
        /\ writing' = [writing EXCEPT ![s] = <<u, i>>]
        /\ disturbed' = disturbed \cup Merging(u)
        /\ UNCHANGED <<dir, name, inode, step, pos, exact, fd, offset, saved, bundle, pc,
                       kept, attached, botched, faults>>
    BY <2>1 DEF PartOpen, jobVars, requestVars
  <2>3. \A v \in Uploads : v # u => part'[v] = part[v] /\ Sending(v)' = Sending(v)
    <3> TAKE v \in Uploads
    <3> HAVE v # u
    <3>1. part'[v] = part[v]
      BY <1>1, <2>2
    <3>2. \A t \in Senders : (writing'[t] # Nothing /\ writing'[t][1] = v)
                           <=> (writing[t] # Nothing /\ writing[t][1] = v)
      BY <1>1, <2>2 DEF Nothing
    <3> QED
      BY <3>1, <3>2 DEF Sending
  <2>4. part' \in [Uploads -> [Parts -> {"none", "cut", "whole"}]]
    BY <1>1, <2>2
  <2>5. writing' \in [Senders -> (Uploads \X Parts) \cup {Nothing}]
    BY <1>1, <2>2
  <2> QED
    BY <1>1, <1>2, <2>2, <2>3, <2>4, <2>5
<1>5. CASE \E s \in Senders : PartWrite(s)
  <2>1. PICK s \in Senders : PartWrite(s)
    BY <1>5
  <2>2. PICK u \in Uploads, i \in Parts : writing[s] = <<u, i>>
    BY <1>1, <2>1 DEF PartWrite
  <2>3. /\ part' = IF dir[u] = "there" THEN [part EXCEPT ![u][i] = "whole"] ELSE part
        /\ writing' = [writing EXCEPT ![s] = Nothing]
        /\ UNCHANGED <<dir, name, inode, step, pos, exact, fd, offset, saved, bundle, pc,
                       kept, attached, disturbed, botched, faults>>
    BY <2>1, <2>2 DEF PartWrite, jobVars, requestVars
  <2>4. s \in Sending(u)
    BY <2>1, <2>2 DEF Sending, PartWrite
  <2>5. \A v \in Uploads : Sending(v)' \subseteq Sending(v)
    BY <1>1, <2>3 DEF Sending
  <2>6. part' \in [Uploads -> [Parts -> {"none", "cut", "whole"}]]
    BY <1>1, <2>3
  <2>7. \A v \in Uploads : (v # u => part'[v] = part[v])
                        /\ (dir[v] # "there" => part'[v] = part[v])
    BY <1>1, <2>3
  <2>8. writing' \in [Senders -> (Uploads \X Parts) \cup {Nothing}]
    BY <1>1, <2>3
  <2> QED
    BY <1>1, <2>3, <2>4, <2>5, <2>6, <2>7, <2>8
<1>6. CASE \E s \in Senders : CrashPart(s)
  <2>1. PICK s \in Senders : CrashPart(s)
    BY <1>6
  <2>2. /\ writing' = [writing EXCEPT ![s] = Nothing] /\ faults' = faults + 1
        /\ UNCHANGED <<dir, part, name, inode, step, pos, exact, fd, offset, saved, bundle, pc,
                       kept, attached, disturbed, botched>>
    BY <2>1 DEF CrashPart, files, jobVars, requestVars
  <2>3. \A v \in Uploads : Sending(v)' \subseteq Sending(v)
    BY <1>1, <2>2 DEF Sending
  <2>4. writing' \in [Senders -> (Uploads \X Parts) \cup {Nothing}]
    BY <1>1, <2>2
  <2> QED
    BY <1>1, <2>2, <2>3, <2>4
<1> QED
  BY <1>3, <1>4, <1>5, <1>6 DEF Sender

LEMMA SenderShaped ==
  ASSUME Shaped, Sender
  PROVE  Shaped'
<1>1. /\ UNCHANGED <<name, inode, step, pos, exact, fd, offset, saved, bundle, pc, kept, attached,
                        botched>>
      /\ dir' \in [Uploads -> {"none", "there", "removed"}]
      /\ part' \in [Uploads -> [Parts -> {"none", "cut", "whole"}]]
      /\ writing' \in [Senders -> (Uploads \X Parts) \cup {Nothing}]
      /\ disturbed' \subseteq Jobs
      /\ faults' \in Nat
      /\ \A u \in Uploads : dir'[u] # "there" => dir[u] # "there" /\ part'[u] = part[u]
  BY SendersMove
<1>2. \A r \in Requests : JobsOf(r)' = JobsOf(r)
  BY <1>1 DEF JobsOf
<1>3. TypeOK'
  BY <1>1, <1>2 DEF Shaped, TypeOK
<1>4. Places'
  BY <1>1, <1>2, JobForm DEF Shaped, Places
<1> QED
  BY <1>1, <1>3, <1>4 DEF Shaped

\* What comes of a request after its merges, as far as its jobs are concerned.
LEMMA AnswersMove ==
  ASSUME Shaped, NEW r \in Requests, Answer(r)
  PROVE  /\ UNCHANGED <<dir, part, name, inode, writing, step, pos, exact, fd, offset, saved,
                        bundle, kept, disturbed, botched>>
         /\ pc[r] \in {"create", "attach"}
         /\ pc' \in [Requests -> {"new", "merge", "create", "attach", "ok", "error", "raised", "dead"}]
         /\ pc'[r] \in {"attach", "ok", "raised"}
         /\ \A q \in Requests : q # r => pc'[q] = pc[q] /\ attached'[q] = attached[q]
         /\ attached'[r] \subseteq kept[r]
         /\ attached' = [q \in Requests |-> attached'[q]]
         /\ pc'[r] = "ok" => attached'[r] = kept[r]
         /\ faults' \in Nat
<1>1. /\ pc \in [Requests -> {"new", "merge", "create", "attach", "ok", "error", "raised", "dead"}]
      /\ attached = [q \in Requests |-> attached[q]]
      /\ attached[r] \subseteq kept[r] /\ faults \in Nat
  BY DEF Shaped, TypeOK
<1>2. CASE MessageCreate(r)
  BY <1>1, <1>2 DEF MessageCreate, files, jobVars
<1>3. CASE BundleOk(r)
  BY <1>1, <1>3 DEF BundleOk, files, jobVars
<1>4. CASE BundleRaises(r)
  BY <1>1, <1>4 DEF BundleRaises, files, jobVars
<1>5. CASE \E j \in Jobs : Attach(r, j)
  BY <1>1, <1>5 DEF Attach, files, jobVars
<1> QED
  BY <1>2, <1>3, <1>4, <1>5 DEF Answer

LEMMA AnswerShaped ==
  ASSUME Shaped, NEW r \in Requests, Answer(r)
  PROVE  Shaped'
<1>1. /\ UNCHANGED <<dir, part, name, inode, writing, step, pos, exact, fd, offset, saved,
                     bundle, kept, disturbed, botched>>
      /\ pc' \in [Requests -> {"new", "merge", "create", "attach", "ok", "error", "raised", "dead"}]
      /\ pc'[r] \in {"attach", "ok", "raised"}
      /\ \A q \in Requests : q # r => pc'[q] = pc[q] /\ attached'[q] = attached[q]
      /\ attached'[r] \subseteq kept[r]
      /\ attached' = [q \in Requests |-> attached'[q]]
      /\ faults' \in Nat
  BY AnswersMove
<1>2. \A q \in Requests : JobsOf(q)' = JobsOf(q)
  BY <1>1 DEF JobsOf
<1>3. \A q \in Requests : attached'[q] \subseteq kept[q] /\ kept[q] \subseteq JobsOf(q)'
  <2>1. \A q \in Requests : attached[q] \subseteq kept[q] /\ kept[q] \subseteq JobsOf(q)
    BY DEF Shaped, TypeOK
  <2>2. \A q \in Requests : attached'[q] \subseteq kept[q]
    BY <1>1, <2>1
  <2> QED
    BY <1>2, <2>1, <2>2
<1>4. TypeOK'
  BY <1>1, <1>3 DEF Shaped, TypeOK
<1>5. Places'
  BY <1>1, <1>2, JobForm DEF Shaped, Places
<1>6. \A q \in Requests : (pc'[q] = "new" => bundle'[q] = <<>>)
                       /\ (pc'[q] \in {"new", "merge", "error"} => kept'[q] = {})
  BY <1>1 DEF Shaped
<1> QED
  BY <1>1, <1>4, <1>5, <1>6 DEF Shaped

LEMMA CrashMoves ==
  ASSUME Shaped, NEW r \in Requests, CrashBundle(r)
  PROVE  /\ UNCHANGED <<dir, part, name, inode, writing, saved, bundle, kept, attached, disturbed,
                        botched>>
         /\ faults' \in Nat
         /\ pc[r] \in {"merge", "create", "attach"}
         /\ pc' = [pc EXCEPT ![r] = "dead"]
         /\ step' \in [Jobs -> Running \cup Ended \cup {"none"}]
         /\ pos' \in [Jobs -> 1..(ChunkCount + 1)] /\ exact' \in [Jobs -> BOOLEAN]
         /\ fd' \in [Jobs -> Jobs \cup {NoFile}] /\ offset' \in [Jobs -> 1..(ChunkCount + 1)]
         /\ \A j \in JobsOf(r) : step[j] \in Running =>
               step'[j] = "failed" /\ pos'[j] = 1 /\ fd'[j] = NoFile /\ offset'[j] = 1
         /\ \A j \in Jobs : j \notin JobsOf(r) \/ step[j] \notin Running =>
               /\ step'[j] = step[j] /\ pos'[j] = pos[j] /\ exact'[j] = exact[j]
               /\ fd'[j] = fd[j] /\ offset'[j] = offset[j]
<1> DEFINE J == {j \in JobsOf(r) : step[j] \in Running}
<1>1. /\ UNCHANGED <<dir, part, name, inode, writing, saved, bundle, kept, attached, disturbed,
                        botched>>
      /\ faults' = faults + 1
      /\ pc[r] \in {"merge", "create", "attach"}
      /\ pc' = [pc EXCEPT ![r] = "dead"]
      /\ Results(J, "failed")
  BY DEF CrashBundle, files
<1>2. TypeOK /\ faults \in Nat
  BY DEF Shaped, TypeOK
<1>3. J \in SUBSET Jobs /\ "failed" \in Ended
  BY <1>2, JobsOfForm DEF Ended
<1> HIDE DEF J
<1>4. /\ step' \in [Jobs -> Running \cup Ended \cup {"none"}]
      /\ pos' \in [Jobs -> 1..(ChunkCount + 1)] /\ exact' \in [Jobs -> BOOLEAN]
      /\ fd' \in [Jobs -> Jobs \cup {NoFile}] /\ offset' \in [Jobs -> 1..(ChunkCount + 1)]
  BY <1>1, <1>2, <1>3, ResultsShaped
<1>5. \A j \in J : step'[j] = "failed" /\ pos'[j] = 1 /\ fd'[j] = NoFile /\ offset'[j] = 1
  <2>1. J \subseteq Jobs
    BY <1>3
  <2> QED
    BY <1>1, <2>1 DEF Results
<1>6. \A j \in Jobs \ J : /\ step'[j] = step[j] /\ pos'[j] = pos[j] /\ exact'[j] = exact[j]
                          /\ fd'[j] = fd[j] /\ offset'[j] = offset[j]
  BY <1>1, <1>2, <1>3, ResultsShaped
<1> QED
  BY <1>1, <1>2, <1>4, <1>5, <1>6 DEF J

LEMMA CrashShaped ==
  ASSUME Shaped, NEW r \in Requests, CrashBundle(r)
  PROVE  Shaped'
<1>1. /\ UNCHANGED <<dir, part, name, inode, writing, saved, bundle, kept, attached, disturbed,
                        botched>>
      /\ faults' \in Nat
      /\ pc' = [pc EXCEPT ![r] = "dead"]
      /\ step' \in [Jobs -> Running \cup Ended \cup {"none"}]
      /\ pos' \in [Jobs -> 1..(ChunkCount + 1)] /\ exact' \in [Jobs -> BOOLEAN]
      /\ fd' \in [Jobs -> Jobs \cup {NoFile}] /\ offset' \in [Jobs -> 1..(ChunkCount + 1)]
  BY CrashMoves
<1>2. \A q \in Requests : JobsOf(q)' = JobsOf(q)
  BY <1>1 DEF JobsOf
<1>3. \A q \in Requests : attached[q] \subseteq kept[q] /\ kept[q] \subseteq JobsOf(q)'
  BY <1>2 DEF Shaped, TypeOK
<1>4. pc' \in [Requests -> {"new", "merge", "create", "attach", "ok", "error", "raised", "dead"}]
  BY <1>1 DEF Shaped, TypeOK
<1>5. TypeOK'
  BY <1>1, <1>3, <1>4 DEF Shaped, TypeOK
<1>6. ASSUME NEW j \in Jobs
      PROVE  /\ step'[j] # "none" => j \in JobsOf(j[1])'
             /\ step'[j] \in Past => pos'[j] = ChunkCount + 1
             /\ step'[j] \notin Past => pos'[j] <= ChunkCount
             /\ offset'[j] <= pos'[j]
  <2>1. /\ step[j] # "none" => j \in JobsOf(j[1])
        /\ step[j] \in Past => pos[j] = ChunkCount + 1
        /\ step[j] \notin Past => pos[j] <= ChunkCount
        /\ offset[j] <= pos[j]
        /\ j[1] \in Requests
    BY JobForm DEF Shaped, Places
  <2>2. CASE j \in JobsOf(r) /\ step[j] \in Running
    <3>1. step'[j] = "failed" /\ pos'[j] = 1 /\ offset'[j] = 1
      BY <2>2, CrashMoves
    <3>2. step'[j] \notin Past /\ step[j] # "none"
      BY <2>2, <3>1 DEF Past, Running
    <3> QED
      BY <1>2, <2>1, <3>1, <3>2, ChunkCountAssumption
  <2>3. CASE ~ (j \in JobsOf(r) /\ step[j] \in Running)
    <3>1. step'[j] = step[j] /\ pos'[j] = pos[j] /\ offset'[j] = offset[j]
      BY <2>3, CrashMoves
    <3> QED
      BY <1>2, <2>1, <3>1
  <2> QED
    BY <2>2, <2>3
<1>7. Places'
  BY <1>6 DEF Places
<1>8. \A q \in Requests : (pc'[q] = "new" => bundle'[q] = <<>>)
                       /\ (pc'[q] \in {"new", "merge", "error"} => kept'[q] = {})
  BY <1>1 DEF Shaped, TypeOK
<1> QED
  BY <1>1, <1>5, <1>7, <1>8 DEF Shaped

\* A bundle whose merges have ended: either all went well and it keeps one file of each
\* upload, or it deletes them.
LEMMA JoinMoves ==
  ASSUME Shaped, NEW r \in Requests, NEW M \in SUBSET Jobs, BundleJoin(r, M)
  PROVE  /\ UNCHANGED <<dir, part, name, inode, writing, step, pos, exact, fd, offset, bundle,
                        attached, disturbed>>
         /\ faults' \in Nat /\ botched \subseteq botched' /\ botched' \subseteq Jobs
         /\ saved' \in [Jobs -> {"none", "whole", "broken", "cut", "deleted"}]
         /\ \A j \in Jobs : saved'[j] = saved[j] \/ (j \in M /\ saved'[j] = "deleted")
         /\ pc[r] = "merge" /\ kept[r] = {} /\ attached[r] = {}
         /\ \A j \in JobsOf(r) : step[j] \in Ended
         /\ M \subseteq JobsOf(r)
         /\ \A j \in M : step[j] = "merged"
         /\ \A j \in JobsOf(r) : step[j] = "merged" => \E k \in M : UploadOf(k) = UploadOf(j)
         /\ \/ /\ pc' = [pc EXCEPT ![r] = "error"]
               /\ \A j \in M : saved'[j] = "deleted" \/ j \in botched'
               /\ kept' = kept
            \/ /\ pc' = [pc EXCEPT ![r] = "create"]
               /\ saved' = saved
               /\ kept' = [kept EXCEPT ![r] = M]
               /\ \A j \in JobsOf(r) : step[j] = "merged"
<1>1. M \subseteq Merged(r) /\ {UploadOf(j) : j \in M} = {UploadOf(j) : j \in Merged(r)}
  BY DEF BundleJoin, ByUid
<1>2. M \subseteq JobsOf(r) /\ \A j \in M : step[j] = "merged"
  BY <1>1 DEF Merged
<1>3. \A j \in JobsOf(r) : step[j] = "merged" => \E k \in M : UploadOf(k) = UploadOf(j)
  <2> TAKE j \in JobsOf(r)
  <2> HAVE step[j] = "merged"
  <2>1. j \in Merged(r)
    BY DEF Merged
  <2>2. UploadOf(j) \in {UploadOf(k) : k \in Merged(r)}
    BY <2>1
  <2> HIDE DEF Merged, UploadOf
  <2>3. UploadOf(j) \in {UploadOf(k) : k \in M}
    BY <1>1, <2>2
  <2> QED
    BY <2>3
<1>4. kept[r] = {} /\ attached[r] = {}
  BY DEF BundleJoin, Shaped, TypeOK
<1>7. /\ saved \in [Jobs -> {"none", "whole", "broken", "cut", "deleted"}]
      /\ faults \in Nat /\ botched \subseteq Jobs
  BY DEF Shaped, TypeOK
<1>8. /\ UNCHANGED <<dir, part, name, inode, writing, step, pos, exact, fd, offset, bundle,
                     attached, disturbed>>
      /\ pc[r] = "merge" /\ \A j \in JobsOf(r) : step[j] \in Ended
  BY DEF BundleJoin, files
<1>5. CASE Failed(r)
  <2>1. Discard(M) /\ pc' = [pc EXCEPT ![r] = "error"] /\ kept' = kept
    BY <1>5 DEF BundleJoin
  <2>2. PICK stuck \in SUBSET M :
            /\ faults' = IF stuck = {} THEN faults ELSE faults + 1
            /\ saved' = [j \in Jobs |-> IF j \in M \ stuck THEN "deleted" ELSE saved[j]]
            /\ botched' = botched \cup stuck
    BY <2>1 DEF Discard
  <2>3. /\ faults' \in Nat /\ botched \subseteq botched' /\ botched' \subseteq Jobs
        /\ saved' \in [Jobs -> {"none", "whole", "broken", "cut", "deleted"}]
        /\ \A j \in Jobs : saved'[j] = saved[j] \/ (j \in M /\ saved'[j] = "deleted")
        /\ \A j \in M : saved'[j] = "deleted" \/ j \in botched'
    BY <1>7, <2>2
  <2> QED
    BY <1>2, <1>3, <1>4, <1>8, <2>1, <2>3
<1>6. CASE ~ Failed(r)
  <2>1. \A j \in JobsOf(r) : step[j] = "merged"
    BY <1>6 DEF Failed, BundleJoin, Ended
  <2>2. pc' = [pc EXCEPT ![r] = "create"] /\ kept' = [kept EXCEPT ![r] = M]
        /\ UNCHANGED <<saved, botched, faults>>
    BY <1>6 DEF BundleJoin
  <2> QED
    BY <1>2, <1>3, <1>4, <1>7, <1>8, <2>1, <2>2
<1> QED
  BY <1>5, <1>6

LEMMA JoinShaped ==
  ASSUME Shaped, NEW r \in Requests, NEW M \in SUBSET Jobs, BundleJoin(r, M)
  PROVE  Shaped'
<1>1. /\ UNCHANGED <<dir, part, name, inode, writing, step, pos, exact, fd, offset, bundle,
                     attached, disturbed>>
      /\ faults' \in Nat /\ botched' \subseteq Jobs
      /\ saved' \in [Jobs -> {"none", "whole", "broken", "cut", "deleted"}]
      /\ pc[r] = "merge" /\ kept[r] = {} /\ attached[r] = {}
      /\ M \subseteq JobsOf(r)
      /\ \/ /\ pc' = [pc EXCEPT ![r] = "error"]
            /\ kept' = kept
         \/ /\ pc' = [pc EXCEPT ![r] = "create"]
            /\ kept' = [kept EXCEPT ![r] = M]
  BY JoinMoves
<1>2. \A q \in Requests : JobsOf(q)' = JobsOf(q)
  BY <1>1 DEF JobsOf
<1>3. \A q \in Requests : attached[q] \subseteq kept[q] /\ kept[q] \subseteq JobsOf(q)
  BY DEF Shaped, TypeOK
<1>4. \A q \in Requests : q # r => kept'[q] = kept[q] /\ pc'[q] = pc[q]
  BY <1>1 DEF Shaped, TypeOK
<1>5. kept'[r] \in {{}, M}
  BY <1>1 DEF Shaped
<1>6. \A q \in Requests : attached[q] \subseteq kept'[q] /\ kept'[q] \subseteq JobsOf(q)'
  <2> TAKE q \in Requests
  <2>1. CASE q = r
    BY <1>1, <1>2, <1>5, <2>1
  <2>2. CASE q # r
    BY <1>2, <1>3, <1>4, <2>2
  <2> QED
    BY <2>1, <2>2
<1>7. pc' \in [Requests -> {"new", "merge", "create", "attach", "ok", "error", "raised", "dead"}]
  <2>1. pc \in [Requests -> {"new", "merge", "create", "attach", "ok", "error", "raised", "dead"}]
    BY DEF Shaped, TypeOK
  <2>2. pc' = [pc EXCEPT ![r] = "error"] \/ pc' = [pc EXCEPT ![r] = "create"]
    BY <1>1
  <2> QED
    BY <2>1, <2>2
<1>8. TypeOK'
  BY <1>1, <1>6, <1>7 DEF Shaped, TypeOK
<1>9. Places'
  BY <1>1, <1>2, JobForm DEF Shaped, Places
<1>10. \A q \in Requests : (pc'[q] = "new" => bundle'[q] = <<>>)
                        /\ (pc'[q] \in {"new", "merge", "error"} => kept'[q] = {})
  BY <1>1, <1>4 DEF Shaped, TypeOK
<1>11. kept' = [q \in Requests |-> kept'[q]]
  BY <1>1 DEF Shaped
<1> QED
  BY <1>1, <1>8, <1>9, <1>10, <1>11 DEF Shaped

LEMMA ShapedStays == Shaped /\ [Next]_vars => Shaped'
<1> SUFFICES ASSUME Shaped, [Next]_vars PROVE Shaped'
  OBVIOUS
<1>1. CASE Next
  BY <1>1, NextCases, SenderShaped, BeginShaped, MergeShaped, AnswerShaped, CrashShaped, JoinShaped
<1>2. CASE UNCHANGED vars
  <2>1. /\ UNCHANGED <<dir, part, name, inode, writing, bundle, pc, step, pos, exact, fd, offset>>
        /\ UNCHANGED <<saved, kept, attached, disturbed, botched, faults>>
    BY <1>2 DEF vars
  <2>2. \A q \in Requests : JobsOf(q)' = JobsOf(q)
    BY <2>1 DEF JobsOf
  <2>3. TypeOK'
    BY <2>1, <2>2 DEF Shaped, TypeOK
  <2>4. Places'
    BY <2>1, <2>2, JobForm DEF Shaped, Places
  <2> QED
    BY <2>1, <2>3, <2>4 DEF Shaped
<1> QED
  BY <1>1, <1>2

-----------------------------------------------------------------------------
(* What is in the storage.                                                          *)

\* One job's step, as the storage sees it.
LEMMA JobStores ==
  ASSUME Shaped, Stored, NEW j \in Jobs, Merge(j)
  PROVE  /\ step'[j] \in {"unlink", "rmtree", "merged"} => saved'[j] \notin {"none", "cut"}
         /\ step'[j] \notin {"unlink", "rmtree", "merged"} =>
               saved'[j] = "none" \/ (step'[j] = "failed" /\ j \in botched')
         /\ saved'[j] # "deleted"
<1>1. /\ step \in [Jobs -> Running \cup Ended \cup {"none"}]
      /\ saved \in [Jobs -> {"none", "whole", "broken", "cut", "deleted"}]
      /\ step[j] \in Running
  BY JobsMove DEF Shaped, TypeOK
<1>2. /\ step[j] \in {"unlink", "rmtree"} => saved[j] \notin {"none", "cut"}
      /\ step[j] \in {"start", "size", "copy", "compare", "save"} => saved[j] = "none"
      /\ saved[j] # "deleted"
  BY <1>1, JobsMove DEF Stored
<1>3. CASE Fail(j) /\ saved' = saved /\ step[j] \in {"start", "size", "copy", "compare", "save"}
  <2>1. step'[j] = "failed"
    BY <1>3, FailShaped DEF Shaped
  <2> QED
    BY <1>2, <1>3, <2>1
<1>4. CASE JobOpen(j) /\ ~ Fail(j)
  BY <1>1, <1>2, <1>4 DEF JobOpen
<1>5. CASE JobSize(j) /\ ~ Fail(j)
  BY <1>1, <1>2, <1>5 DEF JobSize
<1>6. CASE JobCopy(j) /\ ~ Fail(j)
  BY <1>1, <1>2, <1>6 DEF JobCopy
<1>7. CASE JobCompare(j) /\ ~ Fail(j)
  BY <1>1, <1>2, <1>7 DEF JobCompare
<1>8. CASE JobSave(j) /\ ~ Fail(j)
  BY <1>1, <1>2, <1>8 DEF JobSave
<1>9. CASE JobUnlink(j)
  BY <1>1, <1>2, <1>9 DEF JobUnlink
<1>10. CASE JobRmtree(j)
  BY <1>1, <1>2, <1>10 DEF JobRmtree, Results
<1>11. /\ JobOpen(j) /\ Fail(j) => saved' = saved /\ step[j] = "start"
       /\ JobSize(j) => saved' = saved /\ step[j] = "size"
       /\ JobCopy(j) => saved' = saved /\ step[j] = "copy"
       /\ JobCompare(j) => saved' = saved /\ step[j] = "compare"
  BY DEF JobOpen, JobSize, JobCopy, JobCompare
<1>13. CASE JobSaveRaises(j)
  <2>1. step'[j] = "failed"
    BY <1>13, FailShaped DEF Shaped, JobSaveRaises
  <2>2. j \in botched' /\ saved'[j] \in {"none", "cut"}
    BY <1>1, <1>13 DEF JobSaveRaises
  <2> QED
    BY <2>1, <2>2
<1>12. ASSUME JobSave(j), Fail(j) PROVE saved' = saved /\ step[j] = "save"
  <2>1. step'[j] = "failed" /\ step[j] = "save"
    BY <1>12, FailShaped DEF Shaped, JobSave
  <2>2. ~ (step' = [step EXCEPT ![j] = "unlink"])
    BY <1>1, <2>1
  <2> QED
    BY <1>12, <2>1, <2>2 DEF JobSave
<1> QED
  BY <1>3, <1>4, <1>5, <1>6, <1>7, <1>8, <1>9, <1>10, <1>11, <1>12, <1>13 DEF Merge

\* The rest of Stored says the same of every job; a request may take its jobs' files
\* away but one that waits for them does not.
LEMMA StoredStays ==
  ASSUME Shaped, Stored, [Next]_vars
  PROVE  Stored'
<1> DEFINE S(j) == /\ step[j] \in {"unlink", "rmtree", "merged"} => saved[j] \notin {"none", "cut"}
                   /\ step[j] \in {"none", "start", "size", "copy", "compare", "save"} => saved[j] = "none"
                   /\ step[j] = "failed" => saved[j] = "none" \/ j \in botched \/ pc[j[1]] = "dead"
                   /\ saved[j] = "deleted" => pc[j[1]] = "error"
                   /\ step[j] \in Running => pc[j[1]] = "merge"
<1> SUFFICES ASSUME NEW j \in Jobs PROVE S(j)'
  BY DEF Stored
<1>1. S(j) /\ j[1] \in Requests
  BY JobForm DEF Stored
<1>2. pc \in [Requests -> {"new", "merge", "create", "attach", "ok", "error", "raised", "dead"}]
      /\ step \in [Jobs -> Running \cup Ended \cup {"none"}]
  BY DEF Shaped, TypeOK
<1>3. CASE Sender \/ UNCHANGED vars
  <2>1. UNCHANGED <<step, saved, pc, botched>>
    BY <1>3, SendersMove DEF vars
  <2> QED
    BY <1>1, <2>1
<1>4. ASSUME NEW r \in Requests, NEW b \in Bundles[r], BundleBegin(r, b) PROVE S(j)'
  <2>1. UNCHANGED <<saved, botched>> /\ pc[r] = "new"
        /\ pc' \in {[pc EXCEPT ![r] = "merge"], [pc EXCEPT ![r] = "error"]}
        /\ (step'[j] = step[j] \/ (step'[j] = "start" /\ j[1] = r /\ pc'[r] = "merge"))
    BY <1>2, <1>4 DEF BundleBegin
  <2>2. CASE j[1] = r
    <3>1. step[j] = "none"
      BY <2>1, <2>2, Begun
    <3> QED
      BY <1>1, <1>2, <2>1, <2>2, <3>1 DEF Running
  <2>3. CASE j[1] # r
    BY <1>1, <1>2, <2>1, <2>3
  <2> QED
    BY <2>2, <2>3
<1>5. ASSUME NEW k \in Jobs, Merge(k) PROVE S(j)'
  <2>1. pc' = pc /\ (j # k => step'[j] = step[j] /\ saved'[j] = saved[j]) /\ step[k] \in Running
        /\ step'[k] \in (Running \ {"start"}) \cup Ended /\ botched \subseteq botched'
    BY <1>5, JobsMove DEF JobFrame, OthersStay
  <2>2. CASE j # k
    BY <1>1, <2>1, <2>2
  <2>3. CASE j = k
    BY <1>1, <1>5, <2>1, <2>3, JobStores
  <2> QED
    BY <2>2, <2>3
<1>6. ASSUME NEW r \in Requests, Answer(r) PROVE S(j)'
  <2>1. UNCHANGED <<step, saved, botched>> /\ pc[r] \in {"create", "attach"}
        /\ \A q \in Requests : q # r => pc'[q] = pc[q]
    BY <1>6, AnswersMove
  <2>2. CASE j[1] = r
    BY <1>1, <2>1, <2>2 DEF Running
  <2>3. CASE j[1] # r
    BY <1>1, <2>1, <2>3
  <2> QED
    BY <2>2, <2>3
<1>7. ASSUME NEW r \in Requests, CrashBundle(r) PROVE S(j)'
  <2>1. UNCHANGED <<saved, botched>> /\ pc[r] \in {"merge", "create", "attach"} /\ pc' = [pc EXCEPT ![r] = "dead"]
        /\ (j \in JobsOf(r) /\ step[j] \in Running => step'[j] = "failed")
        /\ (j \notin JobsOf(r) \/ step[j] \notin Running => step'[j] = step[j])
    BY <1>7, CrashMoves
  <2>2. CASE j[1] = r
    <3>1. step[j] \in Running => j \in JobsOf(r)
      BY <2>2, Begun DEF Running
    <3>2. step'[j] \notin Running
      BY <2>1, <3>1 DEF Running
    <3>3. pc'[j[1]] = "dead" /\ saved[j] # "deleted"
      BY <1>1, <1>2, <2>1, <2>2
    <3>4. step'[j] = step[j] \/ step'[j] = "failed"
      BY <2>1, <3>1
    <3> QED
      BY <1>1, <2>1, <3>2, <3>3, <3>4
  <2>3. CASE j[1] # r
    <3>1. j \notin JobsOf(r)
      BY <2>3, JobsOfForm DEF Shaped
    <3> QED
      BY <1>1, <1>2, <2>1, <2>3, <3>1
  <2> QED
    BY <2>2, <2>3
<1>8. ASSUME NEW r \in Requests, NEW M \in SUBSET Jobs, BundleJoin(r, M) PROVE S(j)'
  <2>1. step' = step /\ pc[r] = "merge" /\ M \subseteq JobsOf(r)
        /\ (j \in M => step[j] = "merged")
        /\ (j \in JobsOf(r) => step[j] \in Ended)
        /\ botched \subseteq botched' /\ (saved'[j] = saved[j] \/ (j \in M /\ saved'[j] = "deleted"))
        /\ \/ pc' = [pc EXCEPT ![r] = "error"]
           \/ pc' = [pc EXCEPT ![r] = "create"] /\ saved' = saved
    BY <1>8, JoinMoves
  <2>2. CASE j[1] = r
    <3>1. step[j] \notin Running
      BY <2>1, <2>2, Begun DEF Running, Ended
    <3>2. pc'[j[1]] \in {"error", "create"} /\ saved[j] # "deleted"
          /\ (saved'[j] # saved[j] => saved'[j] = "deleted" /\ pc'[j[1]] = "error" /\ step[j] = "merged")
      BY <1>1, <1>2, <2>1, <2>2
    <3>3. CASE saved'[j] = saved[j]
      BY <1>1, <2>1, <2>2, <3>1, <3>2, <3>3
    <3>4. CASE saved'[j] # saved[j]
      BY <2>1, <3>1, <3>2, <3>4
    <3> QED
      BY <3>3, <3>4
  <2>3. CASE j[1] # r
    <3>1. j \notin M
      BY <2>1, <2>3, JobsOfForm DEF Shaped
    <3> QED
      BY <1>1, <1>2, <2>1, <2>3, <3>1
  <2> QED
    BY <2>2, <2>3
<1> QED
  BY <1>3, <1>4, <1>5, <1>6, <1>7, <1>8, NextCases

LEMMA AnsweredStays ==
  ASSUME Shaped, Stored, Answered, [Next]_vars
  PROVE  Answered'
<1> DEFINE Keeps(r) == \A j \in kept[r] : step[j] = "merged"
           Covers(r) == pc[r] \in {"create", "attach", "ok"} =>
                           \A j \in JobsOf(r) : \E k \in kept[r] : UploadOf(k) = UploadOf(j)
           Attaches(r) == pc[r] = "ok" => attached[r] = kept[r]
           Clears(r) == pc[r] = "error" => \A j \in JobsOf(r) :
                           (\A k \in JobsOf(r) : UploadOf(k) = UploadOf(j) => k = j)
                              => saved[j] \in {"none", "deleted"} \/ j \in botched
           A(r) == Keeps(r) /\ Covers(r) /\ Attaches(r) /\ Clears(r)
<1> SUFFICES ASSUME NEW q \in Requests PROVE A(q)'
  BY DEF Answered
<1>1. A(q)
  BY DEF Answered
<1>2. TypeOK /\ kept[q] \subseteq JobsOf(q) /\ \A j \in JobsOf(q) : j \in Jobs /\ j[1] = q
  BY JobsOfForm DEF Shaped, TypeOK
<1>3. pc \in [Requests -> {"new", "merge", "create", "attach", "ok", "error", "raised", "dead"}]
  BY DEF Shaped, TypeOK
\* A step that leaves the request, its list, its jobs' results and files alone.
<1>4. ASSUME pc'[q] = pc[q], botched \subseteq botched', bundle'[q] = bundle[q], kept'[q] = kept[q], attached'[q] = attached[q],
             \A j \in JobsOf(q) : /\ step[j] = "merged" => step'[j] = "merged"
                                  /\ pc[q] = "error" => saved'[j] = saved[j]
      PROVE  A(q)'
  <2>1. JobsOf(q)' = JobsOf(q)
    BY <1>4 DEF JobsOf
  <2>2. \A j \in JobsOf(q) : UploadOf(j)' = UploadOf(j)
    BY <1>2, <1>4 DEF UploadOf
  <2>3. Keeps(q)'
    BY <1>1, <1>2, <1>4
  <2> HIDE DEF JobsOf, UploadOf
  <2>4. Covers(q)'
    <3> SUFFICES ASSUME pc[q] \in {"create", "attach", "ok"}, NEW j \in JobsOf(q)
                 PROVE  \E k \in kept[q] : UploadOf(k)' = UploadOf(j)'
      BY <1>4, <2>1
    <3>1. PICK k \in kept[q] : UploadOf(k) = UploadOf(j)
      BY <1>1
    <3>2. UploadOf(k)' = UploadOf(j)'
      BY <1>2, <2>2, <3>1
    <3> QED
      BY <3>2
  <2>5. Attaches(q)'
    BY <1>1, <1>4
  <2>6. Clears(q)'
    <3> SUFFICES ASSUME pc[q] = "error", NEW j \in JobsOf(q),
                        \A k \in JobsOf(q) : UploadOf(k)' = UploadOf(j)' => k = j
                 PROVE  saved'[j] \in {"none", "deleted"} \/ j \in botched'
      BY <1>4, <2>1
    <3>1. \A k \in JobsOf(q) : UploadOf(k) = UploadOf(j) => k = j
      BY <2>2
    <3> QED
      BY <1>1, <1>4, <3>1
  <2> QED
    BY <2>3, <2>4, <2>5, <2>6
<1>5. CASE Sender \/ UNCHANGED vars
  <2>1. UNCHANGED <<step, saved, pc, bundle, kept, attached, botched>>
    BY <1>5, SendersMove DEF vars
  <2> QED
    BY <1>4, <2>1
<1>6. ASSUME NEW r \in Requests, NEW b \in Bundles[r], BundleBegin(r, b) PROVE A(q)'
  <2>1. /\ UNCHANGED <<saved, kept, attached, botched>> /\ pc[r] = "new"
        /\ pc' \in {[pc EXCEPT ![r] = "merge"], [pc EXCEPT ![r] = "error"]}
        /\ bundle' = [bundle EXCEPT ![r] = b]
        /\ \A j \in Jobs : step'[j] = step[j] \/ (step'[j] = "start" /\ j[1] = r)
    BY <1>6 DEF BundleBegin, Shaped, TypeOK
  <2>2. CASE q # r
    <3>1. pc'[q] = pc[q] /\ bundle'[q] = bundle[q]
      BY <1>3, <2>1, <2>2 DEF Shaped
    <3> QED
      BY <1>2, <1>4, <2>1, <2>2, <3>1
  <2>3. CASE q = r
    <3>1. kept'[q] = {} /\ pc'[q] \in {"merge", "error"}
      BY <1>3, <2>1, <2>3 DEF Shaped
    <3>2. \A j \in Jobs : j[1] = r => saved[j] = "none"
      BY <2>1, Begun DEF Stored
    <3>3. \A j \in JobsOf(q)' : saved'[j] = "none"
      <4> TAKE j \in JobsOf(q)'
      <4>1. bundle'[q] = b
        BY <2>1, <2>3 DEF Shaped
      <4>2. PICK i \in DOMAIN b : j = <<r, i>>
        BY <2>3, <4>1 DEF JobsOf
      <4> QED
        BY <2>1, <3>2, <4>2, ListOf
    <3> HIDE DEF JobsOf, UploadOf
    <3>4. Clears(q)'
      BY <3>3
    <3> QED
      BY <3>1, <3>4
  <2> QED
    BY <2>2, <2>3
<1>7. ASSUME NEW k \in Jobs, Merge(k) PROVE A(q)'
  <2>1. /\ UNCHANGED <<pc, bundle, kept, attached>>
        /\ \A j \in Jobs : j # k => step'[j] = step[j] /\ saved'[j] = saved[j]
        /\ step[k] \in Running /\ pc[k[1]] = "merge" /\ botched \subseteq botched'
    BY <1>7, JobsMove DEF JobFrame, OthersStay, Stored
  <2>2. step[k] # "merged"
    BY <2>1 DEF Running
  <2> QED
    BY <1>2, <1>4, <2>1, <2>2
<1>8. ASSUME NEW r \in Requests, Answer(r) PROVE A(q)'
  <2>1. /\ UNCHANGED <<step, saved, bundle, kept, botched>>
        /\ pc[r] \in {"create", "attach"} /\ pc'[r] \in {"attach", "ok", "raised"}
        /\ q # r => pc'[q] = pc[q] /\ attached'[q] = attached[q]
        /\ pc'[r] = "ok" => attached'[r] = kept[r]
    BY <1>8, AnswersMove
  <2>2. CASE q # r
    BY <1>4, <2>1, <2>2
  <2>3. CASE q = r
    <3>1. JobsOf(q)' = JobsOf(q) /\ \A j \in JobsOf(q) : UploadOf(j)' = UploadOf(j)
      BY <2>1 DEF JobsOf, UploadOf
    <3>2. \A j \in JobsOf(q) : \E k \in kept[q] : UploadOf(k) = UploadOf(j)
      BY <1>1, <2>1, <2>3
    <3> HIDE DEF JobsOf, UploadOf
    <3>3. Covers(q)'
      <4> SUFFICES ASSUME NEW j \in JobsOf(q) PROVE \E k \in kept[q] : UploadOf(k)' = UploadOf(j)'
        BY <2>1, <3>1
      <4>1. PICK k \in kept[q] : UploadOf(k) = UploadOf(j)
        BY <3>2
      <4>2. UploadOf(k)' = UploadOf(j)'
        BY <1>2, <3>1, <4>1
      <4> QED
        BY <4>2
    <3>4. Keeps(q)' /\ Attaches(q)' /\ pc'[q] # "error"
      BY <1>1, <2>1, <2>3
    <3> QED
      BY <3>3, <3>4
  <2> QED
    BY <2>2, <2>3
<1>9. ASSUME NEW r \in Requests, CrashBundle(r) PROVE A(q)'
  <2>1. /\ UNCHANGED <<saved, bundle, kept, attached, botched>>
        /\ pc' = [pc EXCEPT ![r] = "dead"]
        /\ \A j \in Jobs : step[j] \notin Running => step'[j] = step[j]
    BY <1>9, CrashMoves
  <2>2. \A j \in JobsOf(q) : step[j] = "merged" => step'[j] = "merged"
    BY <1>2, <2>1 DEF Running
  <2>3. CASE q # r
    BY <1>3, <1>4, <2>1, <2>2, <2>3
  <2>4. CASE q = r
    <3>1. pc'[q] = "dead"
      BY <1>3, <2>1, <2>4
    <3>2. Keeps(q)'
      BY <1>1, <1>2, <2>1, <2>2
    <3> QED
      BY <3>1, <3>2
  <2> QED
    BY <2>3, <2>4
<1>10. ASSUME NEW r \in Requests, NEW M \in SUBSET Jobs, BundleJoin(r, M) PROVE A(q)'
  <2>1. /\ UNCHANGED <<step, bundle, attached>>
        /\ pc[r] = "merge" /\ kept[r] = {} /\ attached[r] = {}
        /\ M \subseteq JobsOf(r) /\ \A j \in M : step[j] = "merged"
        /\ \A j \in JobsOf(r) : step[j] \in Ended
        /\ \A j \in JobsOf(r) : step[j] = "merged" => \E k \in M : UploadOf(k) = UploadOf(j)
        /\ botched \subseteq botched'
        /\ \A j \in Jobs : saved'[j] = saved[j] \/ (j \in M /\ saved'[j] = "deleted")
        /\ \/ /\ pc' = [pc EXCEPT ![r] = "error"]
              /\ \A j \in M : saved'[j] = "deleted" \/ j \in botched'
              /\ kept' = kept
           \/ /\ pc' = [pc EXCEPT ![r] = "create"]
              /\ saved' = saved
              /\ kept' = [kept EXCEPT ![r] = M]
              /\ \A j \in JobsOf(r) : step[j] = "merged"
    BY <1>10, JoinMoves
  <2>2. CASE q # r
    <3>1. pc'[q] = pc[q] /\ kept'[q] = kept[q]
      BY <1>3, <2>1, <2>2 DEF Shaped
    <3>2. \A j \in JobsOf(q) : j \notin M
      BY <1>2, <2>1, <2>2, JobsOfForm
    <3>3. \A j \in JobsOf(q) : saved'[j] = saved[j]
      BY <1>2, <2>1, <3>2
    <3> QED
      BY <1>4, <2>1, <3>1, <3>3
  <2>3. CASE q = r /\ pc' = [pc EXCEPT ![r] = "error"]
    <3>1. pc'[q] = "error"
      BY <1>3, <2>3
    <3>2. (\A j \in M : saved'[j] = "deleted" \/ j \in botched') /\ kept' = kept
      <4>1. ~ (pc' = [pc EXCEPT ![r] = "create"])
        BY <1>3, <2>3, <3>1
      <4> QED
        BY <2>1, <4>1
    <3>3. JobsOf(q)' = JobsOf(q) /\ \A j \in JobsOf(q) : UploadOf(j)' = UploadOf(j)
      BY <2>1 DEF JobsOf, UploadOf
    <3> HIDE DEF JobsOf, UploadOf
    <3>4. ASSUME NEW j \in JobsOf(q), \A k \in JobsOf(q) : UploadOf(k)' = UploadOf(j)' => k = j
          PROVE  saved'[j] \in {"none", "deleted"} \/ j \in botched'
      <4>1. CASE step[j] = "merged"
        <5>1. PICK k \in M : UploadOf(k) = UploadOf(j)
          BY <2>1, <2>3, <4>1
        <5>2. k = j
          BY <2>1, <2>3, <3>3, <3>4, <5>1
        <5> QED
          BY <1>2, <3>2, <5>2
      <4>2. CASE step[j] # "merged"
        <5>1. step[j] = "failed" /\ j \in Jobs /\ j[1] = r
          BY <1>2, <2>1, <2>3, <4>2 DEF Ended
        <5>2. saved[j] = "none" \/ j \in botched
          BY <2>1, <5>1 DEF Stored
        <5>3. j \notin M
          BY <2>1, <4>2
        <5> QED
          BY <2>1, <5>1, <5>2, <5>3
      <4> QED
        BY <4>1, <4>2
    <3>5. Clears(q)'
      BY <3>3, <3>4
    <3>6. Keeps(q)' /\ kept'[q] = {}
      BY <2>1, <2>3, <3>2
    <3> QED
      BY <3>1, <3>5, <3>6
  <2>4. CASE q = r /\ pc' # [pc EXCEPT ![r] = "error"]
    <3>1. /\ pc' = [pc EXCEPT ![r] = "create"] /\ saved' = saved
          /\ kept' = [kept EXCEPT ![r] = M] /\ \A j \in JobsOf(r) : step[j] = "merged"
      BY <2>1, <2>4
    <3>2. pc'[q] = "create" /\ kept'[q] = M
      BY <1>3, <2>4, <3>1 DEF Shaped
    <3>3. JobsOf(q)' = JobsOf(q) /\ \A j \in JobsOf(q) : UploadOf(j)' = UploadOf(j)
      BY <2>1 DEF JobsOf, UploadOf
    <3> HIDE DEF JobsOf, UploadOf
    <3>4. Covers(q)'
      <4> SUFFICES ASSUME NEW j \in JobsOf(q) PROVE \E k \in M : UploadOf(k)' = UploadOf(j)'
        BY <3>2, <3>3
      <4>1. PICK k \in M : UploadOf(k) = UploadOf(j)
        BY <2>1, <2>4, <3>1
      <4>2. UploadOf(k)' = UploadOf(j)'
        BY <2>1, <2>4, <3>3, <4>1
      <4> QED
        BY <4>2
    <3>5. Keeps(q)'
      BY <2>1, <3>2
    <3> QED
      BY <3>2, <3>4, <3>5
  <2> QED
    BY <2>2, <2>3, <2>4
<1> QED
  BY <1>5, <1>6, <1>7, <1>8, <1>9, <1>10, NextCases

-----------------------------------------------------------------------------
(* Jobs on the same upload.                                                         *)

LEMMA TwoAreMany ==
  ASSUME NEW S, IsFiniteSet(S), NEW a \in S, NEW b \in S, a # b
  PROVE  Cardinality(S) > 1
<1>1. Cardinality({a}) = 1 /\ IsFiniteSet({a})
  BY FS_Singleton
<1>2. Cardinality({a} \cup {b}) = 2 /\ IsFiniteSet({a} \cup {b})
  BY <1>1, FS_AddElement
<1>3. ({a} \cup {b}) \in SUBSET S
  OBVIOUS
<1>4. Cardinality({a} \cup {b}) <= Cardinality(S)
  BY <1>3, FS_Subset
<1>5. Cardinality(S) \in Nat
  BY FS_CardinalityType
<1> QED
  BY <1>2, <1>4, <1>5

LEMMA ListFinite ==
  ASSUME NEW r, NEW b, NEW n \in Nat, DOMAIN b = 1..n
  PROVE  IsFiniteSet({<<r, i>> : i \in DOMAIN b})
<1> DEFINE T == {<<r, i>> : i \in DOMAIN b}
           f == [i \in 1..n |-> <<r, i>>]
<1>1. IsFiniteSet(1..n)
  BY FS_Interval
<1>2. f \in Surjection(1..n, T)
  <2>1. f \in [1..n -> T]
    OBVIOUS
  <2>2. \A t \in T : \E i \in 1..n : f[i] = t
    OBVIOUS
  <2> HIDE DEF f, T
  <2> QED
    BY <2>1, <2>2 DEF Surjection
<1>3. IsFiniteSet(T)
  <2> HIDE DEF f, T
  <2> QED
    BY <1>1, <1>2, FS_Surjection
<1> QED
  BY <1>3

\* A bundle that begins disturbs every job on an upload of its own that another has, or
\* into which a part is being sent.
LEMMA BeginDisturbs ==
  ASSUME Shaped, Apart, NEW r \in Requests, NEW b \in Bundles[r], BundleBegin(r, b),
         \A i \in DOMAIN b : ChunksComplete(b[i])
  PROVE  LET mine == {<<r, i>> : i \in DOMAIN b} IN
         /\ step' = [j \in Jobs |-> IF j \in mine THEN "start" ELSE step[j]]
         /\ mine \subseteq Jobs /\ \A j \in mine : j[1] = r /\ j[2] \in DOMAIN b /\ step[j] = "none"
         /\ IsFiniteSet(mine)
         /\ disturbed \subseteq disturbed'
         /\ \A j \in mine :
               /\ dir[b[j[2]]] = "there"
               /\ \A k \in mine \cup Merging(b[j[2]]) :
                     k # j /\ (k \in mine => b[k[2]] = b[j[2]]) => {j, k} \subseteq disturbed'
               /\ j \in disturbed' \/ Sending(b[j[2]]) = {}
<1> DEFINE mine == {<<r, i>> : i \in DOMAIN b}
           on(u) == {j \in mine : b[j[2]] = u}
<1>1. /\ step' = [j \in Jobs |-> IF j \in mine THEN "start" ELSE step[j]]
      /\ disturbed' = disturbed \cup UNION {on(u) \cup Merging(u) :
                 u \in {v \in Uploads : on(v) # {} /\
                          (Sending(v) # {} \/ Cardinality(on(v) \cup Merging(v)) > 1)}}
      /\ pc[r] = "new"
  BY DEF BundleBegin
<1>2. mine \subseteq Jobs /\ \A j \in mine : j[1] = r /\ j[2] \in DOMAIN b /\ b[j[2]] \in Uploads
  BY ListOf
<1>3. \A j \in mine : step[j] = "none"
  BY <1>1, <1>2, Begun
<1>4. IsFiniteSet(mine)
  BY ListOf, ListFinite
<1>5. \A u : Merging(u) \subseteq {j \in Jobs : step[j] # "none"}
  BY DEF Merging, Running
<1>6. \A u : IsFiniteSet(on(u) \cup Merging(u))
  <2> TAKE u
  <2>1. IsFiniteSet(on(u))
    <3>1. on(u) \in SUBSET mine
      OBVIOUS
    <3> QED
      BY <1>4, <3>1, FS_Subset
  <2>2. IsFiniteSet({j \in Jobs : step[j] # "none"})
    BY DEF Apart
  <2>3. IsFiniteSet(Merging(u))
    <3>1. Merging(u) \in SUBSET {j \in Jobs : step[j] # "none"}
      BY <1>5
    <3> QED
      BY <2>2, <3>1, FS_Subset
  <2> QED
    BY <2>1, <2>3, FS_Union
<1>7. ASSUME NEW u \in Uploads, on(u) # {}, Sending(u) # {} \/ Cardinality(on(u) \cup Merging(u)) > 1
      PROVE  on(u) \cup Merging(u) \subseteq disturbed'
  <2>1. u \in {v \in Uploads : on(v) # {} /\
                          (Sending(v) # {} \/ Cardinality(on(v) \cup Merging(v)) > 1)}
    BY <1>7
  <2> HIDE DEF on
  <2> QED
    BY <1>1, <2>1
<1>8. ASSUME NEW j \in mine
      PROVE  /\ dir[b[j[2]]] = "there"
             /\ \A k \in mine \cup Merging(b[j[2]]) :
                   k # j /\ (k \in mine => b[k[2]] = b[j[2]]) => {j, k} \subseteq disturbed'
             /\ j \in disturbed' \/ Sending(b[j[2]]) = {}
  <2> DEFINE u == b[j[2]]
  <2>1. u \in Uploads /\ j \in on(u)
    BY <1>2, <1>8
  <2>2. dir[u] = "there"
    BY <1>2, <1>8 DEF ChunksComplete
  <2>3. ASSUME NEW k \in mine \cup Merging(u), k # j, k \in mine => b[k[2]] = u
        PROVE  {j, k} \subseteq disturbed'
    <3>1. k \in on(u) \cup Merging(u)
      BY <2>3
    <3>2. Cardinality(on(u) \cup Merging(u)) > 1
      <4> HIDE DEF on
      <4>1. IsFiniteSet(on(u) \cup Merging(u)) /\ j \in on(u) \cup Merging(u)
        BY <1>6, <2>1
      <4> HIDE DEF u
      <4> QED
        BY <2>3, <3>1, <4>1, TwoAreMany
    <3>3. on(u) # {}
      BY <2>1
    <3>4. on(u) \cup Merging(u) \subseteq disturbed'
      BY <1>7, <2>1, <3>2, <3>3
    <3> HIDE DEF on, u
    <3> QED
      BY <2>1, <3>1, <3>4
  <2>4. j \in disturbed' \/ Sending(u) = {}
    BY <1>7, <2>1
  <2> QED
    BY <2>2, <2>3, <2>4
<1>9. disturbed \subseteq disturbed'
  BY <1>1
<1> HIDE DEF on
<1> QED
  BY <1>1, <1>2, <1>3, <1>4, <1>8, <1>9

\* No step but a bundle's first begins a job, or brings one back.
LEMMA NoneBegin ==
  ASSUME Shaped, Stored, [Next]_vars,
         ~ \E r \in Requests : \E b \in Bundles[r] : BundleBegin(r, b)
  PROVE  /\ bundle' = bundle
         /\ disturbed \subseteq disturbed'
         /\ \A j \in Jobs : /\ step'[j] # "none" <=> step[j] # "none"
                            /\ step'[j] \in Running => step[j] \in Running
                            /\ step'[j] = "merged" => step[j] = "merged" \/ JobRmtree(j)
<1>1. CASE Sender \/ UNCHANGED vars
  BY <1>1, SendersMove DEF vars
<1>2. ASSUME NEW k \in Jobs, Merge(k)
      PROVE  /\ bundle' = bundle /\ disturbed' = disturbed
             /\ \A j \in Jobs : j # k => step'[j] = step[j]
             /\ step[k] \in Running /\ step'[k] \in (Running \ {"start"}) \cup Ended
             /\ step'[k] = "merged" => JobRmtree(k)
  <2>1. bundle' = bundle /\ disturbed' = disturbed
        /\ (\A j \in Jobs : j # k => step'[j] = step[j])
        /\ step[k] \in Running /\ step'[k] \in (Running \ {"start"}) \cup Ended
    BY <1>2, JobsMove DEF JobFrame, OthersStay
  <2>2. step \in [Jobs -> Running \cup Ended \cup {"none"}] /\ TypeOK
    BY DEF Shaped, TypeOK
  <2>3. ~ JobRmtree(k) => step'[k] # "merged"
    <3>1. CASE Fail(k)
      BY <2>2, <3>1, FailShaped
    <3>2. CASE ~ Fail(k)
      BY <1>2, <2>2, <3>2 DEF Merge, JobOpen, JobSize, JobCopy, JobCompare, JobSave, JobSaveRaises, JobUnlink
    <3> QED
      BY <3>1, <3>2
  <2> QED
    BY <2>1, <2>3
<1>3. CASE \E k \in Jobs : Merge(k)
  BY <1>2, <1>3 DEF Running, Ended
<1>4. CASE \E r \in Requests : Answer(r)
  BY <1>4, AnswersMove
<1>5. ASSUME NEW r \in Requests, CrashBundle(r)
      PROVE  /\ bundle' = bundle /\ disturbed' = disturbed
             /\ \A j \in Jobs : step'[j] = step[j] \/ (step[j] \in Running /\ step'[j] = "failed")
  BY <1>5, CrashMoves
<1>6. CASE \E r \in Requests : CrashBundle(r)
  BY <1>5, <1>6 DEF Running
<1>7. CASE \E r \in Requests, M \in SUBSET Jobs : BundleJoin(r, M)
  BY <1>7, JoinMoves
<1> QED
  BY <1>1, <1>3, <1>4, <1>6, <1>7, NextCases

\* A directory that was removed stays removed, and a job that ends removes its own.
LEMMA RemovedStay ==
  ASSUME Shaped, [Next]_vars
  PROVE  /\ \A u \in Uploads : dir[u] = "removed" => dir'[u] = "removed"
         /\ \A j \in Jobs : JobRmtree(j) => dir'[UploadOf(j)] = "removed"
<1>1. dir \in [Uploads -> {"none", "there", "removed"}]
  BY DEF Shaped, TypeOK
<1>2. ASSUME NEW j \in Jobs, JobRmtree(j) PROVE dir'[UploadOf(j)] = "removed"
  <2>1. UploadOf(j) \in Uploads
    BY <1>2, JobsMove DEF Merge
  <2> QED
    BY <1>1, <1>2, <2>1 DEF JobRmtree
<1>3. ASSUME NEW u \in Uploads, dir[u] = "removed" PROVE dir'[u] = "removed"
  <2>1. CASE Sender \/ UNCHANGED vars
    BY <1>1, <1>3, <2>1, SendersMove DEF vars
  <2>2. ASSUME NEW j \in Jobs, Merge(j) PROVE dir' = dir \/ dir' = [dir EXCEPT ![UploadOf(j)] = "removed"]
    BY <2>2 DEF Merge, JobOpen, JobSize, JobCopy, JobCompare, JobSave, JobSaveRaises, JobUnlink,
                JobRmtree, files
  <2>3. CASE \E j \in Jobs : Merge(j)
    BY <1>1, <1>3, <2>2, <2>3
  <2>4. CASE \E r \in Requests : Answer(r) \/ CrashBundle(r)
    BY <1>3, <2>4, AnswersMove, CrashMoves
  <2>5. CASE \E r \in Requests, M \in SUBSET Jobs : BundleJoin(r, M)
    BY <1>3, <2>5, JoinMoves
  <2>6. CASE \E r \in Requests : \E b \in Bundles[r] : BundleBegin(r, b)
    BY <1>3, <2>6 DEF BundleBegin, files
  <2> QED
    BY <2>1, <2>3, <2>4, <2>5, <2>6, NextCases
<1> QED
  BY <1>2, <1>3

\* No part begins to be sent into an upload with a job that nobody disturbed.
LEMMA SendingStays ==
  ASSUME Shaped, [Next]_vars,
         NEW u \in Uploads, Sending(u) = {}, ~ (Merging(u) \subseteq disturbed')
  PROVE  Sending(u)' = {}
<1>1. CASE Sender
  BY <1>1, SendersMove
<1>2. CASE ~ Sender
  <2>1. ASSUME NEW j \in Jobs, Merge(j) PROVE writing' = writing
    BY <2>1, JobsMove DEF JobFrame
  <2>2. ASSUME NEW r \in Requests, NEW b \in Bundles[r], BundleBegin(r, b) PROVE writing' = writing
    BY <2>2 DEF BundleBegin
  <2>3. writing' = writing
    BY <1>2, <2>1, <2>2, AnswersMove, CrashMoves, JoinMoves, NextCases DEF vars
  <2> QED
    BY <2>3 DEF Sending
<1> QED
  BY <1>1, <1>2

LEMMA ApartStaysCalm ==
  ASSUME Shaped, Stored, Apart, [Next]_vars,
         ~ \E r \in Requests : \E b \in Bundles[r] : BundleBegin(r, b)
  PROVE  Apart'
<1>1. /\ bundle' = bundle
      /\ disturbed \subseteq disturbed'
      /\ \A j \in Jobs : /\ step'[j] # "none" <=> step[j] # "none"
                         /\ step'[j] \in Running => step[j] \in Running
                         /\ step'[j] = "merged" => step[j] = "merged" \/ JobRmtree(j)
  BY NoneBegin
<1>2. \A j \in Jobs : UploadOf(j)' = UploadOf(j)
  BY <1>1 DEF UploadOf
<1>3. \A j \in Jobs : Lives(j)' => Lives(j)
  BY <1>1 DEF Lives, JobRmtree, Running
<1>4. IsFiniteSet({j \in Jobs : step'[j] # "none"})
  <2>1. {j \in Jobs : step'[j] # "none"} = {j \in Jobs : step[j] # "none"}
    BY <1>1
  <2> QED
    BY <2>1 DEF Apart
<1>5. ASSUME NEW j \in Jobs, NEW k \in Jobs, Lives(j)', Lives(k)', j # k, UploadOf(j)' = UploadOf(k)'
      PROVE  j \in disturbed'
  <2>1. Lives(j) /\ Lives(k) /\ UploadOf(j) = UploadOf(k)
    BY <1>2, <1>3, <1>5
  <2> QED
    BY <1>1, <1>5, <2>1 DEF Apart
<1>6. ASSUME NEW j \in Jobs, step'[j] = "merged" PROVE dir'[UploadOf(j)'] = "removed"
  <2>1. CASE step[j] = "merged"
    <3>1. UploadOf(j) \in Uploads /\ dir[UploadOf(j)] = "removed"
      BY <2>1, Begun DEF Apart
    <3> QED
      BY <1>2, <3>1, RemovedStay
  <2>2. CASE JobRmtree(j)
    BY <1>2, <2>2, RemovedStay
  <2> QED
    BY <1>1, <1>6, <2>1, <2>2
<1>7. ASSUME NEW j \in Jobs, step'[j] \in Running, j \notin disturbed' PROVE Sending(UploadOf(j))' = {}
  <2>1. step[j] \in Running /\ j \notin disturbed
    BY <1>1, <1>7
  <2>2. UploadOf(j) \in Uploads
    BY <2>1, Begun DEF Running
  <2>3. Sending(UploadOf(j)) = {} /\ j \in Merging(UploadOf(j))
    BY <2>1 DEF Apart, Merging
  <2> DEFINE u == UploadOf(j)
  <2>4. PICK v \in Uploads : v = u
    BY <2>2
  <2>5. Sending(v) = {} /\ ~ (Merging(v) \subseteq disturbed')
    BY <1>7, <2>3, <2>4
  <2>6. Sending(v)' = {}
    BY <2>5, SendingStays
  <2>7. UploadOf(j)' = v
    BY <1>2, <2>4
  <2> QED
    BY <2>6, <2>7 DEF Sending
<1> QED
  BY <1>4, <1>5, <1>6, <1>7 DEF Apart

LEMMA ApartBegins ==
  ASSUME Shaped, Apart, NEW r \in Requests, NEW b \in Bundles[r], BundleBegin(r, b)
  PROVE  Apart'
<1> DEFINE mine == {<<r, i>> : i \in DOMAIN b}
<1>1. /\ pc[r] = "new" /\ bundle' = [bundle EXCEPT ![r] = b]
      /\ UNCHANGED <<dir, part, writing>>
  BY DEF BundleBegin, files
<1>2. bundle'[r] = b /\ \A q \in Requests : q # r => bundle'[q] = bundle[q]
  BY <1>1 DEF Shaped
<1>3. \A j \in Jobs : step[j] # "none" => j[1] # r /\ UploadOf(j)' = UploadOf(j)
  BY <1>1, <1>2, Begun DEF UploadOf
<1>4. CASE ~ \A i \in DOMAIN b : ChunksComplete(b[i])
  <2>1. UNCHANGED <<step, disturbed>>
    BY <1>4 DEF BundleBegin
  <2>2. \A j \in Jobs : (Lives(j)' <=> Lives(j)) /\ (Lives(j) => UploadOf(j)' = UploadOf(j))
    BY <1>3, <2>1 DEF Lives, Running
  <2>3. IsFiniteSet({j \in Jobs : step'[j] # "none"})
    BY <2>1 DEF Apart
  <2>4. \A j, k \in Jobs : Lives(j)' /\ Lives(k)' /\ j # k /\ UploadOf(j)' = UploadOf(k)' => j \in disturbed'
    BY <2>1, <2>2 DEF Apart
  <2>5. \A j \in Jobs : step'[j] = "merged" => dir'[UploadOf(j)'] = "removed"
    BY <1>1, <1>3, <2>1 DEF Apart
  <2>6. \A j \in Jobs : step'[j] \in Running /\ j \notin disturbed' => Sending(UploadOf(j))' = {}
    BY <1>1, <1>3, <2>1 DEF Apart, Running, Sending
  <2> QED
    BY <2>3, <2>4, <2>5, <2>6 DEF Apart
<1>5. CASE \A i \in DOMAIN b : ChunksComplete(b[i])
  <2>1. /\ step' = [j \in Jobs |-> IF j \in mine THEN "start" ELSE step[j]]
        /\ mine \subseteq Jobs /\ \A j \in mine : j[1] = r /\ j[2] \in DOMAIN b /\ step[j] = "none"
        /\ IsFiniteSet(mine)
        /\ disturbed \subseteq disturbed'
        /\ \A j \in mine :
              /\ dir[b[j[2]]] = "there"
              /\ \A k \in mine \cup Merging(b[j[2]]) :
                    k # j /\ (k \in mine => b[k[2]] = b[j[2]]) => {j, k} \subseteq disturbed'
              /\ j \in disturbed' \/ Sending(b[j[2]]) = {}
    BY <1>5, BeginDisturbs
  <2>2. \A j \in mine : UploadOf(j)' = b[j[2]]
    BY <1>2, <2>1 DEF UploadOf
  <2> HIDE DEF mine
  <2>3. \A j \in Jobs : j \notin mine => step'[j] = step[j]
    BY <2>1
  <2>4. \A j \in Jobs : Lives(j)' /\ j \notin mine => Lives(j) /\ step[j] # "none" /\ UploadOf(j)' = UploadOf(j)
    BY <1>3, <2>3 DEF Lives, Running
  <2>5. IsFiniteSet({j \in Jobs : step'[j] # "none"})
    <3>1. IsFiniteSet({j \in Jobs : step[j] # "none"} \cup mine)
      BY <2>1, FS_Union DEF Apart
    <3>2. {j \in Jobs : step'[j] # "none"} \in SUBSET ({j \in Jobs : step[j] # "none"} \cup mine)
      BY <2>3
    <3> QED
      BY <3>1, <3>2, FS_Subset
  \* A new job and another on its upload.
  <2>6. ASSUME NEW j \in mine, NEW k \in Jobs, Lives(k)', j # k, UploadOf(j)' = UploadOf(k)'
        PROVE  {j, k} \subseteq disturbed'
    <3>1. CASE k \in mine
      BY <2>1, <2>2, <2>6, <3>1
    <3>2. CASE k \notin mine
      <4>1. Lives(k) /\ UploadOf(k) = b[j[2]]
        BY <2>2, <2>4, <2>6, <3>2
      <4>2. step[k] # "merged"
        BY <2>1, <4>1 DEF Apart
      <4>3. k \in Merging(b[j[2]])
        BY <4>1, <4>2 DEF Lives, Merging
      <4> QED
        BY <2>1, <2>6, <3>2, <4>3
    <3> QED
      BY <3>1, <3>2
  <2>7. ASSUME NEW j \in Jobs, NEW k \in Jobs, Lives(j)', Lives(k)', j # k, UploadOf(j)' = UploadOf(k)'
        PROVE  j \in disturbed'
    <3>1. CASE j \in mine
      BY <2>6, <2>7, <3>1
    <3>2. CASE k \in mine
      BY <2>6, <2>7, <3>2
    <3>3. CASE j \notin mine /\ k \notin mine
      <4>1. Lives(j) /\ Lives(k) /\ UploadOf(j) = UploadOf(k)
        BY <2>4, <2>7, <3>3
      <4> QED
        BY <2>1, <2>7, <4>1 DEF Apart
    <3> QED
      BY <3>1, <3>2, <3>3
  <2>8. ASSUME NEW j \in Jobs, step'[j] = "merged" PROVE dir'[UploadOf(j)'] = "removed"
    <3>1. j \notin mine
      BY <2>1, <2>8
    <3>2. step[j] = "merged"
      BY <2>3, <2>8, <3>1
    <3> QED
      BY <1>1, <1>3, <3>2 DEF Apart
  <2>9. ASSUME NEW j \in Jobs, step'[j] \in Running, j \notin disturbed' PROVE Sending(UploadOf(j))' = {}
    <3>1. CASE j \in mine
      BY <1>1, <2>1, <2>2, <2>9, <3>1 DEF Sending
    <3>2. CASE j \notin mine
      <4>1. step[j] \in Running /\ j \notin disturbed /\ UploadOf(j)' = UploadOf(j)
        BY <1>3, <2>1, <2>3, <2>9, <3>2 DEF Running
      <4>2. Sending(UploadOf(j)) = {}
        BY <4>1 DEF Apart
      <4> QED
        BY <1>1, <4>1, <4>2 DEF Sending
    <3> QED
      BY <3>1, <3>2
  <2> QED
    BY <2>5, <2>7, <2>8, <2>9 DEF Apart
<1> QED
  BY <1>4, <1>5

LEMMA ApartStays ==
  ASSUME Shaped, Stored, Apart, [Next]_vars
  PROVE  Apart'
BY ApartStaysCalm, ApartBegins

-----------------------------------------------------------------------------
(* What is in the files.                                                            *)

\* A job's step touches the parts and the name of its own upload only, and writes to
\* files that were created for that upload.
LEMMA JobTouches ==
  ASSUME Shaped, Owned, NEW k \in Jobs, Merge(k)
  PROVE  /\ \A v \in Uploads : v # UploadOf(k) => name'[v] = name[v] /\ part'[v] = part[v]
         /\ \A f \in Jobs : inode'[f] # inode[f] => step[f] # "none" /\ UploadOf(f) = UploadOf(k)
         /\ name'[UploadOf(k)] \in {k, name[UploadOf(k)], NoFile}
         /\ fd'[k] \in {k, fd[k], name[UploadOf(k)], NoFile}
         /\ fd'[k] # NoFile => step'[k] \in Running
<1> DEFINE u == UploadOf(k)
<1>1. /\ name \in [Uploads -> Jobs \cup {NoFile}]
      /\ part \in [Uploads -> [Parts -> {"none", "cut", "whole"}]]
      /\ inode \in [Jobs -> [Parts -> Parts \cup {Hole}]]
      /\ fd \in [Jobs -> Jobs \cup {NoFile}]
      /\ step \in [Jobs -> Running \cup Ended \cup {"none"}]
      /\ u \in Uploads /\ step[k] \in Running
      /\ TypeOK
  BY JobsMove DEF Shaped, TypeOK
<1>2. /\ name[u] # NoFile => step[name[u]] # "none" /\ UploadOf(name[u]) = u
      /\ fd[k] # NoFile => step[fd[k]] # "none" /\ UploadOf(fd[k]) = u
      /\ step[k] # "none"
  BY <1>1 DEF Owned, Running
<1> HIDE DEF u
<1>3. CASE Fail(k)
  <2>1. fd'[k] = NoFile
    BY <1>3 DEF Fail, Results
  <2>2. step'[k] = "failed"
    BY <1>1, <1>3, FailShaped
  <2>3. name' \in {name, [name EXCEPT ![u] = NoFile]} /\ UNCHANGED <<part, inode>>
    <3>1. CASE JobOpen(k)
      BY <1>1, <1>2, <1>3, <2>2, <3>1 DEF JobOpen, u
    <3>2. CASE JobSize(k)
      BY <3>2 DEF JobSize, files
    <3>3. CASE JobCopy(k)
      <4>1. step'[k] \notin {"compare", "size"}
        BY <2>2
      <4> QED
        BY <1>1, <3>3, <4>1 DEF JobCopy
    <3>4. CASE JobCompare(k) \/ JobSave(k) \/ JobSaveRaises(k)
      BY <3>4 DEF JobCompare, JobSave, JobSaveRaises, files, u
    <3>5. CASE JobUnlink(k)
      BY <3>5 DEF JobUnlink, u
    <3>6. ~ JobRmtree(k)
      BY <2>2 DEF JobRmtree, Results
    <3> QED
      BY <3>1, <3>2, <3>3, <3>4, <3>5, <3>6 DEF Merge
  <2> QED
    BY <1>1, <2>1, <2>3 DEF u
<1>4. CASE ~ Fail(k)
  <2>1. CASE JobOpen(k)
    <3> DEFINE f == IF name[u] = NoFile THEN k ELSE name[u]
    <3>1. /\ name' = [name EXCEPT ![u] = f] /\ inode' = [inode EXCEPT ![f] = EmptyFile]
          /\ fd' = [fd EXCEPT ![k] = f] /\ step' = [step EXCEPT ![k] = "size"] /\ part' = part
      BY <1>4, <2>1 DEF JobOpen, u
    <3>2. f \in {k, name[u]} /\ f \in Jobs /\ step[f] # "none" /\ UploadOf(f) = u
      BY <1>1, <1>2 DEF u
    <3> HIDE DEF f
    <3>3. \A g \in Jobs : inode'[g] # inode[g] => g = f
      BY <1>1, <3>1
    <3>4. name'[u] = f /\ fd'[k] = f /\ step'[k] = "size" /\ \A v \in Uploads : v # u => name'[v] = name[v]
      BY <1>1, <3>1
    <3> QED
      BY <3>1, <3>2, <3>3, <3>4 DEF u, Running
  <2>2. CASE JobSize(k)
    <3>1. UNCHANGED <<name, part, inode, fd>> /\ step' = [step EXCEPT ![k] = "copy"]
      BY <1>4, <2>2 DEF JobSize, files
    <3>2. step'[k] \in Running
      BY <1>1, <3>1 DEF Running
    <3> QED
      BY <3>1, <3>2 DEF u
  <2>3. CASE JobCopy(k)
    <3>1. /\ UNCHANGED <<name, part, fd>>
          /\ step' = [step EXCEPT ![k] = IF pos[k] = ChunkCount THEN "compare" ELSE "size"]
          /\ inode' = inode \/ inode' = [inode EXCEPT ![fd[k]][offset[k]] = pos[k]]
      BY <1>4, <2>3 DEF JobCopy, u
    <3>2. step'[k] \in Running
      BY <1>1, <3>1 DEF Running
    <3>3. \A g \in Jobs : inode'[g] # inode[g] => g = fd[k]
      BY <1>1, <3>1
    <3>4. \A g \in Jobs : g # NoFile
      BY JobForm DEF NoFile
    <3> QED
      BY <1>2, <3>1, <3>2, <3>3, <3>4 DEF u
  <2>4. CASE JobCompare(k)
    <3>1. UNCHANGED <<name, part, inode, fd>> /\ step' = [step EXCEPT ![k] = "save"]
      BY <1>4, <2>4 DEF JobCompare
    <3>2. step'[k] \in Running
      BY <1>1, <3>1 DEF Running
    <3> QED
      BY <3>1, <3>2 DEF u
  <2>5. CASE JobSave(k)
    <3>1. UNCHANGED <<name, part, inode, fd>> /\ step' = [step EXCEPT ![k] = "unlink"]
      BY <1>4, <2>5 DEF JobSave, files
    <3>2. step'[k] \in Running
      BY <1>1, <3>1 DEF Running
    <3> QED
      BY <3>1, <3>2 DEF u
  <2>6. CASE JobUnlink(k)
    <3>1. UNCHANGED <<part, inode, fd>> /\ step' = [step EXCEPT ![k] = "rmtree"]
          /\ name' = [name EXCEPT ![u] = NoFile]
      BY <2>6 DEF JobUnlink, u
    <3>2. step'[k] \in Running
      BY <1>1, <3>1 DEF Running
    <3> QED
      BY <1>1, <3>1, <3>2 DEF u
  <2>7. CASE JobRmtree(k)
    <3>1. /\ part' = [part EXCEPT ![u] = [i \in Parts |-> "none"]]
          /\ name' = [name EXCEPT ![u] = NoFile]
          /\ inode' = inode /\ Results({k}, "merged")
      BY <2>7 DEF JobRmtree, u
    <3>2. fd'[k] = NoFile
      BY <3>1 DEF Results
    <3> QED
      BY <1>1, <3>1, <3>2 DEF u
  <2>8. ~ JobSaveRaises(k)
    BY <1>4 DEF JobSaveRaises
  <2> QED
    BY <2>1, <2>2, <2>3, <2>4, <2>5, <2>6, <2>7, <2>8 DEF Merge
<1> QED
  BY <1>3, <1>4

LEMMA OwnedStays ==
  ASSUME Shaped, Stored, Owned, [Next]_vars
  PROVE  Owned'
<1>1. /\ name \in [Uploads -> Jobs \cup {NoFile}]
      /\ fd \in [Jobs -> Jobs \cup {NoFile}]
  BY DEF Shaped, TypeOK
<1>2. CASE \E r \in Requests : \E b \in Bundles[r] : BundleBegin(r, b)
  <2>1. PICK r \in Requests : \E b \in Bundles[r] : BundleBegin(r, b)
    BY <1>2
  <2>2. PICK b \in Bundles[r] : BundleBegin(r, b)
    BY <2>1
  <2>3. /\ pc[r] = "new" /\ bundle' = [bundle EXCEPT ![r] = b] /\ UNCHANGED <<name, fd, pos>>
        /\ \A j \in Jobs : step'[j] = step[j] \/ (step'[j] = "start" /\ j[1] = r)
    BY <2>2 DEF BundleBegin, files
  <2>4. \A j \in Jobs : step[j] # "none" => j[1] # r /\ step'[j] = step[j] /\ UploadOf(j)' = UploadOf(j)
    BY <2>3, Begun DEF UploadOf, Shaped
  <2>5. \A j \in Jobs : j[1] = r => step[j] = "none"
    BY <2>4
  <2>6. \A j \in Jobs : step'[j] \in {"none", "start"} => pos'[j] = 1
    BY <2>3, <2>5 DEF Owned
  <2>7. \A u \in Uploads : name'[u] # NoFile =>
          step'[name'[u]] # "none" /\ bundle'[name'[u][1]][name'[u][2]] = u
    <3> SUFFICES ASSUME NEW u \in Uploads, name[u] # NoFile
                 PROVE  step'[name[u]] # "none" /\ bundle'[name[u][1]][name[u][2]] = u
      BY <2>3 DEF UploadOf
    <3>1. PICK f \in Jobs : f = name[u]
      BY <1>1
    <3>2. step[f] # "none" /\ UploadOf(f) = u
      BY <3>1 DEF Owned
    <3> QED
      BY <2>4, <3>1, <3>2 DEF UploadOf
  <2>8. \A j \in Jobs : fd'[j] # NoFile =>
          step'[j] \in Running /\ step'[fd'[j]] # "none" /\ bundle'[fd'[j][1]][fd'[j][2]] = UploadOf(j)'
    <3> SUFFICES ASSUME NEW j \in Jobs, fd[j] # NoFile
                 PROVE  step'[j] \in Running /\ step'[fd[j]] # "none"
                        /\ bundle'[fd[j][1]][fd[j][2]] = UploadOf(j)'
      BY <2>3
    <3>1. PICK f \in Jobs : f = fd[j]
      BY <1>1
    <3>2. step[f] # "none" /\ UploadOf(f) = UploadOf(j) /\ step[j] \in Running
      BY <3>1 DEF Owned
    <3> QED
      BY <2>4, <3>1, <3>2 DEF UploadOf, Running
  <2> QED
    BY <2>6, <2>7, <2>8 DEF Owned, UploadOf
<1>3. CASE ~ \E r \in Requests : \E b \in Bundles[r] : BundleBegin(r, b)
  <2>1. /\ bundle' = bundle
        /\ \A j \in Jobs : step'[j] # "none" <=> step[j] # "none"
    BY <1>3, NoneBegin
  \* A file that is named or written to is one that was, or its job's own.
  <2>2. ASSUME NEW k \in Jobs, Merge(k)
        PROVE  /\ \A u \in Uploads : name'[u] \in {name[u], NoFile} \/ (name'[u] = k /\ u = UploadOf(k))
               /\ \A j \in Jobs : \/ fd'[j] = fd[j] /\ step'[j] = step[j]
                                  \/ j = k /\ fd'[j] = NoFile
                                  \/ j = k /\ fd'[j] \in {k, fd[k], name[UploadOf(k)]} /\ step'[j] \in Running
               /\ \A j \in Jobs : step'[j] \in {"none", "start"} => step[j] = step'[j] /\ pos'[j] = pos[j]
               /\ step[k] # "none" /\ UploadOf(k) \in Uploads
    <3>1. /\ step[k] \in Running /\ UploadOf(k) \in Uploads
          /\ \A j \in Jobs : j # k => step'[j] = step[j] /\ pos'[j] = pos[j] /\ fd'[j] = fd[j]
          /\ step'[k] \in (Running \ {"start"}) \cup Ended
      BY <2>2, JobsMove DEF JobFrame, OthersStay
    <3>2. /\ \A v \in Uploads : v # UploadOf(k) => name'[v] = name[v]
          /\ name'[UploadOf(k)] \in {k, name[UploadOf(k)], NoFile}
          /\ fd'[k] \in {k, fd[k], name[UploadOf(k)], NoFile}
          /\ fd'[k] # NoFile => step'[k] \in Running
      BY <2>2, JobTouches
    <3>3. step[k] # "none" /\ step'[k] \notin {"none", "start"}
      BY <3>1 DEF Running, Ended
    <3> QED
      BY <3>1, <3>2, <3>3
  <2>3. ASSUME ~ \E k \in Jobs : Merge(k)
        PROVE  /\ name' = name
               /\ \A j \in Jobs : \/ fd'[j] = fd[j] /\ step'[j] = step[j]
                                  \/ fd'[j] = NoFile /\ step'[j] = "failed"
               /\ \A j \in Jobs : step'[j] \in {"none", "start"} => step[j] = step'[j] /\ pos'[j] = pos[j]
    <3>1. CASE Sender \/ UNCHANGED vars
      BY <3>1, SendersMove DEF vars
    <3>2. CASE \E r \in Requests : Answer(r)
      BY <3>2, AnswersMove
    <3>3. ASSUME NEW r \in Requests, CrashBundle(r)
          PROVE  /\ name' = name
                 /\ \A j \in Jobs : \/ fd'[j] = fd[j] /\ step'[j] = step[j] /\ pos'[j] = pos[j]
                                    \/ fd'[j] = NoFile /\ step'[j] = "failed"
      BY <3>3, CrashMoves
    <3>4. CASE \E r \in Requests : CrashBundle(r)
      BY <3>3, <3>4
    <3>5. CASE \E r \in Requests, M \in SUBSET Jobs : BundleJoin(r, M)
      BY <3>5, JoinMoves
    <3> QED
      BY <1>3, <2>3, <3>1, <3>2, <3>4, <3>5, NextCases
  <2>4. \A j \in Jobs : step'[j] \in {"none", "start"} => pos'[j] = 1
    BY <2>2, <2>3 DEF Owned
  <2>5. ASSUME NEW u \in Uploads, name'[u] # NoFile
        PROVE  step'[name'[u]] # "none" /\ UploadOf(name'[u]) = u
    <3>1. CASE name'[u] = name[u]
      <4>1. PICK f \in Jobs : f = name[u]
        BY <1>1, <2>5, <3>1
      <4> QED
        BY <2>1, <2>5, <3>1, <4>1 DEF Owned
    <3>2. CASE name'[u] # name[u]
      <4>1. PICK k \in Jobs : name'[u] = k /\ u = UploadOf(k) /\ step[k] # "none"
        BY <2>2, <2>3, <2>5, <3>2
      <4> QED
        BY <2>1, <4>1
    <3> QED
      BY <3>1, <3>2
  <2>6. ASSUME NEW j \in Jobs, fd'[j] # NoFile
        PROVE  step'[j] \in Running /\ step'[fd'[j]] # "none" /\ UploadOf(fd'[j]) = UploadOf(j)
    <3>1. CASE fd'[j] = fd[j] /\ step'[j] = step[j]
      <4>1. PICK f \in Jobs : f = fd[j]
        BY <1>1, <2>6, <3>1
      <4> QED
        BY <2>1, <2>6, <3>1, <4>1 DEF Owned
    <3>2. CASE ~ (fd'[j] = fd[j] /\ step'[j] = step[j])
      <4>1. PICK k \in Jobs : Merge(k)
        BY <2>3, <2>6, <3>2
      <4>2. j = k /\ fd'[j] \in {k, fd[k], name[UploadOf(k)]} /\ step'[j] \in Running
            /\ step[k] # "none" /\ UploadOf(k) \in Uploads
        BY <2>2, <2>6, <3>2, <4>1
      <4>3. PICK f : f = fd'[j]
        OBVIOUS
      <4>4. f \in Jobs /\ step[f] # "none" /\ UploadOf(f) = UploadOf(k)
        BY <1>1, <2>6, <4>2, <4>3 DEF Owned
      <4> QED
        BY <2>1, <4>2, <4>3, <4>4
    <3> QED
      BY <3>1, <3>2
  <2> QED
    BY <2>1, <2>4, <2>5, <2>6 DEF Owned, UploadOf
<1> QED
  BY <1>2, <1>3

\* A job alone on its upload goes on copying.
LEMMA CopyingOn ==
  ASSUME Shaped, Stored, Owned, NEW j \in Jobs, Merge(j), Copying(j)
  PROVE  Copying(j)'
<1> DEFINE u == UploadOf(j)
<1>1. /\ name \in [Uploads -> Jobs \cup {NoFile}]
      /\ part \in [Uploads -> [Parts -> {"none", "cut", "whole"}]]
      /\ inode \in [Jobs -> [Parts -> Parts \cup {Hole}]]
      /\ fd \in [Jobs -> Jobs \cup {NoFile}]
      /\ pos \in [Jobs -> 1..(ChunkCount + 1)] /\ exact \in [Jobs -> BOOLEAN]
      /\ offset \in [Jobs -> 1..(ChunkCount + 1)]
      /\ step \in [Jobs -> Running \cup Ended \cup {"none"}]
      /\ saved \in [Jobs -> {"none", "whole", "broken", "cut", "deleted"}]
      /\ u \in Uploads /\ TypeOK /\ ChunkCount \in Nat
  BY JobsMove, ChunkCountAssumption DEF Shaped, TypeOK
<1>2. UploadOf(j)' = u
  BY JobsMove DEF JobFrame, UploadOf
<1>3. \A f \in Jobs : f # NoFile
  BY JobForm DEF NoFile
<1> HIDE DEF u
<1>4. CASE Fail(j)
  <2>1. step'[j] = "failed"
    BY <1>1, <1>4, FailShaped
  <2> QED
    BY <2>1 DEF Copying
<1>5. CASE JobOpen(j) /\ ~ Fail(j)
  <2> DEFINE f == IF name[u] = NoFile THEN j ELSE name[u]
  <2>1. /\ name' = [name EXCEPT ![u] = f] /\ fd' = [fd EXCEPT ![j] = f]
        /\ step' = [step EXCEPT ![j] = "size"] /\ UNCHANGED <<pos, exact, offset>>
        /\ step[j] = "start"
    BY <1>5 DEF JobOpen, u
  <2>2. f \in Jobs
    BY <1>1
  <2> HIDE DEF f
  <2>3. fd'[j] # NoFile /\ name'[u] = fd'[j] /\ step'[j] = "size"
    BY <1>1, <1>3, <2>1, <2>2
  <2>4. pos'[j] = 1 /\ offset'[j] = 1
    BY <1>1, <2>1 DEF Owned, Shaped, Places
  <2>5. \A n \in Parts : ~ (n < pos'[j])
    BY <2>4 DEF Parts
  <2> QED
    BY <1>2, <2>3, <2>4, <2>5 DEF Copying
<1>6. CASE JobSize(j) /\ ~ Fail(j)
  <2>1. /\ exact' = [exact EXCEPT ![j] = @ /\ part[u][pos[j]] = "whole"]
        /\ step' = [step EXCEPT ![j] = "copy"]
        /\ UNCHANGED <<name, part, inode, pos, fd, offset>> /\ step[j] = "size"
    BY <1>6 DEF JobSize, files, u
  <2>2. step'[j] = "copy"
    BY <1>1, <2>1
  <2>3. exact'[j] => exact[j] /\ part[u][pos[j]] = "whole"
    BY <1>1, <2>1
  <2>4. /\ fd[j] # NoFile /\ name[u] = fd[j]
        /\ exact[j] => /\ offset[j] = pos[j]
                       /\ \A n \in Parts : n < pos[j] => inode[fd[j]][n] = n
    BY <2>1 DEF Copying, u
  <2> QED
    BY <1>2, <2>1, <2>2, <2>3, <2>4 DEF Copying
<1>7. CASE JobCopy(j) /\ ~ Fail(j)
  <2> DEFINE i == pos[j]
  <2>1. /\ step[j] = "copy" /\ pos' = [pos EXCEPT ![j] = i + 1]
        /\ step' = [step EXCEPT ![j] = IF i = ChunkCount THEN "compare" ELSE "size"]
        /\ IF part[u][i] = "whole"
           THEN /\ inode' = [inode EXCEPT ![fd[j]][offset[j]] = i]
                /\ offset' = [offset EXCEPT ![j] = @ + 1]
           ELSE UNCHANGED <<inode, offset>>
        /\ UNCHANGED <<name, part, fd, exact>>
    BY <1>7 DEF JobCopy, u
  <2>2. /\ fd[j] # NoFile /\ name[u] = fd[j]
        /\ exact[j] => /\ offset[j] = i /\ part[u][i] = "whole"
                       /\ \A n \in Parts : n < i => inode[fd[j]][n] = n
    BY <2>1 DEF Copying, u
  <2>3. i \in Parts
    <3>1. step[j] \notin Past
      BY <2>1 DEF Past
    <3>2. i <= ChunkCount /\ i \in 1..(ChunkCount + 1)
      BY <1>1, <3>1 DEF Shaped, Places
    <3> QED
      BY <1>1, <3>2 DEF Parts
  <2>4. step'[j] \in {"compare", "size"} /\ pos'[j] = i + 1
    BY <1>1, <2>1
  <2>5. ASSUME exact[j]
        PROVE  offset'[j] = i + 1 /\ \A n \in Parts : n < i + 1 => inode'[fd[j]][n] = n
    <3>1. inode' = [inode EXCEPT ![fd[j]][i] = i] /\ offset' = [offset EXCEPT ![j] = @ + 1] /\ offset[j] = i
      BY <2>1, <2>2, <2>5
    <3>2. fd[j] \in Jobs
      BY <1>1, <2>2
    <3>3. inode'[fd[j]] = [inode[fd[j]] EXCEPT ![i] = i]
      BY <1>1, <3>1, <3>2
    <3>4. inode'[fd[j]][i] = i /\ \A n \in Parts : n # i => inode'[fd[j]][n] = inode[fd[j]][n]
      BY <1>1, <2>3, <3>2, <3>3
    <3>5. \A n \in Parts : n < i + 1 => n < i \/ n = i
      BY <2>3 DEF Parts
    <3>6. offset'[j] = i + 1
      BY <1>1, <3>1
    <3> HIDE DEF i
    <3> QED
      BY <2>2, <2>5, <3>4, <3>5, <3>6
  <2> HIDE DEF i
  <2> QED
    BY <1>2, <2>1, <2>2, <2>4, <2>5 DEF Copying
<1>8. CASE JobCompare(j) /\ ~ Fail(j)
  <2>1. /\ exact[j] /\ step[j] = "compare" /\ step' = [step EXCEPT ![j] = "save"]
        /\ UNCHANGED <<name, inode, pos, exact, fd, offset, saved>>
    BY <1>8 DEF JobCompare
  <2>2. step'[j] = "save"
    BY <1>1, <2>1
  <2> QED
    BY <1>2, <2>1, <2>2 DEF Copying, u
<1>9. CASE JobSave(j) /\ ~ Fail(j)
  <2> DEFINE f == name[u]
  <2>1. /\ f # NoFile /\ step[j] = "save" /\ step' = [step EXCEPT ![j] = "unlink"]
        /\ saved' = [saved EXCEPT ![j] = IF inode[f] = WholeFile THEN "whole" ELSE "broken"]
    BY <1>9 DEF JobSave, u
  <2>2. /\ f = fd[j] /\ f \in Jobs
        /\ \A n \in Parts : n < pos[j] => inode[f][n] = n
    BY <1>1, <2>1 DEF Copying, u
  <2>3. pos[j] = ChunkCount + 1
    BY <2>1 DEF Shaped, Places, Past
  <2>4. \A n \in Parts : inode[f][n] = n
    BY <1>1, <2>2, <2>3 DEF Parts
  <2> HIDE DEF f
  <2>5. inode[f] = WholeFile
    BY <1>1, <2>2, <2>4 DEF WholeFile
  <2>6. saved'[j] = "whole" /\ step'[j] = "unlink"
    BY <1>1, <2>1, <2>5
  <2> QED
    BY <2>6 DEF Copying
<1>10. CASE JobUnlink(j)
  <2>1. step[j] = "unlink" /\ saved' = saved /\ step'[j] = "rmtree"
    BY <1>1, <1>10 DEF JobUnlink
  <2> QED
    BY <2>1 DEF Copying
<1>11. CASE JobRmtree(j)
  <2>1. step[j] = "rmtree" /\ saved' = saved /\ step'[j] = "merged"
    BY <1>11 DEF JobRmtree, Results
  <2> QED
    BY <2>1 DEF Copying
<1>12. JobSaveRaises(j) => Fail(j)
  BY DEF JobSaveRaises
<1> QED
  BY <1>4, <1>5, <1>6, <1>7, <1>8, <1>9, <1>10, <1>11, <1>12 DEF Merge

\* A job that keeps its place, its files, its parts and its result keeps what it has
\* copied.
LEMMA CopyingKept ==
  ASSUME NEW j \in Jobs, Copying(j),
         step'[j] = step[j], UploadOf(j)' = UploadOf(j), saved'[j] \in {saved[j], "deleted"},
         step[j] \in Running => /\ pos'[j] = pos[j] /\ exact'[j] = exact[j]
                                /\ fd'[j] = fd[j] /\ offset'[j] = offset[j]
                                /\ name'[UploadOf(j)] = name[UploadOf(j)]
                                /\ part'[UploadOf(j)] = part[UploadOf(j)]
                                /\ fd[j] # NoFile => inode'[fd[j]] = inode[fd[j]]
  PROVE  Copying(j)'
<1>1. CASE step[j] \in Running
  <2>1. /\ pos'[j] = pos[j] /\ exact'[j] = exact[j] /\ fd'[j] = fd[j] /\ offset'[j] = offset[j]
        /\ name'[UploadOf(j)] = name[UploadOf(j)]
        /\ part'[UploadOf(j)] = part[UploadOf(j)]
        /\ fd[j] # NoFile => inode'[fd[j]] = inode[fd[j]]
    BY <1>1
  <2>2. /\ step[j] \in {"size", "copy", "compare", "save"} =>
             /\ fd'[j] # NoFile /\ name'[UploadOf(j)'] = fd'[j]
             /\ exact'[j] => /\ offset'[j] = pos'[j]
                             /\ \A n \in Parts : n < pos'[j] => inode'[fd'[j]][n] = n
    BY <2>1 DEF Copying
  <2>3. step[j] = "copy" /\ exact'[j] => part'[UploadOf(j)'][pos'[j]] = "whole"
    BY <2>1 DEF Copying
  <2>4. step[j] = "save" => exact'[j]
    BY <2>1 DEF Copying
  <2>5. step[j] \in {"unlink", "rmtree", "merged"} => saved'[j] \in {"whole", "deleted"}
    BY DEF Copying
  <2> QED
    BY <2>2, <2>3, <2>4, <2>5 DEF Copying
<1>2. CASE step[j] \notin Running
  BY <1>2 DEF Copying, Running
<1> QED
  BY <1>1, <1>2

LEMMA WholeStays ==
  ASSUME UploadInv, [Next]_vars
  PROVE  Whole'
<1> SUFFICES ASSUME NEW j \in Jobs, j \notin disturbed' PROVE Copying(j)'
  BY DEF Whole
<1>1. Shaped /\ Stored /\ Apart /\ Owned /\ Whole
  BY DEF UploadInv
<1>2. fd[j] \in Jobs \cup {NoFile}
  BY <1>1 DEF Shaped, TypeOK
<1>3. ASSUME NEW r \in Requests, NEW b \in Bundles[r], BundleBegin(r, b) PROVE Copying(j)'
  <2>1. /\ pc[r] = "new" /\ bundle' = [bundle EXCEPT ![r] = b]
        /\ UNCHANGED <<name, part, inode, fd, pos, exact, offset, saved>>
        /\ step'[j] = step[j] \/ step'[j] = "start"
        /\ disturbed \subseteq disturbed'
    <3>1. disturbed \subseteq disturbed'
      <4>1. CASE \A i \in DOMAIN b : ChunksComplete(b[i])
        BY <1>1, <1>3, <4>1, BeginDisturbs
      <4>2. CASE ~ \A i \in DOMAIN b : ChunksComplete(b[i])
        BY <1>3, <4>2 DEF BundleBegin
      <4> QED
        BY <4>1, <4>2
    <3> QED
      BY <1>3, <3>1 DEF BundleBegin, files
  <2>2. CASE step'[j] = "start" \/ step'[j] = "none"
    BY <2>2 DEF Copying
  <2>3. CASE step'[j] = step[j] /\ step[j] # "none"
    <3>1. UploadOf(j)' = UploadOf(j)
      BY <1>1, <2>1, <2>3, Begun DEF UploadOf, Shaped
    <3>2. Copying(j)
      BY <1>1, <2>1 DEF Whole
    <3> QED
      BY <2>1, <2>3, <3>1, <3>2, CopyingKept
  <2> QED
    BY <2>1, <2>2, <2>3
<1>4. CASE ~ \E r \in Requests : \E b \in Bundles[r] : BundleBegin(r, b)
  <2>1. bundle' = bundle /\ disturbed \subseteq disturbed'
    BY <1>1, <1>4, NoneBegin
  <2>2. UploadOf(j)' = UploadOf(j) /\ j \notin disturbed /\ Copying(j)
    BY <1>1, <2>1 DEF UploadOf, Whole
  <2>3. ASSUME NEW k \in Jobs, Merge(k) PROVE Copying(j)'
    <3>1. CASE j = k
      BY <1>1, <2>2, <2>3, <3>1, CopyingOn
    <3>2. CASE j # k
      <4>1. /\ step'[j] = step[j] /\ pos'[j] = pos[j] /\ exact'[j] = exact[j]
            /\ fd'[j] = fd[j] /\ offset'[j] = offset[j] /\ saved'[j] = saved[j]
            /\ step[k] \in Running
        BY <1>1, <2>3, <3>2, JobsMove DEF JobFrame, OthersStay
      <4>2. ASSUME step[j] \in Running
            PROVE  /\ name'[UploadOf(j)] = name[UploadOf(j)]
                   /\ part'[UploadOf(j)] = part[UploadOf(j)]
                   /\ fd[j] # NoFile => inode'[fd[j]] = inode[fd[j]]
        <5>1. UploadOf(j) # UploadOf(k)
          BY <1>1, <2>2, <3>2, <4>1, <4>2 DEF Apart, Lives
        <5>2. UploadOf(j) \in Uploads
          BY <1>1, <4>2, Begun DEF Running
        <5>3. /\ \A v \in Uploads : v # UploadOf(k) => name'[v] = name[v] /\ part'[v] = part[v]
              /\ \A f \in Jobs : inode'[f] # inode[f] => step[f] # "none" /\ UploadOf(f) = UploadOf(k)
          BY <1>1, <2>3, JobTouches
        <5>4. fd[j] # NoFile => fd[j] \in Jobs /\ UploadOf(fd[j]) = UploadOf(j)
          BY <1>1, <1>2 DEF Owned
        <5> HIDE DEF UploadOf
        <5> QED
          BY <5>1, <5>2, <5>3, <5>4
      <4> QED
        BY <2>2, <4>1, <4>2, CopyingKept
    <3> QED
      BY <3>1, <3>2
  <2>4. CASE Sender
    <3>1. UNCHANGED <<name, inode, step, pos, exact, fd, offset, saved, bundle>>
      BY <1>1, <2>4, SendersMove
    <3>2. ASSUME step[j] \in Running PROVE part'[UploadOf(j)] = part[UploadOf(j)]
      <4>1. UploadOf(j) \in Uploads
        BY <1>1, <3>2, Begun DEF Running
      <4>2. Sending(UploadOf(j)) = {} /\ j \in Merging(UploadOf(j))
        BY <1>1, <2>2, <3>2 DEF Apart, Merging
      <4>3. PICK v \in Uploads : v = UploadOf(j)
        BY <4>1
      <4>4. part'[v] = part[v] \/ Merging(v) \subseteq disturbed' \/ Sending(v) # {}
        BY <1>1, <2>4, SendersMove
      <4> QED
        BY <4>2, <4>3, <4>4
    <3> QED
      BY <2>2, <3>1, <3>2, CopyingKept
  <2>5. CASE UNCHANGED vars
    <3>1. UNCHANGED <<name, part, inode, step, pos, exact, fd, offset, saved>>
      BY <2>5 DEF vars
    <3> QED
      BY <2>2, <3>1, CopyingKept
  <2>6. ASSUME NEW r \in Requests, Answer(r) PROVE Copying(j)'
    <3>1. UNCHANGED <<name, part, inode, step, pos, exact, fd, offset, saved>>
      BY <1>1, <2>6, AnswersMove
    <3> QED
      BY <2>2, <3>1, CopyingKept
  <2>7. ASSUME NEW r \in Requests, CrashBundle(r) PROVE Copying(j)'
    <3>1. /\ UNCHANGED <<name, part, inode, saved>>
          /\ \/ step'[j] = "failed"
             \/ /\ step'[j] = step[j] /\ pos'[j] = pos[j] /\ exact'[j] = exact[j]
                /\ fd'[j] = fd[j] /\ offset'[j] = offset[j]
      BY <1>1, <2>7, CrashMoves
    <3>2. CASE step'[j] = "failed"
      BY <3>2 DEF Copying
    <3>3. CASE step'[j] # "failed"
      BY <2>2, <3>1, <3>3, CopyingKept
    <3> QED
      BY <3>2, <3>3
  <2>8. ASSUME NEW r \in Requests, NEW M \in SUBSET Jobs, BundleJoin(r, M) PROVE Copying(j)'
    <3>1. /\ UNCHANGED <<name, part, inode, step, pos, exact, fd, offset>>
          /\ saved'[j] \in {saved[j], "deleted"}
      <4>1. /\ UNCHANGED <<name, part, inode, step, pos, exact, fd, offset>>
            /\ saved'[j] = saved[j] \/ saved'[j] = "deleted"
        BY <1>1, <2>8, JoinMoves
      <4> QED
        BY <4>1
    <3> QED
      BY <2>2, <3>1, CopyingKept
  <2> QED
    BY <1>4, <2>3, <2>4, <2>5, <2>6, <2>7, <2>8, NextCases
<1> QED
  BY <1>3, <1>4

-----------------------------------------------------------------------------
(* The theorems.                                                                    *)

LEMMA UploadInvAtFirst == Init => UploadInv
<1> SUFFICES ASSUME Init PROVE UploadInv
  OBVIOUS
<1>1. Shaped
  BY ShapedAtFirst
<1>2. /\ step = [j \in Jobs |-> "none"] /\ saved = [j \in Jobs |-> "none"]
      /\ fd = [j \in Jobs |-> NoFile] /\ name = [u \in Uploads |-> NoFile]
      /\ pos = [j \in Jobs |-> 1]
      /\ pc = [r \in Requests |-> "new"] /\ kept = [r \in Requests |-> {}]
  BY DEF Init
<1>3. Stored
  BY <1>2 DEF Stored, Running
<1>4. Answered
  BY <1>2 DEF Answered
<1>5. Apart
  <2>1. {j \in Jobs : step[j] # "none"} = {}
    BY <1>2
  <2>2. IsFiniteSet({j \in Jobs : step[j] # "none"})
    BY <2>1, FS_EmptySet
  <2> QED
    BY <1>2, <2>2 DEF Apart, Lives, Running
<1>6. Owned
  BY <1>2 DEF Owned
<1>7. Whole
  BY <1>2 DEF Whole, Copying
<1> QED
  BY <1>1, <1>3, <1>4, <1>5, <1>6, <1>7 DEF UploadInv

\* The inductive invariant: where each merge job is, what it has copied, what is in the
\* storage and what its request keeps of it.
THEOREM UploadsHold == Spec => []UploadInv
<1>1. UploadInv /\ [Next]_vars => UploadInv'
  <2> SUFFICES ASSUME UploadInv, [Next]_vars PROVE UploadInv'
    OBVIOUS
  <2>1. Shaped /\ Stored /\ Answered /\ Apart /\ Owned
    BY DEF UploadInv
  <2> QED
    BY <2>1, ShapedStays, StoredStays, AnsweredStays, ApartStays, OwnedStays, WholeStays DEF UploadInv
<1> QED
  BY <1>1, UploadInvAtFirst, PTL DEF Spec

\* Every state of the upload model is well typed: what is written to and copied from is
\* a part there is.
THEOREM TypeCorrect == Spec => []TypeOK
<1>1. UploadInv => TypeOK
  BY DEF UploadInv, Shaped
<1> QED
  BY <1>1, UploadsHold, PTL

\* A bundle that is answered ok has a stored file for each upload it names, whatever
\* order its jobs ended in.
THEOREM FilesAreThere == Spec => []OkHasEveryFile
<1>1. UploadInv => OkHasEveryFile
  <2> SUFFICES ASSUME UploadInv, NEW r \in Requests, pc[r] = "ok", NEW i \in DOMAIN bundle[r]
               PROVE  \E j \in attached[r] : UploadOf(j) = bundle[r][i] /\ saved[j] \in {"whole", "broken"}
    BY DEF OkHasEveryFile
  <2>1. <<r, i>> \in JobsOf(r) /\ UploadOf(<<r, i>>) = bundle[r][i]
    BY DEF JobsOf, UploadOf
  <2> HIDE DEF JobsOf, UploadOf
  <2>2. PICK k \in kept[r] : UploadOf(k) = bundle[r][i]
    BY <2>1 DEF UploadInv, Answered
  <2>3. k \in attached[r] /\ step[k] = "merged" /\ k \in JobsOf(r)
    BY DEF UploadInv, Answered, Shaped, TypeOK
  <2>4. k \in Jobs /\ k[1] = r
    BY <2>3, JobsOfForm DEF UploadInv, Shaped
  <2>5. saved[k] \in {"none", "whole", "broken", "cut", "deleted"} /\ saved[k] \notin {"none", "cut", "deleted"}
    BY <2>3, <2>4 DEF UploadInv, Stored, Shaped, TypeOK
  <2> QED
    BY <2>2, <2>3, <2>5
<1> QED
  BY <1>1, UploadsHold, PTL

\* A bundle that was answered, and names an upload once, leaves no file of it behind
\* that its message does not have, unless the storage failed to write or to delete that
\* very file.
THEOREM NothingIsLeft == Spec => []NoStrayFiles
<1>1. UploadInv => NoStrayFiles
  <2> SUFFICES ASSUME UploadInv, NEW r \in Requests, NEW j \in JobsOf(r),
                      pc[r] \in {"ok", "error"},
                      \A k \in JobsOf(r) : UploadOf(k) = UploadOf(j) => k = j
               PROVE  saved[j] \in {"none", "deleted"} \/ j \in attached[r] \/ j \in botched
    BY DEF NoStrayFiles
  <2>1. CASE pc[r] = "error"
    BY <2>1 DEF UploadInv, Answered
  <2>2. CASE pc[r] = "ok"
    <3>1. PICK k \in kept[r] : UploadOf(k) = UploadOf(j)
      BY <2>2 DEF UploadInv, Answered
    <3>2. k \in JobsOf(r) /\ k \in attached[r]
      BY <2>2 DEF UploadInv, Answered, Shaped, TypeOK
    <3> QED
      BY <3>1, <3>2
  <2> QED
    BY <2>1, <2>2
<1> QED
  BY <1>1, UploadsHold, PTL

\* What is attached was kept, and so was merged and is in the storage.
LEMMA AttachedAreMerged ==
  ASSUME UploadInv, NEW r \in Requests, NEW j \in attached[r]
  PROVE  j \in Jobs /\ j[1] = r /\ step[j] = "merged" /\ saved[j] # "deleted"
<1>1. j \in kept[r] /\ j \in JobsOf(r)
  BY DEF UploadInv, Shaped, TypeOK
<1>2. j \in Jobs /\ j[1] = r /\ step[j] = "merged"
  BY <1>1, JobsOfForm DEF UploadInv, Shaped, Answered
<1>3. pc[r] # "error"
  BY <1>1 DEF UploadInv, Shaped
<1> QED
  BY <1>2, <1>3 DEF UploadInv, Stored

\* An attachment is the whole file unless its merge was disturbed.
THEOREM AttachmentsAreWhole == Spec => []WholeUnlessDisturbed
<1>1. UploadInv => WholeUnlessDisturbed
  <2> SUFFICES ASSUME UploadInv, NEW j \in Posted, j \notin disturbed PROVE saved[j] = "whole"
    BY DEF WholeUnlessDisturbed
  <2>1. PICK r \in Requests : j \in attached[r]
    BY DEF Posted
  <2>2. j \in Jobs /\ step[j] = "merged" /\ saved[j] # "deleted"
    BY <2>1, AttachedAreMerged
  <2> QED
    BY <2>2 DEF UploadInv, Whole, Copying
<1> QED
  BY <1>1, UploadsHold, PTL

\* An upload goes into one message, unless the merges of two bundles overlapped.
THEOREM UploadsAreUsedOnce == Spec => []UsedOnceUnlessOverlapped
<1>1. UploadInv => UsedOnceUnlessOverlapped
  <2> SUFFICES ASSUME UploadInv, NEW r \in Requests, NEW q \in Requests, r # q,
                      NEW j \in attached[r], NEW k \in attached[q], UploadOf(j) = UploadOf(k)
               PROVE  {j, k} \subseteq disturbed
    BY DEF UsedOnceUnlessOverlapped
  <2>1. /\ j \in Jobs /\ j[1] = r /\ step[j] = "merged"
        /\ k \in Jobs /\ k[1] = q /\ step[k] = "merged"
    BY AttachedAreMerged
  <2>2. j # k /\ Lives(j) /\ Lives(k)
    BY <2>1 DEF Lives
  <2> QED
    BY <2>1, <2>2 DEF UploadInv, Apart
<1> QED
  BY <1>1, UploadsHold, PTL
=============================================================================
