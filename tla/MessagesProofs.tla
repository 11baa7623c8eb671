------------------------------ MODULE MessagesProofs ------------------------------
(***************************************************************************)
(* What holds of the messages of a chat for any processes, messages,       *)
(* videos and pictures, and however many requests, purges, faults and      *)
(* crashes: first the types of everything in Messages and MediaFiles, on   *)
(* which MediaFilesProofs rests too, then one section per property.        *)
(***************************************************************************)
EXTENDS Messages, SequenceTheorems, FiniteSetTheorems, WellFoundedInduction, TLAPS

-----------------------------------------------------------------------------
(* Types.  What a request holds is fit for the statement it is at.                  *)

Tasking == {"encode", "drop", "store", "record"}
OnMessage == {"recipients", "file", "video", "attach", "save", "edit", "delete"} \cup Reacting
Rounds == {"new", "part", "full"}
Locals == [m : Media \cup {"none"}, path : Paths, of : Media \cup {"none"}, flag : BOOLEAN,
           rounds : Seq(Rounds), x : Nat, at : Nat, deleted : BOOLEAN, todo : SUBSET Nat,
           kind : Kinds \cup {"none"},
           via : {"web", "task", "ws", "rest", "purge", "react", "again"}]

\* The locals r of a request at label, where X are the ids of messages.
Fits(label, r, X) ==
    /\ label \in Tasking => r.via = "task" /\ r.m \in Videos \cup Clips
    /\ label \in {"drop", "store", "record"} => r.of \in Videos \cup Clips
    /\ label \in SavingPicture =>
          /\ r.m \in Pictures /\ r.via \in {"web", "task"} /\ r.rounds # <<>>
          /\ r.via = "task" => r.m \in Clips /\ r.rounds = <<"part">>
    /\ label \notin SavingPicture \cup Tasking => r.m \in Videos \cup {"none"} /\ r.via # "task"
    /\ label \in {"file", "video", "attach"} => r.m \in Videos /\ r.via = "rest"
    /\ label \in OnMessage => r.x \in X
    /\ label \in Reacting => r.kind \in Kinds
    /\ label = "purge" => r.todo \subseteq X

StorageOK ==
    /\ row \in [Media -> {"none", "there", "gone"}]
    /\ path \in [Media -> Paths]
    /\ disk \subseteq [at : Paths, of : Videos \cup Clips]
    /\ hurt \subseteq Videos \cup Clips
    /\ today \in Days
PicturesOK ==
    primary \in [Pictures -> BOOLEAN] /\ chosen \in Pictures \cup {"none"} /\ mixed \in BOOLEAN
TasksOK == queue \subseteq Videos \cup Clips /\ tries \in [Media -> 0..MaxRetries]
ProcsOK ==
    /\ pc = [q \in Procs |-> pc[q]]
    /\ req \in [Procs -> Locals]
    /\ left \in [Sorts -> Nat]
    /\ \A q \in Procs : Fits(pc[q], req[q], Ids)
MsgsOK ==
    /\ msgs \in Seq(Message)
    /\ clock \in Nat
    /\ read \subseteq inbox /\ inbox \cup overlapped \cup cut \subseteq Ids
Typed == StorageOK /\ PicturesOK /\ TasksOK /\ ProcsOK /\ MsgsOK

LEMMA NoPathTyped == NoPath \in Paths
BY NamesAssumption DEF NoPath, Paths

LEMMA NoRequestTyped == NoRequest \in Locals /\ \A X : Fits("idle", NoRequest, X)
<1>1. <<>> \in Seq(Rounds)
    BY EmptySeq
<1> QED
    BY <1>1, NoPathTyped DEF NoRequest, Locals, Fits, Tasking, SavingPicture, OnMessage, Reacting

LEMMA MediaDisjoint ==
    /\ Videos \cap Pictures = {} /\ Photos \cap Clips = {}
    /\ Media = Videos \cup Photos \cup Clips /\ Pictures = Photos \cup Clips
    /\ "none" \notin Media
BY KindsAssumption, NobodyAssumption DEF Media, Pictures

LEMMA SpendTyped ==
    ASSUME left \in [Sorts -> Nat], NEW k,
           \/ Spend(k) \/ UNCHANGED left
           \/ left[k] > 0 /\ left' = [left EXCEPT ![k] = @ - 1]
    PROVE  left' \in [Sorts -> Nat]
BY DEF Spend

\* A request goes on, or begins, with locals that fit.
LEMMA MoveTyped ==
    ASSUME ProcsOK, NEW p \in Procs, NEW label, NEW r \in Locals, GoWith(p, label, r),
           Fits(label, r, Ids'), Ids \subseteq Ids', left' \in [Sorts -> Nat]
    PROVE  ProcsOK'
<1>1. \A q \in Procs : /\ pc'[q] = IF q = p THEN label ELSE pc[q]
                       /\ req'[q] = IF q = p THEN r ELSE req[q]
    BY DEF GoWith, ProcsOK
<1>2. pc' = [q \in Procs |-> pc'[q]] /\ req' \in [Procs -> Locals]
    BY DEF GoWith, ProcsOK
<1>3. \A q \in Procs : Fits(pc[q], req[q], Ids')
    BY DEF ProcsOK, Fits
<1> QED
    BY <1>1, <1>2, <1>3 DEF ProcsOK

LEMMA FinishTyped ==
    ASSUME ProcsOK, NEW p \in Procs, Finish(p) \/ GoWith(p, "idle", NoRequest),
           left' \in [Sorts -> Nat], Ids \subseteq Ids'
    PROVE  ProcsOK'
<1>1. GoWith(p, "idle", NoRequest)
    BY DEF Finish
<1> QED
    BY <1>1, MoveTyped, NoRequestTyped

LEMMA StillTyped ==
    ASSUME ProcsOK, UNCHANGED <<pc, req>>, left' \in [Sorts -> Nat], Ids \subseteq Ids'
    PROVE  ProcsOK'
<1>1. \A q \in Procs : Fits(pc[q], req[q], Ids')
    BY DEF ProcsOK, Fits
<1> QED
    BY <1>1 DEF ProcsOK

\* What a request holds.
LEMMA HeldTyped ==
    ASSUME ProcsOK, NEW p \in Procs
    PROVE  /\ req[p] \in Locals /\ Fits(pc[p], req[p], Ids)
           /\ req[p].m \in Media \cup {"none"} /\ req[p].path \in Paths
           /\ req[p].flag \in BOOLEAN /\ req[p].rounds \in Seq(Rounds)
           /\ req[p].deleted \in BOOLEAN /\ req[p].at \in Nat
BY DEF ProcsOK, Locals

\* Names, and what removing and storing a file leaves of the storage.
LEMMA NameTyped ==
    ASSUME NEW m \in Media, NEW x \in Paths
    PROVE  StoredAs(m, x) \in Paths
BY DEF StoredAs, Paths

LEMMA DiskTyped ==
    ASSUME StorageOK
    PROVE  /\ \A x : Without(x) \subseteq [at : Paths, of : Videos \cup Clips]
           /\ \A x, m : Robbed(x, m) \subseteq Videos \cup Clips
           /\ \A m \in Videos \cup Clips, x \in Paths :
                 disk \cup {[at |-> x, of |-> m]} \subseteq [at : Paths, of : Videos \cup Clips]
BY DEF StorageOK, Without, Robbed

-----------------------------------------------------------------------------
(* Types: compressions and pictures.                                                *)

MediaOK == StorageOK /\ PicturesOK /\ TasksOK /\ ProcsOK

LEMMA UnchangedTyped ==
    /\ StorageOK /\ UNCHANGED stored => StorageOK'
    /\ PicturesOK /\ UNCHANGED pictures => PicturesOK'
    /\ TasksOK /\ UNCHANGED tasks => TasksOK'
BY DEF StorageOK, PicturesOK, TasksOK, stored, pictures, tasks, Paths

LEMMA TakeTyped ==
    ASSUME MediaOK, UNCHANGED msgs, NEW w \in Procs, NEW m \in Videos \cup Clips, Take(w, m)
    PROVE  MediaOK'
<1> DEFINE r == [NoRequest EXCEPT !.m = m, !.path = path[m], !.via = "task",
                                  !.flag = m \in Clips /\ primary[m]]
<1>1. m \in Media /\ path[m] \in Paths /\ (m \in Clips /\ primary[m]) \in BOOLEAN
    BY MediaDisjoint DEF MediaOK, StorageOK, PicturesOK
<1>2. r \in Locals /\ Fits("encode", r, Ids)
    BY <1>1, NoRequestTyped DEF Locals, NoRequest, Fits, Tasking, SavingPicture, OnMessage, Reacting
<1>3. GoWith(w, "encode", r) /\ Ids' = Ids /\ left' = left
    BY DEF Take, Ids
<1> HIDE DEF r
<1>4. ProcsOK'
    BY <1>2, <1>3, MoveTyped DEF MediaOK, ProcsOK
<1>5. PicturesOK'
    <2>1. Requesting \in BOOLEAN
        BY DEF Requesting
    <2> QED
        BY <2>1 DEF Take, MediaOK, PicturesOK
<1>6. TasksOK'
    BY DEF Take, MediaOK, TasksOK
<1> QED
    BY <1>4, <1>5, <1>6, UnchangedTyped DEF Take, MediaOK

LEMMA EncodeTyped ==
    ASSUME MediaOK, UNCHANGED msgs, NEW w \in Procs, Encode(w)
    PROVE  MediaOK'
<1>1. PICK f \in disk :
          /\ GoWith(w, "drop", [req[w] EXCEPT !.of = f.of])
          /\ hurt' = IF f.of = req[w].m THEN hurt ELSE hurt \cup {req[w].m}
    BY DEF Encode
<1>2. f.of \in Videos \cup Clips /\ req[w].m \in Videos \cup Clips
    BY HeldTyped DEF MediaOK, StorageOK, Encode, Fits, Tasking
<1>3. /\ [req[w] EXCEPT !.of = f.of] \in Locals
      /\ Fits("drop", [req[w] EXCEPT !.of = f.of], Ids)
    BY <1>2, HeldTyped, MediaDisjoint
    DEF MediaOK, Encode, Locals, Fits, Tasking, SavingPicture, OnMessage, Reacting
<1>4. ProcsOK'
    BY <1>1, <1>3, MoveTyped DEF MediaOK, ProcsOK, Encode, Ids
<1>5. StorageOK'
    BY <1>1, <1>2 DEF Encode, MediaOK, StorageOK, Paths
<1> QED
    BY <1>4, <1>5, UnchangedTyped DEF Encode, MediaOK

LEMMA MarkFailedTyped ==
    ASSUME MediaOK, UNCHANGED msgs, NEW w \in Procs, pc[w] \in Tasking, MarkFailed(w),
           left' \in [Sorts -> Nat]
    PROVE  ProcsOK' /\ PicturesOK'
<1> DEFINE r == [req[w] EXCEPT !.flag = primary[req[w].m], !.rounds = <<"part">>]
<1>1. ProcsOK'
    <2>1. CASE GoWith(w, "idle", NoRequest)
        BY <2>1, FinishTyped DEF MediaOK, Ids
    <2>2. CASE req[w].m \in Clips /\ GoWith(w, "row", r)
        <3>1. primary[req[w].m] \in BOOLEAN
            BY <2>2, MediaDisjoint DEF MediaOK, PicturesOK
        <3>2. <<"part">> \in Seq(Rounds) /\ <<"part">> # <<>>
            BY DEF Rounds
        <3>3. r \in Locals
            BY <3>1, <3>2, HeldTyped DEF MediaOK, Locals
        <3>4. Fits("row", r, Ids)
            BY <2>2, <3>2, HeldTyped, MediaDisjoint
            DEF MediaOK, Locals, Fits, Tasking, SavingPicture, OnMessage, Reacting
        <3> QED
            BY <2>2, <3>3, <3>4, MoveTyped DEF MediaOK, Ids
    <2> QED
        BY <2>1, <2>2 DEF MarkFailed
<1>2. PicturesOK'
    <2>1. Requesting \in BOOLEAN /\ There(req[w].m) \in BOOLEAN
        BY DEF Requesting, There
    <2> QED
        BY <2>1 DEF MarkFailed, MediaOK, PicturesOK
<1> QED
    BY <1>1, <1>2

LEMMA FailingTyped ==
    ASSUME MediaOK, UNCHANGED msgs, NEW w \in Procs, Skip(w) \/ TaskFails(w)
    PROVE  MediaOK'
<1>1. pc[w] \in Tasking /\ MarkFailed(w)
    BY DEF Skip, TaskFails, Tasking
<1>2. left' \in [Sorts -> Nat]
    BY SpendTyped DEF MediaOK, ProcsOK, Skip, TaskFails
<1>3. req[w].m \in Videos \cup Clips /\ req[w].m \in Media
    BY <1>1, HeldTyped, MediaDisjoint DEF MediaOK, Fits
<1>4. StorageOK'
    BY <1>3, UnchangedTyped DEF Skip, TaskFails, MediaOK, StorageOK, Paths
<1>5. TasksOK'
    <2>1. ASSUME TaskFails(w) PROVE tries' \in [Media -> 0..MaxRetries]
        BY <1>3, <2>1, RetriesAssumption DEF TaskFails, MediaOK, TasksOK
    <2> QED
        BY <1>3, <2>1, UnchangedTyped DEF Skip, TaskFails, MediaOK, TasksOK
<1> QED
    BY <1>1, <1>2, <1>4, <1>5, MarkFailedTyped DEF MediaOK

LEMMA DropTyped ==
    ASSUME MediaOK, UNCHANGED msgs, NEW w \in Procs, Drop(w)
    PROVE  MediaOK'
<1>1. Fits("store", req[w], Ids) /\ req[w] \in Locals
    BY HeldTyped DEF MediaOK, Drop, Fits, Tasking, SavingPicture, OnMessage, Reacting
<1>2. ProcsOK'
    BY <1>1, MoveTyped DEF MediaOK, Drop, Goto, Ids, ProcsOK
<1>3. StorageOK'
    BY DiskTyped DEF MediaOK, Drop, StorageOK
<1> QED
    BY <1>2, <1>3, UnchangedTyped DEF Drop, MediaOK

LEMMA StoreTyped ==
    ASSUME MediaOK, UNCHANGED msgs, NEW w \in Procs, Store(w)
    PROVE  MediaOK'
<1>1. PICK x \in Paths :
          /\ disk' = disk \cup {[at |-> x, of |-> req[w].of]}
          /\ GoWith(w, "record", [req[w] EXCEPT !.path = x])
    <2> DEFINE want == IF req[w].m \in Clips THEN [req[w].path EXCEPT !.dir = today]
                                             ELSE req[w].path
    <2>1. req[w].m \in Media /\ want \in Paths
        BY HeldTyped, MediaDisjoint DEF MediaOK, StorageOK, Store, Fits, Tasking, Paths
    <2>2. StoredAs(req[w].m, want) \in Paths
        BY <2>1, NameTyped
    <2> QED
        BY <2>2 DEF Store
<1>2. req[w].of \in Videos \cup Clips
    BY HeldTyped DEF MediaOK, Store, Fits
<1>3. /\ [req[w] EXCEPT !.path = x] \in Locals
      /\ Fits("record", [req[w] EXCEPT !.path = x], Ids)
    BY HeldTyped
    DEF MediaOK, Store, Locals, Fits, Tasking, SavingPicture, OnMessage, Reacting
<1>4. ProcsOK'
    BY <1>1, <1>3, MoveTyped DEF MediaOK, Store, Ids, ProcsOK
<1>5. StorageOK'
    BY <1>1, <1>2, DiskTyped DEF MediaOK, Store, StorageOK
<1> QED
    BY <1>4, <1>5, UnchangedTyped DEF Store, MediaOK

LEMMA RecordTyped ==
    ASSUME MediaOK, UNCHANGED msgs, NEW w \in Procs, Record(w)
    PROVE  MediaOK'
<1>1. req[w].m \in Videos \cup Clips /\ req[w].m \in Media /\ req[w].path \in Paths
    BY HeldTyped, MediaDisjoint DEF MediaOK, Record, Fits, Tasking
<1>2. StorageOK'
    BY <1>1 DEF MediaOK, Record, StorageOK
<1>3. ProcsOK'
    <2> DEFINE r == [req[w] EXCEPT !.rounds = <<"part">>]
    <2>1. CASE req[w].m \in Clips
        <3>1. <<"part">> \in Seq(Rounds) /\ <<"part">> # <<>>
            BY DEF Rounds
        <3>2. r \in Locals /\ Fits("row", r, Ids)
            BY <2>1, <3>1, HeldTyped, MediaDisjoint
            DEF MediaOK, Record, Locals, Fits, Tasking, SavingPicture, OnMessage, Reacting
        <3> QED
            BY <2>1, <3>2, MoveTyped DEF MediaOK, Record, Ids, ProcsOK
    <2>2. CASE req[w].m \notin Clips
        BY <2>2, FinishTyped DEF MediaOK, Record, Finish, Ids, ProcsOK
    <2> QED
        BY <2>1, <2>2
<1> QED
    BY <1>2, <1>3, UnchangedTyped DEF Record, MediaOK

LEMMA BeginPictureTyped ==
    ASSUME MediaOK, UNCHANGED msgs, NEW p \in Procs, NEW m \in Pictures, NEW flag \in BOOLEAN,
           NEW rounds \in Seq(Rounds), rounds # <<>>, NEW base \in Names,
           BeginPicture(p, m, flag, rounds, base)
    PROVE  MediaOK'
<1> DEFINE r == [NoRequest EXCEPT !.m = m, !.flag = flag, !.rounds = rounds,
                                  !.path = [dir |-> today, base |-> base, own |-> "none"]]
<1>1. m \in Media /\ [dir |-> today, base |-> base, own |-> "none"] \in Paths
    BY MediaDisjoint DEF MediaOK, StorageOK, Paths
<1>2. r \in Locals /\ Fits("row", r, Ids)
    BY <1>1, NoRequestTyped
    DEF NoRequest, Locals, Fits, Tasking, SavingPicture, OnMessage, Reacting
<1>3. ProcsOK'
    <2>1. GoWith(p, "row", r) /\ Spend("picture") /\ Ids' = Ids
        BY DEF BeginPicture, Begin, Ids
    <2> HIDE DEF r
    <2> QED
        BY <1>2, <2>1, MoveTyped, SpendTyped DEF MediaOK, ProcsOK
<1>4. PicturesOK'
    <2>1. Requesting \in BOOLEAN /\ StaleTask(m) \in BOOLEAN
        BY DEF Requesting, StaleTask
    <2> QED
        BY <2>1 DEF BeginPicture, MediaOK, PicturesOK
<1> QED
    BY <1>3, <1>4, UnchangedTyped DEF BeginPicture, MediaOK

LEMMA RoundsTyped ==
    /\ <<"new", "part", "full", "part">> \in Seq(Rounds) /\ <<"new", "part", "full", "part">> # <<>>
    /\ <<"new", "part">> \in Seq(Rounds) /\ <<"new", "part">> # <<>>
    /\ <<"new", "full">> \in Seq(Rounds) /\ <<"new", "full">> # <<>>
    /\ <<"full", "part">> \in Seq(Rounds) /\ <<"full", "part">> # <<>>
    /\ <<"new">> \in Seq(Rounds) /\ <<"new">> # <<>>
    /\ <<"full">> \in Seq(Rounds) /\ <<"full">> # <<>>
    /\ <<"part">> \in Seq(Rounds) /\ <<"part">> # <<>>
BY DEF Rounds

LEMMA RequestPictureTyped ==
    ASSUME MediaOK, UNCHANGED msgs, NEW p \in Procs,
           \/ \E m \in Photos, base \in Names, asked \in BOOLEAN : CreatePhoto(p, m, base, asked)
           \/ \E m \in Clips, base \in Names, asked \in BOOLEAN : CreateClip(p, m, base, asked)
           \/ \E m \in Pictures : SetPrimary(p, m)
    PROVE  MediaOK'
<1>1. \A m \in Pictures : path[m].base \in Names
    BY MediaDisjoint DEF MediaOK, StorageOK, Paths
<1>2. Photos \subseteq Pictures /\ Clips \subseteq Pictures
    BY DEF Pictures
<1>3. ASSUME NEW m \in Photos, NEW base \in Names, NEW asked \in BOOLEAN,
             CreatePhoto(p, m, base, asked)
      PROVE  MediaOK'
    <2>1. PICK rounds \in Seq(Rounds) : rounds # <<>> /\ BeginPicture(p, m, TRUE, rounds, base)
        BY <1>3, RoundsTyped DEF CreatePhoto
    <2> QED
        BY <1>2, <2>1, BeginPictureTyped
<1>4. ASSUME NEW m \in Clips, NEW base \in Names, NEW asked \in BOOLEAN,
             CreateClip(p, m, base, asked)
      PROVE  MediaOK'
    <2>1. PICK rounds \in Seq(Rounds) : rounds # <<>> /\ BeginPicture(p, m, FALSE, rounds, base)
        BY <1>4, RoundsTyped DEF CreateClip
    <2> QED
        BY <1>2, <2>1, BeginPictureTyped
<1>5. ASSUME NEW m \in Pictures, SetPrimary(p, m) PROVE MediaOK'
    <2>1. PICK rounds \in Seq(Rounds) :
              rounds # <<>> /\ BeginPicture(p, m, TRUE, rounds, path[m].base)
        BY <1>5, RoundsTyped DEF SetPrimary
    <2>2. PICK base \in Names : base = path[m].base
        BY <1>1
    <2> QED
        BY <2>1, <2>2, BeginPictureTyped
<1> QED
    BY <1>3, <1>4, <1>5

\* What a save of a picture is about.
LEMMA SavingTyped ==
    ASSUME MediaOK, NEW p \in Procs, pc[p] \in SavingPicture
    PROVE  /\ req[p] \in Locals /\ req[p].m \in Pictures /\ req[p].m \in Media
           /\ req[p].flag \in BOOLEAN /\ req[p].path \in Paths
           /\ req[p].rounds \in Seq(Rounds) /\ req[p].rounds # <<>>
           /\ Head(req[p].rounds) \in Rounds /\ Tail(req[p].rounds) \in Seq(Rounds)
<1>1. /\ req[p] \in Locals /\ req[p].m \in Pictures /\ req[p].m \in Media
      /\ req[p].flag \in BOOLEAN /\ req[p].path \in Paths
      /\ req[p].rounds \in Seq(Rounds) /\ req[p].rounds # <<>>
    BY HeldTyped, MediaDisjoint DEF MediaOK, Fits
<1> QED
    BY <1>1, HeadTailProperties

\* Going on with the same picture.
LEMMA SavingMoves ==
    ASSUME MediaOK, UNCHANGED msgs, NEW p \in Procs, pc[p] \in SavingPicture,
           NEW label \in SavingPicture, NEW flag \in BOOLEAN,
           \/ GoWith(p, label, [req[p] EXCEPT !.flag = flag])
           \/ GoWith(p, label, req[p]),
           left' = left
    PROVE  ProcsOK'
<1>1. [req[p] EXCEPT !.flag = flag] \in Locals /\ req[p] \in Locals
    BY SavingTyped DEF Locals
<1>2. Fits(label, [req[p] EXCEPT !.flag = flag], Ids) /\ Fits(label, req[p], Ids)
    BY HeldTyped DEF MediaOK, Locals, Fits, Tasking, SavingPicture, OnMessage, Reacting
<1> QED
    BY <1>1, <1>2, MoveTyped DEF MediaOK, ProcsOK, Ids

LEMMA StoreVideoTyped ==
    ASSUME MediaOK, NEW m \in Videos \cup Clips, NEW x \in Paths, StoreVideo(m, x)
    PROVE  StorageOK' /\ TasksOK'
<1>1. m \in Media /\ StoredAs(m, x) \in Paths
    BY MediaDisjoint, NameTyped
<1>2. StorageOK'
    BY <1>1, DiskTyped DEF StoreVideo, MediaOK, StorageOK
<1>3. TasksOK'
    BY DEF StoreVideo, MediaOK, TasksOK
<1> QED
    BY <1>2, <1>3

LEMMA SaveRowTyped ==
    ASSUME MediaOK, UNCHANGED msgs, NEW p \in Procs, SaveRow(p)
    PROVE  MediaOK'
<1> DEFINE m == req[p].m
           kind == Head(req[p].rounds)
           flag == req[p].flag \/ kind = "full"
<1>1. /\ m \in Pictures /\ m \in Media /\ req[p].path \in Paths /\ flag \in BOOLEAN
      /\ pc[p] \in SavingPicture
    BY SavingTyped DEF SaveRow, SavingPicture
<1>2. CASE Finish(p) /\ UNCHANGED <<stored, primary, tasks>>
    <2>1. ProcsOK'
        BY <1>2, FinishTyped DEF Finish, MediaOK, ProcsOK, Ids
    <2>2. PicturesOK'
        BY <1>2 DEF SaveRow, MediaOK, PicturesOK
    <2> QED
        BY <1>2, <2>1, <2>2, UnchangedTyped DEF MediaOK
<1>3. CASE ~(kind = "part" /\ ~There(m))
    <2>1. PICK label \in {"ensure", "unset"} :
              GoWith(p, label, [req[p] EXCEPT !.flag = flag]) /\ left' = left
        BY <1>3 DEF SaveRow
    <2>2. ProcsOK'
        BY <1>1, <2>1, SavingMoves DEF SavingPicture
    <2>3. PicturesOK'
        BY <1>1, <1>3 DEF SaveRow, MediaOK, PicturesOK
    <2>4. StorageOK' /\ TasksOK'
        <3>1. CASE kind = "new" /\ m \in Clips
            BY <1>1, <1>3, <3>1, StoreVideoTyped DEF SaveRow
        <3>2. CASE ~(kind = "new" /\ m \in Clips)
            <4>1. /\ row' = [row EXCEPT ![m] = "there"]
                  /\ queue' = IF m \in Clips /\ ~There(m) THEN queue \cup {m} ELSE queue
                  /\ UNCHANGED <<path, disk, today, hurt, tries>>
                BY <1>3, <3>2 DEF SaveRow
            <4> QED
                BY <1>1, <4>1 DEF MediaOK, StorageOK, TasksOK
        <3> QED
            BY <3>1, <3>2
    <2> QED
        BY <2>2, <2>3, <2>4 DEF MediaOK
<1> QED
    BY <1>2, <1>3 DEF SaveRow

LEMMA EnsureTyped ==
    ASSUME MediaOK, UNCHANGED msgs, NEW p \in Procs, Ensure(p) \/ Unset(p)
    PROVE  MediaOK'
<1>1. pc[p] \in SavingPicture
    BY DEF Ensure, Unset, SavingPicture
<1>2. CASE Ensure(p)
    <2> DEFINE flag == req[p].flag \/ ~\E k \in Pictures : primary[k]
    <2>1. flag \in BOOLEAN
        BY <1>1, SavingTyped
    <2>2. GoWith(p, "unset", [req[p] EXCEPT !.flag = flag]) /\ left' = left
        BY <1>2 DEF Ensure
    <2> HIDE DEF flag
    <2>3. ProcsOK'
        BY <1>1, <2>1, <2>2, SavingMoves DEF SavingPicture
    <2> QED
        BY <1>2, <2>3, UnchangedTyped DEF Ensure, MediaOK
<1>3. CASE Unset(p)
    <2>1. ProcsOK'
        BY <1>1, <1>3, SavingMoves DEF Unset, Goto, SavingPicture
    <2>2. PicturesOK'
        <3>1. \A k \in Pictures : (k = req[p].m /\ primary[k]) \in BOOLEAN
            BY DEF MediaOK, PicturesOK
        <3> QED
            BY <1>3, <3>1 DEF Unset, MediaOK, PicturesOK
    <2> QED
        BY <1>3, <2>1, <2>2, UnchangedTyped DEF Unset, MediaOK
<1> QED
    BY <1>2, <1>3

LEMMA SaveFlagTyped ==
    ASSUME MediaOK, UNCHANGED msgs, NEW p \in Procs, SaveFlag(p)
    PROVE  MediaOK'
<1>1. pc[p] \in SavingPicture /\ pc[p] = "flag"
    BY DEF SaveFlag, SavingPicture
<1>2. PicturesOK'
    BY <1>1, SavingTyped DEF SaveFlag, MediaOK, PicturesOK
<1>3. ProcsOK'
    <2> DEFINE more == Tail(req[p].rounds)
               r == [req[p] EXCEPT !.rounds = more]
    <2>1. CASE Finish(p)
        BY <2>1, FinishTyped DEF Finish, MediaOK, ProcsOK, Ids
    <2>2. CASE more # <<>> /\ GoWith(p, "row", r) /\ UNCHANGED left
        <3>1. r \in Locals
            BY <1>1, SavingTyped DEF Locals
        <3>2. req[p].via # "task"
            <4>1. Tail(<<"part">>) = <<>>
                OBVIOUS
            <4> QED
                BY <1>1, <2>2, <4>1, HeldTyped DEF MediaOK, Fits
        <3>3. Fits("row", r, Ids)
            BY <1>1, <2>2, <3>2, HeldTyped
            DEF MediaOK, Locals, Fits, Tasking, SavingPicture, OnMessage, Reacting
        <3> QED
            BY <2>2, <3>1, <3>3, MoveTyped DEF MediaOK, ProcsOK, Ids
    <2> QED
        BY <2>1, <2>2 DEF SaveFlag
<1> QED
    BY <1>2, <1>3, UnchangedTyped DEF SaveFlag, MediaOK

LEMMA MediaNextTyped ==
    ASSUME MediaOK, UNCHANGED msgs, MediaNext
    PROVE  MediaOK'
<1>1. ASSUME NEW m, TakeStale(m) PROVE MediaOK'
    <2>1. ProcsOK'
        BY <1>1, StillTyped DEF TakeStale, proc, MediaOK, ProcsOK, Ids
    <2> QED
        BY <1>1, <2>1, UnchangedTyped DEF TakeStale, MediaOK, TasksOK
<1>2. ASSUME NEW m \in Pictures, Destroy(m) PROVE MediaOK'
    <2>1. ProcsOK'
        BY <1>2, StillTyped, SpendTyped DEF Destroy, MediaOK, ProcsOK, Ids
    <2>2. PicturesOK' /\ StorageOK'
        <3>1. Requesting \in BOOLEAN /\ m \in Media
            BY MediaDisjoint DEF Requesting
        <3>2. PicturesOK'
            BY <1>2, <3>1 DEF Destroy, MediaOK, PicturesOK
        <3>3. StorageOK'
            BY <1>2, <3>1 DEF Destroy, MediaOK, StorageOK
        <3> QED
            BY <3>2, <3>3
    <2> QED
        BY <1>2, <2>1, <2>2, UnchangedTyped DEF Destroy, MediaOK
<1>3. ASSUME Midnight PROVE MediaOK'
    <2>1. ProcsOK'
        BY <1>3, StillTyped, SpendTyped DEF Midnight, MediaOK, ProcsOK, Ids
    <2>2. StorageOK'
        BY <1>3 DEF Midnight, MediaOK, StorageOK, Days
    <2> QED
        BY <1>3, <2>1, <2>2, UnchangedTyped DEF Midnight, MediaOK
<1> QED
    BY <1>1, <1>2, <1>3, TakeTyped, EncodeTyped, FailingTyped, DropTyped, StoreTyped, RecordTyped,
       RequestPictureTyped, SaveRowTyped, EnsureTyped, SaveFlagTyped
    DEF MediaNext

-----------------------------------------------------------------------------
(* Types: the requests that are about messages.                                     *)

LEMMA IdsTyped ==
    ASSUME MsgsOK
    PROVE  /\ Ids = 1..Len(msgs) /\ Len(msgs) \in Nat /\ Ids \subseteq Nat
           /\ \A x \in Ids : msgs[x] \in Message
<1>1. msgs \in Seq(Message)
    BY DEF MsgsOK
<1>2. Ids = 1..Len(msgs) /\ Len(msgs) \in Nat
    BY <1>1, LenProperties DEF Ids
<1> QED
    BY <1>1, <1>2, ElementOfSeq

\* One message changes.
LEMMA MessageChanges ==
    ASSUME MsgsOK, NEW x \in Ids, NEW new \in Message, msgs' = [msgs EXCEPT ![x] = new]
    PROVE  /\ msgs' \in Seq(Message) /\ Ids' = Ids
           /\ \A y \in Ids : msgs'[y] = IF y = x THEN new ELSE msgs[y]
<1>1. msgs \in Seq(Message) /\ x \in 1..Len(msgs)
    BY IdsTyped DEF MsgsOK
<1>2. /\ msgs' \in Seq(Message) /\ Len(msgs') = Len(msgs)
      /\ \A y \in 1..Len(msgs) : msgs'[y] = IF y = x THEN new ELSE msgs[y]
    BY <1>1, ExceptSeq
<1>3. DOMAIN msgs' = 1..Len(msgs')
    BY <1>2, LenProperties
<1> QED
    BY <1>2, <1>3, IdsTyped DEF Ids

\* A message is added.
LEMMA MessageAdded ==
    ASSUME MsgsOK, NEW new \in Message, msgs' = Append(msgs, new)
    PROVE  /\ msgs' \in Seq(Message) /\ Ids' = 1..(Len(msgs) + 1) /\ Ids' = Ids \cup {Len(msgs) + 1}
           /\ Len(msgs) + 1 \notin Ids
           /\ \A y \in Ids : msgs'[y] = msgs[y]
           /\ msgs'[Len(msgs) + 1] = new
<1>1. msgs \in Seq(Message) /\ Ids = 1..Len(msgs) /\ Len(msgs) \in Nat
    BY IdsTyped DEF MsgsOK
<1>2. /\ msgs' \in Seq(Message) /\ Len(msgs') = Len(msgs) + 1
      /\ \A y \in 1..Len(msgs) : msgs'[y] = msgs[y]
      /\ msgs'[Len(msgs) + 1] = new
    BY <1>1, AppendProperties
<1>3. DOMAIN msgs' = 1..Len(msgs')
    BY <1>2, LenProperties
<1> QED
    BY <1>1, <1>2, <1>3 DEF Ids

\* A purge clears messages.
Cleared(batch) ==
    [x \in Ids |-> IF x \in batch
        THEN [msgs[x] EXCEPT !.there = FALSE, !.file = "none", !.marks = <<>>] ELSE msgs[x]]

LEMMA MessagesCleared ==
    ASSUME MsgsOK, NEW batch, msgs' = Cleared(batch)
    PROVE  /\ msgs' \in Seq(Message) /\ Ids' = Ids
           /\ \A y \in Ids \ batch : msgs'[y] = msgs[y]
           /\ \A y \in Ids : msgs'[y].fate = msgs[y].fate /\ msgs'[y].stamp = msgs[y].stamp
           /\ \A y \in Ids \cap batch : ~msgs'[y].there /\ msgs'[y].file = "none"
                                        /\ msgs'[y].marks = <<>>
<1>1. Ids = 1..Len(msgs) /\ Len(msgs) \in Nat /\ \A y \in Ids : msgs[y] \in Message
    BY IdsTyped
<1>2. <<>> \in Seq(Kinds)
    BY EmptySeq
<1>3. ASSUME NEW y \in Ids
      PROVE  /\ [msgs[y] EXCEPT !.there = FALSE, !.file = "none", !.marks = <<>>] \in Message
             /\ msgs'[y] \in Message
    BY <1>1, <1>2, <1>3 DEF Message, Cleared
<1>4. msgs' \in [1..Len(msgs) -> Message]
    BY <1>1, <1>3 DEF Cleared
<1>5. msgs' \in Seq(Message) /\ Ids' = Ids
    BY <1>1, <1>4, SeqDef DEF Ids
<1>6. \A y \in Ids : msgs'[y] = IF y \in batch
          THEN [msgs[y] EXCEPT !.there = FALSE, !.file = "none", !.marks = <<>>] ELSE msgs[y]
    BY DEF Cleared
<1>7. ASSUME NEW y \in Ids
      PROVE  /\ msgs'[y].fate = msgs[y].fate /\ msgs'[y].stamp = msgs[y].stamp
             /\ y \in batch => ~msgs'[y].there /\ msgs'[y].file = "none" /\ msgs'[y].marks = <<>>
    BY <1>1, <1>6, <1>7 DEF Message
<1> QED
    BY <1>5, <1>6, <1>7

\* The steps that change no message, by what they do to the request.
LEMMA QuietMessages ==
    ASSUME MsgsOK, UNCHANGED <<msgs, clock, inbox, read, overlapped, cut>>
    PROVE  MsgsOK'
BY DEF MsgsOK, Ids

LEMMA QuietMedia ==
    ASSUME MediaOK, UNCHANGED <<stored, pictures, tasks>>, ProcsOK'
    PROVE  MediaOK'
BY UnchangedTyped DEF MediaOK

LEMMA BeginTyped ==
    ASSUME ProcsOK, UNCHANGED msgs, NEW p \in Procs, NEW k, NEW label, NEW r \in Locals,
           Fits(label, r, Ids), Begin(p, k, label, r)
    PROVE  ProcsOK'
BY MoveTyped, SpendTyped DEF Begin, ProcsOK, Ids

LEMMA GotoTyped ==
    ASSUME ProcsOK, NEW p \in Procs, NEW label, Goto(p, label),
           Fits(label, req[p], Ids'), Ids \subseteq Ids'
    PROVE  ProcsOK'
BY MoveTyped, HeldTyped DEF Goto, ProcsOK

LEMMA PostTyped ==
    ASSUME MediaOK, MsgsOK, NEW p \in Procs,
           \/ PostWs(p) \/ PostRest(p)
           \/ \E m \in Videos, base \in Names : PostVideo(p, m, base)
    PROVE  MediaOK' /\ MsgsOK'
<1>1. ASSUME NEW k, NEW r \in Locals, Post(p, k, r), r.m \in Videos \cup {"none"}, r.via # "task"
      PROVE  MediaOK' /\ MsgsOK'
    <2>1. clock \in Nat /\ clock' = clock + 1 /\ msgs' = msgs
        BY <1>1 DEF MsgsOK, Post
    <2>2. [r EXCEPT !.at = clock] \in Locals
        BY <2>1 DEF Locals
    <2>3. Fits("insert", [r EXCEPT !.at = clock], Ids)
        BY <1>1 DEF Locals, Fits, Tasking, SavingPicture, OnMessage, Reacting
    <2>4. Begin(p, k, "insert", [r EXCEPT !.at = clock])
        BY <1>1 DEF Post
    <2>5. ProcsOK'
        BY <2>1, <2>2, <2>3, <2>4, BeginTyped DEF MediaOK
    <2>6. MsgsOK'
        BY <1>1, <2>1 DEF Post, MsgsOK, Ids
    <2> QED
        BY <1>1, <2>5, <2>6, QuietMedia DEF Post
<1>2. CASE PostWs(p)
    <2> DEFINE r == [NoRequest EXCEPT !.via = "ws"]
    <2>1. r \in Locals /\ r.m = "none" /\ r.via = "ws" /\ Post(p, "post", r)
        BY <1>2, NoRequestTyped DEF Locals, NoRequest, PostWs
    <2> HIDE DEF r
    <2> QED
        BY <1>1, <2>1
<1>3. CASE PostRest(p)
    <2> DEFINE r == [NoRequest EXCEPT !.via = "rest"]
    <2>1. r \in Locals /\ r.m = "none" /\ r.via = "rest" /\ Post(p, "post", r)
        BY <1>3, NoRequestTyped DEF Locals, NoRequest, PostRest
    <2> HIDE DEF r
    <2> QED
        BY <1>1, <2>1
<1>4. ASSUME NEW m \in Videos, NEW base \in Names, PostVideo(p, m, base)
      PROVE  MediaOK' /\ MsgsOK'
    <2> DEFINE r == [NoRequest EXCEPT !.via = "rest", !.m = m, !.path.base = base]
    <2>1. [NoPath EXCEPT !.base = base] \in Paths /\ m \in Media
        BY NoPathTyped, MediaDisjoint DEF Paths
    <2>2. r.path = [NoPath EXCEPT !.base = base]
        BY DEF NoRequest
    <2>3. r \in Locals /\ r.m = m /\ r.via = "rest"
        BY <2>1, NoRequestTyped DEF Locals, NoRequest
    <2>4. Post(p, "film", r)
        BY <1>4 DEF PostVideo
    <2> HIDE DEF r
    <2> QED
        BY <1>1, <2>3, <2>4
<1> QED
    BY <1>2, <1>3, <1>4

LEMMA InsertTyped ==
    ASSUME MediaOK, MsgsOK, NEW p \in Procs, Insert(p)
    PROVE  MediaOK' /\ MsgsOK'
<1> DEFINE n == Len(msgs) + 1
           new == NewMessage(req[p].at)
           r == [req[p] EXCEPT !.x = n]
<1>1. new \in Message
    BY HeldTyped, EmptySeq DEF MediaOK, NewMessage, Message
<1>2. /\ msgs' \in Seq(Message) /\ Ids' = Ids \cup {n} /\ n \in Nat
    BY <1>1, MessageAdded, IdsTyped DEF Insert
<1>3. r \in Locals
    BY <1>2, HeldTyped DEF MediaOK, Locals
<1>4. Fits("recipients", r, Ids')
    BY <1>2, HeldTyped DEF Insert, MediaOK, Locals, Fits, Tasking, SavingPicture, OnMessage, Reacting
<1>5. GoWith(p, "recipients", r) /\ left' = left
    BY DEF Insert
<1> HIDE DEF r, n
<1>6. ProcsOK'
    BY <1>2, <1>3, <1>4, <1>5, MoveTyped DEF MediaOK, ProcsOK
<1>7. MsgsOK'
    BY <1>2 DEF Insert, MsgsOK
<1> QED
    BY <1>6, <1>7, QuietMedia DEF Insert

LEMMA RecipientsTyped ==
    ASSUME MediaOK, MsgsOK, NEW p \in Procs, Recipients(p)
    PROVE  MediaOK' /\ MsgsOK'
<1>1. req[p].x \in Ids /\ Fits(pc[p], req[p], Ids) /\ pc[p] = "recipients"
    BY HeldTyped DEF MediaOK, Recipients, Fits, OnMessage
<1>2. MsgsOK'
    BY <1>1 DEF Recipients, MsgsOK, Ids
<1>3. ProcsOK'
    <2>1. CASE Finish(p)
        BY <2>1, FinishTyped DEF Recipients, Finish, MediaOK, ProcsOK, Ids
    <2>2. CASE req[p].via = "rest" /\ Goto(p, IF req[p].m = "none" THEN "save" ELSE "file")
        <3>1. Fits(IF req[p].m = "none" THEN "save" ELSE "file", req[p], Ids)
            BY <1>1, <2>2 DEF Fits, Tasking, SavingPicture, OnMessage, Reacting
        <3> QED
            BY <2>2, <3>1, GotoTyped DEF Recipients, MediaOK, Ids
    <2> QED
        BY <2>1, <2>2 DEF Recipients
<1> QED
    BY <1>2, <1>3, QuietMedia DEF Recipients

LEMMA PostFileTyped ==
    ASSUME MediaOK, MsgsOK, NEW p \in Procs, PostFile(p)
    PROVE  MediaOK' /\ MsgsOK'
<1> DEFINE at == StoredAs(req[p].m, req[p].path)
           r == [req[p] EXCEPT !.path = at]
<1>1. req[p].m \in Videos /\ at \in Paths
    BY HeldTyped, NameTyped, MediaDisjoint DEF MediaOK, PostFile, Fits
<1>2. r \in Locals
    BY <1>1, HeldTyped DEF MediaOK, Locals
<1>3. Fits("video", r, Ids)
    BY HeldTyped DEF MediaOK, PostFile, Locals, Fits, Tasking, SavingPicture, OnMessage, Reacting
<1>4. ProcsOK'
    BY <1>2, <1>3, MoveTyped DEF PostFile, messageVars, MediaOK, ProcsOK, Ids
<1>5. StorageOK'
    BY <1>1, DiskTyped DEF PostFile, MediaOK, StorageOK
<1>6. MsgsOK'
    BY QuietMessages DEF PostFile, messageVars
<1> QED
    BY <1>4, <1>5, <1>6, UnchangedTyped DEF PostFile, MediaOK

LEMMA PostRowTyped ==
    ASSUME MediaOK, MsgsOK, NEW p \in Procs, PostRow(p)
    PROVE  MediaOK' /\ MsgsOK'
<1>1. /\ Fits("attach", req[p], Ids) /\ req[p].m \in Videos /\ req[p].m \in Media
      /\ req[p].path \in Paths
    BY HeldTyped, MediaDisjoint
    DEF MediaOK, PostRow, Fits, Tasking, SavingPicture, OnMessage, Reacting
<1>2. ProcsOK'
    BY <1>1, GotoTyped DEF PostRow, messageVars, MediaOK, Ids
<1>3. StorageOK' /\ TasksOK'
    BY <1>1 DEF PostRow, MediaOK, StorageOK, TasksOK
<1>4. MsgsOK'
    BY QuietMessages DEF PostRow, messageVars
<1> QED
    BY <1>2, <1>3, <1>4, UnchangedTyped DEF PostRow, MediaOK

LEMMA PostAttachTyped ==
    ASSUME MediaOK, MsgsOK, NEW p \in Procs, PostAttach(p)
    PROVE  MediaOK' /\ MsgsOK'
<1> DEFINE x == req[p].x
           new == [msgs[x] EXCEPT !.file = req[p].m]
<1>1. /\ x \in Ids /\ req[p].m \in Videos /\ Fits("save", req[p], Ids)
    BY HeldTyped DEF MediaOK, PostAttach, Fits, Tasking, SavingPicture, OnMessage, Reacting
<1>2. CASE msgs[x].there
    <2>1. new \in Message
        BY <1>1, IdsTyped DEF Message
    <2>2. msgs' = [msgs EXCEPT ![x] = new]
        BY <1>2 DEF PostAttach
    <2>3. msgs' \in Seq(Message) /\ Ids' = Ids
        BY <1>1, <2>1, <2>2, MessageChanges
    <2>4. MsgsOK'
        BY <2>3 DEF PostAttach, MsgsOK
    <2>5. ProcsOK'
        BY <1>1, <1>2, <2>3, GotoTyped DEF PostAttach, MediaOK
    <2> QED
        BY <2>4, <2>5, QuietMedia DEF PostAttach
<1>3. CASE ~msgs[x].there
    <2>1. MsgsOK' /\ Finish(p) /\ msgs' = msgs
        BY <1>3, QuietMessages DEF PostAttach
    <2>2. ProcsOK'
        BY <2>1, FinishTyped DEF Finish, MediaOK, ProcsOK, Ids
    <2> QED
        BY <2>1, <2>2, QuietMedia DEF PostAttach
<1> QED
    BY <1>2, <1>3

LEMMA ReadTyped ==
    ASSUME MediaOK, MsgsOK, NEW p \in Procs, NEW x \in Ids,
           EditRead(p, x) \/ DeleteRead(p, x) \/ UpdateRead(p, x) \/ DestroyRead(p, x)
    PROVE  MediaOK' /\ MsgsOK'
<1>1. PICK label \in {"edit", "delete", "save"}, via \in {"ws", "rest"}, deleted \in BOOLEAN :
          Begin(p, "edit", label, [NoRequest EXCEPT !.x = x, !.via = via, !.deleted = deleted])
    <2>1. msgs[x].deleted \in BOOLEAN
        BY IdsTyped DEF Message
    <2> QED
        BY <2>1 DEF EditRead, DeleteRead, UpdateRead, DestroyRead, Read
<1> DEFINE r == [NoRequest EXCEPT !.x = x, !.via = via, !.deleted = deleted]
<1>2. r \in Locals /\ Fits(label, r, Ids)
    BY NoRequestTyped, IdsTyped
    DEF NoRequest, Locals, Fits, Tasking, SavingPicture, OnMessage, Reacting
<1>3. UNCHANGED <<stored, pictures, tasks, messageVars>>
    BY DEF EditRead, DeleteRead, UpdateRead, DestroyRead, Read
<1> HIDE DEF r
<1>4. ProcsOK'
    BY <1>1, <1>2, <1>3, BeginTyped DEF MediaOK, messageVars, r
<1> QED
    BY <1>3, <1>4, QuietMedia, QuietMessages DEF messageVars

LEMMA DeleteSaveTyped ==
    ASSUME MediaOK, MsgsOK, NEW p \in Procs, DeleteSave(p)
    PROVE  MediaOK' /\ MsgsOK'
<1> DEFINE x == req[p].x
           new == [msgs[x] EXCEPT !.deleted = TRUE, !.fate = Fate(p, x)]
<1>1. x \in Ids
    BY HeldTyped DEF MediaOK, DeleteSave, Fits, OnMessage
<1>2. msgs' \in Seq(Message) /\ Ids' = Ids
    <2>1. new \in Message
        BY <1>1, IdsTyped DEF Message, Fate
    <2>2. CASE msgs' = [msgs EXCEPT ![x] = new]
        BY <1>1, <2>1, <2>2, MessageChanges
    <2>3. CASE msgs' = msgs
        BY <2>3 DEF MsgsOK, Ids
    <2> QED
        BY <2>2, <2>3 DEF DeleteSave
<1>3. ProcsOK'
    BY <1>2, FinishTyped DEF DeleteSave, Finish, MediaOK, ProcsOK
<1> QED
    BY <1>2, <1>3, QuietMedia DEF DeleteSave, MsgsOK

LEMMA FullSaveTyped ==
    ASSUME MediaOK, MsgsOK, NEW p \in Procs, FullSave(p)
    PROVE  MediaOK' /\ MsgsOK'
<1> DEFINE x == req[p].x
           del == req[p].deleted
           new == [msgs[x] EXCEPT !.there = TRUE, !.deleted = del,
                                  !.fate = IF del THEN Fate(p, x) ELSE @]
<1>1. x \in Ids /\ del \in BOOLEAN
    BY HeldTyped DEF MediaOK, FullSave, Fits, OnMessage
<1>2. new \in Message
    <2> DEFINE old == msgs[x]
               fate == IF del THEN Fate(p, x) ELSE old.fate
    <2>1. old \in Message
        BY <1>1, IdsTyped
    <2>2. fate \in {"kept", "disputed", "erased"}
        BY <2>1 DEF Message, Fate
    <2>3. new = [old EXCEPT !.there = TRUE, !.deleted = del, !.fate = fate]
        BY <2>1 DEF Message
    <2> HIDE DEF old, fate, del, new
    <2> QED
        BY <1>1, <2>1, <2>2, <2>3 DEF Message
<1>3. msgs' \in Seq(Message) /\ Ids' = Ids
    <2>1. msgs' = [msgs EXCEPT ![x] = new]
        BY DEF FullSave
    <2> HIDE DEF x, new
    <2> QED
        BY <1>1, <1>2, <2>1, MessageChanges
<1>4. ProcsOK'
    <2> DEFINE r == [req[p] EXCEPT !.via = "again"]
    <2>1. CASE Finish(p)
        BY <1>3, <2>1, FinishTyped DEF FullSave, Finish, MediaOK, ProcsOK
    <2>2. CASE GoWith(p, "recipients", r) /\ UNCHANGED left
        <3>1. r \in Locals
            BY HeldTyped DEF MediaOK, Locals
        <3>2. Fits("recipients", r, Ids)
            BY HeldTyped
            DEF FullSave, MediaOK, Locals, Fits, Tasking, SavingPicture, OnMessage, Reacting
        <3> QED
            BY <1>3, <2>2, <3>1, <3>2, MoveTyped DEF MediaOK, ProcsOK
    <2> QED
        BY <2>1, <2>2 DEF FullSave
<1> QED
    BY <1>3, <1>4, QuietMedia DEF FullSave, MsgsOK

LEMMA PurgeListTyped ==
    ASSUME MediaOK, MsgsOK, NEW p \in Procs, PurgeList(p)
    PROVE  MediaOK' /\ MsgsOK'
<1> DEFINE batch == {x \in Ids : msgs[x].there /\ msgs[x].deleted}
           r == [req[p] EXCEPT !.todo = batch]
<1>1. UNCHANGED <<stored, pictures, tasks, messageVars>>
    BY DEF PurgeList
<1>2. ProcsOK'
    <2>1. CASE Finish(p)
        BY <1>1, <2>1, FinishTyped DEF Finish, MediaOK, ProcsOK, messageVars, Ids
    <2>2. CASE GoWith(p, "purge", r) /\ UNCHANGED left
        <3>1. r \in Locals
            BY HeldTyped, IdsTyped DEF MediaOK, Locals
        <3>2. Fits("purge", r, Ids)
            BY HeldTyped
            DEF PurgeList, MediaOK, Locals, Fits, Tasking, SavingPicture, OnMessage, Reacting
        <3> QED
            BY <1>1, <2>2, <3>1, <3>2, MoveTyped DEF MediaOK, ProcsOK, messageVars, Ids
    <2> QED
        BY <2>1, <2>2 DEF PurgeList
<1> QED
    BY <1>1, <1>2, QuietMedia, QuietMessages DEF messageVars

\* What a purge is about to remove are videos.
LEMMA FilmsTyped ==
    ASSUME MsgsOK, NEW X, X \subseteq Ids
    PROVE  Films(X) \subseteq Videos
BY IdsTyped DEF Films, Message

LEMMA PurgeBatchTyped ==
    ASSUME MediaOK, MsgsOK, NEW p \in Procs, PurgeBatch(p) \/ PurgeFails(p)
    PROVE  MediaOK' /\ MsgsOK'
<1>1. req[p].todo \subseteq Ids
    BY HeldTyped DEF MediaOK, PurgeBatch, PurgeFails, Fits
<1>2. Films(req[p].todo) \subseteq Videos
    BY <1>1, FilmsTyped
<1>3. \A films : UNION {Robbed(path[m], m) : m \in films} \subseteq Videos \cup Clips
    BY DiskTyped DEF MediaOK
<1>4. CASE PurgeBatch(p)
    <2>1. msgs' \in Seq(Message) /\ Ids' = Ids
        BY <1>4, MessagesCleared DEF PurgeBatch, Cleared
    <2>2. MsgsOK'
        BY <1>4, <2>1 DEF PurgeBatch, MsgsOK
    <2>3. Fits("list", req[p], Ids)
        BY <1>4, HeldTyped DEF PurgeBatch, MediaOK, Fits, Tasking, SavingPicture, OnMessage, Reacting
    <2>4. ProcsOK'
        BY <1>4, <2>1, <2>3, GotoTyped DEF PurgeBatch, MediaOK
    <2>5. StorageOK'
        BY <1>2, <1>3, <1>4 DEF PurgeBatch, RemoveFiles, MediaOK, StorageOK
    <2> QED
        BY <1>4, <2>2, <2>4, <2>5, UnchangedTyped DEF PurgeBatch, MediaOK
<1>5. CASE PurgeFails(p)
    <2>1. PICK films \in SUBSET Films(req[p].todo) :
              /\ disk' = {f \in disk : \A m \in films : f.at # path[m]}
              /\ hurt' = hurt \cup films \cup UNION {Robbed(path[m], m) : m \in films}
        BY <1>5 DEF PurgeFails
    <2>2. StorageOK'
        BY <1>2, <1>3, <1>5, <2>1 DEF PurgeFails, MediaOK, StorageOK
    <2>3. MsgsOK'
        BY <1>5, QuietMessages DEF PurgeFails, messageVars
    <2>4. ProcsOK'
        BY <1>5, FinishTyped, SpendTyped DEF PurgeFails, MediaOK, ProcsOK, messageVars, Ids
    <2> QED
        BY <1>5, <2>2, <2>3, <2>4, UnchangedTyped DEF PurgeFails, MediaOK
<1> QED
    BY <1>4, <1>5

LEMMA PurgeStartTyped ==
    ASSUME MediaOK, MsgsOK, NEW p \in Procs, PurgeStart(p) \/ EditSave(p)
    PROVE  MediaOK' /\ MsgsOK'
<1>1. UNCHANGED <<stored, pictures, tasks, messageVars>>
    BY DEF PurgeStart, EditSave
<1>2. CASE PurgeStart(p)
    <2> DEFINE r == [NoRequest EXCEPT !.via = "purge"]
    <2>1. r \in Locals /\ Fits("list", r, Ids)
        BY NoRequestTyped
        DEF NoRequest, Locals, Fits, Tasking, SavingPicture, OnMessage, Reacting
    <2>2. Begin(p, "purge", "list", r)
        BY <1>2 DEF PurgeStart
    <2> HIDE DEF r
    <2>3. ProcsOK'
        BY <1>1, <2>1, <2>2, BeginTyped DEF MediaOK, messageVars
    <2> QED
        BY <1>1, <2>3, QuietMedia, QuietMessages DEF messageVars
<1>3. CASE EditSave(p)
    <2>1. ProcsOK'
        BY <1>1, <1>3, FinishTyped DEF EditSave, Finish, MediaOK, ProcsOK, messageVars, Ids
    <2> QED
        BY <1>1, <2>1, QuietMedia, QuietMessages DEF messageVars
<1> QED
    BY <1>2, <1>3

LEMMA ReactTyped ==
    ASSUME MediaOK, MsgsOK, NEW p \in Procs, NEW x \in Ids, NEW kind \in Kinds,
           React(p, x, kind)
    PROVE  MediaOK' /\ MsgsOK'
<1> DEFINE r == [NoRequest EXCEPT !.x = x, !.kind = kind, !.via = "react"]
<1>1. r \in Locals /\ Fits("find", r, Ids)
    BY NoRequestTyped, IdsTyped
    DEF NoRequest, Locals, Fits, Tasking, SavingPicture, OnMessage, Reacting
<1>2. Begin(p, "react", "find", r) /\ msgs' = msgs
    BY DEF React
<1> HIDE DEF r
<1>3. ProcsOK'
    BY <1>1, <1>2, BeginTyped DEF MediaOK
<1>4. MsgsOK'
    BY DEF React, MsgsOK, Ids
<1> QED
    BY <1>3, <1>4, QuietMedia DEF React

\* A reaction that is being set.
LEMMA ReactingTyped ==
    ASSUME MediaOK, MsgsOK, NEW p \in Procs, pc[p] \in Reacting
    PROVE  /\ req[p].x \in Ids /\ req[p].kind \in Kinds
           /\ msgs[req[p].x] \in Message /\ msgs[req[p].x].marks \in Seq(Kinds)
           /\ \A label \in Reacting : Fits(label, req[p], Ids)
<1>1. req[p].x \in Ids /\ req[p].kind \in Kinds
    BY HeldTyped DEF MediaOK, Fits, OnMessage
<1>2. \A label \in Reacting : Fits(label, req[p], Ids)
    BY HeldTyped DEF MediaOK, Fits, Tasking, SavingPicture, OnMessage, Reacting
<1> QED
    BY <1>1, <1>2, IdsTyped DEF Message

\* What the requests of the reader make of the marks of a message.
NewMarks(p, marks) ==
    LET old == msgs[req[p].x].marks
    IN  \/ marks = old
        \/ pc[p] = "unreact" /\ \E i \in DOMAIN old :
                                    marks = SubSeq(old, 1, i - 1) \o SubSeq(old, i + 1, Len(old))
        \/ pc[p] = "drop_oldest" /\ old # <<>> /\ marks = Tail(old)
        \/ pc[p] = "create" /\ marks = Append(old, req[p].kind)

LEMMA NewMarksTyped ==
    ASSUME MediaOK, MsgsOK, NEW p \in Procs, pc[p] \in Reacting, NEW marks, NewMarks(p, marks)
    PROVE  /\ marks \in Seq(Kinds)
           /\ LET old == msgs[req[p].x].marks
              IN  /\ Len(old) \in Nat /\ Len(marks) \in Nat
                  /\ pc[p] # "create" => Len(marks) <= Len(old)
                  /\ pc[p] = "create" => Len(marks) <= Len(old) + 1
                  /\ pc[p] = "drop_oldest" /\ marks # old => Len(marks) < Len(old)
<1> DEFINE old == msgs[req[p].x].marks
<1>1. old \in Seq(Kinds) /\ req[p].kind \in Kinds
    BY ReactingTyped
<1>2. Len(old) \in Nat /\ DOMAIN old = 1..Len(old)
    BY <1>1, LenProperties
<1> HIDE DEF old
<1>3. CASE marks = old
    BY <1>1, <1>2, <1>3 DEF old
<1>4. ASSUME NEW i \in DOMAIN old, pc[p] = "unreact",
             marks = SubSeq(old, 1, i - 1) \o SubSeq(old, i + 1, Len(old))
      PROVE  marks \in Seq(Kinds) /\ Len(marks) \in Nat /\ Len(marks) <= Len(old)
    <2>1. /\ i \in 1..Len(old) /\ i - 1 \in Int /\ i + 1 \in Int /\ Len(old) \in Int
          /\ \A j \in 1..(i - 1) : old[j] \in Kinds
          /\ \A j \in (i + 1)..Len(old) : old[j] \in Kinds
        BY <1>1, <1>2, <1>4, ElementOfSeq
    <2>2. /\ SubSeq(old, 1, i - 1) \in Seq(Kinds)
          /\ Len(SubSeq(old, 1, i - 1)) = i - 1
        BY <2>1, <1>2, SubSeqProperties
    <2>3. /\ SubSeq(old, i + 1, Len(old)) \in Seq(Kinds)
          /\ Len(SubSeq(old, i + 1, Len(old))) = Len(old) - i
        BY <2>1, <1>2, SubSeqProperties
    <2> QED
        BY <1>2, <1>4, <2>1, <2>2, <2>3, ConcatProperties
<1>5. ASSUME old # <<>>, marks = Tail(old)
      PROVE  marks \in Seq(Kinds) /\ Len(marks) \in Nat /\ Len(marks) < Len(old)
    BY <1>1, <1>2, <1>5, HeadTailProperties, EmptySeq
<1>6. ASSUME marks = Append(old, req[p].kind)
      PROVE  marks \in Seq(Kinds) /\ Len(marks) \in Nat /\ Len(marks) <= Len(old) + 1
    BY <1>1, <1>2, <1>6, AppendProperties
<1>7. \/ marks = old
      \/ pc[p] = "unreact" /\ \E i \in DOMAIN old :
                                  marks = SubSeq(old, 1, i - 1) \o SubSeq(old, i + 1, Len(old))
      \/ pc[p] = "drop_oldest" /\ old # <<>> /\ marks = Tail(old)
      \/ pc[p] = "create" /\ marks = Append(old, req[p].kind)
    BY DEF NewMarks, old
<1>8. /\ marks \in Seq(Kinds) /\ Len(old) \in Nat /\ Len(marks) \in Nat
      /\ pc[p] # "create" => Len(marks) <= Len(old)
      /\ pc[p] = "create" => Len(marks) <= Len(old) + 1
      /\ pc[p] = "drop_oldest" /\ marks # old => Len(marks) < Len(old)
    <2>1. CASE marks = old
        BY <1>1, <1>2, <2>1
    <2>2. CASE /\ pc[p] = "unreact"
               /\ \E i \in DOMAIN old :
                      marks = SubSeq(old, 1, i - 1) \o SubSeq(old, i + 1, Len(old))
        BY <1>2, <1>4, <2>2
    <2>3. CASE pc[p] = "drop_oldest" /\ old # <<>> /\ marks = Tail(old)
        <3>1. marks \in Seq(Kinds) /\ Len(marks) \in Nat /\ Len(marks) < Len(old)
            BY <1>5, <2>3
        <3>2. Len(marks) <= Len(old) + 1 /\ Len(marks) <= Len(old)
            BY <1>2, <3>1
        <3> QED
            BY <1>2, <3>1, <3>2, <2>3
    <2>4. CASE pc[p] = "create" /\ marks = Append(old, req[p].kind)
        BY <1>2, <1>6, <2>4
    <2> QED
        BY <1>7, <2>1, <2>2, <2>3, <2>4
<1> QED
    BY <1>8 DEF old

LEMMA MarkStepMakes ==
    ASSUME MediaOK, MsgsOK, NEW p \in Procs, Unreact(p) \/ DropOldest(p) \/ ReactCreate(p)
    PROVE  \E marks : Marks(p, marks) /\ NewMarks(p, marks)
<1>1. CASE Unreact(p)
    BY <1>1 DEF Unreact, NewMarks
<1>2. CASE DropOldest(p)
    BY <1>2 DEF DropOldest, NewMarks
<1>3. CASE ReactCreate(p)
    BY <1>3 DEF ReactCreate, NewMarks
<1> QED
    BY <1>1, <1>2, <1>3

LEMMA ReactingStepTyped ==
    ASSUME MediaOK, MsgsOK, NEW p \in Procs,
           ReactFind(p) \/ ReactCount(p) \/ Unreact(p) \/ DropOldest(p) \/ ReactCreate(p)
    PROVE  MediaOK' /\ MsgsOK'
<1>1. pc[p] \in Reacting
    BY DEF ReactFind, ReactCount, ReactQuery, Unreact, DropOldest, ReactCreate, Reacting
<1>2. CASE ReactFind(p) \/ ReactCount(p)
    <2>1. PICK label \in Reacting : Goto(p, label) /\ UNCHANGED messageVars
        BY <1>2 DEF ReactFind, ReactCount, ReactQuery, Reacting
    <2>2. ProcsOK'
        BY <1>1, <2>1, ReactingTyped, GotoTyped DEF MediaOK, messageVars, Ids
    <2> QED
        BY <1>2, <2>1, <2>2, QuietMedia, QuietMessages
        DEF ReactFind, ReactCount, ReactQuery, messageVars
<1>3. CASE Unreact(p) \/ DropOldest(p) \/ ReactCreate(p)
    <2>1. PICK marks : Marks(p, marks) /\ NewMarks(p, marks)
        BY <1>3, MarkStepMakes
    <2>2. msgs' = [msgs EXCEPT ![req[p].x] = [msgs[req[p].x] EXCEPT !.marks = marks]]
        BY <2>1 DEF Marks
    <2>3. [msgs[req[p].x] EXCEPT !.marks = marks] \in Message
        BY <1>1, <2>1, ReactingTyped, NewMarksTyped DEF Message
    <2>4. msgs' \in Seq(Message) /\ Ids' = Ids
        BY <1>1, <2>2, <2>3, ReactingTyped, MessageChanges
    <2>5. ProcsOK'
        <3>1. CASE Finish(p)
            BY <2>4, <3>1, FinishTyped DEF Finish, MediaOK, ProcsOK
        <3>2. CASE Goto(p, "create")
            BY <1>1, <2>4, <3>2, ReactingTyped, GotoTyped DEF MediaOK, Reacting
        <3> QED
            BY <1>3, <3>1, <3>2 DEF Unreact, DropOldest, ReactCreate
    <2> QED
        BY <2>1, <2>4, <2>5, QuietMedia DEF Marks, MsgsOK
<1> QED
    BY <1>2, <1>3

LEMMA ClientTyped ==
    ASSUME MediaOK, MsgsOK,
           \/ \E x \in Ids : View(x)
           \/ \E way, cursor : ScrollStart(way, cursor)
           \/ OlderPage \/ NewerPage \/ MessagesPage
    PROVE  MediaOK' /\ MsgsOK'
<1>1. UNCHANGED <<stored, pictures, tasks, pc, req, msgs, clock, inbox, overlapped, cut>>
    BY DEF View, ScrollStart, OlderPage, NewerPage, MessagesPage, Turn, mediaVars, proc
<1>2. read' \subseteq inbox'
    BY DEF View, ScrollStart, OlderPage, NewerPage, MessagesPage, Turn, MsgsOK
<1>3. left' \in [Sorts -> Nat]
    BY SpendTyped DEF View, ScrollStart, OlderPage, NewerPage, MessagesPage, Turn, mediaVars, proc,
       MediaOK, ProcsOK
<1>4. ProcsOK'
    BY <1>1, <1>3, StillTyped DEF MediaOK, Ids
<1> QED
    BY <1>1, <1>2, <1>4, QuietMedia DEF MsgsOK, Ids

LEMMA CrashTyped ==
    ASSUME MediaOK, MsgsOK, NEW p \in Procs, MessageCrash(p)
    PROVE  MediaOK' /\ MsgsOK'
<1>1. Crash(p) /\ msgs' = msgs
    BY DEF MessageCrash
<1>2. ProcsOK'
    BY <1>1, FinishTyped, SpendTyped DEF Crash, MediaOK, ProcsOK, Ids
<1>3. StorageOK'
    <2>1. pc[p] \in {"store", "record"} => req[p].m \in Videos \cup Clips
        BY HeldTyped DEF MediaOK, Fits, Tasking
    <2> QED
        BY <1>1, <2>1 DEF Crash, Bereft, MediaOK, StorageOK
<1>4. PicturesOK'
    BY <1>1 DEF Crash, MediaOK, PicturesOK
<1>5. MsgsOK'
    <2>1. pc[p] = "recipients" => req[p].x \in Ids
        BY HeldTyped DEF MediaOK, Fits, OnMessage
    <2> QED
        BY <2>1 DEF MessageCrash, MsgsOK, Ids
<1> QED
    BY <1>1, <1>2, <1>3, <1>4, <1>5, UnchangedTyped DEF Crash, MediaOK

LEMMA TypedInit == Init => Typed
<1> SUFFICES ASSUME Init PROVE Typed
    OBVIOUS
<1>1. StorageOK
    BY NoPathTyped DEF Init, MediaInit, StorageOK, Days
<1>2. PicturesOK
    BY DEF Init, MediaInit, PicturesOK
<1>3. TasksOK
    BY RetriesAssumption DEF Init, MediaInit, TasksOK
<1>4. ProcsOK
    BY NoRequestTyped, BudgetsAssumption DEF Init, MediaInit, ProcsOK
<1>5. MsgsOK
    BY EmptySeq DEF Init, MsgsOK
<1> QED
    BY <1>1, <1>2, <1>3, <1>4, <1>5 DEF Typed

LEMMA TypedStep == Typed /\ [Next]_vars => Typed'
<1> SUFFICES ASSUME MediaOK, MsgsOK, [Next]_vars PROVE MediaOK' /\ MsgsOK'
    BY DEF Typed, MediaOK
<1>1. CASE PostNext
    BY <1>1, PostTyped, InsertTyped, RecipientsTyped, PostFileTyped, PostRowTyped, PostAttachTyped
    DEF PostNext
<1>2. CASE ChangeNext
    BY <1>2, ReadTyped, DeleteSaveTyped, FullSaveTyped, PurgeListTyped, PurgeBatchTyped,
       PurgeStartTyped
    DEF ChangeNext
<1>3. CASE ReaderNext
    BY <1>3, ReactTyped, ReactingStepTyped, ClientTyped DEF ReaderNext, ReactWs, ReactRest
<1>4. CASE MediaNext /\ UNCHANGED messageVars
    BY <1>4, MediaNextTyped, QuietMessages DEF messageVars
<1>5. CASE \E p \in Procs : MessageCrash(p)
    BY <1>5, CrashTyped
<1>6. CASE UNCHANGED vars
    BY <1>6, StillTyped, QuietMedia, QuietMessages
    DEF vars, mediaVars, messageVars, proc, MediaOK, ProcsOK, Ids
<1> QED
    BY <1>1, <1>2, <1>3, <1>4, <1>5, <1>6 DEF Next

LEMMA TypedHolds == Spec => []Typed
BY TypedInit, TypedStep, PTL DEF Spec

-----------------------------------------------------------------------------
(* Deletions.  A message that was deleted stays deleted.  The argument is about the *)
(* requests that hold a copy of a row: nobody is about to save a live copy of an    *)
(* erased message (Buried), because a copy that is read after the deletion is not   *)
(* live, and one that was read before makes the deletion disputed.                  *)

\* The requests and the messages have the fields the argument speaks of.
Shaped ==
    /\ pc = [q \in Procs |-> pc[q]] /\ req = [q \in Procs |-> req[q]]
    /\ \A q \in Procs : {"x", "via", "deleted"} \subseteq DOMAIN req[q]
    /\ Len(msgs) \in Nat /\ msgs = [x \in 1..Len(msgs) |-> msgs[x]]
    /\ \A x \in Ids : {"there", "deleted", "fate"} \subseteq DOMAIN msgs[x]

\* Only requests of the viewset come to the label at which a whole row is saved.
Writing == {"file", "video", "attach", "save"}
SavedByRest == \A q \in Procs : pc[q] \in Writing => req[q].via = "rest"

\* An erased message is not live, and no live copy of it is about to be saved.
Buried ==
    \A x \in Ids : msgs[x].fate = "erased" =>
        ~Live(x) /\ \A q \in Procs : ~HoldsLive(q, x)

Inv == Shaped /\ SavedByRest /\ Buried

LEMMA InitInv == Init => Inv
<1> SUFFICES ASSUME Init PROVE Inv
    OBVIOUS
<1>1. pc = [q \in Procs |-> "idle"] /\ req = [q \in Procs |-> NoRequest] /\ msgs = <<>>
    BY DEF Init, MediaInit
<1>2. Ids = {}
    BY <1>1 DEF Ids
<1>3. {"x", "via", "deleted"} \subseteq DOMAIN NoRequest
    BY DEF NoRequest
<1> QED
    BY <1>1, <1>2, <1>3 DEF Inv, Shaped, SavedByRest, Buried, Writing

\* p's request goes on, or begins, in a way that leaves it harmless: it ends, it is not
\* about to save a whole row, or not one that exists, or not a live copy of an erased
\* message, or it holds the same copy as before.
Harmless(p, label, r) ==
    /\ {"x", "via", "deleted"} \subseteq DOMAIN r
    /\ label \in Writing => r.via = "rest"
    /\ \/ label = "idle"
       \/ r.via # "rest"
       \/ r.x \notin Ids
       \/ r.deleted \/ msgs[r.x].fate # "erased"
       \/ /\ pc[p] # "idle"
          /\ r.x = req[p].x /\ r.via = req[p].via /\ r.deleted = req[p].deleted

LEMMA HarmlessStep ==
    ASSUME Inv, NEW p \in Procs, NEW label, NEW r, GoWith(p, label, r),
           Harmless(p, label, r), UNCHANGED msgs
    PROVE  Inv'
<1>1. \A q \in Procs : /\ pc'[q] = IF q = p THEN label ELSE pc[q]
                       /\ req'[q] = IF q = p THEN r ELSE req[q]
    BY DEF GoWith, Inv, Shaped
<1>2. Shaped'
    BY <1>1 DEF GoWith, Harmless, Inv, Shaped, Ids
<1>3. SavedByRest'
    BY <1>1 DEF Harmless, Inv, SavedByRest
<1>4. \A q \in Procs, x \in Ids :
          msgs[x].fate = "erased" /\ HoldsLive(q, x)' => HoldsLive(q, x)
    BY <1>1 DEF HoldsLive, Harmless
<1>5. Buried'
    BY <1>4 DEF Inv, Buried, Live, Ids
<1> QED
    BY <1>2, <1>3, <1>5 DEF Inv

\* Nothing the argument speaks of changes.
LEMMA StutterStep ==
    ASSUME Inv, UNCHANGED <<pc, req, msgs>>
    PROVE  Inv'
BY DEF Inv, Shaped, SavedByRest, Buried, Writing, Live, HoldsLive, Ids

\* The steps at which a request ends, or only its label changes.
LEMMA FinishStep ==
    ASSUME Inv, NEW p \in Procs, Finish(p), UNCHANGED msgs
    PROVE  Inv'
<1>1. GoWith(p, "idle", NoRequest) /\ Harmless(p, "idle", NoRequest)
    BY DEF Finish, Harmless, NoRequest, Writing
<1> QED
    BY <1>1, HarmlessStep

LEMMA GotoStep ==
    ASSUME Inv, NEW p \in Procs, NEW label, Goto(p, label), UNCHANGED msgs,
           pc[p] # "idle", label \in Writing => req[p].via = "rest"
    PROVE  Inv'
<1>1. GoWith(p, label, req[p]) /\ Harmless(p, label, req[p])
    BY DEF Goto, Harmless, Inv, Shaped
<1> QED
    BY <1>1, HarmlessStep

\* A request begins that is about no message's whole row.
LEMMA BeginStep ==
    ASSUME Inv, NEW p \in Procs, NEW k, NEW label, NEW r, Begin(p, k, label, r),
           {"x", "via", "deleted"} \subseteq DOMAIN r, r.via # "rest",
           label \notin Writing, UNCHANGED msgs
    PROVE  Inv'
<1>1. GoWith(p, label, r) /\ Harmless(p, label, r)
    BY DEF Begin, Harmless
<1> QED
    BY <1>1, HarmlessStep

-----------------------------------------------------------------------------
\* Compressions and pictures carry no message.
LEMMA MarkFailedStep ==
    ASSUME Inv, NEW w \in Procs, pc[w] # "idle", MarkFailed(w), UNCHANGED msgs
    PROVE  Inv'
<1>1. CASE GoWith(w, "idle", NoRequest)
    <2>1. Harmless(w, "idle", NoRequest)
        BY DEF Harmless, NoRequest, Writing
    <2> QED
        BY <1>1, <2>1, HarmlessStep
<1>2. CASE GoWith(w, "row", [req[w] EXCEPT !.flag = primary[req[w].m], !.rounds = <<"part">>])
    <2>1. Harmless(w, "row", [req[w] EXCEPT !.flag = primary[req[w].m], !.rounds = <<"part">>])
        BY DEF Harmless, Writing, Inv, Shaped
    <2> QED
        BY <1>2, <2>1, HarmlessStep
<1> QED
    BY <1>1, <1>2 DEF MarkFailed

LEMMA PictureBegins ==
    ASSUME Inv, NEW p \in Procs, NEW m, NEW flag, NEW rounds, NEW base,
           BeginPicture(p, m, flag, rounds, base), UNCHANGED msgs
    PROVE  Inv'
<1> DEFINE r == [NoRequest EXCEPT !.m = m, !.flag = flag, !.rounds = rounds,
                                  !.path = [dir |-> today, base |-> base, own |-> "none"]]
<1>1. Begin(p, "picture", "row", r)
    BY DEF BeginPicture
<1>2. {"x", "via", "deleted"} \subseteq DOMAIN r /\ r.via # "rest"
    BY DEF NoRequest
<1>3. "row" \notin Writing
    BY DEF Writing
<1> HIDE DEF r
<1> QED
    BY <1>1, <1>2, <1>3, BeginStep

LEMMA MediaStep ==
    ASSUME Inv, MediaNext, UNCHANGED messageVars
    PROVE  Inv'
<1> UNCHANGED msgs
    BY DEF messageVars
<1>1. ASSUME NEW w \in Procs, NEW m, Take(w, m) PROVE Inv'
    <2> DEFINE r == [NoRequest EXCEPT !.m = m, !.path = path[m], !.via = "task",
                                      !.flag = m \in Clips /\ primary[m]]
    <2>1. GoWith(w, "encode", r)
        BY <1>1 DEF Take
    <2>2. Harmless(w, "encode", r)
        BY DEF Harmless, NoRequest, Writing
    <2> HIDE DEF r
    <2> QED
        BY <2>1, <2>2, HarmlessStep
<1>2. ASSUME NEW w \in Procs, Encode(w) PROVE Inv'
    <2>1. PICK f \in disk : GoWith(w, "drop", [req[w] EXCEPT !.of = f.of])
        BY <1>2 DEF Encode
    <2>2. Harmless(w, "drop", [req[w] EXCEPT !.of = f.of])
        BY <1>2 DEF Encode, Harmless, Writing, Inv, Shaped
    <2> QED
        BY <2>1, <2>2, HarmlessStep
<1>3. ASSUME NEW w \in Procs, Skip(w) \/ TaskFails(w) PROVE Inv'
    <2>1. MarkFailed(w) /\ pc[w] # "idle"
        BY <1>3 DEF Skip, TaskFails
    <2> QED
        BY <2>1, MarkFailedStep
<1>4. ASSUME NEW w \in Procs, Drop(w) PROVE Inv'
    <2>1. Goto(w, "store") /\ pc[w] # "idle" /\ "store" \notin Writing
        BY <1>4 DEF Drop, Writing
    <2> QED
        BY <2>1, GotoStep
<1>5. ASSUME NEW w \in Procs, Store(w) PROVE Inv'
    <2>1. PICK at : GoWith(w, "record", [req[w] EXCEPT !.path = at])
        BY <1>5 DEF Store
    <2>2. Harmless(w, "record", [req[w] EXCEPT !.path = at])
        BY <1>5 DEF Store, Harmless, Writing, Inv, Shaped
    <2> QED
        BY <2>1, <2>2, HarmlessStep
<1>6. ASSUME NEW w \in Procs, Record(w) PROVE Inv'
    <2>1. CASE Finish(w)
        BY <2>1, FinishStep
    <2>2. CASE GoWith(w, "row", [req[w] EXCEPT !.rounds = <<"part">>])
        <3>1. Harmless(w, "row", [req[w] EXCEPT !.rounds = <<"part">>])
            BY <1>6 DEF Record, Harmless, Writing, Inv, Shaped
        <3> QED
            BY <2>2, <3>1, HarmlessStep
    <2> QED
        BY <1>6, <2>1, <2>2 DEF Record
<1>7. ASSUME NEW p \in Procs, NEW m, NEW base, NEW asked,
             CreatePhoto(p, m, base, asked) \/ CreateClip(p, m, base, asked)
      PROVE  Inv'
    BY <1>7, PictureBegins DEF CreatePhoto, CreateClip
<1>8. ASSUME NEW p \in Procs, NEW m, SetPrimary(p, m) PROVE Inv'
    BY <1>8, PictureBegins DEF SetPrimary
<1>9. ASSUME NEW p \in Procs, SaveRow(p) PROVE Inv'
    <2>1. CASE Finish(p)
        BY <2>1, FinishStep
    <2>2. CASE ~Finish(p)
        <3>1. PICK label \in {"ensure", "unset"} :
                  \E flag : GoWith(p, label, [req[p] EXCEPT !.flag = flag])
            BY <1>9, <2>2 DEF SaveRow
        <3> PICK flag : GoWith(p, label, [req[p] EXCEPT !.flag = flag])
            BY <3>1
        <3>2. Harmless(p, label, [req[p] EXCEPT !.flag = flag])
            BY <1>9 DEF SaveRow, Harmless, Writing, Inv, Shaped
        <3> QED
            BY <3>2, HarmlessStep
    <2> QED
        BY <2>1, <2>2
<1>10. ASSUME NEW p \in Procs, Ensure(p) PROVE Inv'
    <2>1. PICK flag : GoWith(p, "unset", [req[p] EXCEPT !.flag = flag])
        BY <1>10 DEF Ensure
    <2>2. Harmless(p, "unset", [req[p] EXCEPT !.flag = flag])
        BY <1>10 DEF Ensure, Harmless, Writing, Inv, Shaped
    <2> QED
        BY <2>1, <2>2, HarmlessStep
<1>11. ASSUME NEW p \in Procs, Unset(p) PROVE Inv'
    <2>1. Goto(p, "flag") /\ pc[p] # "idle" /\ "flag" \notin Writing
        BY <1>11 DEF Unset, Writing
    <2> QED
        BY <2>1, GotoStep
<1>12. ASSUME NEW p \in Procs, SaveFlag(p) PROVE Inv'
    <2>1. CASE Finish(p)
        BY <2>1, FinishStep
    <2>2. CASE GoWith(p, "row", [req[p] EXCEPT !.rounds = Tail(req[p].rounds)])
        <3>1. Harmless(p, "row", [req[p] EXCEPT !.rounds = Tail(req[p].rounds)])
            BY <1>12 DEF SaveFlag, Harmless, Writing, Inv, Shaped
        <3> QED
            BY <2>2, <3>1, HarmlessStep
    <2> QED
        BY <1>12, <2>1, <2>2 DEF SaveFlag
<1>13. ASSUME NEW m, TakeStale(m) \/ Destroy(m) \/ Midnight PROVE Inv'
    BY <1>13, StutterStep DEF TakeStale, Destroy, Midnight, proc
<1> QED
    BY <1>1, <1>2, <1>3, <1>4, <1>5, <1>6, <1>7, <1>8, <1>9, <1>10, <1>11, <1>12, <1>13
    DEF MediaNext

-----------------------------------------------------------------------------
\* Messages may be added or changed, and requests may go on, if every message that is
\* erased afterwards is not live then and no live copy of it is about to be saved.
LEMMA ChangeStep ==
    ASSUME Inv, NEW p \in Procs, NEW label, NEW r, GoWith(p, label, r),
           {"x", "via", "deleted"} \subseteq DOMAIN r,
           label \in Writing => r.via = "rest",
           Len(msgs') \in Nat, msgs' = [x \in 1..Len(msgs') |-> msgs'[x]],
           \A x \in Ids' : {"there", "deleted", "fate"} \subseteq DOMAIN msgs'[x],
           Buried'
    PROVE  Inv'
<1>1. \A q \in Procs : /\ pc'[q] = IF q = p THEN label ELSE pc[q]
                       /\ req'[q] = IF q = p THEN r ELSE req[q]
    BY DEF GoWith, Inv, Shaped
<1>2. Shaped'
    BY <1>1 DEF GoWith, Inv, Shaped
<1>3. SavedByRest'
    BY <1>1 DEF Inv, SavedByRest
<1> QED
    BY <1>2, <1>3 DEF Inv

\* One message changes in a way that leaves its fate and does not make it live, while
\* p's request ends or goes on with its copy.
LEMMA TouchStep ==
    ASSUME Inv, NEW p \in Procs, NEW label, NEW x, NEW new,
           \/ GoWith(p, label, NoRequest) /\ label = "idle"
           \/ GoWith(p, label, req[p]) /\ pc[p] # "idle",
           label \in Writing => req[p].via = "rest",
           msgs' = [msgs EXCEPT ![x] = new],
           x \in Ids => /\ {"there", "deleted", "fate"} \subseteq DOMAIN new
                        /\ new.fate = msgs[x].fate
                        /\ new.there = msgs[x].there /\ new.deleted = msgs[x].deleted
    PROVE  Inv'
<1>1. Len(msgs') = Len(msgs) /\ Ids' = Ids /\ Ids = 1..Len(msgs)
    BY DEF Inv, Shaped, Ids
<1>2. \A y \in Ids : /\ {"there", "deleted", "fate"} \subseteq DOMAIN msgs'[y]
                     /\ msgs'[y].fate = msgs[y].fate
                     /\ Live(y)' <=> Live(y)
    BY <1>1 DEF Inv, Shaped, Live
<1>3. \A q \in Procs, y \in Ids : HoldsLive(q, y)' => HoldsLive(q, y)
    BY DEF GoWith, HoldsLive, Inv, Shaped
<1>4. Buried'
    BY <1>1, <1>2, <1>3 DEF Inv, Buried
<1> QED
    <2>1. CASE GoWith(p, label, NoRequest) /\ label = "idle"
        BY <1>1, <1>2, <1>4, <2>1, ChangeStep DEF NoRequest, Inv, Shaped, Writing
    <2>2. CASE GoWith(p, label, req[p])
        BY <1>1, <1>2, <1>4, <2>2, ChangeStep DEF Inv, Shaped
    <2> QED
        BY <2>1, <2>2

-----------------------------------------------------------------------------
\* Posting: the new message is not erased, and whoever saves its row inserted it.
LEMMA InsertStep ==
    ASSUME Inv, NEW p \in Procs, Insert(p)
    PROVE  Inv'
<1> DEFINE n == Len(msgs)
           new == NewMessage(req[p].at)
           r == [req[p] EXCEPT !.x = n + 1]
<1>1. /\ n \in Nat /\ msgs = [y \in 1..n |-> msgs[y]] /\ Ids = 1..n
      /\ \A y \in Ids : {"there", "deleted", "fate"} \subseteq DOMAIN msgs[y]
    BY DEF Inv, Shaped, Ids
<1>2. msgs \in Seq({msgs[y] : y \in 1..n} \cup {new})
    BY <1>1, SeqDef
<1>3. msgs' = Append(msgs, new)
    BY DEF Insert
<1>4. /\ Len(msgs') = n + 1 /\ Ids' = 1..(n + 1)
      /\ msgs' = [y \in 1..(n + 1) |-> msgs'[y]]
      /\ msgs'[n + 1] = new /\ \A y \in 1..n : msgs'[y] = msgs[y]
    BY <1>2, <1>3, <1>1 DEF Ids
<1>5. {"there", "deleted", "fate"} \subseteq DOMAIN new /\ new.fate = "kept"
    BY DEF NewMessage
<1>6. GoWith(p, "recipients", r) /\ {"x", "via", "deleted"} \subseteq DOMAIN r /\ r.x = n + 1
    BY DEF Insert, Inv, Shaped
<1> HIDE DEF n, new, r
<1>7. \A q \in Procs, y \in 1..n : HoldsLive(q, y)' => HoldsLive(q, y)
    BY <1>1, <1>6 DEF GoWith, HoldsLive, Inv, Shaped
<1>8. \A y \in Ids' : msgs'[y].fate = "erased" => y \in 1..n
    BY <1>1, <1>4, <1>5
<1>9. Buried'
    BY <1>1, <1>4, <1>7, <1>8 DEF Buried, Live, Inv
<1> QED
    BY <1>1, <1>4, <1>5, <1>6, <1>9, ChangeStep DEF Writing

LEMMA PostStep ==
    ASSUME Inv, PostNext
    PROVE  Inv'
<1>1. ASSUME NEW p \in Procs, NEW k, NEW new, Post(p, k, new),
             {"x", "via", "deleted"} \subseteq DOMAIN new, new.x = 0
      PROVE  Inv'
    <2> DEFINE r == [new EXCEPT !.at = clock]
    <2>1. GoWith(p, "insert", r) /\ UNCHANGED msgs
        BY <1>1 DEF Post, Begin
    <2>2. {"x", "via", "deleted"} \subseteq DOMAIN r /\ r.x = 0
        BY <1>1
    <2> HIDE DEF r
    <2>3. Harmless(p, "insert", r)
        BY <2>2 DEF Harmless, Writing, Inv, Shaped, Ids
    <2> QED
        BY <2>1, <2>3, HarmlessStep
<1>2. ASSUME NEW p \in Procs, PostWs(p) PROVE Inv'
    <2> DEFINE new == [NoRequest EXCEPT !.via = "ws"]
    <2>1. {"x", "via", "deleted"} \subseteq DOMAIN new /\ new.x = 0
        BY DEF NoRequest
    <2>2. Post(p, "post", new)
        BY <1>2 DEF PostWs
    <2> HIDE DEF new
    <2> QED
        BY <1>1, <2>1, <2>2
<1>3. ASSUME NEW p \in Procs, PostRest(p) PROVE Inv'
    <2> DEFINE new == [NoRequest EXCEPT !.via = "rest"]
    <2>1. {"x", "via", "deleted"} \subseteq DOMAIN new /\ new.x = 0
        BY DEF NoRequest
    <2>2. Post(p, "post", new)
        BY <1>3 DEF PostRest
    <2> HIDE DEF new
    <2> QED
        BY <1>1, <2>1, <2>2
<1>4. ASSUME NEW p \in Procs, NEW m, NEW base, PostVideo(p, m, base) PROVE Inv'
    <2> DEFINE new == [NoRequest EXCEPT !.via = "rest", !.m = m, !.path.base = base]
    <2>1. {"x", "via", "deleted"} \subseteq DOMAIN new /\ new.x = 0
        BY DEF NoRequest
    <2>2. Post(p, "film", new)
        BY <1>4 DEF PostVideo
    <2> HIDE DEF new
    <2> QED
        BY <1>1, <2>1, <2>2
<1>5. ASSUME NEW p \in Procs, Insert(p) PROVE Inv'
    BY <1>5, InsertStep
<1>6. ASSUME NEW p \in Procs, Recipients(p) PROVE Inv'
    <2>1. CASE Finish(p)
        BY <1>6, <2>1, FinishStep DEF Recipients
    <2>2. CASE ~Finish(p)
        <3>1. PICK label : Goto(p, label) /\ req[p].via = "rest"
            BY <1>6, <2>2 DEF Recipients
        <3> QED
            BY <1>6, <3>1, GotoStep DEF Recipients
    <2> QED
        BY <2>1, <2>2
<1>7. ASSUME NEW p \in Procs, PostFile(p) PROVE Inv'
    <2>1. PICK at : GoWith(p, "video", [req[p] EXCEPT !.path = at])
        BY <1>7 DEF PostFile
    <2>2. Harmless(p, "video", [req[p] EXCEPT !.path = at])
        BY <1>7 DEF PostFile, Harmless, Writing, Inv, Shaped, SavedByRest
    <2> QED
        BY <1>7, <2>1, <2>2, HarmlessStep DEF PostFile, messageVars
<1>8. ASSUME NEW p \in Procs, PostRow(p) PROVE Inv'
    <2>1. Goto(p, "attach") /\ pc[p] # "idle" /\ req[p].via = "rest" /\ UNCHANGED msgs
        BY <1>8 DEF PostRow, messageVars, Writing, Inv, SavedByRest
    <2> QED
        BY <2>1, GotoStep
<1>9. ASSUME NEW p \in Procs, PostAttach(p) PROVE Inv'
    <2>1. CASE Finish(p) /\ UNCHANGED msgs
        BY <2>1, FinishStep
    <2>2. CASE ~(Finish(p) /\ UNCHANGED msgs)
        <3> DEFINE x == req[p].x
                   new == [msgs[x] EXCEPT !.file = req[p].m]
        <3>1. /\ GoWith(p, "save", req[p]) /\ pc[p] # "idle" /\ req[p].via = "rest"
              /\ msgs' = [msgs EXCEPT ![x] = new]
            BY <1>9, <2>2 DEF PostAttach, Goto, Writing, Inv, SavedByRest
        <3>2. x \in Ids => /\ {"there", "deleted", "fate"} \subseteq DOMAIN new
                           /\ new.fate = msgs[x].fate
                           /\ new.there = msgs[x].there /\ new.deleted = msgs[x].deleted
            BY DEF Inv, Shaped
        <3> HIDE DEF x, new
        <3> QED
            BY <3>1, <3>2, TouchStep
    <2> QED
        BY <2>1, <2>2
<1> QED
    BY <1>2, <1>3, <1>4, <1>5, <1>6, <1>7, <1>8, <1>9 DEF PostNext

-----------------------------------------------------------------------------
\* The row of one message is saved and the request ends, or goes on without being
\* about to save it again.  If the message is erased now, nobody else is either.
LEMMA RowStep ==
    ASSUME Inv, NEW p \in Procs, NEW label, NEW r, NEW x, NEW new,
           GoWith(p, label, r), {"x", "via", "deleted"} \subseteq DOMAIN r,
           label = "idle" \/ r.via # "rest", label \notin Writing,
           msgs' = [msgs EXCEPT ![x] = new],
           x \in Ids =>
              /\ {"there", "deleted", "fate"} \subseteq DOMAIN new
              /\ new.fate = "erased" => /\ ~(new.there /\ ~new.deleted)
                                        /\ \A q \in Procs \ {p} : ~HoldsLive(q, x)
    PROVE  Inv'
<1>1. Len(msgs') = Len(msgs) /\ Ids' = Ids /\ Ids = 1..Len(msgs)
    BY DEF Inv, Shaped, Ids
<1>2. /\ \A y \in Ids : {"there", "deleted", "fate"} \subseteq DOMAIN msgs'[y]
      /\ \A y \in Ids : msgs'[y] = IF y = x THEN new ELSE msgs[y]
    BY <1>1 DEF Inv, Shaped
<1>3. \A q \in Procs, y \in Ids : HoldsLive(q, y)' => HoldsLive(q, y) /\ q # p
    BY DEF GoWith, HoldsLive, Inv, Shaped
<1>4. Buried'
    BY <1>1, <1>2, <1>3 DEF Inv, Buried, Live
<1> QED
    BY <1>1, <1>2, <1>4, ChangeStep DEF Inv, Shaped

\* What is read of an erased message is that it was deleted.
LEMMA ReadStep ==
    ASSUME Inv, NEW p \in Procs, NEW x \in Ids,
           EditRead(p, x) \/ DeleteRead(p, x) \/ UpdateRead(p, x) \/ DestroyRead(p, x)
    PROVE  Inv'
<1>1. PICK label \in {"edit", "delete", "save"}, via \in {"ws", "rest"},
           deleted \in {TRUE, msgs[x].deleted} :
          /\ msgs[x].there
          /\ label = "save" => via = "rest"
          /\ GoWith(p, label, [NoRequest EXCEPT !.x = x, !.via = via, !.deleted = deleted])
    BY DEF EditRead, DeleteRead, UpdateRead, DestroyRead, Read, Begin
<1>2. UNCHANGED msgs
    BY DEF EditRead, DeleteRead, UpdateRead, DestroyRead, Read, messageVars
<1> DEFINE r == [NoRequest EXCEPT !.x = x, !.via = via, !.deleted = deleted]
<1>3. /\ {"x", "via", "deleted"} \subseteq DOMAIN r
      /\ r.x = x /\ r.via = via /\ r.deleted = deleted
    BY DEF NoRequest
<1>4. msgs[x].fate = "erased" => msgs[x].deleted
    BY <1>1 DEF Inv, Buried, Live
<1>5. msgs[x].fate = "erased" => deleted
    <2>1. CASE deleted = TRUE
        BY <2>1
    <2>2. CASE deleted = msgs[x].deleted
        BY <1>4, <2>2
    <2> QED
        BY <2>1, <2>2
<1> HIDE DEF r
<1>6. r.via # "rest" \/ r.deleted \/ msgs[r.x].fate # "erased"
    BY <1>3, <1>5
<1>7. label \in Writing => r.via = "rest"
    BY <1>1, <1>3 DEF Writing
<1>8. Harmless(p, label, r)
    BY <1>3, <1>6, <1>7, Zenon DEF Harmless
<1> QED
    BY <1>1, <1>2, <1>8, HarmlessStep DEF r

LEMMA DeleteSaveStep ==
    ASSUME Inv, NEW p \in Procs, DeleteSave(p)
    PROVE  Inv'
<1> DEFINE x == req[p].x
           new == [msgs[x] EXCEPT !.deleted = TRUE, !.fate = Fate(p, x)]
<1>1. CASE msgs[x].there
    <2>1. msgs' = [msgs EXCEPT ![x] = new] /\ GoWith(p, "idle", NoRequest)
        BY <1>1 DEF DeleteSave, Finish
    <2>2. x \in Ids =>
              /\ {"there", "deleted", "fate"} \subseteq DOMAIN new
              /\ new.deleted
              /\ new.fate = "erased" => \A q \in Procs \ {p} : ~HoldsLive(q, x)
        BY DEF Inv, Shaped, Fate
    <2>3. {"x", "via", "deleted"} \subseteq DOMAIN NoRequest /\ "idle" \notin Writing
        BY DEF NoRequest, Writing
    <2> HIDE DEF x, new
    <2> QED
        BY <2>1, <2>2, <2>3, RowStep
<1>2. CASE ~msgs[x].there
    BY <1>2, FinishStep DEF DeleteSave
<1> QED
    BY <1>1, <1>2

\* A request that saves the row as it was before a deletion holds a live copy of it, so
\* that the message is not erased.
LEMMA FullSaveStep ==
    ASSUME Inv, NEW p \in Procs, FullSave(p)
    PROVE  Inv'
<1> DEFINE x == req[p].x
           del == req[p].deleted
           new == [msgs[x] EXCEPT !.there = TRUE, !.deleted = del,
                                  !.fate = IF del THEN Fate(p, x) ELSE @]
<1>1. msgs' = [msgs EXCEPT ![x] = new]
    BY DEF FullSave
<1>2. PICK label, r :
          /\ label \in {"idle", "recipients"}
          /\ GoWith(p, label, r) /\ {"x", "via", "deleted"} \subseteq DOMAIN r
          /\ label = "idle" \/ r.via # "rest"
    <2>1. CASE msgs[x].there
        BY <2>1 DEF FullSave, Finish, NoRequest
    <2>2. CASE ~msgs[x].there
        BY <2>2 DEF FullSave, Inv, Shaped
    <2> QED
        BY <2>1, <2>2
<1>3. x \in Ids /\ ~del => msgs[x].fate # "erased"
    BY DEF FullSave, HoldsLive, Inv, SavedByRest, Buried, Writing
<1>4. x \in Ids =>
          /\ {"there", "deleted", "fate"} \subseteq DOMAIN new
          /\ new.fate = "erased" => new.deleted /\ \A q \in Procs \ {p} : ~HoldsLive(q, x)
    BY <1>3 DEF Inv, Shaped, Fate
<1>5. label \notin Writing
    BY <1>2 DEF Writing
<1> HIDE DEF x, del, new
<1> QED
    BY <1>1, <1>2, <1>4, <1>5, RowStep

\* A purge keeps every fate, and what it removes is not live.
LEMMA PurgeStep ==
    ASSUME Inv, NEW p \in Procs, PurgeBatch(p)
    PROVE  Inv'
<1> DEFINE gone(y) == [msgs[y] EXCEPT !.there = FALSE, !.file = "none", !.marks = <<>>]
<1>1. GoWith(p, "list", req[p])
    BY DEF PurgeBatch, Goto
<1>2. msgs' = [y \in Ids |-> IF y \in req[p].todo THEN gone(y) ELSE msgs[y]]
    BY DEF PurgeBatch
<1>3. Len(msgs) \in Nat /\ Ids = 1..Len(msgs)
    BY DEF Inv, Shaped, Ids
<1>4. Len(msgs') = Len(msgs) /\ Ids' = Ids
    <2>1. DOMAIN msgs' = 1..Len(msgs)
        BY <1>2, <1>3
    <2>2. msgs' \in Seq({msgs'[y] : y \in 1..Len(msgs)})
        <3>1. msgs' = [y \in 1..Len(msgs) |-> msgs'[y]]
            BY <1>2, <1>3
        <3>2. msgs' \in [1..Len(msgs) -> {msgs'[y] : y \in 1..Len(msgs)}]
            BY <3>1
        <3> QED
            BY <3>2, <1>3, SeqDef
    <2>3. Len(msgs') \in Nat /\ DOMAIN msgs' = 1..Len(msgs')
        BY <2>2, LenProperties
    <2>4. Len(msgs') = Len(msgs)
        BY <2>1, <2>3, <1>3
    <2> QED
        BY <2>1, <2>4, <1>3 DEF Ids
<1>5. \A y \in Ids : /\ {"there", "deleted", "fate"} \subseteq DOMAIN msgs'[y]
                     /\ msgs'[y].fate = msgs[y].fate
                     /\ Live(y)' => Live(y)
    BY <1>2, <1>4 DEF Inv, Shaped, Live
<1>6. msgs' = [y \in 1..Len(msgs') |-> msgs'[y]]
    BY <1>2, <1>3, <1>4
<1>7. \A q \in Procs, y \in Ids : HoldsLive(q, y)' => HoldsLive(q, y)
    BY <1>1 DEF GoWith, HoldsLive, Inv, Shaped, PurgeBatch
<1>8. Buried'
    BY <1>4, <1>5, <1>7 DEF Inv, Buried
<1> HIDE DEF gone
<1> QED
    BY <1>1, <1>3, <1>4, <1>5, <1>6, <1>8, ChangeStep DEF Writing, Inv, Shaped

LEMMA ChangeNextStep ==
    ASSUME Inv, ChangeNext
    PROVE  Inv'
<1>1. ASSUME NEW p \in Procs, EditSave(p) PROVE Inv'
    BY <1>1, FinishStep DEF EditSave, messageVars
<1>2. ASSUME NEW p \in Procs, PurgeStart(p) PROVE Inv'
    <2> DEFINE r == [NoRequest EXCEPT !.via = "purge"]
    <2>1. Begin(p, "purge", "list", r) /\ UNCHANGED msgs
        BY <1>2 DEF PurgeStart, messageVars
    <2>2. {"x", "via", "deleted"} \subseteq DOMAIN r /\ r.via # "rest" /\ "list" \notin Writing
        BY DEF NoRequest, Writing
    <2> HIDE DEF r
    <2> QED
        BY <2>1, <2>2, BeginStep
<1>3. ASSUME NEW p \in Procs, PurgeList(p) PROVE Inv'
    <2>1. UNCHANGED msgs
        BY <1>3 DEF PurgeList, messageVars
    <2>2. CASE Finish(p)
        BY <2>1, <2>2, FinishStep
    <2>3. CASE ~Finish(p)
        <3>1. PICK batch : GoWith(p, "purge", [req[p] EXCEPT !.todo = batch])
            BY <1>3, <2>3 DEF PurgeList
        <3>2. Harmless(p, "purge", [req[p] EXCEPT !.todo = batch])
            BY <1>3 DEF PurgeList, Harmless, Writing, Inv, Shaped
        <3> QED
            BY <2>1, <3>1, <3>2, HarmlessStep
    <2> QED
        BY <2>2, <2>3
<1>4. ASSUME NEW p \in Procs, PurgeFails(p) PROVE Inv'
    <2>1. GoWith(p, "idle", NoRequest) /\ UNCHANGED msgs
        BY <1>4 DEF PurgeFails, messageVars
    <2>2. Harmless(p, "idle", NoRequest)
        BY DEF Harmless, NoRequest, Writing
    <2> QED
        BY <2>1, <2>2, HarmlessStep
<1> QED
    BY <1>1, <1>2, <1>3, <1>4, ReadStep, DeleteSaveStep, FullSaveStep, PurgeStep DEF ChangeNext

-----------------------------------------------------------------------------
\* Reactions touch a message's marks only; viewing and reading touch none.
LEMMA MarksStep ==
    ASSUME Inv, NEW p \in Procs, NEW marks, NEW label, label \notin Writing, Marks(p, marks),
           \/ GoWith(p, label, NoRequest) /\ label = "idle"
           \/ GoWith(p, label, req[p]) /\ pc[p] # "idle"
    PROVE  Inv'
<1> DEFINE x == req[p].x
           new == [msgs[x] EXCEPT !.marks = marks]
<1>1. msgs' = [msgs EXCEPT ![x] = new]
    BY DEF Marks
<1>2. x \in Ids => /\ {"there", "deleted", "fate"} \subseteq DOMAIN new
                   /\ new.fate = msgs[x].fate
                   /\ new.there = msgs[x].there /\ new.deleted = msgs[x].deleted
    BY DEF Inv, Shaped
<1> HIDE DEF x, new
<1> QED
    BY <1>1, <1>2, TouchStep

LEMMA ReaderStep ==
    ASSUME Inv, ReaderNext
    PROVE  Inv'
<1>1. ASSUME NEW p \in Procs, NEW x, NEW kind, React(p, x, kind) PROVE Inv'
    <2> DEFINE r == [NoRequest EXCEPT !.x = x, !.kind = kind, !.via = "react"]
    <2>1. Begin(p, "react", "find", r) /\ UNCHANGED msgs
        BY <1>1 DEF React
    <2>2. {"x", "via", "deleted"} \subseteq DOMAIN r /\ r.via # "rest" /\ "find" \notin Writing
        BY DEF NoRequest, Writing
    <2> HIDE DEF r
    <2> QED
        BY <2>1, <2>2, BeginStep
<1>2. ASSUME NEW p \in Procs, ReactFind(p) \/ ReactCount(p) PROVE Inv'
    <2>1. PICK label \in {"unreact", "count", "drop_oldest", "create"} :
              Goto(p, label) /\ pc[p] # "idle" /\ UNCHANGED msgs
        BY <1>2 DEF ReactFind, ReactCount, ReactQuery, messageVars
    <2>2. label \notin Writing
        BY DEF Writing
    <2> QED
        BY <2>1, <2>2, GotoStep
<1>3. ASSUME NEW p \in Procs, Unreact(p) \/ ReactCreate(p) PROVE Inv'
    <2>1. PICK marks : Marks(p, marks)
        BY <1>3 DEF Unreact, ReactCreate
    <2>2. GoWith(p, "idle", NoRequest)
        BY <1>3 DEF Unreact, ReactCreate, Finish
    <2>3. "idle" \notin Writing
        BY DEF Writing
    <2> QED
        BY <2>1, <2>2, <2>3, MarksStep
<1>4. ASSUME NEW p \in Procs, DropOldest(p) PROVE Inv'
    <2>1. PICK marks : Marks(p, marks)
        BY <1>4 DEF DropOldest
    <2>2. GoWith(p, "create", req[p]) /\ pc[p] # "idle"
        BY <1>4 DEF DropOldest, Goto
    <2>3. "create" \notin Writing
        BY DEF Writing
    <2> QED
        BY <2>1, <2>2, <2>3, MarksStep
<1>5. ASSUME NEW x, View(x) PROVE Inv'
    BY <1>5, StutterStep DEF View
<1>6. ASSUME NEW way, NEW cursor, ScrollStart(way, cursor) PROVE Inv'
    BY <1>6, StutterStep DEF ScrollStart
<1>7. ASSUME OlderPage \/ NewerPage \/ MessagesPage PROVE Inv'
    BY <1>7, StutterStep DEF OlderPage, NewerPage, MessagesPage, Turn, mediaVars, proc
<1> QED
    BY <1>1, <1>2, <1>3, <1>4, <1>5, <1>6, <1>7 DEF ReaderNext, ReactWs, ReactRest

LEMMA CrashStep ==
    ASSUME Inv, NEW p \in Procs, MessageCrash(p)
    PROVE  Inv'
<1>1. GoWith(p, "idle", NoRequest) /\ UNCHANGED msgs
    BY DEF MessageCrash, Crash
<1>2. Harmless(p, "idle", NoRequest)
    BY DEF Harmless, NoRequest, Writing
<1> QED
    BY <1>1, <1>2, HarmlessStep

-----------------------------------------------------------------------------
\* The invariant: the requests keep their shape, whole rows are saved by the viewset
\* alone, and no request holds a live copy of an erased message.
THEOREM InvHolds == Spec => []Inv
<1>1. Init => Inv
    BY InitInv
<1>2. Inv /\ [Next]_vars => Inv'
    <2> SUFFICES ASSUME Inv, [Next]_vars PROVE Inv'
        OBVIOUS
    <2>1. CASE UNCHANGED vars
        BY <2>1, StutterStep DEF vars, mediaVars, messageVars, proc
    <2>2. CASE Next
        BY <2>2, PostStep, ChangeNextStep, ReaderStep, MediaStep, CrashStep DEF Next
    <2> QED
        BY <2>1, <2>2
<1> QED
    BY <1>1, <1>2, PTL DEF Spec

\* A message that its author deleted is never shown again, unless another request was
\* about to save the whole row as it was before: delete_message, destroy, update and
\* create of the viewset, the periodic purge, for any number of each and any crashes.
THEOREM ErasedStayErased == Spec => []DeletedStaysDeleted
<1>1. Inv => DeletedStaysDeleted
    BY DEF Inv, Buried, DeletedStaysDeleted
<1> QED
    BY <1>1, InvHolds, PTL

-----------------------------------------------------------------------------
(* Reactions and recipients.  Of two requests of the reader that react to a message *)
(* at once the second makes it overlapped, so that elsewhere who is about to add a  *)
(* reaction has seen that there is room; and a message that is there has recipients *)
(* or a request that is about to make them.                                         *)

ReactsTo(q, x) == pc[q] \in Reacting /\ req[q].x = x
RoomToReact ==
    \A x \in Ids \ overlapped :
        /\ Len(msgs[x].marks) <= MaxReactions
        /\ \A p, q \in Procs : ReactsTo(p, x) /\ ReactsTo(q, x) => p = q
        /\ \A p \in Procs : pc[p] = "create" /\ req[p].x = x => Len(msgs[x].marks) < MaxReactions
Delivers(q, x) == pc[q] = "recipients" /\ req[q].x = x
Delivered ==
    \A x \in Ids \ (inbox \cup cut) : msgs[x].there => \E q \in Procs : Delivers(q, x)

Elsewhere(p) == \A q \in Procs \ {p} : pc'[q] = pc[q] /\ req'[q] = req[q]

LEMMA MoveElsewhere ==
    ASSUME ProcsOK, NEW p \in Procs, NEW label, NEW r, GoWith(p, label, r)
    PROVE  Elsewhere(p) /\ pc'[p] = label /\ req'[p] = r
BY DEF GoWith, ProcsOK, Elsewhere

\* A request that starts no reaction, and leaves no message with more of them.
LEMMA NoReaction ==
    ASSUME MediaOK, MsgsOK, RoomToReact, NEW p \in Procs, Elsewhere(p), pc'[p] \notin Reacting,
           overlapped' = overlapped, Ids \subseteq Ids',
           \A x \in Ids : Len(msgs'[x].marks) <= Len(msgs[x].marks) /\ Len(msgs'[x].marks) \in Nat,
           \A x \in Ids' \ Ids : Len(msgs'[x].marks) = 0
    PROVE  RoomToReact'
<1> SUFFICES ASSUME NEW x \in Ids' \ overlapped
             PROVE  /\ Len(msgs'[x].marks) <= MaxReactions
                    /\ \A r, q \in Procs : ReactsTo(r, x)' /\ ReactsTo(q, x)' => r = q
                    /\ \A q \in Procs : pc'[q] = "create" /\ req'[q].x = x =>
                                            Len(msgs'[x].marks) < MaxReactions
    BY DEF RoomToReact
<1>1. \A q \in Procs : ReactsTo(q, x)' => ReactsTo(q, x) /\ q # p
    BY DEF Elsewhere, ReactsTo
<1>2. \A q \in Procs : pc'[q] = "create" => pc[q] = "create" /\ req'[q] = req[q] /\ pc[q] \in Reacting
    BY DEF Elsewhere, Reacting
<1>3. MaxReactions \in Nat /\ MaxReactions > 0
    BY ReactionsAssumption
<1>4. CASE x \in Ids
    <2>1. /\ Len(msgs'[x].marks) <= Len(msgs[x].marks) /\ Len(msgs'[x].marks) \in Nat
          /\ Len(msgs[x].marks) \in Nat
        BY <1>4, IdsTyped, LenProperties DEF Message
    <2>2. /\ Len(msgs[x].marks) <= MaxReactions
          /\ \A r, q \in Procs : ReactsTo(r, x) /\ ReactsTo(q, x) => r = q
          /\ \A q \in Procs : pc[q] = "create" /\ req[q].x = x =>
                                  Len(msgs[x].marks) < MaxReactions
        BY <1>4 DEF RoomToReact
    <2>3. Len(msgs'[x].marks) <= MaxReactions
        BY <1>3, <2>1, <2>2
    <2>4. \A q \in Procs : pc'[q] = "create" /\ req'[q].x = x =>
                               Len(msgs'[x].marks) < MaxReactions
        BY <1>2, <1>3, <2>1, <2>2
    <2> QED
        BY <1>1, <2>2, <2>3, <2>4
<1>5. CASE x \notin Ids
    <2>1. \A q \in Procs : ~ReactsTo(q, x)
        BY <1>5, ReactingTyped DEF ReactsTo
    <2> QED
        BY <1>1, <1>2, <1>3, <1>5, <2>1 DEF ReactsTo
<1> QED
    BY <1>4, <1>5

\* A request that makes no message be there, and takes no recipients.
LEMMA NothingToDeliver ==
    ASSUME MsgsOK, Delivered, NEW p \in Procs, Elsewhere(p), Ids' = Ids,
           inbox \subseteq inbox', cut \subseteq cut',
           pc[p] = "recipients" /\ msgs[req[p].x].there => req[p].x \in inbox' \cup cut',
           \A x \in Ids : msgs'[x].there => msgs[x].there
    PROVE  Delivered'
<1> SUFFICES ASSUME NEW x \in Ids \ (inbox' \cup cut'), msgs'[x].there
             PROVE  \E q \in Procs : Delivers(q, x)'
    BY DEF Delivered
<1>1. PICK q \in Procs : Delivers(q, x)
    BY DEF Delivered
<1>2. q # p
    BY <1>1 DEF Delivers
<1> QED
    BY <1>1, <1>2 DEF Delivers, Elsewhere

\* The steps that do neither, and change no message at all.
Quiet(p) ==
    /\ Elsewhere(p) /\ pc'[p] \notin Reacting /\ pc[p] # "recipients"
    /\ pc'[p] = "purge" => PurgeList(p)
    /\ UNCHANGED <<msgs, inbox, channel, scroll, overlapped, cut>>

LEMMA MarksNat ==
    ASSUME MsgsOK, NEW x \in Ids
    PROVE  Len(msgs[x].marks) \in Nat /\ msgs[x].there \in BOOLEAN
BY IdsTyped, LenProperties DEF Message

LEMMA QuietKeeps ==
    ASSUME MediaOK, MsgsOK, RoomToReact, Delivered, NEW p \in Procs, Quiet(p)
    PROVE  RoomToReact' /\ Delivered'
<1>1. Ids' = Ids /\ \A x \in Ids : Len(msgs'[x].marks) \in Nat
    BY MarksNat DEF Quiet, Ids
<1>2. \A x \in Ids : Len(msgs'[x].marks) <= Len(msgs[x].marks)
    BY <1>1, MarksNat DEF Quiet
<1>3. RoomToReact'
    BY <1>1, <1>2, NoReaction DEF Quiet
<1>4. Delivered'
    BY <1>1, NothingToDeliver DEF Quiet
<1> QED
    BY <1>3, <1>4

LEMMA StillKeeps ==
    ASSUME RoomToReact, Delivered, UNCHANGED <<msgs, inbox, overlapped, cut, pc, req>>
    PROVE  RoomToReact' /\ Delivered'
BY DEF RoomToReact, Delivered, ReactsTo, Delivers, Ids

LEMMA MediaQuiet ==
    ASSUME ProcsOK, UNCHANGED messageVars, MediaNext
    PROVE  UNCHANGED <<pc, req>> \/ \E p \in Procs : Quiet(p)
<1>1. /\ UNCHANGED <<msgs, inbox, channel, scroll, overlapped, cut>>
      /\ \A label \in Tasking \cup SavingPicture \cup {"idle"} :
             label \notin Reacting /\ label \notin {"recipients", "purge"}
    BY DEF messageVars, Tasking, SavingPicture, Reacting
<1>2. ASSUME NEW p \in Procs, NEW label \in Tasking \cup SavingPicture \cup {"idle"}, NEW r,
             GoWith(p, label, r), pc[p] \in Tasking \cup SavingPicture \cup {"idle"}
      PROVE  Quiet(p)
    BY <1>1, <1>2, MoveElsewhere DEF Quiet
<1>3. ASSUME NEW p \in Procs, NEW m, Take(p, m) PROVE Quiet(p)
    BY <1>2, <1>3 DEF Take, Tasking
<1>4. ASSUME NEW p \in Procs, Encode(p) \/ Drop(p) \/ Store(p) PROVE Quiet(p)
    BY <1>2, <1>4 DEF Encode, Drop, Store, Goto, Tasking
<1>5. ASSUME NEW p \in Procs, Skip(p) \/ TaskFails(p) PROVE Quiet(p)
    <2>1. MarkFailed(p) /\ pc[p] \in Tasking
        BY <1>5 DEF Skip, TaskFails, Tasking
    <2> QED
        BY <1>2, <2>1 DEF MarkFailed, SavingPicture
<1>6. ASSUME NEW p \in Procs, Record(p) PROVE Quiet(p)
    BY <1>2, <1>6 DEF Record, Finish, Tasking, SavingPicture
<1>7. ASSUME NEW p \in Procs, NEW m, NEW flag, NEW rounds, NEW base,
             BeginPicture(p, m, flag, rounds, base)
      PROVE  Quiet(p)
    BY <1>2, <1>7 DEF BeginPicture, Begin, SavingPicture
<1>8. ASSUME NEW p \in Procs, NEW m, NEW base, NEW asked,
             CreatePhoto(p, m, base, asked) \/ CreateClip(p, m, base, asked) \/ SetPrimary(p, m)
      PROVE  Quiet(p)
    BY <1>7, <1>8 DEF CreatePhoto, CreateClip, SetPrimary
<1>9. ASSUME NEW p \in Procs, SaveRow(p) PROVE Quiet(p)
    <2>1. PICK label \in {"idle", "ensure", "unset"} : \E r : GoWith(p, label, r)
        BY <1>9 DEF SaveRow, Finish
    <2>2. PICK r : GoWith(p, label, r)
        BY <2>1
    <2> QED
        BY <1>2, <1>9, <2>1, <2>2 DEF SaveRow, SavingPicture
<1>10. ASSUME NEW p \in Procs, Ensure(p) \/ Unset(p) \/ SaveFlag(p) PROVE Quiet(p)
    <2>1. PICK label \in {"idle", "row", "unset", "flag"} : \E r : GoWith(p, label, r)
        BY <1>10 DEF Ensure, Unset, SaveFlag, Goto, Finish
    <2>2. PICK r : GoWith(p, label, r)
        BY <2>1
    <2> QED
        BY <1>2, <1>10, <2>1, <2>2 DEF Ensure, Unset, SaveFlag, SavingPicture
<1>11. ASSUME NEW m, TakeStale(m) \/ Destroy(m) \/ Midnight PROVE UNCHANGED <<pc, req>>
    BY <1>11 DEF TakeStale, Destroy, Midnight, proc
<1> QED
    BY <1>3, <1>4, <1>5, <1>6, <1>8, <1>9, <1>10, <1>11 DEF MediaNext

\* Inserting a message and making its recipients.
LEMMA InsertKeeps ==
    ASSUME MediaOK, MsgsOK, RoomToReact, Delivered, NEW p \in Procs, Insert(p)
    PROVE  RoomToReact' /\ Delivered'
<1> DEFINE n == Len(msgs) + 1
           new == NewMessage(req[p].at)
<1>1. new \in Message /\ Len(new.marks) = 0
    BY HeldTyped, EmptySeq DEF MediaOK, NewMessage, Message
<1>2. /\ Ids' = Ids \cup {n} /\ n \notin Ids
      /\ \A y \in Ids : msgs'[y] = msgs[y]
      /\ msgs'[n] = new
    BY <1>1, MessageAdded DEF Insert
<1>3. Elsewhere(p) /\ pc'[p] = "recipients" /\ req'[p].x = n
    BY MoveElsewhere, HeldTyped DEF Insert, MediaOK, Locals
<1>4. UNCHANGED <<inbox, overlapped, cut>> /\ pc[p] = "insert"
    BY DEF Insert
<1> HIDE DEF n, new
<1>5. RoomToReact'
    <2>1. \A x \in Ids : Len(msgs'[x].marks) \in Nat /\ Len(msgs'[x].marks) <= Len(msgs[x].marks)
        BY <1>2, MarksNat
    <2>2. pc'[p] \notin Reacting
        BY <1>3 DEF Reacting
    <2> QED
        BY <1>1, <1>2, <1>3, <1>4, <2>1, <2>2, NoReaction
<1>6. Delivered'
    <2> SUFFICES ASSUME NEW x \in Ids' \ (inbox \cup cut), msgs'[x].there
                 PROVE  \E q \in Procs : Delivers(q, x)'
        BY <1>4 DEF Delivered
    <2>1. CASE x = n
        BY <1>3, <2>1 DEF Delivers
    <2>2. CASE x \in Ids
        <3>1. PICK q \in Procs : Delivers(q, x)
            BY <1>2, <2>2 DEF Delivered
        <3> QED
            BY <1>3, <1>4, <3>1 DEF Delivers, Elsewhere
    <2> QED
        BY <1>2, <2>1, <2>2
<1> QED
    BY <1>5, <1>6

LEMMA RecipientsKeeps ==
    ASSUME MediaOK, MsgsOK, RoomToReact, Delivered, NEW p \in Procs, Recipients(p)
    PROVE  RoomToReact' /\ Delivered'
<1>1. /\ Elsewhere(p) /\ pc'[p] \in {"idle", "save", "file"}
    BY MoveElsewhere DEF Recipients, Goto, Finish, MediaOK
<1>2. UNCHANGED <<msgs, overlapped, cut>> /\ Ids' = Ids
    BY DEF Recipients, Ids
<1>3. inbox \subseteq inbox' /\ (msgs[req[p].x].there => req[p].x \in inbox')
    BY DEF Recipients
<1>4. RoomToReact'
    <2>1. \A x \in Ids : Len(msgs'[x].marks) \in Nat /\ Len(msgs'[x].marks) <= Len(msgs[x].marks)
        BY <1>2, MarksNat
    <2>2. pc'[p] \notin Reacting
        BY <1>1 DEF Reacting
    <2> QED
        BY <1>1, <1>2, <2>1, <2>2, NoReaction
<1>5. Delivered'
    BY <1>1, <1>2, <1>3, NothingToDeliver
<1> QED
    BY <1>4, <1>5

\* Other steps that change a message without making it be there.
LEMMA AttachKeeps ==
    ASSUME MediaOK, MsgsOK, RoomToReact, Delivered, NEW p \in Procs,
           PostAttach(p) \/ DeleteSave(p)
    PROVE  RoomToReact' /\ Delivered'
<1> DEFINE x == req[p].x
<1>1. x \in Ids /\ msgs[x] \in Message
    BY HeldTyped, IdsTyped DEF MediaOK, PostAttach, DeleteSave, Fits, OnMessage
<1>2. Elsewhere(p) /\ pc'[p] \in {"idle", "save"} /\ pc[p] # "recipients"
    BY MoveElsewhere DEF PostAttach, DeleteSave, Goto, Finish, MediaOK
<1>3. \/ msgs' = msgs
      \/ msgs' = [msgs EXCEPT ![x] = [msgs[x] EXCEPT !.file = req[p].m]]
      \/ msgs' = [msgs EXCEPT ![x] = [msgs[x] EXCEPT !.deleted = TRUE, !.fate = Fate(p, x)]]
    BY DEF PostAttach, DeleteSave
<1>4. UNCHANGED <<inbox, overlapped, cut>>
    BY DEF PostAttach, DeleteSave
<1>5. /\ Ids' = Ids
      /\ \A y \in Ids : msgs'[y].marks = msgs[y].marks /\ msgs'[y].there = msgs[y].there
    <2>1. CASE msgs' = msgs
        BY <2>1 DEF Ids
    <2>2. CASE msgs' = [msgs EXCEPT ![x] = [msgs[x] EXCEPT !.file = req[p].m]]
        BY <1>1, <2>2 DEF Ids, Message
    <2>3. CASE msgs' = [msgs EXCEPT ![x] = [msgs[x] EXCEPT !.deleted = TRUE, !.fate = Fate(p, x)]]
        BY <1>1, <2>3 DEF Ids, Message
    <2> QED
        BY <1>3, <2>1, <2>2, <2>3
<1>6. RoomToReact'
    <2>1. \A y \in Ids : Len(msgs'[y].marks) \in Nat /\ Len(msgs'[y].marks) <= Len(msgs[y].marks)
        BY <1>5, MarksNat
    <2>2. pc'[p] \notin Reacting
        BY <1>2 DEF Reacting
    <2> QED
        BY <1>2, <1>4, <1>5, <2>1, <2>2, NoReaction
<1>7. Delivered'
    BY <1>2, <1>4, <1>5, NothingToDeliver
<1> QED
    BY <1>6, <1>7

LEMMA FullSaveKeeps ==
    ASSUME MediaOK, MsgsOK, RoomToReact, Delivered, NEW p \in Procs, FullSave(p)
    PROVE  RoomToReact' /\ Delivered'
<1> DEFINE x == req[p].x
           del == req[p].deleted
           new == [msgs[x] EXCEPT !.there = TRUE, !.deleted = del,
                                  !.fate = IF del THEN Fate(p, x) ELSE @]
<1>1. x \in Ids /\ msgs[x] \in Message
    BY HeldTyped, IdsTyped DEF MediaOK, FullSave, Fits, OnMessage
<1>2. msgs' = [msgs EXCEPT ![x] = new] /\ new.marks = msgs[x].marks
    BY <1>1 DEF FullSave, Message
<1>3. /\ Ids' = Ids
      /\ \A y \in Ids : msgs'[y].marks = msgs[y].marks
      /\ \A y \in Ids \ {x} : msgs'[y] = msgs[y]
    BY <1>1, <1>2 DEF Ids
<1>4. /\ Elsewhere(p) /\ pc'[p] \in {"idle", "recipients"} /\ pc[p] = "save"
      /\ ~msgs[x].there => pc'[p] = "recipients" /\ req'[p].x = x
    <2>1. CASE msgs[x].there
        BY <2>1, MoveElsewhere DEF FullSave, Finish, MediaOK
    <2>2. CASE ~msgs[x].there
        <3>1. Elsewhere(p) /\ pc'[p] = "recipients" /\ req'[p] = [req[p] EXCEPT !.via = "again"]
            BY <2>2, MoveElsewhere DEF FullSave, MediaOK
        <3>2. [req[p] EXCEPT !.via = "again"].x = x
            BY HeldTyped DEF MediaOK, Locals
        <3> QED
            BY <3>1, <3>2 DEF Delivers, FullSave
    <2> QED
        BY <2>1, <2>2
<1>5. UNCHANGED <<inbox, overlapped, cut>>
    BY DEF FullSave
<1> HIDE DEF new, del
<1>6. RoomToReact'
    <2>1. \A y \in Ids : Len(msgs'[y].marks) \in Nat /\ Len(msgs'[y].marks) <= Len(msgs[y].marks)
        BY <1>3, MarksNat
    <2>2. pc'[p] \notin Reacting
        BY <1>4 DEF Reacting
    <2> QED
        BY <1>3, <1>4, <1>5, <2>1, <2>2, NoReaction
<1>7. Delivered'
    <2> SUFFICES ASSUME NEW y \in Ids \ (inbox \cup cut), msgs'[y].there, ~Delivers(p, y)'
                 PROVE  \E q \in Procs : Delivers(q, y)'
        BY <1>3, <1>5 DEF Delivered
    <2>1. msgs[y].there
        <3>1. CASE y = x
            BY <1>1, <1>4, <3>1 DEF Delivers, Message
        <3>2. CASE y # x
            BY <1>3, <3>2
        <3> QED
            BY <3>1, <3>2
    <2>2. PICK q \in Procs : Delivers(q, y)
        BY <2>1 DEF Delivered
    <2> QED
        BY <1>4, <2>2 DEF Delivers, Elsewhere
<1> QED
    BY <1>6, <1>7

LEMMA PurgeKeeps ==
    ASSUME MediaOK, MsgsOK, RoomToReact, Delivered, NEW p \in Procs, PurgeBatch(p)
    PROVE  RoomToReact' /\ Delivered'
<1> DEFINE batch == req[p].todo
<1>1. /\ Ids' = Ids
      /\ \A y \in Ids \ batch : msgs'[y] = msgs[y]
      /\ \A y \in Ids \cap batch : ~msgs'[y].there /\ msgs'[y].marks = <<>>
    BY MessagesCleared DEF PurgeBatch, Cleared
<1>2. Elsewhere(p) /\ pc'[p] = "list" /\ pc[p] = "purge"
    BY MoveElsewhere DEF PurgeBatch, Goto, MediaOK
<1>3. inbox' = inbox \ batch /\ UNCHANGED <<overlapped, cut>>
    BY DEF PurgeBatch
<1> HIDE DEF batch
<1>4. RoomToReact'
    <2>1. ASSUME NEW y \in Ids
          PROVE  Len(msgs'[y].marks) \in Nat /\ Len(msgs'[y].marks) <= Len(msgs[y].marks)
        <3>1. CASE y \in batch
            BY <1>1, <3>1, MarksNat, EmptySeq
        <3>2. CASE y \notin batch
            BY <1>1, <3>2, MarksNat
        <3> QED
            BY <3>1, <3>2
    <2>2. pc'[p] \notin Reacting
        BY <1>2 DEF Reacting
    <2> QED
        BY <1>1, <1>2, <1>3, <2>1, <2>2, NoReaction
<1>5. Delivered'
    <2> SUFFICES ASSUME NEW y \in Ids \ (inbox' \cup cut), msgs'[y].there
                 PROVE  \E q \in Procs : Delivers(q, y)'
        BY <1>1, <1>3 DEF Delivered
    <2>1. y \notin batch /\ msgs[y].there
        BY <1>1
    <2>2. PICK q \in Procs : Delivers(q, y)
        BY <1>3, <2>1 DEF Delivered
    <2> QED
        BY <1>2, <2>2 DEF Delivers, Elsewhere
<1> QED
    BY <1>4, <1>5

\* The steps of a reader's request once it has begun.
LEMMA ReactionGoesOn ==
    ASSUME MediaOK, MsgsOK, RoomToReact, Delivered, NEW p \in Procs, pc[p] \in Reacting,
           Elsewhere(p), pc'[p] \in Reacting => req'[p] = req[p],
           UNCHANGED <<inbox, overlapped, cut>>, Ids' = Ids,
           \A y \in Ids : msgs'[y].there = msgs[y].there,
           \A y \in Ids \ {req[p].x} : msgs'[y].marks = msgs[y].marks,
           req[p].x \notin overlapped =>
               /\ Len(msgs'[req[p].x].marks) <= MaxReactions
               /\ pc'[p] = "create" => Len(msgs'[req[p].x].marks) < MaxReactions
    PROVE  RoomToReact' /\ Delivered'
<1>1. RoomToReact'
    <2> SUFFICES ASSUME NEW y \in Ids \ overlapped
                 PROVE  /\ Len(msgs'[y].marks) <= MaxReactions
                        /\ \A r, q \in Procs : ReactsTo(r, y)' /\ ReactsTo(q, y)' => r = q
                        /\ \A q \in Procs : pc'[q] = "create" /\ req'[q].x = y =>
                                                Len(msgs'[y].marks) < MaxReactions
        BY DEF RoomToReact
    <2>1. \A q \in Procs : ReactsTo(q, y)' => ReactsTo(q, y)
        BY DEF Elsewhere, ReactsTo
    <2>2. \A q \in Procs : pc'[q] = "create" => pc'[q] \in Reacting
        BY DEF Reacting
    <2>3. /\ Len(msgs[y].marks) <= MaxReactions
          /\ \A r, q \in Procs : ReactsTo(r, y) /\ ReactsTo(q, y) => r = q
          /\ \A q \in Procs : pc[q] = "create" /\ req[q].x = y =>
                                  Len(msgs[y].marks) < MaxReactions
        BY DEF RoomToReact
    <2>4. CASE y = req[p].x
        <3>1. \A q \in Procs : ReactsTo(q, y) => q = p
            BY <2>3, <2>4 DEF ReactsTo
        <3>2. ASSUME NEW q \in Procs, pc'[q] = "create", req'[q].x = y PROVE q = p
            BY <2>1, <2>2, <3>1, <3>2 DEF ReactsTo
        <3> QED
            BY <2>1, <2>3, <2>4, <3>2
    <2>5. CASE y # req[p].x
        <3>1. msgs'[y].marks = msgs[y].marks
            BY <2>5
        <3>2. ASSUME NEW q \in Procs, pc'[q] = "create", req'[q].x = y
              PROVE  pc[q] = "create" /\ req[q].x = y
            <4>1. q # p
                BY <2>1, <2>2, <2>5, <3>2 DEF ReactsTo
            <4> QED
                BY <3>2, <4>1 DEF Elsewhere
        <3> QED
            BY <2>1, <2>3, <3>1, <3>2
    <2> QED
        BY <2>4, <2>5
<1>2. Delivered'
    <2>1. pc[p] # "recipients"
        BY DEF Reacting
    <2> QED
        BY <2>1, NothingToDeliver
<1> QED
    BY <1>1, <1>2

\* What a request of the reader reacts to, and may make of it.
LEMMA RoomNow ==
    ASSUME MediaOK, MsgsOK, RoomToReact, NEW p \in Procs, pc[p] \in Reacting
    PROVE  /\ Len(msgs[req[p].x].marks) \in Nat /\ MaxReactions \in Nat /\ MaxReactions > 0
           /\ req[p].x \notin overlapped =>
                  /\ Len(msgs[req[p].x].marks) <= MaxReactions
                  /\ pc[p] = "create" => Len(msgs[req[p].x].marks) < MaxReactions
<1>1. req[p].x \in Ids
    BY ReactingTyped
<1> QED
    BY <1>1, MarksNat, ReactionsAssumption DEF RoomToReact

LEMMA ReactQueryKeeps ==
    ASSUME MediaOK, MsgsOK, RoomToReact, Delivered, NEW p \in Procs, ReactFind(p) \/ ReactCount(p)
    PROVE  RoomToReact' /\ Delivered'
<1>1. pc[p] \in Reacting /\ pc[p] # "create" /\ UNCHANGED messageVars
    BY DEF ReactFind, ReactCount, ReactQuery, Reacting
<1>2. PICK label \in Reacting :
          /\ GoWith(p, label, req[p])
          /\ label = "create" => ~(Len(msgs[req[p].x].marks) >= MaxReactions)
    BY DEF ReactFind, ReactCount, ReactQuery, Reacting, Goto
<1>3. Elsewhere(p) /\ pc'[p] = label /\ req'[p] = req[p]
    BY <1>2, MoveElsewhere DEF MediaOK
<1>4. /\ UNCHANGED <<msgs, inbox, overlapped, cut>> /\ Ids' = Ids
    BY <1>1 DEF messageVars, Ids
<1>5. req[p].x \notin overlapped =>
          /\ Len(msgs'[req[p].x].marks) <= MaxReactions
          /\ pc'[p] = "create" => Len(msgs'[req[p].x].marks) < MaxReactions
    BY <1>1, <1>2, <1>3, <1>4, RoomNow
<1> QED
    BY <1>1, <1>3, <1>4, <1>5, ReactionGoesOn

\* The step that changes the reader's reactions.
LEMMA MarksStepKeeps ==
    ASSUME MediaOK, MsgsOK, RoomToReact, Delivered, NEW p \in Procs,
           Unreact(p) \/ DropOldest(p) \/ ReactCreate(p)
    PROVE  RoomToReact' /\ Delivered'
<1>1. pc[p] \in Reacting /\ (pc[p] = "create" <=> ReactCreate(p))
    BY DEF Unreact, DropOldest, ReactCreate, Reacting
<1>2. PICK marks : Marks(p, marks) /\ NewMarks(p, marks)
    BY MarkStepMakes
<1>3. msgs[req[p].x] \in Message /\ req[p].x \in Ids /\ marks \in Seq(Kinds)
    BY <1>1, <1>2, ReactingTyped, NewMarksTyped
<1>4. msgs' = [msgs EXCEPT ![req[p].x] = [msgs[req[p].x] EXCEPT !.marks = marks]]
    BY <1>2 DEF Marks
<1>5. /\ Ids' = Ids
      /\ msgs'[req[p].x].marks = marks
      /\ \A y \in Ids : msgs'[y].there = msgs[y].there
      /\ \A y \in Ids \ {req[p].x} : msgs'[y].marks = msgs[y].marks
    BY <1>3, <1>4 DEF Ids, Message
<1>6. UNCHANGED <<inbox, overlapped, cut>>
    BY <1>2 DEF Marks
<1>7. /\ Elsewhere(p)
      /\ (pc'[p] = "create" /\ req'[p] = req[p] /\ DropOldest(p)) \/ pc'[p] = "idle"
    BY MoveElsewhere DEF Unreact, DropOldest, ReactCreate, Goto, Finish, MediaOK
<1>8. req[p].x \notin overlapped =>
          /\ Len(msgs'[req[p].x].marks) <= MaxReactions
          /\ pc'[p] = "create" => Len(msgs'[req[p].x].marks) < MaxReactions
    <2> SUFFICES ASSUME req[p].x \notin overlapped
                 PROVE  /\ Len(marks) <= MaxReactions
                        /\ pc'[p] = "create" => Len(marks) < MaxReactions
        BY <1>5
    <2>1. /\ Len(msgs[req[p].x].marks) \in Nat /\ Len(marks) \in Nat
          /\ MaxReactions \in Nat /\ MaxReactions > 0
          /\ Len(msgs[req[p].x].marks) <= MaxReactions
          /\ pc[p] = "create" => Len(msgs[req[p].x].marks) < MaxReactions
          /\ pc[p] # "create" => Len(marks) <= Len(msgs[req[p].x].marks)
          /\ pc[p] = "create" => Len(marks) <= Len(msgs[req[p].x].marks) + 1
        BY <1>1, <1>2, RoomNow, NewMarksTyped
    <2>2. Len(marks) <= MaxReactions
        BY <2>1
    <2>3. ASSUME DropOldest(p) PROVE Len(marks) < MaxReactions
        <3> DEFINE old == msgs[req[p].x].marks
        <3>1. pc[p] = "drop_oldest"
            BY <2>3 DEF DropOldest
        <3>2. CASE old = <<>>
            <4>1. msgs' = [msgs EXCEPT ![req[p].x].marks = old]
                BY <2>3, <3>2 DEF DropOldest, Marks
            <4>2. marks = <<>>
                BY <1>3, <1>5, <3>2, <4>1 DEF Message
            <4> QED
                BY <2>1, <4>2, EmptySeq
        <3>3. CASE old # <<>>
            <4>1. msgs' = [msgs EXCEPT ![req[p].x].marks = Tail(old)]
                BY <2>3, <3>3 DEF DropOldest, Marks
            <4>2. \A t : [msgs EXCEPT ![req[p].x].marks = t][req[p].x].marks = t
                BY <1>3 DEF Message, Ids
            <4>3. marks = Tail(old)
                BY <1>5, <4>1, <4>2
            <4>4. old \in Seq(Kinds)
                BY <1>3 DEF Message
            <4>5. Len(Tail(old)) = Len(old) - 1
                BY <3>3, <4>4, HeadTailProperties
            <4>6. Len(marks) = Len(old) - 1 /\ Len(old) \in Nat /\ Len(old) <= MaxReactions
                BY <2>1, <4>3, <4>5
            <4> HIDE DEF old
            <4> QED
                BY <2>1, <4>6
        <3> QED
            BY <3>2, <3>3
    <2> QED
        BY <1>7, <2>2, <2>3
<1>9. pc'[p] \in Reacting => req'[p] = req[p]
    BY <1>7 DEF Reacting
<1> QED
    BY <1>1, <1>5, <1>6, <1>7, <1>8, <1>9, ReactionGoesOn

LEMMA ReactKeeps ==
    ASSUME MediaOK, MsgsOK, RoomToReact, Delivered, NEW p \in Procs, NEW x \in Ids,
           NEW kind \in Kinds, React(p, x, kind)
    PROVE  RoomToReact' /\ Delivered'
<1>1. Elsewhere(p) /\ pc'[p] = "find" /\ req'[p].x = x /\ pc[p] = "idle"
    <2> DEFINE r == [NoRequest EXCEPT !.x = x, !.kind = kind, !.via = "react"]
    <2>1. r.x = x
        BY DEF NoRequest
    <2>2. GoWith(p, "find", r) /\ pc[p] = "idle"
        BY DEF React, Begin
    <2> HIDE DEF r
    <2> QED
        BY <2>1, <2>2, MoveElsewhere DEF MediaOK
<1>2. UNCHANGED <<msgs, inbox, cut>> /\ Ids' = Ids
    BY DEF React, Ids
<1>3. /\ overlapped \subseteq overlapped'
      /\ x \notin overlapped' => \A q \in Procs : ~ReactsTo(q, x)
    BY DEF React, ReactsTo
<1>4. RoomToReact'
    <2> SUFFICES ASSUME NEW y \in Ids \ overlapped'
                 PROVE  /\ Len(msgs[y].marks) <= MaxReactions
                        /\ \A r, q \in Procs : ReactsTo(r, y)' /\ ReactsTo(q, y)' => r = q
                        /\ \A q \in Procs : pc'[q] = "create" /\ req'[q].x = y =>
                                                Len(msgs[y].marks) < MaxReactions
        BY <1>2 DEF RoomToReact
    <2>1. \A q \in Procs : ReactsTo(q, y)' => ReactsTo(q, y) \/ (q = p /\ y = x)
        BY <1>1 DEF Elsewhere, ReactsTo
    <2>2. \A q \in Procs : pc'[q] = "create" => pc[q] = "create" /\ req'[q] = req[q]
        BY <1>1 DEF Elsewhere
    <2>3. y \in Ids \ overlapped
        BY <1>3
    <2> QED
        BY <1>3, <2>1, <2>2, <2>3 DEF RoomToReact
<1>5. Delivered'
    BY <1>1, <1>2, NothingToDeliver
<1> QED
    BY <1>4, <1>5

\* The steps that do not touch what the invariants are about.
LEMMA QuietSteps ==
    ASSUME MediaOK, MsgsOK, NEW p \in Procs,
           \/ PostWs(p) \/ PostRest(p)
           \/ \E m \in Videos, base \in Names : PostVideo(p, m, base)
           \/ PostFile(p) \/ PostRow(p)
           \/ \E x \in Ids : EditRead(p, x) \/ DeleteRead(p, x) \/ UpdateRead(p, x)
                             \/ DestroyRead(p, x)
           \/ EditSave(p) \/ PurgeStart(p) \/ PurgeList(p) \/ PurgeFails(p)
    PROVE  Quiet(p)
<1> DEFINE Labels == {"insert", "video", "attach", "edit", "delete", "save", "list", "purge", "idle"}
<1>1. \A label \in Labels : label \notin Reacting
    BY DEF Reacting
<1>2. /\ UNCHANGED <<msgs, inbox, channel, scroll, overlapped, cut>>
      /\ pc[p] # "recipients"
      /\ \E label \in Labels : (\E r : GoWith(p, label, r)) /\ (label = "purge" => PurgeList(p))
    <2>1. CASE \/ PostWs(p) \/ PostRest(p)
               \/ \E m \in Videos, base \in Names : PostVideo(p, m, base)
        BY <2>1 DEF PostWs, PostRest, PostVideo, Post, Begin
    <2>2. CASE PostFile(p) \/ PostRow(p)
        BY <2>2 DEF PostFile, PostRow, Goto, messageVars
    <2>3. CASE \E x \in Ids : EditRead(p, x) \/ DeleteRead(p, x) \/ UpdateRead(p, x)
                              \/ DestroyRead(p, x)
        BY <2>3 DEF EditRead, DeleteRead, UpdateRead, DestroyRead, Read, Begin, messageVars
    <2>4. CASE EditSave(p) \/ PurgeStart(p) \/ PurgeList(p) \/ PurgeFails(p)
        BY <2>4 DEF EditSave, PurgeStart, PurgeList, PurgeFails, Begin, Finish, messageVars
    <2> QED
        BY <2>1, <2>2, <2>3, <2>4
<1> HIDE DEF Labels
<1> QED
    BY <1>1, <1>2, MoveElsewhere DEF Quiet, MediaOK

LEMMA CrashKeeps ==
    ASSUME MediaOK, MsgsOK, RoomToReact, Delivered, NEW p \in Procs, MessageCrash(p)
    PROVE  RoomToReact' /\ Delivered'
<1>1. Elsewhere(p) /\ pc'[p] = "idle"
    BY MoveElsewhere DEF MessageCrash, Crash, MediaOK
<1>2. UNCHANGED <<msgs, inbox, overlapped>> /\ Ids' = Ids
    BY DEF MessageCrash, Ids
<1>3. cut \subseteq cut' /\ (pc[p] = "recipients" => req[p].x \in cut')
    BY DEF MessageCrash
<1>4. RoomToReact'
    <2>1. \A x \in Ids : Len(msgs'[x].marks) \in Nat /\ Len(msgs'[x].marks) <= Len(msgs[x].marks)
        BY <1>2, MarksNat
    <2>2. pc'[p] \notin Reacting
        BY <1>1 DEF Reacting
    <2> QED
        BY <1>1, <1>2, <2>1, <2>2, NoReaction
<1>5. Delivered'
    BY <1>1, <1>2, <1>3, NothingToDeliver
<1> QED
    BY <1>4, <1>5

LEMMA RoomInit == Init => RoomToReact /\ Delivered
BY EmptySeq DEF Init, MediaInit, RoomToReact, Delivered, Ids

LEMMA RoomStep == Typed /\ RoomToReact /\ Delivered /\ [Next]_vars => RoomToReact' /\ Delivered'
<1> SUFFICES ASSUME MediaOK, MsgsOK, RoomToReact, Delivered, [Next]_vars
             PROVE  RoomToReact' /\ Delivered'
    BY DEF Typed, MediaOK
<1>1. CASE PostNext
    BY <1>1, QuietSteps, QuietKeeps, InsertKeeps, RecipientsKeeps, AttachKeeps DEF PostNext
<1>2. CASE ChangeNext
    BY <1>2, QuietSteps, QuietKeeps, AttachKeeps, FullSaveKeeps, PurgeKeeps DEF ChangeNext
<1>3. CASE ReaderNext
    <2>1. CASE \E p \in Procs :
                  \/ \E x \in Ids, kind \in Kinds : ReactWs(p, x, kind) \/ ReactRest(p, x, kind)
                  \/ ReactFind(p) \/ ReactCount(p) \/ Unreact(p) \/ DropOldest(p) \/ ReactCreate(p)
        BY <2>1, ReactKeeps, ReactQueryKeeps, MarksStepKeeps DEF ReactWs, ReactRest
    <2>2. CASE \/ \E x \in Ids : View(x)
               \/ \E way \in {"older", "messages"} : ScrollStart(way, 0)
               \/ \E cursor \in Ids : ScrollStart("newer", cursor)
               \/ OlderPage \/ NewerPage \/ MessagesPage
        BY <2>2, StillKeeps
        DEF View, ScrollStart, OlderPage, NewerPage, MessagesPage, Turn, mediaVars, proc
    <2> QED
        BY <1>3, <2>1, <2>2 DEF ReaderNext
<1>4. CASE MediaNext /\ UNCHANGED messageVars
    BY <1>4, MediaQuiet, QuietKeeps, StillKeeps DEF messageVars, MediaOK
<1>5. CASE \E p \in Procs : MessageCrash(p)
    BY <1>5, CrashKeeps
<1>6. CASE UNCHANGED vars
    BY <1>6, StillKeeps DEF vars, mediaVars, proc, messageVars
<1> QED
    BY <1>1, <1>2, <1>3, <1>4, <1>5, <1>6 DEF Next

\* No message has more than MaxReactions of the reader's reactions unless two requests
\* reacted to it at once, and every message that is there, however it came back, has its
\* recipients or a request that is making them (set_user_reaction, the post_save signal
\* that makes the recipients).
THEOREM MessagesWellFormed == Spec => []WellFormed
<1>1. Typed /\ RoomToReact /\ Delivered => WellFormed
    <2> SUFFICES ASSUME Typed, RoomToReact, Delivered PROVE WellFormed
        OBVIOUS
    <2>1. MediaTypeOK
        BY MediaDisjoint
        DEF Typed, StorageOK, PicturesOK, TasksOK, ProcsOK, MediaTypeOK
    <2> QED
        BY <2>1 DEF Typed, MsgsOK, RoomToReact, Delivered, Delivers, WellFormed
<1> QED
    BY <1>1, TypedHolds, RoomInit, RoomStep, PTL DEF Spec

-----------------------------------------------------------------------------
(* Pages.  R orders what there is on them; X is finite, so some element comes first. *)

Ordered(X, R) ==
    /\ \A x \in X : <<x, x>> \notin R
    /\ \A x, y, z \in X : <<x, y>> \in R /\ <<y, z>> \in R => <<x, z>> \in R
Ahead(x, X, R) == {y \in X : <<y, x>> \in R}
Page(X, R) == {x \in X : Cardinality(Ahead(x, X, R)) < PageSize}

LEMMA FirstOf ==
    ASSUME NEW X, IsFiniteSet(X), X # {}, NEW R, Ordered(X, R)
    PROVE  \E z \in X : \A y \in X : <<y, z>> \notin R
<1> DEFINE T == {Ahead(x, X, R) : x \in X}
<1>1. T \subseteq FiniteSubsetsOf(X) /\ T # {}
    <2>1. \A x \in X : Ahead(x, X, R) \subseteq X
        BY DEF Ahead
    <2>2. \A x \in X : IsFiniteSet(Ahead(x, X, R))
        BY <2>1, FS_Subset
    <2> QED
        BY <2>1, <2>2 DEF FiniteSubsetsOf
<1>2. IsWellFoundedOn(StrictSubsetOrdering(X), FiniteSubsetsOf(X))
    BY FS_StrictSubsetOrderingWellFounded
<1>3. PICK S \in T : \A U \in T : <<U, S>> \notin StrictSubsetOrdering(X)
    <2> HIDE DEF T
    <2> QED
        BY <1>1, <1>2, WFMin
<1>4. PICK z \in X : S = Ahead(z, X, R)
    BY <1>3
<1>5. ASSUME NEW y \in X, <<y, z>> \in R PROVE FALSE
    <2>1. Ahead(y, X, R) \subseteq Ahead(z, X, R)
        BY <1>5 DEF Ahead, Ordered
    <2>2. y \in Ahead(z, X, R) /\ y \notin Ahead(y, X, R)
        BY <1>5 DEF Ahead, Ordered
    <2>3. <<Ahead(y, X, R), Ahead(z, X, R)>> \in StrictSubsetOrdering(X)
        BY <2>1, <2>2 DEF StrictSubsetOrdering, Ahead
    <2> QED
        BY <1>3, <1>4, <2>3
<1> QED
    BY <1>5

\* What is not on the page comes after all that is; and the page is full then.
LEMMA PageOf ==
    ASSUME NEW X, IsFiniteSet(X), NEW R, Ordered(X, R),
           \A x, y \in X : x # y => <<x, y>> \in R \/ <<y, x>> \in R
    PROVE  /\ \A x \in X \ Page(X, R) : \A y \in Page(X, R) : <<y, x>> \in R
           /\ X \ Page(X, R) # {} => Cardinality(Page(X, R)) >= PageSize
           /\ IsFiniteSet(Page(X, R)) /\ Cardinality(Page(X, R)) \in Nat
<1>1. /\ \A x \in X : IsFiniteSet(Ahead(x, X, R)) /\ Cardinality(Ahead(x, X, R)) \in Nat
      /\ IsFiniteSet(Page(X, R)) /\ Cardinality(Page(X, R)) \in Nat
    <2>1. Page(X, R) \subseteq X /\ \A x \in X : Ahead(x, X, R) \subseteq X
        BY DEF Ahead, Page
    <2> QED
        BY <2>1, FS_Subset, FS_CardinalityType
<1>2. ASSUME NEW x \in X \ Page(X, R), NEW y \in Page(X, R), <<x, y>> \in R
      PROVE  FALSE
    <2>1. y \in X /\ Cardinality(Ahead(y, X, R)) < PageSize
        BY DEF Page
    <2>2. Ahead(x, X, R) \subseteq Ahead(y, X, R)
        BY <1>2, <2>1 DEF Ahead, Ordered
    <2>3. Cardinality(Ahead(x, X, R)) <= Cardinality(Ahead(y, X, R))
        BY <1>1, <2>1, <2>2, FS_Subset
    <2>4. Cardinality(Ahead(x, X, R)) < PageSize
        BY <1>1, <2>1, <2>3, PageAssumption
    <2> QED
        BY <2>4 DEF Page
<1>3. ASSUME NEW x \in X \ Page(X, R), NEW y \in Page(X, R)
      PROVE  <<y, x>> \in R
    <2>1. y \in X /\ x # y
        BY DEF Page
    <2> QED
        BY <1>2, <2>1
<1>4. ASSUME X \ Page(X, R) # {} PROVE Cardinality(Page(X, R)) >= PageSize
    <2> DEFINE N == X \ Page(X, R)
    <2>1. IsFiniteSet(N) /\ Ordered(N, R)
        <3>1. N \subseteq X
            OBVIOUS
        <3> HIDE DEF N
        <3> QED
            BY <3>1, FS_Subset DEF Ordered
    <2>2. PICK z \in N : \A y \in N : <<y, z>> \notin R
        <3> HIDE DEF N
        <3> QED
            BY <1>4, <2>1, FirstOf DEF N
    <2>3. Ahead(z, X, R) \subseteq Page(X, R)
        BY <2>2 DEF Ahead
    <2>4. Cardinality(Ahead(z, X, R)) <= Cardinality(Page(X, R))
        BY <1>1, <2>3, FS_Subset
    <2>5. ~(Cardinality(Ahead(z, X, R)) < PageSize)
        BY <2>2 DEF Page
    <2> QED
        BY <1>1, <2>4, <2>5, PageAssumption
<1> QED
    BY <1>1, <1>3, <1>4

Later(X) == {e \in X \X X : msgs[e[1]].stamp > msgs[e[2]].stamp}
Sooner(X) == {e \in X \X X : msgs[e[1]].stamp < msgs[e[2]].stamp}

LEMMA DatesOrder ==
    ASSUME MsgsOK, NEW X, X \subseteq Ids
    PROVE  /\ IsFiniteSet(X)
           /\ Ordered(X, Later(X)) /\ Ordered(X, Sooner(X))
           /\ Latest(X) = Page(X, Later(X)) /\ Earliest(X) = Page(X, Sooner(X))
           /\ InDateOrder => \A x, y \in X : /\ <<x, y>> \in Later(X) <=> x > y
                                             /\ <<x, y>> \in Sooner(X) <=> x < y
<1>1. Ids = 1..Len(msgs) /\ Len(msgs) \in Nat /\ \A x \in Ids : msgs[x].stamp \in Nat
    BY IdsTyped DEF Message
<1>2. IsFiniteSet(X)
    <2>1. IsFiniteSet(1..Len(msgs))
        BY <1>1, FS_Interval
    <2> QED
        BY <1>1, <2>1, FS_Subset
<1>3. \A x \in X : x \in Nat /\ msgs[x].stamp \in Nat
    BY <1>1
<1>4. \A x, y \in X : /\ <<x, y>> \in Later(X) <=> msgs[x].stamp > msgs[y].stamp
                      /\ <<x, y>> \in Sooner(X) <=> msgs[x].stamp < msgs[y].stamp
    BY DEF Later, Sooner
<1>5. Ordered(X, Later(X)) /\ Ordered(X, Sooner(X))
    BY <1>3, <1>4 DEF Ordered
<1>6. Latest(X) = Page(X, Later(X)) /\ Earliest(X) = Page(X, Sooner(X))
    <2>1. \A x \in X : /\ Ahead(x, X, Later(X)) = {y \in X : msgs[y].stamp > msgs[x].stamp}
                       /\ Ahead(x, X, Sooner(X)) = {y \in X : msgs[y].stamp < msgs[x].stamp}
        BY <1>4 DEF Ahead
    <2> QED
        BY <2>1 DEF Latest, Earliest, Page
<1>7. InDateOrder => \A x, y \in X : /\ <<x, y>> \in Later(X) <=> x > y
                                     /\ <<x, y>> \in Sooner(X) <=> x < y
    <2> SUFFICES ASSUME InDateOrder, NEW x \in X, NEW y \in X
                 PROVE  /\ msgs[x].stamp > msgs[y].stamp <=> x > y
                        /\ msgs[x].stamp < msgs[y].stamp <=> x < y
        BY <1>4
    <2>1. /\ x < y => msgs[x].stamp < msgs[y].stamp
          /\ y < x => msgs[y].stamp < msgs[x].stamp
        BY DEF InDateOrder
    <2> QED
        BY <1>3, <2>1
<1> QED
    BY <1>2, <1>5, <1>6, <1>7

\* Where the next page begins is on this one, if there is anything on it.
LEMMA EndsOf ==
    ASSUME MsgsOK, NEW P, P \subseteq Ids, P # {}
    PROVE  First(P) \in P /\ Last(P) \in P
<1>1. \A x \in P : x \in Nat /\ msgs[x].stamp \in Nat
    BY IdsTyped DEF Message
<1>2. IsFiniteSet(P) /\ Ordered(P, Later(P)) /\ Ordered(P, Sooner(P))
    BY DatesOrder
<1>3. \E z \in P : \A y \in P : msgs[z].stamp <= msgs[y].stamp
    <2>1. PICK z \in P : \A y \in P : <<y, z>> \notin Sooner(P)
        BY <1>2, FirstOf
    <2>2. \A y \in P : <<y, z>> \in Sooner(P) <=> msgs[y].stamp < msgs[z].stamp
        BY DEF Sooner
    <2>3. \A y \in P : ~(msgs[y].stamp < msgs[z].stamp)
        BY <2>1, <2>2
    <2> QED
        BY <1>1, <2>3
<1>4. \E z \in P : \A y \in P : msgs[z].stamp >= msgs[y].stamp
    <2>1. PICK z \in P : \A y \in P : <<y, z>> \notin Later(P)
        BY <1>2, FirstOf
    <2>2. \A y \in P : <<y, z>> \in Later(P) <=> msgs[y].stamp > msgs[z].stamp
        BY DEF Later
    <2>3. \A y \in P : ~(msgs[y].stamp > msgs[z].stamp)
        BY <2>1, <2>2
    <2> QED
        BY <1>1, <2>3
<1> QED
    BY <1>3, <1>4 DEF First, Last

\* A page has the messages nearest to the cursor, and all of them unless it is full.
LEMMA PagesInOrder ==
    ASSUME MsgsOK, NEW X, X \subseteq Ids
    PROVE  /\ Latest(X) \subseteq X /\ Earliest(X) \subseteq X
           /\ Cardinality(Latest(X)) \in Nat /\ Cardinality(Earliest(X)) \in Nat
           /\ Latest(X) = {} => Cardinality(Latest(X)) = 0
           /\ Earliest(X) = {} => Cardinality(Earliest(X)) = 0
           /\ InDateOrder =>
                 /\ \A x \in X \ Latest(X) : \A y \in Latest(X) : x < y
                 /\ X \ Latest(X) # {} => Cardinality(Latest(X)) >= PageSize
                 /\ \A x \in X \ Earliest(X) : \A y \in Earliest(X) : x > y
                 /\ X \ Earliest(X) # {} => Cardinality(Earliest(X)) >= PageSize
<1>1. /\ IsFiniteSet(X) /\ Ordered(X, Later(X)) /\ Ordered(X, Sooner(X))
      /\ Latest(X) = Page(X, Later(X)) /\ Earliest(X) = Page(X, Sooner(X))
      /\ InDateOrder => \A x, y \in X : /\ <<x, y>> \in Later(X) <=> x > y
                                        /\ <<x, y>> \in Sooner(X) <=> x < y
    BY DatesOrder
<1>2. Latest(X) \subseteq X /\ Earliest(X) \subseteq X
    BY DEF Latest, Earliest
<1>3. /\ IsFiniteSet(Latest(X)) /\ IsFiniteSet(Earliest(X))
      /\ Cardinality(Latest(X)) \in Nat /\ Cardinality(Earliest(X)) \in Nat
    BY <1>1, <1>2, FS_Subset, FS_CardinalityType
<1>4. /\ Latest(X) = {} => Cardinality(Latest(X)) = 0
      /\ Earliest(X) = {} => Cardinality(Earliest(X)) = 0
    BY FS_EmptySet
<1>5. ASSUME InDateOrder
      PROVE  /\ \A x \in X \ Latest(X) : \A y \in Latest(X) : x < y
             /\ X \ Latest(X) # {} => Cardinality(Latest(X)) >= PageSize
             /\ \A x \in X \ Earliest(X) : \A y \in Earliest(X) : x > y
             /\ X \ Earliest(X) # {} => Cardinality(Earliest(X)) >= PageSize
    <2>1. \A x \in X : x \in Nat
        BY IdsTyped
    <2>2. \A x, y \in X : x # y => /\ <<x, y>> \in Later(X) \/ <<y, x>> \in Later(X)
                                   /\ <<x, y>> \in Sooner(X) \/ <<y, x>> \in Sooner(X)
        BY <1>1, <1>5, <2>1
    <2>3. /\ \A x \in X \ Latest(X) : \A y \in Latest(X) : <<y, x>> \in Later(X)
          /\ X \ Latest(X) # {} => Cardinality(Latest(X)) >= PageSize
        BY <1>1, <2>2, PageOf
    <2>4. /\ \A x \in X \ Earliest(X) : \A y \in Earliest(X) : <<y, x>> \in Sooner(X)
          /\ X \ Earliest(X) # {} => Cardinality(Earliest(X)) >= PageSize
        BY <1>1, <2>2, PageOf
    <2> QED
        BY <1>1, <1>2, <1>5, <2>1, <2>3, <2>4
<1> QED
    BY <1>2, <1>3, <1>4, <1>5

-----------------------------------------------------------------------------
(* Who pages through the chat.  A message that nobody deleted is there and stays    *)
(* shown to who was shown it; as long as ids follow dates, what the client has not  *)
(* got of what it was owed is still ahead of its cursor.                            *)

Owed == {x \in scroll.owed : msgs[x].fate = "kept"}
ToCome(x) == IF scroll.way = "newer" THEN x > scroll.cursor
                                     ELSE scroll.cursor = 0 \/ x < scroll.cursor

KeptAlive ==
    /\ \A x \in Ids : msgs[x].fate = "kept" => Live(x)
    /\ \A q \in Procs : pc[q] = "purge" => \A x \in req[q].todo : msgs[x].fate # "kept"
ScrollOK ==
    /\ scroll \in [way : {"none", "older", "newer", "messages"}, cursor : Nat,
                   got : SUBSET Nat, owed : SUBSET Nat, done : BOOLEAN]
    /\ scroll.owed \subseteq Ids
OwedShown == \A x \in Owed : channel \/ scroll.way = "messages" \/ x \in inbox
OwedAhead == InDateOrder => \A x \in Owed \ scroll.got : ~scroll.done /\ ToCome(x)
PagesInv == KeptAlive /\ ScrollOK /\ OwedShown /\ OwedAhead

\* A step that is not the client's: dates stay, a message that was deleted remains so, and
\* what nobody deleted stays with its recipients.
Apace(p) ==
    /\ UNCHANGED <<scroll, channel>> /\ Elsewhere(p) /\ Ids \subseteq Ids'
    /\ \A x \in Ids : /\ msgs'[x].stamp = msgs[x].stamp
                      /\ msgs'[x].fate = "kept" => /\ msgs[x].fate = "kept"
                                                   /\ Live(x) => Live(x)'
                                                   /\ x \in inbox => x \in inbox'
    /\ \A x \in Ids' \ Ids : Live(x)'
    /\ pc'[p] = "purge" => \A x \in req'[p].todo : msgs'[x].fate # "kept"

LEMMA ApaceKeeps ==
    ASSUME MediaOK, MsgsOK, PagesInv, NEW p \in Procs, Apace(p)
    PROVE  PagesInv'
<1>1. KeptAlive'
    <2>1. \A x \in Ids' : msgs'[x].fate = "kept" => Live(x)'
        BY DEF Apace, PagesInv, KeptAlive
    <2>2. ASSUME NEW q \in Procs, pc'[q] = "purge", NEW x \in req'[q].todo
          PROVE  msgs'[x].fate # "kept"
        <3>1. CASE q = p
            BY <2>2, <3>1 DEF Apace
        <3>2. CASE q # p
            <4>1. pc[q] = "purge" /\ x \in req[q].todo
                BY <2>2, <3>2 DEF Apace, Elsewhere
            <4>2. x \in Ids
                BY <4>1, HeldTyped DEF MediaOK, Fits
            <4> QED
                BY <4>1, <4>2 DEF Apace, PagesInv, KeptAlive
        <3> QED
            BY <3>1, <3>2
    <2> QED
        BY <2>1, <2>2 DEF KeptAlive
<1>2. ScrollOK'
    BY DEF Apace, PagesInv, ScrollOK
<1>3. Owed' \subseteq Owed /\ Owed \subseteq Ids
    BY DEF Apace, PagesInv, ScrollOK, Owed
<1>4. OwedShown'
    BY <1>3 DEF Apace, PagesInv, OwedShown, Owed
<1>5. InDateOrder' => InDateOrder
    BY DEF Apace, InDateOrder
<1>6. OwedAhead'
    BY <1>3, <1>5 DEF Apace, PagesInv, OwedAhead, ToCome
<1> QED
    BY <1>1, <1>2, <1>4, <1>6 DEF PagesInv

LEMMA StillApace ==
    ASSUME PagesInv, UNCHANGED <<msgs, inbox, channel, scroll, pc, req>>
    PROVE  PagesInv'
BY DEF PagesInv, KeptAlive, ScrollOK, OwedShown, OwedAhead, Owed, ToCome, Ids, Live, InDateOrder

LEMMA QuietApace ==
    ASSUME MediaOK, PagesInv, NEW p \in Procs, Quiet(p)
    PROVE  Apace(p)
<1>1. Ids' = Ids /\ UNCHANGED <<msgs, inbox, channel, scroll>> /\ Elsewhere(p)
    BY DEF Quiet, Ids
<1>2. ASSUME pc'[p] = "purge", NEW x \in req'[p].todo PROVE msgs[x].fate # "kept"
    <2> DEFINE batch == {y \in Ids : msgs[y].there /\ msgs[y].deleted}
    <2>1. PurgeList(p)
        BY <1>2 DEF Quiet
    <2>2. GoWith(p, "idle", NoRequest) \/ GoWith(p, "purge", [req[p] EXCEPT !.todo = batch])
        BY <2>1 DEF PurgeList, Finish
    <2>3. req'[p] = [req[p] EXCEPT !.todo = batch]
        BY <1>2, <2>2, MoveElsewhere DEF MediaOK
    <2>4. req'[p].todo = batch
        BY <2>3, HeldTyped DEF MediaOK, Locals
    <2> QED
        BY <1>2, <2>4 DEF PagesInv, KeptAlive, Live
<1> QED
    BY <1>1, <1>2 DEF Apace, Live

LEMMA ReactApace ==
    ASSUME MediaOK, MsgsOK, PagesInv, NEW p \in Procs,
           \/ \E x \in Ids, kind \in Kinds : React(p, x, kind)
           \/ ReactFind(p) \/ ReactCount(p) \/ MessageCrash(p) \/ Recipients(p)
    PROVE  Apace(p)
<1> DEFINE Labels == Reacting \cup {"idle", "save", "file"}
<1>1. /\ UNCHANGED <<msgs, channel, scroll>> /\ Ids' = Ids /\ inbox \subseteq inbox'
      /\ \E label \in Labels : \E r : GoWith(p, label, r)
    BY DEF React, Begin, ReactFind, ReactCount, ReactQuery, Goto, MessageCrash, Crash, Recipients,
       Finish, messageVars, Ids, Reacting
<1>2. \A label \in Labels : label # "purge"
    BY DEF Reacting
<1> HIDE DEF Labels
<1>3. Elsewhere(p) /\ pc'[p] # "purge"
    BY <1>1, <1>2, MoveElsewhere DEF MediaOK
<1> QED
    BY <1>1, <1>3 DEF Apace, Live

LEMMA InsertApace ==
    ASSUME MediaOK, MsgsOK, NEW p \in Procs, Insert(p)
    PROVE  Apace(p)
<1> DEFINE n == Len(msgs) + 1
           new == NewMessage(req[p].at)
<1>1. new \in Message /\ new.there /\ ~new.deleted
    BY HeldTyped, EmptySeq DEF MediaOK, NewMessage, Message
<1>2. /\ Ids' = Ids \cup {n} /\ n \notin Ids
      /\ \A y \in Ids : msgs'[y] = msgs[y]
      /\ msgs'[n] = new
    BY <1>1, MessageAdded DEF Insert
<1>3. Elsewhere(p) /\ pc'[p] = "recipients" /\ UNCHANGED <<inbox, channel, scroll>>
    BY MoveElsewhere DEF Insert, MediaOK
<1> HIDE DEF n, new
<1> QED
    BY <1>1, <1>2, <1>3 DEF Apace, Live

LEMMA ChangeApace ==
    ASSUME MediaOK, MsgsOK, NEW p \in Procs,
           \/ PostAttach(p) \/ DeleteSave(p) \/ FullSave(p)
           \/ Unreact(p) \/ DropOldest(p) \/ ReactCreate(p)
    PROVE  Apace(p)
<1> DEFINE x == req[p].x
           old == msgs[x]
           del == req[p].deleted
<1>1. x \in Ids /\ old \in Message /\ del \in BOOLEAN
    BY HeldTyped, IdsTyped
    DEF MediaOK, PostAttach, DeleteSave, FullSave, Unreact, DropOldest, ReactCreate, Fits, OnMessage,
        Reacting
<1>2. UNCHANGED <<inbox, channel, scroll>>
    BY MarkStepMakes DEF PostAttach, DeleteSave, FullSave, Marks
<1>3. Elsewhere(p) /\ pc'[p] # "purge"
    <2>1. PICK label \in {"idle", "save", "recipients", "create"} : \E r : GoWith(p, label, r)
        BY DEF PostAttach, DeleteSave, FullSave, Unreact, DropOldest, ReactCreate, Goto, Finish
    <2> QED
        BY <2>1, MoveElsewhere DEF MediaOK
<1>4. \/ msgs' = msgs
      \/ \E m : msgs' = [msgs EXCEPT ![x] = [old EXCEPT !.file = m]]
      \/ \E marks : msgs' = [msgs EXCEPT ![x] = [old EXCEPT !.marks = marks]]
      \/ \E fate \in {"disputed", "erased"} : \E there, deleted :
             msgs' = [msgs EXCEPT ![x] = [old EXCEPT !.there = there, !.deleted = deleted,
                                                     !.fate = fate]]
      \/ msgs' = [msgs EXCEPT ![x] = [old EXCEPT !.there = TRUE, !.deleted = FALSE]]
    <2>1. Fate(p, x) \in {"disputed", "erased"}
        BY DEF Fate
    <2>2. CASE PostAttach(p)
        BY <2>2 DEF PostAttach
    <2>3. CASE DeleteSave(p)
        <3>1. CASE ~old.there
            BY <2>3, <3>1 DEF DeleteSave
        <3>2. CASE old.there
            <4> DEFINE new == [old EXCEPT !.there = TRUE, !.deleted = TRUE, !.fate = Fate(p, x)]
            <4>1. new = [old EXCEPT !.deleted = TRUE, !.fate = Fate(p, x)]
                BY <1>1, <3>2 DEF Message
            <4>2. msgs' = [msgs EXCEPT ![x] = [old EXCEPT !.deleted = TRUE, !.fate = Fate(p, x)]]
                BY <2>3, <3>2 DEF DeleteSave
            <4>3. msgs' = [msgs EXCEPT ![x] = new]
                BY <4>1, <4>2
            <4> QED
                BY <2>1, <4>3
        <3> QED
            BY <3>1, <3>2
    <2>4. CASE FullSave(p)
        <3> DEFINE new == [old EXCEPT !.there = TRUE, !.deleted = del,
                                      !.fate = IF del THEN Fate(p, x) ELSE @]
        <3>1. msgs' = [msgs EXCEPT ![x] = new]
            BY <2>4 DEF FullSave
        <3>2. CASE del
            <4>1. new = [old EXCEPT !.there = TRUE, !.deleted = TRUE, !.fate = Fate(p, x)]
                BY <1>1, <3>2 DEF Message
            <4> HIDE DEF new
            <4> QED
                BY <2>1, <3>1, <4>1
        <3>3. CASE ~del
            <4>1. new = [old EXCEPT !.there = TRUE, !.deleted = FALSE]
                BY <1>1, <3>3 DEF Message
            <4> HIDE DEF new
            <4> QED
                BY <3>1, <4>1
        <3> QED
            BY <3>2, <3>3
    <2>5. CASE Unreact(p) \/ DropOldest(p) \/ ReactCreate(p)
        <3>1. PICK marks : Marks(p, marks)
            BY <2>5, MarkStepMakes
        <3> QED
            BY <3>1 DEF Marks
    <2> QED
        BY <2>2, <2>3, <2>4, <2>5
<1> HIDE DEF x, del
<1> DEFINE Fine == /\ Ids' = Ids
                   /\ \A y \in Ids : /\ msgs'[y].stamp = msgs[y].stamp
                                     /\ msgs'[y].fate = "kept" => /\ msgs[y].fate = "kept"
                                                                  /\ Live(y) => Live(y)'
<1>5. Fine
    <2>1. CASE msgs' = msgs
        BY <2>1 DEF Ids, Live
    <2>2. ASSUME NEW new, msgs' = [msgs EXCEPT ![x] = new], new.stamp = old.stamp,
                 new.fate = "kept" => /\ old.fate = "kept"
                                      /\ old.there /\ ~old.deleted => new.there /\ ~new.deleted
          PROVE  Fine
        <3>1. Ids' = Ids /\ \A y \in Ids : msgs'[y] = IF y = x THEN new ELSE msgs[y]
            BY <1>1, <2>2 DEF Ids
        <3> QED
            BY <2>2, <3>1 DEF Live
    <2>3. ASSUME NEW m, msgs' = [msgs EXCEPT ![x] = [old EXCEPT !.file = m]]
          PROVE  Fine
        BY <1>1, <2>2, <2>3 DEF Message
    <2>4. ASSUME NEW marks, msgs' = [msgs EXCEPT ![x] = [old EXCEPT !.marks = marks]]
          PROVE  Fine
        BY <1>1, <2>2, <2>4 DEF Message
    <2>5. ASSUME NEW fate \in {"disputed", "erased"}, NEW there, NEW deleted,
                 msgs' = [msgs EXCEPT ![x] = [old EXCEPT !.there = there, !.deleted = deleted,
                                                         !.fate = fate]]
          PROVE  Fine
        BY <1>1, <2>2, <2>5 DEF Message
    <2>6. ASSUME msgs' = [msgs EXCEPT ![x] = [old EXCEPT !.there = TRUE, !.deleted = FALSE]]
          PROVE  Fine
        BY <1>1, <2>2, <2>6 DEF Message
    <2> QED
        BY <1>4, <2>1, <2>3, <2>4, <2>5, <2>6
<1> QED
    BY <1>2, <1>3, <1>5 DEF Apace

LEMMA PurgeApace ==
    ASSUME MediaOK, MsgsOK, PagesInv, NEW p \in Procs, PurgeBatch(p)
    PROVE  Apace(p)
<1> DEFINE batch == req[p].todo
<1>1. /\ Ids' = Ids
      /\ \A y \in Ids \ batch : msgs'[y] = msgs[y]
      /\ \A y \in Ids : msgs'[y].fate = msgs[y].fate /\ msgs'[y].stamp = msgs[y].stamp
    BY MessagesCleared DEF PurgeBatch, Cleared
<1>2. Elsewhere(p) /\ pc'[p] = "list" /\ inbox' = inbox \ batch /\ UNCHANGED <<channel, scroll>>
    BY MoveElsewhere DEF PurgeBatch, Goto, MediaOK
<1>3. \A x \in batch : msgs[x].fate # "kept"
    BY DEF PurgeBatch, PagesInv, KeptAlive
<1> HIDE DEF batch
<1> QED
    BY <1>1, <1>2, <1>3 DEF Apace, Live

\* The client's own steps.
LEMMA ScrollStartPages ==
    ASSUME MsgsOK, PagesInv,
           \/ \E way \in {"older", "messages"} : ScrollStart(way, 0)
           \/ \E cursor \in Ids : ScrollStart("newer", cursor)
    PROVE  PagesInv'
<1>1. PICK way \in {"older", "newer", "messages"} : \E cursor :
          /\ ScrollStart(way, cursor)
          /\ IF way = "newer" THEN cursor \in Ids ELSE cursor = 0
    OBVIOUS
<1>2. PICK cursor : /\ ScrollStart(way, cursor)
                    /\ IF way = "newer" THEN cursor \in Ids ELSE cursor = 0
    BY <1>1
<1> DEFINE owed == {x \in Shown(way) : x > cursor}
           new == [NoScroll EXCEPT !.way = way, !.cursor = cursor, !.owed = owed]
<1>3. scroll' = new /\ UNCHANGED <<msgs, inbox, channel, pc, req>> /\ cursor \in Nat
    <2>1. cursor \in Nat
        BY <1>2, IdsTyped
    <2>2. scroll' = new /\ UNCHANGED <<msgs, inbox, channel, pc, req>>
        BY <1>2 DEF ScrollStart
    <2> QED
        BY <2>1, <2>2
<1>4. /\ new.way = way /\ new.cursor = cursor /\ new.owed = owed /\ new.got = {} /\ ~new.done
      /\ owed \subseteq Ids /\ Ids \subseteq Nat
    BY IdsTyped DEF NoScroll, Shown
<1>5. new \in [way : {"none", "older", "newer", "messages"}, cursor : Nat,
               got : SUBSET Nat, owed : SUBSET Nat, done : BOOLEAN]
    <2> HIDE DEF owed
    <2> QED
        BY <1>3, <1>4 DEF NoScroll
<1> HIDE DEF new
<1>6. KeptAlive' /\ ScrollOK'
    BY <1>3, <1>4, <1>5 DEF PagesInv, KeptAlive, ScrollOK, Live, Ids
<1>7. OwedShown'
    BY <1>3, <1>4 DEF OwedShown, Owed, Shown
<1>8. OwedAhead'
    BY <1>2, <1>3, <1>4 DEF OwedAhead, Owed, ToCome
<1> QED
    BY <1>6, <1>7, <1>8 DEF PagesInv

\* A page on which is what of X is nearest to the cursor; X is what the client may still
\* be shown, and nothing of X is beyond the cursor that follows.
LEMMA TurnPages ==
    ASSUME MsgsOK, PagesInv, NEW page, NEW last \in BOOLEAN, NEW next, Turn(page, last, next),
           page \subseteq Ids, ~last => next \in Nat,
           InDateOrder => \A x \in Owed \ scroll.got :
               \/ x \in page
               \/ ~last /\ IF scroll.way = "newer" THEN x > next ELSE x < next
    PROVE  PagesInv'
<1> DEFINE new == [scroll EXCEPT !.got = @ \cup page, !.done = last,
                                 !.cursor = IF last THEN @ ELSE next]
<1>1. scroll' = new /\ UNCHANGED <<msgs, inbox, channel, pc, req>>
    BY DEF Turn, mediaVars, proc
<1>2. /\ new.way = scroll.way /\ new.owed = scroll.owed
      /\ new.got = scroll.got \cup page /\ new.done = last
      /\ new.cursor = IF last THEN scroll.cursor ELSE next
    BY DEF PagesInv, ScrollOK
<1>3. new \in [way : {"none", "older", "newer", "messages"}, cursor : Nat,
               got : SUBSET Nat, owed : SUBSET Nat, done : BOOLEAN]
    <2>1. page \subseteq Nat
        BY IdsTyped
    <2>2. (IF last THEN scroll.cursor ELSE next) \in Nat
        BY DEF PagesInv, ScrollOK
    <2> QED
        BY <2>1, <2>2 DEF PagesInv, ScrollOK
<1> HIDE DEF new
<1>4. KeptAlive' /\ ScrollOK' /\ Owed' = Owed
    BY <1>1, <1>2, <1>3 DEF PagesInv, KeptAlive, ScrollOK, Live, Ids, Owed
<1>5. OwedShown'
    BY <1>1, <1>2, <1>4 DEF PagesInv, OwedShown
<1>6. OwedAhead'
    <2> SUFFICES ASSUME InDateOrder, NEW x \in Owed, x \notin scroll.got \cup page
                 PROVE  ~last /\ ToCome(x)'
        BY <1>1, <1>2, <1>4 DEF OwedAhead, InDateOrder, Ids
    <2> QED
        BY <1>1, <1>2 DEF ToCome
<1> QED
    BY <1>4, <1>5, <1>6 DEF PagesInv

\* What the client is still owed is on one of the pages to come.
LEMMA OwedBefore ==
    ASSUME MsgsOK, PagesInv, InDateOrder, NEW x \in Owed \ scroll.got
    PROVE  /\ scroll.way \in {"older", "messages"} => x \in Before
           /\ scroll.way = "newer" => x \in {y \in Shown("newer") : y > scroll.cursor}
<1>1. x \in Ids /\ Live(x) /\ ToCome(x) /\ (channel \/ scroll.way = "messages" \/ x \in inbox)
    BY DEF PagesInv, ScrollOK, KeptAlive, OwedShown, OwedAhead, Owed
<1> QED
    BY <1>1 DEF ToCome, Before, Shown

LEMMA OlderPages ==
    ASSUME MsgsOK, PagesInv, OlderPage \/ MessagesPage
    PROVE  PagesInv'
<1> DEFINE page == Latest(Before)
<1>1. Before \subseteq Ids
    BY DEF Before, Shown
<1>2. /\ page \subseteq Before /\ Cardinality(page) \in Nat
      /\ page = {} => Cardinality(page) = 0
      /\ InDateOrder => /\ \A x \in Before \ page : \A y \in page : x < y
                        /\ Before \ page # {} => Cardinality(page) >= PageSize
    BY <1>1, PagesInOrder
<1>3. page \subseteq Ids /\ Ids \subseteq Nat
    BY <1>1, <1>2, IdsTyped
<1>4. page # {} => First(page) \in page /\ Last(page) \in page
    BY <1>3, EndsOf
<1>5. Cardinality(page) >= PageSize => page # {} /\ ~(Cardinality(page) < PageSize)
    BY <1>2, PageAssumption
<1>6. scroll.way \in {"older", "messages"} /\ \A last \in BOOLEAN : \A next :
          /\ Turn(page, last, next) /\ (~last => next \in page)
          /\ (page = {} => last) /\ (last => page = {} \/ Cardinality(page) < PageSize)
          => PagesInv'
    <2>1. scroll.way \in {"older", "messages"}
        BY DEF OlderPage, MessagesPage
    <2> SUFFICES ASSUME NEW last \in BOOLEAN, NEW next, Turn(page, last, next),
                        ~last => next \in page,
                        last => page = {} \/ Cardinality(page) < PageSize
                 PROVE  PagesInv'
        BY <2>1
    <2>2. ASSUME InDateOrder, NEW x \in Owed \ scroll.got, x \notin page
          PROVE  ~last /\ x < next
        <3>1. x \in Before \ page
            BY <2>1, <2>2, OwedBefore
        <3>2. page # {} /\ ~(Cardinality(page) < PageSize)
            BY <1>2, <1>5, <2>2, <3>1
        <3> QED
            BY <1>2, <2>2, <3>1, <3>2
    <2> HIDE DEF page
    <2> QED
        BY <1>3, <2>1, <2>2, TurnPages
<1>7. CASE OlderPage
    <2> DEFINE last == Cardinality(page) < PageSize
    <2>1. Turn(page, last, First(page)) /\ last \in BOOLEAN
        BY <1>7 DEF OlderPage
    <2>2. page = {} => last
        BY <1>2, PageAssumption
    <2> HIDE DEF page
    <2> QED
        BY <1>4, <1>6, <2>1, <2>2
<1>8. CASE MessagesPage
    <2>1. Turn(page, page = {}, Last(page))
        BY <1>8 DEF MessagesPage
    <2> HIDE DEF page
    <2> QED
        BY <1>4, <1>6, <2>1
<1> QED
    BY <1>7, <1>8

LEMMA NewerPages ==
    ASSUME MsgsOK, PagesInv, NewerPage
    PROVE  PagesInv'
<1> DEFINE After == {x \in Shown("newer") : x > scroll.cursor}
           page == Earliest(After)
           last == Cardinality(page) < PageSize
<1>1. scroll.way = "newer" /\ Turn(page, last, Last(page)) /\ last \in BOOLEAN
    BY DEF NewerPage
<1>2. After \subseteq Ids
    BY DEF Shown
<1>3. \A x \in Owed \ scroll.got : InDateOrder => x \in After
    BY <1>1, OwedBefore
<1> HIDE DEF After
<1>4. /\ page \subseteq After /\ Cardinality(page) \in Nat
      /\ page = {} => Cardinality(page) = 0
      /\ InDateOrder => /\ \A x \in After \ page : \A y \in page : x > y
                        /\ After \ page # {} => Cardinality(page) >= PageSize
    BY <1>2, PagesInOrder
<1>5. page \subseteq Ids /\ Ids \subseteq Nat
    BY <1>2, <1>4, IdsTyped
<1>6. ~last => Last(page) \in page
    <2>1. ~last => page # {}
        BY <1>4, PageAssumption
    <2> HIDE DEF page
    <2> QED
        BY <1>5, <2>1, EndsOf
<1>7. ASSUME InDateOrder, NEW x \in Owed \ scroll.got, x \notin page
      PROVE  ~last /\ x > Last(page)
    <2>1. x \in After \ page
        BY <1>3, <1>7
    <2>2. ~last
        BY <1>4, <1>7, <2>1, PageAssumption
    <2> QED
        BY <1>4, <1>6, <1>7, <2>1, <2>2
<1> HIDE DEF page, last
<1> QED
    BY <1>1, <1>5, <1>6, <1>7, TurnPages

LEMMA PagesInit == Init => PagesInv
<1> SUFFICES ASSUME Init PROVE PagesInv
    OBVIOUS
<1>1. msgs = <<>> /\ Ids = {} /\ scroll = NoScroll /\ \A q \in Procs : pc[q] = "idle"
    BY EmptySeq DEF Init, MediaInit, Ids
<1> QED
    BY <1>1 DEF NoScroll, PagesInv, KeptAlive, ScrollOK, OwedShown, OwedAhead, Owed

LEMMA PagesStep == Typed /\ PagesInv /\ [Next]_vars => PagesInv'
<1> SUFFICES ASSUME MediaOK, MsgsOK, PagesInv, [Next]_vars PROVE PagesInv'
    BY DEF Typed, MediaOK
<1>1. ASSUME NEW p \in Procs, Quiet(p) PROVE PagesInv'
    BY <1>1, QuietApace, ApaceKeeps
<1>2. CASE PostNext
    BY <1>1, <1>2, QuietSteps, InsertApace, ReactApace, ChangeApace, ApaceKeeps DEF PostNext
<1>3. CASE ChangeNext
    BY <1>1, <1>3, QuietSteps, ChangeApace, PurgeApace, ApaceKeeps DEF ChangeNext
<1>4. CASE ReaderNext
    <2>1. CASE \E p \in Procs :
                  \/ \E x \in Ids, kind \in Kinds : ReactWs(p, x, kind) \/ ReactRest(p, x, kind)
                  \/ ReactFind(p) \/ ReactCount(p) \/ Unreact(p) \/ DropOldest(p) \/ ReactCreate(p)
        BY <2>1, ReactApace, ChangeApace, ApaceKeeps DEF ReactWs, ReactRest
    <2>2. CASE \E x \in Ids : View(x)
        BY <2>2, StillApace DEF View
    <2>3. CASE \/ \E way \in {"older", "messages"} : ScrollStart(way, 0)
               \/ \E cursor \in Ids : ScrollStart("newer", cursor)
        BY <2>3, ScrollStartPages
    <2> QED
        BY <1>4, <2>1, <2>2, <2>3, OlderPages, NewerPages DEF ReaderNext
<1>5. CASE MediaNext /\ UNCHANGED messageVars
    BY <1>1, <1>5, MediaQuiet, StillApace DEF messageVars, MediaOK
<1>6. CASE \E p \in Procs : MessageCrash(p)
    BY <1>6, ReactApace, ApaceKeeps
<1>7. CASE UNCHANGED vars
    BY <1>7, StillApace DEF vars, mediaVars, proc, messageVars
<1> QED
    BY <1>2, <1>3, <1>4, <1>5, <1>6, <1>7 DEF Next

\* As long as ids follow dates, who pages through the chat to the end, either way, has got
\* every message that was there when they began and that nobody has deleted since,
\* whatever is posted, deleted and purged between two pages (get_chat_for_user,
\* GetMessagesAPIView).
THEOREM PagingSeesAll == Spec => []ScrollSeesAllInOrder
<1>1. PagesInv => ScrollSeesAllInOrder
    BY DEF PagesInv, OwedAhead, Owed, ScrollSeesAllInOrder, AllSeen
<1> QED
    BY <1>1, TypedHolds, PagesInit, PagesStep, PTL DEF Spec
=============================================================================
