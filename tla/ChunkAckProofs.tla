----------------------------- MODULE ChunkAckProofs -----------------------------
(* Every part is acknowledged at most once and only if it was saved, whatever the *)
(* batch size and however many frames come: Accounting is an inductive invariant. *)
EXTENDS ChunkAck, FiniteSetTheorems, TLAPS

\* The parts that make up Accounting, unfolded down to the sets they speak of.
USE BatchSizeAssumption, MaxFramesAssumption

\* Nothing waits and nothing is sent when a connection begins.
LEMMA InitAccounting == Init => Accounting
<1> SUFFICES ASSUME Init PROVE Accounting
    OBVIOUS
<1>1. Cardinality(pending) = 0
    BY FS_EmptySet DEF Init
<1> QED
    <2>1. TypeOK
        <3>1. sending \in [Senders -> SUBSET stored] /\ acks \in [Frames -> Nat]
            BY DEF Init
        <3>2. frames \in 0..MaxFrames
            BY DEF Init
        <3>3. tasks \in 0..frames /\ timer \in 0..tasks
            BY DEF Init
        <3>4. stored \subseteq 1..frames /\ pending \subseteq stored /\ asleep \subseteq 1..tasks
            BY DEF Init
        <3> QED
            BY <3>1, <3>2, <3>3, <3>4 DEF Init, TypeOK
    <2>2. AckedOnce /\ OnlySavedAcked
        BY DEF Init, AckedOnce, OnlySavedAcked, Frames
    <2>3. BatchBounded
        BY <1>1 DEF BatchBounded
    <2>4. BatchHasTimer /\ TimerForBatch
        BY DEF Init, BatchHasTimer, TimerForBatch
    <2>5. OnePlace /\ FreeToSend
        BY DEF Init, OnePlace, FreeToSend, Frames, Senders
    <2> QED
        BY <2>1, <2>2, <2>3, <2>4, <2>5 DEF Accounting

\* The batch is a finite set, and one more frame makes it larger by one.
LEMMA BatchGrows ==
    ASSUME TypeOK, saving, frames \notin stored
    PROVE  /\ IsFiniteSet(pending)
           /\ Cardinality(pending) \in Nat
           /\ Cardinality(pending \cup {frames}) = Cardinality(pending) + 1
<1>1. IsFiniteSet(1..frames)
    BY FS_Interval DEF TypeOK
<1>2. pending \subseteq 1..frames
    BY DEF TypeOK
<1>3. IsFiniteSet(pending)
    BY <1>1, <1>2, FS_Subset
<1>4. frames \notin pending
    BY DEF TypeOK
<1> QED
    BY <1>3, <1>4, FS_AddElement, FS_CardinalityType

\* Starting the task keeps it the only one asleep, whether or not one is there.
LEMMA TimerStarts ==
    ASSUME Accounting, StartTimer, frames \in Nat, saving
    PROVE  /\ tasks' \in 0..frames
           /\ timer' \in 1..tasks'
           /\ asleep' = {timer'}
           /\ tasks' >= tasks
           /\ \A t \in asleep' : sending[t] = {}
<1> USE DEF Accounting, TypeOK, TimerForBatch, BatchHasTimer, FreeToSend, Senders
<1>1. CASE timer = 0
    BY <1>1 DEF StartTimer
<1>2. CASE timer # 0
    BY <1>2 DEF StartTimer
<1> QED
    BY <1>1, <1>2

-----------------------------------------------------------------------------
(* One lemma per action.                                                   *)

LEMMA ReceiveKeeps == Accounting /\ ReceivePart => Accounting'
<1> SUFFICES ASSUME Accounting, ReceivePart PROVE Accounting'
    OBVIOUS
<1> USE DEF Accounting, ReceivePart
<1>1. TypeOK'
    BY DEF TypeOK
<1>2. AckedOnce' /\ OnlySavedAcked' /\ BatchBounded' /\ BatchHasTimer'
    BY DEF AckedOnce, OnlySavedAcked, BatchBounded, BatchHasTimer
<1>3. TimerForBatch'
    BY DEF TimerForBatch, TypeOK
<1>4. OnePlace'
    BY DEF OnePlace, TypeOK, Frames
<1>5. FreeToSend'
    BY DEF FreeToSend
<1> QED
    BY <1>1, <1>2, <1>3, <1>4, <1>5

LEMMA RefusedKeeps == Accounting /\ PartRefused => Accounting'
<1> SUFFICES ASSUME Accounting, PartRefused PROVE Accounting'
    OBVIOUS
<1> QED
    BY DEF Accounting, PartRefused, TypeOK, AckedOnce, OnlySavedAcked, BatchBounded,
           BatchHasTimer, TimerForBatch, OnePlace, FreeToSend

LEMMA DisconnectKeeps == Accounting /\ Disconnect => Accounting'
<1> SUFFICES ASSUME Accounting, Disconnect PROVE Accounting'
    OBVIOUS
<1> QED
    BY DEF Accounting, Disconnect, TypeOK, AckedOnce, OnlySavedAcked, BatchBounded,
           BatchHasTimer, TimerForBatch, OnePlace, FreeToSend

\* What a flush by t leaves behind, given that the frames of the batch are in no other
\* place: both ways a batch is sent rest on it.
LEMMA FlushKeeps ==
    ASSUME Accounting, NEW t \in Senders, NEW batch \in SUBSET Frames,
           Flush(t, batch), sending[t] = {}, t <= tasks,
           \A n \in batch : acks[n] = 0,
           \A n \in batch, s \in Senders : n \notin sending[s],
           UNCHANGED <<open, tasks, frames, acks>>,
           saving' = FALSE \/ (saving' = saving /\ stored' = stored /\ t # 0),
           stored \cup batch \subseteq stored', stored' \subseteq 1..frames
    PROVE  Accounting'
<1> USE DEF Accounting, Flush
<1>1. /\ pending' = {} /\ timer' = 0
      /\ sending' = [sending EXCEPT ![t] = batch]
      /\ asleep' = asleep \ {t, timer}
      /\ sending \in [Senders -> SUBSET stored]
    BY DEF TypeOK
<1>2. asleep' = {}
    BY <1>1 DEF BatchHasTimer
<1>3. TypeOK'
    <2>1. sending' \in [Senders -> SUBSET stored']
        BY <1>1
    <2>2. tasks' \in 0..frames' /\ timer' \in 0..tasks'
        BY <1>1 DEF TypeOK
    <2>3. pending' \subseteq stored' /\ asleep' \subseteq 1..tasks'
        BY <1>1, <1>2
    <2>4. acks' \in [Frames -> Nat] /\ frames' \in 0..MaxFrames
        BY DEF TypeOK
    <2>5. open' \in BOOLEAN /\ saving' \in BOOLEAN
        BY DEF TypeOK
    <2> QED
        BY <2>1, <2>2, <2>3, <2>4, <2>5 DEF TypeOK
<1>4. AckedOnce' /\ OnlySavedAcked'
    BY DEF AckedOnce, OnlySavedAcked
<1>5. BatchBounded'
    BY <1>1, FS_EmptySet DEF BatchBounded
<1>6. BatchHasTimer' /\ TimerForBatch'
    BY <1>1, <1>2 DEF BatchHasTimer, TimerForBatch
<1>7. OnePlace'
    <2>1. \A n \in Frames : acks'[n] > 0 => n \notin pending'
        BY <1>1
    <2>2. \A n \in Frames, s \in Senders :
              n \in sending'[s] => acks'[n] = 0 /\ n \notin pending'
        BY <1>1 DEF OnePlace
    <2>3. \A s, r \in Senders : s # r => sending'[s] \cap sending'[r] = {}
        BY <1>1 DEF OnePlace
    <2>4. saving' => frames' \in Frames \ stored'
        BY DEF OnePlace
    <2> QED
        BY <2>1, <2>2, <2>3, <2>4 DEF OnePlace
<1>8. FreeToSend'
    BY <1>1, <1>2 DEF FreeToSend, TypeOK, Senders
<1> QED
    BY <1>3, <1>4, <1>5, <1>6, <1>7, <1>8

LEMMA SavedKeeps == Accounting /\ PartSaved => Accounting'
<1> SUFFICES ASSUME Accounting, PartSaved PROVE Accounting'
    OBVIOUS
<1> DEFINE batch == pending \cup {frames}
<1>1. /\ saving /\ saving' = FALSE
      /\ stored' = stored \cup {frames}
      /\ UNCHANGED <<open, frames, acks>>
    BY DEF PartSaved
<1>2. /\ frames \in Frames \ stored /\ frames \in Nat
      /\ stored \subseteq 1..frames /\ pending \subseteq stored
      /\ frames \in 1..frames /\ 1..frames \subseteq Frames
    BY <1>1 DEF Accounting, OnePlace, TypeOK, Frames
<1>3. \A n \in batch : acks[n] = 0
    BY <1>2 DEF Accounting, OnePlace, OnlySavedAcked, TypeOK
<1>4. \A n \in batch, s \in Senders : n \notin sending[s]
    BY <1>2 DEF Accounting, OnePlace, TypeOK
<1>5. CASE Full(batch)
    <2>1. Flush(0, batch) /\ UNCHANGED tasks
        BY <1>5 DEF PartSaved
    <2>2. 0 \in Senders /\ 0 <= tasks
        BY DEF Accounting, TypeOK, Senders
    <2>3. sending[0] = {}
        BY <1>1 DEF Accounting, FreeToSend
    <2>4. batch \in SUBSET Frames
        BY <1>2
    <2> QED
        BY <1>1, <1>2, <1>3, <1>4, <2>1, <2>2, <2>3, <2>4, FlushKeeps
<1>6. CASE ~Full(batch)
    <2>1. pending' = batch /\ StartTimer /\ UNCHANGED sending
        BY <1>6 DEF PartSaved
    <2>2. /\ tasks' \in 0..frames /\ timer' \in 1..tasks' /\ asleep' = {timer'}
          /\ tasks' >= tasks
          /\ \A s \in asleep' : sending[s] = {}
        BY <1>1, <1>2, <2>1, TimerStarts
    <2>3. TypeOK'
        <3>1. /\ sending \in [Senders -> SUBSET stored] /\ acks \in [Frames -> Nat]
              /\ frames \in 0..MaxFrames /\ tasks \in Nat /\ open \in BOOLEAN
            BY DEF Accounting, TypeOK
        <3>2. sending' \in [Senders -> SUBSET stored']
            BY <1>1, <2>1, <3>1
        <3>3. tasks' \in 0..frames' /\ timer' \in 0..tasks' /\ asleep' \subseteq 1..tasks'
            BY <1>1, <2>2
        <3>4. stored' \subseteq 1..frames' /\ pending' \subseteq stored'
            BY <1>1, <1>2, <2>1
        <3> QED
            BY <1>1, <3>1, <3>2, <3>3, <3>4 DEF TypeOK
    <2>4. AckedOnce' /\ OnlySavedAcked'
        BY <1>1 DEF Accounting, AckedOnce, OnlySavedAcked
    <2>5. BatchBounded'
        <3>1. Cardinality(batch) \in Nat
            BY <1>1, <1>2, BatchGrows DEF Accounting
        <3> QED
            BY <1>6, <2>1, <3>1 DEF Full, BatchBounded
    <2>6. BatchHasTimer' /\ TimerForBatch'
        BY <1>1, <2>1, <2>2 DEF BatchHasTimer, TimerForBatch
    <2>7. OnePlace'
        BY <1>1, <1>3, <1>4, <2>1 DEF Accounting, OnePlace
    <2>8. FreeToSend'
        BY <1>1, <2>1, <2>2 DEF Accounting, FreeToSend, TypeOK, Senders
    <2> QED
        BY <2>3, <2>4, <2>5, <2>6, <2>7, <2>8 DEF Accounting
<1> QED
    BY <1>5, <1>6

LEMMA WakeKeeps == ASSUME NEW t \in Senders PROVE Accounting /\ Wake(t) => Accounting'
<1> SUFFICES ASSUME Accounting, Wake(t) PROVE Accounting'
    OBVIOUS
<1>1. /\ t \in asleep /\ pending # {}
      /\ UNCHANGED <<open, frames, saving, stored, tasks, acks>>
    BY DEF Wake, Accounting, BatchHasTimer
<1>2. Flush(t, pending)
    BY <1>1 DEF Wake
<1>3. t # 0 /\ t <= tasks /\ sending[t] = {}
    BY <1>1 DEF Accounting, TypeOK, FreeToSend
<1>4. /\ pending \in SUBSET Frames /\ pending \subseteq stored
      /\ stored \subseteq 1..frames
    BY DEF Accounting, TypeOK, Frames
<1>5. \A n \in pending : acks[n] = 0
    BY <1>4 DEF Accounting, OnePlace, TypeOK
<1>6. \A n \in pending, s \in Senders : n \notin sending[s]
    BY <1>4 DEF Accounting, OnePlace
<1> QED
    BY <1>1, <1>2, <1>3, <1>4, <1>5, <1>6, FlushKeeps

LEMMA SentKeeps == ASSUME NEW t \in Senders PROVE Accounting /\ Sent(t) => Accounting'
<1> SUFFICES ASSUME Accounting, Sent(t) PROVE Accounting'
    OBVIOUS
<1>1. /\ sending' = [sending EXCEPT ![t] = {}]
      /\ UNCHANGED <<open, frames, saving, stored, pending, timer, tasks, asleep>>
      /\ sending \in [Senders -> SUBSET stored]
      /\ acks \in [Frames -> Nat]
    BY DEF Sent, Accounting, TypeOK
<1>2. /\ acks' \in [Frames -> Nat]
      /\ \A n \in Frames : n \in sending[t] => acks'[n] <= acks[n] + 1
      /\ \A n \in Frames : n \notin sending[t] => acks'[n] = acks[n]
    BY <1>1 DEF Sent
<1>3. \A n \in sending[t] : n \in stored /\ n \notin pending
    BY <1>1 DEF Accounting, OnePlace, TypeOK, Frames
<1>4. \A n \in Frames : n \in sending[t] => acks[n] = 0
    BY DEF Accounting, OnePlace
<1>5. TypeOK'
    BY <1>1, <1>2 DEF Accounting, TypeOK
<1>6. AckedOnce' /\ OnlySavedAcked'
    BY <1>1, <1>2, <1>3, <1>4 DEF Accounting, AckedOnce, OnlySavedAcked
<1>7. BatchBounded' /\ BatchHasTimer' /\ TimerForBatch'
    BY <1>1 DEF Accounting, BatchBounded, BatchHasTimer, TimerForBatch
<1>8. OnePlace'
    <2>1. \A n \in Frames : acks'[n] > 0 => n \notin pending'
        BY <1>1, <1>2, <1>3 DEF Accounting, OnePlace
    <2>2. \A n \in Frames, s \in Senders :
              n \in sending'[s] => acks'[n] = 0 /\ n \notin pending'
        BY <1>1, <1>2 DEF Accounting, OnePlace
    <2>3. \A s, r \in Senders : s # r => sending'[s] \cap sending'[r] = {}
        BY <1>1 DEF Accounting, OnePlace
    <2>4. saving' => frames' \in Frames \ stored'
        BY <1>1 DEF Accounting, OnePlace
    <2> QED
        BY <2>1, <2>2, <2>3, <2>4 DEF OnePlace
<1>9. FreeToSend'
    BY <1>1 DEF Accounting, FreeToSend
<1> QED
    BY <1>5, <1>6, <1>7, <1>8, <1>9 DEF Accounting

-----------------------------------------------------------------------------

LEMMA StepKeeps == Accounting /\ [Next]_vars => Accounting'
<1> SUFFICES ASSUME Accounting, [Next]_vars PROVE Accounting'
    OBVIOUS
<1>1. CASE ReceivePart
    BY <1>1, ReceiveKeeps
<1>2. CASE PartRefused
    BY <1>2, RefusedKeeps
<1>3. CASE PartSaved
    BY <1>3, SavedKeeps
<1>4. CASE Disconnect
    BY <1>4, DisconnectKeeps
<1>5. ASSUME NEW t \in Senders, Wake(t) PROVE Accounting'
    BY <1>5, WakeKeeps
<1>6. ASSUME NEW t \in Senders, Sent(t) PROVE Accounting'
    BY <1>6, SentKeeps
<1>7. CASE UNCHANGED vars
    BY <1>7 DEF vars, Accounting, TypeOK, AckedOnce, OnlySavedAcked, BatchBounded,
                BatchHasTimer, TimerForBatch, OnePlace, FreeToSend
<1> QED
    BY <1>1, <1>2, <1>3, <1>4, <1>5, <1>6, <1>7 DEF Next

\* Accounting holds always: every acknowledgement is in one place at a time.
THEOREM AccountingHolds == Spec => []Accounting
    BY InitAccounting, StepKeeps, PTL DEF Spec

\* Every variable keeps its type: what waits and what is being sent was saved, and no
\* task sleeps that was not started.
THEOREM TypeCorrect == Spec => []TypeOK
<1>1. Accounting => TypeOK
    BY DEF Accounting
<1> QED
    BY <1>1, AccountingHolds, PTL

\* A part is acknowledged at most once (app_consumer.py:127-162).
THEOREM AcksAreSingle == Spec => []AckedOnce
<1>1. Accounting => AckedOnce
    BY DEF Accounting
<1> QED
    BY <1>1, AccountingHolds, PTL

\* A part that could not be saved is never acknowledged (app_consumer.py:2251-2262).
THEOREM AcksAreEarned == Spec => []OnlySavedAcked
<1>1. Accounting => OnlySavedAcked
    BY DEF Accounting
<1> QED
    BY <1>1, AccountingHolds, PTL

\* The batch stays below its size (app_consumer.py:156-158).
THEOREM BatchesAreBounded == Spec => []BatchBounded
<1>1. Accounting => BatchBounded
    BY DEF Accounting
<1> QED
    BY <1>1, AccountingHolds, PTL

\* A waiting batch has exactly one sleeping task, which is the one the connection
\* remembers (app_consumer.py:138-141, 159-162).
THEOREM TimersAreKept == Spec => []BatchHasTimer
<1>1. Accounting => BatchHasTimer
    BY DEF Accounting
<1> QED
    BY <1>1, AccountingHolds, PTL

=============================================================================
