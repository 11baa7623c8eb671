-------------------------------- MODULE ChunkAck --------------------------------
(***************************************************************************)
(* Batched acknowledgement of the parts of an upload on one WebSocket      *)
(* connection (AppConsumer).                                               *)
(*                                                                         *)
(* The connection handles one binary frame at a time: the part is saved in *)
(* a thread, and its acknowledgement joins the batch.  A full batch is     *)
(* sent at once; otherwise a task sends it after a delay.  Handler and     *)
(* tasks share one event loop and interleave where they await: at saving a *)
(* part, at the task's sleep and at sending.  Frames are numbered as they  *)
(* come (request_id), and so are tasks; task 0 is None.                    *)
(*                                                                         *)
(* A definition whose name begins with Mut is the faulty form of the one   *)
(* after it: no specification uses it, it shows which property would fail. *)
(***************************************************************************)
EXTENDS Naturals, FiniteSets

CONSTANTS
    BatchSize,   \* WS_CHUNK_ACK_BATCH_SIZE
    MaxFrames    \* bound: frames the client sends on the connection

ASSUME BatchSizeAssumption == BatchSize \in Nat \ {0}
ASSUME MaxFramesAssumption == MaxFrames \in Nat

VARIABLES
    open,      \* is the connection up?
    frames,    \* how many frames have come
    saving,    \* is the handler waiting for a part to be saved?
    stored,    \* frames whose part was saved
    pending,   \* pending_chunk_ack_request_ids
    timer,     \* pending_chunk_ack_flush_task
    tasks,     \* how many tasks have been created
    asleep,    \* tasks in their sleep
    sending,   \* sending[t]: what task t (0: the handler) is sending, {} if nothing
    acks       \* acks[n]: how often frame n was acknowledged to the client

vars == <<open, frames, saving, stored, pending, timer, tasks, asleep, sending, acks>>

Frames == 1..MaxFrames
Senders == 0..MaxFrames

TypeOK ==
    /\ open \in BOOLEAN /\ saving \in BOOLEAN
    /\ frames \in 0..MaxFrames
    /\ stored \subseteq 1..frames
    /\ pending \subseteq stored
    /\ tasks \in 0..frames
    /\ timer \in 0..tasks
    /\ asleep \subseteq 1..tasks
    /\ sending \in [Senders -> SUBSET stored]
    /\ acks \in [Frames -> Nat]

Init ==
    /\ open = TRUE /\ saving = FALSE
    /\ frames = 0 /\ tasks = 0 /\ timer = 0
    /\ stored = {} /\ pending = {} /\ asleep = {}
    /\ sending = [t \in Senders |-> {}]
    /\ acks = [n \in Frames |-> 0]

-----------------------------------------------------------------------------

\* _flush_chunk_acks run by task t (0: by the handler), with batch the acknowledgements
\* to send: the sleeping task, if it is not t itself, is cancelled, and the batch handed
\* to send_json.  The batch that stays behind is what the Mut forms leave.
MutFlush(t, batch) ==
    /\ pending' = batch
    /\ timer' = 0
    /\ sending' = [sending EXCEPT ![t] = batch]
    /\ asleep' = asleep \ {t, timer}

Flush(t, batch) ==
    /\ pending' = {}
    /\ timer' = 0
    /\ sending' = [sending EXCEPT ![t] = batch]
    /\ asleep' = asleep \ {t, timer}

\* handle_binary: the handler gives the part to a thread and awaits it.
ReceivePart ==
    /\ open
    /\ ~saving /\ sending[0] = {}
    /\ frames < MaxFrames
    /\ frames' = frames + 1
    /\ saving' = TRUE
    /\ UNCHANGED <<open, stored, pending, timer, tasks, asleep, sending, acks>>

MutFull(batch) == Cardinality(batch) > BatchSize
Full(batch) == Cardinality(batch) >= BatchSize

\* No task is started while the batch is short.
MutStartTimer ==
    /\ timer' = timer
    /\ UNCHANGED <<tasks, asleep>>

\* asyncio.create_task(self._delayed_flush_chunk_acks()), unless one is there.
StartTimer ==
    IF timer = 0
    THEN /\ tasks' = tasks + 1
         /\ timer' = tasks + 1
         /\ asleep' = asleep \cup {tasks + 1}
    ELSE UNCHANGED <<timer, tasks, asleep>>

\* The result of the save is not looked at.
MutPartRefused ==
    /\ saving
    /\ saving' = FALSE
    /\ pending' = pending \cup {frames}
    /\ StartTimer
    /\ UNCHANGED <<open, frames, stored, sending, acks>>

\* chunk_part_service refused the part; the error is answered on its own.
PartRefused ==
    /\ saving
    /\ saving' = FALSE
    /\ UNCHANGED <<open, frames, stored, pending, timer, tasks, asleep, sending, acks>>

\* The part is on disk: _queue_chunk_ack, up to the sending of a full batch.
PartSaved ==
    LET batch == pending \cup {frames} IN
    /\ saving
    /\ saving' = FALSE
    /\ stored' = stored \cup {frames}
    /\ IF Full(batch)
       THEN /\ Flush(0, batch)
            /\ UNCHANGED tasks
       ELSE /\ pending' = batch
            /\ StartTimer
            /\ UNCHANGED sending
    /\ UNCHANGED <<open, frames, acks>>

\* The task cancels itself, too, and never gets past the await of send_json.
MutWake(t) ==
    /\ t \in asleep
    /\ IF pending = {}
       THEN timer' = 0 /\ asleep' = asleep \ {t} /\ UNCHANGED <<pending, sending>>
       ELSE pending' = {} /\ timer' = 0 /\ asleep' = asleep \ {t, timer} /\ UNCHANGED sending
    /\ UNCHANGED <<open, frames, saving, stored, tasks, acks>>

\* The delay is over: _delayed_flush_chunk_acks goes on to _flush_chunk_acks.
Wake(t) ==
    /\ t \in asleep
    /\ IF pending = {}
       THEN timer' = 0 /\ asleep' = asleep \ {t} /\ UNCHANGED <<pending, sending>>
       ELSE Flush(t, pending)
    /\ UNCHANGED <<open, frames, saving, stored, tasks, acks>>

\* send_json returns: the client is sent the batch, or nothing once the connection is
\* down.
Sent(t) ==
    /\ sending[t] # {}
    /\ acks' = IF open
               THEN [n \in Frames |-> IF n \in sending[t] THEN acks[n] + 1 ELSE acks[n]]
               ELSE acks
    /\ sending' = [sending EXCEPT ![t] = {}]
    /\ UNCHANGED <<open, frames, saving, stored, pending, timer, tasks, asleep>>

\* The client goes away.  disconnect leaves the batch and its task alone.
Disconnect ==
    /\ open
    /\ open' = FALSE
    /\ UNCHANGED <<frames, saving, stored, pending, timer, tasks, asleep, sending, acks>>

Next ==
    \/ ReceivePart \/ PartRefused \/ PartSaved \/ Disconnect
    \/ \E t \in Senders : Wake(t) \/ Sent(t)

\* The event loop runs what is ready, and the thread that saves a part returns.
Fairness ==
    /\ WF_vars(PartRefused \/ PartSaved)
    /\ \A t \in Senders : WF_vars(Wake(t)) /\ WF_vars(Sent(t))

Spec == Init /\ [][Next]_vars
FairSpec == Spec /\ Fairness

-----------------------------------------------------------------------------
(* Properties.                                                             *)

\* A part is acknowledged once at most, although the batch is read by a task and by the
\* handler, whichever comes first (app_consumer.py:127-162).
AckedOnce == \A n \in Frames : acks[n] <= 1

\* Only what was saved is acknowledged, so the client may forget the part.
OnlySavedAcked == \A n \in Frames : acks[n] > 0 => n \in stored

\* The batch never outgrows its size, so a frame's acknowledgement waits for fewer than
\* BatchSize others (app_consumer.py:156).
BatchBounded == Cardinality(pending) < BatchSize

\* What waits in the batch has a task that is going to send it, and it is the one task
\* that sleeps: cancelling and starting tasks neither loses nor multiplies them
\* (app_consumer.py:138-141, 159-162).
BatchHasTimer == asleep = IF pending = {} THEN {} ELSE {timer}

-----------------------------------------------------------------------------
(* Why each part is acknowledged once: it is in one place at a time.       *)

\* A frame's acknowledgement waits in the batch, is in one batch being sent, or has
\* been sent; the frame being saved is in none of them.
OnePlace ==
    /\ \A n \in Frames : acks[n] > 0 => n \notin pending
    /\ \A n \in Frames, t \in Senders : n \in sending[t] => acks[n] = 0 /\ n \notin pending
    /\ \A t, s \in Senders : t # s => sending[t] \cap sending[s] = {}
    /\ saving => frames \in Frames \ stored

\* Who sends has nothing else to send: the handler takes no frame meanwhile, and a task
\* sends after its sleep.
FreeToSend ==
    /\ saving => sending[0] = {}
    /\ \A t \in asleep : sending[t] = {}
    /\ \A t \in Senders : t > tasks => sending[t] = {}

\* A task is there for a batch, and a frame starts one at most.
TimerForBatch ==
    /\ timer = 0 <=> pending = {}
    /\ saving => tasks < frames

\* The inductive invariant.
Accounting ==
    /\ TypeOK
    /\ AckedOnce
    /\ OnlySavedAcked
    /\ BatchBounded
    /\ BatchHasTimer
    /\ TimerForBatch
    /\ OnePlace
    /\ FreeToSend

-----------------------------------------------------------------------------
(* Liveness.                                                               *)

\* Every part that was saved is acknowledged, if the connection stays up.
SavedIsAcked == \A n \in Frames : n \in stored ~> acks[n] > 0 \/ ~open
=============================================================================
