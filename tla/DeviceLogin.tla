------------------------------ MODULE DeviceLogin ------------------------------
(***************************************************************************)
(* Confirming a login from a device that has no session yet.               *)
(*                                                                         *)
(* A login with the right password from an unknown device gets no session  *)
(* but a challenge: a row of DeviceLoginChallenge with a six-digit code.   *)
(* A Celery task mails the code, or tells the account's signed-in devices  *)
(* of the attempt, one of which may ask for the code (allow) or refuse     *)
(* (deny).  The new device submits the code and polls until it is given a  *)
(* session.  The model is of one account; challenges of different accounts *)
(* share nothing.                                                          *)
(*                                                                         *)
(* Every ORM call commits on its own, so a request is a sequence of steps; *)
(* a transaction.atomic() block that begins with select_for_update is one  *)
(* step.  A read of the row and the look at the clock after it are two     *)
(* instants: since expires_at only ever passes, a handler that found the   *)
(* challenge expired may be taken to have looked just before it wrote, and *)
(* one that did not find it expired read the row before it expired.        *)
(*                                                                         *)
(* A definition whose name begins with Mut is the faulty form of the one   *)
(* after it: no specification uses it, it shows which property would fail. *)
(***************************************************************************)
EXTENDS Naturals

CONSTANTS
    Challenges,       \* ids of DeviceLoginChallenge rows
    Devices,          \* what a binding hash identifies
    Guests,           \* the devices that log in (the others are signed in at first)
    Procs,            \* web threads that serve requests (HTTP and WebSocket)
    CodeMaxAttempts,  \* CODE_MAX_ATTEMPTS
    Followed,         \* bound: the challenges that go on after they were made
    MaxCrashes        \* bound: requests cut off by the death of their process

ASSUME GuestsAssumption == Guests \subseteq Devices
ASSUME FollowedAssumption == Followed \subseteq Challenges
ASSUME AttemptsAssumption == CodeMaxAttempts \in Nat
ASSUME CrashesAssumption == MaxCrashes \in Nat
ASSUME IdleAssumption == "none" \notin Challenges /\ "none" \notin Devices

VARIABLES
    status,    \* status[c]: of the row; "unused" before INSERT, "gone" after DELETE
    attempts,  \* attempts[c]: wrong codes counted in the row
    otp,       \* otp[c]: is the code still in pending_otp?
    delivery,  \* delivery[c]: "trusted_device" or "email"
    device,    \* device[c]: new_binding_hash
    expired,   \* the challenges whose expires_at has passed
    active,    \* devices whose binding hash is on an unexpired ActiveSession
    queue,     \* challenges with a delivery task in the Celery queue
    asked,     \* challenges the signed-in devices were told of
    revealed,  \* challenges whose code the user has been shown
    subs,      \* challenges whose device is subscribed to status events
    refused,   \* challenges whose subscriber was sent "rejected" or "expired"
    wrong,     \* wrong[c]: how many wrong codes were compared with the right one
    minted,    \* minted[c]: sessions issued on c
    denied,    \* challenges refused by a signed-in device and told so ("ok")
    older,     \* older[c]: challenges that existed when c's login expired them
    pc,        \* pc[p]: the next statement of p's handler
    req,       \* req[p]: its local variables
    crashes    \* how many requests were cut off

row == <<status, attempts, otp, delivery, device, older>>
people == <<queue, asked, revealed>>
outcome == <<wrong, minted, denied>>
events == <<subs, refused>>
vars == <<row, expired, active, people, events, outcome, pc, req, crashes>>

Statuses == {"pending", "approved", "rejected", "expired"}
Stored == {c \in Challenges : status[c] \in Statuses}
Labels == {"idle", "login_session", "login_delivery", "login_supersede",
           "login_insert", "login_queue", "submit_lock", "notify", "resend_decide",
           "resend_queue", "decide", "poll_decide", "poll_lock", "poll_session",
           "sub_decide", "sub_join"}

\* challenge, device of the client, status as read, was it unexpired when read?
Request == [c : Challenges \cup {"none"}, d : Devices \cup {"none"},
            read : Statuses \cup {"none", "trusted_device", "email"}, fresh : BOOLEAN,
            older : SUBSET Challenges]
NoRequest == [c |-> "none", d |-> "none", read |-> "none", fresh |-> FALSE,
              older |-> {}]

TypeOK ==
    /\ status \in [Challenges -> Statuses \cup {"unused", "gone"}]
    /\ attempts \in [Challenges -> 0..CodeMaxAttempts]
    /\ otp \in [Challenges -> BOOLEAN]
    /\ delivery \in [Challenges -> {"trusted_device", "email"}]
    /\ device \in [Challenges -> Devices \cup {"none"}]
    /\ older \in [Challenges -> SUBSET Challenges]
    /\ expired \subseteq Challenges
    /\ active \subseteq Devices
    /\ queue \subseteq Challenges /\ asked \subseteq Challenges
    /\ revealed \subseteq Challenges
    /\ subs \subseteq Challenges
    /\ refused \subseteq Challenges
    /\ wrong \in [Challenges -> Nat]
    /\ minted \in [Challenges -> Nat]
    /\ denied \subseteq Challenges
    /\ pc \in [Procs -> Labels]
    /\ req \in [Procs -> Request]
    /\ crashes \in Nat

Init ==
    /\ status = [c \in Challenges |-> "unused"]
    /\ attempts = [c \in Challenges |-> 0]
    /\ otp = [c \in Challenges |-> FALSE]
    /\ delivery = [c \in Challenges |-> "trusted_device"]
    /\ device = [c \in Challenges |-> "none"]
    /\ older = [c \in Challenges |-> {}]
    /\ expired = {} /\ queue = {} /\ asked = {} /\ revealed = {}
    /\ active = Devices \ Guests
    /\ subs = {} /\ refused = {}
    /\ wrong = [c \in Challenges |-> 0]
    /\ minted = [c \in Challenges |-> 0]
    /\ denied = {}
    /\ pc = [p \in Procs |-> "idle"]
    /\ req = [p \in Procs |-> NoRequest]
    /\ crashes = 0

-----------------------------------------------------------------------------
(* What the steps of the handlers are made of.                             *)

Begin(p, label, request) ==
    /\ pc[p] = "idle"
    /\ pc' = [pc EXCEPT ![p] = label]
    /\ req' = [req EXCEPT ![p] = request]
    /\ UNCHANGED crashes

\* On to the next statement, which needs no local but the challenge.
Goto(p, label) ==
    /\ pc' = [pc EXCEPT ![p] = label]
    /\ req' = [req EXCEPT ![p] = [NoRequest EXCEPT !.c = req[p].c]]
    /\ UNCHANGED crashes

Finish(p) ==
    /\ pc' = [pc EXCEPT ![p] = "idle"]
    /\ req' = [req EXCEPT ![p] = NoRequest]
    /\ UNCHANGED crashes

\* On to telling the challenge's subscriber what it has become.
GoNotify(p, s) ==
    /\ pc' = [pc EXCEPT ![p] = "notify"]
    /\ req' = [req EXCEPT ![p] = [NoRequest EXCEPT !.c = req[p].c, !.read = s]]
    /\ UNCHANGED crashes

\* The unlocked read a handler begins with: the row as it is, whatever happens to it
\* afterwards.  A handler refuses at once if the row is not there, or if the client is
\* not device[c] (poll_binding_matches_device_challenge): the requests below are its.
ReadRow(p, c, label) ==
    /\ c \in Stored \cap Followed
    /\ Begin(p, label, [NoRequest EXCEPT !.c = c, !.read = status[c],
                                         !.fresh = c \notin expired])
    /\ UNCHANGED <<row, expired, active, people, events, outcome>>

\* save(update_fields=["status"]): it overwrites whatever the row says by now, and
\* fails (DatabaseError, a 500) if the row has been deleted.
SaveStatus(c, s) ==
    /\ c \in Stored
    /\ status' = [status EXCEPT ![c] = s]

\* save(update_fields=["status", "pending_otp"]) with the code cleared.
SaveStatusAndOtp(c, s) ==
    /\ SaveStatus(c, s)
    /\ otp' = [otp EXCEPT ![c] = FALSE]

\* The same save when the row has been deleted: it raises, and the request ends.
SaveFails(p) ==
    /\ req[p].c \notin Stored
    /\ Finish(p)
    /\ UNCHANGED <<row, expired, active, people, events, outcome>>

\* What the new device has been told once it is sent status s.
Told(c, s) == IF s \in {"rejected", "expired"} THEN refused \cup {c} ELSE refused

\* notify_device_login_status: whoever is subscribed is sent the status.
Notify(p) ==
    LET c == req[p].c IN
    /\ pc[p] = "notify"
    /\ refused' = IF c \in subs THEN Told(c, req[p].read) ELSE refused
    /\ Finish(p)
    /\ UNCHANGED <<row, expired, active, people, subs, outcome>>

-----------------------------------------------------------------------------
(* Logging in (api_login, google_login, handle_login: the password was right). *)

\* A login takes a new id (uuid4): an unused one that no other login has taken.
Fresh == {c \in Challenges : status[c] = "unused" /\ \A p \in Procs : req[p].c # c}

\* binding_matches_active_session: a device with a session of its own is let in.
LoginGate(p, d) ==
    /\ \/ /\ d \in active
          /\ Begin(p, "login_session", [NoRequest EXCEPT !.d = d])
       \/ /\ d \notin active
          /\ \E c \in Fresh : Begin(p, "login_delivery", [NoRequest EXCEPT !.c = c, !.d = d])
    /\ UNCHANGED <<row, expired, active, people, events, outcome>>

\* remember_session for a device that needs no challenge.
LoginSession(p) ==
    /\ pc[p] = "login_session"
    /\ active' = active \cup {req[p].d}
    /\ Finish(p)
    /\ UNCHANGED <<row, expired, people, events, outcome>>

\* has_active_sessions: is there a signed-in device to ask?
LoginDelivery(p) ==
    /\ pc[p] = "login_delivery"
    /\ pc' = [pc EXCEPT ![p] = "login_supersede"]
    /\ req' = [req EXCEPT ![p].read = IF active # {} THEN "trusted_device" ELSE "email"]
    /\ UNCHANGED <<row, expired, active, people, events, outcome, crashes>>

MutSupersede(p) ==
    /\ pc[p] = "login_supersede"
    /\ status' = [c \in Challenges |->
                    IF status[c] = "pending" /\ c \in expired THEN "expired" ELSE status[c]]
    /\ pc' = [pc EXCEPT ![p] = "login_insert"]
    /\ req' = [req EXCEPT ![p].older = Stored]
    /\ UNCHANGED <<attempts, otp, delivery, device, older, expired, active, people,
                   events, outcome, crashes>>

\* create_device_challenge, first statement: UPDATE ... SET expired WHERE pending.
\* Nobody is notified and the codes stay in the rows.
Supersede(p) ==
    /\ pc[p] = "login_supersede"
    /\ status' = [c \in Challenges |->
                    IF status[c] = "pending" THEN "expired" ELSE status[c]]
    /\ pc' = [pc EXCEPT ![p] = "login_insert"]
    /\ req' = [req EXCEPT ![p].older = Stored]
    /\ UNCHANGED <<attempts, otp, delivery, device, older, expired, active, people,
                   events, outcome, crashes>>

\* create_device_challenge, second statement: INSERT.
InsertChallenge(p) ==
    LET c == req[p].c IN
    /\ pc[p] = "login_insert"
    /\ status' = [status EXCEPT ![c] = "pending"]
    /\ otp' = [otp EXCEPT ![c] = TRUE]
    /\ delivery' = [delivery EXCEPT ![c] = req[p].read]
    /\ device' = [device EXCEPT ![c] = req[p].d]
    /\ older' = [older EXCEPT ![c] = req[p].older]
    /\ Goto(p, "login_queue")
    /\ UNCHANGED <<attempts, expired, active, people, events, outcome>>

\* deliver_device_login_*.delay and the answer with the challenge's id.
QueueDelivery(p, label) ==
    /\ pc[p] = label
    /\ queue' = queue \cup {req[p].c}
    /\ Finish(p)
    /\ UNCHANGED <<row, expired, active, asked, revealed, events, outcome>>

-----------------------------------------------------------------------------
(* The code's way to the user: Celery tasks and the signed-in devices.     *)

\* The task skips a challenge that is no longer pending.  Mail and push may fail:
\* the error is logged and the task has run.
Deliver(c, sent) ==
    /\ c \in queue \cap Followed
    /\ queue' = queue \ {c}
    /\ revealed' = IF sent /\ status[c] = "pending" /\ delivery[c] = "email" /\ otp[c]
                   THEN revealed \cup {c} ELSE revealed
    /\ asked' = IF sent /\ status[c] = "pending" /\ delivery[c] = "trusted_device"
                THEN asked \cup {c} ELSE asked
    /\ UNCHANGED <<row, expired, active, events, outcome, pc, req, crashes>>

\* device_login_trusted_decision, read: by a device with a session.
DecisionRead(p, c) ==
    /\ active # {}
    /\ c \in asked
    /\ status[c] = "pending"
    /\ ReadRow(p, c, "decide")

\* Past expires_at the challenge is written off.
DecideExpired(p, label) ==
    /\ pc[p] = label
    /\ req[p].c \in expired
    /\ \/ /\ SaveStatusAndOtp(req[p].c, "expired")
          /\ GoNotify(p, "expired")
          /\ UNCHANGED <<attempts, delivery, device, older, expired, active, people,
                         events, outcome>>
       \/ SaveFails(p)

\* A denial is written over whatever the row says by now.
Deny(p) ==
    /\ pc[p] = "decide"
    /\ req[p].fresh
    /\ \/ /\ SaveStatusAndOtp(req[p].c, "rejected")
          /\ GoNotify(p, "rejected")
          /\ denied' = denied \cup {req[p].c}
          /\ UNCHANGED <<attempts, delivery, device, older, expired, active, people,
                         events, wrong, minted>>
       \/ SaveFails(p)

\* allow answers with the code that was read with the row.
Allow(p) ==
    /\ pc[p] = "decide"
    /\ req[p].fresh
    /\ revealed' = revealed \cup {req[p].c}
    /\ Finish(p)
    /\ UNCHANGED <<row, expired, active, queue, asked, events, outcome>>

-----------------------------------------------------------------------------
(* The new device: device_login_submit_code, _resend_notify, _poll.        *)

SubmitRead(p, c) ==
    /\ status[c] # "rejected"
    /\ ReadRow(p, c, "submit_lock")

\* Whatever the row says by now is taken for what was read.
MutLocked(p) == pc[p] = "submit_lock"

\* The locked part begins by looking for the row again, with status PENDING.
Locked(p) == pc[p] = "submit_lock" /\ status[req[p].c] = "pending"

SubmitGone(p) ==
    /\ pc[p] = "submit_lock"
    /\ status[req[p].c] # "pending"
    /\ Finish(p)
    /\ UNCHANGED <<row, expired, active, people, events, outcome>>

SubmitExpired(p) ==
    LET c == req[p].c IN
    /\ Locked(p)
    /\ c \in expired
    /\ SaveStatus(c, "expired")
    /\ refused' = IF c \in subs THEN Told(c, "expired") ELSE refused
    /\ Finish(p)
    /\ UNCHANGED <<attempts, otp, delivery, device, older, expired, active, people,
                   subs, outcome>>

MutAttemptsLeft(p) == attempts[req[p].c] <= CodeMaxAttempts
AttemptsLeft(p) == attempts[req[p].c] < CodeMaxAttempts

SubmitTooMany(p) ==
    /\ Locked(p)
    /\ req[p].c \notin expired
    /\ ~AttemptsLeft(p)
    /\ Finish(p)
    /\ UNCHANGED <<row, expired, active, people, events, outcome>>

\* A wrong code is counted, without which the next one would be free.
MutSubmitWrong(p) ==
    LET c == req[p].c IN
    /\ Locked(p)
    /\ c \notin expired
    /\ AttemptsLeft(p)
    /\ wrong' = [wrong EXCEPT ![c] = @ + 1]
    /\ Finish(p)
    /\ UNCHANGED <<row, expired, active, people, events, minted, denied>>

SubmitWrong(p) ==
    LET c == req[p].c IN
    /\ Locked(p)
    /\ c \notin expired
    /\ AttemptsLeft(p)
    /\ attempts' = [attempts EXCEPT ![c] = @ + 1]
    /\ wrong' = [wrong EXCEPT ![c] = @ + 1]
    /\ Finish(p)
    /\ UNCHANGED <<status, otp, delivery, device, older, expired, active, people,
                   events, minted, denied>>

SubmitRight(p) ==
    LET c == req[p].c IN
    /\ Locked(p)
    /\ c \in revealed       \* the user types what was mailed or shown
    /\ c \notin expired
    /\ AttemptsLeft(p)
    /\ SaveStatusAndOtp(c, "approved")
    /\ GoNotify(p, "approved")
    /\ UNCHANGED <<attempts, delivery, device, older, expired, active, people,
                   events, outcome>>

ResendRead(p, c) ==
    /\ status[c] = "pending"
    /\ ReadRow(p, c, "resend_decide")

ResendQueue(p) ==
    /\ req[p].fresh
    /\ QueueDelivery(p, "resend_decide")

PollRead(p, c) ==
    /\ ReadRow(p, c, "poll_decide")

\* The clock has passed expires_at: EXPIRED is written if the row read was PENDING
\* (the code stays in it), and the answer is "expired" whatever it was.
PollExpired(p) ==
    /\ pc[p] = "poll_decide"
    /\ req[p].c \in expired
    /\ IF req[p].read # "pending"
       THEN /\ Finish(p)
            /\ UNCHANGED <<row, expired, active, people, events, outcome>>
       ELSE \/ /\ SaveStatus(req[p].c, "expired")
               /\ GoNotify(p, "expired")
               /\ UNCHANGED <<attempts, otp, delivery, device, older, expired, active,
                              people, events, outcome>>
            \/ SaveFails(p)

\* Any status but APPROVED is answered; APPROVED is looked at again under a lock.
PollDecide(p) ==
    /\ pc[p] = "poll_decide"
    /\ req[p].fresh
    /\ IF req[p].read = "approved" THEN Goto(p, "poll_lock") ELSE Finish(p)
    /\ UNCHANGED <<row, expired, active, people, events, outcome>>

\* The row is taken as it was read, without looking at it again under the lock.
MutPollLock(p) ==
    LET c == req[p].c IN
    /\ pc[p] = "poll_lock"
    /\ status' = [status EXCEPT ![c] = "gone"]
    /\ otp' = [otp EXCEPT ![c] = FALSE]
    /\ Goto(p, "poll_session")
    /\ UNCHANGED <<attempts, delivery, device, older, expired, active, people,
                   events, outcome>>

\* select_for_update where APPROVED: the row is deleted, or no longer there to take.
PollLock(p) ==
    LET c == req[p].c IN
    /\ pc[p] = "poll_lock"
    /\ IF status[c] = "approved"
       THEN /\ status' = [status EXCEPT ![c] = "gone"]
            /\ otp' = [otp EXCEPT ![c] = FALSE]
            /\ Goto(p, "poll_session")
       ELSE Finish(p) /\ UNCHANGED <<status, otp>>
    /\ UNCHANGED <<attempts, delivery, device, older, expired, active, people,
                   events, outcome>>

\* remember_session: the new device is in.
PollSession(p) ==
    /\ pc[p] = "poll_session"
    /\ minted' = [minted EXCEPT ![req[p].c] = @ + 1]
    /\ active' = active \cup {device[req[p].c]}
    /\ Finish(p)
    /\ UNCHANGED <<row, expired, people, events, wrong, denied>>

-----------------------------------------------------------------------------
(* Status events over the new device's WebSocket.                          *)

\* handle_device_login_subscribe: the status is read, and a challenge found PENDING
\* past expires_at is written off ...
SubscribeRead(p, c) ==
    /\ ReadRow(p, c, "sub_decide")

SubscribeExpired(p) ==
    /\ pc[p] = "sub_decide"
    /\ req[p].read = "pending"
    /\ req[p].c \in expired
    /\ \/ /\ SaveStatus(req[p].c, "expired")
          /\ pc' = [pc EXCEPT ![p] = "sub_join"]
          /\ req' = [req EXCEPT ![p].read = "expired"]
          /\ UNCHANGED <<attempts, otp, delivery, device, older, expired, active,
                         people, events, outcome, crashes>>
       \/ SaveFails(p)

SubscribeAsRead(p) ==
    /\ pc[p] = "sub_decide"
    /\ req[p].read # "pending" \/ req[p].fresh
    /\ pc' = [pc EXCEPT ![p] = "sub_join"]
    /\ UNCHANGED <<req, crashes>>
    /\ UNCHANGED <<row, expired, active, people, events, outcome>>

\* ... and only then is the connection put in the group and sent what was read.
SubscribeJoin(p) ==
    LET c == req[p].c IN
    /\ pc[p] = "sub_join"
    /\ subs' = subs \cup {c}
    /\ refused' = Told(c, req[p].read)
    /\ Finish(p)
    /\ UNCHANGED <<row, expired, active, people, outcome>>

\* handle_device_login_unsubscribe, or the connection closes.
Unsubscribe(c) ==
    /\ c \in subs
    /\ subs' = subs \ {c}
    /\ UNCHANGED <<row, expired, active, people, refused, outcome, pc, req, crashes>>

-----------------------------------------------------------------------------
(* Time, other sign-ins and -outs, crashes.                                *)

\* CHALLENGE_TTL has passed.
Expire(c) ==
    /\ c \in (Stored \cap Followed) \ expired
    /\ expired' = expired \cup {c}
    /\ UNCHANGED <<row, active, people, events, outcome, pc, req, crashes>>

\* A device's sessions are revoked or run out.
SignOut(d) ==
    /\ d \in active
    /\ active' = active \ {d}
    /\ UNCHANGED <<row, expired, people, events, outcome, pc, req, crashes>>

\* A device signs in without the gate (passkey, recovery, a verified sign-up).
SignIn(d) ==
    /\ d \in Devices \ (Guests \cup active)
    /\ active' = active \cup {d}
    /\ UNCHANGED <<row, expired, people, events, outcome, pc, req, crashes>>

Crash(p) ==
    /\ pc[p] # "idle"
    /\ crashes < MaxCrashes
    /\ crashes' = crashes + 1
    /\ pc' = [pc EXCEPT ![p] = "idle"]
    /\ req' = [req EXCEPT ![p] = NoRequest]
    /\ UNCHANGED <<row, expired, active, people, events, outcome>>

Login(p) ==
    \/ \E d \in Guests : LoginGate(p, d)
    \/ LoginSession(p) \/ LoginDelivery(p) \/ Supersede(p) \/ InsertChallenge(p)
    \/ QueueDelivery(p, "login_queue")

TrustedDecision(p) ==
    \/ \E c \in Challenges : DecisionRead(p, c)
    \/ DecideExpired(p, "decide") \/ Deny(p) \/ Allow(p)

SubmitCode(p) ==
    \/ \E c \in Challenges : SubmitRead(p, c)
    \/ SubmitGone(p) \/ SubmitExpired(p) \/ SubmitTooMany(p)
    \/ SubmitWrong(p) \/ SubmitRight(p)

Resend(p) ==
    \/ \E c \in Challenges : ResendRead(p, c)
    \/ DecideExpired(p, "resend_decide") \/ ResendQueue(p)

Poll(p) ==
    \/ \E c \in Challenges : PollRead(p, c)
    \/ PollExpired(p) \/ PollDecide(p) \/ PollLock(p) \/ PollSession(p)

Subscribe(p) ==
    \/ \E c \in Challenges : SubscribeRead(p, c)
    \/ SubscribeExpired(p) \/ SubscribeAsRead(p) \/ SubscribeJoin(p)

Handle(p) == \/ Login(p) \/ TrustedDecision(p) \/ SubmitCode(p) \/ Resend(p)
             \/ Poll(p) \/ Subscribe(p) \/ Notify(p) \/ Crash(p)

Next ==
    \/ \E p \in Procs : Handle(p)
    \/ \E c \in Challenges, sent \in BOOLEAN : Deliver(c, sent)
    \/ \E c \in Challenges : Unsubscribe(c) \/ Expire(c)
    \/ \E d \in Devices : SignOut(d) \/ SignIn(d)

Spec == Init /\ [][Next]_vars

-----------------------------------------------------------------------------
(* Properties.                                                             *)

\* A challenge is good for one session, however many polls find it approved: the row
\* is deleted under its lock before a session is made (views.py:596-608).
OneSessionPerChallenge == \A c \in Challenges : minted[c] <= 1

\* A refusal holds.  If a signed-in device's denial was answered ok, or the new device
\* was sent "rejected" or "expired", no session comes of the challenge, before or
\* after: the denial is saved without a lock, possibly over an approval, and the poll
\* that found the approval must find out (views.py:552-557, 596-606).
RefusalHolds ==
    \A c \in Challenges :
        c \in denied \cup refused => minted[c] = 0

\* Wrong codes are few: concurrent submissions do not buy a guess beyond
\* CODE_MAX_ATTEMPTS, since every one is compared and counted under the row's lock.
GuessesBounded == \A c \in Challenges : wrong[c] <= CodeMaxAttempts

\* Two challenges of an account are pending together only if they were made by logins
\* that overlapped; a login that began later leaves its predecessors' challenges dead
\* (create_device_challenge, device_trust.py:64-66).
PendingTogetherOverlapped ==
    \A c, e \in Challenges :
        c # e /\ status[c] = "pending" /\ status[e] = "pending"
            => c \notin older[e] /\ e \notin older[c]

\* Seen from outside, a challenge lives as ChallengeLifecycle says: the unlocked
\* reads and writes of the handlers never bring a dead challenge back.
Life(c) ==
    CASE status[c] \in {"unused", "pending", "approved"} -> status[c]
      [] status[c] \in {"rejected", "expired"} -> "dead"
      [] status[c] = "gone" -> "used"
Abstract == INSTANCE ChallengeLifecycle WITH
    life <- [c \in Challenges |-> Life(c)], sessions <- minted,
    issuing <- {c \in Challenges : \E p \in Procs : pc[p] = "poll_session" /\ req[p].c = c}
ChallengesLiveOnce == Abstract!Spec
=============================================================================
