---------------------------- MODULE DeviceLoginProofs ----------------------------
(* The device-login challenge is good for one session, a refusal of it holds, its    *)
(* guesses are bounded, and it lives as ChallengeLifecycle says: for any challenges, *)
(* devices and processes.  Everything rests on what the handlers' local variables    *)
(* still say of the row when they are used: a challenge that is being entered is     *)
(* nobody else's, one that was read dead is dead, and one that a poll has used up is *)
(* gone and that poll's alone.                                                       *)
EXTENDS DeviceLogin, TLAPS

Dead(c) == status[c] \in {"rejected", "expired"}
Past(c) == status[c] \notin {"unused", "pending"}

\* The labels of a login on its way to the INSERT, and of handlers that have found a row.
Entering == {"login_delivery", "login_supersede", "login_insert"}
Working == Labels \ (Entering \cup {"idle", "login_session"})

\* What p may rely on when it is about to run label with the local variables r.
Sound(p, label, r) ==
    /\ label \in Entering \cup {"login_session"} => r.d \in Devices
    /\ label \in Entering => /\ r.c \in Challenges /\ status[r.c] = "unused"
                             /\ \A q \in Procs \ {p} : req[q].c # r.c
    /\ label \in {"login_supersede", "login_insert"} => r.read \in {"trusted_device", "email"}
    /\ label = "login_insert" => \A e \in r.older : Past(e)
    /\ label \in Working => r.c \in Challenges /\ status[r.c] # "unused"
    /\ r.read \in {"rejected", "expired"} => r.c \in Challenges /\ Dead(r.c)
    /\ label = "poll_session" => /\ status[r.c] = "gone" /\ minted[r.c] = 0
                                 /\ \A q \in Procs \ {p} : pc[q] = "poll_session" => req[q].c # r.c
RequestsSound == \A p \in Procs : Sound(p, pc[p], req[p])

\* What the row, and what was said about it, say of one another.
RowsSound ==
    \A c \in Challenges :
        /\ wrong[c] = attempts[c]
        /\ minted[c] <= 1 /\ (minted[c] # 0 => status[c] = "gone")
        /\ c \in denied \cup refused => Dead(c)
        /\ status[c] # "unused" => device[c] \in Devices
        /\ \A e \in older[c] : Past(e)

Inv == TypeOK /\ RequestsSound /\ RowsSound

Moves(p, label, r) ==
    /\ pc' = [pc EXCEPT ![p] = label]
    /\ req' = [req EXCEPT ![p] = r]

LEMMA InitInv == Init => Inv
<1> SUFFICES ASSUME Init PROVE Inv
    OBVIOUS
<1>1. TypeOK
    BY GuestsAssumption, AttemptsAssumption
    DEF Init, TypeOK, Labels, Request, NoRequest, Statuses
<1>2. RequestsSound
    BY DEF Init, RequestsSound, Sound, Entering, Working, NoRequest
<1>3. ASSUME NEW c \in Challenges
      PROVE  /\ wrong[c] = 0 /\ attempts[c] = 0 /\ minted[c] = 0 /\ older[c] = {}
             /\ c \notin denied \cup refused /\ status[c] = "unused"
    BY DEF Init
<1>4. RowsSound
    <2> SUFFICES ASSUME NEW c \in Challenges
                 PROVE  /\ wrong[c] = attempts[c]
                        /\ minted[c] <= 1 /\ (minted[c] # 0 => status[c] = "gone")
                        /\ c \in denied \cup refused => Dead(c)
                        /\ status[c] # "unused" => device[c] \in Devices
                        /\ \A e \in older[c] : Past(e)
        BY DEF RowsSound
    <2> QED
        BY <1>3
<1> QED
    BY <1>1, <1>2, <1>4 DEF Inv

-----------------------------------------------------------------------------
\* The records a handler's local variables go through are requests.
LEMMA RequestsTyped ==
    /\ NoRequest \in Request
    /\ NoRequest.c = "none" /\ NoRequest.read = "none"
    /\ \A c \in Challenges, s \in Statuses \cup {"none"}, f \in BOOLEAN :
          /\ [NoRequest EXCEPT !.c = c] \in Request
          /\ [NoRequest EXCEPT !.c = c, !.read = s] \in Request
          /\ [NoRequest EXCEPT !.c = c, !.read = s, !.fresh = f] \in Request
BY DEF NoRequest, Request, Statuses

\* What the other handlers rely on is left alone by a step of p that brings no challenge
\* back, enters and uses up none but its own, and takes none on that is being entered.
LEMMA OthersSound ==
    ASSUME Inv, NEW p \in Procs, NEW label, NEW r, Moves(p, label, r),
           \A e \in Challenges : Dead(e) => Dead(e)',
           \A e \in Challenges : Past(e) => Past(e)',
           \A e \in Challenges : status[e] = "gone" => status'[e] = "gone",
           \A e \in Challenges : status[e] # "unused" => status'[e] # "unused",
           \A e \in Challenges : status[e] = "unused" /\ e # req[p].c => status'[e] = "unused",
           \/ minted' = minted
           \/ pc[p] = "poll_session" /\ \A e \in Challenges \ {req[p].c} : minted'[e] = minted[e],
           \/ r.c = "none" \/ r.c = req[p].c \/ r.c \in Stored
           \/ \A q \in Procs \ {p} : req[q].c # r.c,
           label = "poll_session" =>
               \A q \in Procs \ {p} : pc[q] = "poll_session" => req[q].c # r.c
    PROVE  \A q \in Procs \ {p} : Sound(q, pc[q], req[q])'
<1> SUFFICES ASSUME NEW q \in Procs \ {p} PROVE Sound(q, pc[q], req[q])'
    BY Zenon
<1>1. \A k \in Procs : /\ pc'[k] = IF k = p THEN label ELSE pc[k]
                       /\ req'[k] = IF k = p THEN r ELSE req[k]
    BY DEF Moves, Inv, TypeOK
<1>2. pc'[q] = pc[q] /\ req'[q] = req[q]
    BY <1>1
<1>3. Sound(q, pc[q], req[q]) /\ Sound(p, pc[p], req[p])
    BY DEF Inv, RequestsSound
<1>4. pc[q] \in Entering => req[q].c # r.c /\ req[q].c # req[p].c
    BY <1>3, IdleAssumption DEF Sound, Stored, Statuses
<1>5. req[q].older \subseteq Challenges
    BY DEF Inv, TypeOK, Request
<1>6. pc[q] = "poll_session" => req[q].c \in Challenges
    BY <1>3 DEF Sound, Working, Labels, Entering
<1>7. req[q].read \in {"rejected", "expired"} =>
          req[q].c \in Challenges /\ Dead(req[q].c)'
    BY <1>2, <1>3 DEF Sound, Dead
<1>8. pc[q] = "login_insert" => \A e \in req[q].older : Past(e)'
    BY <1>3, <1>5 DEF Sound, Past
<1>9. /\ pc[q] \in Entering \cup {"login_session"} => req[q].d \in Devices
      /\ pc[q] \in {"login_supersede", "login_insert"} =>
             req[q].read \in {"trusted_device", "email"}
    BY <1>3 DEF Sound
<1>10. pc[q] \in Entering => /\ req[q].c \in Challenges /\ status'[req[q].c] = "unused"
                             /\ \A k \in Procs \ {q} : req'[k].c # req[q].c
    BY <1>1, <1>3, <1>4 DEF Sound
<1>11. pc[q] \in Working => req[q].c \in Challenges /\ status'[req[q].c] # "unused"
    BY <1>3 DEF Sound
<1>12. pc[q] = "poll_session" =>
          /\ status'[req[q].c] = "gone" /\ minted'[req[q].c] = 0
          /\ \A k \in Procs \ {q} : pc'[k] = "poll_session" => req'[k].c # req[q].c
    BY <1>1, <1>3, <1>6 DEF Sound
<1> QED
    BY <1>2, <1>7, <1>8, <1>9, <1>10, <1>11, <1>12 DEF Sound, Dead, Past

\* Only p's handler moves on: what was recorded stays, and a device that is told of a
\* refusal is told of a dead challenge.
LEMMA LocalStep ==
    ASSUME Inv, NEW p \in Procs, NEW label \in Labels, NEW r \in Request,
           Moves(p, label, r), Sound(p, label, r), label # "poll_session",
           r.c = "none" \/ r.c = req[p].c \/ r.c \in Stored \/ label \in Entering,
           UNCHANGED <<row, wrong, minted, denied>>,
           expired' \subseteq Challenges, active' \subseteq Devices, queue' \subseteq Challenges,
           asked' \subseteq Challenges, revealed' \subseteq Challenges, subs' \subseteq Challenges,
           refused' \subseteq Challenges, crashes' \in Nat,
           \A c \in refused' \ refused : Dead(c)
    PROVE  Inv'
<1>1. \A q \in Procs : /\ pc'[q] = IF q = p THEN label ELSE pc[q]
                       /\ req'[q] = IF q = p THEN r ELSE req[q]
    BY DEF Moves, Inv, TypeOK
<1>2. TypeOK'
    BY DEF Inv, TypeOK, Moves, row
<1>3. RowsSound'
    BY DEF Inv, TypeOK, RowsSound, Dead, Past, row
<1>4. Sound(p, pc[p], req[p])'
    BY <1>1 DEF Sound, Dead, Past, row
<1>5. /\ \A e \in Challenges : Dead(e) => Dead(e)'
      /\ \A e \in Challenges : Past(e) => Past(e)'
    BY DEF Dead, Past, row
<1>6. \/ r.c = "none" \/ r.c = req[p].c \/ r.c \in Stored
      \/ \A q \in Procs \ {p} : req[q].c # r.c
    BY DEF Sound
<1>7. \A q \in Procs \ {p} : Sound(q, pc[q], req[q])'
    BY <1>5, <1>6, OthersSound DEF row, Dead, Past
<1>8. RequestsSound'
    BY <1>4, <1>7 DEF RequestsSound
<1> QED
    BY <1>2, <1>3, <1>8 DEF Inv

\* A handler writes a challenge off and tells of it at most that one.
LEMMA DieStep ==
    ASSUME Inv, NEW p \in Procs, NEW c \in Stored, NEW s \in {"rejected", "expired"},
           SaveStatus(c, s), NEW label \in {"idle", "notify", "sub_join"},
           NEW r \in Request, Moves(p, label, r), pc[p] \in Working, req[p].c = c,
           \/ label = "idle" /\ r = NoRequest
           \/ label # "idle" /\ r.c = c /\ r.read = s,
           otp' \in [Challenges -> BOOLEAN],
           UNCHANGED <<attempts, delivery, device, older, expired, active, people, subs,
                       wrong, minted, crashes>>,
           denied' \subseteq denied \cup {c}, refused' \subseteq refused \cup {c}
    PROVE  Inv'
<1>1. \A q \in Procs : /\ pc'[q] = IF q = p THEN label ELSE pc[q]
                       /\ req'[q] = IF q = p THEN r ELSE req[q]
    BY DEF Moves, Inv, TypeOK
<1>2. /\ c \in Challenges /\ status[c] \in Statuses
      /\ status'[c] = s /\ \A e \in Challenges \ {c} : status'[e] = status[e]
    BY DEF Stored, SaveStatus, Inv, TypeOK
<1>3. TypeOK'
    <2>1. status' \in [Challenges -> Statuses \cup {"unused", "gone"}]
        BY DEF SaveStatus, Inv, TypeOK, Statuses
    <2>2. label \in Labels /\ pc' \in [Procs -> Labels] /\ req' \in [Procs -> Request]
        BY DEF Moves, Inv, TypeOK, Labels
    <2> QED
        BY <1>2, <2>1, <2>2 DEF Inv, TypeOK, people
<1>4. \A e \in Challenges : Dead(e) => Dead(e)'
    BY <1>2 DEF Dead
<1>5. \A e \in Challenges : Past(e) => Past(e)'
    BY <1>2 DEF Past
<1>6. \A e \in Challenges : status'[e] = "gone" <=> status[e] = "gone"
    BY <1>2 DEF Statuses
<1>7. \A e \in Challenges : status'[e] = "unused" <=> status[e] = "unused"
    BY <1>2 DEF Statuses
<1>8. RowsSound'
    <2> SUFFICES ASSUME NEW e \in Challenges
                 PROVE  /\ wrong'[e] = attempts'[e]
                        /\ minted'[e] <= 1 /\ (minted'[e] # 0 => status'[e] = "gone")
                        /\ e \in denied' \cup refused' => Dead(e)'
                        /\ status'[e] # "unused" => device'[e] \in Devices
                        /\ \A f \in older'[e] : Past(f)'
        BY DEF RowsSound, Dead, Past
    <2>1. wrong'[e] = attempts'[e] /\ minted'[e] <= 1
        BY DEF Inv, RowsSound
    <2>2. minted'[e] # 0 => status'[e] = "gone"
        BY <1>6 DEF Inv, RowsSound
    <2>3. e \in denied' \cup refused' => Dead(e)'
        BY <1>2, <1>4 DEF Inv, RowsSound, Dead
    <2>4. status'[e] # "unused" => device'[e] \in Devices
        BY <1>7 DEF Inv, RowsSound
    <2>5. \A f \in older'[e] : Past(f)'
        BY <1>5 DEF Inv, TypeOK, RowsSound, Past
    <2> QED
        BY <2>1, <2>2, <2>3, <2>4, <2>5 DEF Dead, Past
<1>9. Sound(p, pc[p], req[p])'
    <2>1. Sound(p, pc[p], req[p])
        BY DEF Inv, RequestsSound
    <2> QED
        BY <1>1, <1>2, <2>1, RequestsTyped
        DEF Sound, Entering, Working, Labels, Statuses, Dead, Past
<1>10. \/ r.c = "none" \/ r.c = req[p].c \/ r.c \in Stored
       \/ \A q \in Procs \ {p} : req[q].c # r.c
    BY RequestsTyped
<1>11. \A q \in Procs \ {p} : Sound(q, pc[q], req[q])'
    BY <1>4, <1>5, <1>6, <1>7, <1>10, OthersSound DEF Dead, Past
<1>12. RequestsSound'
    BY <1>9, <1>11 DEF RequestsSound
<1> QED
    BY <1>3, <1>8, <1>12 DEF Inv

-----------------------------------------------------------------------------
\* A handler begins by reading the row, or goes on, or ends, and writes nothing.
LEMMA FinishStep ==
    ASSUME Inv, NEW p \in Procs, Finish(p),
           UNCHANGED <<row, expired, wrong, minted, denied>>,
           active' \subseteq Devices, queue' \subseteq Challenges,
           asked' \subseteq Challenges, revealed' \subseteq Challenges, subs' \subseteq Challenges,
           refused' \subseteq Challenges, \A c \in refused' \ refused : Dead(c)
    PROVE  Inv'
<1>1. Moves(p, "idle", NoRequest) /\ crashes' \in Nat /\ expired' \subseteq Challenges
    BY DEF Finish, Moves, Inv, TypeOK
<1>2. "idle" \in Labels /\ Sound(p, "idle", NoRequest)
    BY RequestsTyped DEF Labels, Sound, Entering, Working
<1> QED
    BY <1>1, <1>2, RequestsTyped, LocalStep

LEMMA ReadStep ==
    ASSUME Inv, NEW p \in Procs, NEW c \in Challenges, NEW label \in Labels,
           label \in Working \ {"poll_session"}, ReadRow(p, c, label)
    PROVE  Inv'
<1> DEFINE r == [NoRequest EXCEPT !.c = c, !.read = status[c], !.fresh = c \notin expired]
<1>1. Moves(p, label, r) /\ c \in Stored
    BY DEF ReadRow, Begin, Moves
<1>2. r \in Request /\ r.c = c /\ r.read = status[c]
    BY <1>1, RequestsTyped DEF Stored, NoRequest
<1>3. status[c] # "unused" /\ label \notin Entering /\ label # "login_session"
    BY <1>1 DEF Stored, Statuses, Working
<1> HIDE DEF r
<1>4. Sound(p, label, r)
    BY <1>2, <1>3 DEF Sound, Dead, Entering
<1>5. UNCHANGED <<row, expired, active, people, events, outcome>> /\ crashes' = crashes
    BY DEF ReadRow, Begin
<1> QED
    BY <1>1, <1>2, <1>4, <1>5, LocalStep DEF people, events, outcome, Inv, TypeOK

\* A handler goes on with its challenge, and with the status it has written or read.
LEMMA GoOn ==
    ASSUME Inv, NEW p \in Procs, NEW label \in Working, label # "poll_session",
           NEW r \in Request, Moves(p, label, r), pc[p] \in Working, r.c = req[p].c,
           r.read \in {req[p].read, "none", "approved"},
           UNCHANGED <<row, expired, active, people, events, outcome, crashes>>
    PROVE  Inv'
<1>1. Sound(p, pc[p], req[p])
    BY DEF Inv, RequestsSound
<1>2. Sound(p, label, r)
    BY <1>1 DEF Sound, Entering, Working, Labels
<1>3. label \in Labels
    BY DEF Working
<1> QED
    BY <1>2, <1>3, LocalStep DEF people, events, outcome, Inv, TypeOK

-----------------------------------------------------------------------------
(* Logging in.                                                             *)

\* The challenges that were there when a login superseded them are past.
LEMMA SupersedeStep ==
    ASSUME Inv, NEW p \in Procs, Supersede(p)
    PROVE  Inv'
<1> DEFINE r == [req[p] EXCEPT !.older = Stored]
<1>1. Sound(p, pc[p], req[p]) /\ pc[p] = "login_supersede" /\ req[p] \in Request
    BY DEF Inv, RequestsSound, TypeOK, Supersede
<1>2. /\ r \in Request /\ r.c = req[p].c /\ r.d = req[p].d /\ r.read = req[p].read
      /\ r.older = Stored
    BY <1>1 DEF Request, Stored
<1>3. Moves(p, "login_insert", r)
    BY DEF Supersede, Moves
<1> HIDE DEF r
<1>4. \A e \in Challenges :
          status'[e] = IF status[e] = "pending" THEN "expired" ELSE status[e]
    BY DEF Supersede
<1>5. /\ pc'[p] = "login_insert" /\ req'[p] = r
      /\ \A q \in Procs \ {p} : req'[q] = req[q]
    BY <1>3 DEF Moves, Inv, TypeOK
<1>6. \A e \in Challenges : Dead(e) => Dead(e)'
    BY <1>4 DEF Dead
<1>7. \A e \in Challenges : Past(e) => Past(e)'
    BY <1>4 DEF Past
<1>8. \A e \in Challenges : /\ status'[e] = "gone" <=> status[e] = "gone"
                            /\ status'[e] = "unused" <=> status[e] = "unused"
    BY <1>4
<1>9. TypeOK'
    <2>1. status' \in [Challenges -> Statuses \cup {"unused", "gone"}]
        BY DEF Supersede, Inv, TypeOK, Statuses
    <2>2. "login_insert" \in Labels /\ pc' \in [Procs -> Labels] /\ req' \in [Procs -> Request]
        BY <1>2, <1>3 DEF Moves, Inv, TypeOK, Labels
    <2> QED
        BY <2>1, <2>2 DEF Supersede, Inv, TypeOK, people, events, outcome
<1>10. RowsSound'
    BY <1>6, <1>7, <1>8 DEF Supersede, Inv, TypeOK, RowsSound, outcome, events, Dead, Past
<1>11. \A e \in Stored : Past(e)'
    BY <1>4 DEF Stored, Statuses, Past
<1>12. Sound(p, pc[p], req[p])'
    BY <1>1, <1>2, <1>5, <1>8, <1>11 DEF Sound, Entering, Working, Past
<1>13. \A q \in Procs \ {p} : Sound(q, pc[q], req[q])'
    BY <1>2, <1>3, <1>6, <1>7, <1>8, OthersSound DEF Supersede, outcome, Dead, Past
<1>14. RequestsSound'
    BY <1>12, <1>13 DEF RequestsSound
<1> QED
    BY <1>9, <1>10, <1>14 DEF Inv

LEMMA InsertStep ==
    ASSUME Inv, NEW p \in Procs, InsertChallenge(p)
    PROVE  Inv'
<1> DEFINE c == req[p].c
           r == [NoRequest EXCEPT !.c = req[p].c]
<1>1. Sound(p, pc[p], req[p]) /\ pc[p] = "login_insert" /\ req[p] \in Request
    BY DEF Inv, RequestsSound, TypeOK, InsertChallenge
<1>2. /\ c \in Challenges /\ status[c] = "unused" /\ req[p].d \in Devices
      /\ req[p].read \in {"trusted_device", "email"}
      /\ \A e \in req[p].older : Past(e)
    BY <1>1 DEF Sound, Entering
<1>3. r \in Request /\ r.c = c /\ r.read = "none"
    BY <1>2, RequestsTyped DEF NoRequest
<1>4. Moves(p, "login_queue", r)
    BY DEF InsertChallenge, Goto, Moves
<1>5. /\ pc'[p] = "login_queue" /\ req'[p] = r
    BY <1>4 DEF Moves, Inv, TypeOK
<1> HIDE DEF r
<1>6. status'[c] = "pending" /\ \A e \in Challenges \ {c} : status'[e] = status[e]
    BY <1>2 DEF InsertChallenge, Inv, TypeOK
<1>7. \A e \in Challenges : Dead(e) => Dead(e)'
    BY <1>2, <1>6 DEF Dead
<1>8. \A e \in Challenges : Past(e) => Past(e)'
    BY <1>2, <1>6 DEF Past
<1>9. \A e \in Challenges : status'[e] = "gone" <=> status[e] = "gone"
    BY <1>2, <1>6
<1>10. \A e \in Challenges : status[e] # "unused" => status'[e] # "unused"
    BY <1>2, <1>6
<1>11. /\ device'[c] \in Devices /\ \A e \in Challenges \ {c} : device'[e] = device[e]
       /\ older'[c] = req[p].older /\ \A e \in Challenges \ {c} : older'[e] = older[e]
    BY <1>2 DEF InsertChallenge, Inv, TypeOK
<1>12. TypeOK'
    <2>1. status' \in [Challenges -> Statuses \cup {"unused", "gone"}]
        BY DEF InsertChallenge, Inv, TypeOK, Statuses
    <2>2. /\ otp' \in [Challenges -> BOOLEAN]
          /\ delivery' \in [Challenges -> {"trusted_device", "email"}]
        BY <1>2 DEF InsertChallenge, Inv, TypeOK
    <2>3. /\ device' \in [Challenges -> Devices \cup {"none"}]
          /\ older' \in [Challenges -> SUBSET Challenges]
        BY <1>1, <1>2 DEF InsertChallenge, Inv, TypeOK, Request
    <2>4. "login_queue" \in Labels /\ pc' \in [Procs -> Labels] /\ req' \in [Procs -> Request]
        BY <1>3, <1>4 DEF Moves, Inv, TypeOK, Labels
    <2> QED
        BY <2>1, <2>2, <2>3, <2>4
        DEF InsertChallenge, Goto, Inv, TypeOK, people, events, outcome
<1>13. ASSUME NEW e \in Challenges
       PROVE  /\ wrong'[e] = attempts'[e]
              /\ minted'[e] <= 1 /\ (minted'[e] # 0 => status'[e] = "gone")
              /\ e \in denied' \cup refused' => Dead(e)'
              /\ status'[e] # "unused" => device'[e] \in Devices
              /\ \A f \in older'[e] : Past(f)'
    <2>1. wrong'[e] = attempts'[e] /\ minted'[e] <= 1 /\ (minted'[e] # 0 => status'[e] = "gone")
        BY <1>9 DEF InsertChallenge, Inv, RowsSound, outcome
    <2>2. e \in denied' \cup refused' => Dead(e)'
        BY <1>7 DEF InsertChallenge, Inv, RowsSound, outcome, events, Dead
    <2>3. status'[e] # "unused" => device'[e] \in Devices
        BY <1>6, <1>11 DEF Inv, RowsSound
    <2>4. older'[e] \subseteq Challenges /\ \A f \in older'[e] : Past(f)
        BY <1>2, <1>11, <1>12 DEF Inv, TypeOK, RowsSound
    <2>5. \A f \in older'[e] : Past(f)'
        BY <1>8, <2>4 DEF Past
    <2> QED
        BY <2>1, <2>2, <2>3, <2>5 DEF Dead, Past
<1>14. RowsSound'
    BY <1>13 DEF RowsSound, Dead, Past
<1>15. Sound(p, pc[p], req[p])'
    BY <1>2, <1>3, <1>5, <1>6 DEF Sound, Entering, Working
<1>16. \A q \in Procs \ {p} : Sound(q, pc[q], req[q])'
    BY <1>3, <1>4, <1>6, <1>7, <1>8, <1>9, <1>10, OthersSound
    DEF InsertChallenge, outcome, Dead, Past
<1>17. RequestsSound'
    BY <1>15, <1>16 DEF RequestsSound
<1> QED
    BY <1>12, <1>14, <1>17 DEF Inv

LEMMA LoginStep ==
    ASSUME Inv, NEW p \in Procs, Login(p)
    PROVE  Inv'
<1>1. ASSUME NEW d \in Guests, LoginGate(p, d) PROVE Inv'
    <2>1. UNCHANGED <<row, expired, active, people, events, outcome>> /\ crashes' = crashes
        BY <1>1 DEF LoginGate, Begin
    <2>2. d \in Devices
        BY GuestsAssumption
    <2>3. CASE Begin(p, "login_session", [NoRequest EXCEPT !.d = d])
        <3> DEFINE r == [NoRequest EXCEPT !.d = d]
        <3>1. r \in Request /\ r.c = "none" /\ r.read = "none" /\ r.d = d
            BY <2>2 DEF NoRequest, Request
        <3> HIDE DEF r
        <3>2. "login_session" \in Labels /\ Sound(p, "login_session", r)
            BY <2>2, <3>1 DEF Labels, Sound, Entering, Working
        <3>3. Moves(p, "login_session", r)
            BY <2>3 DEF Begin, Moves, r
        <3> QED
            BY <2>1, <3>1, <3>2, <3>3, LocalStep DEF people, events, outcome, Inv, TypeOK
    <2>4. ASSUME NEW c \in Fresh, Begin(p, "login_delivery", [NoRequest EXCEPT !.c = c, !.d = d])
          PROVE  Inv'
        <3> DEFINE r == [NoRequest EXCEPT !.c = c, !.d = d]
        <3>1. r \in Request /\ r.c = c /\ r.read = "none" /\ r.d = d
            BY <2>2 DEF NoRequest, Request, Fresh
        <3> HIDE DEF r
        <3>2. "login_delivery" \in Labels \cap Entering /\ Sound(p, "login_delivery", r)
            BY <2>2, <3>1 DEF Labels, Sound, Entering, Working, Fresh
        <3>3. Moves(p, "login_delivery", r)
            BY <2>4 DEF Begin, Moves, r
        <3> QED
            BY <2>1, <3>1, <3>2, <3>3, LocalStep DEF people, events, outcome, Inv, TypeOK
    <2> QED
        BY <1>1, <2>3, <2>4 DEF LoginGate
<1>2. ASSUME LoginSession(p) PROVE Inv'
    <2>1. Sound(p, pc[p], req[p])
        BY DEF Inv, RequestsSound
    <2>2. active' \subseteq Devices
        BY <1>2, <2>1 DEF LoginSession, Sound, Inv, TypeOK
    <2> QED
        BY <1>2, <2>2, FinishStep DEF LoginSession, people, events, outcome, Inv, TypeOK
<1>3. ASSUME LoginDelivery(p) PROVE Inv'
    <2> DEFINE r == [req[p] EXCEPT !.read = IF active # {} THEN "trusted_device" ELSE "email"]
    <2>1. Sound(p, pc[p], req[p]) /\ pc[p] = "login_delivery" /\ req[p] \in Request
        BY <1>3 DEF Inv, RequestsSound, TypeOK, LoginDelivery
    <2>2. /\ r \in Request /\ r.c = req[p].c /\ r.d = req[p].d
          /\ r.read \in {"trusted_device", "email"}
        BY <2>1 DEF Request
    <2>3. Moves(p, "login_supersede", r)
        BY <1>3 DEF LoginDelivery, Moves
    <2> HIDE DEF r
    <2>4. "login_supersede" \in Labels /\ Sound(p, "login_supersede", r)
        BY <2>1, <2>2 DEF Sound, Labels, Entering, Working
    <2> QED
        BY <1>3, <2>2, <2>3, <2>4, LocalStep
        DEF LoginDelivery, people, events, outcome, Inv, TypeOK
<1>4. ASSUME QueueDelivery(p, "login_queue") PROVE Inv'
    <2>1. req[p].c \in Challenges
        BY <1>4 DEF QueueDelivery, Inv, RequestsSound, Sound, Working, Labels, Entering
    <2>2. queue' \subseteq Challenges
        BY <1>4, <2>1 DEF QueueDelivery, Inv, TypeOK
    <2> QED
        BY <1>4, <2>2, FinishStep DEF QueueDelivery, events, outcome, Inv, TypeOK
<1> QED
    BY <1>1, <1>2, <1>3, <1>4, SupersedeStep, InsertStep DEF Login

-----------------------------------------------------------------------------
(* Deciding, submitting, resending.                                        *)

\* A save that fails ends the request.
LEMMA FailStep ==
    ASSUME Inv, NEW p \in Procs, SaveFails(p)
    PROVE  Inv'
BY FinishStep DEF SaveFails, people, events, outcome, Inv, TypeOK

\* A handler that has found its challenge expired, or refuses it, has found a row.
LEMMA DecideExpiredStep ==
    ASSUME Inv, NEW p \in Procs, NEW label \in Working, DecideExpired(p, label)
    PROVE  Inv'
<1> DEFINE c == req[p].c
<1>1. CASE SaveFails(p)
    BY <1>1, FailStep
<1>2. CASE ~SaveFails(p)
    <2> DEFINE r == [NoRequest EXCEPT !.c = req[p].c, !.read = "expired"]
    <2>1. /\ c \in Stored /\ SaveStatus(c, "expired") /\ otp' = [otp EXCEPT ![c] = FALSE]
          /\ pc[p] \in Working /\ Moves(p, "notify", r) /\ crashes' = crashes
          /\ UNCHANGED <<attempts, delivery, device, older, expired, active, people,
                         events, outcome>>
        BY <1>2 DEF DecideExpired, SaveStatusAndOtp, SaveStatus, GoNotify, Moves
    <2>2. r \in Request /\ r.c = c /\ r.read = "expired"
        BY <2>1, RequestsTyped DEF Stored, Statuses, NoRequest
    <2>3. otp' \in [Challenges -> BOOLEAN]
        BY <2>1 DEF Inv, TypeOK
    <2> HIDE DEF r, c
    <2> QED
        BY <2>1, <2>2, <2>3, DieStep DEF events, outcome, c
<1> QED
    BY <1>1, <1>2

LEMMA DenyStep ==
    ASSUME Inv, NEW p \in Procs, Deny(p)
    PROVE  Inv'
<1> DEFINE c == req[p].c
<1>1. CASE SaveFails(p)
    BY <1>1, FailStep
<1>2. CASE ~SaveFails(p)
    <2> DEFINE r == [NoRequest EXCEPT !.c = req[p].c, !.read = "rejected"]
    <2>1. /\ c \in Stored /\ SaveStatus(c, "rejected") /\ otp' = [otp EXCEPT ![c] = FALSE]
          /\ pc[p] = "decide" /\ Moves(p, "notify", r) /\ crashes' = crashes
          /\ denied' = denied \cup {c}
          /\ UNCHANGED <<attempts, delivery, device, older, expired, active, people,
                         events, wrong, minted>>
        BY <1>2 DEF Deny, SaveStatusAndOtp, SaveStatus, GoNotify, Moves
    <2>2. r \in Request /\ r.c = c /\ r.read = "rejected"
        BY <2>1, RequestsTyped DEF Stored, Statuses, NoRequest
    <2>3. otp' \in [Challenges -> BOOLEAN] /\ pc[p] \in Working
        BY <2>1 DEF Inv, TypeOK, Working, Entering, Labels
    <2> HIDE DEF r, c
    <2> QED
        BY <2>1, <2>2, <2>3, DieStep DEF events, c
<1> QED
    BY <1>1, <1>2

LEMMA TrustedStep ==
    ASSUME Inv, NEW p \in Procs, TrustedDecision(p)
    PROVE  Inv'
<1>1. "decide" \in Labels /\ "decide" \in Working \ {"poll_session"}
    BY DEF Working, Labels, Entering
<1>2. ASSUME NEW c \in Challenges, DecisionRead(p, c) PROVE Inv'
    BY <1>1, <1>2, ReadStep DEF DecisionRead
<1>3. ASSUME Allow(p) PROVE Inv'
    <2>1. Sound(p, pc[p], req[p]) /\ pc[p] = "decide"
        BY <1>3 DEF Inv, RequestsSound, Allow
    <2>2. revealed' \subseteq Challenges
        BY <1>1, <1>3, <2>1 DEF Sound, Allow, Inv, TypeOK
    <2> QED
        BY <1>3, <2>2, FinishStep DEF Allow, events, outcome, Inv, TypeOK
<1>4. ASSUME DecideExpired(p, "decide") PROVE Inv'
    BY <1>1, <1>4, DecideExpiredStep
<1> QED
    BY <1>2, <1>3, <1>4, DenyStep DEF TrustedDecision

LEMMA SubmitWrongStep ==
    ASSUME Inv, NEW p \in Procs, SubmitWrong(p)
    PROVE  Inv'
<1> DEFINE c == req[p].c
<1>1. Moves(p, "idle", NoRequest) /\ crashes' = crashes
    BY DEF SubmitWrong, Finish, Moves
<1>2. c \in Challenges
    BY DEF SubmitWrong, Locked, Inv, RequestsSound, Sound, Working, Labels, Entering
<1>3. /\ attempts'[c] = attempts[c] + 1 /\ wrong'[c] = wrong[c] + 1
      /\ \A e \in Challenges \ {c} : attempts'[e] = attempts[e] /\ wrong'[e] = wrong[e]
    BY <1>2 DEF SubmitWrong, Inv, TypeOK
<1>4. attempts[c] \in Nat /\ attempts[c] < CodeMaxAttempts
    BY <1>2, AttemptsAssumption DEF SubmitWrong, AttemptsLeft, Inv, TypeOK
<1>5. attempts[c] + 1 \in 0..CodeMaxAttempts
    BY <1>4, AttemptsAssumption
<1>6. attempts' \in [Challenges -> 0..CodeMaxAttempts]
    BY <1>2, <1>5 DEF SubmitWrong, Inv, TypeOK
<1>7. wrong' \in [Challenges -> Nat]
    BY <1>2 DEF SubmitWrong, Inv, TypeOK
<1>8. /\ pc' \in [Procs -> Labels] /\ req' \in [Procs -> Request]
      /\ pc'[p] = "idle" /\ req'[p] = NoRequest
    BY <1>1, RequestsTyped DEF Moves, Inv, TypeOK, Labels
<1>9. TypeOK'
    BY <1>1, <1>6, <1>7, <1>8 DEF SubmitWrong, Inv, TypeOK, people, events
<1>10. RowsSound'
    BY <1>2, <1>3 DEF SubmitWrong, Inv, RowsSound, events, Dead, Past
<1>11. Sound(p, pc[p], req[p])'
    BY <1>8, RequestsTyped DEF Sound, Entering, Working
<1>12. \A q \in Procs \ {p} : Sound(q, pc[q], req[q])'
    BY <1>1, RequestsTyped, OthersSound DEF SubmitWrong, Dead, Past
<1>13. RequestsSound'
    BY <1>11, <1>12 DEF RequestsSound
<1> QED
    BY <1>9, <1>10, <1>13 DEF Inv

\* A challenge is approved, or used up, under the lock of its row.
LEMMA LockedStep ==
    ASSUME Inv, NEW p \in Procs, NEW c \in Challenges, NEW s, NEW label, NEW r \in Request,
           \/ status[c] = "pending" /\ s = "approved" /\ label = "notify"
           \/ status[c] = "approved" /\ s = "gone" /\ label = "poll_session",
           status' = [status EXCEPT ![c] = s], otp' = [otp EXCEPT ![c] = FALSE],
           Moves(p, label, r), r.c = c, r.read \in {"none", "approved"},
           pc[p] \in Working, req[p].c = c,
           UNCHANGED <<attempts, delivery, device, older, expired, active, people,
                       events, outcome, crashes>>
    PROVE  Inv'
<1>1. status'[c] = s /\ \A e \in Challenges \ {c} : status'[e] = status[e]
    BY DEF Inv, TypeOK
<1>2. pc'[p] = label /\ req'[p] = r
    BY DEF Moves, Inv, TypeOK
<1>3. \A e \in Challenges : Dead(e) => Dead(e)'
    BY <1>1 DEF Dead
<1>4. \A e \in Challenges : Past(e) => Past(e)'
    BY <1>1 DEF Past
<1>5. \A e \in Challenges : status[e] = "gone" => status'[e] = "gone"
    BY <1>1
<1>6. \A e \in Challenges : status'[e] = "unused" <=> status[e] = "unused"
    BY <1>1
<1>7. TypeOK'
    <2>1. /\ status' \in [Challenges -> Statuses \cup {"unused", "gone"}]
          /\ otp' \in [Challenges -> BOOLEAN]
        BY DEF Inv, TypeOK, Statuses
    <2>2. label \in Labels /\ pc' \in [Procs -> Labels] /\ req' \in [Procs -> Request]
        BY DEF Moves, Inv, TypeOK, Labels
    <2> QED
        BY <2>1, <2>2 DEF Inv, TypeOK, people, events, outcome
<1>8. ASSUME NEW e \in Challenges
      PROVE  /\ wrong'[e] = attempts'[e]
             /\ minted'[e] <= 1 /\ (minted'[e] # 0 => status'[e] = "gone")
             /\ e \in denied' \cup refused' => Dead(e)'
             /\ status'[e] # "unused" => device'[e] \in Devices
             /\ \A f \in older'[e] : Past(f)'
    <2>1. wrong'[e] = attempts'[e] /\ minted'[e] <= 1 /\ (minted'[e] # 0 => status'[e] = "gone")
        BY <1>5 DEF Inv, RowsSound, outcome
    <2>2. e \in denied' \cup refused' => Dead(e)'
        BY <1>3 DEF Inv, RowsSound, outcome, events, Dead
    <2>3. status'[e] # "unused" => device'[e] \in Devices
        BY <1>6 DEF Inv, RowsSound
    <2>4. \A f \in older'[e] : Past(f)'
        BY <1>4 DEF Inv, TypeOK, RowsSound, Past
    <2> QED
        BY <2>1, <2>2, <2>3, <2>4 DEF Dead, Past
<1>9. RowsSound'
    BY <1>8 DEF RowsSound, Dead, Past
<1>10. label = "poll_session" =>
          /\ minted[c] = 0 /\ s = "gone"
          /\ \A q \in Procs \ {p} : pc[q] = "poll_session" => req[q].c # c
    BY DEF Inv, RequestsSound, RowsSound, Sound
<1>11. \A q \in Procs \ {p} : pc'[q] = pc[q] /\ req'[q] = req[q]
    BY DEF Moves, Inv, TypeOK
<1>12. Sound(p, pc[p], req[p])'
    <2>1. label \notin Entering \cup {"login_session"} /\ s # "unused"
        BY DEF Entering
    <2> QED
        BY <1>1, <1>2, <1>10, <1>11, <2>1 DEF Sound, Entering, outcome
<1>13. \A q \in Procs \ {p} : Sound(q, pc[q], req[q])'
    BY <1>3, <1>4, <1>5, <1>6, <1>10, OthersSound DEF outcome, Dead, Past
<1>14. RequestsSound'
    BY <1>12, <1>13 DEF RequestsSound
<1> QED
    BY <1>7, <1>9, <1>14 DEF Inv

LEMMA SubmitStep ==
    ASSUME Inv, NEW p \in Procs, SubmitCode(p)
    PROVE  Inv'
<1> DEFINE c == req[p].c
<1>1. "submit_lock" \in Labels /\ "submit_lock" \in Working \ {"poll_session"}
    BY DEF Working, Labels, Entering
<1>2. ASSUME NEW e \in Challenges, SubmitRead(p, e) PROVE Inv'
    BY <1>1, <1>2, ReadStep DEF SubmitRead
<1>3. ASSUME SubmitGone(p) \/ SubmitTooMany(p) PROVE Inv'
    BY <1>3, FinishStep DEF SubmitGone, SubmitTooMany, people, events, outcome, Inv, TypeOK
<1>4. Locked(p) => /\ pc[p] \in Working /\ c \in Stored /\ c \in Challenges
                   /\ status[c] = "pending"
    BY <1>1 DEF Locked, Inv, RequestsSound, Sound, Stored, Statuses
<1>5. ASSUME SubmitExpired(p) PROVE Inv'
    <2>1. Moves(p, "idle", NoRequest) /\ crashes' = crashes /\ SaveStatus(c, "expired")
        BY <1>5 DEF SubmitExpired, Finish, Moves
    <2>2. otp' \in [Challenges -> BOOLEAN] /\ refused' \subseteq refused \cup {c}
        BY <1>5 DEF SubmitExpired, Told, Inv, TypeOK
    <2>3. Locked(p)
        BY <1>5 DEF SubmitExpired
    <2> HIDE DEF c
    <2> QED
        BY <1>4, <1>5, <2>1, <2>2, <2>3, RequestsTyped, DieStep DEF SubmitExpired, outcome, c
<1>6. ASSUME SubmitRight(p) PROVE Inv'
    <2> DEFINE r == [NoRequest EXCEPT !.c = req[p].c, !.read = "approved"]
    <2>1. /\ Moves(p, "notify", r) /\ crashes' = crashes /\ Locked(p)
          /\ status' = [status EXCEPT ![c] = "approved"] /\ otp' = [otp EXCEPT ![c] = FALSE]
        BY <1>6 DEF SubmitRight, GoNotify, Moves, SaveStatusAndOtp, SaveStatus
    <2>2. r \in Request /\ r.c = c /\ r.read = "approved"
        BY <1>4, <2>1, RequestsTyped DEF Statuses, NoRequest
    <2>3. UNCHANGED <<attempts, delivery, device, older, expired, active, people,
                      events, outcome>>
        BY <1>6 DEF SubmitRight
    <2> HIDE DEF c, r
    <2> QED
        BY <1>4, <2>1, <2>2, <2>3, LockedStep DEF c
<1> QED
    BY <1>2, <1>3, <1>5, <1>6, SubmitWrongStep DEF SubmitCode

LEMMA ResendStep ==
    ASSUME Inv, NEW p \in Procs, Resend(p)
    PROVE  Inv'
<1>1. "resend_decide" \in Labels /\ "resend_decide" \in Working \ {"poll_session"}
    BY DEF Working, Labels, Entering
<1>2. ASSUME NEW c \in Challenges, ResendRead(p, c) PROVE Inv'
    BY <1>1, <1>2, ReadStep DEF ResendRead
<1>3. ASSUME ResendQueue(p) PROVE Inv'
    <2>1. req[p].c \in Challenges
        BY <1>1, <1>3 DEF ResendQueue, QueueDelivery, Inv, RequestsSound, Sound
    <2>2. queue' \subseteq Challenges
        BY <1>3, <2>1 DEF ResendQueue, QueueDelivery, Inv, TypeOK
    <2> QED
        BY <1>3, <2>2, FinishStep DEF ResendQueue, QueueDelivery, events, outcome, Inv, TypeOK
<1>4. ASSUME DecideExpired(p, "resend_decide") PROVE Inv'
    BY <1>1, <1>4, DecideExpiredStep
<1> QED
    BY <1>2, <1>3, <1>4 DEF Resend

-----------------------------------------------------------------------------
(* Polling: a challenge is used up before its session is made.             *)

LEMMA PollSessionStep ==
    ASSUME Inv, NEW p \in Procs, PollSession(p)
    PROVE  Inv'
<1> DEFINE c == req[p].c
<1>1. Moves(p, "idle", NoRequest) /\ crashes' = crashes
    BY DEF PollSession, Finish, Moves
<1>2. /\ c \in Challenges /\ pc[p] = "poll_session" /\ status[c] = "gone" /\ minted[c] = 0
      /\ device[c] \in Devices
    BY DEF PollSession, Inv, RequestsSound, RowsSound, Sound, Working, Labels, Entering
<1>3. minted'[c] = 1 /\ \A e \in Challenges \ {c} : minted'[e] = minted[e]
    BY <1>2 DEF PollSession, Inv, TypeOK
<1>4. minted' \in [Challenges -> Nat] /\ active' \subseteq Devices
    BY <1>2 DEF PollSession, Inv, TypeOK
<1>5. /\ pc' \in [Procs -> Labels] /\ req' \in [Procs -> Request]
      /\ pc'[p] = "idle" /\ req'[p] = NoRequest
    BY <1>1, RequestsTyped DEF Moves, Inv, TypeOK, Labels
<1>6. TypeOK'
    BY <1>1, <1>4, <1>5 DEF PollSession, Inv, TypeOK, row, people, events
<1>7. RowsSound'
    BY <1>2, <1>3 DEF PollSession, Inv, RowsSound, row, events, Dead, Past
<1>8. Sound(p, pc[p], req[p])'
    BY <1>5, RequestsTyped DEF Sound, Entering, Working
<1>9. \A q \in Procs \ {p} : Sound(q, pc[q], req[q])'
    BY <1>1, <1>2, <1>3, RequestsTyped, OthersSound DEF PollSession, row, Dead, Past
<1>10. RequestsSound'
    BY <1>8, <1>9 DEF RequestsSound
<1> QED
    BY <1>6, <1>7, <1>10 DEF Inv

\* Writing off a challenge that was read pending, and telling of it.
LEMMA PollStep ==
    ASSUME Inv, NEW p \in Procs, Poll(p)
    PROVE  Inv'
<1> DEFINE c == req[p].c
<1>1. "poll_decide" \in Labels /\ "poll_decide" \in Working \ {"poll_session"}
    BY DEF Working, Labels, Entering
<1>2. ASSUME NEW e \in Challenges, PollRead(p, e) PROVE Inv'
    BY <1>1, <1>2, ReadStep DEF PollRead
<1>3. ASSUME PollExpired(p) PROVE Inv'
    <2>1. CASE req[p].read # "pending"
        BY <1>3, <2>1, FinishStep DEF PollExpired, people, events, outcome, Inv, TypeOK
    <2>2. CASE SaveFails(p)
        BY <2>2, FailStep
    <2>3. CASE req[p].read = "pending" /\ ~SaveFails(p)
        <3> DEFINE r == [NoRequest EXCEPT !.c = req[p].c, !.read = "expired"]
        <3>1. /\ c \in Stored /\ SaveStatus(c, "expired") /\ otp' = otp
              /\ pc[p] \in Working /\ Moves(p, "notify", r) /\ crashes' = crashes
              /\ UNCHANGED <<attempts, delivery, device, older, expired, active, people,
                             events, outcome>>
            BY <1>1, <1>3, <2>3 DEF PollExpired, SaveStatus, GoNotify, Moves
        <3>2. r \in Request /\ r.c = c /\ r.read = "expired"
            BY <3>1, RequestsTyped DEF Stored, Statuses, NoRequest
        <3>3. otp' \in [Challenges -> BOOLEAN]
            BY <3>1 DEF Inv, TypeOK
        <3> HIDE DEF r, c
        <3> QED
            BY <3>1, <3>2, <3>3, DieStep DEF events, outcome, c
    <2> QED
        BY <2>1, <2>2, <2>3
<1>4. ASSUME PollDecide(p) PROVE Inv'
    <2>1. CASE Finish(p)
        BY <1>4, <2>1, FinishStep DEF PollDecide, people, events, outcome, Inv, TypeOK
    <2>2. CASE ~Finish(p)
        <3> DEFINE r == [NoRequest EXCEPT !.c = req[p].c]
        <3>1. Moves(p, "poll_lock", r) /\ crashes' = crashes /\ pc[p] = "poll_decide"
            BY <1>4, <2>2 DEF PollDecide, Goto, Moves
        <3>2. c \in Challenges
            BY <1>1, <3>1 DEF Inv, RequestsSound, Sound
        <3>3. r \in Request /\ r.c = c /\ r.read = "none"
            BY <3>2, RequestsTyped DEF NoRequest
        <3>4. "poll_lock" \in Working /\ "poll_lock" # "poll_session"
            BY DEF Working, Labels, Entering
        <3> HIDE DEF r, c
        <3> QED
            BY <1>1, <1>4, <3>1, <3>3, <3>4, GoOn DEF PollDecide, c
    <2> QED
        BY <2>1, <2>2
<1>5. ASSUME PollLock(p) PROVE Inv'
    <2>1. pc[p] = "poll_lock" /\ pc[p] \in Working /\ c \in Challenges
        BY <1>5 DEF PollLock, Inv, RequestsSound, Sound, Working, Labels, Entering
    <2>2. CASE status[c] = "approved"
        <3> DEFINE r == [NoRequest EXCEPT !.c = req[p].c]
        <3>1. /\ Moves(p, "poll_session", r) /\ crashes' = crashes
              /\ status' = [status EXCEPT ![c] = "gone"] /\ otp' = [otp EXCEPT ![c] = FALSE]
            BY <1>5, <2>2 DEF PollLock, Goto, Moves
        <3>2. r \in Request /\ r.c = c /\ r.read = "none"
            BY <2>1, RequestsTyped DEF NoRequest
        <3>3. UNCHANGED <<attempts, delivery, device, older, expired, active, people,
                          events, outcome>>
            BY <1>5 DEF PollLock
        <3> HIDE DEF r, c
        <3> QED
            BY <2>1, <2>2, <3>1, <3>2, <3>3, LockedStep DEF c
    <2>3. CASE status[c] # "approved"
        BY <1>5, <2>3, FinishStep DEF PollLock, row, people, events, outcome, Inv, TypeOK
    <2> QED
        BY <2>2, <2>3
<1> QED
    BY <1>2, <1>3, <1>4, <1>5, PollSessionStep DEF Poll

-----------------------------------------------------------------------------
(* Status events.                                                          *)

LEMMA SubscribeStep ==
    ASSUME Inv, NEW p \in Procs, Subscribe(p)
    PROVE  Inv'
<1> DEFINE c == req[p].c
<1>1. /\ "sub_decide" \in Labels /\ "sub_decide" \in Working \ {"poll_session"}
      /\ "sub_join" \in Labels /\ "sub_join" \in Working \ {"poll_session"}
    BY DEF Working, Labels, Entering
<1>2. ASSUME NEW e \in Challenges, SubscribeRead(p, e) PROVE Inv'
    BY <1>1, <1>2, ReadStep DEF SubscribeRead
<1>3. req[p] \in Request /\ Sound(p, pc[p], req[p])
    BY DEF Inv, RequestsSound, TypeOK
<1>4. ASSUME SubscribeExpired(p) PROVE Inv'
    <2>1. CASE SaveFails(p)
        BY <2>1, FailStep
    <2>2. CASE ~SaveFails(p)
        <3> DEFINE r == [req[p] EXCEPT !.read = "expired"]
        <3>1. /\ c \in Stored /\ SaveStatus(c, "expired") /\ otp' = otp
              /\ pc[p] \in Working /\ Moves(p, "sub_join", r) /\ crashes' = crashes
              /\ UNCHANGED <<attempts, delivery, device, older, expired, active, people,
                             events, outcome>>
            BY <1>1, <1>4, <2>2 DEF SubscribeExpired, SaveStatus, Moves
        <3>2. r \in Request /\ r.c = c /\ r.read = "expired"
            BY <1>3 DEF Request, Statuses
        <3>3. otp' \in [Challenges -> BOOLEAN]
            BY <3>1 DEF Inv, TypeOK
        <3> HIDE DEF r, c
        <3> QED
            BY <3>1, <3>2, <3>3, DieStep DEF events, outcome, c
    <2> QED
        BY <2>1, <2>2
<1>5. ASSUME SubscribeAsRead(p) PROVE Inv'
    <2>1. Moves(p, "sub_join", req[p]) /\ crashes' = crashes /\ pc[p] \in Working
        BY <1>1, <1>5 DEF SubscribeAsRead, Moves, Inv, TypeOK
    <2> QED
        BY <1>1, <1>3, <1>5, <2>1, GoOn DEF SubscribeAsRead
<1>6. ASSUME SubscribeJoin(p) PROVE Inv'
    <2>1. c \in Challenges
        BY <1>1, <1>3, <1>6 DEF SubscribeJoin, Sound
    <2>2. subs' \subseteq Challenges /\ refused' \subseteq Challenges
        BY <1>6, <2>1 DEF SubscribeJoin, Told, Inv, TypeOK
    <2>3. \A e \in refused' \ refused : Dead(e)
        BY <1>3, <1>6 DEF SubscribeJoin, Told, Sound
    <2> QED
        BY <1>6, <2>2, <2>3, FinishStep DEF SubscribeJoin, people, outcome, Inv, TypeOK
<1> QED
    BY <1>2, <1>4, <1>5, <1>6 DEF Subscribe

LEMMA NotifyStep ==
    ASSUME Inv, NEW p \in Procs, Notify(p)
    PROVE  Inv'
<1>1. req[p].c \in Challenges /\ Sound(p, pc[p], req[p])
    BY DEF Notify, Inv, RequestsSound, Sound, Working, Labels, Entering
<1>2. refused' \subseteq Challenges /\ \A e \in refused' \ refused : Dead(e)
    BY <1>1 DEF Notify, Told, Sound, Inv, TypeOK
<1> QED
    BY <1>2, FinishStep DEF Notify, people, outcome, Inv, TypeOK

-----------------------------------------------------------------------------
(* Crashes, the queue, time and other sign-ins.                            *)

LEMMA CrashStep ==
    ASSUME Inv, NEW p \in Procs, Crash(p)
    PROVE  Inv'
<1>1. Moves(p, "idle", NoRequest) /\ crashes' \in Nat
    BY DEF Crash, Moves, Inv, TypeOK
<1>2. "idle" \in Labels /\ Sound(p, "idle", NoRequest)
    BY RequestsTyped DEF Labels, Sound, Entering, Working
<1> QED
    BY <1>1, <1>2, RequestsTyped, LocalStep DEF Crash, people, events, outcome, Inv, TypeOK

\* Steps of nobody's handler.
LEMMA OutsideStep ==
    ASSUME Inv, UNCHANGED <<row, wrong, minted, denied, refused, pc, req, crashes>>,
           expired' \subseteq Challenges, active' \subseteq Devices, queue' \subseteq Challenges,
           asked' \subseteq Challenges, revealed' \subseteq Challenges, subs' \subseteq Challenges
    PROVE  Inv'
<1>1. TypeOK'
    BY DEF Inv, TypeOK, row
<1>2. RowsSound'
    BY DEF Inv, RowsSound, row, Dead, Past
<1>3. RequestsSound'
    BY DEF Inv, RequestsSound, row, Sound, Dead, Past
<1> QED
    BY <1>1, <1>2, <1>3 DEF Inv

LEMMA EnvironmentStep ==
    ASSUME Inv,
           \/ \E c \in Challenges, sent \in BOOLEAN : Deliver(c, sent)
           \/ \E c \in Challenges : Unsubscribe(c) \/ Expire(c)
           \/ \E d \in Devices : SignOut(d) \/ SignIn(d)
           \/ UNCHANGED vars
    PROVE  Inv'
<1>1. ASSUME NEW c \in Challenges, NEW sent \in BOOLEAN, Deliver(c, sent) PROVE Inv'
    BY <1>1, OutsideStep DEF Deliver, events, outcome, Inv, TypeOK
<1>2. ASSUME NEW c \in Challenges, Unsubscribe(c) PROVE Inv'
    BY <1>2, OutsideStep DEF Unsubscribe, people, outcome, Inv, TypeOK
<1>3. ASSUME NEW c \in Challenges, Expire(c) PROVE Inv'
    BY <1>3, OutsideStep DEF Expire, people, events, outcome, Inv, TypeOK
<1>4. ASSUME NEW d \in Devices, SignOut(d) \/ SignIn(d) PROVE Inv'
    BY <1>4, OutsideStep DEF SignOut, SignIn, people, events, outcome, Inv, TypeOK
<1>5. ASSUME UNCHANGED vars PROVE Inv'
    BY <1>5, OutsideStep DEF vars, people, events, outcome, Inv, TypeOK
<1> QED
    BY <1>1, <1>2, <1>3, <1>4, <1>5

-----------------------------------------------------------------------------
\* The inductive invariant: what handlers hold of a row stays true of it.
THEOREM InvHolds == Spec => []Inv
<1>1. Init => Inv
    BY InitInv
<1>2. Inv /\ [Next]_vars => Inv'
    <2> SUFFICES ASSUME Inv, [Next]_vars PROVE Inv'
        OBVIOUS
    <2>1. ASSUME NEW p \in Procs, Handle(p) PROVE Inv'
        BY <2>1, LoginStep, TrustedStep, SubmitStep, ResendStep, PollStep, SubscribeStep,
           NotifyStep, CrashStep DEF Handle
    <2> QED
        BY <2>1, EnvironmentStep DEF Next
<1> QED
    BY <1>1, <1>2, PTL DEF Spec

\* Every variable of the model keeps its type.
THEOREM TypeCorrect == Spec => []TypeOK
<1>1. Inv => TypeOK
    BY DEF Inv
<1> QED
    BY <1>1, InvHolds, PTL

\* However many polls find a challenge approved, one session comes of it at most
\* (device_login_poll deletes the row under its lock before it makes the session).
THEOREM OneSession == Spec => []OneSessionPerChallenge
<1>1. Inv => OneSessionPerChallenge
    BY DEF Inv, RowsSound, OneSessionPerChallenge
<1> QED
    BY <1>1, InvHolds, PTL

\* Whoever was told that a challenge is refused or over is told the truth: no session
\* has come of it, nor ever will (the decision, the events and the poll).
THEOREM RefusalsHold == Spec => []RefusalHolds
<1>1. Inv => RefusalHolds
    BY DEF Inv, RowsSound, RefusalHolds, Dead
<1> QED
    BY <1>1, InvHolds, PTL

\* Concurrent submissions buy no guess beyond CODE_MAX_ATTEMPTS.
THEOREM GuessesAreBounded == Spec => []GuessesBounded
<1>1. Inv => GuessesBounded
    <2> SUFFICES ASSUME Inv, NEW c \in Challenges PROVE wrong[c] <= CodeMaxAttempts
        BY DEF GuessesBounded
    <2>1. wrong[c] = attempts[c]
        BY DEF Inv, RowsSound
    <2>2. attempts[c] \in 0..CodeMaxAttempts
        BY DEF Inv, TypeOK
    <2> QED
        BY <2>1, <2>2, AttemptsAssumption
<1> QED
    BY <1>1, InvHolds, PTL

\* A login leaves every challenge that was there before it superseded them dead, so
\* that two are pending together only if their logins overlapped.
THEOREM SupersededStayDead == Spec => []PendingTogetherOverlapped
<1>1. Inv => PendingTogetherOverlapped
    BY DEF Inv, RowsSound, PendingTogetherOverlapped, Past
<1> QED
    BY <1>1, InvHolds, PTL

-----------------------------------------------------------------------------
(* The life of a challenge.  Most steps change no status, or turn rows that are      *)
(* pending, approved or dead into dead ones; the few others are Open, Approve, Use,  *)
(* Issue and Lose.                                                                   *)

Issuing == {c \in Challenges : \E p \in Procs : pc[p] = "poll_session" /\ req[p].c = c}
AbstractStep == [Abstract!Next]_(Abstract!vars)

\* Of p's handler, a step that makes no session, is on neither side of making one, and
\* does to rows nothing but let them die.
Lapses(c) == status[c] \in Statuses /\ status'[c] \in {"rejected", "expired"}
Calm(p) ==
    /\ minted' = minted
    /\ pc[p] # "poll_session" /\ pc'[p] # "poll_session"
    /\ \A q \in Procs \ {p} : pc'[q] = pc[q] /\ req'[q] = req[q]
    /\ \A c \in Challenges : status'[c] = status[c] \/ Lapses(c)

LEMMA LifeReads ==
    ASSUME Inv, NEW c \in Challenges
    PROVE  /\ status[c] \in {"unused", "pending", "approved"} => Life(c) = status[c]
           /\ status[c] \in {"rejected", "expired"} => Life(c) = "dead"
           /\ status[c] = "gone" => Life(c) = "used"
           /\ status[c] \in {"unused", "pending", "approved", "rejected", "expired", "gone"}
<1>1. status[c] \in {"unused", "pending", "approved", "rejected", "expired", "gone"}
    BY DEF Inv, TypeOK, Statuses
<1> QED
    BY <1>1 DEF Life

LEMMA LifeReadsNext ==
    ASSUME Inv', NEW c \in Challenges
    PROVE  /\ status'[c] \in {"unused", "pending", "approved"} => Life(c)' = status'[c]
           /\ status'[c] \in {"rejected", "expired"} => Life(c)' = "dead"
           /\ status'[c] = "gone" => Life(c)' = "used"
           /\ status'[c] \in {"unused", "pending", "approved", "rejected", "expired", "gone"}
<1>1. status'[c] \in {"unused", "pending", "approved", "rejected", "expired", "gone"}
    BY DEF Inv, TypeOK, Statuses
<1> QED
    BY <1>1 DEF Life

\* What is being issued changes with p's own step only.
LEMMA IssuingMoves ==
    ASSUME NEW p \in Procs, \A q \in Procs \ {p} : pc'[q] = pc[q] /\ req'[q] = req[q]
    PROVE  /\ pc[p] # "poll_session" /\ pc'[p] # "poll_session" => Issuing' = Issuing
           /\ pc[p] # "poll_session" /\ pc'[p] = "poll_session" /\ req'[p].c \in Challenges
                  => Issuing' = Issuing \cup {req'[p].c}
<1>1. \A c : c \in Issuing' <=> /\ c \in Challenges
                                /\ \/ pc'[p] = "poll_session" /\ req'[p].c = c
                                   \/ \E q \in Procs \ {p} : pc'[q] = "poll_session" /\ req'[q].c = c
    BY DEF Issuing
<1>2. \A c : c \in Issuing <=> /\ c \in Challenges
                               /\ \/ pc[p] = "poll_session" /\ req[p].c = c
                                  \/ \E q \in Procs \ {p} : pc[q] = "poll_session" /\ req[q].c = c
    BY DEF Issuing
<1>3. \A c : (\E q \in Procs \ {p} : pc'[q] = "poll_session" /\ req'[q].c = c)
                 <=> (\E q \in Procs \ {p} : pc[q] = "poll_session" /\ req[q].c = c)
    OBVIOUS
<1> QED
    BY <1>1, <1>2, <1>3

\* When p's handler makes the session, or dies doing so, nobody is left to make it.
LEMMA IssuingEnds ==
    ASSUME Inv, NEW p \in Procs, \A q \in Procs \ {p} : pc'[q] = pc[q] /\ req'[q] = req[q],
           pc[p] = "poll_session", pc'[p] # "poll_session"
    PROVE  req[p].c \in Issuing /\ Issuing' = Issuing \ {req[p].c}
<1>1. /\ req[p].c \in Challenges
      /\ \A q \in Procs \ {p} : pc[q] = "poll_session" => req[q].c # req[p].c
    BY DEF Inv, RequestsSound, Sound, Working, Labels, Entering
<1>2. \A c : c \in Issuing' <=> /\ c \in Challenges
                                /\ \E q \in Procs \ {p} : pc[q] = "poll_session" /\ req[q].c = c
    BY DEF Issuing
<1> QED
    BY <1>1, <1>2 DEF Issuing

LEMMA CalmStep ==
    ASSUME Inv, Inv', NEW p \in Procs, Calm(p)
    PROVE  AbstractStep
<1> DEFINE S == {c \in Challenges : Life(c) # "dead" /\ Life(c)' = "dead"}
<1>1. Issuing' = Issuing
    BY IssuingMoves DEF Calm
<1>2. \A c \in Challenges :
         IF c \in S THEN Life(c) \in {"pending", "approved"} ELSE Life(c)' = Life(c)
    BY LifeReads, LifeReadsNext DEF Calm, Lapses, Statuses
<1>3. S \in SUBSET Challenges
    OBVIOUS
<1>4. [c \in Challenges |-> Life(c)]' = [c \in Challenges |-> IF c \in S THEN "dead" ELSE Life(c)]
    BY <1>2
<1>5. Abstract!Die(S)
    BY <1>1, <1>2, <1>4 DEF Abstract!Die, Issuing, Calm
<1> QED
    BY <1>3, <1>5 DEF AbstractStep, Abstract!Next

-----------------------------------------------------------------------------
(* Which steps are calm, and what the others are.                                    *)

\* A handler that begins, goes on or ends without touching the rows is calm.
LEMMA RowsLeftAlone ==
    ASSUME Inv, NEW p \in Procs, NEW label, NEW r, Moves(p, label, r),
           pc[p] # "poll_session", label # "poll_session",
           minted' = minted, \A c \in Challenges : status'[c] = status[c] \/ Lapses(c)
    PROVE  Calm(p)
BY DEF Moves, Calm, Inv, TypeOK

LEMMA SomeAct ==
    ASSUME NEW c \in Challenges,
           \/ Abstract!Open(c) \/ Abstract!Approve(c) \/ Abstract!Use(c)
           \/ Abstract!Issue(c) \/ Abstract!Lose(c)
    PROVE  AbstractStep
BY DEF AbstractStep, Abstract!Next

\* One row's status is written, and the others live on as they did.
LEMMA OneLives ==
    ASSUME Inv, Inv', NEW c \in Challenges, NEW s \in {"pending", "approved", "gone"},
           status' = [status EXCEPT ![c] = s]
    PROVE  [e \in Challenges |-> Life(e)]' =
               [[e \in Challenges |-> Life(e)] EXCEPT ![c] = IF s = "gone" THEN "used" ELSE s]
<1>1. status' \in [Challenges -> Statuses \cup {"unused", "gone"}]
      /\ status \in [Challenges -> Statuses \cup {"unused", "gone"}]
    BY DEF Inv, TypeOK
<1>2. status'[c] = s /\ \A e \in Challenges \ {c} : status'[e] = status[e]
    BY <1>1
<1>3. Life(c)' = IF s = "gone" THEN "used" ELSE s
    BY <1>2, LifeReadsNext
<1>4. \A e \in Challenges \ {c} : Life(e)' = Life(e)
    BY <1>2, LifeReads, LifeReadsNext
<1> QED
    BY <1>3, <1>4

LEMMA LoginLives ==
    ASSUME Inv, Inv', NEW p \in Procs, Login(p)
    PROVE  AbstractStep
<1>1. ASSUME NEW d \in Guests, LoginGate(p, d) PROVE Calm(p)
    BY <1>1, RowsLeftAlone DEF LoginGate, Begin, Moves, row, outcome
<1>2. ASSUME LoginSession(p) \/ QueueDelivery(p, "login_queue") PROVE Calm(p)
    BY <1>2, RowsLeftAlone DEF LoginSession, QueueDelivery, Finish, Moves, row, outcome
<1>3. ASSUME LoginDelivery(p) PROVE Calm(p)
    BY <1>3, RowsLeftAlone DEF LoginDelivery, Moves, row, outcome, Inv, TypeOK
<1>4. ASSUME Supersede(p) PROVE Calm(p)
    <2>1. \A c \in Challenges : status'[c] = status[c] \/ Lapses(c)
        BY <1>4 DEF Supersede, Lapses, Statuses
    <2>2. /\ pc' = [pc EXCEPT ![p] = "login_insert"] /\ pc[p] # "poll_session"
          /\ \A q \in Procs \ {p} : req'[q] = req[q]
          /\ minted' = minted
        BY <1>4 DEF Supersede, outcome, Inv, TypeOK
    <2> QED
        BY <2>1, <2>2 DEF Calm, Inv, TypeOK
<1>5. ASSUME InsertChallenge(p) PROVE AbstractStep
    <2> DEFINE c == req[p].c
    <2>1. c \in Challenges /\ status[c] = "unused"
        BY <1>5 DEF InsertChallenge, Inv, RequestsSound, Sound, Entering
    <2>2. /\ status' = [status EXCEPT ![c] = "pending"]
          /\ pc[p] # "poll_session" /\ pc'[p] # "poll_session"
          /\ \A q \in Procs \ {p} : pc'[q] = pc[q] /\ req'[q] = req[q]
          /\ minted' = minted
        BY <1>5 DEF InsertChallenge, Goto, outcome, Inv, TypeOK
    <2>3. Issuing' = Issuing
        BY <2>2, IssuingMoves
    <2>4. Life(c) = "unused"
        BY <2>1, LifeReads
    <2>5. [e \in Challenges |-> Life(e)]' = [[e \in Challenges |-> Life(e)] EXCEPT ![c] = "pending"]
        BY <2>1, <2>2, OneLives
    <2>6. Abstract!Open(c)
        BY <2>1, <2>2, <2>3, <2>4, <2>5 DEF Abstract!Open, Issuing
    <2> QED
        BY <2>1, <2>6, SomeAct
<1> QED
    BY <1>1, <1>2, <1>3, <1>4, <1>5, CalmStep DEF Login

LEMMA SaveLapses ==
    ASSUME Inv, NEW c \in Challenges, NEW s \in {"rejected", "expired"}, SaveStatus(c, s)
    PROVE  \A e \in Challenges : status'[e] = status[e] \/ Lapses(e)
BY DEF SaveStatus, Stored, Lapses, Inv, TypeOK

LEMMA DecideExpiredLives ==
    ASSUME Inv, Inv', NEW p \in Procs, NEW label \in Labels, label # "poll_session",
           DecideExpired(p, label)
    PROVE  AbstractStep
<1>1. CASE SaveFails(p)
    BY <1>1, RowsLeftAlone, CalmStep DEF DecideExpired, SaveFails, Finish, Moves, row, outcome
<1>2. CASE SaveStatusAndOtp(req[p].c, "expired") /\ GoNotify(p, "expired") /\ UNCHANGED outcome
    <2>1. \A e \in Challenges : status'[e] = status[e] \/ Lapses(e)
        BY <1>2, SaveLapses DEF SaveStatusAndOtp, SaveStatus, Stored
    <2> QED
        BY <1>2, <2>1, RowsLeftAlone, CalmStep DEF DecideExpired, GoNotify, Moves, outcome
<1> QED
    BY <1>1, <1>2 DEF DecideExpired

LEMMA TrustedLives ==
    ASSUME Inv, Inv', NEW p \in Procs, TrustedDecision(p)
    PROVE  AbstractStep
<1>1. ASSUME NEW c \in Challenges, DecisionRead(p, c) PROVE Calm(p)
    BY <1>1, RowsLeftAlone DEF DecisionRead, ReadRow, Begin, Moves, row, outcome
<1>2. ASSUME DecideExpired(p, "decide") PROVE AbstractStep
    BY <1>2, DecideExpiredLives DEF Labels
<1>3. ASSUME Deny(p) PROVE Calm(p)
    <2>1. CASE SaveFails(p)
        BY <1>3, <2>1, RowsLeftAlone DEF Deny, SaveFails, Finish, Moves, row, outcome
    <2>2. CASE SaveStatusAndOtp(req[p].c, "rejected") /\ GoNotify(p, "rejected")
               /\ minted' = minted
        <3>1. \A e \in Challenges : status'[e] = status[e] \/ Lapses(e)
            BY <2>2, SaveLapses DEF SaveStatusAndOtp, SaveStatus, Stored
        <3> QED
            BY <1>3, <2>2, <3>1, RowsLeftAlone DEF Deny, GoNotify, Moves
    <2> QED
        BY <1>3, <2>1, <2>2 DEF Deny
<1>4. ASSUME Allow(p) PROVE Calm(p)
    BY <1>4, RowsLeftAlone DEF Allow, Finish, Moves, row, outcome
<1> QED
    BY <1>1, <1>2, <1>3, <1>4, CalmStep DEF TrustedDecision

LEMMA SubmitLives ==
    ASSUME Inv, Inv', NEW p \in Procs, SubmitCode(p)
    PROVE  AbstractStep
<1>1. ASSUME NEW c \in Challenges, SubmitRead(p, c) PROVE Calm(p)
    BY <1>1, RowsLeftAlone DEF SubmitRead, ReadRow, Begin, Moves, row, outcome
<1>2. ASSUME SubmitGone(p) \/ SubmitTooMany(p) \/ SubmitWrong(p) PROVE Calm(p)
    BY <1>2, RowsLeftAlone
    DEF SubmitGone, SubmitTooMany, SubmitWrong, Locked, Finish, Moves, row, outcome
<1>3. ASSUME SubmitExpired(p) PROVE Calm(p)
    <2>1. \A e \in Challenges : status'[e] = status[e] \/ Lapses(e)
        BY <1>3, SaveLapses DEF SubmitExpired, SaveStatus, Stored
    <2> QED
        BY <1>3, <2>1, RowsLeftAlone DEF SubmitExpired, Locked, Finish, Moves, outcome
<1>4. ASSUME SubmitRight(p) PROVE AbstractStep
    <2> DEFINE c == req[p].c
    <2>1. c \in Challenges /\ status[c] = "pending"
        BY <1>4 DEF SubmitRight, Locked, SaveStatusAndOtp, SaveStatus, Stored
    <2>2. /\ status' = [status EXCEPT ![c] = "approved"]
          /\ pc[p] # "poll_session" /\ pc'[p] # "poll_session"
          /\ \A q \in Procs \ {p} : pc'[q] = pc[q] /\ req'[q] = req[q]
          /\ minted' = minted
        BY <1>4
        DEF SubmitRight, Locked, SaveStatusAndOtp, SaveStatus, GoNotify, outcome, Inv, TypeOK
    <2>3. Issuing' = Issuing
        BY <2>2, IssuingMoves
    <2>4. Life(c) = "pending"
        BY <2>1, LifeReads
    <2>5. [e \in Challenges |-> Life(e)]' = [[e \in Challenges |-> Life(e)] EXCEPT ![c] = "approved"]
        BY <2>1, <2>2, OneLives
    <2>6. Abstract!Approve(c)
        BY <2>1, <2>2, <2>3, <2>4, <2>5 DEF Abstract!Approve, Issuing
    <2> QED
        BY <2>1, <2>6, SomeAct
<1> QED
    BY <1>1, <1>2, <1>3, <1>4, CalmStep DEF SubmitCode

LEMMA ResendLives ==
    ASSUME Inv, Inv', NEW p \in Procs, Resend(p)
    PROVE  AbstractStep
<1>1. ASSUME NEW c \in Challenges, ResendRead(p, c) PROVE Calm(p)
    BY <1>1, RowsLeftAlone DEF ResendRead, ReadRow, Begin, Moves, row, outcome
<1>2. ASSUME DecideExpired(p, "resend_decide") PROVE AbstractStep
    BY <1>2, DecideExpiredLives DEF Labels
<1>3. ASSUME ResendQueue(p) PROVE Calm(p)
    BY <1>3, RowsLeftAlone DEF ResendQueue, QueueDelivery, Finish, Moves, row, outcome
<1> QED
    BY <1>1, <1>2, <1>3, CalmStep DEF Resend

LEMMA PollLives ==
    ASSUME Inv, Inv', NEW p \in Procs, Poll(p)
    PROVE  AbstractStep
<1>1. ASSUME NEW c \in Challenges, PollRead(p, c) PROVE Calm(p)
    BY <1>1, RowsLeftAlone DEF PollRead, ReadRow, Begin, Moves, row, outcome
<1>2. ASSUME PollExpired(p) PROVE Calm(p)
    <2>1. CASE SaveFails(p) \/ (Finish(p) /\ UNCHANGED <<row, outcome>>)
        BY <1>2, <2>1, RowsLeftAlone DEF PollExpired, SaveFails, Finish, Moves, row, outcome
    <2>2. CASE SaveStatus(req[p].c, "expired") /\ GoNotify(p, "expired") /\ UNCHANGED outcome
        <3>1. \A e \in Challenges : status'[e] = status[e] \/ Lapses(e)
            BY <2>2, SaveLapses DEF SaveStatus, Stored
        <3> QED
            BY <1>2, <2>2, <3>1, RowsLeftAlone DEF PollExpired, GoNotify, Moves, outcome
    <2> QED
        BY <1>2, <2>1, <2>2 DEF PollExpired
<1>3. ASSUME PollDecide(p) PROVE Calm(p)
    BY <1>3, RowsLeftAlone DEF PollDecide, Goto, Finish, Moves, row, outcome
<1>4. ASSUME PollLock(p) PROVE AbstractStep
    <2>1. PICK c \in Challenges : c = req[p].c /\ pc[p] = "poll_lock"
        BY <1>4 DEF PollLock, Inv, RequestsSound, Sound, Working, Labels, Entering
    <2>2. CASE status[c] # "approved"
        BY <1>4, <2>1, <2>2, RowsLeftAlone, CalmStep DEF PollLock, Finish, Moves, outcome
    <2>3. CASE status[c] = "approved"
        <3>1. /\ status' = [status EXCEPT ![c] = "gone"]
              /\ pc'[p] = "poll_session" /\ req'[p].c = c
              /\ \A q \in Procs \ {p} : pc'[q] = pc[q] /\ req'[q] = req[q]
              /\ minted' = minted
            BY <1>4, <2>1, <2>3 DEF PollLock, Goto, outcome, Inv, TypeOK, NoRequest
        <3>2. Issuing' = Issuing \cup {c}
            BY <2>1, <3>1, IssuingMoves
        <3>3. Life(c) = "approved"
            BY <2>1, <2>3, LifeReads
        <3>4. [e \in Challenges |-> Life(e)]' =
                  [[e \in Challenges |-> Life(e)] EXCEPT ![c] = "used"]
            BY <2>1, <3>1, OneLives
        <3>5. Abstract!Use(c)
            BY <2>1, <3>1, <3>2, <3>3, <3>4 DEF Abstract!Use, Issuing
        <3> QED
            BY <2>1, <3>5, SomeAct
    <2> QED
        BY <2>2, <2>3
<1>5. ASSUME PollSession(p) PROVE AbstractStep
    <2>1. /\ status' = status /\ minted' = [minted EXCEPT ![req[p].c] = @ + 1]
          /\ pc[p] = "poll_session" /\ pc'[p] # "poll_session"
          /\ \A q \in Procs \ {p} : pc'[q] = pc[q] /\ req'[q] = req[q]
        BY <1>5 DEF PollSession, Finish, row, Inv, TypeOK
    <2>2. PICK c \in Challenges : c = req[p].c /\ c \in Issuing /\ Issuing' = Issuing \ {c}
        BY <2>1, IssuingEnds DEF Issuing
    <2>3. \A e \in Challenges : Life(e)' = Life(e)
        BY <2>1, LifeReads, LifeReadsNext
    <2>4. Abstract!Issue(c)
        BY <2>1, <2>2, <2>3 DEF Abstract!Issue, Issuing
    <2> QED
        BY <2>4, SomeAct
<1> QED
    BY <1>1, <1>2, <1>3, <1>4, <1>5, CalmStep DEF Poll

LEMMA SubscribeLives ==
    ASSUME Inv, Inv', NEW p \in Procs, Subscribe(p) \/ Notify(p)
    PROVE  Calm(p)
<1>1. ASSUME NEW c \in Challenges, SubscribeRead(p, c) PROVE Calm(p)
    BY <1>1, RowsLeftAlone DEF SubscribeRead, ReadRow, Begin, Moves, row, outcome
<1>2. ASSUME SubscribeExpired(p) PROVE Calm(p)
    <2>1. CASE SaveFails(p)
        BY <1>2, <2>1, RowsLeftAlone
        DEF SubscribeExpired, SaveFails, Finish, Moves, row, outcome
    <2>2. CASE /\ SaveStatus(req[p].c, "expired")
               /\ pc' = [pc EXCEPT ![p] = "sub_join"]
               /\ req' = [req EXCEPT ![p].read = "expired"]
               /\ UNCHANGED outcome
        <3>1. \A e \in Challenges : status'[e] = status[e] \/ Lapses(e)
            BY <2>2, SaveLapses DEF SaveStatus, Stored
        <3>2. pc[p] # "poll_session"
            BY <1>2 DEF SubscribeExpired
        <3> QED
            BY <2>2, <3>1, <3>2 DEF Calm, outcome, Inv, TypeOK
    <2> QED
        BY <1>2, <2>1, <2>2 DEF SubscribeExpired
<1>3. ASSUME SubscribeAsRead(p) PROVE Calm(p)
    BY <1>3 DEF SubscribeAsRead, Calm, row, outcome, Inv, TypeOK
<1>4. ASSUME SubscribeJoin(p) \/ Notify(p) PROVE Calm(p)
    BY <1>4, RowsLeftAlone DEF SubscribeJoin, Notify, Finish, Moves, row, outcome
<1> QED
    BY <1>1, <1>2, <1>3, <1>4 DEF Subscribe

LEMMA CrashLives ==
    ASSUME Inv, Inv', NEW p \in Procs, Crash(p)
    PROVE  AbstractStep
<1>1. CASE pc[p] # "poll_session"
    BY <1>1, RowsLeftAlone, CalmStep DEF Crash, Moves, row, outcome
<1>2. CASE pc[p] = "poll_session"
    <2>1. /\ status' = status /\ minted' = minted
          /\ pc'[p] # "poll_session"
          /\ \A q \in Procs \ {p} : pc'[q] = pc[q] /\ req'[q] = req[q]
        BY DEF Crash, row, outcome, Inv, TypeOK
    <2>2. PICK c \in Challenges : c \in Issuing /\ Issuing' = Issuing \ {c}
        BY <1>2, <2>1, IssuingEnds DEF Issuing
    <2>3. \A e \in Challenges : Life(e)' = Life(e)
        BY <2>1, LifeReads, LifeReadsNext
    <2>4. Abstract!Lose(c)
        BY <2>1, <2>2, <2>3 DEF Abstract!Lose, Issuing
    <2> QED
        BY <2>4, SomeAct
<1> QED
    BY <1>1, <1>2

\* Nobody's handler, and neither rows nor sessions.
LEMMA OutsideLives ==
    ASSUME UNCHANGED <<status, minted, pc, req>>
    PROVE  UNCHANGED Abstract!vars
<1>1. [c \in Challenges |-> Life(c)]' = [c \in Challenges |-> Life(c)]
    BY DEF Life
<1>2. Issuing' = Issuing
    BY DEF Issuing
<1> QED
    BY <1>1, <1>2 DEF Abstract!vars, Issuing

\* Seen from outside, a challenge is opened once, approved while it is open, and used up
\* by the one session it is good for; what was refused, has expired or was superseded is
\* never brought back, whatever the unlocked reads and writes of the handlers do.
THEOREM LifecycleRefined == Spec => ChallengesLiveOnce
<1>1. Init => Abstract!Init
    <2> SUFFICES ASSUME Init PROVE Abstract!Init
        OBVIOUS
    <2>1. \A c \in Challenges : Life(c) = "unused"
        BY DEF Init, Life
    <2>2. {c \in Challenges : \E p \in Procs : pc[p] = "poll_session" /\ req[p].c = c} = {}
        BY DEF Init
    <2> QED
        BY <2>1, <2>2 DEF Abstract!Init, Init
<1>2. Inv /\ Inv' /\ [Next]_vars => [Abstract!Next]_(Abstract!vars)
    <2> SUFFICES ASSUME Inv, Inv', [Next]_vars PROVE AbstractStep
        BY DEF AbstractStep
    <2>1. ASSUME NEW p \in Procs, Handle(p) PROVE AbstractStep
        BY <2>1, LoginLives, TrustedLives, SubmitLives, ResendLives, PollLives,
           SubscribeLives, CrashLives, CalmStep DEF Handle
    <2>2. ASSUME NEW c \in Challenges, NEW sent \in BOOLEAN, Deliver(c, sent)
          PROVE  UNCHANGED Abstract!vars
        BY <2>2, OutsideLives DEF Deliver, row, outcome
    <2>3. ASSUME NEW c \in Challenges, Unsubscribe(c) \/ Expire(c)
          PROVE  UNCHANGED Abstract!vars
        BY <2>3, OutsideLives DEF Unsubscribe, Expire, row, outcome
    <2>4. ASSUME NEW d \in Devices, SignOut(d) \/ SignIn(d)
          PROVE  UNCHANGED Abstract!vars
        BY <2>4, OutsideLives DEF SignOut, SignIn, row, outcome
    <2>5. ASSUME UNCHANGED vars PROVE UNCHANGED Abstract!vars
        BY <2>5, OutsideLives DEF vars, row, outcome
    <2> QED
        BY <2>1, <2>2, <2>3, <2>4, <2>5 DEF Next, AbstractStep
<1> QED
    BY <1>1, <1>2, InvHolds, PTL DEF Spec, ChallengesLiveOnce, Abstract!Spec
=============================================================================
