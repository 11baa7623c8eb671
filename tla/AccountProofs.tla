------------------------------ MODULE AccountProofs ------------------------------
(* Sessions that were ended stay down, a login keeps one session however often it is  *)
(* refreshed, a proof of identity is accepted once, and TOTP is asked for only with a *)
(* secret that was confirmed: for any devices, processes, budgets and limits.         *)
(*                                                                                    *)
(* One typing invariant (Typed) carries what a handler's local variables may be at    *)
(* each label; on it rest three invariants of their own, one for each promise.        *)
EXTENDS OneTimeCodes, SequenceTheorems, TLAPS

Proofs == {NoProof, EmailCode} \cup {BackupCode(c) : c \in Nat} \cup {Challenge(n) : n \in Nat}
Entry == [dev : Devices, login : Nat, line : SUBSET Nat]
Request == [dev : Devices \cup {"none"}, jti : Nat, login : Nat, todo : SUBSET Nat,
            via : {"http", "ws"}, proof : Proofs, seen : Nat, enabled : BOOLEAN]

Attaching == {"attach", "attach_create"}

\* What q's local variables may be at its label.
Sound(q) ==
    /\ req[q].jti \in Jtis \cup {NoJti}
    /\ req[q].login \in Logins \cup {NoJti}
    /\ req[q].todo \subseteq Jtis
    /\ pc[q] # "idle" => req[q].dev \in Devices
    /\ pc[q] \in Rotating \cup {"answer"} => req[q].jti # NoJti /\ req[q].login # NoJti
    /\ pc[q] \in Attaching \cup {"confirm"} => (req[q].jti = NoJti <=> req[q].login = NoJti)
    /\ pc[q] = "verify_wrong" => req[q].seen < MaxAttempts
    /\ pc[q] = "confirm" => req[q].seen \in 1..secrets /\ req[q].login = NoJti

Numbers == secrets \in Nat /\ minted \in Nat /\ asked \in Nat
Processes == pc = [q \in Procs |-> pc[q]] /\ req \in [Procs -> Request]

TableTyped ==
    /\ issued \in Seq(Entry)
    /\ \A j \in Jtis : issued[j] \in [dev : Devices, login : Jtis, line : SUBSET Jtis]
    /\ rows \subseteq Jtis /\ lapsed \subseteq rows
    /\ black \subseteq Jtis /\ dead \subseteq Jtis
    /\ cookie \in [Devices -> Jtis \cup {NoJti}]
    /\ access \subseteq Devices /\ deferred \subseteq Devices
    /\ conn \in [Devices -> [up : BOOLEAN, auth : BOOLEAN, jti : Jtis \cup {NoJti},
                             hand : Jtis \cup {NoJti}]]
    /\ ended \subseteq Jtis /\ excused \subseteq Logins
CodeTyped ==
    /\ Numbers
    /\ email \in [consumed : BOOLEAN, attempts : 0..MaxAttempts, late : BOOLEAN]
    /\ verified \in BOOLEAN
    /\ totp \in [enabled : BOOLEAN, secret : 0..secrets]
    /\ confirmed \subseteq 1..secrets /\ raced \in BOOLEAN
    /\ codes \subseteq 1..minted /\ used \subseteq 1..minted
    /\ challenge \in [Devices -> 0..asked]
    /\ passkeys \subseteq Devices
    /\ again \subseteq spent
Typed ==
    /\ TableTyped /\ CodeTyped /\ left \in [Sorts -> Nat]
    /\ Processes /\ \A q \in Procs : Sound(q)

\* What is down has left no token that anyone holds or has read.
Down == \A j \in ended : \A k \in rows \cup Held : j \notin issued[k].line

\* A confirmation that nothing disturbed has read the secret that is there.
Agrees ==
    /\ EnabledTotpWasConfirmed
    /\ \A q \in Procs : pc[q] = "confirm" /\ ~raced => req[q].seen = totp.secret

\* What is known of the proofs that were spent, and of the requests that hold one.
Holds(q, x) == pc[q] # "idle" /\ req[q].proof = x
Holders ==
    /\ \A p, q \in Procs : \A x \in Proofs :
          p # q /\ x # NoProof /\ Holds(p, x) /\ Holds(q, x) => x \in together
    /\ \A q \in Procs : pc[q] = "verify_right" =>
          /\ req[q].proof = EmailCode
          /\ EmailCode \in spent => EmailCode \in together
    /\ \A q \in Procs : \A n \in Nat : Holds(q, Challenge(n)) =>
          /\ pc[q] \in {"issue", "answer"} \cup Attaching
          /\ pc[q] \in Attaching => req[q].jti # NoJti
          /\ n \in 1..asked
          /\ \A d \in Devices : challenge[d] = n => d = req[q].dev
Spendings ==
    /\ EmailCode \in spent => email.consumed
    /\ \A c \in Nat : BackupCode(c) \in spent => c \in used
    /\ \A n \in Nat : Challenge(n) \in spent => n \in 1..asked
    /\ \A d, e \in Devices : challenge[d] = challenge[e] /\ challenge[d] # 0 => d = e
    /\ \A d \in Devices : challenge[d] # 0 /\ Challenge(challenge[d]) \in spent =>
          Challenge(challenge[d]) \in together \/ Holding(Challenge(challenge[d]))
Once == ProofsSpentOnce /\ Holders /\ Spendings

\* How the rows of a login that is not excused stand while a request of it is under way.
\* The labels of a request that has no session yet.
Early == {"verify_right", "verify_wrong", "verify_save", "factor", "gate", "issue", "confirm",
          "disable", "disable_save", "disable_codes", "regenerate"}
Knowing == {"get", "list", "kill_read", "kill_blacklist", "kill_delete", "lifetime"}
Stands(q) ==
    LET r == req[q]
        l == req[q].login
    IN  /\ pc[q] \in Early \/ (pc[q] = "get" /\ r.via = "http") => l = NoJti
        /\ pc[q] \in Rotating => r.dev = issued[r.jti].dev
        /\ pc[q] \in Answering /\ l # NoJti =>
              r.dev = issued[l].dev /\ LoginOf(r.jti) = l
        /\ pc[q] = "delete" => r.jti \in Jtis /\ LoginOf(r.jti) \in excused
        /\ l # NoJti /\ l \notin excused =>
              /\ pc[q] \in Knowing \cup (Answering \ {"refresh_insert"}) => RowsOf(l) = {r.jti}
              /\ pc[q] = "refresh_insert" => RowsOf(l) = {}
              /\ pc[q] = "refresh_delete" => cookie[r.dev] = r.jti
              /\ pc[q] \in {"blacklist", "delete"} => \A j \in r.todo : LoginOf(j) # l
Alone(p, q) ==
    pc[p] # "idle" /\ pc[q] # "idle" /\ req[p].login = req[q].login /\ req[p].login # NoJti
        => req[p].login \in excused
Lines ==
    /\ \A j \in Jtis : issued[LoginOf(j)].dev = issued[j].dev
    /\ \A j \in lapsed : LoginOf(j) \in excused
OneRow ==
    /\ LoginKeepsOneSession /\ Lines
    /\ \A q \in Procs : Stands(q)
    /\ \A p, q \in Procs : p # q => Alone(p, q)

-----------------------------------------------------------------------------
(* The table, the clients and the histories.                               *)

LEMMA TypedParts ==
    ASSUME Typed
    PROVE  /\ TableTyped /\ CodeTyped /\ Numbers /\ Processes /\ \A q \in Procs : Sound(q)
           /\ left \in [Sorts -> Nat]
           /\ totp \in [enabled : BOOLEAN, secret : 0..secrets]
           /\ email \in [consumed : BOOLEAN, attempts : 0..MaxAttempts, late : BOOLEAN]
           /\ challenge \in [Devices -> 0..asked]
BY DEF Typed, CodeTyped

\* A session that is there has a login, and the login is a session.
LEMMA LoginsTyped ==
    ASSUME TableTyped
    PROVE  /\ Logins \subseteq Jtis
           /\ \A j \in Jtis : LoginOf(j) \in Logins
           /\ \A j \in Jtis : LoginOf(j) # NoJti
           /\ NoJti \notin Jtis
BY DEF TableTyped, Logins, LoginOf, Jtis, NoJti

LEMMA SameIssued ==
    ASSUME UNCHANGED issued
    PROVE  /\ Jtis' = Jtis /\ Logins' = Logins
           /\ \A j : LoginOf(j)' = LoginOf(j)
BY DEF Jtis, Logins, LoginOf

\* Issuing a token: what was issued stays as it was.
LEMMA OneMore ==
    ASSUME issued \in Seq(Entry), NEW e \in Entry, issued' = Append(issued, e)
    PROVE  /\ issued' \in Seq(Entry)
           /\ Len(issued) \in Nat /\ Len(issued') = Len(issued) + 1
           /\ Jtis' = Jtis \cup {Len(issued) + 1} /\ Len(issued) + 1 \notin Jtis
           /\ \A j \in Jtis : issued'[j] = issued[j] /\ LoginOf(j)' = LoginOf(j)
           /\ issued'[Len(issued) + 1] = e
           /\ Logins' = Logins \cup {e.login}
<1>1. /\ issued' \in Seq(Entry)
      /\ Len(issued) \in Nat /\ Len(issued') = Len(issued) + 1
      /\ \A j \in 1..Len(issued) : issued'[j] = issued[j]
      /\ issued'[Len(issued) + 1] = e
    BY AppendProperties, LenProperties
<1>2. Jtis' = Jtis \cup {Len(issued) + 1} /\ Len(issued) + 1 \notin Jtis
    BY <1>1 DEF Jtis
<1>3. \A j \in Jtis : LoginOf(j)' = LoginOf(j)
    BY <1>1 DEF Jtis, LoginOf
<1>4. issued'[Len(issued) + 1].login = e.login
    BY <1>1
<1>5. Logins' = Logins \cup {e.login}
    BY <1>2, <1>3, <1>4 DEF Logins, LoginOf
<1> QED
    BY <1>1, <1>2, <1>3, <1>5 DEF Jtis

LEMMA TableStays ==
    ASSUME TableTyped, UNCHANGED <<table, tokens, client, conn, deferred, history>>
    PROVE  TableTyped'
BY SameIssued DEF TableTyped, table, tokens, client, history

LEMMA ConnectTyped ==
    ASSUME TableTyped, NEW d \in Devices, NEW c,
           c \in [up : BOOLEAN, auth : BOOLEAN, jti : Jtis \cup {NoJti}, hand : Jtis \cup {NoJti}]
    PROVE  [conn EXCEPT ![d] = c] \in
                [Devices -> [up : BOOLEAN, auth : BOOLEAN, jti : Jtis \cup {NoJti},
                             hand : Jtis \cup {NoJti}]]
BY DEF TableTyped

\* A new token and its row.
LEMMA StoreTyped ==
    ASSUME TableTyped, NEW e, e.dev \in Devices, e.login \in Jtis \cup {Len(issued) + 1},
           e.line \subseteq Jtis \cup {Len(issued) + 1},
           e = [dev |-> e.dev, login |-> e.login, line |-> e.line],
           issued' = Append(issued, e), rows' = rows \cup {Len(issued) + 1}, lapsed' = lapsed,
           UNCHANGED <<tokens, client, conn, deferred, history>>
    PROVE  TableTyped'
<1>1. Len(issued) \in Nat /\ Jtis \subseteq Nat
    BY LenProperties DEF TableTyped, Jtis
<1>2. e \in Entry
    BY <1>1 DEF Entry
<1>3. /\ issued' \in Seq(Entry)
      /\ Jtis' = Jtis \cup {Len(issued) + 1}
      /\ \A j \in Jtis : issued'[j] = issued[j]
      /\ issued'[Len(issued) + 1] = e
      /\ Logins' = Logins \cup {e.login}
    BY <1>2, OneMore DEF TableTyped
<1>4. ASSUME NEW j \in Jtis'
      PROVE  issued'[j] \in [dev : Devices, login : Jtis', line : SUBSET Jtis']
    <2>1. CASE j \in Jtis
        <3>1. issued[j] \in [dev : Devices, login : Jtis, line : SUBSET Jtis]
            BY <2>1 DEF TableTyped
        <3>2. issued'[j] = issued[j] /\ Jtis \subseteq Jtis'
            BY <1>3, <2>1
        <3> QED
            BY <3>1, <3>2
    <2>2. CASE j = Len(issued) + 1
        BY <1>3, <2>2
    <2> QED
        BY <1>3, <1>4, <2>1, <2>2
<1> QED
    BY <1>3, <1>4 DEF TableTyped, tokens, client, history

\* What the handlers do to the sessions, and to what is remembered of them.
LEMMA TableByRequest ==
    ASSUME TableTyped, Processes, NEW p \in Procs, Sound(p), RequestNext(p)
    PROVE  TableTyped'
<1> USE LoginsTyped
<1>1. CASE Issue(p)
    <2> DEFINE e == [dev |-> req[p].dev, login |-> Len(issued) + 1, line |-> {Len(issued) + 1}]
    <2>1. /\ e.dev \in Devices /\ e.login \in Jtis \cup {Len(issued) + 1}
          /\ e.line \subseteq Jtis \cup {Len(issued) + 1}
          /\ e = [dev |-> e.dev, login |-> e.login, line |-> e.line]
        BY <1>1 DEF Issue, Sound
    <2>2. issued' = Append(issued, e)
        BY <1>1 DEF Issue, Store, NoJti
    <2>3. /\ rows' = rows \cup {Len(issued) + 1} /\ lapsed' = lapsed
          /\ UNCHANGED <<tokens, client, conn, deferred, history>>
        BY <1>1 DEF Issue, Store
    <2> QED
        BY <2>1, <2>2, <2>3, StoreTyped
<1>2. ASSUME NEW d \in Devices, Refresh(p, d) PROVE TableTyped'
    BY <1>2, SameIssued DEF Refresh, TableTyped, table, tokens, client, Accepted
<1>3. CASE RefreshDelete(p)
    BY <1>3, SameIssued DEF RefreshDelete, TableTyped, tokens, client, history
<1>4. CASE RefreshInsert(p)
    <2> DEFINE j == req[p].jti
               e == [dev |-> req[p].dev, login |-> LoginOf(j),
                     line |-> issued[j].line \cup {Len(issued) + 1}]
    <2>0. j \in Jtis /\ LoginOf(j) \in Jtis /\ issued[j].line \subseteq Jtis /\ req[p].dev \in Devices
        BY <1>4 DEF RefreshInsert, Sound, Rotating, TableTyped
    <2>1. /\ e.dev \in Devices /\ e.login \in Jtis \cup {Len(issued) + 1}
          /\ e.line \subseteq Jtis \cup {Len(issued) + 1}
          /\ e = [dev |-> e.dev, login |-> e.login, line |-> e.line]
        BY <2>0
    <2>2. issued' = Append(issued, e)
        BY <1>4, <2>0 DEF RefreshInsert, Store
    <2>3. /\ rows' = rows \cup {Len(issued) + 1} /\ lapsed' = lapsed
          /\ UNCHANGED <<tokens, client, conn, deferred, history>>
        BY <1>4 DEF RefreshInsert, Store
    <2> QED
        BY <2>1, <2>2, <2>3, StoreTyped
<1>5. CASE RevokeGet(p)
    BY <1>5, TableStays DEF RevokeGet
<1>6. CASE RevokeList(p)
    BY <1>6, TableStays DEF RevokeList
<1>7. CASE RevokeBlacklist(p)
    BY <1>7, SameIssued DEF RevokeBlacklist, TableTyped, table, tokens, client, Sound
<1>8. CASE RevokeDelete(p)
    BY <1>8, SameIssued DEF RevokeDelete, DeleteRows, TableTyped, tokens, client
<1>9. CASE KillRead(p)
    BY <1>9, TableStays DEF KillRead
<1>10. CASE KillBlacklist(p)
    BY <1>10, SameIssued DEF KillBlacklist, TableTyped, table, tokens, client, LoginsOf
<1>11. CASE KillDelete(p)
    BY <1>11, SameIssued DEF KillDelete, DeleteRows, TableTyped, tokens, client, LoginsOf
<1>12. CASE LifetimeList(p)
    BY <1>12, TableStays DEF LifetimeList
<1>13. CASE LifetimeSave(p)
    BY <1>13, SameIssued DEF LifetimeSave, TableTyped, tokens, client, Sound
<1>14. CASE TouchFails(p)
    <2>1. NoConnection \in [up : BOOLEAN, auth : BOOLEAN, jti : Jtis \cup {NoJti},
                            hand : Jtis \cup {NoJti}]
        BY DEF NoConnection
    <2> QED
        BY <1>14, <2>1, SameIssued, ConnectTyped
        DEF TouchFails, ClosedBy, TableTyped, table, tokens, client, history, Sound
<1>15. ASSUME NEW d \in Devices, KillOthers(p, d) \/ RevokeOthersWs(p, d) \/ Lifetime(p, d)
              \/ \E j \in Jtis : RevokeWs(p, d, j) \/ RevokeRest(p, d, j)
       PROVE  TableTyped'
    <2>1. /\ UNCHANGED <<table, tokens, client, conn, deferred, ended>>
          /\ excused' \subseteq excused \cup Logins
        BY <1>15 DEF KillOthers, RevokeOthersWs, Lifetime, RevokeWs, RevokeRest, BeginAs, As,
                     NoRequest
    <2> QED
        BY <2>1, SameIssued DEF TableTyped, table, tokens, client
<1>16. ASSUME NEW d \in Devices, Logout(p, d) PROVE TableTyped'
    BY <1>16, SameIssued DEF Logout, DeleteRows, TableTyped, tokens, client, Accepted, NoJti
<1> QED
    BY <1>1, <1>2, <1>3, <1>4, <1>5, <1>6, <1>7, <1>8, <1>9, <1>10, <1>11, <1>12, <1>13, <1>14,
       <1>15, <1>16 DEF RequestNext

LEMMA BoundTyped ==
    ASSUME TableTyped, NEW d \in Devices, NEW j \in Jtis,
           conn' = [conn EXCEPT ![d].auth = TRUE, ![d].jti = j]
    PROVE  conn' \in [Devices -> [up : BOOLEAN, auth : BOOLEAN, jti : Jtis \cup {NoJti},
                                  hand : Jtis \cup {NoJti}]]
<1>1. conn[d] \in [up : BOOLEAN, auth : BOOLEAN, jti : Jtis \cup {NoJti}, hand : Jtis \cup {NoJti}]
    BY DEF TableTyped
<1>2. [conn[d] EXCEPT !.auth = TRUE, !.jti = j]
          \in [up : BOOLEAN, auth : BOOLEAN, jti : Jtis \cup {NoJti}, hand : Jtis \cup {NoJti}]
    BY <1>1
<1>3. conn' = [conn EXCEPT ![d] = [conn[d] EXCEPT !.auth = TRUE, !.jti = j]]
    BY Zenon DEF TableTyped
<1> QED
    BY <1>2, <1>3 DEF TableTyped

\* What connections and the clock do to them.
LEMMA TableByWays ==
    ASSUME TableTyped,
           \/ \E d \in Devices :
                 \/ ConnectByCookie(d) \/ ConnectByToken(d) \/ AuthUpgrade(d)
                 \/ RefreshAccess(d) \/ MessageRefused(d) \/ Disconnect(d)
                 \/ AccessExpires(d)
           \/ \E j \in Jtis : Lapse(j) \/ TokenExpires(j) \/ CleanBlacklist(j)
           \/ Flush
    PROVE  TableTyped'
<1> USE LoginsTyped, SameIssued
<1>0. NoConnection \in [up : BOOLEAN, auth : BOOLEAN, jti : Jtis \cup {NoJti},
                        hand : Jtis \cup {NoJti}]
    BY DEF NoConnection
<1>1. ASSUME NEW d \in Devices, ConnectByCookie(d) PROVE TableTyped'
    <2> DEFINE j == cookie[d]
               known == Accepted(j) /\ j \in Live /\ Bound(j, d)
               c == [up |-> TRUE, auth |-> known, hand |-> j, jti |-> IF known THEN j ELSE NoJti]
    <2>1. known \in BOOLEAN /\ j \in Jtis \cup {NoJti}
        BY DEF TableTyped
    <2>2. conn' = [conn EXCEPT ![d] = c]
        BY <1>1 DEF ConnectByCookie
    <2>3. access' \subseteq Devices /\ UNCHANGED <<table, tokens, cookie, deferred, history>>
        BY <1>1 DEF ConnectByCookie, TableTyped
    <2> HIDE DEF known
    <2>4. c \in [up : BOOLEAN, auth : BOOLEAN, jti : Jtis \cup {NoJti}, hand : Jtis \cup {NoJti}]
        BY <2>1
    <2>5. conn' \in [Devices -> [up : BOOLEAN, auth : BOOLEAN, jti : Jtis \cup {NoJti},
                                 hand : Jtis \cup {NoJti}]]
        BY <2>2, <2>4 DEF TableTyped
    <2> QED
        BY <2>3, <2>5 DEF TableTyped, table, tokens, history
<1>2. ASSUME NEW d \in Devices, ConnectByToken(d) PROVE TableTyped'
    BY <1>2 DEF ConnectByToken, TableTyped, table, tokens, client, history
<1>3. ASSUME NEW d \in Devices, AuthUpgrade(d) PROVE TableTyped'
    <2>1. UNCHANGED <<table, tokens, client, deferred, history>>
        BY <1>3 DEF AuthUpgrade
    <2>2. CASE d \in access /\ Live # {}
        <3>1. PICK j \in Live : conn' = [conn EXCEPT ![d].auth = TRUE, ![d].jti = j]
            BY <1>3, <2>2 DEF AuthUpgrade
        <3> QED
            BY <2>1, <3>1, BoundTyped DEF TableTyped, table, tokens, client, history, Live
    <2>3. CASE ~(d \in access /\ Live # {})
        BY <1>0, <1>3, <2>1, <2>3 DEF AuthUpgrade, ClosedBy, TableTyped, table, tokens, client, history
    <2> QED
        BY <2>2, <2>3
<1>4. ASSUME NEW d \in Devices, RefreshAccess(d) PROVE TableTyped'
    BY <1>4 DEF RefreshAccess, TableTyped, table, tokens, history
<1>5. ASSUME NEW d \in Devices, MessageRefused(d) \/ Disconnect(d) PROVE TableTyped'
    BY <1>0, <1>5
    DEF MessageRefused, Disconnect, ClosedBy, TableTyped, table, tokens, client, history
<1>6. ASSUME NEW d \in Devices, AccessExpires(d) PROVE TableTyped'
    BY <1>6 DEF AccessExpires, TableTyped, table, tokens, history
<1>7. ASSUME NEW j \in Jtis, Lapse(j) PROVE TableTyped'
    BY <1>7 DEF Lapse, TableTyped, tokens, client, Live
<1>8. ASSUME NEW j \in Jtis, TokenExpires(j) PROVE TableTyped'
    BY <1>8 DEF TokenExpires, TableTyped, table, client
<1>9. ASSUME NEW j \in Jtis, CleanBlacklist(j) PROVE TableTyped'
    BY <1>9 DEF CleanBlacklist, TableTyped, table, client, history
<1>10. CASE Flush
    BY <1>10 DEF Flush, TableTyped, tokens, client, history, Live
<1> QED
    BY <1>1, <1>2, <1>3, <1>4, <1>5, <1>6, <1>7, <1>8, <1>9, <1>10

\* What the ways to a login do to them: little, but for the answer.
LEMMA TableByCode ==
    ASSUME TableTyped, Processes, NEW p \in Procs, Sound(p), CodeNext(p)
    PROVE  TableTyped'
<1> USE LoginsTyped, SameIssued
<1>1. CASE AnswerLogin(p)
    <2> DEFINE d == req[p].dev
               k == req[p].jti
    <2>1. /\ pc[p] = "answer" /\ d \in Devices /\ k \in Jtis /\ req[p].login \in Logins
          /\ UNCHANGED <<table, tokens, deferred, ended>>
        BY <1>1 DEF AnswerLogin, Answer, Sound
    <2>2. cookie' \in [Devices -> Jtis \cup {NoJti}]
        BY <1>1, <2>1 DEF AnswerLogin, Answer, TableTyped
    <2>3. access' \subseteq Devices
        BY <1>1, <2>1 DEF AnswerLogin, Answer, TableTyped
    <2>4. excused' \subseteq Logins
        BY <1>1, <2>1 DEF AnswerLogin, Answer, TableTyped
    <2>5. conn' = conn \/ conn' = [conn EXCEPT ![d].auth = TRUE, ![d].jti = k]
        BY <1>1 DEF AnswerLogin, Answer
    <2>6. conn' \in [Devices -> [up : BOOLEAN, auth : BOOLEAN, jti : Jtis \cup {NoJti},
                                 hand : Jtis \cup {NoJti}]]
        BY <2>1, <2>5, BoundTyped DEF TableTyped
    <2> QED
        BY <2>1, <2>2, <2>3, <2>4, <2>6 DEF TableTyped, table, tokens
<1>2. CASE CrashLogin(p)
    BY <1>2 DEF CrashLogin, Crash, TableTyped, table, tokens, client, Sound
<1>3. CASE Gate(p)
    BY <1>3 DEF Gate, TableTyped, table, tokens, client, history, Sound
<1>4. ASSUME NEW d \in Devices, Confirmed(p, d) PROVE TableTyped'
    BY <1>4 DEF Confirmed, TableTyped, table, tokens, client, history
<1>5. ASSUME NEW d \in Devices,
             \/ \E right \in BOOLEAN : VerifyRead(p, d, right)
             \/ \E via \in {"http", "ws"} : Login(p, d, via)
             \/ GoogleLogin(p, d)
             \/ \E new \in BOOLEAN : PasskeyFinish(p, d, new)
             \/ TotpConfirm(p, d) \/ TotpDisable(p, d) \/ Regenerate(p, d)
      PROVE  TableTyped'
    BY <1>5, TableStays DEF VerifyRead, Login, GoogleLogin, PasskeyFinish, TotpConfirm,
                            TotpDisable, Regenerate, BeginHere
<1>6. CASE \/ VerifyWrong(p) \/ VerifyConsume(p) \/ VerifySave(p)
           \/ FactorNone(p) \/ FactorTotp(p) \/ FactorBackup(p) \/ FactorRefused(p)
           \/ Attach(p) \/ AttachCreate(p) \/ TotpConfirmSave(p) \/ RegenerateCodes(p)
           \/ DisableTotp(p) \/ DisableBackup(p) \/ DisableSave(p) \/ DisableCodes(p)
    BY <1>6, TableStays
    DEF VerifyWrong, VerifyConsume, VerifySave, FactorNone, FactorTotp, FactorBackup,
        FactorRefused, Attach, AttachCreate, TotpConfirmSave, RegenerateCodes, DisableTotp,
        DisableBackup, DisableSave, DisableCodes, Consume, StepHere
<1> QED
    BY <1>1, <1>2, <1>3, <1>4, <1>5, <1>6 DEF CodeNext

LEMMA TableStep == Typed /\ [Next]_vars => TableTyped'
<1> SUFFICES ASSUME Typed, [Next]_vars PROVE TableTyped'
    OBVIOUS
<1> USE TypedParts
<1>1. ASSUME NEW p \in Procs, RequestNext(p) PROVE TableTyped'
    BY <1>1, TableByRequest
<1>2. ASSUME NEW p \in Procs, CodeNext(p) PROVE TableTyped'
    BY <1>2, TableByCode
<1>3. CASE /\ ~\E p \in Procs : RequestNext(p)
           /\ SessionNext
    BY <1>3, TableByWays DEF SessionNext
<1>4. ASSUME NEW d \in Devices, PasskeyStart(d) \/ PasskeyRemove(d) \/ TotpStart(d)
      PROVE  TableTyped'
    BY <1>4, TableStays DEF PasskeyStart, PasskeyRemove, TotpStart
<1>5. CASE EmailCodeExpires
    BY <1>5, TableStays DEF EmailCodeExpires
<1>6. CASE UNCHANGED vars
    BY <1>6, TableStays DEF vars, sessionVars
<1> QED
    BY <1>1, <1>2, <1>3, <1>4, <1>5, <1>6 DEF Next

-----------------------------------------------------------------------------
(* The local variables.                                                    *)

LEMMA IssuedStep ==
    ASSUME [Next]_vars
    PROVE  UNCHANGED issued \/ \E p \in Procs : Issue(p) \/ RefreshInsert(p)
<1>1. ASSUME NEW p \in Procs, RequestNext(p)
      PROVE  UNCHANGED issued \/ Issue(p) \/ RefreshInsert(p)
    BY <1>1 DEF RequestNext, Refresh, RefreshDelete, RevokeGet, RevokeList, RevokeBlacklist,
                RevokeDelete, KillRead, KillBlacklist, KillDelete, LifetimeList, LifetimeSave,
                TouchFails, KillOthers, RevokeOthersWs, Lifetime, RevokeWs, RevokeRest, Logout,
                BeginAs, DeleteRows, table
<1>2. ASSUME NEW p \in Procs, CodeNext(p) PROVE UNCHANGED issued
    BY <1>2 DEF CodeNext, AnswerLogin, Answer, CrashLogin, Crash, Gate, Confirmed, VerifyRead, Login,
                GoogleLogin, PasskeyFinish, TotpConfirm, TotpDisable, Regenerate, BeginHere,
                VerifyWrong, VerifyConsume, VerifySave, FactorNone, FactorTotp, FactorBackup,
                FactorRefused, Attach, AttachCreate, TotpConfirmSave, RegenerateCodes,
                DisableTotp, DisableBackup, DisableSave, DisableCodes, Consume, StepHere, table
<1>3. ASSUME NEW d \in Devices, PasskeyStart(d) \/ PasskeyRemove(d) \/ TotpStart(d)
      PROVE  UNCHANGED issued
    BY <1>3 DEF PasskeyStart, PasskeyRemove, TotpStart, table
<1>4. ASSUME \/ \E d \in Devices :
                  \/ ConnectByCookie(d) \/ ConnectByToken(d) \/ AuthUpgrade(d)
                  \/ RefreshAccess(d) \/ MessageRefused(d) \/ Disconnect(d)
                  \/ AccessExpires(d)
             \/ \E j \in Jtis : Lapse(j) \/ TokenExpires(j) \/ CleanBlacklist(j)
             \/ Flush
      PROVE  UNCHANGED issued
    BY <1>4 DEF ConnectByCookie, ConnectByToken, AuthUpgrade, RefreshAccess, MessageRefused,
                Disconnect, AccessExpires, Lapse, TokenExpires, CleanBlacklist, Flush, table
<1> QED
    BY <1>1, <1>2, <1>3, <1>4 DEF Next, SessionNext, EmailCodeExpires, vars, sessionVars, table

LEMMA IssuedGrows ==
    ASSUME Typed, [Next]_vars
    PROVE  /\ Jtis \subseteq Jtis' /\ Logins \subseteq Logins'
           /\ \A j \in Jtis : issued'[j] = issued[j]
<1>0. TableTyped /\ \A q \in Procs : Sound(q)
    BY TypedParts
<1> USE <1>0, LoginsTyped
<1>1. ASSUME NEW p \in Procs, Issue(p) \/ RefreshInsert(p)
      PROVE  \E e \in Entry : issued' = Append(issued, e)
    <2>1. Len(issued) \in Nat /\ Len(issued) + 1 \in Nat /\ Jtis \subseteq Nat
        BY LenProperties DEF TableTyped, Jtis
    <2>2. CASE Issue(p)
        <3> DEFINE e == [dev |-> req[p].dev, login |-> Len(issued) + 1,
                         line |-> {Len(issued) + 1}]
        <3>1. e \in Entry
            BY <2>1, <2>2 DEF Issue, Sound, Entry
        <3>2. issued' = Append(issued, e)
            BY <2>2 DEF Issue, Store, NoJti
        <3> QED
            BY <3>1, <3>2
    <2>3. CASE RefreshInsert(p)
        <3>1. /\ req[p].jti \in Jtis /\ req[p].dev \in Devices
              /\ LoginOf(req[p].jti) \in Jtis /\ issued[req[p].jti].line \subseteq Jtis
            BY <2>3 DEF RefreshInsert, Sound, Rotating, TableTyped
        <3> DEFINE e == [dev |-> req[p].dev, login |-> LoginOf(req[p].jti),
                         line |-> issued[req[p].jti].line \cup {Len(issued) + 1}]
        <3>2. e \in Entry
            <4>1. PICK k \in Nat : k = Len(issued) + 1
                BY <2>1
            <4>2. issued[req[p].jti].line \cup {k} \subseteq Nat
                BY <2>1, <3>1
            <4>3. LoginOf(req[p].jti) \in Nat
                BY <2>1, <3>1
            <4> QED
                BY <3>1, <4>1, <4>2, <4>3 DEF Entry
        <3>3. issued' = Append(issued, e)
            BY <2>3, <3>1 DEF RefreshInsert, Store
        <3> QED
            BY <3>2, <3>3
    <2> QED
        BY <1>1, <2>2, <2>3
<1>2. CASE UNCHANGED issued
    BY <1>2, SameIssued
<1>3. CASE \E p \in Procs : Issue(p) \/ RefreshInsert(p)
    BY <1>1, <1>3, OneMore DEF TableTyped
<1> QED
    BY <1>2, <1>3, IssuedStep

\* Only p's request moves.
Moves(p) ==
    /\ Processes'
    /\ \A q \in Procs \ {p} : pc'[q] = pc[q] /\ req'[q] = req[q]

LEMMA ProofsTyped ==
    /\ NoProof \in Proofs /\ EmailCode \in Proofs
    /\ \A n \in Nat : BackupCode(n) \in Proofs /\ Challenge(n) \in Proofs
BY DEF Proofs

LEMMA NoRequestReads ==
    /\ NoRequest \in Request
    /\ NoRequest.jti = NoJti /\ NoRequest.login = NoJti /\ NoRequest.todo = {}
    /\ NoRequest.via = "http" /\ NoRequest.proof = NoProof
    /\ NoRequest.seen = 0 /\ NoRequest.enabled = FALSE
BY ProofsTyped DEF Request, NoRequest, NoJti

LEMMA Typing ==
    ASSUME Processes, NEW p \in Procs
    PROVE  /\ req[p] \in Request
           /\ req[p].jti \in Nat /\ req[p].login \in Nat /\ req[p].seen \in Nat
           /\ req[p].todo \subseteq Nat /\ req[p].dev \in Devices \cup {"none"}
           /\ req[p].via \in {"http", "ws"} /\ req[p].proof \in Proofs
           /\ req[p].enabled \in BOOLEAN
BY DEF Processes, Request

\* A request after one of its fields was changed.
LEMMA WithJti ==
    ASSUME NEW r \in Request, NEW j \in Nat, NEW s, s = [r EXCEPT !.jti = j]
    PROVE  /\ s \in Request /\ s.jti = j
           /\ s.dev = r.dev /\ s.login = r.login /\ s.todo = r.todo /\ s.via = r.via
           /\ s.proof = r.proof /\ s.seen = r.seen /\ s.enabled = r.enabled
BY DEF Request

LEMMA WithTodo ==
    ASSUME NEW r \in Request, NEW S \in SUBSET Nat, NEW s, s = [r EXCEPT !.todo = S]
    PROVE  /\ s \in Request /\ s.todo = S
           /\ s.dev = r.dev /\ s.login = r.login /\ s.jti = r.jti /\ s.via = r.via
           /\ s.proof = r.proof /\ s.seen = r.seen /\ s.enabled = r.enabled
BY DEF Request

\* What the client of a request acts as, with the sessions the request is about.
LEMMA AsReads ==
    ASSUME TableTyped, NEW d \in Devices, NEW j \in Jtis \cup {NoJti}, NEW s, s = As(d, j)
    PROVE  /\ s \in Request /\ s.dev = d /\ s.jti = j /\ s.todo = {} /\ s.via = "http"
           /\ s.login = IF j \in Jtis THEN LoginOf(j) ELSE NoJti
           /\ s.login \in Logins \cup {NoJti} /\ (s.login = NoJti <=> j = NoJti)
           /\ s.proof = NoProof
<1> USE LoginsTyped
<1>1. PICK l \in Nat : l = IF j \in Jtis THEN LoginOf(j) ELSE NoJti
    BY DEF Jtis, NoJti
<1>2. j \in Nat
    BY DEF Jtis, NoJti
<1>3. s = [NoRequest EXCEPT !.dev = d, !.jti = j, !.login = l]
    BY <1>1 DEF As
<1>4. /\ s \in Request /\ s.dev = d /\ s.jti = j /\ s.login = l
      /\ s.todo = {} /\ s.via = "http" /\ s.proof = NoProof
    BY <1>1, <1>2, <1>3, NoRequestReads DEF Request
<1> QED
    BY <1>1, <1>4

\* p goes to a label with local variables that are right for it.
LEMMA SoundAt ==
    ASSUME Processes, NEW p \in Procs, NEW label, NEW r \in Request,
           pc' = [pc EXCEPT ![p] = label], req' = [req EXCEPT ![p] = r],
           r.jti \in Jtis' \cup {NoJti}, r.login \in Logins' \cup {NoJti}, r.todo \subseteq Jtis',
           label # "idle" => r.dev \in Devices,
           label \in Rotating \cup {"answer"} => r.jti # NoJti /\ r.login # NoJti,
           label \in Attaching \cup {"confirm"} => (r.jti = NoJti <=> r.login = NoJti),
           label = "verify_wrong" => r.seen < MaxAttempts,
           label = "confirm" => r.seen \in 1..secrets' /\ r.login = NoJti
    PROVE  Moves(p) /\ Sound(p)' /\ pc'[p] = label /\ req'[p] = r
<1>1. Moves(p) /\ pc'[p] = label /\ req'[p] = r
    BY DEF Moves, Processes
<1> QED
    BY <1>1 DEF Sound

LEMMA FinishMoves ==
    ASSUME Processes, NEW p \in Procs, Finish(p)
    PROVE  Moves(p) /\ Sound(p)' /\ pc'[p] = "idle" /\ req'[p] = NoRequest
<1>1. pc' = [pc EXCEPT ![p] = "idle"] /\ req' = [req EXCEPT ![p] = NoRequest]
    BY DEF Finish, GoWith
<1>2. NoRequest \in Request
    BY NoRequestReads
<1>3. Moves(p) /\ pc'[p] = "idle" /\ req'[p] = NoRequest
    BY <1>1, <1>2 DEF Moves, Processes
<1> QED
    BY <1>3, NoRequestReads DEF Sound, Rotating, Attaching

LEMMA GotoMoves ==
    ASSUME Processes, NEW p \in Procs, NEW label, Goto(p, label)
    PROVE  Moves(p) /\ pc'[p] = label /\ req'[p] = req[p]
<1>1. pc' = [pc EXCEPT ![p] = label] /\ req' = [req EXCEPT ![p] = req[p]]
    BY DEF Goto, GoWith
<1> QED
    BY <1>1 DEF Moves, Processes

LEMMA SoundStays ==
    ASSUME NEW q \in Procs, Sound(q), Jtis \subseteq Jtis', Logins \subseteq Logins',
           Numbers, Numbers', secrets <= secrets', pc'[q] = pc[q], req'[q] = req[q]
    PROVE  Sound(q)'
BY DEF Sound, Numbers

\* What handlers pass on from label to label.
LEMMA SoundByRequest ==
    ASSUME Typed, TableTyped', Jtis \subseteq Jtis', Logins \subseteq Logins', Numbers',
           secrets <= secrets', NEW p \in Procs, RequestNext(p)
    PROVE  Moves(p) /\ Sound(p)'
<1>a. TableTyped /\ Processes /\ Numbers /\ Sound(p)
    BY TypedParts
<1>b. /\ req[p] \in Request
      /\ req[p].jti \in Nat /\ req[p].login \in Nat /\ req[p].todo \subseteq Nat
    BY <1>a, Typing
<1> USE <1>a, <1>b, LoginsTyped
<1>0. Jtis \subseteq Nat /\ rows \subseteq Jtis
    BY DEF TableTyped, Jtis
<1>1. CASE Issue(p)
    <2>0. Len(issued) \in Nat
        BY LenProperties DEF TableTyped
    <2>1. PICK k \in Nat : k = Len(issued) + 1
        BY <2>0
    <2> DEFINE r == [req[p] EXCEPT !.jti = k, !.login = k]
    <2>2. /\ r \in Request /\ r.jti = k /\ r.login = k
          /\ r.dev = req[p].dev /\ r.todo = req[p].todo
        <3>1. PICK o \in Request : o = req[p]
            OBVIOUS
        <3>2. /\ [o EXCEPT !.jti = k, !.login = k] \in Request
              /\ [o EXCEPT !.jti = k, !.login = k].jti = k
              /\ [o EXCEPT !.jti = k, !.login = k].login = k
              /\ [o EXCEPT !.jti = k, !.login = k].dev = o.dev
              /\ [o EXCEPT !.jti = k, !.login = k].todo = o.todo
            BY DEF Request
        <3> QED
            BY <3>1, <3>2
    <2>3. PICK label \in {"attach", "answer"} :
              pc' = [pc EXCEPT ![p] = label] /\ req' = [req EXCEPT ![p] = r]
        BY <1>1, <2>1 DEF Issue, GoWith
    <2>4. k \in Jtis' /\ k \in Logins' /\ k # NoJti
        <3> DEFINE e == [dev |-> req[p].dev, login |-> k, line |-> {k}]
        <3>1. issued' = Append(issued, e)
            BY <1>1, <2>1 DEF Issue, Store, NoJti
        <3>2. e \in Entry
            BY <1>1, <2>1 DEF Issue, Sound, Entry
        <3>3. PICK c \in Entry : c = e
            BY <3>2
        <3> QED
            BY <2>0, <2>1, <3>1, <3>3, OneMore DEF TableTyped, NoJti
    <2>5. r.dev \in Devices /\ r.todo \subseteq Jtis'
        BY <1>1, <2>2 DEF Issue, Sound
    <2>6. /\ label # "verify_wrong" /\ label # "confirm"
          /\ r.jti \in Jtis' \cup {NoJti} /\ r.login \in Logins' \cup {NoJti}
          /\ r.jti # NoJti /\ r.login # NoJti
        BY <2>2, <2>3, <2>4
    <2> HIDE DEF r
    <2> QED
        BY <2>2, <2>3, <2>4, <2>5, <2>6, SoundAt
<1>2. ASSUME NEW d \in Devices, Refresh(p, d) PROVE Moves(p) /\ Sound(p)'
    <2> DEFINE r == As(d, cookie[d])
    <2>1. cookie[d] \in Jtis /\ cookie[d] \in Jtis \cup {NoJti}
        BY <1>2 DEF Refresh, Accepted
    <2>2. /\ r \in Request /\ r.dev = d /\ r.jti = cookie[d] /\ r.todo = {}
          /\ r.login \in Logins \cup {NoJti} /\ (r.login = NoJti <=> cookie[d] = NoJti)
        BY <2>1, AsReads
    <2>3. pc' = [pc EXCEPT ![p] = "refresh_delete"] /\ req' = [req EXCEPT ![p] = r]
        BY <1>2 DEF Refresh, Begin
    <2> HIDE DEF r
    <2> QED
        BY <2>1, <2>2, <2>3, SoundAt DEF Rotating, Attaching
<1>3. CASE RefreshDelete(p)
    BY <1>3, GotoMoves DEF RefreshDelete, Sound, Rotating, Attaching
<1>4. CASE RefreshInsert(p)
    <2> DEFINE k == Len(issued) + 1
               j == req[p].jti
               r == [req[p] EXCEPT !.jti = k]
    <2>1. k \in Nat /\ Len(issued) \in Nat /\ j \in Jtis /\ req[p].dev \in Devices /\ req[p].login # NoJti
        BY <1>4, LenProperties DEF TableTyped, RefreshInsert, Sound, Rotating
    <2>2. /\ r \in Request /\ r.jti = k /\ r.login = req[p].login
          /\ r.dev = req[p].dev /\ r.todo = req[p].todo
        BY <2>1, WithJti
    <2>3. pc' = [pc EXCEPT ![p] = "answer"] /\ req' = [req EXCEPT ![p] = r]
        BY <1>4 DEF RefreshInsert, GoWith
    <2>4. k \in Jtis' /\ k # NoJti
        <3> DEFINE e == [dev |-> req[p].dev, login |-> LoginOf(j), line |-> issued[j].line \cup {k}]
        <3>1. issued' = Append(issued, e)
            BY <1>4, <2>1 DEF RefreshInsert, Store
        <3>2. LoginOf(j) \in Nat /\ issued[j].line \cup {k} \subseteq Nat
            <4>1. LoginOf(j) \in Jtis /\ issued[j].line \subseteq Jtis
                BY <2>1 DEF TableTyped
            <4>2. PICK n \in Nat : n = k
                BY <2>1
            <4>3. issued[j].line \cup {n} \subseteq Nat
                BY <1>0, <4>1
            <4> QED
                BY <1>0, <4>1, <4>2, <4>3
        <3>3. e \in Entry
            BY <2>1, <3>2 DEF Entry
        <3> QED
            BY <2>1, <3>1, <3>3, OneMore DEF TableTyped, NoJti
    <2>5. r.login \in Logins' \cup {NoJti} /\ r.todo \subseteq Jtis'
        BY <2>2 DEF Sound
    <2> HIDE DEF r, k
    <2> QED
        BY <2>1, <2>2, <2>3, <2>4, <2>5, SoundAt DEF Attaching
<1>5. CASE RevokeGet(p)
    BY <1>5, FinishMoves, GotoMoves DEF RevokeGet, Sound, Rotating, Attaching
<1>6. CASE RevokeList(p)
    <2> DEFINE others == rows \ {req[p].jti}
               r == [req[p] EXCEPT !.todo = others]
    <2>1. CASE others = {}
        BY <1>6, <2>1, FinishMoves DEF RevokeList
    <2>2. CASE others # {}
        <3>1. /\ r \in Request /\ r.todo = others /\ r.jti = req[p].jti
              /\ r.dev = req[p].dev /\ r.login = req[p].login
            BY <1>0, WithTodo
        <3>2. pc' = [pc EXCEPT ![p] = "blacklist"] /\ req' = [req EXCEPT ![p] = r]
            BY <1>6, <2>2 DEF RevokeList, GoWith
        <3>3. r.dev \in Devices /\ others \subseteq Jtis'
            BY <1>0, <1>6, <3>1 DEF RevokeList, Sound
        <3> HIDE DEF r
        <3> QED
            BY <3>1, <3>2, <3>3, SoundAt DEF Sound, Rotating, Attaching
    <2> QED
        BY <2>1, <2>2
<1>7. CASE RevokeBlacklist(p)
    <2>1. PICK j \in req[p].todo :
              /\ pc' = [pc EXCEPT ![p] = "delete"]
              /\ req' = [req EXCEPT ![p] = [req[p] EXCEPT !.jti = j]]
        BY <1>7 DEF RevokeBlacklist, GoWith
    <2> DEFINE r == [req[p] EXCEPT !.jti = j]
    <2>2. /\ r \in Request /\ r.jti = j /\ r.login = req[p].login
          /\ r.dev = req[p].dev /\ r.todo = req[p].todo
        BY <2>1, WithJti
    <2>3. /\ j \in Jtis /\ r.dev \in Devices
          /\ r.login \in Logins' \cup {NoJti} /\ r.todo \subseteq Jtis'
        BY <1>7, <2>1, <2>2 DEF RevokeBlacklist, Sound
    <2>4. pc' = [pc EXCEPT ![p] = "delete"] /\ req' = [req EXCEPT ![p] = r]
        BY <2>1
    <2> HIDE DEF r
    <2> QED
        BY <2>2, <2>3, <2>4, SoundAt DEF Rotating, Attaching
<1>8. CASE RevokeDelete(p)
    <2> DEFINE more == req[p].todo \ {req[p].jti}
               r == [req[p] EXCEPT !.todo = more]
    <2>1. CASE more = {}
        BY <1>8, <2>1, FinishMoves DEF RevokeDelete
    <2>2. CASE more # {}
        <3>1. /\ r \in Request /\ r.todo = more /\ r.jti = req[p].jti
              /\ r.dev = req[p].dev /\ r.login = req[p].login
            <4>1. PICK S \in SUBSET Nat : S = more
                OBVIOUS
            <4> QED
                BY <4>1, WithTodo
        <3>2. pc' = [pc EXCEPT ![p] = "blacklist"] /\ req' = [req EXCEPT ![p] = r]
            BY <1>8, <2>2 DEF RevokeDelete, GoWith
        <3>3. r.dev \in Devices /\ more \subseteq Jtis'
            BY <1>8, <3>1 DEF RevokeDelete, Sound
        <3> HIDE DEF r
        <3> QED
            BY <3>1, <3>2, <3>3, SoundAt DEF Sound, Rotating, Attaching
    <2> QED
        BY <2>1, <2>2
<1>9. CASE KillRead(p)
    <2>1. PICK j \in {req[p].jti, NoJti} :
              /\ pc' = [pc EXCEPT ![p] = "kill_blacklist"]
              /\ req' = [req EXCEPT ![p] = [req[p] EXCEPT !.jti = j]]
        BY <1>9 DEF KillRead, GoWith
    <2> DEFINE r == [req[p] EXCEPT !.jti = j]
    <2>2. /\ r \in Request /\ r.jti = j /\ r.login = req[p].login
          /\ r.dev = req[p].dev /\ r.todo = req[p].todo
        BY <2>1, WithJti DEF NoJti
    <2>3. /\ r.dev \in Devices /\ r.jti \in Jtis' \cup {NoJti}
          /\ r.login \in Logins' \cup {NoJti} /\ r.todo \subseteq Jtis'
        BY <1>9, <2>1, <2>2 DEF KillRead, Sound
    <2>4. pc' = [pc EXCEPT ![p] = "kill_blacklist"] /\ req' = [req EXCEPT ![p] = r]
        BY <2>1
    <2> HIDE DEF r
    <2> QED
        BY <2>2, <2>3, <2>4, SoundAt DEF Rotating, Attaching
<1>10. CASE KillBlacklist(p)
    BY <1>10, GotoMoves DEF KillBlacklist, Sound, Rotating, Attaching
<1>11. CASE KillDelete(p)
    BY <1>11, FinishMoves DEF KillDelete
<1>12. CASE LifetimeList(p)
    <2> DEFINE r == [req[p] EXCEPT !.todo = rows]
    <2>1. CASE rows = {}
        BY <1>12, <2>1, FinishMoves DEF LifetimeList
    <2>2. CASE rows # {}
        <3>1. /\ r \in Request /\ r.todo = rows /\ r.jti = req[p].jti
              /\ r.dev = req[p].dev /\ r.login = req[p].login
            BY <1>0, WithTodo
        <3>2. pc' = [pc EXCEPT ![p] = "lifetime_save"] /\ req' = [req EXCEPT ![p] = r]
            BY <1>12, <2>2 DEF LifetimeList, GoWith
        <3>3. r.dev \in Devices /\ rows \subseteq Jtis'
            BY <1>0, <1>12, <3>1 DEF LifetimeList, Sound
        <3> HIDE DEF r
        <3> QED
            BY <3>1, <3>2, <3>3, SoundAt DEF Sound, Rotating, Attaching
    <2> QED
        BY <2>1, <2>2
<1>13. CASE LifetimeSave(p)
    <2>1. PICK j \in req[p].todo :
              IF req[p].todo = {j} THEN Finish(p)
              ELSE GoWith(p, "lifetime_save", [req[p] EXCEPT !.todo = @ \ {j}])
        BY <1>13 DEF LifetimeSave
    <2>2. CASE req[p].todo = {j}
        BY <2>1, <2>2, FinishMoves
    <2>3. CASE req[p].todo # {j}
        <3> DEFINE more == req[p].todo \ {j}
                   r == [req[p] EXCEPT !.todo = more]
        <3>1. /\ r \in Request /\ r.todo = more /\ r.jti = req[p].jti
              /\ r.dev = req[p].dev /\ r.login = req[p].login
            BY WithTodo
        <3>2. pc' = [pc EXCEPT ![p] = "lifetime_save"] /\ req' = [req EXCEPT ![p] = r]
            BY <2>1, <2>3 DEF GoWith
        <3>3. r.dev \in Devices /\ more \subseteq Jtis'
            BY <1>13, <3>1 DEF LifetimeSave, Sound
        <3> HIDE DEF r
        <3> QED
            BY <3>1, <3>2, <3>3, SoundAt DEF Sound, Rotating, Attaching
    <2> QED
        BY <2>2, <2>3
<1>14. CASE TouchFails(p)
    BY <1>14, FinishMoves DEF TouchFails
<1>15. ASSUME NEW d \in Devices, KillOthers(p, d) \/ RevokeOthersWs(p, d) \/ Lifetime(p, d)
       PROVE  Moves(p) /\ Sound(p)'
    <2>1. PICK k \in {cookie[d], conn[d].jti}, label \in {"kill_read", "list", "lifetime"} :
              /\ pc' = [pc EXCEPT ![p] = label]
              /\ \/ req' = [req EXCEPT ![p] = As(d, k)]
                 \/ req' = [req EXCEPT ![p] = [As(d, k) EXCEPT !.via = "ws"]]
        BY <1>15 DEF KillOthers, RevokeOthersWs, Lifetime, BeginAs, Begin
    <2>2. k \in Jtis \cup {NoJti}
        BY <2>1 DEF TableTyped
    <2>3. PICK a \in Request : a = As(d, k)
        BY <2>2, AsReads
    <2>4. a.dev = d /\ a.jti = k /\ a.todo = {} /\ a.login \in Logins \cup {NoJti}
        BY <2>2, <2>3, AsReads
    <2>5. PICK r : /\ r = a \/ r = [a EXCEPT !.via = "ws"]
                   /\ req' = [req EXCEPT ![p] = r]
        BY <2>1, <2>3
    <2>6. r \in Request /\ r.dev = d /\ r.jti = k /\ r.todo = {} /\ r.login = a.login
        <3>1. CASE r = a
            BY <2>4, <3>1
        <3>2. CASE r = [a EXCEPT !.via = "ws"]
            BY <2>4, <3>2 DEF Request
        <3> QED
            BY <2>5, <3>1, <3>2
    <2>7. label \notin Rotating \cup Attaching \cup {"answer", "idle", "verify_wrong", "confirm"}
        BY <2>1 DEF Rotating, Attaching
    <2>8. /\ r.jti \in Jtis' \cup {NoJti} /\ r.login \in Logins' \cup {NoJti}
          /\ r.todo \subseteq Jtis' /\ r.dev \in Devices
        BY <2>2, <2>4, <2>6
    <2> QED
        BY <2>1, <2>5, <2>6, <2>7, <2>8, SoundAt
<1>17. ASSUME NEW d \in Devices, NEW j \in Jtis, RevokeWs(p, d, j) \/ RevokeRest(p, d, j)
       PROVE  Moves(p) /\ Sound(p)'
    <2>1. PICK k \in {NoJti, conn[d].jti} :
              /\ pc' = [pc EXCEPT ![p] = "get"]
              /\ \/ req' = [req EXCEPT ![p] = [As(d, k) EXCEPT !.todo = {j}]]
                 \/ req' = [req EXCEPT ![p] = [As(d, k) EXCEPT !.todo = {j}, !.via = "ws"]]
        BY <1>17 DEF RevokeWs, RevokeRest, BeginAs, Begin
    <2>2. k \in Jtis \cup {NoJti} /\ {j} \in SUBSET Nat
        BY <1>0, <2>1 DEF TableTyped
    <2>3. PICK a \in Request : a = As(d, k)
        BY <2>2, AsReads
    <2>4. a.dev = d /\ a.jti = k /\ a.login \in Logins \cup {NoJti}
        BY <2>2, <2>3, AsReads
    <2>5. PICK r : /\ r = [a EXCEPT !.todo = {j}] \/ r = [a EXCEPT !.todo = {j}, !.via = "ws"]
                   /\ req' = [req EXCEPT ![p] = r]
        BY <2>1, <2>3
    <2>6. r \in Request /\ r.dev = d /\ r.jti = k /\ r.todo = {j} /\ r.login = a.login
        BY <2>2, <2>4, <2>5 DEF Request
    <2>7. /\ r.jti \in Jtis' \cup {NoJti} /\ r.login \in Logins' \cup {NoJti}
          /\ r.todo \subseteq Jtis' /\ r.dev \in Devices
        BY <2>2, <2>4, <2>6
    <2> QED
        BY <2>1, <2>5, <2>6, <2>7, SoundAt DEF Rotating, Attaching
<1>16. ASSUME NEW d \in Devices, Logout(p, d) PROVE Moves(p) /\ Sound(p)'
    <2>1. pc' = pc /\ req' = req
        BY <1>16 DEF Logout
    <2> QED
        BY <2>1, SoundStays DEF Moves, Processes
<1> QED
    BY <1>1, <1>2, <1>3, <1>4, <1>5, <1>6, <1>7, <1>8, <1>9, <1>10, <1>11, <1>12, <1>13, <1>14,
       <1>15, <1>16, <1>17 DEF RequestNext

LEMMA BeginMoves ==
    ASSUME Processes, NEW p \in Procs, NEW d \in Devices, NEW r \in Request, NEW label,
           pc' = [pc EXCEPT ![p] = label], req' = [req EXCEPT ![p] = r],
           r.dev = d, r.jti = NoJti, r.login = NoJti, r.todo = {},
           label \notin Rotating \cup {"answer"},
           label = "verify_wrong" => r.seen < MaxAttempts,
           label = "confirm" => r.seen \in 1..secrets'
    PROVE  Moves(p) /\ Sound(p)' /\ pc'[p] = label /\ req'[p] = r
BY SoundAt

LEMMA SoundByCode ==
    ASSUME Typed, TableTyped', Jtis \subseteq Jtis', Logins \subseteq Logins', Numbers',
           secrets <= secrets', NEW p \in Procs, CodeNext(p)
    PROVE  Moves(p) /\ Sound(p)'
<1>a. TableTyped /\ Processes /\ Numbers /\ Sound(p)
    BY TypedParts
<1>b. /\ req[p] \in Request
      /\ req[p].jti \in Nat /\ req[p].login \in Nat /\ req[p].todo \subseteq Nat
    BY <1>a, Typing
<1>c. /\ totp.enabled \in BOOLEAN /\ totp.secret \in 0..secrets /\ totp.secret \in Nat
      /\ email.attempts \in 0..MaxAttempts /\ email.attempts \in Nat
      /\ \A d \in Devices : challenge[d] \in 0..asked /\ challenge[d] \in Nat
      /\ secrets \in Nat
    BY <1>a, TypedParts, MaxAttemptsAssumption DEF Numbers
<1> USE <1>a, <1>b
<1>1. ASSUME NEW d \in Devices, NEW right \in BOOLEAN, VerifyRead(p, d, right)
      PROVE  Moves(p) /\ Sound(p)'
    <2>0. PICK n \in Nat, b \in BOOLEAN :
              /\ n = (IF right THEN totp.secret ELSE email.attempts) /\ b = totp.enabled
        BY <1>c
    <2>1. PICK s : s = [NoRequest EXCEPT !.dev = d, !.proof = EmailCode, !.enabled = b, !.seen = n]
        OBVIOUS
    <2>2. /\ s \in Request /\ s.dev = d /\ s.jti = NoJti /\ s.login = NoJti /\ s.todo = {}
          /\ s.seen = n
        BY <2>1, NoRequestReads, ProofsTyped DEF Request
    <2>3. ~right => s.seen < MaxAttempts
        BY <1>1, <1>c, <2>0, <2>2, MaxAttemptsAssumption DEF VerifyRead
    <2>4. PICK label \in {"verify_right", "verify_wrong"} :
              /\ pc' = [pc EXCEPT ![p] = label] /\ req' = [req EXCEPT ![p] = s]
              /\ label = "verify_wrong" => ~right
        BY <1>1, <2>0, <2>1 DEF VerifyRead, BeginHere, Begin
    <2> QED
        BY <2>2, <2>3, <2>4, BeginMoves DEF Rotating
<1>2. ASSUME NEW d \in Devices, NEW via \in {"http", "ws"}, Login(p, d, via) \/ GoogleLogin(p, d)
      PROVE  Moves(p) /\ Sound(p)'
    <2>0. PICK n \in Nat, b \in BOOLEAN : n = totp.secret /\ b = totp.enabled
        BY <1>c
    <2>1. PICK s : /\ \/ s = [NoRequest EXCEPT !.dev = d, !.via = via, !.seen = n, !.enabled = b]
                      \/ s = [NoRequest EXCEPT !.dev = d, !.seen = n, !.enabled = b]
                   /\ pc' = [pc EXCEPT ![p] = "factor"] /\ req' = [req EXCEPT ![p] = s]
        BY <1>2, <2>0 DEF Login, GoogleLogin, BeginHere, Begin
    <2>2. s \in Request /\ s.dev = d /\ s.jti = NoJti /\ s.login = NoJti /\ s.todo = {}
        BY <2>1, NoRequestReads DEF Request
    <2> QED
        BY <2>1, <2>2, BeginMoves DEF Rotating
<1>3. ASSUME NEW d \in Devices, NEW new \in BOOLEAN, PasskeyFinish(p, d, new) \/ Confirmed(p, d)
      PROVE  Moves(p) /\ Sound(p)'
    <2>0. PICK x \in Proofs, b \in BOOLEAN : x = Challenge(challenge[d]) /\ b = totp.enabled
        BY <1>c, ProofsTyped
    <2>1. PICK s : /\ \/ s = [NoRequest EXCEPT !.dev = d, !.proof = x, !.enabled = b]
                      \/ s = [NoRequest EXCEPT !.dev = d, !.enabled = b]
                   /\ pc' = [pc EXCEPT ![p] = "issue"] /\ req' = [req EXCEPT ![p] = s]
        BY <1>3, <2>0 DEF PasskeyFinish, Confirmed, BeginHere, Begin
    <2>2. s \in Request /\ s.dev = d /\ s.jti = NoJti /\ s.login = NoJti /\ s.todo = {}
        BY <2>1, NoRequestReads DEF Request
    <2> QED
        BY <2>1, <2>2, BeginMoves DEF Rotating
<1>4. ASSUME NEW d \in Devices, TotpConfirm(p, d) PROVE Moves(p) /\ Sound(p)'
    <2>1. PICK n \in Nat : n = totp.secret
        BY <1>c
    <2>2. PICK s : /\ s = [NoRequest EXCEPT !.dev = d, !.seen = n, !.enabled = TRUE]
                   /\ pc' = [pc EXCEPT ![p] = "confirm"] /\ req' = [req EXCEPT ![p] = s]
        BY <1>4, <2>1 DEF TotpConfirm, BeginHere, Begin
    <2>3. s \in Request /\ s.dev = d /\ s.jti = NoJti /\ s.login = NoJti /\ s.todo = {} /\ s.seen = n
        BY <2>2, NoRequestReads DEF Request
    <2>4. n \in 1..secrets'
        BY <1>4, <1>c, <2>1 DEF TotpConfirm, oneTimeVars, totpVars
    <2> QED
        BY <2>2, <2>3, <2>4, BeginMoves DEF Rotating
<1>5. ASSUME NEW d \in Devices, TotpDisable(p, d) \/ Regenerate(p, d) PROVE Moves(p) /\ Sound(p)'
    <2>0. PICK n \in Nat : n = totp.secret
        BY <1>c
    <2>1. PICK label \in {"disable", "regenerate"} : \E s :
              /\ \/ s = [NoRequest EXCEPT !.dev = d, !.seen = n]
                 \/ s = [NoRequest EXCEPT !.dev = d]
              /\ pc' = [pc EXCEPT ![p] = label] /\ req' = [req EXCEPT ![p] = s]
        BY <1>5, <2>0 DEF TotpDisable, Regenerate, BeginHere, Begin
    <2>4. PICK s : /\ \/ s = [NoRequest EXCEPT !.dev = d, !.seen = n]
                      \/ s = [NoRequest EXCEPT !.dev = d]
                   /\ pc' = [pc EXCEPT ![p] = label] /\ req' = [req EXCEPT ![p] = s]
        BY <2>1
    <2>2. s \in Request /\ s.dev = d /\ s.jti = NoJti /\ s.login = NoJti /\ s.todo = {}
        BY <2>4, NoRequestReads DEF Request
    <2>3. label \notin Rotating \cup {"answer", "verify_wrong", "confirm"}
        BY <2>1 DEF Rotating
    <2> QED
        BY <2>2, <2>3, <2>4, BeginMoves
<1>6. CASE \/ VerifyConsume(p) \/ VerifySave(p) \/ FactorNone(p) \/ FactorTotp(p) \/ FactorBackup(p)
           \/ DisableTotp(p) \/ DisableBackup(p) \/ DisableSave(p)
    <2>1. PICK label \in {"verify_save", "factor", "issue", "gate", "disable_save", "disable_codes"} :
              pc' = [pc EXCEPT ![p] = label] /\ req' = [req EXCEPT ![p] = req[p]]
        BY <1>6 DEF VerifyConsume, VerifySave, FactorNone, FactorTotp, FactorBackup, DisableTotp,
                    DisableBackup, DisableSave, Consume, Goto, GoWith, Passed
    <2>2. pc[p] # "idle"
        BY <1>6 DEF VerifyConsume, VerifySave, FactorNone, FactorTotp, FactorBackup, DisableTotp,
                    DisableBackup, DisableSave
    <2>3. PICK r \in Request : r = req[p]
        OBVIOUS
    <2>4. /\ r.jti \in Jtis' \cup {NoJti} /\ r.login \in Logins' \cup {NoJti}
          /\ r.todo \subseteq Jtis' /\ r.dev \in Devices
        BY <2>2, <2>3 DEF Sound
    <2>5. label \notin Rotating \cup Attaching \cup {"answer", "idle", "verify_wrong", "confirm"}
        BY <2>1 DEF Rotating, Attaching
    <2> QED
        BY <2>1, <2>3, <2>4, <2>5, SoundAt
<1>7. CASE Attach(p) \/ AttachCreate(p)
    BY <1>7, FinishMoves, GotoMoves DEF Attach, AttachCreate, Attached, Sound, Rotating, Attaching
<1>8. CASE Gate(p)
    BY <1>8, FinishMoves, GotoMoves DEF Gate, Sound, Rotating, Attaching
<1>9. CASE AnswerLogin(p) \/ FactorRefused(p) \/ VerifyWrong(p) \/ DisableCodes(p) \/ RegenerateCodes(p)
    BY <1>9, FinishMoves DEF AnswerLogin, Answer, FactorRefused, VerifyWrong, DisableCodes,
                             RegenerateCodes
<1>10. CASE TotpConfirmSave(p)
    BY <1>10, GotoMoves DEF TotpConfirmSave, Sound, Rotating, Attaching
<1>11. CASE CrashLogin(p)
    <2>1. pc' = [pc EXCEPT ![p] = "idle"] /\ req' = [req EXCEPT ![p] = NoRequest]
        BY <1>11 DEF CrashLogin, Crash
    <2>2. NoRequest \in Request
        BY NoRequestReads
    <2>3. Moves(p) /\ pc'[p] = "idle" /\ req'[p] = NoRequest
        BY <2>1, <2>2 DEF Moves, Processes
    <2> QED
        BY <2>3, NoRequestReads DEF Sound, Rotating, Attaching
<1> QED
    BY <1>1, <1>2, <1>3, <1>4, <1>5, <1>6, <1>7, <1>8, <1>9, <1>10, <1>11 DEF CodeNext

-----------------------------------------------------------------------------
(* The codes, TOTP and the passkeys; and the budgets.                      *)

LEMMA CodeStays ==
    ASSUME CodeTyped, UNCHANGED oneTimeVars
    PROVE  CodeTyped' /\ secrets <= secrets'
BY DEF CodeTyped, Numbers, oneTimeVars, emailVars, totpVars, codeVars, keyVars, proofVars

LEMMA FlagsTyped ==
    ASSUME CodeTyped, NEW b, b = TRUE
    PROVE  /\ [email EXCEPT !.consumed = b] \in [consumed : BOOLEAN, attempts : 0..MaxAttempts, late : BOOLEAN]
           /\ [email EXCEPT !.late = b] \in [consumed : BOOLEAN, attempts : 0..MaxAttempts, late : BOOLEAN]
           /\ [totp EXCEPT !.enabled = b] \in [enabled : BOOLEAN, secret : 0..secrets]
BY DEF CodeTyped

LEMMA AcceptTyped ==
    ASSUME again \subseteq spent, NEW x, Accept(x)
    PROVE  again' \subseteq spent'
BY DEF Accept

LEMMA ConsumeTyped ==
    ASSUME CodeTyped, NEW p, NEW c, NEW label, Consume(p, c, label)
    PROVE  CodeTyped' /\ secrets <= secrets'
<1>1. again' \subseteq spent' /\ used' \subseteq 1..minted
    BY AcceptTyped DEF Consume, CodeTyped
<1> QED
    BY <1>1 DEF Consume, CodeTyped, Numbers, emailVars, totpVars, keyVars

LEMMA CodeByRequest ==
    ASSUME CodeTyped, NEW p \in Procs, Sound(p), Processes, CodeNext(p)
    PROVE  CodeTyped' /\ secrets <= secrets'
<1>1. ASSUME NEW d \in Devices, NEW right \in BOOLEAN, VerifyRead(p, d, right)
      PROVE  CodeTyped' /\ secrets <= secrets'
    BY <1>1 DEF VerifyRead, CodeTyped, Numbers, emailVars, totpVars, codeVars, keyVars
<1>2. ASSUME NEW d \in Devices, NEW via \in {"http", "ws"},
             \/ Login(p, d, via) \/ TotpConfirm(p, d) \/ TotpDisable(p, d) \/ Regenerate(p, d)
             \/ Confirmed(p, d)
      PROVE  CodeTyped' /\ secrets <= secrets'
    BY <1>2, CodeStays DEF Login, TotpConfirm, TotpDisable, Regenerate, Confirmed
<1>3. ASSUME NEW d \in Devices, GoogleLogin(p, d) PROVE CodeTyped' /\ secrets <= secrets'
    BY <1>3 DEF GoogleLogin, CodeTyped, Numbers, totpVars, codeVars, keyVars, proofVars
<1>4. ASSUME NEW d \in Devices, NEW new \in BOOLEAN, PasskeyFinish(p, d, new)
      PROVE  CodeTyped' /\ secrets <= secrets'
    <2>1. again' \subseteq spent'
        BY <1>4, AcceptTyped DEF PasskeyFinish, CodeTyped
    <2> QED
        BY <1>4, <2>1 DEF PasskeyFinish, CodeTyped, Numbers, emailVars, totpVars, codeVars
<1>5. CASE VerifyWrong(p)
    <2>1. req[p].seen + 1 \in 0..MaxAttempts
        BY <1>5, Typing, MaxAttemptsAssumption DEF VerifyWrong, Sound
    <2> QED
        BY <1>5, <2>1 DEF VerifyWrong, CodeTyped, Numbers, totpVars, codeVars, keyVars, proofVars
<1>6. CASE VerifyConsume(p)
    <2>1. again' \subseteq spent'
        BY <1>6, AcceptTyped DEF VerifyConsume, CodeTyped
    <2>2. email' \in [consumed : BOOLEAN, attempts : 0..MaxAttempts, late : BOOLEAN]
        BY <1>6, FlagsTyped DEF VerifyConsume
    <2> QED
        BY <1>6, <2>1, <2>2 DEF VerifyConsume, CodeTyped, Numbers, totpVars, codeVars, keyVars
<1>7. CASE VerifySave(p)
    BY <1>7 DEF VerifySave, CodeTyped, Numbers, totpVars, codeVars, keyVars, proofVars
<1>8. CASE FactorNone(p) \/ FactorTotp(p) \/ FactorRefused(p) \/ Gate(p) \/ Attach(p) \/ DisableTotp(p)
    BY <1>8, CodeStays DEF FactorNone, FactorTotp, FactorRefused, Gate, Attach, DisableTotp
<1>9. CASE FactorBackup(p) \/ DisableBackup(p)
    BY <1>9, ConsumeTyped DEF FactorBackup, DisableBackup
<1>10. CASE AttachCreate(p)
    <2>1. /\ codes' = codes \cup {minted + 1} /\ minted' = minted + 1
          /\ UNCHANGED <<used, emailVars, totpVars, keyVars, proofVars>>
        BY <1>10 DEF AttachCreate
    <2>2. codes' \subseteq 1..minted' /\ used' \subseteq 1..minted' /\ minted' \in Nat
        BY <2>1 DEF CodeTyped, Numbers
    <2> QED
        BY <2>1, <2>2 DEF CodeTyped, Numbers, emailVars, totpVars, keyVars, proofVars
<1>11. CASE RegenerateCodes(p)
    <2>1. /\ codes' = {minted + 1} /\ minted' = minted + 1
          /\ UNCHANGED <<used, emailVars, totpVars, keyVars, proofVars>>
        BY <1>11 DEF RegenerateCodes
    <2>2. codes' \subseteq 1..minted' /\ used' \subseteq 1..minted' /\ minted' \in Nat
        BY <2>1 DEF CodeTyped, Numbers
    <2> QED
        BY <2>1, <2>2 DEF CodeTyped, Numbers, emailVars, totpVars, keyVars, proofVars
<1>12. CASE AnswerLogin(p)
    <2>1. \E f \in Devices \cup {"none"} :
             challenge' = challenge \/ challenge' = [challenge EXCEPT ![f] = 0]
        BY <1>12, Typing DEF AnswerLogin
    <2>2. challenge' \in [Devices -> 0..asked]
        BY <2>1 DEF CodeTyped, Numbers
    <2> QED
        BY <1>12, <2>2
        DEF AnswerLogin, CodeTyped, Numbers, emailVars, totpVars, codeVars, proofVars
<1>13. CASE TotpConfirmSave(p)
    <2>1. req[p].seen \in 1..secrets
        BY <1>13 DEF TotpConfirmSave, Sound
    <2>2. totp' \in [enabled : BOOLEAN, secret : 0..secrets]
        BY <1>13, FlagsTyped DEF TotpConfirmSave
    <2> QED
        BY <1>13, <2>1, <2>2
        DEF TotpConfirmSave, CodeTyped, Numbers, emailVars, codeVars, keyVars, proofVars
<1>14. CASE DisableSave(p)
    <2>1. raced' \in BOOLEAN
        BY <1>14 DEF DisableSave, SaveTotp, CodeTyped
    <2> QED
        BY <1>14, <2>1
        DEF DisableSave, SaveTotp, CodeTyped, Numbers, emailVars, codeVars, keyVars, proofVars
<1>15. CASE DisableCodes(p)
    BY <1>15 DEF DisableCodes, CodeTyped, Numbers, emailVars, totpVars, keyVars, proofVars
<1>16. CASE CrashLogin(p)
    BY <1>16 DEF CrashLogin, CodeTyped, Numbers, emailVars, totpVars, codeVars, keyVars
<1> QED
    BY <1>1, <1>2, <1>3, <1>4, <1>5, <1>6, <1>7, <1>8, <1>9, <1>10, <1>11, <1>12, <1>13, <1>14,
       <1>15, <1>16 DEF CodeNext

LEMMA CodeStep ==
    ASSUME Typed, [Next]_vars
    PROVE  CodeTyped' /\ secrets <= secrets'
<1>1. CodeTyped /\ Processes /\ \A q \in Procs : Sound(q)
    BY TypedParts
<1>2. ASSUME NEW p \in Procs, CodeNext(p) PROVE CodeTyped' /\ secrets <= secrets'
    BY <1>1, <1>2, CodeByRequest
<1>3. ASSUME NEW d \in Devices, PasskeyStart(d) PROVE CodeTyped' /\ secrets <= secrets'
    <2>1. PICK n \in Nat : n = asked + 1
        BY <1>1 DEF CodeTyped, Numbers
    <2>2. challenge' = [challenge EXCEPT ![d] = n] /\ asked' = n
        BY <1>3, <2>1 DEF PasskeyStart
    <2>3. challenge' \in [Devices -> 0..asked']
        BY <1>1, <2>1, <2>2 DEF CodeTyped, Numbers
    <2> QED
        BY <1>1, <1>3, <2>1, <2>2, <2>3
        DEF PasskeyStart, CodeTyped, Numbers, emailVars, totpVars, codeVars, proofVars
<1>4. ASSUME NEW d \in Devices, PasskeyRemove(d) PROVE CodeTyped' /\ secrets <= secrets'
    BY <1>1, <1>4 DEF PasskeyRemove, CodeTyped, Numbers, emailVars, totpVars, codeVars, proofVars
<1>5. ASSUME NEW d \in Devices, TotpStart(d) PROVE CodeTyped' /\ secrets <= secrets'
    <2>1. PICK n \in Nat : n = secrets + 1
        BY <1>1 DEF CodeTyped, Numbers
    <2>2. totp' = [enabled |-> FALSE, secret |-> n] /\ secrets' = n /\ raced' \in BOOLEAN
        BY <1>1, <1>5, <2>1 DEF TotpStart, SaveTotp, CodeTyped
    <2>3. totp' \in [enabled : BOOLEAN, secret : 0..secrets']
        BY <2>1, <2>2
    <2> QED
        BY <1>1, <1>5, <2>1, <2>2, <2>3
        DEF TotpStart, CodeTyped, Numbers, emailVars, codeVars, keyVars, proofVars
<1>6. CASE EmailCodeExpires
    <2>1. email' \in [consumed : BOOLEAN, attempts : 0..MaxAttempts, late : BOOLEAN]
        BY <1>1, <1>6, FlagsTyped DEF EmailCodeExpires
    <2> QED
        BY <1>1, <1>6, <2>1 DEF EmailCodeExpires, CodeTyped, Numbers, totpVars, codeVars, keyVars, proofVars
<1>7. CASE UNCHANGED oneTimeVars
    BY <1>1, <1>7, CodeStays
<1> QED
    BY <1>2, <1>3, <1>4, <1>5, <1>6, <1>7 DEF Next, vars

LEMMA SpendTyped ==
    ASSUME left \in [Sorts -> Nat], NEW k, Spend(k)
    PROVE  left' \in [Sorts -> Nat]
<1>1. CASE k \in Sorts
    BY <1>1 DEF Spend
<1>2. CASE k \notin Sorts
    BY <1>2 DEF Spend
<1> QED
    BY <1>1, <1>2

LEMMA LeftStep ==
    ASSUME left \in [Sorts -> Nat], [Next]_vars
    PROVE  left' \in [Sorts -> Nat]
<1> USE SpendTyped
<1>1. ASSUME NEW p \in Procs, RequestNext(p) PROVE left' \in [Sorts -> Nat]
    BY <1>1 DEF RequestNext, Issue, Refresh, RefreshDelete, RefreshInsert, RevokeGet, RevokeList, RevokeBlacklist,
                RevokeDelete, KillRead, KillBlacklist, KillDelete, LifetimeList, LifetimeSave,
                TouchFails, KillOthers, RevokeOthersWs, Lifetime, RevokeWs, RevokeRest, Logout,
                BeginAs, Begin, Finish, Goto, GoWith
<1>2. ASSUME NEW p \in Procs, CodeNext(p), ~CrashLogin(p) PROVE left' \in [Sorts -> Nat]
    BY <1>2 DEF CodeNext, AnswerLogin, Answer, Gate, Confirmed, VerifyRead, Login,
                GoogleLogin, PasskeyFinish, TotpConfirm, TotpDisable, Regenerate, BeginHere,
                VerifyWrong, VerifyConsume, VerifySave, FactorNone, FactorTotp, FactorBackup,
                FactorRefused, Attach, AttachCreate, Attached, TotpConfirmSave, RegenerateCodes,
                DisableTotp, DisableBackup, DisableSave, DisableCodes, Consume, Begin, Finish, Goto, GoWith
<1>3. ASSUME NEW p \in Procs, CrashLogin(p) PROVE left' \in [Sorts -> Nat]
    BY <1>3 DEF CrashLogin, Crash, Spend
<1>4. ASSUME NEW d \in Devices, PasskeyStart(d) \/ PasskeyRemove(d) \/ TotpStart(d)
      PROVE  left' \in [Sorts -> Nat]
    BY <1>4 DEF PasskeyStart, PasskeyRemove, TotpStart
<1>5. ASSUME \/ \E d \in Devices :
                  \/ ConnectByCookie(d) \/ ConnectByToken(d) \/ AuthUpgrade(d)
                  \/ RefreshAccess(d) \/ MessageRefused(d) \/ Disconnect(d)
                  \/ AccessExpires(d)
             \/ \E j \in Jtis : Lapse(j) \/ TokenExpires(j) \/ CleanBlacklist(j)
             \/ Flush
      PROVE  left' \in [Sorts -> Nat]
    BY <1>5 DEF ConnectByCookie, ConnectByToken, AuthUpgrade, RefreshAccess, MessageRefused,
                Disconnect, AccessExpires, Lapse, TokenExpires, CleanBlacklist, Flush, proc
<1>6. CASE EmailCodeExpires
    BY <1>6 DEF EmailCodeExpires
<1>7. CASE UNCHANGED vars
    BY <1>7 DEF vars, sessionVars, proc
<1> QED
    BY <1>1, <1>2, <1>3, <1>4, <1>5, <1>6, <1>7 DEF Next, SessionNext

-----------------------------------------------------------------------------
(* Typing is inductive.                                                    *)

\* Every step but a request's leaves the requests alone.
LEMMA WhoMoves ==
    ASSUME [Next]_vars
    PROVE  UNCHANGED <<pc, req>> \/ \E p \in Procs : RequestNext(p) \/ CodeNext(p)
<1>1. ASSUME NEW d \in Devices, PasskeyStart(d) \/ PasskeyRemove(d) \/ TotpStart(d)
      PROVE  UNCHANGED <<pc, req>>
    BY <1>1 DEF PasskeyStart, PasskeyRemove, TotpStart
<1>2. ASSUME \/ \E d \in Devices :
                  \/ ConnectByCookie(d) \/ ConnectByToken(d) \/ AuthUpgrade(d)
                  \/ RefreshAccess(d) \/ MessageRefused(d) \/ Disconnect(d)
                  \/ AccessExpires(d)
             \/ \E j \in Jtis : Lapse(j) \/ TokenExpires(j) \/ CleanBlacklist(j)
             \/ Flush
      PROVE  UNCHANGED <<pc, req>>
    BY <1>2 DEF ConnectByCookie, ConnectByToken, AuthUpgrade, RefreshAccess, MessageRefused,
                Disconnect, AccessExpires, Lapse, TokenExpires, CleanBlacklist, Flush, proc
<1>3. CASE EmailCodeExpires
    BY <1>3 DEF EmailCodeExpires
<1>4. CASE UNCHANGED vars
    BY <1>4 DEF vars, sessionVars, proc
<1> QED
    BY <1>1, <1>2, <1>3, <1>4 DEF Next, SessionNext

LEMMA TypedInit == Init => Typed
<1> SUFFICES ASSUME Init PROVE Typed
    OBVIOUS
<1>1. issued = <<>> /\ Jtis = {} /\ Logins = {} /\ issued \in Seq(Entry)
    BY DEF Init, SessionInit, Jtis, Logins
<1>2. TableTyped
    <2>1. /\ cookie = [d \in Devices |-> NoJti] /\ conn = [d \in Devices |-> NoConnection]
          /\ rows = {} /\ lapsed = {} /\ black = {} /\ dead = {}
          /\ access = {} /\ deferred = {} /\ ended = {} /\ excused = {}
        BY DEF Init, SessionInit
    <2>2. NoConnection \in [up : BOOLEAN, auth : BOOLEAN, jti : Jtis \cup {NoJti},
                            hand : Jtis \cup {NoJti}]
        BY DEF NoConnection
    <2> QED
        BY <1>1, <2>1, <2>2 DEF TableTyped
<1>3. /\ pc = [q \in Procs |-> "idle"] /\ req = [q \in Procs |-> NoRequest]
      /\ left \in [Sorts -> Nat]
    BY BudgetsAssumption DEF Init, SessionInit
<1>4. Processes /\ \A q \in Procs : Sound(q)
    BY <1>1, <1>3, NoRequestReads DEF Processes, Sound, Rotating, Attaching
<1>5. CodeTyped
    <2>1. /\ secrets \in Nat /\ minted \in Nat /\ asked \in Nat
          /\ email \in [consumed : BOOLEAN, attempts : 0..MaxAttempts, late : BOOLEAN]
        BY MaxAttemptsAssumption DEF Init, CodeInit
    <2>2. totp \in [enabled : BOOLEAN, secret : 0..secrets] /\ challenge \in [Devices -> 0..asked]
        BY DEF Init, CodeInit
    <2> QED
        BY <2>1, <2>2 DEF Init, CodeInit, CodeTyped, Numbers
<1> QED
    BY <1>2, <1>3, <1>4, <1>5 DEF Typed

LEMMA TypedStep == Typed /\ [Next]_vars => Typed'
<1> SUFFICES ASSUME Typed, [Next]_vars PROVE Typed'
    OBVIOUS
<1>1. /\ TableTyped' /\ CodeTyped' /\ secrets <= secrets' /\ left' \in [Sorts -> Nat]
      /\ Jtis \subseteq Jtis' /\ Logins \subseteq Logins'
    BY TableStep, CodeStep, LeftStep, IssuedGrows, TypedParts
<1>2. Numbers /\ Numbers' /\ Processes /\ \A q \in Procs : Sound(q)
    BY <1>1, TypedParts DEF CodeTyped
<1>3. CASE UNCHANGED <<pc, req>>
    <2>1. Processes'
        BY <1>2, <1>3 DEF Processes
    <2>2. \A q \in Procs : Sound(q)'
        BY <1>1, <1>2, <1>3, SoundStays
    <2> QED
        BY <1>1, <2>1, <2>2 DEF Typed
<1>4. ASSUME NEW p \in Procs, RequestNext(p) \/ CodeNext(p) PROVE Typed'
    <2>1. Moves(p) /\ Sound(p)'
        BY <1>1, <1>2, <1>4, SoundByRequest, SoundByCode
    <2>2. ASSUME NEW q \in Procs PROVE Sound(q)'
        BY <1>1, <1>2, <2>1, SoundStays DEF Moves
    <2> QED
        BY <1>1, <2>1, <2>2 DEF Typed, Moves
<1> QED
    BY <1>3, <1>4, WhoMoves

\* Sessions, requests, codes and challenges are what they are taken to be, whatever
\* the requests of the account do to one another (services/sessions.py, views.py).
THEOREM TypeCorrect == Spec => []TypeOK
<1>1. Typed => TypeOK
    BY DEF Typed, TypeOK, SessionTypeOK, TableTyped, CodeTyped, Sound
<1> QED
    BY <1>1, TypedInit, TypedStep, PTL DEF Spec

-----------------------------------------------------------------------------
(* The ways to a login, and the statements that leave the sessions alone.   *)

Undisturbed == UNCHANGED <<table, tokens, client, conn, history>>

\* What a step on the way to a login comes to, as far as the sessions are concerned.
CodeShape(p) ==
    /\ Undisturbed
    /\ \/ /\ pc'[p] = "idle" /\ req'[p] = NoRequest
          /\ pc[p] \in Early \/ (pc[p] \in Attaching /\ req[p].jti = NoJti)
       \/ pc[p] = "idle" /\ pc'[p] \in Early /\ req'[p].login = NoJti
       \/ pc[p] \in Early /\ pc'[p] \in Early /\ req'[p] = req[p]
       \/ pc[p] = "confirm" /\ pc'[p] = "attach" /\ req'[p] = req[p]
       \/ /\ pc[p] \in Attaching /\ req'[p] = req[p]
          /\ pc'[p] \in {"attach_create", "answer"}
          /\ pc'[p] = "answer" => req[p].jti # NoJti

\* The local variables that the requests of CodeNext begin with.
LEMMA FormsRead ==
    \A d, x, n, b, v :
        /\ LET r == [NoRequest EXCEPT !.dev = d, !.proof = x, !.enabled = b, !.seen = n]
           IN  r.login = NoJti /\ r.jti = NoJti /\ r.proof = x /\ r.seen = n /\ r.dev = d
        /\ LET r == [NoRequest EXCEPT !.dev = d, !.via = v, !.seen = n, !.enabled = b]
           IN  r.login = NoJti /\ r.jti = NoJti /\ r.proof = NoProof /\ r.seen = n /\ r.dev = d
        /\ LET r == [NoRequest EXCEPT !.dev = d, !.seen = n, !.enabled = b]
           IN  r.login = NoJti /\ r.jti = NoJti /\ r.proof = NoProof /\ r.seen = n /\ r.dev = d
        /\ LET r == [NoRequest EXCEPT !.dev = d, !.proof = x, !.enabled = b]
           IN  r.login = NoJti /\ r.jti = NoJti /\ r.proof = x /\ r.dev = d
        /\ LET r == [NoRequest EXCEPT !.dev = d, !.enabled = b]
           IN  r.login = NoJti /\ r.jti = NoJti /\ r.proof = NoProof /\ r.dev = d
        /\ LET r == [NoRequest EXCEPT !.dev = d, !.seen = n]
           IN  r.login = NoJti /\ r.jti = NoJti /\ r.proof = NoProof /\ r.dev = d
        /\ LET r == [NoRequest EXCEPT !.dev = d]
           IN  r.login = NoJti /\ r.jti = NoJti /\ r.proof = NoProof /\ r.dev = d
BY DEF NoRequest

\* What a request of CodeNext begins as.
LEMMA Beginnings ==
    ASSUME Processes, NEW p \in Procs, NEW d \in Devices
    PROVE  /\ \A right \in BOOLEAN : VerifyRead(p, d, right) =>
                 /\ pc'[p] \in {"verify_right", "verify_wrong"}
                 /\ req'[p].login = NoJti /\ req'[p].jti = NoJti /\ req'[p].proof = EmailCode
           /\ \A via : Login(p, d, via) \/ GoogleLogin(p, d) =>
                 /\ pc'[p] = "factor"
                 /\ req'[p].login = NoJti /\ req'[p].jti = NoJti /\ req'[p].proof = NoProof
           /\ \A new : PasskeyFinish(p, d, new) =>
                 /\ pc'[p] = "issue" /\ req'[p].dev = d
                 /\ req'[p].login = NoJti /\ req'[p].jti = NoJti
                 /\ req'[p].proof = Challenge(challenge[d])
           /\ Confirmed(p, d) =>
                 /\ pc'[p] = "issue"
                 /\ req'[p].login = NoJti /\ req'[p].jti = NoJti /\ req'[p].proof = NoProof
           /\ TotpConfirm(p, d) =>
                 /\ pc'[p] = "confirm" /\ req'[p].seen = totp.secret
                 /\ req'[p].login = NoJti /\ req'[p].jti = NoJti /\ req'[p].proof = NoProof
           /\ TotpDisable(p, d) \/ Regenerate(p, d) =>
                 /\ pc'[p] \in {"disable", "regenerate"}
                 /\ req'[p].login = NoJti /\ req'[p].jti = NoJti /\ req'[p].proof = NoProof
<1>1. pc = [q \in Procs |-> pc[q]] /\ req = [q \in Procs |-> req[q]]
    BY DEF Processes, Request
<1>2. ASSUME NEW right \in BOOLEAN, VerifyRead(p, d, right)
      PROVE  /\ pc'[p] \in {"verify_right", "verify_wrong"}
             /\ req'[p].login = NoJti /\ req'[p].jti = NoJti /\ req'[p].proof = EmailCode
    <2>1. /\ pc'[p] \in {"verify_right", "verify_wrong"}
          /\ req'[p] = [NoRequest EXCEPT !.dev = d, !.proof = EmailCode, !.enabled = totp.enabled,
                                         !.seen = IF right THEN totp.secret ELSE email.attempts]
        BY <1>1, <1>2 DEF VerifyRead, BeginHere, Begin
    <2> QED
        BY <2>1, FormsRead
<1>3. ASSUME NEW via, Login(p, d, via) \/ GoogleLogin(p, d)
      PROVE  /\ pc'[p] = "factor"
             /\ req'[p].login = NoJti /\ req'[p].jti = NoJti /\ req'[p].proof = NoProof
    <2>1. /\ pc'[p] = "factor"
          /\ \/ req'[p] = [NoRequest EXCEPT !.dev = d, !.via = via, !.seen = totp.secret,
                                            !.enabled = totp.enabled]
             \/ req'[p] = [NoRequest EXCEPT !.dev = d, !.seen = totp.secret, !.enabled = totp.enabled]
        BY <1>1, <1>3 DEF Login, GoogleLogin, BeginHere, Begin
    <2>2. CASE req'[p] = [NoRequest EXCEPT !.dev = d, !.via = via, !.seen = totp.secret,
                                           !.enabled = totp.enabled]
        BY <2>1, <2>2, FormsRead
    <2>3. CASE req'[p] = [NoRequest EXCEPT !.dev = d, !.seen = totp.secret, !.enabled = totp.enabled]
        BY <2>1, <2>3, FormsRead
    <2> QED
        BY <2>1, <2>2, <2>3
<1>4. ASSUME NEW new, PasskeyFinish(p, d, new)
      PROVE  /\ pc'[p] = "issue" /\ req'[p].dev = d
             /\ req'[p].login = NoJti /\ req'[p].jti = NoJti
             /\ req'[p].proof = Challenge(challenge[d])
    <2>1. /\ pc'[p] = "issue"
          /\ req'[p] = [NoRequest EXCEPT !.dev = d, !.proof = Challenge(challenge[d]),
                                         !.enabled = totp.enabled]
        BY <1>1, <1>4 DEF PasskeyFinish, BeginHere, Begin
    <2> QED
        BY <2>1, FormsRead
<1>5. ASSUME Confirmed(p, d)
      PROVE  /\ pc'[p] = "issue"
             /\ req'[p].login = NoJti /\ req'[p].jti = NoJti /\ req'[p].proof = NoProof
    <2>1. /\ pc'[p] = "issue"
          /\ req'[p] = [NoRequest EXCEPT !.dev = d, !.enabled = totp.enabled]
        BY <1>1, <1>5 DEF Confirmed, Begin
    <2> QED
        BY <2>1, FormsRead
<1>6. ASSUME TotpConfirm(p, d)
      PROVE  /\ pc'[p] = "confirm" /\ req'[p].seen = totp.secret
             /\ req'[p].login = NoJti /\ req'[p].jti = NoJti /\ req'[p].proof = NoProof
    <2>1. /\ pc'[p] = "confirm"
          /\ req'[p] = [NoRequest EXCEPT !.dev = d, !.seen = totp.secret, !.enabled = TRUE]
        BY <1>1, <1>6 DEF TotpConfirm, BeginHere, Begin
    <2> QED
        BY <2>1, FormsRead
<1>7. ASSUME TotpDisable(p, d) \/ Regenerate(p, d)
      PROVE  /\ pc'[p] \in {"disable", "regenerate"}
             /\ req'[p].login = NoJti /\ req'[p].jti = NoJti /\ req'[p].proof = NoProof
    <2>1. /\ pc'[p] \in {"disable", "regenerate"}
          /\ \/ req'[p] = [NoRequest EXCEPT !.dev = d, !.seen = totp.secret]
             \/ req'[p] = [NoRequest EXCEPT !.dev = d]
        BY <1>1, <1>7 DEF TotpDisable, Regenerate, BeginHere, Begin
    <2>2. CASE req'[p] = [NoRequest EXCEPT !.dev = d, !.seen = totp.secret]
        BY <2>1, <2>2, FormsRead
    <2>3. CASE req'[p] = [NoRequest EXCEPT !.dev = d]
        BY <2>1, <2>3, FormsRead
    <2> QED
        BY <2>1, <2>2, <2>3
<1> QED
    BY <1>2, <1>3, <1>4, <1>5, <1>6, <1>7

LEMMA CodeShapes ==
    ASSUME Typed, NEW p \in Procs, CodeNext(p)
    PROVE  CodeShape(p) \/ AnswerLogin(p) \/ CrashLogin(p)
<1>0. Processes /\ pc = [q \in Procs |-> pc[q]] /\ req = [q \in Procs |-> req[q]]
    BY TypedParts DEF Processes, Request
<1>1. ASSUME NEW d \in Devices, NEW right \in BOOLEAN, NEW via \in {"http", "ws"}, NEW new \in BOOLEAN,
             \/ VerifyRead(p, d, right) \/ Login(p, d, via) \/ GoogleLogin(p, d) \/ Confirmed(p, d)
             \/ PasskeyFinish(p, d, new) \/ TotpConfirm(p, d) \/ TotpDisable(p, d)
             \/ Regenerate(p, d)
      PROVE  CodeShape(p)
    <2>1. Undisturbed /\ pc[p] = "idle"
        BY <1>1 DEF VerifyRead, Login, GoogleLogin, Confirmed, PasskeyFinish, TotpConfirm, TotpDisable,
                    Regenerate, BeginHere, Begin, Undisturbed
    <2>2. pc'[p] \in Early /\ req'[p].login = NoJti
        BY <1>0, <1>1, Beginnings DEF Early
    <2> QED
        BY <2>1, <2>2 DEF CodeShape
<1>2. CASE \/ VerifyConsume(p) \/ VerifySave(p) \/ FactorNone(p) \/ FactorTotp(p) \/ FactorBackup(p)
           \/ DisableTotp(p) \/ DisableBackup(p) \/ DisableSave(p)
    <2>1. Undisturbed /\ pc[p] \in Early
        BY <1>2 DEF VerifyConsume, VerifySave, FactorNone, FactorTotp, FactorBackup, DisableTotp,
                    DisableBackup, DisableSave, Consume, StepHere, Undisturbed, Early
    <2>2. pc'[p] \in Early /\ req'[p] = req[p]
        BY <1>0, <1>2 DEF VerifyConsume, VerifySave, FactorNone, FactorTotp, FactorBackup,
                    DisableTotp, DisableBackup, DisableSave, Consume, Passed, Goto, GoWith, Early
    <2> QED
        BY <2>1, <2>2 DEF CodeShape
<1>3. CASE FactorRefused(p) \/ VerifyWrong(p) \/ DisableCodes(p) \/ RegenerateCodes(p)
    <2>1. Undisturbed /\ pc[p] \in Early
        BY <1>3 DEF FactorRefused, VerifyWrong, DisableCodes, RegenerateCodes, StepHere, Undisturbed,
                    Early
    <2>2. pc'[p] = "idle" /\ req'[p] = NoRequest
        BY <1>0, <1>3, FinishMoves DEF FactorRefused, VerifyWrong, DisableCodes, RegenerateCodes
    <2> QED
        BY <2>1, <2>2 DEF CodeShape
<1>4. CASE Gate(p)
    <2>1. Undisturbed /\ pc[p] \in Early /\ (Goto(p, "issue") \/ Finish(p))
        BY <1>4 DEF Gate, Undisturbed, Early
    <2>2. \/ pc'[p] = "idle" /\ req'[p] = NoRequest
          \/ pc'[p] \in Early /\ req'[p] = req[p]
        BY <1>0, <2>1, FinishMoves, GotoMoves DEF Early
    <2> QED
        BY <2>1, <2>2 DEF CodeShape
<1>5. CASE TotpConfirmSave(p)
    <2>1. Undisturbed /\ pc[p] = "confirm" /\ Goto(p, "attach")
        BY <1>5 DEF TotpConfirmSave, StepHere, Undisturbed
    <2> QED
        BY <1>0, <2>1, GotoMoves DEF CodeShape
<1>6. CASE Attach(p) \/ AttachCreate(p)
    <2>1. /\ Undisturbed /\ pc[p] \in Attaching
          /\ \/ Goto(p, "attach_create")
             \/ req[p].jti = NoJti /\ Finish(p)
             \/ req[p].jti # NoJti /\ Goto(p, "answer")
        BY <1>6 DEF Attach, AttachCreate, Attached, StepHere, Undisturbed, Attaching
    <2> QED
        BY <1>0, <2>1, GotoMoves, FinishMoves DEF CodeShape
<1> QED
    BY <1>1, <1>2, <1>3, <1>4, <1>5, <1>6 DEF CodeNext

-----------------------------------------------------------------------------
(* What is down stays down.                                                *)

LEMMA HeldReads ==
    \A k : k \in Held <=> \E q \in Procs : \/ pc[q] \in Rotating /\ k = req[q].jti
                                           \/ pc[q] = "lifetime_save" /\ k \in req[q].todo
<1>1. ASSUME NEW q \in Procs, NEW k
      PROVE  k \in HeldBy(q) <=> \/ pc[q] \in Rotating /\ k = req[q].jti
                                 \/ pc[q] = "lifetime_save" /\ k \in req[q].todo
    <2>1. CASE pc[q] \in Rotating
        BY <2>1 DEF HeldBy, Rotating
    <2>2. CASE pc[q] = "lifetime_save"
        BY <2>2 DEF HeldBy, Rotating
    <2>3. CASE pc[q] \notin Rotating /\ pc[q] # "lifetime_save"
        BY <2>3 DEF HeldBy
    <2> QED
        BY <2>1, <2>2, <2>3
<1> QED
    BY <1>1 DEF Held

LEMMA HeldTyped ==
    ASSUME Typed
    PROVE  Held \subseteq Jtis
BY HeldReads, TypedParts DEF Sound

LEMMA HeldMoves ==
    ASSUME NEW p \in Procs, \A q \in Procs \ {p} : pc'[q] = pc[q] /\ req'[q] = req[q],
           NEW k, k \in Held'
    PROVE  \/ k \in Held
           \/ pc'[p] \in Rotating /\ k = req'[p].jti
           \/ pc'[p] = "lifetime_save" /\ k \in req'[p].todo
<1>1. PICK q \in Procs : k \in HeldBy(q)'
    BY DEF Held
<1>2. CASE q # p
    <2>1. HeldBy(q)' = HeldBy(q)
        BY <1>2 DEF HeldBy
    <2> QED
        BY <1>1, <2>1 DEF Held
<1>3. CASE q = p
    <2>1. CASE pc'[p] \in Rotating
        BY <1>1, <1>3, <2>1 DEF HeldBy, Rotating
    <2>2. CASE pc'[p] = "lifetime_save"
        BY <1>1, <1>3, <2>2 DEF HeldBy, Rotating
    <2>3. CASE pc'[p] \notin Rotating /\ pc'[p] # "lifetime_save"
        BY <1>1, <1>3, <2>3 DEF HeldBy
    <2> QED
        BY <2>1, <2>2, <2>3
<1> QED
    BY <1>2, <1>3

LEMMA HeldStays ==
    ASSUME UNCHANGED <<pc, req>>
    PROVE  Held' = Held
BY DEF Held, HeldBy

\* Nothing is ended, and nothing is there or held that was not, but perhaps a token
\* made from one of those.
LEMMA DownKept ==
    ASSUME Typed, Down, [Next]_vars, ended' = ended,
           \A k \in rows' \cup Held' :
              \/ k \in rows \cup Held
              \/ \A j \in Jtis : j \in issued'[k].line => \E m \in rows \cup Held : j \in issued[m].line
    PROVE  Down'
<1> SUFFICES ASSUME NEW j \in ended', NEW k \in rows' \cup Held' PROVE j \notin issued'[k].line
    BY DEF Down
<1>1. j \in ended /\ j \in Jtis /\ rows \cup Held \subseteq Jtis
    BY HeldTyped, TypedParts DEF TableTyped
<1>2. CASE k \in rows \cup Held
    BY <1>1, <1>2, IssuedGrows DEF Down
<1>3. CASE \A i \in Jtis : i \in issued'[k].line => \E m \in rows \cup Held : i \in issued[m].line
    BY <1>1, <1>3 DEF Down
<1> QED
    BY <1>2, <1>3

\* Sessions are ended: the rows S go, and those that left nothing behind are down.
LEMMA DownByDelete ==
    ASSUME Typed, Down, NEW S, rows' = rows \ S, UNCHANGED issued, Held' \subseteq Held,
           ended' = ended \cup {j \in S \cap rows : ~\E k \in (rows \ S) \cup Held : j \in issued[k].line}
    PROVE  Down'
BY DEF Down

LEMMA DownByRequest ==
    ASSUME Typed, Down, [Next]_vars, NEW p \in Procs, RequestNext(p),
           Moves(p)
    PROVE  Down'
<1>a. TableTyped /\ Processes /\ Sound(p)
    BY TypedParts
<1>b. /\ pc = [q \in Procs |-> pc[q]] /\ req = [q \in Procs |-> req[q]]
      /\ req[p] \in Request
    BY <1>a DEF Processes, Request
<1>h. \A k \in Held' : \/ k \in Held
                       \/ pc'[p] \in Rotating /\ k = req'[p].jti
                       \/ pc'[p] = "lifetime_save" /\ k \in req'[p].todo
    BY HeldMoves DEF Moves
<1>0. rows \subseteq Jtis /\ \A j \in Jtis : issued[j].line \subseteq Jtis
    BY <1>a DEF TableTyped
<1>1. CASE Issue(p)
    <2>1. /\ rows' = rows \cup {Len(issued) + 1} /\ ended' = ended
          /\ issued' = Append(issued, [dev |-> req[p].dev, login |-> Len(issued) + 1,
                                       line |-> {Len(issued) + 1}])
          /\ pc'[p] \in {"attach", "answer"}
        BY <1>1, <1>b DEF Issue, Store, GoWith, NoJti, history
    <2>2. [dev |-> req[p].dev, login |-> Len(issued) + 1, line |-> {Len(issued) + 1}] \in Entry
        BY <1>1, <1>a, LenProperties DEF Issue, Sound, TableTyped, Entry
    <2>3. issued'[Len(issued) + 1].line = {Len(issued) + 1} /\ Len(issued) + 1 \notin Jtis
        <3>1. PICK e \in Entry : e = [dev |-> req[p].dev, login |-> Len(issued) + 1,
                                      line |-> {Len(issued) + 1}]
            BY <2>2
        <3>2. issued'[Len(issued) + 1] = e /\ Len(issued) + 1 \notin Jtis
            BY <1>a, <2>1, <3>1, OneMore DEF TableTyped
        <3> QED
            BY <3>1, <3>2
    <2>4. Held' \subseteq Held
        BY <1>h, <2>1 DEF Rotating
    <2> QED
        BY <2>1, <2>3, <2>4, DownKept
<1>2. ASSUME NEW d \in Devices, Refresh(p, d) PROVE Down'
    <2>1. /\ rows' = rows /\ ended' = ended /\ cookie[d] \in rows
          /\ pc'[p] = "refresh_delete" /\ req'[p] = As(d, cookie[d])
        BY <1>2, <1>b DEF Refresh, Begin, table, Live
    <2>2. req'[p].jti = cookie[d]
        BY <1>0, <1>a, <2>1, AsReads
    <2>3. Held' \subseteq Held \cup rows
        BY <1>h, <2>1, <2>2
    <2> QED
        BY <2>1, <2>3, DownKept
<1>3. CASE RefreshDelete(p)
    <2>1. /\ rows' \subseteq rows /\ ended' = ended /\ req'[p] = req[p] /\ pc'[p] = "refresh_insert"
          /\ pc[p] \in Rotating
        BY <1>3, <1>a, GotoMoves DEF RefreshDelete, history, Rotating
    <2>2. Held' \subseteq Held
        BY <1>h, <2>1, HeldReads
    <2> QED
        BY <2>1, <2>2, DownKept
<1>4. CASE RefreshInsert(p)
    <2> DEFINE j == req[p].jti
               e == [dev |-> req[p].dev, login |-> LoginOf(j),
                     line |-> issued[j].line \cup {Len(issued) + 1}]
    <2>1. j \in Jtis /\ LoginOf(j) \in Jtis /\ j \in Held /\ LoginOf(j) # NoJti
        BY <1>4, <1>a, HeldReads, LoginsTyped DEF RefreshInsert, Sound, Rotating, TableTyped
    <2>2. /\ rows' = rows \cup {Len(issued) + 1} /\ ended' = ended /\ issued' = Append(issued, e)
          /\ pc'[p] = "answer"
        BY <1>4, <1>b, <2>1 DEF RefreshInsert, Store, GoWith, history
    <2>3. PICK n \in Nat : n = Len(issued) + 1
        BY <1>a, LenProperties DEF TableTyped
    <2>4. e \in Entry
        <3>1. issued[j].line \cup {n} \subseteq Nat /\ LoginOf(j) \in Nat /\ req[p].dev \in Devices
            BY <1>0, <1>4, <1>a, <2>1 DEF Jtis, RefreshInsert, Sound
        <3> QED
            BY <2>3, <3>1 DEF Entry
    <2>5. issued'[n].line = issued[j].line \cup {n} /\ n \notin Jtis
        <3>1. PICK c \in Entry : c = e
            BY <2>4
        <3>2. issued'[n] = c /\ n \notin Jtis
            BY <1>a, <2>2, <2>3, <3>1, OneMore DEF TableTyped
        <3> QED
            BY <2>3, <3>1, <3>2
    <2>6. Held' \subseteq Held
        BY <1>h, <2>2 DEF Rotating
    <2>7. \A i \in Jtis : i \in issued'[n].line => \E m \in rows \cup Held : i \in issued[m].line
        BY <2>1, <2>5
    <2> QED
        BY <2>2, <2>3, <2>6, <2>7, DownKept
<1>5. CASE RevokeGet(p) \/ KillRead(p) \/ KillBlacklist(p) \/ TouchFails(p) \/ RevokeList(p)
           \/ RevokeBlacklist(p)
    <2>1. rows' = rows /\ ended' = ended
        BY <1>5 DEF RevokeGet, KillRead, KillBlacklist, TouchFails, RevokeList, RevokeBlacklist, table,
                    history
    <2>2. pc'[p] \notin Rotating /\ pc'[p] # "lifetime_save"
        BY <1>5, <1>b DEF RevokeGet, KillRead, KillBlacklist, TouchFails, RevokeList, RevokeBlacklist,
                    Finish, Goto, GoWith, Rotating
    <2> QED
        BY <1>h, <2>1, <2>2, DownKept
<1>6. CASE RevokeDelete(p)
    <2>1. pc'[p] \notin Rotating /\ pc'[p] # "lifetime_save"
        BY <1>6, <1>b DEF RevokeDelete, Finish, GoWith, Rotating
    <2>2. DeleteRows({req[p].jti})
        BY <1>6 DEF RevokeDelete
    <2> QED
        BY <1>h, <2>1, <2>2, DownByDelete DEF DeleteRows
<1>7. CASE KillDelete(p)
    <2>1. pc'[p] \notin Rotating /\ pc'[p] # "lifetime_save"
        BY <1>7, <1>b DEF KillDelete, Finish, GoWith, Rotating
    <2>2. DeleteRows(rows \ {req[p].jti})
        BY <1>7 DEF KillDelete
    <2> QED
        BY <1>h, <2>1, <2>2, DownByDelete DEF DeleteRows
<1>8. ASSUME NEW d \in Devices, Logout(p, d) PROVE Down'
    <2>1. UNCHANGED <<pc, req>> /\ DeleteRows({cookie[d]})
        BY <1>8 DEF Logout
    <2> QED
        BY <2>1, HeldStays, DownByDelete DEF DeleteRows
<1>9. CASE LifetimeList(p)
    <2>1. /\ rows' = rows /\ ended' = ended
          /\ \/ pc'[p] = "idle"
             \/ pc'[p] = "lifetime_save" /\ req'[p] = [req[p] EXCEPT !.todo = rows]
        BY <1>9, <1>b DEF LifetimeList, Finish, GoWith, table, history
    <2>2. pc'[p] = "lifetime_save" => req'[p].todo = rows
        BY <1>b, <2>1 DEF Request
    <2>3. Held' \subseteq Held \cup rows
        BY <1>h, <2>1, <2>2 DEF Rotating
    <2> QED
        BY <2>1, <2>3, DownKept
<1>10. CASE LifetimeSave(p)
    <2>1. PICK j \in req[p].todo :
              /\ rows' = rows \cup {j} /\ ended' = ended
              /\ \/ pc'[p] = "idle"
                 \/ pc'[p] = "lifetime_save" /\ req'[p] = [req[p] EXCEPT !.todo = @ \ {j}]
        BY <1>10, <1>b DEF LifetimeSave, Finish, GoWith
    <2>2. pc'[p] = "lifetime_save" => req'[p].todo = req[p].todo \ {j}
        BY <1>b, <2>1 DEF Request
    <2>3. req[p].todo \subseteq Held
        BY <1>10, HeldReads DEF LifetimeSave
    <2>4. Held' \subseteq Held /\ rows' \subseteq rows \cup Held
        BY <1>h, <2>1, <2>2, <2>3 DEF Rotating
    <2> QED
        BY <2>1, <2>4, DownKept
<1>11. ASSUME NEW d \in Devices,
              \/ KillOthers(p, d) \/ RevokeOthersWs(p, d) \/ Lifetime(p, d)
              \/ \E j \in Jtis : RevokeWs(p, d, j) \/ RevokeRest(p, d, j)
       PROVE  Down'
    <2>1. rows' = rows /\ ended' = ended /\ pc'[p] \in {"kill_read", "list", "lifetime", "get"}
        BY <1>11, <1>b DEF KillOthers, RevokeOthersWs, Lifetime, RevokeWs, RevokeRest, BeginAs, Begin,
                           table
    <2> QED
        BY <1>h, <2>1, DownKept DEF Rotating
<1> QED
    BY <1>1, <1>2, <1>3, <1>4, <1>5, <1>6, <1>7, <1>8, <1>9, <1>10, <1>11 DEF RequestNext

LEMMA DownStep == Typed /\ Down /\ [Next]_vars => Down'
<1> SUFFICES ASSUME Typed, Down, [Next]_vars PROVE Down'
    OBVIOUS
<1>0. /\ TableTyped /\ TableTyped' /\ Processes /\ Numbers /\ Numbers' /\ secrets <= secrets'
      /\ Jtis \subseteq Jtis' /\ Logins \subseteq Logins' /\ \A q \in Procs : Sound(q)
    BY TypedParts, TypedStep, TableStep, CodeStep, IssuedGrows DEF CodeTyped
<1>1. ASSUME NEW p \in Procs, RequestNext(p) PROVE Down'
    BY <1>0, <1>1, SoundByRequest, DownByRequest
<1>2. ASSUME NEW p \in Procs, CodeNext(p) PROVE Down'
    <2>1. Moves(p)
        BY <1>0, <1>2, SoundByCode
    <2>2. /\ rows' = rows /\ ended' = ended
          /\ pc'[p] \in Early \cup Attaching \cup {"answer", "idle"}
        <3>1. CASE CodeShape(p)
            BY <3>1 DEF CodeShape, Undisturbed, Attaching, table, history
        <3>2. CASE AnswerLogin(p)
            BY <1>0, <3>2, FinishMoves DEF AnswerLogin, Answer, table
        <3>3. CASE CrashLogin(p)
            BY <1>0, <3>3 DEF CrashLogin, Crash, table, Processes
        <3> QED
            BY <1>2, <3>1, <3>2, <3>3, CodeShapes
    <2>3. pc'[p] \notin Rotating /\ pc'[p] # "lifetime_save"
        BY <2>2 DEF Early, Attaching, Rotating
    <2>4. Held' \subseteq Held
        BY <2>1, <2>3, HeldMoves DEF Moves
    <2> QED
        BY <2>2, <2>4, DownKept
<1>3. CASE ~(\E p \in Procs : RequestNext(p) \/ CodeNext(p))
    <2>1. UNCHANGED <<pc, req>>
        BY <1>3, WhoMoves
    <2>2. rows' \subseteq rows /\ ended' = ended
        <3>1. ASSUME NEW d \in Devices, PasskeyStart(d) \/ PasskeyRemove(d) \/ TotpStart(d)
              PROVE  rows' \subseteq rows /\ ended' = ended
            BY <3>1 DEF PasskeyStart, PasskeyRemove, TotpStart, table, history
        <3>2. ASSUME \/ \E d \in Devices :
                          \/ ConnectByCookie(d) \/ ConnectByToken(d) \/ AuthUpgrade(d)
                          \/ RefreshAccess(d) \/ MessageRefused(d) \/ Disconnect(d)
                          \/ AccessExpires(d)
                     \/ \E j \in Jtis : Lapse(j) \/ TokenExpires(j) \/ CleanBlacklist(j)
                     \/ Flush
              PROVE  rows' \subseteq rows /\ ended' = ended
            BY <3>2 DEF ConnectByCookie, ConnectByToken, AuthUpgrade, RefreshAccess, MessageRefused,
                Disconnect, AccessExpires, Lapse, TokenExpires, CleanBlacklist, Flush, table, history,
                Live
        <3>3. CASE EmailCodeExpires \/ UNCHANGED vars
            BY <3>3 DEF EmailCodeExpires, vars, sessionVars, table, history
        <3> QED
            BY <1>3, <3>1, <3>2, <3>3 DEF Next, SessionNext
    <2> QED
        BY <2>1, <2>2, HeldStays, DownKept
<1> QED
    BY <1>1, <1>2, <1>3

\* A session that was ended while nothing had read it stays down, and so does every
\* token made from it, however many requests are in flight, whatever devices still
\* hold and whatever the clock does to the blacklist (services/sessions.py, logout).
THEOREM EndedStaysDown == Spec => []RevokedStaysDown
<1>1. Init => Down
    BY DEF Init, SessionInit, Down
<1>2. Down => RevokedStaysDown
    BY DEF Down, RevokedStaysDown
<1> QED
    BY <1>1, <1>2, TypedInit, TypedStep, DownStep, PTL DEF Spec

-----------------------------------------------------------------------------
(* TOTP.                                                                   *)

LEMMA AgreesByCode ==
    ASSUME Typed, Agrees, NEW p \in Procs, CodeNext(p), Moves(p)
    PROVE  Agrees'
<1>a. Processes
    BY TypedParts
<1>b. pc = [q \in Procs |-> pc[q]] /\ req = [q \in Procs |-> req[q]]
    BY <1>a DEF Processes, Request
\* Whatever leaves TOTP alone and begins no confirmation.
<1>c. ASSUME UNCHANGED <<totp, confirmed, raced>>, pc'[p] # "confirm" PROVE Agrees'
    BY <1>c DEF Agrees, EnabledTotpWasConfirmed, Moves
<1>1. ASSUME NEW d \in Devices, TotpConfirm(p, d) PROVE Agrees'
    <2>1. UNCHANGED <<totp, confirmed, raced>> /\ req'[p].seen = totp.secret
        BY <1>1, <1>a, Beginnings DEF TotpConfirm, oneTimeVars, totpVars
    <2> QED
        BY <2>1 DEF Agrees, EnabledTotpWasConfirmed, Moves
<1>2. CASE TotpConfirmSave(p)
    <2>1. /\ totp' = [totp EXCEPT !.enabled = TRUE] /\ confirmed' = confirmed \cup {req[p].seen}
          /\ raced' = raced /\ pc'[p] = "attach" /\ pc[p] = "confirm"
        BY <1>2, <1>b, <1>a, GotoMoves DEF TotpConfirmSave
    <2>2. totp'.secret = totp.secret
        BY <2>1, TypedParts
    <2> QED
        BY <2>1, <2>2 DEF Agrees, EnabledTotpWasConfirmed, Moves
<1>3. CASE DisableSave(p)
    <2>1. /\ totp' = [enabled |-> FALSE, secret |-> 0]
          /\ raced' = (raced \/ \E q \in Procs : pc[q] = "confirm")
          /\ pc'[p] = "disable_codes"
        BY <1>3, <1>a, GotoMoves DEF DisableSave, SaveTotp
    <2>2. ~totp'.enabled
        BY <2>1
    <2>3. ASSUME NEW q \in Procs, pc'[q] = "confirm" PROVE raced'
        BY <2>1, <2>3 DEF Moves
    <2> QED
        BY <2>2, <2>3 DEF Agrees, EnabledTotpWasConfirmed
<1>4. ASSUME NEW d \in Devices,
             \/ \E right \in BOOLEAN : VerifyRead(p, d, right)
             \/ \E via \in {"http", "ws"} : Login(p, d, via)
             \/ GoogleLogin(p, d) \/ Confirmed(p, d)
             \/ \E new \in BOOLEAN : PasskeyFinish(p, d, new)
             \/ TotpDisable(p, d) \/ Regenerate(p, d)
      PROVE  Agrees'
    <2>1. UNCHANGED <<totp, confirmed, raced>>
        BY <1>4 DEF VerifyRead, Login, GoogleLogin, Confirmed, PasskeyFinish, TotpDisable, Regenerate,
                    oneTimeVars, totpVars
    <2>2. pc'[p] # "confirm"
        BY <1>4, <1>a, Beginnings
    <2> QED
        BY <1>c, <2>1, <2>2
<1>5. CASE \/ VerifyWrong(p) \/ VerifyConsume(p) \/ VerifySave(p)
           \/ FactorNone(p) \/ FactorTotp(p) \/ FactorBackup(p) \/ FactorRefused(p)
           \/ Gate(p) \/ Attach(p) \/ AttachCreate(p) \/ AnswerLogin(p) \/ RegenerateCodes(p)
           \/ DisableTotp(p) \/ DisableBackup(p) \/ DisableCodes(p) \/ CrashLogin(p)
    <2>1. UNCHANGED <<totp, confirmed, raced>>
        BY <1>5 DEF VerifyWrong, VerifyConsume, VerifySave, FactorNone, FactorTotp, FactorBackup,
                    FactorRefused, Gate, Attach, AttachCreate, AnswerLogin, RegenerateCodes,
                    DisableTotp, DisableBackup, DisableCodes, CrashLogin, Consume, oneTimeVars, totpVars
    <2>2. pc'[p] # "confirm"
        BY <1>5, <1>b DEF VerifyWrong, VerifyConsume, VerifySave, FactorNone, FactorTotp, FactorBackup,
                    FactorRefused, Gate, Attach, AttachCreate, Attached, AnswerLogin, Answer,
                    RegenerateCodes, DisableTotp, DisableBackup, DisableCodes, CrashLogin, Crash,
                    Consume, Passed, Goto, Finish, GoWith
    <2> QED
        BY <1>c, <2>1, <2>2
<1> QED
    BY <1>1, <1>2, <1>3, <1>4, <1>5 DEF CodeNext

\* The requests that end, refresh or list sessions begin no confirmation.
LEMMA RequestLabels ==
    ASSUME Processes, NEW p \in Procs, RequestNext(p), ~\E d \in Devices : Logout(p, d)
    PROVE  pc'[p] \in Rotating \cup Knowing \cup {"attach", "answer", "blacklist", "delete",
                                                  "lifetime_save", "idle"}
<1>1. pc = [q \in Procs |-> pc[q]]
    BY DEF Processes
<1> QED
    BY <1>1 DEF RequestNext, Issue, Refresh, RefreshDelete, RefreshInsert, RevokeGet, RevokeList, RevokeBlacklist,
                RevokeDelete, KillRead, KillBlacklist, KillDelete, LifetimeList, LifetimeSave,
                TouchFails, KillOthers, RevokeOthersWs, Lifetime, RevokeWs, RevokeRest,
                BeginAs, Begin, Finish, Goto, GoWith, Rotating, Knowing

LEMMA AgreesStep == Typed /\ Agrees /\ [Next]_vars => Agrees'
<1> SUFFICES ASSUME Typed, Agrees, [Next]_vars PROVE Agrees'
    OBVIOUS
<1>0. /\ TableTyped /\ TableTyped' /\ Processes /\ Numbers /\ Numbers' /\ secrets <= secrets'
      /\ Jtis \subseteq Jtis' /\ Logins \subseteq Logins' /\ \A q \in Procs : Sound(q)
    BY TypedParts, TypedStep, TableStep, CodeStep, IssuedGrows DEF CodeTyped
<1>1. ASSUME NEW p \in Procs, CodeNext(p) PROVE Agrees'
    BY <1>0, <1>1, SoundByCode, AgreesByCode
<1>2. ASSUME NEW d \in Devices, TotpStart(d) PROVE Agrees'
    <2>1. /\ totp' = [enabled |-> FALSE, secret |-> secrets + 1]
          /\ raced' = (raced \/ \E q \in Procs : pc[q] = "confirm") /\ UNCHANGED <<pc, req>>
        BY <1>2 DEF TotpStart, SaveTotp
    <2> QED
        BY <2>1 DEF Agrees, EnabledTotpWasConfirmed
<1>3. ASSUME NEW d \in Devices, PasskeyStart(d) \/ PasskeyRemove(d) PROVE Agrees'
    BY <1>3 DEF PasskeyStart, PasskeyRemove, totpVars, Agrees, EnabledTotpWasConfirmed
<1>4. CASE EmailCodeExpires
    BY <1>4 DEF EmailCodeExpires, totpVars, Agrees, EnabledTotpWasConfirmed
<1>5. CASE UNCHANGED oneTimeVars
    <2>1. UNCHANGED <<totp, confirmed, raced>>
        BY <1>5 DEF oneTimeVars, totpVars
    <2>2. CASE UNCHANGED <<pc, req>>
        BY <2>1, <2>2 DEF Agrees, EnabledTotpWasConfirmed
    <2>3. ASSUME NEW p \in Procs, RequestNext(p) PROVE Agrees'
        <3>1. CASE \E d \in Devices : Logout(p, d)
            BY <2>1, <3>1 DEF Logout, Agrees, EnabledTotpWasConfirmed
        <3>2. CASE ~\E d \in Devices : Logout(p, d)
            <4>1. Moves(p)
                BY <1>0, <2>3, SoundByRequest
            <4>2. pc'[p] # "confirm"
                BY <1>0, <2>3, <3>2, RequestLabels DEF Rotating, Knowing
            <4> QED
                BY <2>1, <4>1, <4>2 DEF Agrees, EnabledTotpWasConfirmed, Moves
        <3> QED
            BY <3>1, <3>2
    <2> QED
        BY <1>1, <2>2, <2>3, WhoMoves
<1> QED
    BY <1>1, <1>2, <1>3, <1>4, <1>5 DEF Next, vars

\* TOTP is in force only with a secret that was confirmed, however setups, confirmations
\* and removals interleave, unless one of them changed the secret under a confirmation
\* that had read it (totp_setup_start, totp_setup_confirm, totp_disable).
THEOREM TotpWasConfirmed == Spec => []EnabledTotpWasConfirmed
<1>1. Init => Agrees
    BY DEF Init, SessionInit, CodeInit, Agrees, EnabledTotpWasConfirmed
<1>2. Agrees => EnabledTotpWasConfirmed
    BY DEF Agrees
<1> QED
    BY <1>1, <1>2, TypedInit, TypedStep, AgreesStep, PTL DEF Spec

-----------------------------------------------------------------------------
(* The proofs of identity.                                                 *)

LEMMA ProofsDiffer ==
    /\ EmailCode # NoProof
    /\ \A m, n : /\ BackupCode(n) # NoProof /\ Challenge(n) # NoProof
                 /\ Challenge(n) # EmailCode /\ BackupCode(n) # EmailCode
                 /\ Challenge(n) # BackupCode(m)
                 /\ (BackupCode(n) = BackupCode(m) => n = m)
                 /\ (Challenge(n) = Challenge(m) => n = m)
BY DEF BackupCode, Challenge, NoProof, EmailCode

\* Two requests that hold one proof know of it.
Shared == \A p, q \in Procs : \A x \in Proofs :
              p # q /\ x # NoProof /\ Holds(p, x) /\ Holds(q, x) => x \in together
Verifying(q) == pc[q] = "verify_right" =>
                  /\ req[q].proof = EmailCode
                  /\ EmailCode \in spent => EmailCode \in together
Signing(q, n) == Holds(q, Challenge(n)) =>
                  /\ pc[q] \in {"issue", "answer"} \cup Attaching
                  /\ pc[q] \in Attaching => req[q].jti # NoJti
                  /\ n \in 1..asked
                  /\ \A d \in Devices : challenge[d] = n => d = req[q].dev
Answerable(d) == challenge[d] # 0 /\ Challenge(challenge[d]) \in spent =>
                  Challenge(challenge[d]) \in together \/ Holding(Challenge(challenge[d]))

LEMMA OnceParts ==
    Once <=> /\ again \subseteq together /\ Shared
             /\ \A q \in Procs : Verifying(q) /\ \A n \in Nat : Signing(q, n)
             /\ EmailCode \in spent => email.consumed
             /\ \A c \in Nat : BackupCode(c) \in spent => c \in used
             /\ \A n \in Nat : Challenge(n) \in spent => n \in 1..asked
             /\ \A d, e \in Devices : challenge[d] = challenge[e] /\ challenge[d] # 0 => d = e
             /\ \A d \in Devices : Answerable(d)
BY DEF Once, ProofsSpentOnce, Holders, Spendings, Shared, Verifying, Signing, Answerable

LEMMA HoldingReads == \A x : Holding(x) <=> \E q \in Procs : Holds(q, x)
BY DEF Holding, Holds

\* p's request keeps the proof it has, or has none.
Keeps(p) ==
    /\ pc'[p] # "idle" =>
          IF pc[p] = "idle" THEN req'[p].proof = NoProof ELSE req'[p].proof = req[p].proof
    /\ \A n \in Nat : Holds(p, Challenge(n)) /\ pc'[p] # "idle" =>
          /\ pc'[p] \in {"issue", "answer"} \cup Attaching
          /\ pc'[p] \in Attaching => req'[p].jti # NoJti
          /\ req'[p].dev = req[p].dev

LEMMA SharedKept ==
    ASSUME Shared, NEW p \in Procs, Moves(p), Keeps(p), together \subseteq together'
    PROVE  Shared'
<1> SUFFICES ASSUME NEW q \in Procs, NEW r \in Procs, NEW x \in Proofs, q # r, x # NoProof,
                    Holds(q, x)', Holds(r, x)'
             PROVE  x \in together'
    BY DEF Shared
<1>1. ASSUME NEW s \in Procs, Holds(s, x)' PROVE Holds(s, x)
    <2>1. CASE s = p
        BY <1>1, <2>1 DEF Holds, Keeps
    <2>2. CASE s # p
        BY <1>1, <2>2 DEF Holds, Moves
    <2> QED
        BY <2>1, <2>2
<1> QED
    BY <1>1 DEF Shared

LEMMA HoldingKept ==
    ASSUME NEW p \in Procs, Moves(p), Keeps(p), NEW x \in Proofs, Holding(x),
           Holds(p, x) => pc'[p] # "idle"
    PROVE  Holding(x)'
<1>1. PICK q \in Procs : Holds(q, x)
    BY HoldingReads
<1>2. Holds(q, x)'
    <2>1. CASE q = p
        BY <1>1, <2>1 DEF Holds, Keeps
    <2>2. CASE q # p
        BY <1>1, <2>2 DEF Holds, Moves
    <2> QED
        BY <2>1, <2>2
<1> QED
    BY <1>2 DEF Holding, Holds

LEMMA SigningKept ==
    ASSUME \A q \in Procs : \A n \in Nat : Signing(q, n), UNCHANGED <<challenge, asked>>,
           NEW p \in Procs, Moves(p), Keeps(p)
    PROVE  \A q \in Procs : \A n \in Nat : Signing(q, n)'
<1> SUFFICES ASSUME NEW q \in Procs, NEW n \in Nat PROVE Signing(q, n)'
    OBVIOUS
<1>1. CASE q # p
    BY <1>1 DEF Signing, Holds, Moves
<1>2. CASE q = p
    <2> SUFFICES ASSUME Holds(p, Challenge(n))' PROVE Signing(p, n)'
        BY <1>2 DEF Signing
    <2>1. Holds(p, Challenge(n)) /\ pc'[p] # "idle"
        BY ProofsDiffer DEF Holds, Keeps
    <2> QED
        BY <2>1 DEF Signing, Keeps
<1> QED
    BY <1>1, <1>2

\* A step that accepts nothing and begins nothing.
LEMMA OnceKept ==
    ASSUME Once, Typed, NEW p \in Procs, Moves(p), Keeps(p), pc'[p] # "verify_right",
           UNCHANGED <<spent, again, challenge, asked>>, together \subseteq together',
           email.consumed => email'.consumed, used \subseteq used',
           \A n \in Nat : Holds(p, Challenge(n)) /\ pc'[p] = "idle" => Challenge(n) \in together'
    PROVE  Once'
<1>0. /\ again \subseteq together /\ Shared
      /\ \A q \in Procs : Verifying(q) /\ \A n \in Nat : Signing(q, n)
      /\ EmailCode \in spent => email.consumed
      /\ \A c \in Nat : BackupCode(c) \in spent => c \in used
      /\ \A n \in Nat : Challenge(n) \in spent => n \in 1..asked
      /\ \A d, e \in Devices : challenge[d] = challenge[e] /\ challenge[d] # 0 => d = e
      /\ \A d \in Devices : Answerable(d)
    BY OnceParts
<1>1. Shared' /\ \A q \in Procs : \A n \in Nat : Signing(q, n)'
    BY <1>0, SharedKept, SigningKept
<1>2. \A q \in Procs : Verifying(q)'
    BY <1>0 DEF Verifying, Moves
<1>3. ASSUME NEW d \in Devices PROVE Answerable(d)'
    <2>1. PICK n \in Nat : n = challenge[d]
        BY TypedParts DEF Numbers
    <2>2. Challenge(n) \in Proofs
        BY ProofsTyped
    <2>3. n # 0 /\ Challenge(n) \in spent => Challenge(n) \in together \/ Holding(Challenge(n))
        BY <1>0, <2>1 DEF Answerable
    <2>4. Holding(Challenge(n)) => Holding(Challenge(n))' \/ Challenge(n) \in together'
        BY <2>2, HoldingKept
    <2>5. n # 0 /\ Challenge(n) \in spent' => Challenge(n) \in together' \/ Holding(Challenge(n))'
        BY <2>3, <2>4
    <2> QED
        BY <2>1, <2>5 DEF Answerable, Holding
<1> QED
    BY <1>0, <1>1, <1>2, <1>3
    DEF Once, ProofsSpentOnce, Holders, Spendings, Shared, Verifying, Signing, Answerable

\* A step that begins nothing and accepts x, which is no challenge.
LEMMA OnceAccepts ==
    ASSUME Once, Typed, NEW p \in Procs, Moves(p), Keeps(p), pc'[p] # "verify_right",
           NEW x, Accept(x), UNCHANGED <<challenge, asked, together>>,
           x \in spent => x \in together,
           \A n \in Nat : x # Challenge(n) /\ ~Holds(p, Challenge(n)),
           email.consumed \/ x = EmailCode => email'.consumed,
           x = EmailCode => \A q \in Procs \ {p} : pc[q] = "verify_right" => EmailCode \in together,
           used \subseteq used', \A c \in Nat : x = BackupCode(c) => c \in used'
    PROVE  Once'
<1>0. /\ again \subseteq together /\ Shared
      /\ \A q \in Procs : Verifying(q) /\ \A n \in Nat : Signing(q, n)
      /\ EmailCode \in spent => email.consumed
      /\ \A c \in Nat : BackupCode(c) \in spent => c \in used
      /\ \A n \in Nat : Challenge(n) \in spent => n \in 1..asked
      /\ \A d, e \in Devices : challenge[d] = challenge[e] /\ challenge[d] # 0 => d = e
      /\ \A d \in Devices : Answerable(d)
    BY OnceParts
<1>a. spent' = spent \cup {x} /\ again' = again \cup ({x} \cap spent) /\ again' \subseteq together'
    BY <1>0 DEF Accept
<1>1. Shared' /\ \A q \in Procs : \A n \in Nat : Signing(q, n)'
    BY <1>0, SharedKept, SigningKept
<1>2. \A q \in Procs : Verifying(q)'
    BY <1>0, <1>a DEF Verifying, Moves
<1>3. ASSUME NEW d \in Devices PROVE Answerable(d)'
    <2>1. PICK n \in Nat : n = challenge[d]
        BY TypedParts DEF Numbers
    <2>2. Challenge(n) \in Proofs
        BY ProofsTyped
    <2>3. n # 0 /\ Challenge(n) \in spent => Challenge(n) \in together \/ Holding(Challenge(n))
        BY <1>0, <2>1 DEF Answerable
    <2>4. Holding(Challenge(n)) => Holding(Challenge(n))'
        BY <2>2, HoldingKept
    <2>5. n # 0 /\ Challenge(n) \in spent' => Challenge(n) \in together' \/ Holding(Challenge(n))'
        BY <1>a, <2>3, <2>4
    <2> QED
        BY <2>1, <2>5 DEF Answerable, Holding
<1> QED
    BY <1>0, <1>a, <1>1, <1>2, <1>3
    DEF Once, ProofsSpentOnce, Holders, Spendings, Shared, Verifying, Signing, Answerable

\* A step of no request, which leaves the proofs and the challenges alone.
LEMMA OnceStays ==
    ASSUME Once, UNCHANGED <<pc, req, spent, again, together, challenge, asked, used>>,
           email'.consumed = email.consumed
    PROVE  Once'
<1>1. \A x : Holding(x)' <=> Holding(x)
    BY DEF Holding
<1> QED
    BY <1>1 DEF Once, ProofsSpentOnce, Holders, Spendings, Holds

\* What a request that ends, refreshes or lists sessions does with the proof it holds.
LEMMA RequestProofs ==
    ASSUME Typed, NEW p \in Procs, RequestNext(p), ~\E d \in Devices : Logout(p, d)
    PROVE  \/ /\ pc[p] = "issue" /\ pc'[p] \in {"attach", "answer"} /\ req'[p].jti # NoJti
              /\ req'[p].proof = req[p].proof /\ req'[p].dev = req[p].dev
           \/ pc[p] = "idle" /\ req'[p].proof = NoProof
           \/ /\ pc[p] \in Rotating \cup Knowing \cup {"blacklist", "delete", "lifetime_save"}
              /\ pc'[p] = "idle" \/ req'[p].proof = req[p].proof
<1>0. /\ TableTyped /\ Processes /\ pc = [q \in Procs |-> pc[q]] /\ req = [q \in Procs |-> req[q]]
      /\ req[p] \in Request
    BY TypedParts DEF Processes, Request
<1>1. CASE Issue(p)
    <2>1. PICK n \in Nat : n = Len(issued) + 1
        BY <1>0, LenProperties DEF TableTyped
    <2>2. PICK r \in Request : r = req[p]
        BY <1>0
    <2>3. /\ pc[p] = "issue" /\ pc'[p] \in {"attach", "answer"}
          /\ req'[p] = [r EXCEPT !.jti = n, !.login = n] /\ n # 0
        BY <1>0, <1>1, <2>1, <2>2 DEF Issue, GoWith, TableTyped
    <2>4. req'[p].proof = r.proof /\ req'[p].dev = r.dev /\ req'[p].jti = n
        BY <2>3 DEF Request
    <2> QED
        BY <2>2, <2>3, <2>4 DEF NoJti
<1>2. ASSUME NEW d \in Devices, NEW j \in Jtis \cup {NoJti}, NEW S, NEW k, NEW l, pc[p] = "idle",
             \/ Begin(p, k, l, As(d, j)) \/ Begin(p, k, l, [As(d, j) EXCEPT !.via = "ws"])
             \/ Begin(p, k, l, [As(d, j) EXCEPT !.todo = S])
             \/ Begin(p, k, l, [As(d, j) EXCEPT !.todo = S, !.via = "ws"])
      PROVE  req'[p].proof = NoProof
    <2>1. PICK r \in Request : r = As(d, j) /\ r.proof = NoProof
        BY <1>0, AsReads
    <2>2. \/ req'[p] = r \/ req'[p] = [r EXCEPT !.via = "ws"]
          \/ req'[p] = [r EXCEPT !.todo = S]
          \/ req'[p] = [r EXCEPT !.todo = S, !.via = "ws"]
        BY <1>0, <1>2, <2>1 DEF Begin
    <2> QED
        BY <2>1, <2>2 DEF Request
<1>3. ASSUME NEW d \in Devices,
             \/ Refresh(p, d) \/ KillOthers(p, d) \/ RevokeOthersWs(p, d) \/ Lifetime(p, d)
             \/ \E j \in Jtis : RevokeWs(p, d, j) \/ RevokeRest(p, d, j)
      PROVE  pc[p] = "idle" /\ req'[p].proof = NoProof
    <2>1. cookie[d] \in Jtis \cup {NoJti} /\ conn[d].jti \in Jtis \cup {NoJti}
        BY <1>0 DEF TableTyped
    <2>2. pc[p] = "idle"
        BY <1>3 DEF Refresh, KillOthers, RevokeOthersWs, Lifetime, RevokeWs, RevokeRest, BeginAs, Begin
    <2>3. CASE Refresh(p, d) \/ KillOthers(p, d) \/ RevokeOthersWs(p, d) \/ Lifetime(p, d)
        BY <1>2, <2>1, <2>2, <2>3 DEF Refresh, KillOthers, RevokeOthersWs, Lifetime, BeginAs
    <2>4. ASSUME NEW j \in Jtis, RevokeWs(p, d, j) \/ RevokeRest(p, d, j)
          PROVE  req'[p].proof = NoProof
        BY <1>2, <2>1, <2>2, <2>4 DEF RevokeWs, RevokeRest, BeginAs
    <2> QED
        BY <1>3, <2>2, <2>3, <2>4
<1>4. CASE \/ RefreshDelete(p) \/ RefreshInsert(p) \/ RevokeGet(p) \/ RevokeList(p)
           \/ RevokeBlacklist(p) \/ RevokeDelete(p) \/ KillRead(p) \/ KillBlacklist(p)
           \/ KillDelete(p) \/ LifetimeList(p) \/ LifetimeSave(p) \/ TouchFails(p)
    <2>1. pc[p] \in Rotating \cup Knowing \cup {"blacklist", "delete", "lifetime_save"}
        BY <1>4 DEF RefreshDelete, RefreshInsert, RevokeGet, RevokeList, RevokeBlacklist, RevokeDelete,
                    KillRead, KillBlacklist, KillDelete, LifetimeList, LifetimeSave, TouchFails,
                    Rotating, Knowing
    <2>2. \/ pc'[p] = "idle" \/ req'[p] = req[p]
          \/ (\E j : req'[p] = [req[p] EXCEPT !.jti = j])
          \/ (\E S : req'[p] = [req[p] EXCEPT !.todo = S])
        BY <1>0, <1>4 DEF RefreshDelete, RefreshInsert, RevokeGet, RevokeList, RevokeBlacklist,
                    RevokeDelete, KillRead, KillBlacklist, KillDelete, LifetimeList, LifetimeSave,
                    TouchFails, Finish, Goto, GoWith
    <2>3. pc'[p] = "idle" \/ req'[p].proof = req[p].proof
        BY <1>0, <2>2 DEF Request
    <2> QED
        BY <2>1, <2>3
<1> QED
    BY <1>1, <1>3, <1>4 DEF RequestNext

LEMMA OnceByCode ==
    ASSUME Typed, Once, NEW p \in Procs, CodeNext(p), Moves(p)
    PROVE  Once'
<1>0. /\ again \subseteq together /\ Shared
      /\ \A q \in Procs : Verifying(q) /\ \A n \in Nat : Signing(q, n)
      /\ EmailCode \in spent => email.consumed
      /\ \A c \in Nat : BackupCode(c) \in spent => c \in used
      /\ \A n \in Nat : Challenge(n) \in spent => n \in 1..asked
      /\ \A d, e \in Devices : challenge[d] = challenge[e] /\ challenge[d] # 0 => d = e
      /\ \A d \in Devices : Answerable(d)
    BY OnceParts
<1>a. /\ Processes /\ Numbers /\ challenge \in [Devices -> 0..asked]
      /\ email \in [consumed : BOOLEAN, attempts : 0..MaxAttempts, late : BOOLEAN]
      /\ Sound(p) /\ req[p].proof \in Proofs
    BY TypedParts, Typing
<1>b. pc = [q \in Procs |-> pc[q]] /\ req = [q \in Procs |-> req[q]]
    BY <1>a DEF Processes, Request
\* At the other labels p holds no challenge.
<1>c. ASSUME NEW n \in Nat, pc[p] \notin {"issue", "answer"} \cup Attaching
      PROVE  ~Holds(p, Challenge(n))
    BY <1>0, <1>c DEF Signing
<1>1. ASSUME NEW d \in Devices, NEW right \in BOOLEAN, VerifyRead(p, d, right) PROVE Once'
    <2>1. /\ pc[p] = "idle" /\ ~email.consumed /\ UNCHANGED <<spent, again, challenge, asked, used>>
          /\ email' = email /\ together' = together \cup {x \in {EmailCode} : Holding(x)}
          /\ pc'[p] # "idle" /\ req'[p].proof = EmailCode
        BY <1>1, <1>a, Beginnings
        DEF VerifyRead, BeginHere, Begin, emailVars, codeVars, keyVars
    <2>2. EmailCode \notin spent
        BY <1>0, <2>1
    <2>3. Shared'
        <3> SUFFICES ASSUME NEW q \in Procs, NEW r \in Procs, NEW x \in Proofs, q # r, x # NoProof,
                            Holds(q, x)', Holds(r, x)'
                     PROVE  x \in together'
            BY DEF Shared
        <3>1. CASE q # p /\ r # p
            BY <1>0, <2>1, <3>1 DEF Shared, Holds, Moves
        <3>2. CASE q = p \/ r = p
            <4>1. PICK s \in Procs \ {p} : Holds(s, x)'
                BY <3>2
            <4>2. x = EmailCode
                BY <2>1, <3>2 DEF Holds
            <4>3. Holding(x)
                BY <4>1, HoldingReads DEF Holds, Moves
            <4> QED
                BY <2>1, <4>2, <4>3
        <3> QED
            BY <3>1, <3>2
    <2>4. \A q \in Procs : Verifying(q)'
        BY <1>0, <2>1, <2>2 DEF Verifying, Moves
    <2>5. \A q \in Procs : \A n \in Nat : Signing(q, n)'
        BY <1>0, <2>1, ProofsDiffer DEF Signing, Holds, Moves
    <2>6. ASSUME NEW d2 \in Devices PROVE Answerable(d2)'
        <3>1. PICK x : x = Challenge(challenge[d2])
            OBVIOUS
        <3>2. Holding(x) => Holding(x)'
            <4>1. ASSUME NEW q \in Procs, Holds(q, x) PROVE Holds(q, x)'
                BY <2>1, <4>1 DEF Holds, Moves
            <4> QED
                BY <4>1 DEF Holding, Holds
        <3> QED
            BY <1>0, <2>1, <3>1, <3>2 DEF Answerable, Holding
    <2> QED
        BY <1>0, <2>1, <2>2, <2>3, <2>4, <2>5, <2>6
        DEF Once, ProofsSpentOnce, Holders, Spendings, Shared, Verifying, Signing, Answerable
<1>2. ASSUME NEW d \in Devices, NEW new \in BOOLEAN, PasskeyFinish(p, d, new) PROVE Once'
    <2>1. PICK n \in Nat : n = challenge[d] /\ n # 0 /\ n \in 1..asked
        BY <1>2, <1>a DEF PasskeyFinish, Numbers
    <2>2. PICK x \in Proofs : x = Challenge(n)
        BY ProofsTyped
    <2>3. /\ pc[p] = "idle" /\ UNCHANGED <<challenge, asked, used>>
          /\ email' = email /\ together' = together \cup {y \in {x} : Holding(y)}
          /\ spent' = spent \cup {x} /\ again' = again \cup ({x} \cap spent)
          /\ pc'[p] = "issue" /\ req'[p].proof = x /\ req'[p].dev = d
        BY <1>2, <1>a, <2>1, <2>2, Beginnings
        DEF PasskeyFinish, BeginHere, Begin, Accept, emailVars, codeVars
    <2>4. x # EmailCode /\ \A m : x # BackupCode(m) /\ (x = Challenge(m) => m = n)
        BY <2>2, ProofsDiffer
    <2>5. x \in spent => x \in together'
        BY <1>0, <2>1, <2>2, <2>3 DEF Answerable
    <2>6. again' \subseteq together'
        BY <1>0, <2>3, <2>5
    <2>7. Shared'
        <3> SUFFICES ASSUME NEW q \in Procs, NEW r \in Procs, NEW y \in Proofs, q # r, y # NoProof,
                            Holds(q, y)', Holds(r, y)'
                     PROVE  y \in together'
            BY DEF Shared
        <3>1. CASE q # p /\ r # p
            BY <1>0, <2>3, <3>1 DEF Shared, Holds, Moves
        <3>2. CASE q = p \/ r = p
            <4>1. PICK s \in Procs \ {p} : Holds(s, y)'
                BY <3>2
            <4>2. y = x
                BY <2>3, <3>2 DEF Holds
            <4>3. Holding(y)
                BY <4>1, HoldingReads DEF Holds, Moves
            <4> QED
                BY <2>3, <4>2, <4>3
        <3> QED
            BY <3>1, <3>2
    <2>8. \A q \in Procs : Verifying(q)'
        BY <1>0, <2>3, <2>4 DEF Verifying, Moves
    <2>9. ASSUME NEW q \in Procs, NEW m \in Nat PROVE Signing(q, m)'
        <3>1. CASE q = p
            BY <1>0, <2>1, <2>3, <2>4, <3>1 DEF Signing, Holds, Attaching
        <3>2. CASE q # p
            BY <1>0, <2>3, <3>2 DEF Signing, Holds, Moves
        <3> QED
            BY <3>1, <3>2
    <2>10. ASSUME NEW e \in Devices PROVE Answerable(e)'
        <3>1. PICK y : y = Challenge(challenge[e])
            OBVIOUS
        <3>2. Holding(y) => Holding(y)'
            <4>1. ASSUME NEW q \in Procs, Holds(q, y) PROVE Holds(q, y)'
                BY <2>3, <4>1 DEF Holds, Moves
            <4> QED
                BY <4>1 DEF Holding, Holds
        <3>3. Holding(x)'
            BY <2>3 DEF Holding
        <3>4. challenge[e] # 0 /\ y \in spent' => y \in together' \/ Holding(y)'
            BY <1>0, <2>3, <3>1, <3>2, <3>3 DEF Answerable
        <3> QED
            BY <2>3, <3>1, <3>4 DEF Answerable, Holding
    <2>11. \A m \in Nat : Challenge(m) \in spent' => m \in 1..asked'
        BY <1>0, <2>1, <2>3, <2>4
    <2>12. \A c \in Nat : BackupCode(c) \in spent' => c \in used'
        BY <1>0, <2>3, <2>4
    <2> QED
        BY <1>0, <2>3, <2>4, <2>6, <2>7, <2>8, <2>9, <2>10, <2>11, <2>12
        DEF Once, ProofsSpentOnce, Holders, Spendings, Shared, Verifying, Signing, Answerable
<1>3. ASSUME NEW d \in Devices,
             \/ \E via \in {"http", "ws"} : Login(p, d, via)
             \/ GoogleLogin(p, d) \/ Confirmed(p, d)
             \/ TotpConfirm(p, d) \/ TotpDisable(p, d) \/ Regenerate(p, d)
      PROVE  Once'
    <2>1. pc[p] = "idle" /\ UNCHANGED <<spent, again, together, challenge, asked, used, email>>
        BY <1>3 DEF Login, GoogleLogin, Confirmed, TotpConfirm, TotpDisable, Regenerate, BeginHere, Begin,
                    oneTimeVars, emailVars, codeVars, keyVars, proofVars
    <2>2. pc'[p] # "verify_right" /\ req'[p].proof = NoProof
        BY <1>3, <1>a, Beginnings
    <2>3. Keeps(p) /\ \A n \in Nat : ~Holds(p, Challenge(n))
        BY <2>1, <2>2 DEF Keeps, Holds
    <2> QED
        BY <2>1, <2>2, <2>3, OnceKept
<1>4. CASE VerifyConsume(p)
    <2>1. /\ pc[p] = "verify_right" /\ pc'[p] = "verify_save" /\ req'[p] = req[p]
          /\ Accept(EmailCode) /\ UNCHANGED <<challenge, asked, together, used>>
          /\ email' = [email EXCEPT !.consumed = TRUE]
        BY <1>4, <1>a, GotoMoves DEF VerifyConsume, codeVars, keyVars
    <2>2. email'.consumed
        <3> DEFINE b == TRUE
        <3>1. email' = [email EXCEPT !.consumed = b]
            BY <2>1
        <3> HIDE DEF b
        <3>2. email'.consumed = b
            BY <1>a, <3>1
        <3> QED
            BY <3>2 DEF b
    <2>3. req[p].proof = EmailCode /\ (EmailCode \in spent => EmailCode \in together)
        BY <1>0, <2>1 DEF Verifying
    <2>4. \A n \in Nat : EmailCode # Challenge(n) /\ ~Holds(p, Challenge(n))
        BY <2>3, ProofsDiffer DEF Holds
    <2>5. Keeps(p)
        BY <2>1, <2>4 DEF Keeps
    <2>6. ASSUME NEW q \in Procs \ {p}, pc[q] = "verify_right" PROVE EmailCode \in together
        <3>1. Holds(q, EmailCode) /\ Holds(p, EmailCode)
            BY <1>0, <2>1, <2>3, <2>6 DEF Verifying, Holds
        <3> QED
            BY <1>0, <3>1, ProofsTyped, ProofsDiffer DEF Shared
    <2>7. \A c : EmailCode # BackupCode(c)
        BY ProofsDiffer
    <2> QED
        BY <2>1, <2>2, <2>3, <2>4, <2>5, <2>6, <2>7, OnceAccepts
<1>5. CASE FactorBackup(p) \/ DisableBackup(p)
    <2>1. PICK c \in 1..minted : 
                  \E label \in {"gate", "issue", "disable_save"} : Consume(p, c, label)
        BY <1>5 DEF FactorBackup, DisableBackup, Passed
    <2>2. /\ pc[p] \in {"factor", "disable"} /\ pc'[p] \in {"gate", "issue", "disable_save"}
          /\ req'[p] = req[p] /\ Accept(BackupCode(c)) /\ c \notin used /\ used' = used \cup {c}
          /\ UNCHANGED <<challenge, asked, together, email>>
        <3>1. pc[p] \in {"factor", "disable"}
            BY <1>5 DEF FactorBackup, DisableBackup
        <3>2. \E label \in {"gate", "issue", "disable_save"} : Goto(p, label)
            BY <2>1 DEF Consume
        <3> QED
            BY <1>a, <2>1, <3>1, <3>2, GotoMoves DEF Consume, emailVars, keyVars
    <2>3. c \in Nat /\ BackupCode(c) \notin spent
        BY <1>0, <1>a, <2>2 DEF Numbers
    <2>4. \A n \in Nat : BackupCode(c) # Challenge(n) /\ ~Holds(p, Challenge(n))
        BY <1>c, <2>2, ProofsDiffer DEF Attaching
    <2>5. Keeps(p)
        BY <2>2, <2>4 DEF Keeps
    <2>6. BackupCode(c) # EmailCode /\ \A e : BackupCode(c) = BackupCode(e) => e = c
        BY ProofsDiffer
    <2>7. pc'[p] # "verify_right" /\ used \subseteq used'
        BY <2>2
    <2> QED
        BY <2>2, <2>3, <2>4, <2>5, <2>6, <2>7, OnceAccepts
<1>6. CASE \/ VerifySave(p) \/ FactorNone(p) \/ FactorTotp(p) \/ DisableTotp(p) \/ DisableSave(p)
           \/ Gate(p) \/ TotpConfirmSave(p)
           \/ FactorRefused(p) \/ VerifyWrong(p) \/ DisableCodes(p) \/ RegenerateCodes(p)
    <2>1. /\ pc[p] \notin {"idle", "issue", "answer"} \cup Attaching
          /\ UNCHANGED <<spent, again, together, challenge, asked, used>>
        BY <1>6 DEF VerifySave, FactorNone, FactorTotp, DisableTotp, DisableSave, Gate, TotpConfirmSave,
                    FactorRefused, VerifyWrong, DisableCodes, RegenerateCodes,
                    oneTimeVars, codeVars, keyVars, proofVars, Attaching
    <2>2. email'.consumed = email.consumed
        <3>1. email' = email \/ (\E n : email' = [email EXCEPT !.attempts = n])
            BY <1>6 DEF VerifySave, FactorNone, FactorTotp, DisableTotp, DisableSave, Gate,
                        TotpConfirmSave, FactorRefused, VerifyWrong, DisableCodes, RegenerateCodes,
                        oneTimeVars, emailVars
        <3> QED
            BY <1>a, <3>1
    <2>3. \/ pc'[p] = "idle"
          \/ pc'[p] # "verify_right" /\ req'[p] = req[p]
        BY <1>6, <1>b DEF VerifySave, FactorNone, FactorTotp, DisableTotp, DisableSave, Gate,
                    TotpConfirmSave, FactorRefused, VerifyWrong, DisableCodes, RegenerateCodes,
                    Passed, Goto, Finish, GoWith
    <2>4. \A n \in Nat : ~Holds(p, Challenge(n))
        BY <1>c, <2>1
    <2>5. Keeps(p)
        BY <2>1, <2>3, <2>4 DEF Keeps
    <2> QED
        BY <2>1, <2>2, <2>3, <2>4, <2>5, OnceKept
<1>7. CASE Attach(p) \/ AttachCreate(p)
    <2>1. /\ pc[p] \in Attaching
          /\ \/ Goto(p, "attach_create")
             \/ req[p].jti = NoJti /\ Finish(p)
             \/ req[p].jti # NoJti /\ Goto(p, "answer")
          /\ UNCHANGED <<spent, again, together, challenge, asked, used, email>>
        BY <1>7 DEF Attach, AttachCreate, Attached, Attaching, oneTimeVars, emailVars, codeVars, keyVars,
                    proofVars
    <2>2. \/ req[p].jti = NoJti /\ pc'[p] = "idle"
          \/ pc'[p] = "attach_create" /\ req'[p] = req[p]
          \/ req[p].jti # NoJti /\ pc'[p] = "answer" /\ req'[p] = req[p]
        BY <1>a, <2>1, FinishMoves, GotoMoves
    <2>3. ASSUME NEW n \in Nat, Holds(p, Challenge(n)) PROVE req[p].jti # NoJti
        BY <1>0, <2>1, <2>3 DEF Signing
    <2>4. pc[p] # "idle" /\ pc'[p] # "verify_right"
        BY <2>1, <2>2 DEF Attaching
    <2>5. Keeps(p)
        BY <2>2, <2>3, <2>4 DEF Keeps, Attaching
    <2>6. \A n \in Nat : Holds(p, Challenge(n)) => pc'[p] # "idle"
        BY <2>2, <2>3
    <2> QED
        BY <2>1, <2>4, <2>5, <2>6, OnceKept
<1>8. CASE AnswerLogin(p)
    <2>1. /\ pc[p] = "answer" /\ pc'[p] = "idle" /\ req[p].dev \in Devices
          /\ UNCHANGED <<spent, again, together, asked, used, email>>
          /\ challenge' = IF req[p].proof[1] = "challenge"
                          THEN [challenge EXCEPT ![req[p].dev] = 0] ELSE challenge
        <3>1. pc[p] = "answer" /\ Finish(p)
            BY <1>8 DEF AnswerLogin, Answer
        <3> QED
            BY <1>8, <1>a, <3>1, FinishMoves DEF AnswerLogin, Sound, emailVars, codeVars, proofVars
    <2>2. Keeps(p)
        BY <2>1 DEF Keeps
    <2>3. CASE req[p].proof[1] # "challenge"
        <3>1. \A n \in Nat : ~Holds(p, Challenge(n))
            BY <2>3 DEF Holds, Challenge
        <3> QED
            BY <2>1, <2>2, <2>3, <3>1, OnceKept
    <2>4. CASE req[p].proof[1] = "challenge"
        <3>1. PICK n \in Nat : req[p].proof = Challenge(n)
            BY <1>a, <2>4 DEF Proofs, NoProof, EmailCode, BackupCode, Challenge
        <3>2. \A d \in Devices : challenge[d] = n => d = req[p].dev
            BY <1>0, <2>1, <3>1 DEF Signing, Holds
        <3>3. /\ challenge'[req[p].dev] = 0
              /\ \A d \in Devices \ {req[p].dev} : challenge'[d] = challenge[d]
            BY <1>a, <2>1, <2>4
        <3>4. Shared'
            BY <1>0, <2>1, <2>2, SharedKept
        <3>5. \A q \in Procs : Verifying(q)'
            BY <1>0, <2>1 DEF Verifying, Moves
        <3>6. ASSUME NEW q \in Procs, NEW m \in Nat PROVE Signing(q, m)'
            <4> SUFFICES ASSUME Holds(q, Challenge(m))' PROVE Signing(q, m)'
                BY DEF Signing
            <4>1. q # p /\ Holds(q, Challenge(m)) /\ pc'[q] = pc[q] /\ req'[q] = req[q]
                BY <2>1 DEF Holds, Moves
            <4>2. m # 0
                BY <1>0, <4>1 DEF Signing
            <4>3. ASSUME NEW d \in Devices, challenge'[d] = m PROVE d = req[q].dev
                BY <1>0, <3>3, <4>1, <4>2, <4>3 DEF Signing
            <4> QED
                BY <1>0, <2>1, <4>1, <4>3 DEF Signing
        <3>7. \A d, e \in Devices : challenge'[d] = challenge'[e] /\ challenge'[d] # 0 => d = e
            BY <1>0, <3>3
        <3>8. ASSUME NEW d \in Devices PROVE Answerable(d)'
            <4>1. CASE d = req[p].dev
                BY <3>3, <4>1 DEF Answerable
            <4>2. CASE d # req[p].dev
                <5>1. challenge'[d] = challenge[d] /\ challenge[d] # n
                    BY <3>2, <3>3, <4>2
                <5>2. PICK y : y = Challenge(challenge[d])
                    OBVIOUS
                <5>3. ~Holds(p, y)
                    BY <3>1, <5>1, <5>2, ProofsDiffer DEF Holds
                <5>4. Holding(y) => Holding(y)'
                    <6>1. ASSUME NEW q \in Procs, Holds(q, y) PROVE Holds(q, y)'
                        BY <5>3, <6>1 DEF Holds, Moves
                    <6> QED
                        BY <6>1 DEF Holding, Holds
                <5> QED
                    BY <1>0, <2>1, <5>1, <5>2, <5>4 DEF Answerable, Holding
            <4> QED
                BY <4>1, <4>2
        <3> QED
            BY <1>0, <2>1, <3>4, <3>5, <3>6, <3>7, <3>8
            DEF Once, ProofsSpentOnce, Holders, Spendings, Shared, Verifying, Signing, Answerable
    <2> QED
        BY <2>3, <2>4
<1>9. CASE CrashLogin(p)
    <2>1. /\ pc[p] # "idle" /\ pc'[p] = "idle" /\ UNCHANGED <<spent, again, challenge, asked, used, email>>
          /\ together' = together \cup ({req[p].proof} \ {NoProof})
        BY <1>9, <1>b DEF CrashLogin, Crash, emailVars, codeVars, keyVars
    <2>2. Keeps(p) /\ pc'[p] # "verify_right"
        BY <2>1 DEF Keeps
    <2>3. \A n \in Nat : Holds(p, Challenge(n)) => Challenge(n) \in together'
        BY <2>1, ProofsDiffer DEF Holds
    <2> QED
        BY <2>1, <2>2, <2>3, OnceKept
<1> QED
    BY <1>1, <1>2, <1>3, <1>4, <1>5, <1>6, <1>7, <1>8, <1>9 DEF CodeNext

LEMMA OnceByRequest ==
    ASSUME Typed, Once, NEW p \in Procs, RequestNext(p), Moves(p), UNCHANGED oneTimeVars,
           ~\E d \in Devices : Logout(p, d)
    PROVE  Once'
<1>0. \A n \in Nat : Signing(p, n)
    BY OnceParts
<1>1. /\ UNCHANGED <<spent, again, together, challenge, asked, used, email>>
      /\ pc'[p] # "verify_right"
    BY TypedParts, RequestLabels
    DEF oneTimeVars, emailVars, codeVars, keyVars, proofVars, Rotating, Knowing
<1>2. CASE /\ pc[p] = "issue" /\ pc'[p] \in {"attach", "answer"} /\ req'[p].jti # NoJti
           /\ req'[p].proof = req[p].proof /\ req'[p].dev = req[p].dev
    <2>1. Keeps(p) /\ pc'[p] # "idle"
        BY <1>2 DEF Keeps, Attaching
    <2> QED
        BY <1>1, <2>1, OnceKept
<1>3. CASE pc[p] = "idle" /\ req'[p].proof = NoProof
    <2>1. Keeps(p) /\ \A n \in Nat : ~Holds(p, Challenge(n))
        BY <1>3 DEF Keeps, Holds
    <2> QED
        BY <1>1, <2>1, OnceKept
<1>4. CASE /\ pc[p] \in Rotating \cup Knowing \cup {"blacklist", "delete", "lifetime_save"}
           /\ pc'[p] = "idle" \/ req'[p].proof = req[p].proof
    <2>1. \A n \in Nat : ~Holds(p, Challenge(n))
        BY <1>0, <1>4 DEF Signing, Rotating, Knowing, Attaching
    <2>2. Keeps(p)
        BY <1>4, <2>1 DEF Keeps, Rotating, Knowing
    <2> QED
        BY <1>1, <2>1, <2>2, OnceKept
<1> QED
    BY <1>2, <1>3, <1>4, RequestProofs

LEMMA OnceStep == Typed /\ Once /\ [Next]_vars => Once'
<1> SUFFICES ASSUME Typed, Once, [Next]_vars PROVE Once'
    OBVIOUS
<1>0. /\ TableTyped /\ TableTyped' /\ Processes /\ Numbers /\ Numbers' /\ secrets <= secrets'
      /\ Jtis \subseteq Jtis' /\ Logins \subseteq Logins' /\ \A q \in Procs : Sound(q)
      /\ challenge \in [Devices -> 0..asked]
      /\ email \in [consumed : BOOLEAN, attempts : 0..MaxAttempts, late : BOOLEAN]
    BY TypedParts, TypedStep, TableStep, CodeStep, IssuedGrows DEF CodeTyped
<1>1. ASSUME NEW p \in Procs, CodeNext(p) PROVE Once'
    BY <1>0, <1>1, SoundByCode, OnceByCode
<1>2. ASSUME NEW d \in Devices, PasskeyStart(d) PROVE Once'
    <2>1. /\ challenge' = [challenge EXCEPT ![d] = asked + 1] /\ asked' = asked + 1
          /\ UNCHANGED <<pc, req, spent, again, together, used, email>>
        BY <1>2 DEF PasskeyStart, emailVars, codeVars, proofVars
    <2>2. /\ again \subseteq together /\ Shared
          /\ \A q \in Procs : Verifying(q) /\ \A n \in Nat : Signing(q, n)
          /\ EmailCode \in spent => email.consumed
          /\ \A c \in Nat : BackupCode(c) \in spent => c \in used
          /\ \A n \in Nat : Challenge(n) \in spent => n \in 1..asked
          /\ \A a, b \in Devices : challenge[a] = challenge[b] /\ challenge[a] # 0 => a = b
          /\ \A e \in Devices : Answerable(e)
        BY OnceParts
    <2>3. /\ challenge'[d] = asked + 1 /\ \A e \in Devices \ {d} : challenge'[e] = challenge[e]
          /\ asked \in Nat /\ \A e \in Devices : challenge[e] \in 0..asked
        BY <1>0, <2>1 DEF Numbers
    <2>4. ASSUME NEW q \in Procs, NEW n \in Nat PROVE Signing(q, n)'
        BY <2>1, <2>2, <2>3 DEF Signing, Holds
    <2>5. \A a, b \in Devices : challenge'[a] = challenge'[b] /\ challenge'[a] # 0 => a = b
        BY <2>2, <2>3
    <2>6. ASSUME NEW e \in Devices PROVE Answerable(e)'
        <3>1. CASE e = d
            <4>1. Challenge(asked + 1) \notin spent
                BY <2>2, <2>3
            <4> QED
                BY <2>1, <2>3, <3>1, <4>1 DEF Answerable
        <3>2. CASE e # d
            BY <2>1, <2>2, <2>3, <3>2 DEF Answerable, Holding
        <3> QED
            BY <3>1, <3>2
    <2>7. \A n \in Nat : Challenge(n) \in spent' => n \in 1..asked'
        BY <2>1, <2>2, <2>3
    <2> QED
        BY <2>1, <2>2, <2>4, <2>5, <2>6, <2>7
        DEF Once, ProofsSpentOnce, Holders, Spendings, Shared, Verifying, Signing, Answerable, Holds
<1>3. ASSUME NEW d \in Devices, PasskeyRemove(d) \/ TotpStart(d) PROVE Once'
    <2>1. UNCHANGED <<pc, req, spent, again, together, challenge, asked, used, email>>
        BY <1>3 DEF PasskeyRemove, TotpStart, emailVars, codeVars, keyVars, proofVars
    <2> QED
        BY <2>1, OnceStays
<1>4. CASE EmailCodeExpires
    <2>1. /\ UNCHANGED <<pc, req, spent, again, together, challenge, asked, used>>
          /\ email' = [email EXCEPT !.late = TRUE]
        BY <1>4 DEF EmailCodeExpires, codeVars, keyVars, proofVars
    <2>2. email'.consumed = email.consumed
        BY <1>0, <2>1
    <2> QED
        BY <2>1, <2>2, OnceStays
<1>5. CASE UNCHANGED oneTimeVars
    <2>1. UNCHANGED <<spent, again, together, challenge, asked, used, email>>
        BY <1>5 DEF oneTimeVars, emailVars, codeVars, keyVars, proofVars
    <2>2. CASE UNCHANGED <<pc, req>>
        BY <2>1, <2>2, OnceStays
    <2>3. ASSUME NEW p \in Procs, RequestNext(p) PROVE Once'
        <3>1. CASE \E d \in Devices : Logout(p, d)
            BY <2>1, <3>1, OnceStays DEF Logout
        <3>2. CASE ~\E d \in Devices : Logout(p, d)
            <4>1. Moves(p)
                BY <1>0, <2>3, SoundByRequest
            <4> QED
                BY <1>5, <2>3, <3>2, <4>1, OnceByRequest
        <3> QED
            BY <3>1, <3>2
    <2> QED
        BY <1>1, <2>2, <2>3, WhoMoves
<1> QED
    BY <1>1, <1>2, <1>3, <1>4, <1>5 DEF Next, vars

\* A proof of identity is accepted once -- a backup code always, the e-mail code and a
\* passkey's challenge unless two requests held them at once or the one that held them was
\* cut off -- for any devices and processes (verify_and_consume_backup_code,
\* verify_email_otp, passkey_auth_finish).
THEOREM ProofsAcceptedOnce == Spec => []ProofsSpentOnce
<1>1. Init => Once
    <2> SUFFICES ASSUME Init PROVE Once
        OBVIOUS
    <2>1. /\ spent = {} /\ again = {} /\ \A d \in Devices : challenge[d] = 0
          /\ \A q \in Procs : pc[q] = "idle"
        BY DEF Init, SessionInit, CodeInit
    <2> QED
        BY <2>1 DEF Once, ProofsSpentOnce, Holders, Spendings, Holds
<1>2. Once => ProofsSpentOnce
    BY DEF Once
<1> QED
    BY <1>1, <1>2, TypedInit, TypedStep, OnceStep, PTL DEF Spec

-----------------------------------------------------------------------------
(* A login and its session.                                                *)

One(l) == InFlight(l, Answering) \/ RowsOf(l) = {cookie[issued[l].dev]}

\* A step that makes rows and cookies of login m alone, or of logins it excuses.
Local(m) ==
    /\ excused \subseteq excused'
    /\ \A l \in Logins \ excused' : l # m => RowsOf(l)' = RowsOf(l)
    /\ \A d \in Devices : \/ cookie'[d] = cookie[d] \/ cookie[d] = NoJti
                          \/ LoginOf(cookie[d]) \in excused' \cup {m}

LEMMA LoginsStay ==
    ASSUME Typed, [Next]_vars
    PROVE  \A j \in Jtis : LoginOf(j)' = LoginOf(j) /\ issued'[j].dev = issued[j].dev
BY IssuedGrows DEF LoginOf

LEMMA RowsRead == \A l, j : j \in RowsOf(l) <=> j \in rows /\ LoginOf(j) = l
BY DEF RowsOf

LEMMA OneKept ==
    ASSUME Typed, [Next]_vars, NEW m, Local(m), NEW l \in Logins \ excused', l # m, One(l),
           InFlight(l, Answering) => InFlight(l, Answering)'
    PROVE  One(l)'
<1>0. TableTyped /\ Logins \subseteq Jtis /\ rows \subseteq Jtis
    BY TypedParts, LoginsTyped DEF TableTyped
<1>1. CASE InFlight(l, Answering)
    BY <1>1 DEF One, Answering, Rotating, InFlight
<1>2. CASE RowsOf(l) = {cookie[issued[l].dev]}
    <2>1. PICK d \in Devices : d = issued[l].dev /\ d = issued'[l].dev
        BY <1>0, LoginsStay DEF TableTyped
    <2>2. cookie[d] \in rows /\ LoginOf(cookie[d]) = l
        BY <1>2, <2>1, RowsRead
    <2>3. cookie'[d] = cookie[d]
        BY <1>0, <2>2, LoginsTyped DEF Local
    <2>4. RowsOf(l)' = RowsOf(l)
        BY DEF Local
    <2> QED
        BY <1>2, <2>1, <2>3, <2>4 DEF One
<1> QED
    BY <1>1, <1>2 DEF One

LEMMA StandsKept ==
    ASSUME Typed, [Next]_vars, NEW m, Local(m), NEW q \in Procs, Stands(q),
           pc'[q] = pc[q], req'[q] = req[q],
           pc[q] = "idle" \/ req[q].login # m \/ m \in excused' \cup {NoJti}
    PROVE  Stands(q)'
<1>0. /\ TableTyped /\ Logins \subseteq Jtis /\ rows \subseteq Jtis /\ Sound(q) /\ Processes
      /\ NoJti \notin Jtis
    BY TypedParts, LoginsTyped DEF TableTyped
<1>1. PICK r \in Request : r = req[q] /\ r = req'[q]
    BY <1>0, Typing
<1>2. PICK l \in Nat : l = r.login
    BY <1>1 DEF Request
<1>3. PICK c : c = pc[q] /\ c = pc'[q]
    OBVIOUS
<1>4. /\ r.jti \in Jtis \cup {NoJti} /\ l \in Logins \cup {NoJti} /\ r.todo \subseteq Jtis
      /\ c # "idle" => r.dev \in Devices
      /\ c \in Rotating \cup {"answer"} => r.jti \in Jtis
      /\ c \in Attaching /\ l # NoJti => r.jti \in Jtis
    BY <1>0, <1>1, <1>2, <1>3 DEF Sound
<1>5. /\ c \in Early \/ (c = "get" /\ r.via = "http") => l = NoJti
      /\ c \in Rotating => r.dev = issued[r.jti].dev
      /\ c \in Answering /\ l # NoJti => r.dev = issued[l].dev /\ LoginOf(r.jti) = l
      /\ c = "delete" => r.jti \in Jtis /\ LoginOf(r.jti) \in excused
      /\ l # NoJti /\ l \notin excused =>
            /\ c \in Knowing \cup (Answering \ {"refresh_insert"}) => RowsOf(l) = {r.jti}
            /\ c = "refresh_insert" => RowsOf(l) = {}
            /\ c = "refresh_delete" => cookie[r.dev] = r.jti
            /\ c \in {"blacklist", "delete"} => \A j \in r.todo : LoginOf(j) # l
    BY <1>1, <1>2, <1>3 DEF Stands
<1>6. l # NoJti /\ l \notin excused' /\ c # "idle" => RowsOf(l)' = RowsOf(l) /\ l # m
    BY <1>1, <1>2, <1>3, <1>4 DEF Local
<1>7. c \in Rotating => r.dev = issued'[r.jti].dev
    BY <1>4, <1>5, LoginsStay
<1>8. c \in Answering /\ l # NoJti => r.dev = issued'[l].dev /\ LoginOf(r.jti)' = l
    BY <1>0, <1>4, <1>5, LoginsStay DEF Answering, Attaching
<1>9. c = "delete" => r.jti \in Jtis' /\ LoginOf(r.jti)' \in excused'
    BY <1>5, LoginsStay, IssuedGrows DEF Local
<1>10. l # NoJti /\ l \notin excused' =>
            /\ c \in Knowing \cup (Answering \ {"refresh_insert"}) => RowsOf(l)' = {r.jti}
            /\ c = "refresh_insert" => RowsOf(l)' = {}
            /\ c = "refresh_delete" => cookie'[r.dev] = r.jti
            /\ c \in {"blacklist", "delete"} => \A j \in r.todo : LoginOf(j)' # l
    <2> SUFFICES ASSUME l # NoJti, l \notin excused'
                 PROVE  /\ c \in Knowing \cup (Answering \ {"refresh_insert"}) => RowsOf(l)' = {r.jti}
                        /\ c = "refresh_insert" => RowsOf(l)' = {}
                        /\ c = "refresh_delete" => cookie'[r.dev] = r.jti
                        /\ c \in {"blacklist", "delete"} => \A j \in r.todo : LoginOf(j)' # l
        OBVIOUS
    <2>1. l \notin excused
        BY DEF Local
    <2>2. c \in Knowing \cup (Answering \ {"refresh_insert"}) => RowsOf(l)' = {r.jti}
        BY <1>5, <1>6, <2>1 DEF Knowing, Answering, Rotating
    <2>3. c = "refresh_insert" => RowsOf(l)' = {}
        BY <1>5, <1>6, <2>1
    <2>4. c = "refresh_delete" => cookie'[r.dev] = r.jti
        <3> SUFFICES ASSUME c = "refresh_delete" PROVE cookie'[r.dev] = r.jti
            OBVIOUS
        <3>1. cookie[r.dev] = r.jti /\ r.jti \in Jtis /\ LoginOf(r.jti) = l /\ r.dev \in Devices
            BY <1>4, <1>5, <2>1 DEF Rotating, Answering
        <3> QED
            BY <1>0, <1>6, <3>1 DEF Local
    <2>5. c \in {"blacklist", "delete"} => \A j \in r.todo : LoginOf(j)' # l
        BY <1>4, <1>5, <2>1, LoginsStay
    <2> QED
        BY <2>2, <2>3, <2>4, <2>5
<1> QED
    BY <1>1, <1>2, <1>3, <1>5, <1>7, <1>8, <1>9, <1>10 DEF Stands

LEMMA LinesKept ==
    ASSUME Typed, [Next]_vars, UNCHANGED issued, Lines, excused \subseteq excused',
           \A j \in lapsed' : j \in lapsed \/ (j \in Jtis /\ LoginOf(j) \in excused')
    PROVE  Lines'
<1>1. Jtis' = Jtis /\ \A j : LoginOf(j)' = LoginOf(j)
    BY SameIssued
<1>2. \A j \in Jtis : issued[LoginOf(j)].dev = issued[j].dev
    BY DEF Lines
<1>3. \A j \in Jtis' : issued'[LoginOf(j)'].dev = issued'[j].dev
    BY <1>1, <1>2
<1>4. \A j \in lapsed' : LoginOf(j)' \in excused'
    BY <1>1 DEF Lines
<1> QED
    BY <1>3, <1>4 DEF Lines

\* A step of no request.
LEMMA OneRowStays ==
    ASSUME Typed, OneRow, [Next]_vars, UNCHANGED <<pc, req, issued>>, Local(NoJti), Lines'
    PROVE  OneRow'
<1>1. Logins' = Logins /\ NoJti \notin Logins
    BY SameIssued, LoginsTyped, TypedParts
<1>2. ASSUME NEW l \in Logins' \ excused' PROVE One(l)'
    <2>1. l \in Logins \ excused' /\ l # NoJti /\ l \in Logins \ excused
        BY <1>1 DEF Local
    <2>2. One(l)
        BY <2>1 DEF OneRow, LoginKeepsOneSession, One
    <2>3. InFlight(l, Answering) => InFlight(l, Answering)'
        BY DEF InFlight, Answering, Rotating
    <2> QED
        BY <2>1, <2>2, <2>3, OneKept
<1>3. ASSUME NEW q \in Procs PROVE Stands(q)'
    BY StandsKept DEF OneRow
<1>4. ASSUME NEW q \in Procs, NEW r \in Procs, q # r PROVE Alone(q, r)'
    BY <1>4 DEF OneRow, Alone, Local
<1> QED
    BY <1>2, <1>3, <1>4 DEF OneRow, LoginKeepsOneSession, One

\* A step of p's request that touches login m: its own, or none.
LEMMA OneRowMoves ==
    ASSUME Typed, OneRow, [Next]_vars, NEW p \in Procs, Moves(p), NEW m, Local(m), Lines',
           m = NoJti \/ (pc[p] # "idle" /\ m = req[p].login),
           pc[p] \in Answering => m = req[p].login,
           Stands(p)',
           \/ pc'[p] = "idle" \/ req'[p].login = NoJti \/ req'[p].login \in excused'
           \/ pc[p] # "idle" /\ req'[p].login = req[p].login
           \/ ~Busy(req'[p].login),
           \A l \in Logins' \ excused' : l = m \/ l \notin Logins => One(l)'
    PROVE  OneRow'
<1>0. NoJti \notin Logins
    BY LoginsTyped, TypedParts
<1>1. ASSUME NEW l \in Logins' \ excused' PROVE One(l)'
    <2>1. CASE l = m \/ l \notin Logins
        BY <2>1
    <2>2. CASE l # m /\ l \in Logins
        <3>1. l \in Logins \ excused
            BY <2>2 DEF Local
        <3>2. One(l)
            BY <3>1 DEF OneRow, LoginKeepsOneSession, One
        <3>3. ASSUME InFlight(l, Answering) PROVE InFlight(l, Answering)'
            <4>1. PICK q \in Procs : pc[q] \in Answering /\ req[q].login = l
                BY <3>3 DEF InFlight
            <4>2. q # p
                BY <2>2, <4>1
            <4>3. pc'[q] = pc[q] /\ req'[q] = req[q]
                BY <4>2 DEF Moves
            <4>4. pc'[q] \in Answering /\ req'[q].login = l
                BY <4>1, <4>3
            <4> QED
                BY <4>4 DEF InFlight, Answering, Rotating
        <3> QED
            BY <2>2, <3>2, <3>3, OneKept
    <2> QED
        BY <2>1, <2>2
<1>2. ASSUME NEW q \in Procs \ {p} PROVE Stands(q)'
    <2>1. pc[q] = "idle" \/ req[q].login # m \/ m \in excused' \cup {NoJti}
        <3>1. Alone(p, q)
            BY <1>2 DEF OneRow
        <3> QED
            BY <3>1 DEF Alone, Local
    <2> QED
        BY <2>1, StandsKept DEF OneRow, Moves
<1>3. ASSUME NEW q \in Procs \ {p} PROVE Alone(p, q)' /\ Alone(q, p)'
    <2>1. pc'[q] = pc[q] /\ req'[q] = req[q]
        BY <1>3 DEF Moves
    <2>2. CASE pc'[p] = "idle" \/ req'[p].login = NoJti \/ req'[p].login \in excused'
        BY <2>2 DEF Alone
    <2>3. CASE pc[p] # "idle" /\ req'[p].login = req[p].login
        <3>1. Alone(p, q)
            BY <1>3 DEF OneRow
        <3> QED
            BY <2>1, <2>3, <3>1 DEF Alone, Local
    <2>4. CASE ~Busy(req'[p].login)
        <3>1. PICK l : l = req'[p].login
            OBVIOUS
        <3>2. pc[q] = "idle" \/ req[q].login # l
            BY <2>4, <3>1 DEF Busy
        <3> QED
            BY <2>1, <3>1, <3>2 DEF Alone
    <2> QED
        BY <2>2, <2>3, <2>4
<1>4. ASSUME NEW q \in Procs, NEW r \in Procs, q # r PROVE Alone(q, r)'
    <2>1. CASE q # p /\ r # p
        BY <1>4, <2>1 DEF OneRow, Alone, Local, Moves
    <2> QED
        BY <1>3, <1>4, <2>1
<1> QED
    BY <1>1, <1>2, <1>4 DEF OneRow, LoginKeepsOneSession, One

LEMMA CalmLocal ==
    ASSUME UNCHANGED <<issued, rows, cookie>>, excused \subseteq excused'
    PROVE  /\ \A l : RowsOf(l)' = RowsOf(l)
           /\ \A m : Local(m)
<1>1. \A l : RowsOf(l)' = RowsOf(l)
    BY DEF RowsOf, LoginOf
<1> QED
    BY <1>1 DEF Local

\* A request that has no session, or is over, says nothing of a login.
LEMMA StandsApart ==
    ASSUME NEW p \in Procs,
           \/ pc'[p] = "idle"
           \/ req'[p].login = NoJti /\ pc'[p] \in Early \cup Attaching \cup {"get"}
    PROVE  Stands(p)'
BY DEF Stands, Early, Attaching, Answering, Rotating, Knowing

LEMMA OneRowByCode ==
    ASSUME Typed, OneRow, [Next]_vars, NEW p \in Procs, CodeNext(p), Moves(p)
    PROVE  OneRow'
<1>0. /\ TableTyped /\ Processes /\ Sound(p) /\ NoJti \notin Logins
      /\ pc = [q \in Procs |-> pc[q]] /\ req = [q \in Procs |-> req[q]]
      /\ Lines /\ Stands(p)
    BY TypedParts, LoginsTyped DEF Processes, Request, OneRow
<1>1. CASE CodeShape(p)
    <2>1. UNCHANGED <<issued, rows, lapsed, cookie, excused>>
        BY <1>1 DEF CodeShape, Undisturbed, table, client, history
    <2>2. /\ \A l : RowsOf(l)' = RowsOf(l)
          /\ \A m : Local(m)
          /\ Lines' /\ Logins' = Logins
        BY <1>0, <2>1, CalmLocal, LinesKept, SameIssued
    <2>3. CASE \/ pc'[p] = "idle" /\ (pc[p] \in Early \/ (pc[p] \in Attaching /\ req[p].jti = NoJti))
               \/ pc[p] = "idle" /\ pc'[p] \in Early /\ req'[p].login = NoJti
               \/ pc[p] \in Early /\ pc'[p] \in Early \cup {"attach"} /\ req'[p] = req[p]
        <3>1. pc[p] # "idle" => req[p].login = NoJti
            BY <1>0, <2>3 DEF Stands, Sound
        <3>2. Stands(p)'
            BY <2>3, <3>1, StandsApart DEF Early, Attaching
        <3>3. pc[p] \in Answering => NoJti = req[p].login
            BY <3>1 DEF Answering, Rotating
        <3>4. pc'[p] = "idle" \/ req'[p].login = NoJti
            BY <2>3, <3>1 DEF Early
        <3> QED
            BY <1>0, <2>2, <3>2, <3>3, <3>4, OneRowMoves
    <2>4. CASE pc[p] \in Attaching /\ req'[p] = req[p] /\ pc'[p] \in {"attach_create", "answer"}
        <3>1. PICK m : m = req[p].login /\ m = req'[p].login
            BY <2>4
        <3>2. PICK r : r = req[p] /\ r = req'[p]
            BY <2>4
        <3>3. /\ pc[p] # "idle" /\ pc[p] \in Answering \ {"refresh_insert"}
              /\ pc'[p] \in Answering \ {"refresh_insert"}
              /\ pc'[p] \notin Rotating \cup Early \cup {"get", "delete", "blacklist"}
            BY <2>4 DEF Attaching, Answering, Rotating, Early
        <3>4. /\ m # NoJti => r.dev = issued[m].dev /\ LoginOf(r.jti) = m
              /\ m # NoJti /\ m \notin excused => RowsOf(m) = {r.jti}
            BY <1>0, <3>1, <3>2, <3>3 DEF Stands
        <3>5. /\ m # NoJti => r.dev = issued'[m].dev /\ LoginOf(r.jti)' = m
              /\ m # NoJti /\ m \notin excused' => RowsOf(m)' = {r.jti}
            BY <2>1, <2>2, <3>4, SameIssued
        <3>6. Stands(p)'
            BY <3>1, <3>2, <3>3, <3>5 DEF Stands, Rotating
        <3>7. InFlight(m, Answering)'
            BY <3>1, <3>3 DEF InFlight, Answering, Rotating
        <3>8. One(m)'
            BY <3>7 DEF One, Answering, Rotating, InFlight
        <3> QED
            BY <2>2, <3>1, <3>3, <3>6, <3>8, OneRowMoves
    <2> QED
        BY <1>1, <2>3, <2>4 DEF CodeShape, Early
<1>2. CASE AnswerLogin(p)
    <2>1. PICK r \in Request : r = req[p]
        BY <1>0, Typing
    <2>2. PICK m \in Logins : m = r.login
        BY <1>2, <1>0, <2>1 DEF AnswerLogin, Answer, Sound
    <2>3. PICK d \in Devices : d = r.dev
        BY <1>2, <1>0, <2>1 DEF AnswerLogin, Answer, Sound
    <2>4. PICK arrives \in BOOLEAN :
              /\ cookie' = IF arrives THEN [cookie EXCEPT ![d] = r.jti] ELSE cookie
              /\ excused' = excused \cup
                    (IF ~arrives THEN {m}
                     ELSE IF cookie[d] \in Jtis THEN {LoginOf(cookie[d])} \ {m} ELSE {})
        BY <1>2, <2>1, <2>2, <2>3 DEF AnswerLogin, Answer
    <2>5. UNCHANGED <<issued, rows, lapsed>> /\ pc[p] = "answer" /\ pc'[p] = "idle"
        BY <1>0, <1>2, FinishMoves DEF AnswerLogin, Answer, table
    <2>6. /\ \A l : RowsOf(l)' = RowsOf(l)
          /\ Lines' /\ Logins' = Logins /\ excused \subseteq excused'
        BY <1>0, <2>4, <2>5, LinesKept, SameIssued DEF RowsOf
    <2>7. cookie \in [Devices -> Jtis \cup {NoJti}]
        BY <1>0 DEF TableTyped
    <2>8. Local(m)
        BY <2>4, <2>6, <2>7 DEF Local
    <2>9. m \notin excused' => One(m)'
        <3> SUFFICES ASSUME m \notin excused' PROVE One(m)'
            OBVIOUS
        <3>1. m \notin excused /\ m # NoJti /\ arrives /\ cookie'[d] = r.jti
            BY <1>0, <2>4, <2>7
        <3>2. RowsOf(m) = {r.jti} /\ d = issued[m].dev
            BY <1>0, <2>1, <2>2, <2>3, <2>5, <3>1 DEF Stands, Answering, Rotating
        <3>3. RowsOf(m)' = {cookie'[issued'[m].dev]}
            BY <2>5, <2>6, <3>1, <3>2
        <3> QED
            BY <3>3 DEF One
    <2> QED
        BY <2>1, <2>2, <2>5, <2>6, <2>8, <2>9, StandsApart, OneRowMoves
<1>3. CASE CrashLogin(p)
    <2>1. /\ UNCHANGED <<issued, rows, lapsed, cookie>> /\ pc[p] # "idle" /\ pc'[p] = "idle"
          /\ excused' = IF pc[p] \in Answering \ {"refresh_delete"}
                        THEN excused \cup ({req[p].login} \ {NoJti}) ELSE excused
        BY <1>0, <1>3 DEF CrashLogin, Crash, table, client
    <2>2. /\ \A l : RowsOf(l)' = RowsOf(l)
          /\ \A m : Local(m)
          /\ Lines' /\ Logins' = Logins
        BY <1>0, <2>1, CalmLocal, LinesKept, SameIssued
    <2>3. CASE pc[p] \notin Answering
        BY <1>0, <2>1, <2>2, <2>3, StandsApart, OneRowMoves
    <2>4. CASE pc[p] \in Answering
        <3>1. PICK m : m = req[p].login
            OBVIOUS
        <3>2. ASSUME m \in Logins \ excused' PROVE One(m)'
            <4>1. pc[p] = "refresh_delete" /\ m # NoJti /\ m \notin excused
                BY <1>0, <2>1, <2>4, <3>1, <3>2
            <4>2. RowsOf(m) = {req[p].jti} /\ cookie[req[p].dev] = req[p].jti /\ req[p].dev = issued[m].dev
                BY <1>0, <3>1, <4>1 DEF Stands, Answering, Rotating
            <4>3. RowsOf(m)' = {cookie'[issued'[m].dev]}
                BY <2>1, <2>2, <4>2
            <4> QED
                BY <4>3 DEF One
        <3> QED
            BY <1>0, <2>1, <2>2, <3>1, <3>2, StandsApart, OneRowMoves
    <2> QED
        BY <2>3, <2>4
<1> QED
    BY <1>1, <1>2, <1>3, CodeShapes

\* A request begins as session j of device d: its login's only one, or the login is excused.
LEMMA BeginsAlone ==
    ASSUME Typed, OneRow, NEW j \in rows, NEW l, l = LoginOf(j), l \notin excused, ~Busy(l)
    PROVE  /\ l \in Logins /\ RowsOf(l) = {j} /\ cookie[issued[j].dev] = j
           /\ issued[l].dev = issued[j].dev
<1>1. TableTyped /\ j \in Jtis /\ l \in Logins /\ l # NoJti
    BY TypedParts, LoginsTyped DEF TableTyped
<1>2. InFlight(l, Answering) \/ RowsOf(l) = {cookie[issued[l].dev]}
    BY <1>1 DEF OneRow, LoginKeepsOneSession
<1>3. ~InFlight(l, Answering)
    BY DEF InFlight, Busy, Answering, Rotating
<1>4. j \in RowsOf(l)
    BY <1>1, RowsRead
<1>5. issued[l].dev = issued[j].dev
    BY <1>1 DEF OneRow, Lines
<1> QED
    BY <1>1, <1>2, <1>3, <1>4, <1>5

\* The rows S are deleted: those of excused logins only.
LEMMA DeleteLocal ==
    ASSUME Typed, [Next]_vars, OneRow, NEW S, DeleteRows(S), excused \subseteq excused',
           UNCHANGED cookie, \A j \in S \cap rows : LoginOf(j) \in excused'
    PROVE  Local(NoJti) /\ Lines' /\ Logins' = Logins
<1>1. UNCHANGED issued /\ rows' = rows \ S /\ lapsed' \subseteq lapsed
    BY DEF DeleteRows
<1>2. \A l \in Logins \ excused' : RowsOf(l)' = RowsOf(l)
    BY <1>1, SameIssued DEF RowsOf
<1>3. Local(NoJti)
    BY <1>2 DEF Local
<1> QED
    BY <1>1, <1>3, SameIssued, LinesKept DEF OneRow

LEMMA OneRowByBeginning ==
    ASSUME Typed, OneRow, [Next]_vars, NEW p \in Procs, Moves(p), NEW d \in Devices,
           \/ Refresh(p, d) \/ KillOthers(p, d) \/ RevokeOthersWs(p, d) \/ Lifetime(p, d)
           \/ \E j \in Jtis : RevokeWs(p, d, j) \/ RevokeRest(p, d, j)
    PROVE  OneRow'
<1>0. /\ TableTyped /\ Processes /\ rows \subseteq Jtis /\ NoJti \notin Jtis
      /\ pc = [q \in Procs |-> pc[q]] /\ req = [q \in Procs |-> req[q]] /\ Lines
    BY TypedParts, LoginsTyped DEF Processes, Request, OneRow, TableTyped
<1>1. pc[p] = "idle" /\ UNCHANGED <<issued, rows, lapsed, cookie>>
    BY DEF Refresh, KillOthers, RevokeOthersWs, Lifetime, RevokeWs, RevokeRest, BeginAs, Begin,
           table, client
<1>2. excused' = excused \cup {l \in {req'[p].login} \ {NoJti} : Busy(l)}
    <2>1. CASE Refresh(p, d)
        <3>1. /\ cookie[d] \in Jtis /\ req'[p] = As(d, cookie[d])
              /\ excused' = excused \cup {l \in {LoginOf(cookie[d])} : Busy(l)}
            BY <1>0, <2>1 DEF Refresh, Accepted, Begin
        <3>2. req'[p].login = LoginOf(cookie[d]) /\ LoginOf(cookie[d]) # NoJti
            BY <1>0, <3>1, AsReads, LoginsTyped
        <3>3. PICK m : m = LoginOf(cookie[d])
            OBVIOUS
        <3> QED
            BY <3>1, <3>2, <3>3
    <2>2. CASE ~Refresh(p, d)
        <3>1. PICK r : /\ req'[p] = r
                       /\ excused' = excused \cup {l \in {r.login} \ {NoJti} : Busy(l)}
            <4>1. ASSUME NEW k, NEW label, NEW r, BeginAs(p, k, label, r)
                  PROVE  req'[p] = r /\ excused' = excused \cup {l \in {r.login} \ {NoJti} : Busy(l)}
                BY <1>0, <4>1 DEF BeginAs, Begin
            <4> QED
                BY <2>2, <4>1 DEF KillOthers, RevokeOthersWs, Lifetime, RevokeWs, RevokeRest
        <3> QED
            BY <3>1
    <2> QED
        BY <2>1, <2>2
<1>3. /\ \A l : RowsOf(l)' = RowsOf(l)
      /\ \A m : Local(m)
      /\ Lines' /\ Logins' = Logins /\ \A j : LoginOf(j)' = LoginOf(j)
    BY <1>0, <1>1, <1>2, CalmLocal, LinesKept, SameIssued
<1>4. \/ req'[p].login = NoJti \/ req'[p].login \in excused' \/ ~Busy(req'[p].login)
    <2>1. PICK m : m = req'[p].login
        OBVIOUS
    <2>2. m = NoJti \/ m \in excused' \/ ~Busy(m)
        BY <1>2, <2>1
    <2> QED
        BY <2>1, <2>2
<1>5. Stands(p)'
    <2>1. CASE \E j \in Jtis : RevokeRest(p, d, j)
        <3>1. PICK j \in Jtis : req'[p] = [As(d, NoJti) EXCEPT !.todo = {j}] /\ pc'[p] = "get"
            BY <1>0, <2>1 DEF RevokeRest, BeginAs, Begin
        <3>2. PICK a \in Request : a = As(d, NoJti) /\ a.login = NoJti
            BY <1>0, AsReads
        <3>3. req'[p].login = NoJti
            BY <3>1, <3>2 DEF Request
        <3> QED
            BY <3>1, <3>3, StandsApart
    <2>2. ASSUME \/ Refresh(p, d) \/ KillOthers(p, d) \/ RevokeOthersWs(p, d) \/ Lifetime(p, d)
                 \/ \E j \in Jtis : RevokeWs(p, d, j)
          PROVE  Stands(p)'
        <3>1. PICK k \in rows :
                 /\ \/ req'[p] = As(d, k) /\ pc'[p] \in {"refresh_delete", "kill_read"}
                    \/ req'[p] = [As(d, k) EXCEPT !.via = "ws"] /\ pc'[p] \in {"list", "lifetime"}
                    \/ \E j : req'[p] = [As(d, k) EXCEPT !.todo = {j}, !.via = "ws"] /\ pc'[p] = "get"
                 /\ pc'[p] = "refresh_delete" => k = cookie[d] /\ issued[k].dev = d
            BY <1>0, <2>2 DEF Refresh, Live, Bound, KillOthers, Authenticated, RevokeOthersWs, Lifetime,
                              RevokeWs, Admitted, BeginAs, Begin
        <3>2. PICK a \in Request : a = As(d, k) /\ a.login = LoginOf(k) /\ a.jti = k /\ a.dev = d
            <4>1. k \in Jtis /\ k \in Jtis \cup {NoJti}
                BY <1>0, <3>1
            <4>2. PICK a : a = As(d, k)
                OBVIOUS
            <4>3. a \in Request /\ a.login = LoginOf(k) /\ a.jti = k /\ a.dev = d
                BY <1>0, <4>1, <4>2, AsReads
            <4> QED
                BY <4>2, <4>3
        <3>3. PICK l : l = LoginOf(k)
            OBVIOUS
        <3>4. PICK r : /\ r = req'[p]
                       /\ \/ r = a \/ r = [a EXCEPT !.via = "ws"]
                          \/ \E j : r = [a EXCEPT !.todo = {j}, !.via = "ws"]
                       /\ pc'[p] = "get" => \E j : r = [a EXCEPT !.todo = {j}, !.via = "ws"]
            BY <3>1, <3>2
        <3>5. r.login = l /\ r.jti = k /\ r.dev = d /\ (pc'[p] = "get" => r.via = "ws")
            BY <3>2, <3>3, <3>4 DEF Request
        <3>6. l # NoJti /\ issued[l].dev = issued[k].dev /\ l = LoginOf(k)
            BY <1>0, <3>3, LoginsTyped DEF Lines
        <3>7. l \notin excused' => RowsOf(l) = {k}
            BY <1>2, <3>3, <3>4, <3>5, <3>6, BeginsAlone
        <3>8. pc'[p] \in {"refresh_delete", "kill_read", "list", "lifetime", "get"}
            BY <3>1
        <3>9. l \notin excused' => RowsOf(l)' = {k}
            BY <1>3, <3>7
        <3>10. /\ LoginOf(k)' = l
               /\ pc'[p] = "refresh_delete" =>
                     d = issued'[k].dev /\ d = issued'[l].dev /\ cookie'[d] = k
            BY <1>1, <1>3, <3>1, <3>6
        <3> QED
            BY <3>4, <3>5, <3>8, <3>9, <3>10 DEF Stands, Early, Rotating, Answering, Knowing
    <2> QED
        BY <2>1, <2>2
<1>6. NoJti \notin Logins /\ pc[p] \notin Answering
    BY <1>1, LoginsTyped, TypedParts DEF Answering, Rotating
<1> QED
    BY <1>1, <1>3, <1>4, <1>5, <1>6, OneRowMoves

LEMMA OneRowByIssue ==
    ASSUME Typed, OneRow, [Next]_vars, NEW p \in Procs, Moves(p), Issue(p)
    PROVE  OneRow'
<1>0. /\ TableTyped /\ Processes /\ Sound(p) /\ NoJti \notin Jtis /\ rows \subseteq Jtis
      /\ Logins \subseteq Jtis /\ \A j \in Jtis : LoginOf(j) \in Jtis
      /\ pc = [q \in Procs |-> pc[q]] /\ req = [q \in Procs |-> req[q]] /\ Lines /\ Stands(p)
    BY TypedParts, LoginsTyped DEF Processes, Request, OneRow, TableTyped
<1>1. PICK k \in Nat : k = Len(issued) + 1 /\ k # NoJti
    BY <1>0, LenProperties DEF TableTyped, NoJti
<1>2. PICK r \in Request : r = req[p]
    BY <1>0, Typing
<1>3. PICK e \in Entry : e = [dev |-> r.dev, login |-> k, line |-> {k}]
    BY <1>0, <1>2 DEF Issue, Sound, Entry
<1>4. /\ pc[p] = "issue" /\ pc'[p] \in {"attach", "answer"}
      /\ issued' = Append(issued, e) /\ rows' = rows \cup {k} /\ UNCHANGED <<lapsed, cookie, excused>>
      /\ req'[p] = [r EXCEPT !.jti = k, !.login = k]
    BY <1>0, <1>1, <1>2, <1>3 DEF Issue, Store, GoWith, NoJti, client, history
<1>5. /\ Jtis' = Jtis \cup {k} /\ k \notin Jtis /\ Logins' = Logins \cup {k}
      /\ \A j \in Jtis : issued'[j] = issued[j] /\ LoginOf(j)' = LoginOf(j)
      /\ issued'[k] = e /\ issued'[k].dev = r.dev
    <2>1. /\ Jtis' = Jtis \cup {k} /\ k \notin Jtis /\ Logins' = Logins \cup {e.login}
          /\ \A j \in Jtis : issued'[j] = issued[j] /\ LoginOf(j)' = LoginOf(j)
          /\ issued'[k] = e
        BY <1>0, <1>1, <1>4, OneMore DEF TableTyped
    <2>2. e.login = k /\ e.dev = r.dev
        BY <1>3
    <2> QED
        BY <2>1, <2>2
<1>6. LoginOf(k)' = k
    BY <1>3, <1>5 DEF LoginOf
<1>7. PICK s \in Request : s = req'[p] /\ s.jti = k /\ s.login = k /\ s.dev = r.dev
    <2>1. PICK s : s = [r EXCEPT !.jti = k, !.login = k]
        OBVIOUS
    <2>2. s \in Request /\ s.jti = k /\ s.login = k /\ s.dev = r.dev
        BY <2>1 DEF Request
    <2> QED
        BY <1>4, <2>1, <2>2
<1>8. RowsOf(k)' = {k} /\ \A l \in Logins : RowsOf(l)' = RowsOf(l)
    <2>1. \A j \in rows : LoginOf(j)' = LoginOf(j) /\ LoginOf(j) # k
        BY <1>0, <1>5
    <2>2. \A l \in Logins : l # k
        BY <1>0, <1>5
    <2> QED
        BY <1>4, <1>6, <2>1, <2>2 DEF RowsOf
<1>9. Local(NoJti)
    BY <1>4, <1>8 DEF Local
<1>10. Lines'
    <2>1. \A j \in Jtis' : issued'[LoginOf(j)'].dev = issued'[j].dev
        <3>1. ASSUME NEW j \in Jtis PROVE issued'[LoginOf(j)'].dev = issued'[j].dev
            BY <1>0, <1>5 DEF Lines
        <3>2. issued'[LoginOf(k)'].dev = issued'[k].dev
            BY <1>6
        <3> QED
            BY <1>5, <3>1, <3>2
    <2>2. \A j \in lapsed' : LoginOf(j)' \in excused'
        BY <1>0, <1>4, <1>5 DEF Lines, TableTyped
    <2> QED
        BY <2>1, <2>2 DEF Lines
<1>11. Stands(p)'
    <2>1. s.dev = issued'[k].dev
        BY <1>5, <1>7
    <2>2. pc'[p] \notin Rotating \cup Early \cup {"get", "delete", "blacklist"}
        BY <1>4 DEF Rotating, Early
    <2> QED
        BY <1>4, <1>6, <1>7, <1>8, <2>1, <2>2 DEF Stands, Rotating
<1>12. One(k)'
    <2>1. InFlight(k, Answering)'
        BY <1>4, <1>7 DEF InFlight, Answering, Attaching
    <2> QED
        BY <2>1 DEF One, InFlight, Answering, Rotating
<1>13. req[p].login = NoJti /\ ~Busy(k)
    <2>1. \A q \in Procs : req[q].login \in Logins \cup {NoJti}
        BY TypedParts DEF Sound
    <2> QED
        BY <1>0, <1>1, <1>4, <1>5, <2>1 DEF Stands, Early, Busy
<1>14. ~Busy(req'[p].login)
    BY <1>7, <1>13
<1>15. \A l \in Logins' \ excused' : l = NoJti \/ l \notin Logins => One(l)'
    BY <1>0, <1>5, <1>12
<1> QED
    BY <1>9, <1>10, <1>11, <1>13, <1>14, <1>15, OneRowMoves

LEMMA OneRowByRefresh ==
    ASSUME Typed, OneRow, [Next]_vars, NEW p \in Procs, Moves(p), RefreshDelete(p) \/ RefreshInsert(p)
    PROVE  OneRow'
<1>0. /\ TableTyped /\ Processes /\ Sound(p) /\ NoJti \notin Jtis /\ rows \subseteq Jtis
      /\ Logins \subseteq Jtis /\ \A j \in Jtis : LoginOf(j) \in Logins
      /\ pc = [q \in Procs |-> pc[q]] /\ req = [q \in Procs |-> req[q]] /\ Lines /\ Stands(p)
    BY TypedParts, LoginsTyped DEF Processes, Request, OneRow, TableTyped
<1>1. PICK r \in Request : r = req[p]
    BY <1>0, Typing
<1>2. pc[p] \in Rotating /\ pc[p] \in Answering /\ pc[p] # "idle"
    BY DEF RefreshDelete, RefreshInsert, Rotating, Answering
<1>3. PICK m \in Logins : m = r.login
    BY <1>0, <1>1, <1>2 DEF Sound
<1>4. /\ r.jti \in Jtis /\ r.dev \in Devices /\ r.dev = issued[r.jti].dev
      /\ r.dev = issued[m].dev /\ LoginOf(r.jti) = m /\ m # NoJti
    BY <1>0, <1>1, <1>2, <1>3 DEF Sound, Stands
<1>5. CASE RefreshDelete(p)
    <2>1. /\ rows' = rows \ {r.jti} /\ lapsed' \subseteq lapsed /\ UNCHANGED <<issued, cookie, excused>>
          /\ pc[p] = "refresh_delete" /\ pc'[p] = "refresh_insert" /\ req'[p] = r
        BY <1>0, <1>1, <1>5, GotoMoves DEF RefreshDelete, client, history
    <2>2. \A l \in Logins : RowsOf(l)' = IF l = m THEN RowsOf(l) \ {r.jti} ELSE RowsOf(l)
        BY <1>4, <2>1, SameIssued DEF RowsOf
    <2>3. Local(m) /\ Lines' /\ Logins' = Logins
        BY <1>0, <2>1, <2>2, SameIssued, LinesKept DEF Local
    <2>4. m \notin excused' => RowsOf(m)' = {}
        <3>1. m \notin excused => RowsOf(m) = {r.jti}
            BY <1>0, <1>1, <1>3, <1>4, <2>1 DEF Stands, Answering, Rotating
        <3> QED
            BY <2>1, <2>2, <3>1
    <2>5. r.dev = issued'[r.jti].dev /\ r.dev = issued'[m].dev /\ LoginOf(r.jti)' = m
        BY <1>4, <2>1, SameIssued
    <2>6. Stands(p)'
        BY <1>3, <2>1, <2>4, <2>5 DEF Stands, Early, Knowing
    <2>7. InFlight(m, Answering)'
        BY <1>3, <2>1 DEF InFlight, Answering, Rotating
    <2>8. One(m)'
        BY <2>7 DEF One, InFlight, Answering, Rotating
    <2> QED
        BY <1>1, <1>2, <1>3, <2>1, <2>3, <2>6, <2>8, OneRowMoves
<1>6. CASE RefreshInsert(p)
    <2>1. PICK k \in Nat : k = Len(issued) + 1 /\ k # NoJti
        BY <1>0, LenProperties DEF TableTyped, NoJti
    <2>2. PICK e \in Entry : e = [dev |-> r.dev, login |-> m, line |-> issued[r.jti].line \cup {k}]
        <3>1. issued[r.jti].line \cup {k} \subseteq Nat /\ m \in Nat
            BY <1>0, <1>4, <2>1 DEF TableTyped, Jtis
        <3> QED
            BY <1>4, <3>1 DEF Entry
    <2>3. /\ pc[p] = "refresh_insert" /\ pc'[p] = "answer"
          /\ issued' = Append(issued, e) /\ rows' = rows \cup {k}
          /\ UNCHANGED <<lapsed, cookie, excused>>
          /\ req'[p] = [r EXCEPT !.jti = k]
        BY <1>0, <1>1, <1>4, <1>6, <2>1, <2>2 DEF RefreshInsert, Store, GoWith, client, history
    <2>4. /\ Jtis' = Jtis \cup {k} /\ k \notin Jtis /\ Logins' = Logins \cup {m}
          /\ \A j \in Jtis : issued'[j] = issued[j] /\ LoginOf(j)' = LoginOf(j)
          /\ issued'[k] = e /\ issued'[k].dev = r.dev
        <3>1. /\ Jtis' = Jtis \cup {k} /\ k \notin Jtis /\ Logins' = Logins \cup {e.login}
              /\ \A j \in Jtis : issued'[j] = issued[j] /\ LoginOf(j)' = LoginOf(j)
              /\ issued'[k] = e
            BY <1>0, <2>1, <2>3, OneMore DEF TableTyped
        <3>2. e.login = m /\ e.dev = r.dev
            BY <2>2
        <3> QED
            BY <3>1, <3>2
    <2>5. LoginOf(k)' = m
        BY <2>2, <2>4 DEF LoginOf
    <2>6. PICK s \in Request : s = req'[p] /\ s.jti = k /\ s.login = m /\ s.dev = r.dev
        <3>1. PICK s : s = [r EXCEPT !.jti = k]
            OBVIOUS
        <3>2. s \in Request /\ s.jti = k /\ s.login = m /\ s.dev = r.dev
            BY <1>3, <2>1, <3>1, WithJti
        <3> QED
            BY <2>3, <3>1, <3>2
    <2>7. \A l \in Logins : RowsOf(l)' = IF l = m THEN RowsOf(l) \cup {k} ELSE RowsOf(l)
        <3>1. \A j \in rows : LoginOf(j)' = LoginOf(j)
            BY <1>0, <2>4
        <3> QED
            BY <2>3, <2>5, <3>1 DEF RowsOf
    <2>8. Local(m) /\ Logins' = Logins
        BY <2>3, <2>4, <2>7 DEF Local
    <2>9. Lines'
        <3>1. ASSUME NEW j \in Jtis PROVE issued'[LoginOf(j)'].dev = issued'[j].dev
            BY <1>0, <2>4 DEF Lines
        <3>2. issued'[LoginOf(k)'].dev = issued'[k].dev
            BY <1>0, <1>4, <2>4, <2>5
        <3>3. \A j \in Jtis' : issued'[LoginOf(j)'].dev = issued'[j].dev
            BY <2>4, <3>1, <3>2
        <3>4. \A j \in lapsed' : LoginOf(j)' \in excused'
            BY <1>0, <2>3, <2>4 DEF Lines, TableTyped
        <3> QED
            BY <3>3, <3>4 DEF Lines
    <2>10. m \notin excused' => RowsOf(m)' = {k}
        <3>1. m \notin excused => RowsOf(m) = {}
            BY <1>0, <1>1, <1>3, <1>4, <2>3 DEF Stands
        <3> QED
            BY <2>3, <2>7, <3>1
    <2>11. s.dev = issued'[m].dev
        BY <1>0, <1>4, <2>4, <2>6
    <2>12. Stands(p)'
        BY <2>3, <2>5, <2>6, <2>10, <2>11 DEF Stands, Early, Rotating
    <2>13. InFlight(m, Answering)'
        BY <2>3, <2>6 DEF InFlight, Answering
    <2>14. One(m)'
        BY <2>13 DEF One, InFlight, Answering, Rotating
    <2>15. req'[p].login = req[p].login
        BY <1>1, <1>3, <2>6
    <2> QED
        BY <1>1, <1>2, <1>3, <2>8, <2>9, <2>12, <2>14, <2>15, OneRowMoves
<1> QED
    BY <1>5, <1>6

\* A statement of a request that ends or saves sessions: it may delete or store rows, of
\* logins that are excused by then.
LEMMA OneRowByEnding ==
    ASSUME Typed, OneRow, [Next]_vars, NEW p \in Procs, Moves(p),
           \/ RevokeGet(p) \/ RevokeList(p) \/ RevokeBlacklist(p) \/ RevokeDelete(p)
           \/ KillRead(p) \/ KillBlacklist(p) \/ KillDelete(p)
           \/ LifetimeList(p) \/ LifetimeSave(p) \/ TouchFails(p)
    PROVE  OneRow'
<1>0. /\ TableTyped /\ Processes /\ Sound(p) /\ NoJti \notin Jtis /\ rows \subseteq Jtis
      /\ NoJti \notin Logins /\ \A j \in Jtis : LoginOf(j) \in Logins
      /\ pc = [q \in Procs |-> pc[q]] /\ req = [q \in Procs |-> req[q]] /\ Lines /\ Stands(p)
    BY TypedParts, LoginsTyped DEF Processes, Request, OneRow, TableTyped
<1>1. PICK r \in Request : r = req[p]
    BY <1>0, Typing
<1>2. PICK l : l = r.login
    OBVIOUS
<1>3. pc[p] \notin Answering /\ pc[p] # "idle" /\ UNCHANGED <<issued, cookie>>
    BY DEF RevokeGet, RevokeList, RevokeBlacklist, RevokeDelete, KillRead, KillBlacklist, KillDelete,
           LifetimeList, LifetimeSave, TouchFails, DeleteRows, table, client, Answering, Rotating
<1>4. /\ pc[p] = "get" /\ r.via = "http" => l = NoJti
      /\ pc[p] = "delete" => r.jti \in Jtis /\ LoginOf(r.jti) \in excused
      /\ l # NoJti /\ l \notin excused =>
            /\ pc[p] \in Knowing => RowsOf(l) = {r.jti}
            /\ pc[p] \in {"blacklist", "delete"} => \A j \in r.todo : LoginOf(j) # l
    BY <1>0, <1>1, <1>2 DEF Stands
<1>5. ASSUME Local(NoJti), Lines', Logins' = Logins, Stands(p)',
             pc'[p] = "idle" \/ req'[p].login = req[p].login
      PROVE  OneRow'
    BY <1>0, <1>3, <1>5, OneRowMoves
<1>6. ASSUME UNCHANGED <<rows, lapsed>>, excused \subseteq excused'
      PROVE  Local(NoJti) /\ Lines' /\ Logins' = Logins /\ \A i : RowsOf(i)' = RowsOf(i)
    BY <1>0, <1>3, <1>6, CalmLocal, LinesKept, SameIssued
<1>7. CASE RevokeGet(p)
    <2>1. UNCHANGED <<rows, lapsed, excused>> /\ pc[p] = "get"
        BY <1>7 DEF RevokeGet, table, history
    <2>2. \/ pc'[p] = "idle"
          \/ /\ pc'[p] = "blacklist" /\ req'[p] = r
             /\ r.todo \subseteq rows \ (IF r.via = "ws" THEN {r.jti} ELSE {})
        BY <1>0, <1>1, <1>7, FinishMoves, GotoMoves DEF RevokeGet
    <2>3. Stands(p)'
        <3>1. CASE pc'[p] = "idle"
            BY <3>1, StandsApart
        <3>2. CASE /\ pc'[p] = "blacklist" /\ req'[p] = r
                   /\ r.todo \subseteq rows \ (IF r.via = "ws" THEN {r.jti} ELSE {})
            <4>1. ASSUME l # NoJti, l \notin excused, NEW j \in r.todo PROVE LoginOf(j) # l
                <5>1. r.via = "ws"
                    BY <1>1, <1>4, <2>1, <4>1 DEF Request
                <5>2. RowsOf(l) = {r.jti} /\ j \in rows /\ j # r.jti
                    BY <1>4, <2>1, <3>2, <4>1, <5>1 DEF Knowing
                <5> QED
                    BY <5>2, RowsRead
            <4>2. \A j : LoginOf(j)' = LoginOf(j)
                BY <1>3, SameIssued
            <4> QED
                BY <1>2, <2>1, <3>2, <4>1, <4>2 DEF Stands, Early, Rotating, Answering, Knowing
        <3> QED
            BY <2>2, <3>1, <3>2
    <2> QED
        BY <1>1, <1>5, <1>6, <2>1, <2>2, <2>3
<1>8. CASE RevokeList(p)
    <2>1. UNCHANGED <<rows, lapsed, excused>> /\ pc[p] = "list"
        BY <1>8 DEF RevokeList, table, history
    <2>2. \/ pc'[p] = "idle"
          \/ pc'[p] = "blacklist" /\ req'[p] = [r EXCEPT !.todo = rows \ {r.jti}]
        BY <1>0, <1>1, <1>8 DEF RevokeList, Finish, GoWith
    <2>3. rows \ {r.jti} \in SUBSET Nat
        BY <1>0 DEF Jtis
    <2>4. PICK s : s = [r EXCEPT !.todo = rows \ {r.jti}]
        OBVIOUS
    <2>5. s.todo = rows \ {r.jti} /\ s.login = l
        BY <1>2, <2>3, <2>4, WithTodo
    <2>6. Stands(p)'
        <3>1. CASE pc'[p] = "idle"
            BY <3>1, StandsApart
        <3>2. CASE pc'[p] = "blacklist" /\ req'[p] = s
            <4>1. ASSUME l # NoJti, l \notin excused, NEW j \in s.todo PROVE LoginOf(j) # l
                BY <1>4, <2>1, <2>5, <4>1, RowsRead DEF Knowing
            <4>2. \A j : LoginOf(j)' = LoginOf(j)
                BY <1>3, SameIssued
            <4> QED
                BY <2>1, <2>5, <3>2, <4>1, <4>2 DEF Stands, Early, Rotating, Answering, Knowing
        <3> QED
            BY <2>2, <2>4, <3>1, <3>2
    <2> QED
        BY <1>1, <1>2, <1>5, <1>6, <2>1, <2>2, <2>4, <2>5, <2>6
<1>9. CASE RevokeBlacklist(p)
    <2>1. PICK j \in r.todo :
              /\ excused' = excused \cup ({LoginOf(j)} \ {l}) /\ UNCHANGED <<rows, lapsed>>
              /\ pc[p] = "blacklist" /\ pc'[p] = "delete" /\ req'[p] = [r EXCEPT !.jti = j]
        BY <1>0, <1>1, <1>2, <1>9 DEF RevokeBlacklist, GoWith, table
    <2>2. j \in Jtis /\ j \in Nat /\ LoginOf(j) # NoJti /\ r.todo \subseteq Jtis
        BY <1>0, <1>1, <2>1 DEF Sound, Jtis
    <2>3. PICK s : s = req'[p] /\ s.jti = j /\ s.login = l /\ s.todo = r.todo
        <3>1. PICK s : s = [r EXCEPT !.jti = j]
            OBVIOUS
        <3>2. s.jti = j /\ s.login = l /\ s.todo = r.todo
            BY <1>2, <2>2, <3>1, WithJti
        <3> QED
            BY <2>1, <3>1, <3>2
    <2>4. LoginOf(j) \in excused'
        BY <1>4, <2>1, <2>2
    <2>5. \A i : LoginOf(i)' = LoginOf(i)
        BY <1>3, SameIssued
    <2>6. l # NoJti /\ l \notin excused' => \A i \in s.todo : LoginOf(i)' # l
        BY <1>4, <2>1, <2>3, <2>5
    <2>7. Stands(p)'
        <3>1. j \in Jtis' /\ LoginOf(j)' \in excused'
            BY <1>3, <2>2, <2>4, <2>5, SameIssued
        <3> QED
            BY <2>1, <2>3, <2>6, <3>1 DEF Stands, Early, Rotating, Answering, Knowing
    <2> QED
        BY <1>1, <1>2, <1>5, <1>6, <2>1, <2>3, <2>7
<1>10. CASE RevokeDelete(p)
    <2>1. /\ DeleteRows({r.jti}) /\ UNCHANGED excused /\ pc[p] = "delete"
          /\ \/ pc'[p] = "idle"
             \/ pc'[p] = "blacklist" /\ req'[p] = [r EXCEPT !.todo = r.todo \ {r.jti}]
        BY <1>0, <1>1, <1>10 DEF RevokeDelete, Finish, GoWith
    <2>2. Local(NoJti) /\ Lines' /\ Logins' = Logins
        BY <1>3, <1>4, <2>1, DeleteLocal
    <2>3. r.todo \ {r.jti} \in SUBSET Nat
        BY <1>1 DEF Request
    <2>4. PICK s : s = [r EXCEPT !.todo = r.todo \ {r.jti}]
        OBVIOUS
    <2>5. s.todo = r.todo \ {r.jti} /\ s.login = l
        <3>1. PICK S \in SUBSET Nat : S = r.todo \ {r.jti}
            BY <2>3
        <3> QED
            BY <1>2, <2>4, <3>1, WithTodo
    <2>6. Stands(p)'
        <3>1. CASE pc'[p] = "idle"
            BY <3>1, StandsApart
        <3>2. CASE pc'[p] = "blacklist" /\ req'[p] = s
            <4>1. l # NoJti /\ l \notin excused' => \A i \in s.todo : LoginOf(i)' # l
                BY <1>3, <1>4, <2>1, <2>5, SameIssued
            <4> QED
                BY <2>5, <3>2, <4>1 DEF Stands, Early, Rotating, Answering, Knowing
        <3> QED
            BY <2>1, <2>4, <3>1, <3>2
    <2> QED
        BY <1>1, <1>2, <1>5, <2>1, <2>2, <2>4, <2>5, <2>6
<1>11. CASE KillRead(p)
    <2>1. /\ UNCHANGED <<rows, lapsed, excused>> /\ pc[p] = "kill_read" /\ pc'[p] = "kill_blacklist"
          /\ req'[p] = [r EXCEPT !.jti = IF r.jti \in rows THEN r.jti ELSE NoJti]
        BY <1>0, <1>1, <1>11 DEF KillRead, GoWith, table, history
    <2>2. PICK k \in Nat : k = IF r.jti \in rows THEN r.jti ELSE NoJti
        BY <1>1 DEF Request, NoJti
    <2>3. PICK s : s = req'[p] /\ s.jti = k /\ s.login = l
        <3>1. PICK s : s = [r EXCEPT !.jti = k]
            OBVIOUS
        <3>2. s.jti = k /\ s.login = l
            BY <1>2, <2>2, <3>1, WithJti
        <3> QED
            BY <2>1, <2>2, <3>1, <3>2
    <2>4. l # NoJti /\ l \notin excused => RowsOf(l) = {k}
        BY <1>4, <2>1, <2>2, RowsRead DEF Knowing
    <2>5. l # NoJti /\ l \notin excused' => RowsOf(l)' = {k}
        BY <1>6, <2>1, <2>4
    <2>6. Stands(p)'
        BY <2>1, <2>3, <2>5 DEF Stands, Early, Rotating, Answering, Knowing
    <2> QED
        BY <1>1, <1>2, <1>5, <1>6, <2>1, <2>3, <2>6
<1>12. CASE KillBlacklist(p)
    <2>1. /\ UNCHANGED <<rows, lapsed>> /\ excused \subseteq excused' /\ pc[p] = "kill_blacklist"
          /\ pc'[p] = "kill_delete" /\ req'[p] = r
        BY <1>0, <1>1, <1>12, GotoMoves DEF KillBlacklist, table
    <2>2. l # NoJti /\ l \notin excused' => RowsOf(l)' = {r.jti}
        BY <1>4, <1>6, <2>1 DEF Knowing
    <2>3. Stands(p)'
        BY <1>2, <2>1, <2>2 DEF Stands, Early, Rotating, Answering, Knowing
    <2> QED
        BY <1>1, <1>5, <1>6, <2>1, <2>3
<1>13. CASE KillDelete(p)
    <2>1. /\ rows' = rows \ (rows \ {r.jti}) /\ lapsed' \subseteq lapsed /\ pc[p] = "kill_delete"
          /\ excused' = excused \cup (LoginsOf(rows \ {r.jti}) \ {l}) /\ pc'[p] = "idle"
        BY <1>0, <1>1, <1>2, <1>13, FinishMoves DEF KillDelete, DeleteRows
    <2>2. ASSUME NEW i \in Logins \ excused' PROVE RowsOf(i)' = RowsOf(i)
        <3>1. ASSUME NEW j \in rows, j # r.jti PROVE LoginOf(j) # i
            <4>1. i # l => LoginOf(j) # i
                BY <2>1, <2>2, <3>1 DEF LoginsOf
            <4>2. i = l => LoginOf(j) # i
                BY <1>0, <1>4, <2>1, <2>2, <3>1, RowsRead DEF Knowing
            <4> QED
                BY <4>1, <4>2
        <3> QED
            BY <1>3, <2>1, <3>1, SameIssued DEF RowsOf
    <2>3. Local(NoJti)
        BY <1>3, <2>1, <2>2 DEF Local
    <2>4. Lines' /\ Logins' = Logins
        BY <1>0, <1>3, <2>1, SameIssued, LinesKept
    <2> QED
        BY <1>5, <2>1, <2>3, <2>4, StandsApart
<1>14. CASE LifetimeList(p) \/ TouchFails(p)
    <2>1. /\ UNCHANGED <<rows, lapsed, excused>>
          /\ \/ pc'[p] = "idle"
             \/ pc'[p] = "lifetime_save" /\ req'[p] = [r EXCEPT !.todo = rows]
        BY <1>0, <1>1, <1>14 DEF LifetimeList, TouchFails, Finish, GoWith, table, history
    <2>2. PICK s : s = [r EXCEPT !.todo = rows]
        OBVIOUS
    <2>3. s.login = l
        BY <1>1, <1>2, <2>2 DEF Request
    <2>4. Stands(p)'
        BY <2>1 DEF Stands, Early, Rotating, Answering, Knowing
    <2> QED
        BY <1>1, <1>2, <1>5, <1>6, <2>1, <2>2, <2>3, <2>4
<1>15. CASE LifetimeSave(p)
    <2>1. PICK j \in r.todo :
              /\ rows' = rows \cup {j} /\ lapsed' \subseteq lapsed
              /\ excused' = excused \cup {LoginOf(k) : k \in {j} \ rows}
              /\ \/ pc'[p] = "idle"
                 \/ pc'[p] = "lifetime_save" /\ req'[p] = [r EXCEPT !.todo = @ \ {j}]
        BY <1>0, <1>1, <1>15 DEF LifetimeSave, Finish, GoWith
    <2>2. \A i \in Logins \ excused' : RowsOf(i)' = RowsOf(i)
        BY <1>3, <2>1, SameIssued DEF RowsOf
    <2>3. Local(NoJti)
        BY <1>3, <2>1, <2>2 DEF Local
    <2>4. Lines' /\ Logins' = Logins
        BY <1>0, <1>3, <2>1, SameIssued, LinesKept
    <2>5. Stands(p)'
        BY <2>1 DEF Stands, Early, Rotating, Answering, Knowing
    <2>6. pc'[p] = "idle" \/ req'[p].login = req[p].login
        <3>1. PICK s : s = [r EXCEPT !.todo = @ \ {j}]
            OBVIOUS
        <3>2. s.login = r.login
            BY <3>1 DEF Request
        <3> QED
            BY <1>1, <2>1, <3>1, <3>2
    <2> QED
        BY <1>5, <2>3, <2>4, <2>5, <2>6
<1> QED
    BY <1>7, <1>8, <1>9, <1>10, <1>11, <1>12, <1>13, <1>14, <1>15

LEMMA OneRowStep == Typed /\ OneRow /\ [Next]_vars => OneRow'
<1> SUFFICES ASSUME Typed, OneRow, [Next]_vars PROVE OneRow'
    OBVIOUS
<1>0. /\ TableTyped /\ TableTyped' /\ Processes /\ Numbers /\ Numbers' /\ secrets <= secrets'
      /\ Jtis \subseteq Jtis' /\ Logins \subseteq Logins' /\ Lines
      /\ lapsed \subseteq rows /\ rows \subseteq Jtis
      /\ cookie \in [Devices -> Jtis \cup {NoJti}] /\ \A j \in Jtis : LoginOf(j) \in Logins
    BY TypedParts, TypedStep, TableStep, CodeStep, IssuedGrows, LoginsTyped
    DEF CodeTyped, TableTyped, OneRow
<1>1. ASSUME NEW p \in Procs, CodeNext(p) PROVE OneRow'
    BY <1>0, <1>1, SoundByCode, OneRowByCode
<1>2. ASSUME NEW p \in Procs, RequestNext(p), ~\E d \in Devices : Logout(p, d) PROVE OneRow'
    <2>1. Moves(p)
        BY <1>0, <1>2, SoundByRequest
    <2> QED
        BY <1>2, <2>1, OneRowByIssue, OneRowByRefresh, OneRowByBeginning, OneRowByEnding
        DEF RequestNext
<1>3. ASSUME NEW p \in Procs, NEW d \in Devices, Logout(p, d) PROVE OneRow'
    <2>1. PICK j : /\ j = cookie[d] /\ DeleteRows({j}) /\ excused' = excused \cup {LoginOf(j)}
                   /\ cookie' = cookie \/ cookie' = [cookie EXCEPT ![d] = NoJti]
                   /\ UNCHANGED <<pc, req>>
        BY <1>3 DEF Logout
    <2>2. UNCHANGED issued /\ rows' = rows \ {j} /\ lapsed' \subseteq lapsed
        BY <2>1 DEF DeleteRows
    <2>3. \A l \in Logins \ excused' : RowsOf(l)' = RowsOf(l)
        BY <2>1, <2>2, SameIssued DEF RowsOf
    <2>4. \A e \in Devices : cookie'[e] = cookie[e] \/ LoginOf(cookie[e]) \in excused'
        BY <1>0, <2>1
    <2>5. Local(NoJti)
        BY <2>1, <2>3, <2>4 DEF Local
    <2>6. Lines'
        BY <1>0, <2>1, <2>2, LinesKept
    <2> QED
        BY <2>1, <2>2, <2>5, <2>6, OneRowStays
\* What leaves the rows and the cookies alone.
<1>4. ASSUME UNCHANGED <<pc, req, issued, rows, cookie>>, excused \subseteq excused',
             \A j \in lapsed' : j \in lapsed \/ (j \in Jtis /\ LoginOf(j) \in excused')
      PROVE  OneRow'
    BY <1>0, <1>4, CalmLocal, LinesKept, OneRowStays
<1>5. ASSUME NEW d \in Devices,
             \/ PasskeyStart(d) \/ PasskeyRemove(d) \/ TotpStart(d)
             \/ ConnectByCookie(d) \/ ConnectByToken(d) \/ AuthUpgrade(d)
             \/ RefreshAccess(d) \/ MessageRefused(d) \/ Disconnect(d) \/ AccessExpires(d)
      PROVE  OneRow'
    <2>1. UNCHANGED <<pc, req, issued, rows, lapsed, cookie, excused>>
        BY <1>5 DEF PasskeyStart, PasskeyRemove, TotpStart, ConnectByCookie, ConnectByToken, AuthUpgrade,
            RefreshAccess, MessageRefused, Disconnect, AccessExpires, table, client, history, proc
    <2> QED
        BY <1>4, <2>1
<1>6. ASSUME NEW j \in Jtis, Lapse(j) \/ TokenExpires(j) \/ CleanBlacklist(j) PROVE OneRow'
    <2>1. /\ UNCHANGED <<pc, req, issued, rows, cookie>> /\ excused \subseteq excused'
          /\ lapsed' = lapsed \/ (lapsed' = lapsed \cup {j} /\ LoginOf(j) \in excused')
        BY <1>6 DEF Lapse, TokenExpires, CleanBlacklist, table, client, history
    <2> QED
        BY <1>4, <2>1
<1>7. CASE Flush
    <2>1. /\ UNCHANGED <<pc, req, issued, cookie, excused>> /\ rows' = rows \ lapsed /\ lapsed' = {}
        BY <1>7 DEF Flush, Live, client, history
    <2>2. \A l \in Logins \ excused' : RowsOf(l)' = RowsOf(l)
        BY <1>0, <2>1, SameIssued DEF RowsOf, Lines
    <2>3. Local(NoJti)
        BY <2>1, <2>2 DEF Local
    <2>4. Lines'
        BY <1>0, <2>1, LinesKept
    <2> QED
        BY <2>1, <2>3, <2>4, OneRowStays
<1>8. CASE EmailCodeExpires \/ UNCHANGED vars
    <2>1. UNCHANGED <<pc, req, issued, rows, lapsed, cookie, excused>>
        BY <1>8 DEF EmailCodeExpires, vars, sessionVars, table, client, history, proc
    <2> QED
        BY <1>4, <2>1
<1> QED
    BY <1>1, <1>2, <1>3, <1>5, <1>6, <1>7, <1>8 DEF Next, SessionNext

\* However often it is refreshed, and whatever is ended or saved meanwhile, a login that is
\* not excused has one session, whose token its device holds -- or a refresh of it is under
\* way; for any devices, processes and budgets (remember_session, refresh_token).
THEOREM LoginHasOneSession == Spec => []LoginKeepsOneSession
<1>1. Init => OneRow
    <2> SUFFICES ASSUME Init PROVE OneRow
        OBVIOUS
    <2>1. /\ issued = <<>> /\ lapsed = {} /\ Jtis = {} /\ Logins = {}
          /\ \A q \in Procs : pc[q] = "idle"
        BY DEF Init, SessionInit, Jtis, Logins
    <2> QED
        BY <2>1 DEF OneRow, LoginKeepsOneSession, Lines, Stands, Alone, Early, Rotating, Answering,
                    Attaching, Knowing
<1>2. OneRow => LoginKeepsOneSession
    BY DEF OneRow
<1> QED
    BY <1>1, <1>2, TypedInit, TypedStep, OneRowStep, PTL DEF Spec

=============================================================================
