-------------------------------- MODULE Sessions --------------------------------
(***************************************************************************)
(* The sessions of one account: refresh tokens, ActiveSession rows, and    *)
(* the WebSocket connections admitted under them.                          *)
(*                                                                         *)
(* A session is a refresh token, named by its jti, and a row with the same *)
(* jti.  A device keeps the token in a cookie; refreshing replaces token   *)
(* and row by new ones, in separate statements.  Sessions are ended from   *)
(* the list of sessions (over REST or a WebSocket), by logging out, or by  *)
(* the daily task that deletes the rows whose time is over.                *)
(*                                                                         *)
(* Every ORM call commits on its own, so a handler is a sequence of steps. *)
(* jtis are numbered as they are issued.  A binding hash is abstracted to  *)
(* the device it identifies.  Access tokens name no row: simplejwt makes a *)
(* new one at each use of refresh.access_token, so the jti and the binding *)
(* that get_access_token_for_session writes are not in the one it returns. *)
(*                                                                         *)
(* A definition whose name begins with Mut is the faulty form of the one   *)
(* after it: no specification uses it, it shows which property would fail. *)
(***************************************************************************)
EXTENDS Naturals, FiniteSets, Sequences

CONSTANTS
    Devices,  \* what a binding hash identifies
    Procs,    \* threads that serve requests (HTTP and WebSocket)
    Sorts,    \* sorts of requests and events, see Spend
    Budgets   \* bound: how many of each sort a behaviour may have

ASSUME DevicesAssumption == "none" \notin Devices
ASSUME BudgetsAssumption == Budgets \subseteq [Sorts -> Nat]

VARIABLES
    issued,   \* issued[j]: device, login and line (the tokens it replaced, and j)
    rows,     \* the jtis in the table of ActiveSession
    lapsed,   \* those of them whose expires_at has passed
    black,    \* the blacklisted tokens
    dead,     \* the tokens past their own exp
    cookie,   \* cookie[d]: the jti of d's refresh_token cookie, 0 for none
    access,   \* the devices that hold an unexpired access token
    conn,     \* conn[d]: d's WebSocket (up), auth_valid, access_jti, handshake cookie
    deferred, \* the devices whose login waits for a confirmation (DeviceLogin)
    ended,    \* jtis whose row was revoked or logged out while nothing held it
    excused,  \* logins that may have no session, or one their device lost
    pc,       \* pc[p]: the next statement of p's handler
    req,      \* req[p]: its local variables
    left      \* left[k]: how many more requests or events of sort k may begin

table == <<issued, rows, lapsed>>
tokens == <<black, dead>>
client == <<cookie, access>>
history == <<ended, excused>>
proc == <<pc, req, left>>
sessionVars == <<table, tokens, client, conn, deferred, history, proc>>

Jtis == 1..Len(issued)
Live == rows \ lapsed
LoginOf(j) == issued[j].login
Logins == {LoginOf(j) : j \in Jtis}
RowsOf(l) == {j \in rows : LoginOf(j) = l}
LoginsOf(S) == {LoginOf(j) : j \in S}
NoJti == 0

\* RefreshToken(token) raises for a token that is blacklisted or past its exp.
Accepted(j) == j \in Jtis \ (black \cup dead)

\* session_binding_matches_session: the row was made for this device.
Bound(j, d) == issued[j].dev = d

\* BearerJWTAuthentication: a live access token, and no cookie whose token is
\* accepted but whose row is gone (get_or_create then fails for want of expires_at).
Authenticated(d) ==
    /\ d \in access
    /\ Accepted(cookie[d]) => cookie[d] \in rows

-----------------------------------------------------------------------------
(* What the steps of the handlers are made of.                             *)

\* Device of the client, the session it acts as (then the one it made) and that
\* session's login, the sessions to end or to save, HTTP or WebSocket, and for the
\* logins of OneTimeCodes the one-time proof given and the fields of a row as read.
NoProof == <<"none", 0>>
NoRequest == [dev |-> "none", jti |-> NoJti, login |-> NoJti, todo |-> {},
              via |-> "http", proof |-> NoProof, seen |-> 0, enabled |-> FALSE]

Spend(k) == left[k] > 0 /\ left' = [left EXCEPT ![k] = @ - 1]

Begin(p, k, label, r) ==
    /\ pc[p] = "idle"
    /\ Spend(k)
    /\ pc' = [pc EXCEPT ![p] = label]
    /\ req' = [req EXCEPT ![p] = r]

GoWith(p, label, r) ==
    /\ pc' = [pc EXCEPT ![p] = label]
    /\ req' = [req EXCEPT ![p] = r]
    /\ UNCHANGED left

Goto(p, label) == GoWith(p, label, req[p])
Finish(p) == GoWith(p, "idle", NoRequest)

Rotating == {"refresh_delete", "refresh_insert"}
Answering == Rotating \cup {"attach", "attach_create", "answer"}

\* The sessions that requests in flight have read and will store again, under the
\* same jti or the next one, whatever has become of the row.
HeldBy(q) ==
    CASE pc[q] \in Rotating -> {req[q].jti}
      [] pc[q] = "lifetime_save" -> req[q].todo
      [] OTHER -> {}
Held == UNION {HeldBy(q) : q \in Procs}

\* A request of login l is in flight (and in one of the places A).
InFlight(l, A) == \E q \in Procs : pc[q] \in A /\ req[q].login = l
Busy(l) == \E q \in Procs : pc[q] # "idle" /\ req[q].login = l

\* A handler that ends sessions deletes the rows S.
DeleteRows(S) ==
    LET outlives(j) == \E k \in (rows \ S) \cup Held : j \in issued[k].line
    IN  /\ rows' = rows \ S
        /\ lapsed' = lapsed \ S
        /\ ended' = ended \cup {j \in S \cap rows : ~outlives(j)}
        /\ UNCHANGED issued

\* What the client of p's request acts as: session j of device d.
As(d, j) == [NoRequest EXCEPT !.dev = d, !.jti = j,
                              !.login = IF j \in Jtis THEN LoginOf(j) ELSE NoJti]

-----------------------------------------------------------------------------
(* Making and replacing a session.                                         *)

\* RefreshToken.for_user and ActiveSession.objects.create, for the next jti.
Store(d, login, line) ==
    LET k == Len(issued) + 1
    IN  /\ issued' = Append(issued, [dev |-> d, login |-> IF login = NoJti THEN k ELSE login,
                                     line |-> line \cup {k}])
        /\ rows' = rows \cup {k}
        /\ UNCHANGED lapsed

\* The end of every login: a token and its row.  Over HTTP, an account with TOTP
\* is then given backup codes if it has none (OneTimeCodes).
Issue(p) ==
    LET k == Len(issued) + 1
        codes == req[p].enabled /\ req[p].via = "http"
    IN  /\ pc[p] = "issue"
        /\ Store(req[p].dev, NoJti, {})
        /\ GoWith(p, IF codes THEN "attach" ELSE "answer",
                  [req[p] EXCEPT !.jti = k, !.login = k])
        /\ UNCHANGED <<tokens, client, conn, deferred, history>>

MutRefresh(p, d) ==
    LET j == cookie[d]
    IN  /\ Accepted(j)
        /\ Bound(j, d)
        /\ Begin(p, "refresh", "refresh_delete", As(d, j))
        /\ excused' = excused \cup {l \in {LoginOf(j)} : Busy(l)}
        /\ UNCHANGED <<table, tokens, client, conn, deferred, ended>>
\* POST refresh: the cookie's token is accepted and its row live.  The request has
\* company if another one of the same login is in flight.
Refresh(p, d) ==
    LET j == cookie[d]
    IN  /\ Accepted(j)
        /\ j \in Live /\ Bound(j, d)
        /\ Begin(p, "refresh", "refresh_delete", As(d, j))
        /\ excused' = excused \cup {l \in {LoginOf(j)} : Busy(l)}
        /\ UNCHANGED <<table, tokens, client, conn, deferred, ended>>

MutRefreshDelete(p) ==
    /\ pc[p] = "refresh_delete"
    /\ Goto(p, "refresh_insert")
    /\ UNCHANGED <<table, tokens, client, conn, deferred, history>>
\* remember_session: the row of the old jti goes, if it is still there ...
RefreshDelete(p) ==
    /\ pc[p] = "refresh_delete"
    /\ rows' = rows \ {req[p].jti}
    /\ lapsed' = lapsed \ {req[p].jti}
    /\ Goto(p, "refresh_insert")
    /\ UNCHANGED <<issued, tokens, client, conn, deferred, history>>

\* ... and a new row is made for the new token.
RefreshInsert(p) ==
    LET j == req[p].jti
    IN  /\ pc[p] = "refresh_insert"
        /\ Store(req[p].dev, LoginOf(j), issued[j].line)
        /\ GoWith(p, "answer", [req[p] EXCEPT !.jti = Len(issued) + 1])
        /\ UNCHANGED <<tokens, client, conn, deferred, history>>

\* The answer sets the cookie, unless it is lost.  A WebSocket login answers with
\* the tokens in the message, which sets no cookie, and enters the connection.
Answer(p) ==
    LET d == req[p].dev
        k == req[p].jti
        old == cookie[d]
    IN  /\ pc[p] = "answer"
        /\ \E arrives \in IF req[p].via = "http" THEN BOOLEAN ELSE {FALSE} :
              /\ cookie' = IF arrives THEN [cookie EXCEPT ![d] = k] ELSE cookie
              /\ excused' = excused \cup
                    (IF ~arrives THEN {req[p].login}
                     ELSE IF old \in Jtis THEN {LoginOf(old)} \ {req[p].login} ELSE {})
              /\ access' = IF arrives \/ req[p].via = "ws" THEN access \cup {d} ELSE access
        /\ conn' = IF req[p].via = "ws" /\ conn[d].up
                   THEN [conn EXCEPT ![d].auth = TRUE, ![d].jti = k] ELSE conn
        /\ Finish(p)
        /\ UNCHANGED <<table, tokens, deferred, ended>>

-----------------------------------------------------------------------------
(* The WebSocket.                                                          *)

NoConnection == [up |-> FALSE, auth |-> FALSE, jti |-> NoJti, hand |-> NoJti]
ClosedBy(d) == conn' = [conn EXCEPT ![d] = NoConnection]
Quiet(d) == ~\E q \in Procs : pc[q] # "idle" /\ req[q].via = "ws" /\ req[q].dev = d

\* Handshake with the cookie alone: the session of the cookie, if its row is live;
\* its answer carries an access token.  Otherwise the connection is anonymous.
ConnectByCookie(d) ==
    LET j == cookie[d]
        known == Accepted(j) /\ j \in Live /\ Bound(j, d)
    IN  /\ ~conn[d].up
        /\ Spend("connect")
        /\ conn' = [conn EXCEPT ![d] = [up |-> TRUE, auth |-> known, hand |-> j,
                                        jti |-> IF known THEN j ELSE NoJti]]
        /\ access' = IF known THEN access \cup {d} ELSE access
        /\ UNCHANGED <<table, tokens, cookie, deferred, history, pc, req>>

\* Handshake with an access token, whose jti names no row: the connection joins
\* the user's group, and is closed at its first message.
ConnectByToken(d) ==
    /\ ~conn[d].up
    /\ d \in access
    /\ Spend("connect")
    /\ conn' = [conn EXCEPT ![d] = [up |-> TRUE, auth |-> TRUE, hand |-> cookie[d],
                                    jti |-> NoJti]]
    /\ UNCHANGED <<table, tokens, client, deferred, history, pc, req>>

\* Message "auth": the connection is bound to the account's newest live session,
\* of whatever device (any of them here: a row saved anew by a change of lifetime
\* has a new created_at), and closed if there is none or the token is no good.
AuthUpgrade(d) ==
    /\ conn[d].up /\ Quiet(d)
    /\ Spend("connect")
    /\ IF d \in access /\ Live # {}
       THEN \E j \in Live : conn' = [conn EXCEPT ![d].auth = TRUE, ![d].jti = j]
       ELSE ClosedBy(d)
    /\ UNCHANGED <<table, tokens, client, deferred, history, pc, req>>

\* Message "refresh_token", which is handled without looking at access_jti: a new
\* access token if the session of the handshake's cookie is still there.
RefreshAccess(d) ==
    LET j == conn[d].hand
    IN  /\ conn[d].up /\ conn[d].auth /\ Quiet(d)
        /\ Accepted(j) /\ j \in Live /\ Bound(j, d)
        /\ Spend("connect")
        /\ access' = access \cup {d}
        /\ UNCHANGED <<table, tokens, cookie, conn, deferred, history, pc, req>>

\* Any other message needs the row of access_jti, unexpired ...
Admitted(d) == conn[d].up /\ conn[d].auth /\ conn[d].jti \in Live /\ Quiet(d)

\* ... or ends the connection.
MessageRefused(d) ==
    /\ conn[d].up /\ conn[d].auth /\ conn[d].jti \notin Live /\ Quiet(d)
    /\ ClosedBy(d)
    /\ UNCHANGED <<table, tokens, client, deferred, history, proc>>

\* touch_session saves last_active of a row it has just read; the exception, if
\* the row went in between, is not caught and ends the connection.
TouchFails(p) ==
    /\ pc[p] \in {"get", "list", "lifetime"} /\ req[p].via = "ws"
    /\ req[p].jti \notin rows
    /\ ClosedBy(req[p].dev)
    /\ Finish(p)
    /\ UNCHANGED <<table, tokens, client, deferred, history>>

Disconnect(d) ==
    /\ conn[d].up
    /\ ClosedBy(d)
    /\ UNCHANGED <<table, tokens, client, deferred, history, proc>>

-----------------------------------------------------------------------------
(* Ending sessions, and changing their lifetime.                           *)

\* A request that ends or saves sessions begins; it has company if a refresh or a
\* login of its own session is in flight.
BeginAs(p, k, label, r) ==
    /\ Begin(p, k, label, r)
    /\ excused' = excused \cup {l \in {r.login} \ {NoJti} : Busy(l)}
    /\ UNCHANGED <<table, tokens, client, conn, deferred, ended>>

\* Message revoke_session, or DELETE on one session over REST.
RevokeWs(p, d, j) ==
    /\ Admitted(d)
    /\ BeginAs(p, "end", "get", [As(d, conn[d].jti) EXCEPT !.todo = {j}, !.via = "ws"])
RevokeRest(p, d, j) ==
    /\ Authenticated(d)
    /\ BeginAs(p, "end", "get", [As(d, NoJti) EXCEPT !.todo = {j}])

\* The row is read; over the WebSocket the current session is not to be revoked.
RevokeGet(p) ==
    /\ pc[p] = "get"
    /\ LET current == IF req[p].via = "ws" THEN {req[p].jti} ELSE {}
       IN  IF req[p].todo \subseteq rows \ current THEN Goto(p, "blacklist") ELSE Finish(p)
    /\ UNCHANGED <<table, tokens, client, conn, deferred, history>>

\* Message revoke_other_sessions: all rows but the current one are listed.
RevokeOthersWs(p, d) ==
    /\ Admitted(d)
    /\ BeginAs(p, "end", "list", [As(d, conn[d].jti) EXCEPT !.via = "ws"])

RevokeList(p) ==
    /\ pc[p] = "list"
    /\ LET others == rows \ {req[p].jti}
       IN  IF others = {} THEN Finish(p)
           ELSE GoWith(p, "blacklist", [req[p] EXCEPT !.todo = others])
    /\ UNCHANGED <<table, tokens, client, conn, deferred, history>>

\* One listed session after the other: its token is blacklisted (unless it is past
\* its exp, which raises and is ignored), ...
RevokeBlacklist(p) ==
    /\ pc[p] = "blacklist"
    /\ \E j \in req[p].todo :
          /\ black' = black \cup ({j} \ dead)
          /\ excused' = excused \cup ({LoginOf(j)} \ {req[p].login})
          /\ GoWith(p, "delete", [req[p] EXCEPT !.jti = j])
    /\ UNCHANGED <<table, dead, client, conn, deferred, ended>>

\* ... and the row deleted.
RevokeDelete(p) ==
    LET more == req[p].todo \ {req[p].jti}
    IN  /\ pc[p] = "delete"
        /\ DeleteRows({req[p].jti})
        /\ IF more = {} THEN Finish(p)
           ELSE GoWith(p, "blacklist", [req[p] EXCEPT !.todo = more])
        /\ UNCHANGED <<tokens, client, conn, deferred, excused>>

\* DELETE on the other sessions over REST: the current one is looked up by the
\* cookie's token (every session is "other" if it is not found); the others are
\* listed and blacklisted ...
KillOthers(p, d) ==
    /\ Authenticated(d)
    /\ Accepted(cookie[d])
    /\ BeginAs(p, "end", "kill_read", As(d, cookie[d]))

KillRead(p) ==
    LET j == req[p].jti
    IN  /\ pc[p] = "kill_read"
        /\ GoWith(p, "kill_blacklist", [req[p] EXCEPT !.jti = IF j \in rows THEN j ELSE NoJti])
        /\ UNCHANGED <<table, tokens, client, conn, deferred, history>>

KillBlacklist(p) ==
    LET others == rows \ {req[p].jti}
    IN  /\ pc[p] = "kill_blacklist"
        /\ black' = black \cup (others \ dead)
        /\ excused' = excused \cup (LoginsOf(others) \ {req[p].login})
        /\ Goto(p, "kill_delete")
        /\ UNCHANGED <<table, dead, client, conn, deferred, ended>>

\* ... and the rows that are "other" by then are deleted in one query.
KillDelete(p) ==
    LET others == rows \ {req[p].jti}
    IN  /\ pc[p] = "kill_delete"
        /\ DeleteRows(others)
        /\ excused' = excused \cup (LoginsOf(others) \ {req[p].login})
        /\ Finish(p)
        /\ UNCHANGED <<tokens, client, conn, deferred>>

\* POST logout: the row of the cookie's session is deleted, its token is not
\* blacklisted; the answer clears the cookie, unless it is lost.  A token that is
\* refused makes the handler raise instead.
Logout(p, d) ==
    LET j == cookie[d]
    IN  /\ pc[p] = "idle"
        /\ Authenticated(d) /\ Accepted(j)
        /\ Spend("end")
        /\ DeleteRows({j})
        /\ \E arrives \in BOOLEAN :
              cookie' = IF arrives THEN [cookie EXCEPT ![d] = NoJti] ELSE cookie
        /\ excused' = excused \cup {LoginOf(j)}
        /\ UNCHANGED <<tokens, access, conn, deferred, pc, req>>

\* Message set_session_lifetime: every row is read, given a new expires_at and saved
\* whole, one after the other.  save() updates the row, or inserts it if it is gone.
Lifetime(p, d) ==
    /\ Admitted(d)
    /\ BeginAs(p, "lifetime", "lifetime", [As(d, conn[d].jti) EXCEPT !.via = "ws"])

LifetimeList(p) ==
    /\ pc[p] = "lifetime"
    /\ IF rows = {} THEN Finish(p)
       ELSE GoWith(p, "lifetime_save", [req[p] EXCEPT !.todo = rows])
    /\ UNCHANGED <<table, tokens, client, conn, deferred, history>>

LifetimeSave(p) ==
    /\ pc[p] = "lifetime_save"
    /\ \E j \in req[p].todo :
          /\ rows' = rows \cup {j}
          /\ lapsed' = lapsed \ {j}
          /\ excused' = excused \cup {LoginOf(k) : k \in {j} \ rows}
          /\ IF req[p].todo = {j} THEN Finish(p)
             ELSE GoWith(p, "lifetime_save", [req[p] EXCEPT !.todo = @ \ {j}])
    /\ UNCHANGED <<issued, tokens, client, conn, deferred, ended>>

-----------------------------------------------------------------------------
(* Time, and the daily tasks.                                              *)

Lapse(j) ==
    /\ j \in Live
    /\ Spend("clock")
    /\ lapsed' = lapsed \cup {j}
    /\ excused' = excused \cup {LoginOf(j)}
    /\ UNCHANGED <<issued, rows, tokens, client, conn, deferred, ended, pc, req>>

TokenExpires(j) ==
    /\ j \notin dead
    /\ Spend("clock")
    /\ dead' = dead \cup {j}
    /\ excused' = excused \cup {LoginOf(j)}
    /\ UNCHANGED <<table, black, client, conn, deferred, ended, pc, req>>

AccessExpires(d) ==
    /\ d \in access
    /\ Spend("clock")
    /\ access' = access \ {d}
    /\ UNCHANGED <<table, tokens, cookie, conn, deferred, history, pc, req>>

\* flush_expired_tokens_daily.
Flush ==
    /\ lapsed # {}
    /\ Spend("clock")
    /\ rows' = Live
    /\ lapsed' = {}
    /\ UNCHANGED <<issued, tokens, client, conn, deferred, history, pc, req>>

\* cleanup_expired_blacklisted_tokens goes by the expiry recorded when the token was
\* made, the default week: a token given a longer exp afterwards outlives its entry.
CleanBlacklist(j) ==
    /\ j \in black
    /\ Spend("clock")
    /\ black' = black \ {j}
    /\ UNCHANGED <<table, dead, client, conn, deferred, history, pc, req>>

\* The process dies (or the database fails) in the middle of a request.
Crash(p) ==
    /\ pc[p] # "idle"
    /\ left["crash"] > 0 /\ left' = [left EXCEPT !["crash"] = @ - 1]
    /\ excused' = IF pc[p] \in Answering \ {"refresh_delete"}
                  THEN excused \cup ({req[p].login} \ {NoJti}) ELSE excused
    /\ pc' = [pc EXCEPT ![p] = "idle"]
    /\ req' = [req EXCEPT ![p] = NoRequest]
    /\ UNCHANGED <<table, tokens, client, conn, deferred, ended>>

-----------------------------------------------------------------------------
SessionInit ==
    /\ issued = <<>> /\ rows = {} /\ lapsed = {}
    /\ black = {} /\ dead = {}
    /\ cookie = [d \in Devices |-> NoJti]
    /\ access = {} /\ deferred = {}
    /\ conn = [d \in Devices |-> NoConnection]
    /\ ended = {} /\ excused = {}
    /\ pc = [p \in Procs |-> "idle"]
    /\ req = [p \in Procs |-> NoRequest]
    /\ left \in Budgets

\* Every request but the answers, which OneTimeCodes completes.
RequestNext(p) ==
    \/ Issue(p)
    \/ \E d \in Devices :
          \/ Refresh(p, d) \/ KillOthers(p, d) \/ Logout(p, d)
          \/ RevokeOthersWs(p, d) \/ Lifetime(p, d)
          \/ \E j \in Jtis : RevokeWs(p, d, j) \/ RevokeRest(p, d, j)
    \/ RefreshDelete(p) \/ RefreshInsert(p)
    \/ RevokeGet(p) \/ RevokeList(p) \/ RevokeBlacklist(p) \/ RevokeDelete(p)
    \/ KillRead(p) \/ KillBlacklist(p) \/ KillDelete(p)
    \/ LifetimeList(p) \/ LifetimeSave(p)
    \/ TouchFails(p)

SessionNext ==
    \/ \E p \in Procs : RequestNext(p)
    \/ \E d \in Devices :
          \/ ConnectByCookie(d) \/ ConnectByToken(d) \/ AuthUpgrade(d)
          \/ RefreshAccess(d) \/ MessageRefused(d) \/ Disconnect(d)
          \/ AccessExpires(d)
    \/ \E j \in Jtis : Lapse(j) \/ TokenExpires(j) \/ CleanBlacklist(j)
    \/ Flush

-----------------------------------------------------------------------------
(* What the sessions promise.                                              *)

SessionTypeOK ==
    /\ \A j \in Jtis : issued[j] \in [dev : Devices, login : Jtis, line : SUBSET Jtis]
    /\ rows \subseteq Jtis /\ lapsed \subseteq rows
    /\ black \subseteq Jtis /\ dead \subseteq Jtis
    /\ cookie \in [Devices -> Jtis \cup {NoJti}]
    /\ access \subseteq Devices /\ deferred \subseteq Devices
    /\ conn \in [Devices -> [up : BOOLEAN, auth : BOOLEAN, jti : Jtis \cup {NoJti},
                             hand : Jtis \cup {NoJti}]]
    /\ ended \subseteq Jtis /\ excused \subseteq Logins
    /\ \A p \in Procs : req[p].jti \in Jtis \cup {NoJti} /\ req[p].todo \subseteq Jtis
    /\ left \in [Sorts -> Nat]

\* A session that was revoked or logged out stays down: neither its row nor a row
\* of a token that was made from it is ever there again, whatever the device still
\* holds and whatever the clock does to the blacklist -- unless, when the row was
\* deleted, a refresh or a change of lifetime had read it, or the session had been
\* refreshed already (services/sessions.py, refresh_token, logout).
RevokedStaysDown ==
    \A j \in ended : \A k \in rows : j \notin issued[k].line

\* However often it is refreshed, a login has one session and its device holds
\* that one's token.  Excused are the logins whose time is over, that were ended
\* from elsewhere or logged out, that were cut off or lost an answer, that another
\* login of the device took the place of, that came over the WebSocket, and those
\* that refreshed while another of their requests, or a change of lifetime that had
\* listed the replaced session, was under way.
LoginKeepsOneSession ==
    \A l \in Logins \ excused :
        InFlight(l, Answering) \/ RowsOf(l) = {cookie[issued[l].dev]}
=============================================================================
