------------------------------ MODULE OneTimeCodes ------------------------------
(***************************************************************************)
(* How an account proves who it is before a session is made: the code      *)
(* mailed at signup, TOTP and the backup codes that stand in for it, and   *)
(* passkeys, with the sessions (Sessions) they lead to.                    *)
(*                                                                         *)
(* The account has one e-mail code: only signup makes one.  A TOTP secret  *)
(* is a number, a new one at each setup, and the user's authenticator has  *)
(* every secret it was shown.  One backup code stands for a batch.  Every  *)
(* authenticator's counter stays 0, as a synced passkey's does, so the     *)
(* counter that a login saves rules nothing out.                           *)
(***************************************************************************)
EXTENDS Sessions

CONSTANT MaxAttempts  \* EMAIL_VERIFICATION_OTP_MAX_ATTEMPTS

ASSUME MaxAttemptsAssumption == MaxAttempts \in Nat

VARIABLES
    email,      \* the EmailVerificationOtp row: consumed, attempts, late (expired)
    verified,   \* email_verified_at is set
    totp,       \* totp_enabled, and the secret in totp_secret_cipher (0 for none)
    secrets,    \* how many secrets were made
    confirmed,  \* the secrets that totp_setup_confirm verified a code of
    raced,      \* a secret was replaced or removed while a confirmation had read it
    codes,      \* the rows of AccountBackupCode
    used,       \* the codes with used_at
    minted,     \* how many batches of backup codes were made
    challenge,  \* challenge[d]: passkey_challenge in d's Django session, 0 for none
    asked,      \* how many challenges were made
    passkeys,   \* the devices with a registered passkey
    spent,      \* the proofs accepted so far
    again,      \* those accepted more than once
    together    \* those two requests held at once, or whose request was cut off

emailVars == <<email, verified>>
totpVars == <<totp, secrets, confirmed, raced>>
codeVars == <<codes, used, minted>>
keyVars == <<challenge, asked, passkeys>>
proofVars == <<spent, again, together>>
oneTimeVars == <<emailVars, totpVars, codeVars, keyVars, proofVars>>
vars == <<sessionVars, oneTimeVars>>

EmailCode == <<"email", 1>>
BackupCode(c) == <<"backup", c>>
Challenge(n) == <<"challenge", n>>

\* A handler has accepted the proof x.
Accept(x) == spent' = spent \cup {x} /\ again' = again \cup ({x} \cap spent)
Holding(x) == \E q \in Procs : pc[q] # "idle" /\ req[q].proof = x

\* The start of a request that changes no session.
BeginHere(p, k, label, r) ==
    /\ Begin(p, k, label, r)
    /\ UNCHANGED <<table, tokens, client, conn, deferred, history>>
StepHere == UNCHANGED <<table, tokens, client, conn, deferred, history>>

-----------------------------------------------------------------------------
(* The e-mail code of a new account.                                       *)

MutVerifyRead(p, d, right) ==
    /\ ~email.consumed /\ ~email.late /\ ~verified
    /\ BeginHere(p, "code", IF right THEN "verify_right" ELSE "verify_wrong",
                 [NoRequest EXCEPT !.dev = d, !.proof = EmailCode, !.enabled = totp.enabled,
                                   !.seen = IF right THEN totp.secret ELSE email.attempts])
    /\ together' = together \cup {x \in {EmailCode} : Holding(x)}
    /\ UNCHANGED <<emailVars, totpVars, codeVars, keyVars, spent, again>>
\* verify_email_otp: the row and the user are read, without a lock.
VerifyRead(p, d, right) ==
    /\ ~email.consumed /\ ~email.late /\ ~verified
    /\ email.attempts < MaxAttempts
    /\ BeginHere(p, "code", IF right THEN "verify_right" ELSE "verify_wrong",
                 [NoRequest EXCEPT !.dev = d, !.proof = EmailCode, !.enabled = totp.enabled,
                                   !.seen = IF right THEN totp.secret ELSE email.attempts])
    /\ together' = together \cup {x \in {EmailCode} : Holding(x)}
    /\ UNCHANGED <<emailVars, totpVars, codeVars, keyVars, spent, again>>

\* A wrong code adds one to the attempts as they were read.
VerifyWrong(p) ==
    /\ pc[p] = "verify_wrong"
    /\ email' = [email EXCEPT !.attempts = req[p].seen + 1]
    /\ Finish(p) /\ StepHere
    /\ UNCHANGED <<verified, totpVars, codeVars, keyVars, proofVars>>

\* The right one is consumed; then the account is verified, and logged in, with no
\* device gate on the way: with TOTP if the user as read has it.
VerifyConsume(p) ==
    /\ pc[p] = "verify_right"
    /\ email' = [email EXCEPT !.consumed = TRUE]
    /\ Accept(EmailCode)
    /\ Goto(p, "verify_save") /\ StepHere
    /\ UNCHANGED <<verified, totpVars, codeVars, keyVars, together>>

VerifySave(p) ==
    /\ pc[p] = "verify_save"
    /\ verified' = TRUE
    /\ GoWith(p, IF req[p].enabled THEN "factor" ELSE "issue", req[p])
    /\ StepHere
    /\ UNCHANGED <<email, totpVars, codeVars, keyVars, proofVars>>

EmailCodeExpires ==
    /\ ~email.late
    /\ Spend("clock")
    /\ email' = [email EXCEPT !.late = TRUE]
    /\ UNCHANGED <<table, tokens, client, conn, deferred, history, pc, req>>
    /\ UNCHANGED <<verified, totpVars, codeVars, keyVars, proofVars>>

-----------------------------------------------------------------------------
(* Logging in: a first factor, TOTP or a backup code, the device gate.     *)

\* Password, over HTTP or an anonymous WebSocket: the user is read.
Login(p, d, via) ==
    /\ verified
    /\ via = "ws" => conn[d].up /\ ~conn[d].auth /\ Quiet(d)
    /\ BeginHere(p, "login", "factor",
                 [NoRequest EXCEPT !.dev = d, !.via = via, !.seen = totp.secret,
                                   !.enabled = totp.enabled])
    /\ UNCHANGED oneTimeVars

\* Google (external) vouches for the address, which verifies the account.
GoogleLogin(p, d) ==
    /\ BeginHere(p, "login", "factor",
                 [NoRequest EXCEPT !.dev = d, !.seen = totp.secret, !.enabled = totp.enabled])
    /\ verified' = TRUE
    /\ UNCHANGED <<email, totpVars, codeVars, keyVars, proofVars>>

\* What comes after the first factors: the code mailed at signup logs in at once.
Passed(p) == IF req[p].proof = EmailCode THEN "issue" ELSE "gate"

\* _totp_http_gate, and its copy in _do_login: nothing to prove ...
FactorNone(p) ==
    /\ pc[p] = "factor"
    /\ ~req[p].enabled
    /\ Goto(p, Passed(p)) /\ StepHere
    /\ UNCHANGED oneTimeVars

\* ... or a code of the secret as read ...
FactorTotp(p) ==
    /\ pc[p] = "factor"
    /\ req[p].enabled /\ req[p].seen # 0
    /\ Goto(p, Passed(p)) /\ StepHere
    /\ UNCHANGED oneTimeVars

MutConsume(p, c, label) ==
    /\ c \in codes
    /\ used' = used \cup {c}
    /\ Accept(BackupCode(c))
    /\ Goto(p, label) /\ StepHere
    /\ UNCHANGED <<emailVars, totpVars, codes, minted, keyVars, together>>
\* ... or a backup code, locked and marked in one transaction ...
Consume(p, c, label) ==
    /\ c \in codes \ used
    /\ used' = used \cup {c}
    /\ Accept(BackupCode(c))
    /\ Goto(p, label) /\ StepHere
    /\ UNCHANGED <<emailVars, totpVars, codes, minted, keyVars, together>>

FactorBackup(p) ==
    /\ pc[p] = "factor"
    /\ req[p].enabled
    /\ \E c \in 1..minted : Consume(p, c, Passed(p))

\* ... or an answer that refuses.
FactorRefused(p) ==
    /\ pc[p] = "factor"
    /\ req[p].enabled
    /\ Finish(p) /\ StepHere
    /\ UNCHANGED oneTimeVars

\* A device with a live session is let in.  Any other is made to wait for a
\* confirmation: by a code shown to the devices with a session or, if there is none,
\* mailed to the user (deferred_login_payload).
Gate(p) ==
    LET d == req[p].dev
        known == \E j \in Live : Bound(j, d)
    IN  /\ pc[p] = "gate"
        /\ IF known THEN Goto(p, "issue") ELSE Finish(p)
        /\ deferred' = IF known THEN deferred ELSE deferred \cup {d}
        /\ UNCHANGED <<table, tokens, client, conn, history, oneTimeVars>>

\* The device polls after its login was confirmed (DeviceLogin): a session.
Confirmed(p, d) ==
    /\ d \in deferred
    /\ Begin(p, "login", "issue", [NoRequest EXCEPT !.dev = d, !.enabled = totp.enabled])
    /\ deferred' = deferred \ {d}
    /\ UNCHANGED <<table, tokens, client, conn, history, oneTimeVars>>

\* _attach_initial_backup_codes_if_issued, after a login or a confirmed setup: no
\* rows are seen, and then rows are made.
Attached(p) == IF req[p].jti = NoJti THEN Finish(p) ELSE Goto(p, "answer")

Attach(p) ==
    /\ pc[p] = "attach"
    /\ IF codes = {} THEN Goto(p, "attach_create") ELSE Attached(p)
    /\ StepHere
    /\ UNCHANGED oneTimeVars

AttachCreate(p) ==
    /\ pc[p] = "attach_create"
    /\ codes' = codes \cup {minted + 1}
    /\ minted' = minted + 1
    /\ Attached(p) /\ StepHere
    /\ UNCHANGED <<used, emailVars, totpVars, keyVars, proofVars>>

-----------------------------------------------------------------------------
(* Passkeys: a challenge in the Django session, signed by the device.      *)

\* passkey_register_start, passkey_auth_start: a new challenge, saved in the session.
PasskeyStart(d) ==
    /\ Spend("passkey")
    /\ challenge' = [challenge EXCEPT ![d] = asked + 1]
    /\ asked' = asked + 1
    /\ UNCHANGED <<table, tokens, client, conn, deferred, history, pc, req>>
    /\ UNCHANGED <<emailVars, totpVars, codeVars, passkeys, proofVars>>

\* The session is read and the signature verified against its challenge: by a passkey
\* of the account, or by a new one, which is then stored.  An account that is not
\* verified is refused: a login loses its challenge then.
PasskeyFinish(p, d, new) ==
    LET x == Challenge(challenge[d])
    IN  /\ challenge[d] # 0
        /\ verified
        /\ new \/ d \in passkeys
        /\ BeginHere(p, "passkey", "issue",
                     [NoRequest EXCEPT !.dev = d, !.proof = x, !.enabled = totp.enabled])
        /\ passkeys' = passkeys \cup {d}
        /\ Accept(x)
        /\ together' = together \cup {y \in {x} : Holding(y)}
        /\ UNCHANGED <<emailVars, totpVars, codeVars, challenge, asked>>

PasskeyRemove(d) ==
    /\ Authenticated(d)
    /\ d \in passkeys
    /\ Spend("passkey")
    /\ passkeys' = passkeys \ {d}
    /\ UNCHANGED <<table, tokens, client, conn, deferred, history, pc, req>>
    /\ UNCHANGED <<emailVars, totpVars, codeVars, challenge, asked, proofVars>>

\* The end of a login: the Django session is saved without the challenge that was in
\* it when the request began, over a newer one if there is one; then the answer.
AnswerLogin(p) ==
    /\ Answer(p)
    /\ challenge' = IF req[p].proof[1] = "challenge"
                    THEN [challenge EXCEPT ![req[p].dev] = 0] ELSE challenge
    /\ UNCHANGED <<emailVars, totpVars, codeVars, asked, passkeys, proofVars>>

-----------------------------------------------------------------------------
(* Setting TOTP up and turning it off.                                     *)

\* A request saves the columns of TOTP.  The history takes note when a confirmation
\* has read the secret this one writes over.
SaveTotp(new) ==
    /\ totp' = new
    /\ raced' = (raced \/ \E q \in Procs : pc[q] = "confirm")

MutTotpStart(d) ==
    /\ Authenticated(d)
    /\ Spend("totp")
    /\ SaveTotp([totp EXCEPT !.secret = secrets + 1])
    /\ secrets' = secrets + 1
    /\ UNCHANGED <<table, tokens, client, conn, deferred, history, pc, req>>
    /\ UNCHANGED <<emailVars, confirmed, codeVars, keyVars, proofVars>>
\* totp_setup_start: a new secret, which is not in force until it is confirmed.
TotpStart(d) ==
    /\ Authenticated(d)
    /\ Spend("totp")
    /\ SaveTotp([enabled |-> FALSE, secret |-> secrets + 1])
    /\ secrets' = secrets + 1
    /\ UNCHANGED <<table, tokens, client, conn, deferred, history, pc, req>>
    /\ UNCHANGED <<emailVars, confirmed, codeVars, keyVars, proofVars>>

\* totp_setup_confirm: a code of the secret, as authentication read it, is right; ...
TotpConfirm(p, d) ==
    /\ Authenticated(d)
    /\ ~totp.enabled /\ totp.secret # 0
    /\ BeginHere(p, "totp", "confirm",
                 [NoRequest EXCEPT !.dev = d, !.seen = totp.secret, !.enabled = TRUE])
    /\ UNCHANGED oneTimeVars

\* ... totp_enabled alone is saved, and backup codes made if there are none.
TotpConfirmSave(p) ==
    /\ pc[p] = "confirm"
    /\ totp' = [totp EXCEPT !.enabled = TRUE]
    /\ confirmed' = confirmed \cup {req[p].seen}
    /\ Goto(p, "attach") /\ StepHere
    /\ UNCHANGED <<secrets, raced, emailVars, codeVars, keyVars, proofVars>>

\* totp_disable: the password, and a code of the secret as read or a backup code; ...
TotpDisable(p, d) ==
    /\ Authenticated(d)
    /\ totp.enabled /\ totp.secret # 0
    /\ BeginHere(p, "totp", "disable", [NoRequest EXCEPT !.dev = d, !.seen = totp.secret])
    /\ UNCHANGED oneTimeVars

DisableTotp(p) ==
    /\ pc[p] = "disable"
    /\ Goto(p, "disable_save") /\ StepHere
    /\ UNCHANGED oneTimeVars

DisableBackup(p) ==
    /\ pc[p] = "disable"
    /\ \E c \in 1..minted : Consume(p, c, "disable_save")

\* ... TOTP is off, ...
DisableSave(p) ==
    /\ pc[p] = "disable_save"
    /\ SaveTotp([enabled |-> FALSE, secret |-> 0])
    /\ Goto(p, "disable_codes") /\ StepHere
    /\ UNCHANGED <<secrets, confirmed, emailVars, codeVars, keyVars, proofVars>>

\* ... and the backup codes are deleted.
DisableCodes(p) ==
    /\ pc[p] = "disable_codes"
    /\ codes' = {}
    /\ Finish(p) /\ StepHere
    /\ UNCHANGED <<used, minted, emailVars, totpVars, keyVars, proofVars>>

\* backup_codes_regenerate: with TOTP on (as read), old codes out and new ones in,
\* in one transaction.
Regenerate(p, d) ==
    /\ Authenticated(d)
    /\ totp.enabled
    /\ BeginHere(p, "totp", "regenerate", [NoRequest EXCEPT !.dev = d])
    /\ UNCHANGED oneTimeVars

RegenerateCodes(p) ==
    /\ pc[p] = "regenerate"
    /\ codes' = {minted + 1}
    /\ minted' = minted + 1
    /\ Finish(p) /\ StepHere
    /\ UNCHANGED <<used, emailVars, totpVars, keyVars, proofVars>>

-----------------------------------------------------------------------------
\* A request that is cut off may have been holding a proof it had accepted.
CrashLogin(p) ==
    /\ Crash(p)
    /\ together' = together \cup ({req[p].proof} \ {NoProof})
    /\ UNCHANGED <<emailVars, totpVars, codeVars, keyVars, spent, again>>

CodeInit ==
    /\ email = [consumed |-> FALSE, attempts |-> 0, late |-> FALSE]
    /\ verified = FALSE
    /\ totp = [enabled |-> FALSE, secret |-> 0]
    /\ secrets = 0 /\ confirmed = {} /\ raced = FALSE
    /\ codes = {} /\ used = {} /\ minted = 0
    /\ challenge = [d \in Devices |-> 0]
    /\ asked = 0 /\ passkeys = {}
    /\ spent = {} /\ again = {} /\ together = {}

Init == SessionInit /\ CodeInit

CodeNext(p) ==
    \/ \E d \in Devices :
          \/ \E right \in BOOLEAN : VerifyRead(p, d, right)
          \/ \E via \in {"http", "ws"} : Login(p, d, via)
          \/ GoogleLogin(p, d) \/ Confirmed(p, d)
          \/ \E new \in BOOLEAN : PasskeyFinish(p, d, new)
          \/ TotpConfirm(p, d) \/ TotpDisable(p, d) \/ Regenerate(p, d)
    \/ VerifyWrong(p) \/ VerifyConsume(p) \/ VerifySave(p)
    \/ FactorNone(p) \/ FactorTotp(p) \/ FactorBackup(p) \/ FactorRefused(p)
    \/ Gate(p) \/ Attach(p) \/ AttachCreate(p) \/ AnswerLogin(p)
    \/ TotpConfirmSave(p) \/ RegenerateCodes(p)
    \/ DisableTotp(p) \/ DisableBackup(p) \/ DisableSave(p) \/ DisableCodes(p)
    \/ CrashLogin(p)

Next ==
    \/ SessionNext /\ UNCHANGED oneTimeVars
    \/ \E p \in Procs : CodeNext(p)
    \/ \E d \in Devices : PasskeyStart(d) \/ PasskeyRemove(d) \/ TotpStart(d)
    \/ EmailCodeExpires

Spec == Init /\ [][Next]_vars

-----------------------------------------------------------------------------
(* What the proofs of identity promise.                                    *)

TypeOK ==
    /\ SessionTypeOK
    /\ email \in [consumed : BOOLEAN, attempts : 0..MaxAttempts, late : BOOLEAN]
    /\ verified \in BOOLEAN
    /\ totp \in [enabled : BOOLEAN, secret : 0..secrets]
    /\ confirmed \subseteq 1..secrets /\ raced \in BOOLEAN
    /\ codes \subseteq 1..minted /\ used \subseteq 1..minted
    /\ challenge \in [Devices -> 0..asked]
    /\ passkeys \subseteq Devices
    /\ again \subseteq spent

\* A proof of identity is accepted once: a backup code always, although it may be
\* offered by several logins and by a request to turn TOTP off at the same time; the
\* e-mail code and a passkey's challenge, which are read without a lock, unless two
\* requests held them at once or the one that held them was cut off
\* (verify_and_consume_backup_code, verify_email_otp, passkey_auth_finish).
ProofsSpentOnce == again \subseteq together

\* TOTP is asked for only with a secret that the user has shown to hold, whatever
\* setups were begun over one another or abandoned: otherwise nobody could log in
\* again.  Excused is a setup begun, or TOTP turned off, between the reading and the
\* saving of a confirmation (totp_setup_start, totp_setup_confirm, totp_disable).
EnabledTotpWasConfirmed == totp.enabled /\ ~raced => totp.secret \in confirmed
=============================================================================
