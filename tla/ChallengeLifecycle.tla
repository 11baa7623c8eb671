-------------------------- MODULE ChallengeLifecycle --------------------------
(***************************************************************************)
(* What a device-login challenge promises: it is opened once, may be       *)
(* approved while it is open, may die at any time before it is used, and   *)
(* is used up by the one session it is good for.                           *)
(***************************************************************************)
EXTENDS Naturals

CONSTANT Challenges

VARIABLES
    life,      \* life[c]: "unused", "pending", "approved", "dead" or "used"
    issuing,   \* challenges that were used up and whose session is being made
    sessions   \* sessions[c]: how many sessions came of c

vars == <<life, issuing, sessions>>

Init ==
    /\ life = [c \in Challenges |-> "unused"]
    /\ issuing = {}
    /\ sessions = [c \in Challenges |-> 0]

Open(c) ==
    /\ life[c] = "unused"
    /\ life' = [life EXCEPT ![c] = "pending"]
    /\ UNCHANGED <<issuing, sessions>>

Approve(c) ==
    /\ life[c] = "pending"
    /\ life' = [life EXCEPT ![c] = "approved"]
    /\ UNCHANGED <<issuing, sessions>>

\* Denied, expired, or superseded by newer logins (several at once).
Die(S) ==
    /\ \A c \in S : life[c] \in {"pending", "approved"}
    /\ life' = [c \in Challenges |-> IF c \in S THEN "dead" ELSE life[c]]
    /\ UNCHANGED <<issuing, sessions>>

Use(c) ==
    /\ life[c] = "approved"
    /\ life' = [life EXCEPT ![c] = "used"]
    /\ issuing' = issuing \cup {c}
    /\ UNCHANGED sessions

Issue(c) ==
    /\ c \in issuing
    /\ issuing' = issuing \ {c}
    /\ sessions' = [sessions EXCEPT ![c] = @ + 1]
    /\ UNCHANGED life

\* The server dies between using the challenge up and issuing the session.
Lose(c) ==
    /\ c \in issuing
    /\ issuing' = issuing \ {c}
    /\ UNCHANGED <<life, sessions>>

Next ==
    \/ \E c \in Challenges : Open(c) \/ Approve(c) \/ Use(c) \/ Issue(c) \/ Lose(c)
    \/ \E S \in SUBSET Challenges : Die(S)

Spec == Init /\ [][Next]_vars
=============================================================================
