------------------------------ MODULE ChatRoles -------------------------------
(***************************************************************************)
(* What the membership operations promise, one at a time: a chat is        *)
(* created, gets its owner, people come and go, a channel's owner stays,   *)
(* admins come and go under an owner, and the chat ends. Only an owner who *)
(* had come in before founding the chat may be put out of it.              *)
(***************************************************************************)
EXTENDS Naturals

CONSTANTS Users, Chats

VARIABLES
    kind, role,
    rows,       \* how often each user has come in
    contested   \* chats whose owner, having come in earlier, may yet be put out

roleVars == <<kind, role, rows, contested>>

Alive(c) == kind[c] \in {"group", "channel"}
Owned(c) == \E u \in Users : role[c][u] = "owner"
EntryRole(c) == IF kind[c] = "group" THEN "member" ELSE "subscriber"

Init ==
    /\ kind = [c \in Chats |-> "unused"]
    /\ role = [c \in Chats |-> [u \in Users |-> "none"]]
    /\ rows = [c \in Chats |-> [u \in Users |-> 0]]
    /\ contested = {}

Create(c) ==
    /\ kind[c] = "unused"
    /\ \E k \in {"group", "channel"} : kind' = [kind EXCEPT ![c] = k]
    /\ UNCHANGED <<role, rows, contested>>

\* Others may be in already, but nobody is in charge.
Found(c, u) ==
    /\ Alive(c)
    /\ role[c][u] = "none"
    /\ \A v \in Users : role[c][v] \notin {"owner", "admin"}
    /\ role' = [role EXCEPT ![c][u] = "owner"]
    /\ rows' = [rows EXCEPT ![c][u] = @ + 1]
    /\ \/ UNCHANGED contested
       \/ rows[c][u] > 0 /\ contested' = contested \cup {c}
    /\ UNCHANGED kind

Enter(c, S) ==
    /\ Alive(c)
    /\ \A u \in S : role[c][u] = "none"
    /\ role' = [role EXCEPT ![c] = [u \in Users |-> IF u \in S THEN EntryRole(c)
                                                             ELSE role[c][u]]]
    /\ rows' = [rows EXCEPT ![c] = [u \in Users |-> IF u \in S THEN rows[c][u] + 1
                                                             ELSE rows[c][u]]]
    /\ UNCHANGED <<kind, contested>>

Depart(c, u) ==
    /\ Alive(c)
    /\ kind[c] = "channel" /\ c \notin contested => role[c][u] # "owner"
    /\ role' = [role EXCEPT ![c][u] = "none"]
    /\ UNCHANGED <<kind, rows, contested>>

Promote(c, u) ==
    /\ kind[c] = "channel"
    /\ Owned(c) \/ c \in contested
    /\ role[c][u] = "subscriber"
    /\ role' = [role EXCEPT ![c][u] = "admin"]
    /\ UNCHANGED <<kind, rows, contested>>

Demote(c, u) ==
    /\ kind[c] = "channel"
    /\ Owned(c) \/ c \in contested
    /\ role[c][u] = "admin"
    /\ role' = [role EXCEPT ![c][u] = "subscriber"]
    /\ UNCHANGED <<kind, rows, contested>>

End(c) ==
    /\ Alive(c)
    /\ kind' = [kind EXCEPT ![c] = "deleted"]
    /\ role' = [role EXCEPT ![c] = [u \in Users |-> "none"]]
    /\ UNCHANGED <<rows, contested>>

Next ==
    \E c \in Chats :
        \/ Create(c) \/ End(c)
        \/ \E u \in Users : Found(c, u) \/ Depart(c, u) \/ Promote(c, u) \/ Demote(c, u)
        \/ \E S \in SUBSET Users : Enter(c, S)

Spec == Init /\ [][Next]_roleVars
=============================================================================
