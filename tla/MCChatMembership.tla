--------------------------- MODULE MCChatMembership ---------------------------
(* ChatMembership for TLC: the owner and an admin-to-be on WebSockets, and a  *)
(* worker thread that serves everybody's joining and leaving.                 *)
EXTENDS ChatMembership, TLC

CONSTANTS olga, adam, sue, connO, connA, worker, worker2, chat

MCUserOf == (connO :> olga) @@ (connA :> adam)
MCMaxRows == (olga :> 1) @@ (adam :> 1) @@ (sue :> 2)

\* The same user in two tabs; both users may come back, once.
MCTabsOf == [k \in Conns |-> olga]
MCTabsRows == [u \in Users |-> 2]
Tabs == Permutations(Conns)
=============================================================================
