---------------------------- MODULE MCChatPosting -----------------------------
(* ChatPosting for TLC: each user on a WebSocket, a worker thread for HTTP.   *)
EXTENDS ChatPosting, TLC

CONSTANTS olga, adam, connO, connA, worker, chat

MCUserOf == (connO :> olga) @@ (connA :> adam)
MCMaxRows == [u \in Users |-> 1]
=============================================================================
