CONSTANTS
    olga = olga
    adam = adam
    sue = sue
    connO = connO
    connA = connA
    worker = worker
    worker2 = worker2
    chat = chat
    Users = {olga, adam, sue}
    Chats = {chat}
    Conns = {connO, connA}
    Workers = {worker, worker2}
    UserOf <- MCUserOf
    Verbs = {"create_group", "remove", "join", "leave"}
    MaxRows <- MCMaxRows
    MaxCrashes = 0
SPECIFICATION Spec
PROPERTY LeavingTakesOnlyTheLeaver
