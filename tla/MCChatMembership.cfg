CONSTANTS
    olga = olga
    adam = adam
    sue = sue
    connO = connO
    connA = connA
    worker = worker
    worker2 = worker2
    chat = chat
    Users = {olga, adam, sue}
    Chats = {chat}
    Conns = {connO, connA}
    Workers = {worker}
    UserOf <- MCUserOf
    Verbs = {"create_channel", "remove", "set_role", "join", "leave"}
    MaxRows <- MCMaxRows
    MaxCrashes = 1
SPECIFICATION Spec
INVARIANTS TypeOK ChannelGoverned
PROPERTIES OnlyOwnerDemotes PromotionSparesNewRows
