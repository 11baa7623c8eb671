CONSTANTS
    olga = olga
    adam = adam
    sue = sue
    connO = connO
    connA = connA
    worker = worker
    worker2 = worker2
    chat = chat
    Users = {olga, adam}
    Chats = {chat}
    Conns = {connO, connA}
    Workers = {worker}
    UserOf <- MCTabsOf
    Verbs = {"create_group", "create_channel", "add", "remove", "set_role", "join", "leave", "delete_chat"}
    MaxRows <- MCTabsRows
    MaxCrashes = 0
SPECIFICATION Spec
SYMMETRY Tabs
INVARIANTS EmptyChatHasReaper Governance
PROPERTIES ChannelOwnerStays RolesMoveAtomically OwnStepsKeepCacheFresh
