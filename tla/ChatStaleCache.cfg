CONSTANTS
    olga = olga
    adam = adam
    connO = connO
    connA = connA
    worker = worker
    chat = chat
    Users = {olga, adam}
    Chats = {chat}
    Conns = {connO, connA}
    Workers = {worker}
    UserOf <- MCUserOf
    Verbs = {"create_channel", "create_group", "add", "remove", "set_role", "join", "delete_chat", "post_ws", "post_http"}
    MaxRows <- MCMaxRows
    MaxCrashes = 0
    MaxPosts = 1
SPECIFICATION PostSpec
PROPERTY NonMembersAreRefused
