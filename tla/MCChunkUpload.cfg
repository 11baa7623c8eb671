SPECIFICATION Spec
CONSTANTS
    u1 = u1
    u2 = u2
    r1 = r1
    r2 = r2
    Uploads = {u1, u2}
    ChunkCount = 1
    Senders = {s1}
    Requests = {r1, r2}
    Bundles <- MCBundles
    MaxFaults = 2
INVARIANTS TypeOK OkHasEveryFile NoStrayFiles
CHECK_DEADLOCK FALSE
