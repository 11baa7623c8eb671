SPECIFICATION Spec
CONSTANTS
    u1 = u1
    u2 = u2
    r1 = r1
    r2 = r2
    Uploads = {u1}
    ChunkCount = 2
    Senders = {s1}
    Requests = {r1, r2}
    Bundles <- MCRetries
    MaxFaults = 2
INVARIANTS WholeUnlessDisturbed UsedOnceUnlessOverlapped
CHECK_DEADLOCK FALSE
