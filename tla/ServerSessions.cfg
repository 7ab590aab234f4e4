SPECIFICATION FairSpec
CONSTANTS
    t1 = t1
    t2 = t2
    r1 = r1
    r2 = r2
    query = query
    Threads <- OneThread
    Requests = {r1}
    Cmds = {query}
    CmdOf <- QueryOf
    Window = 2
    HeartbeatInterval = 3
    ResendTries = 2
    ResendInterval = 2
    MaxSessions = 1
    MaxPushes = 1
    MaxTimers = 1
    MaxChannel = 1
INVARIANTS
    TypeOK
    ProcessedOnce
    StartedHasTimer
PROPERTIES
    PushesNotDroppedEarly
    BrokenSessionsRemoved
    PushesSettle
