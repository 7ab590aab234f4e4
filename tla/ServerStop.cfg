SPECIFICATION Spec
CONSTANTS
    t1 = t1
    t2 = t2
    r1 = r1
    r2 = r2
    query = query
    Threads <- TwoThreads
    Requests = {}
    Cmds = {}
    CmdOf <- QueryOf
    Window = 1
    HeartbeatInterval = 2
    ResendTries = 2
    ResendInterval = 1
    MaxSessions = 2
    MaxPushes = 0
    MaxTimers = 2
    MaxChannel = 1
INVARIANTS
    StoppedHasNoSessions
    SessionsAreWatched
    AcceptsUntilStopped
