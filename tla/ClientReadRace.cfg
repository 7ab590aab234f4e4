SPECIFICATION Spec
CONSTANTS
    t1 = t1
    t2 = t2
    p1 = p1
    p2 = p2
    news = news
    Threads <- TwoThreads
    Pushes = {p1}
    Cmds = {news}
    CmdOf <- NewsOf
    Window = 1
    SendOpts <- NoOpts
    ReconnectInterval = 2
    MaxSends = 0
    MaxLag = 1
    MaxTimers = 1
    MaxQueue = 3
INVARIANTS
    ReadsInTurn
