SPECIFICATION Spec
CONSTANTS
    t1 = t1
    t2 = t2
    p1 = p1
    p2 = p2
    news = news
    Threads <- OneThread
    Pushes = {p1}
    Cmds = {news}
    CmdOf <- NewsOf
    Window = 2
    SendOpts <- ResendOpts
    ReconnectInterval = 3
    MaxSends = 1
    MaxLag = 2
    MaxTimers = 2
    MaxQueue = 3
INVARIANTS
    NotifiedOnce
    StoppedIsQuiet
