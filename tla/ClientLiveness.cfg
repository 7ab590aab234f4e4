SPECIFICATION FairSpec
CONSTANTS
    t1 = t1
    t2 = t2
    p1 = p1
    p2 = p2
    news = news
    Threads <- OneThread
    Pushes = {}
    Cmds = {}
    CmdOf <- NewsOf
    Window = 1
    SendOpts <- ResendOpts
    ReconnectInterval = 2
    MaxSends = 1
    MaxLag = 2
    MaxTimers = 1
    MaxQueue = 3
PROPERTIES
    RequestsSettle
    DisconnectedReconnects
