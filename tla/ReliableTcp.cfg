SPECIFICATION TcpSpec
CONSTANTS
    app = app
    news = news
    Window = 3
    Threads <- OneThread
    Pushes = {1}
    Cmds = {news}
    CmdOf <- NewsOf
    SendOpts <- TwoTries
    ReconnectInterval = 1
    MaxSends = 1
    MaxLag = 1
    MaxTimers = 1
    MaxQueue = 1
    HeartbeatInterval = 4
    ResendTries = 2
    ResendInterval = 1
    MaxSessions = 2
    MaxPushes = 1
    MaxChannel = 2
    MaxTraffic = 1
    MaxDelay = 1
PROPERTIES
    ImplementsService
    HeartbeatsKeepSession
