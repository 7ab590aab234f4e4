SPECIFICATION FairSpec
CONSTANTS
    main = main
    worker = worker
    test = test
    MaxInterval = 1
    MaxTimers = 3
    MaxQueue = 2
INVARIANTS
    TypeOK
    NoCallIsLost
    OneShotOnce
    TimersGoOn
    StoppedTimerIsSilent
PROPERTIES
    ShutdownCompletes
    CallsReturn
CHECK_DEADLOCK FALSE
