CONSTANTS
    m = m
    w = w
    Main <- m
    Worker <- w
    Clients <- MainAndWorker
    CommandLines <- SomeCommandLines
    LogMayFail = FALSE
    Reader = Reader
    NoOwner = NoOwner
    QueueSize = 1
    AllBits <- OneBit
    Masks <- DataMask
    Faults = {}
    MaxCalls = 20
    MaxSamples = 1
SPECIFICATION FairAppSpec
PROPERTY CtrlCStops
