CONSTANTS
    m = m
    w = w
    Main <- m
    Worker <- w
    Clients <- MainAndWorker
    CommandLines <- SomeCommandLines
    LogMayFail = TRUE
    Reader = Reader
    NoOwner = NoOwner
    QueueSize = 1
    AllBits <- OneBit
    Masks <- DataMask
    Faults <- AllFaults
    MaxCalls = 20
    MaxSamples = 3
SPECIFICATION FairAppSpec
INVARIANTS
    AppTypeOK
    OnlyTwoFaultsKill
    FailureLosesNothing
    ExitCodeIsRight
PROPERTY ExampleReturns
