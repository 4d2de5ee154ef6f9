CONSTANTS
    c1 = c1
    c2 = c2
    Clients <- TwoClients
    Reader = Reader
    NoOwner = NoOwner
    QueueSize = 2
    AllBits <- TwoBits
    Masks <- DataMask
    Faults <- AllFaults
    MaxCalls = 4
    MaxSamples = 2
SPECIFICATION FairSpec

PROPERTIES
    CallsReturn
    DataWakesWaiter
    WaitReturns
