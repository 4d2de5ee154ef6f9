CONSTANTS
    c1 = c1
    c2 = c2
    Clients <- TwoClients
    Reader = Reader
    NoOwner = NoOwner
    QueueSize = 2
    AllBits <- TwoBits
    Masks <- AllMasks
    Faults <- AllFaults
    MaxCalls = 5
    MaxSamples = 3
SPECIFICATION Spec
SYMMETRY Symmetry
INVARIANTS
    TypeOK
    DataBitMatchesQueue
    QueueIsWindow
    NoLostDataWakeup
    ClosedMeansQuiet
    NoReaderOutlivesObject
    OpenMeansReading
PROPERTIES
    NoSampleTakenTwice
    ImplementsReceiver
