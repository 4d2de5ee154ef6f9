CONSTANTS
    c1 = c1
    c2 = c2
    Clients <- TwoClients
    Reader = Reader
    NoOwner = NoOwner
    QueueSize = 2
    AllBits <- TwoBits
    Masks <- DataMask
    Faults = {"set_option"}
    MaxCalls = 3
    MaxSamples = 1
SPECIFICATION Spec
SYMMETRY Symmetry
INVARIANT DestructorCloses
