\* A caught panic leaves messages nobody announces.
CONSTANTS
    Callers = {c1, c2}
    LoopThread = loop
    MaxRequests = 1
    MaxCounter = 2
    CatchesPanics = TRUE
SPECIFICATION EndpointSpec
SYMMETRY CallerSymmetry
INVARIANTS
    NoLostWakeup
