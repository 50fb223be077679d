\* Two callers and the loop's own thread; a panic ends the manager.
CONSTANTS
    Callers = {c1, c2}
    LoopThread = loop
    MaxRequests = 1
    MaxCounter = 2
    CatchesPanics = FALSE
SPECIFICATION FairSpec
INVARIANTS
    NoLostWakeup
PROPERTIES
    CallsReturn
    FiresAreServed
    SignalsAreConsumed
    ServesRemoteCalls
