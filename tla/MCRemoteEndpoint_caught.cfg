\* One caller sends repeatedly; the owner catches panics and keeps running the manager.
CONSTANTS
    Callers = {c1}
    LoopThread = loop
    MaxRequests = 2
    MaxCounter = 2
    CatchesPanics = TRUE
SPECIFICATION EndpointSpec
INVARIANTS
    EndpointTypeOK
    CallerNotForgotten
    HonestAnswers
    InOrder
PROPERTIES
    ImplementsRemoteCall
