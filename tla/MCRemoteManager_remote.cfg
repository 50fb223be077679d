\* Two threads add and remove subscribers while the loop dispatches and is stopped.
CONSTANTS
    Fds = {0}
    Fd0 = 0
    Files = {0}
    NoFile = NoFile
    Maskable = {"IN"}
    Unmaskable = {}
    ClosesRegistered = FALSE
    MaxSubscribers = 2
    Capacity = 2
    ChannelFd = 7
    In = "IN"
    TouchesForeign = FALSE
    MaxDuplicates = 1
    Threads = {t1, t2}
    MaxCalls = 3
SPECIFICATION RemoteFairSpec
INVARIANTS
    RemoteTypeOK
    RemovedIsSilent
    AddedIsInitialized
PROPERTIES
    KickedLoopExits
    CallsAnswered
