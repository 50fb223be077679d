\* Three data counters, one of them on descriptor 0, and a shared single one.
\* first_data + 2 wraps around.
CONSTANTS
    Half = 8
    Fds = {0, 1, 2, 3}
    Fd0 = 0
    Files = {0, 1, 2, 3}
    NoFile = NoFile
    Maskable = {"IN"}
    Unmaskable = {}
    ClosesRegistered = FALSE
    MaxSubscribers = 3
    Capacity = 3
    ChannelFd = 7
    In = "IN"
    TouchesForeign = FALSE
    MaxDuplicates = 1
    Objects = {"data", "single"}
    CounterFds <- MCCounterFds
    SingleFd = 3
    FirstData = 6
    CountLimit = 2
    MaxToggles = 2
SPECIFICATION CountersSpec
INVARIANTS
    CountersTypeOK
    ToggleCountsOne
    NoExpectFails
    RegistryRestored
PROPERTIES
    CountsItsOwn
