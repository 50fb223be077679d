\* Clients may do anything: close what is registered, touch what is not theirs.
CONSTANTS
    Fds = {f0, f1}
    Fd0 = f0
    Files = {a, b}
    NoFile = NoFile
    Maskable = {"IN"}
    Unmaskable = {}
    ClosesRegistered = TRUE
    MaxSubscribers = 2
    Capacity = 2
    ChannelFd = channel
    In = "IN"
    TouchesForeign = TRUE
    MaxDuplicates = 1
SPECIFICATION Spec
SYMMETRY FileSymmetry
INVARIANTS
    NoDanglingDispatch
PROPERTIES
    IdsNeverReused
