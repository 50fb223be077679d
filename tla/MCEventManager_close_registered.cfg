\* A descriptor is closed while registered, its file lives on in a duplicate.
CONSTANTS
    Fds = {f0, f1}
    Fd0 = f0
    Files = {a, b}
    NoFile = NoFile
    Maskable = {"IN"}
    Unmaskable = {}
    ClosesRegistered = TRUE
    MaxSubscribers = 2
    Capacity = 2
    ChannelFd = channel
    In = "IN"
    TouchesForeign = FALSE
    MaxDuplicates = 1
SPECIFICATION Spec
SYMMETRY FileSymmetry
INVARIANTS
    NoPanic
