\* EventOps::remove of another subscriber's descriptor.
CONSTANTS
    Fds = {f0, f1}
    Fd0 = f0
    Files = {a, b}
    NoFile = NoFile
    Maskable = {"IN"}
    Unmaskable = {}
    ClosesRegistered = FALSE
    MaxSubscribers = 2
    Capacity = 2
    ChannelFd = channel
    In = "IN"
    TouchesForeign = TRUE
    MaxDuplicates = 2
SPECIFICATION Spec
SYMMETRY FileSymmetry
PROPERTIES
    RemovalIsLocal
