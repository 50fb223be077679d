\* Clients unregister before they close, and touch only their own descriptors.
CONSTANTS
    Fds = {f0, f1}
    Fd0 = f0
    Files = {a, b}
    NoFile = NoFile
    Maskable = {"IN"}
    Unmaskable = {"HUP"}
    ClosesRegistered = FALSE
    MaxSubscribers = 3
    Capacity = 2
    ChannelFd = channel
    In = "IN"
    TouchesForeign = FALSE
    MaxDuplicates = 1
SPECIFICATION Spec
SYMMETRY FileSymmetry
INVARIANTS
    TypeOK
    TablesAgree
    KernelAgrees
    NoPanic
    NoEventDropped
PROPERTIES
    RemovalIsLocal
    NoStaleDelivery
    KeepsPromise
