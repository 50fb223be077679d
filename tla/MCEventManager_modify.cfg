\* EventOps::modify after the poll that collected the event.
CONSTANTS
    Fds = {f0, f1}
    Fd0 = f0
    Files = {a, b}
    NoFile = NoFile
    Maskable = {"IN"}
    Unmaskable = {"HUP"}
    ClosesRegistered = FALSE
    MaxSubscribers = 2
    Capacity = 2
    ChannelFd = channel
    In = "IN"
    TouchesForeign = FALSE
    MaxDuplicates = 1
SPECIFICATION Spec
SYMMETRY FileSymmetry
PROPERTIES
    DeliveredEventIsMonitored
