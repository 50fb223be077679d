\* Three descriptors and the channel, for every capacity from 0 to one too many.
CONSTANTS
    Fds = {a, b, c}
    Channel = channel
    I32Max = 11
    EventSize = 3
    MaxMessages = 2
SPECIFICATION ProgressFairSpec
INVARIANTS
    ProgressTypeOK
    InvalidOnlyForZero
    BoundedBypass
PROPERTIES
    NoStarvation
    ChannelIsDrained
