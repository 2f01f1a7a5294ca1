SPECIFICATION Spec
CONSTANTS
    None = None
    MaxFrames = 3
    FilterLimit = 0
    MuxerLimit = 0
    Delay <- MCDelay
INVARIANTS
    QueuesBounded
    AudioComplete
    VideoInOrder
    UsersGoFirst
    TrailerWritten
PROPERTIES
    RecorderExits
