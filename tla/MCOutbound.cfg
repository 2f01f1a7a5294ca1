SPECIFICATION Spec
CONSTANTS
    ChunkSize = 2
    Mark = 4
    C1Size = 2
    C2Size = 1
    ReplyLengths = {3}
    MediaLengths = {1, 3}
    Timestamps = {1}
    MaxReplay = 1
    MaxSent = 7
INVARIANTS
    HeardAsSent
CHECK_DEADLOCK FALSE
