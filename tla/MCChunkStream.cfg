SPECIFICATION Spec
CONSTANTS
    Script <- MCScript
    ChunkSize = 2
    Mark = 4
    C1Size = 2
    C2Size = 1
    MaxInFlight = 6
INVARIANTS
    MessagesIntact
    NothingHeldBack
    TimestampsIntact
PROPERTIES
    EventuallyDelivered
