SPECIFICATION Spec
CONSTANTS
    Acceptor = Acceptor
    Clients = {c}
    Lengths <- MCLengths
    Answered = {1}
    Size = 2
    MaxAppends = 2
    SendRoom = 1
INVARIANTS
    SentInOrder
    MessagesWhole
    PendingMeansQueued
    EventsFindSession
    NothingStranded
PROPERTIES ClosedIsRemoved
CHECK_DEADLOCK FALSE
