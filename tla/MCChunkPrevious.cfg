SPECIFICATION Spec
CONSTANTS
    Script <- MCScriptLongAbsolute
    ChunkSize = 2
    Mark = 4
    C1Size = 2
    C2Size = 1
    MaxInFlight = 6
INVARIANTS
    PreviousTimestampRemembered
