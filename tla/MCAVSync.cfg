SPECIFICATION SyncSpec
CONSTANTS
    FramePoints <- MCFramePoints
    SamplePoints <- MCSamplePoints
    Lengths <- MCLengths
    Steps <- MCSteps
    Beat = 20000
    Late = 20000
    MaxClock = 300000
PROPERTIES
    ShownInStep
CHECK_DEADLOCK FALSE
