SPECIFICATION Spec
CONSTANTS
    Packets <- MCShort
    Format <- MCShortFormat
    Convertible = {"s16", "flt"}
    NoDevice = NoDevice
    Delay = 1
    RenderCapacity = 1
INVARIANTS
    FilePlayedToEnd
