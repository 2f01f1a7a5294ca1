SPECIFICATION Spec
CONSTANTS
    Packets <- MCPackets
    Format <- MCFormat
    Convertible = {"s16", "flt"}
    NoDevice = NoDevice
    Delay = 1
    RenderCapacity = 1
INVARIANTS
    FramesInOrder
    SamplesFitDevice
    SamplesLostAtResetOnly
    WindowOutlivesRendering
    DeviceClosedAtEnd
PROPERTIES
    PlayerExits
