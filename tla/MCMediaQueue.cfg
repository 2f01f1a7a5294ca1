SPECIFICATION Spec
CONSTANTS
    Producers = {p1, p2}
    Consumers = {c1, c2}
    Capacity = 2
    MaxBatch = 2
INVARIANTS
    TypeOK
    GetterNotForgotten
    PutterNotForgotten
    CapacityKept
PROPERTIES
    TimedCallsReturn
    ImplementsBuffer
