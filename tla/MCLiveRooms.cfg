SPECIFICATION Spec
CONSTANTS
    Sessions = {s1, s2, s3}
    RoomIds = {r1, r2}
    NoRoom = NoRoom
    Null = Null
    MaxRooms = 2
    MaxFrames = 4
SYMMETRY Symmetry
INVARIANTS
    TypeOK
    PoolMatchesRooms
    RoomsMatchPublishers
    NoDanglingVisitors
    NoCrossTalk
    
    GapFree
    AudioDecodable
    MetaCurrent
PROPERTIES
    ImplementsDirectory
