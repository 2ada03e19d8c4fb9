\* One free cell in front, room for two bytes, calls of up to two.
CONSTANTS
    Bytes = {x, y}
    Garbage = Garbage
    Endian = "other"
    CheapPrepend = 1
    InitialSize = 2
    MaxLen = 2
    MaxReadable = 3
SPECIFICATION Spec
INVARIANTS
    CapacityBounded
    RoomIsMade
PROPERTIES
    ImplementsByteQueue
