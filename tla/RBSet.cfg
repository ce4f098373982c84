SPECIFICATION Spec
CONSTANTS
    UserKeys = {3, 4, 5, 6, 7, 8}
    Objects = {o1, o2}
    Counter = o1
    NoObject = none
    MaxSize = 5
INVARIANTS Valid ScanMissesNone DestroysEach
PROPERTIES IsKeyedSet
