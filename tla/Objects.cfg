SPECIFICATION Spec
CONSTANTS
    CHUNK_SIZE = 5
    FixedMin = 100
    UnitBase = 4
    FirstFree = 22
    FirstSize = 26
    PageSize = 7
    Growth = 21
    MaxPages = 2
    MaxObject = 7
    Graphs <- MCGraphs
    StubDepths = {1, 3}
    MaxLogical = 6
    MaxWord = 60
    MaxHeap = 9
INVARIANTS TypeOK ReadBack WordsStored BuiltIsClosed OneObjectEach OnlyStubsDangle Disjoint ObjectsInside
PROPERTIES CommitSpec
CHECK_DEADLOCK FALSE
