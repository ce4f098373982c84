SPECIFICATION Spec
CONSTANTS
    ChunkSize = 5
    MaxLogical = 11
    MaxPhysical = 18
INVARIANT CommittedFound
