SPECIFICATION Spec
CONSTANTS
    ChunkSize = 5
    MaxLogical = 11
    MaxPhysical = 18
INVARIANTS TypeOK MagicMeansBootstrapped LowStays MineFound CountersPast AddressesUnsaid
