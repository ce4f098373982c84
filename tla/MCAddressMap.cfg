SPECIFICATION FairSpec
CONSTANTS
    MaxHeight = 2
    WordHeight = 3
    ChunkSize = 2
    Logical <- MCLogical
    Physical = {11, 12}
    MaxPage = 7
    Readers = {r1}
INVARIANTS TypeOK IInv TreeHoldsTable
PROPERTIES Linearizable LookupReturns AssignReturns
