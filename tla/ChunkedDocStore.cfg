SPECIFICATION StoreSpec
CONSTANTS
    Payload <- MCPayload
    StateVector = {v1, v2}
    ChunkSizes = {1, 2}
    MaxVersion = 3
    MaxSeq = 3
INVARIANTS AlwaysLoads NoOrphanKeys
PROPERTIES ImplementsDocStore
