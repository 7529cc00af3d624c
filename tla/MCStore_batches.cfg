SPECIFICATION Spec
CONSTANTS
    Stores = {s1, s2}
    NoValue = NoValue
    Batches <- MCBatches
    MaxTime = 1
SYMMETRY Symmetry
INVARIANTS TypeOK PagesPartition WaitsForRunningOnly
PROPERTY ImplementsStoreMap
