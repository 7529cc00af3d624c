SPECIFICATION Spec
CONSTANTS
    Stores = {s1}
    NoValue = NoValue
    Batches <- MCSiblings
    MaxTime = 0
INVARIANT SearchInsideNamespace
