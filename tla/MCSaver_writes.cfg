SPECIFICATION Spec
CONSTANTS
    Savers = {s1, s2}
    Threads = {t1}
    Namespaces = {n1}
    MaxId = 1
    Ids <- MCIds
    Channels = {c1, c2}
    Objects = {o1}
    Primitives = {}
    NoVal = NoVal
    Tasks = {k1}
    WriteLists <- MCWriteLists
    Ops = {"put", "put_writes", "delete_thread"}
    Exclusive = FALSE
SYMMETRY Symmetry
INVARIANTS NoAttemptCut OwnValues
PROPERTIES FirstAttemptStays ReturnedWritesStored DeletedThreadIsGone
