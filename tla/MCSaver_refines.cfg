SPECIFICATION Spec
CONSTANTS
    Savers = {s1, s2}
    Threads = {t1}
    Namespaces = {n1, n2}
    MaxId = 2
    Ids <- MCIds
    Channels = {c1}
    Objects = {o1}
    Primitives = {}
    NoVal = NoVal
    Tasks = {k1}
    WriteLists <- MCShortWriteLists
    Ops = {"put", "put_writes", "delete_thread"}
    Exclusive = TRUE
SYMMETRY Symmetry
PROPERTY ImplementsHistory
