SPECIFICATION Spec
CONSTANTS
    Savers = {s1, s2}
    Threads = {t1}
    Namespaces = {n1}
    MaxId = 3
    Ids <- MCIds
    Channels = {c1}
    Objects = {o1}
    Primitives = {}
    NoVal = NoVal
    Tasks = {k1}
    WriteLists <- MCWriteLists
SYMMETRY Symmetry
INVARIANTS TypeOK OwnValues ReadBack RunOnStored
PROPERTIES NeededWritesKept SupersededWritesGone
