SPECIFICATION FairSpec
CONSTANTS
    Threads = {t1, t2}
    Coroutines = {k1}
    PoolSize = 4
    MaxCalls = 4
    LoopCalls = {"list", "get_tuple", "delete_thread"}
INVARIANTS TypeOK OneUserPerConnection NothingLeaked
PROPERTY EveryCallEnds
CHECK_DEADLOCK FALSE
