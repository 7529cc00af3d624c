------------------------------- MODULE Cursor -------------------------------
(***************************************************************************)
(* How calls of the savers and of the store get a connection and a lock:   *)
(* _cursor and get_connection, sync (__init__.py, shallow.py, store/base.py*)
(* over _internal.py) and async (aio_base.py, shallow.py, store/           *)
(* aio_base.py over _ainternal.py), and the synchronous methods of the     *)
(* async savers, which run the coroutine on the event loop and wait.       *)
(*                                                                         *)
(* A program has one saver and one store.  They are sync, and threads call *)
(* them; or they are async, coroutines call them, and threads call the     *)
(* synchronous methods.  Both take connections from one pool; or the saver *)
(* has a single connection, and there is no store.                         *)
(***************************************************************************)
EXTENDS Integers, FiniteSets

CONSTANTS
    Threads,        \* threads, none of which runs the event loop
    Coroutines,     \* coroutines on the event loop; threads when all is sync
    PoolSize,       \* connections of the pool
    MaxCalls,       \* bound: calls that are made
    LoopCalls       \* synchronous methods that coroutines call by mistake

Callers == Threads \cup Coroutines
Kinds == {"put", "get_tuple", "list", "delete_thread", "batch"}
Objects == {"saver", "store"}
Pool == 1..PoolSize
Single == 0         \* the connection the saver was given
NoConn == -1

ASSUME CursorAssumption ==
    /\ Threads \cap Coroutines = {}
    /\ IsFiniteSet(Callers)
    /\ PoolSize \in Nat /\ MaxCalls \in Nat
    /\ LoopCalls \subseteq Kinds

\* The calls in progress: a caller's own, and the one it makes from the body
\* of a loop over list.
Calls == Callers \X {"outer", "inner"}
Idle == [at |-> "none", obj |-> "saver", kind |-> "put", conn |-> NoConn]

VARIABLES
    async,      \* the objects are the async ones
    pooled,     \* they were given a pool
    call,       \* call[a]: where the call a is
    locked,     \* the objects whose lock is taken
    free,       \* the idle connections of the pool
    dropped,    \* generators of list that nobody refers to any more
    made        \* how many calls have been made

vars == <<async, pooled, call, locked, free, dropped, made>>

Outer(c) == <<c, "outer">>
Inner(c) == <<c, "inner">>
At(a, where) == call[a].at = where
Goto(a, where) == call' = [call EXCEPT ![a].at = where]

\* A coroutine that waits for a future of its own loop blocks the loop.
LoopRuns == \A a \in Calls : ~At(a, "result")

\* The call a is made, and it can go on.
Runs(a) ==
    /\ call[a].at # "none"
    /\ a[2] = "outer" => call[Inner(a[1])].at = "none"
    /\ async => LoopRuns

\* Mutant: only list checks the thread it is called from.
ChecksLoopListOnly(kind) == kind = "list"

\* The synchronous methods that raise InvalidStateError in the loop's thread.
ChecksLoop(kind) == kind \in {"list", "get_tuple", "delete_thread"}

\* Mutant: a read does not wait for the lock.
TakesLockToWrite(kind) == kind \in {"put", "delete_thread", "batch"}

\* _cursor: with self.lock, in both branches.
TakesLock(kind) == kind \in Kinds

\* Mutant: whatever the connection came from, it ends in the pool.
GivenBackAlways(k) == free \cup ({k} \ {NoConn})

\* The exit of get_connection: a pool takes its connection back, the
\* connection the object was given stays open.
GivenBack(k) == free \cup ({k} \cap Pool)

-----------------------------------------------------------------------------
Init ==
    /\ async \in BOOLEAN
    /\ pooled \in BOOLEAN
    /\ call = [a \in Calls |-> Idle]
    /\ locked = {}
    /\ free = Pool
    /\ dropped = {}
    /\ made = 0

MayCall ==
    /\ made < MaxCalls
    /\ made' = made + 1
    /\ async => LoopRuns

Enter(a, o, kind) == call' = [call EXCEPT ![a] = [Idle EXCEPT !.at = "connect", !.obj = o, !.kind = kind]]

\* A method of the saver, or batch of the store.
Call(c) ==
    /\ At(Outer(c), "none") /\ At(Inner(c), "none")
    /\ MayCall
    /\ \/ \E kind \in Kinds \ {"batch"} : Enter(Outer(c), "saver", kind)
       \/ pooled /\ Enter(Outer(c), "store", "batch")
    /\ UNCHANGED <<async, pooled, locked, free, dropped>>

\* The body of a loop over list uses the store.
CallFromBody(c) ==
    /\ At(Outer(c), "yield") /\ At(Inner(c), "none")
    /\ MayCall
    /\ pooled
    /\ Enter(Inner(c), "store", "batch")
    /\ UNCHANGED <<async, pooled, locked, free, dropped>>

\* A coroutine calls a synchronous method: it raises, or waits for a result
\* that only its own loop can produce.
CallSyncFromLoop(c) ==
    /\ async /\ c \in Coroutines
    /\ At(Outer(c), "none") /\ At(Inner(c), "none")
    /\ MayCall
    /\ \E kind \in LoopCalls :
         IF ChecksLoop(kind)
         THEN UNCHANGED call
         ELSE call' = [call EXCEPT ![Outer(c)] = [Idle EXCEPT !.at = "result", !.kind = kind]]
    /\ UNCHANGED <<async, pooled, locked, free, dropped>>

\* get_connection: the given connection, or one of the pool when it has one.
GetConnection(a) ==
    /\ Runs(a) /\ At(a, "connect")
    /\ IF pooled
       THEN \E k \in free :
              /\ \A j \in free : k <= j
              /\ free' = free \ {k}
              /\ call' = [call EXCEPT ![a].at = "lock", ![a].conn = k]
       ELSE /\ call' = [call EXCEPT ![a].at = "lock", ![a].conn = Single]
            /\ UNCHANGED free
    /\ UNCHANGED <<async, pooled, locked, dropped, made>>

\* with self.lock: the connection is held while the call waits.
AcquireLock(a) ==
    /\ Runs(a) /\ At(a, "lock")
    /\ IF TakesLock(call[a].kind)
       THEN call[a].obj \notin locked /\ locked' = locked \cup {call[a].obj}
       ELSE UNCHANGED locked
    /\ Goto(a, "execute")
    /\ UNCHANGED <<async, pooled, free, dropped, made>>

\* The lock and the connection are released, in this order.
Leave(a) ==
    /\ call' = [call EXCEPT ![a] = Idle]
    /\ locked' = locked \ {call[a].obj}
    /\ free' = GivenBack(call[a].conn)
    /\ UNCHANGED <<async, pooled, dropped, made>>

\* The statements of a call (and its COMMIT) are executed, and it returns.
Return(a) ==
    /\ Runs(a) /\ At(a, "execute") /\ call[a].kind # "list"
    /\ Leave(a)

\* list: cur.fetchall(), and the first tuple is yielded.
YieldTuples(a) ==
    /\ Runs(a) /\ At(a, "execute") /\ call[a].kind = "list"
    /\ Goto(a, "yield")
    /\ UNCHANGED <<async, pooled, locked, free, dropped, made>>

\* Mutant: the exception leaves the lock taken.
RaiseKeepsLock(a) ==
    /\ Runs(a) /\ At(a, "execute")
    /\ call' = [call EXCEPT ![a] = Idle]
    /\ free' = GivenBack(call[a].conn)
    /\ UNCHANGED <<async, pooled, locked, dropped, made>>

\* A statement raises, or list finds no row: the transaction is rolled back.
Raise(a) == Runs(a) /\ At(a, "execute") /\ Leave(a)

\* The loop over list asks for the tuple after the last one.
Exhaust(a) == Runs(a) /\ At(a, "yield") /\ Leave(a)

\* The loop ends before that: by break, or because its body raised.
Abandon(a) ==
    /\ Runs(a) /\ At(a, "yield")
    /\ call' = [call EXCEPT ![a] = Idle]
    /\ dropped' = dropped \cup {[obj |-> call[a].obj, conn |-> call[a].conn]}
    /\ UNCHANGED <<async, pooled, locked, free, made>>

\* The generator is collected, or closed by the event loop: _cursor exits.
Collect(g) ==
    /\ async => LoopRuns
    /\ dropped' = dropped \ {g}
    /\ locked' = locked \ {g.obj}
    /\ free' = GivenBack(g.conn)
    /\ UNCHANGED <<async, pooled, call, made>>

\* Mutant: a connection that was acquired and not yet used is forgotten.
CancelForgetsConnection(a) ==
    /\ async /\ a[1] \in Coroutines
    /\ Runs(a) /\ call[a].at \in {"connect", "lock"}
    /\ call' = [call EXCEPT ![a] = Idle]
    /\ UNCHANGED <<async, pooled, locked, free, dropped, made>>

\* A coroutine that waits for the connection or for the lock is cancelled.
Cancel(a) ==
    /\ async /\ a[1] \in Coroutines
    /\ Runs(a) /\ call[a].at \in {"connect", "lock"}
    /\ call' = [call EXCEPT ![a] = Idle]
    /\ free' = GivenBack(call[a].conn)
    /\ UNCHANGED <<async, pooled, locked, dropped, made>>

Step(a) == GetConnection(a) \/ AcquireLock(a) \/ Return(a) \/ YieldTuples(a) \/ Exhaust(a)

Next ==
    \/ \E c \in Callers : Call(c) \/ CallFromBody(c) \/ CallSyncFromLoop(c)
    \/ \E a \in Calls : Step(a) \/ Raise(a) \/ Abandon(a) \/ Cancel(a)
    \/ \E g \in dropped : Collect(g)

Spec == Init /\ [][Next]_vars

\* A thread that can go on does so, and so does a coroutine on a loop that
\* runs; the body of a loop over list ends; generators are collected.  Locks
\* and pools need not be fair, the calls of the others are finitely many.
FairSpec ==
    /\ Spec
    /\ \A a \in Calls : WF_vars(Step(a))
    /\ WF_vars(\E g \in dropped : Collect(g))

-----------------------------------------------------------------------------
\* Properties.

Frame == [at : {"none", "connect", "lock", "execute", "yield", "result"},
          obj : Objects, kind : Kinds, conn : Pool \cup {Single, NoConn}]
Generator == [obj : Objects, conn : Pool \cup {Single}]

\* Type invariant.
TypeOK ==
    /\ async \in BOOLEAN /\ pooled \in BOOLEAN
    /\ call \in [Calls -> Frame]
    /\ locked \subseteq Objects
    /\ free \subseteq Pool
    /\ dropped \subseteq Generator
    /\ made \in 0..MaxCalls

\* The calls that have a cursor, and what a call or a generator holds.
HasCursor(a) == call[a].at \in {"execute", "yield"}
HasConn(a) == call[a].at \in {"lock", "execute", "yield"}

\* No two calls, generators included, use a connection at the same time
\* (store/mysql/base.py:313: "a connection can only be used by one
\* thread/coroutine at a time, so we acquire a lock").
OneUserPerConnection ==
    /\ \A a, b \in Calls : a # b /\ HasCursor(a) /\ HasCursor(b) => call[a].conn # call[b].conn
    /\ \A a \in Calls, g \in dropped : HasCursor(a) => call[a].conn # g.conn
    /\ \A g, h \in dropped : g # h => g.conn # h.conn

\* However calls end (return, raise, cancellation, a loop that breaks off), a
\* pool connection is idle exactly when no call and no generator has it, and a
\* lock is taken exactly when one of them is inside.
NothingLeaked ==
    /\ Pool \ free = ({call[a].conn : a \in {a \in Calls : HasConn(a)}}
                      \cup {g.conn : g \in dropped}) \ {Single}
    /\ locked = {call[a].obj : a \in {a \in Calls : HasCursor(a)}} \cup {g.obj : g \in dropped}

\* Every call ends, provided the pool has a connection more than there are
\* callers: those that wait for the lock of the saver hold one each, and the
\* body of the loop over list that has the lock needs a second one.
EveryCallEnds == \A a \in Calls : (call[a].at # "none") ~> (call[a].at = "none")

=============================================================================
