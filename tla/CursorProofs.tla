---------------------------- MODULE CursorProofs ----------------------------
(***************************************************************************)
(* Proofs about Cursor, for any callers, pool and number of calls: its type *)
(* invariant, that a connection has one user, and that no call, however it  *)
(* ends, leaks a connection or a lock.                                      *)
(***************************************************************************)
EXTENDS Cursor, TLAPS

USE CursorAssumption

-----------------------------------------------------------------------------
\* The inductive invariant.

\* A call has a connection where its steps say it has one, a pool connection
\* exactly when there is a pool; without a pool all calls are the saver's.
CallsConnected ==
    \A a \in Calls :
        /\ call[a].conn = NoConn <=> ~HasConn(a)
        /\ HasConn(a) => (call[a].conn \in Pool <=> pooled)
        /\ ~pooled => call[a].obj = "saver"

\* So has a generator.
GeneratorsConnected ==
    \A g \in dropped :
        /\ g.conn \in Pool <=> pooled
        /\ ~pooled => g.obj = "saver"

\* One call or generator at a time is behind the lock of an object.
OneInside ==
    /\ \A a, b \in Calls : a # b /\ HasCursor(a) /\ HasCursor(b) => call[a].obj # call[b].obj
    /\ \A a \in Calls, g \in dropped : HasCursor(a) => call[a].obj # g.obj
    /\ \A g, h \in dropped : g # h => g.obj # h.obj

\* A connection of the pool is handed to one call or generator at a time.
OneHolder ==
    /\ \A a, b \in Calls : a # b /\ HasConn(a) /\ call[a].conn \in Pool => call[a].conn # call[b].conn
    /\ \A a \in Calls, g \in dropped : call[a].conn \in Pool => call[a].conn # g.conn
    /\ \A g, h \in dropped : g # h /\ g.conn \in Pool => g.conn # h.conn

\* The two parts of NothingLeaked, for one connection and for one lock.
PoolAccounted ==
    \A k \in Pool :
        k \in free <=> (\A a \in Calls : call[a].conn # k) /\ (\A g \in dropped : g.conn # k)

LocksAccounted ==
    \A o \in Objects :
        o \in locked <=> \/ \E a \in Calls : HasCursor(a) /\ call[a].obj = o
                         \/ \E g \in dropped : g.obj = o

IInv ==
    /\ TypeOK
    /\ CallsConnected /\ GeneratorsConnected
    /\ OneInside /\ OneHolder
    /\ PoolAccounted /\ LocksAccounted

\* Connections of the pool, the given one and none are told apart.
LEMMA Connections == Single \notin Pool /\ NoConn \notin Pool /\ Single # NoConn
BY DEF Single, NoConn, Pool

\* The invariant gives the properties.
LEMMA IInvImplies ==
    ASSUME IInv
    PROVE  TypeOK /\ OneUserPerConnection /\ NothingLeaked
<1> USE Connections DEF IInv
<1>1. TypeOK
  OBVIOUS
<1>2. \A a \in Calls : HasCursor(a) => HasConn(a)
  BY DEF HasCursor, HasConn
<1>3. OneUserPerConnection
  <2>1. CASE pooled
    BY <1>2, <2>1 DEF OneUserPerConnection, OneHolder, CallsConnected, GeneratorsConnected
  <2>2. CASE ~pooled
    BY <1>2, <2>2 DEF OneUserPerConnection, OneInside, CallsConnected, GeneratorsConnected
  <2> QED BY <2>1, <2>2
<1>4. Pool \ free = ({call[a].conn : a \in {a \in Calls : HasConn(a)}}
                     \cup {g.conn : g \in dropped}) \ {Single}
  <2> DEFINE held == {call[a].conn : a \in {a \in Calls : HasConn(a)}} \cup {g.conn : g \in dropped}
  <2>1. \A k : k \in held <=> \/ \E a \in Calls : HasConn(a) /\ call[a].conn = k
                              \/ \E g \in dropped : g.conn = k
    OBVIOUS
  <2>2. held \subseteq Pool \cup {Single}
    BY <2>1 DEF TypeOK, Frame, Generator, CallsConnected
  <2>3. \A k \in Pool : k \notin free <=> k \in held
    BY <2>1 DEF PoolAccounted, CallsConnected
  <2> HIDE DEF held
  <2>4. Pool \ free = held \ {Single}
    BY <2>2, <2>3
  <2> QED BY <2>4 DEF held
<1>5. locked = {call[a].obj : a \in {a \in Calls : HasCursor(a)}} \cup {g.obj : g \in dropped}
  <2> DEFINE inside == {call[a].obj : a \in {a \in Calls : HasCursor(a)}} \cup {g.obj : g \in dropped}
  <2>1. \A o : o \in inside <=> \/ \E a \in Calls : HasCursor(a) /\ call[a].obj = o
                                \/ \E g \in dropped : g.obj = o
    OBVIOUS
  <2>2. inside \subseteq Objects /\ locked \subseteq Objects
    BY <2>1 DEF TypeOK, Frame, Generator
  <2>3. \A o \in Objects : o \in locked <=> o \in inside
    BY <2>1 DEF LocksAccounted
  <2> HIDE DEF inside
  <2>4. locked = inside
    BY <2>2, <2>3
  <2> QED BY <2>4 DEF inside
<1> QED
  BY <1>1, <1>3, <1>4, <1>5 DEF NothingLeaked

-----------------------------------------------------------------------------
LEMMA InitIInv == Init => IInv
<1> SUFFICES ASSUME Init PROVE IInv
  OBVIOUS
<1>1. \A a \in Calls : call[a] = Idle
  BY DEF Init
<1>2. Idle \in Frame /\ Idle.conn = NoConn /\ Idle.at = "none" /\ Idle.obj = "saver"
  BY DEF Idle, Frame, Objects, Kinds
<1>3. \A a \in Calls : ~HasConn(a) /\ ~HasCursor(a)
  BY <1>1, <1>2 DEF HasConn, HasCursor
<1>4. TypeOK
  BY <1>2 DEF Init, TypeOK
<1> QED
  BY <1>1, <1>2, <1>3, <1>4, Connections
  DEF Init, IInv, CallsConnected, GeneratorsConnected, OneInside, OneHolder, PoolAccounted, LocksAccounted

-----------------------------------------------------------------------------
\* One lemma per action or group of actions that change the same variables.

\* A call moves on with the frame f; the frames of the others stay.
LEMMA OneCallMoves ==
    ASSUME TypeOK, NEW a \in Calls, NEW f \in Frame, call' = [call EXCEPT ![a] = f]
    PROVE  /\ call' \in [Calls -> Frame]
           /\ call'[a] = f
           /\ \A b \in Calls : b # a => call'[b] = call[b]
BY DEF TypeOK

\* A call is made: it has neither a connection nor a lock yet.
LEMMA EnterStep ==
    ASSUME IInv, NEW a \in Calls, NEW f \in Frame, call' = [call EXCEPT ![a] = f],
           call[a].at = "none", f.at \in {"connect", "result"}, f.conn = NoConn,
           ~pooled => f.obj = "saver",
           made < MaxCalls, made' = made + 1,
           UNCHANGED <<async, pooled, locked, free, dropped>>
    PROVE  IInv'
<1>1. /\ call' \in [Calls -> Frame] /\ call'[a] = f
      /\ \A b \in Calls : b # a => call'[b] = call[b]
  BY OneCallMoves DEF IInv
<1>2. /\ ~HasConn(a) /\ ~HasConn(a)' /\ ~HasCursor(a) /\ ~HasCursor(a)'
      /\ call[a].conn = NoConn /\ call'[a].conn = NoConn
  BY <1>1 DEF HasConn, HasCursor, IInv, CallsConnected
<1>3. \A b \in Calls : /\ HasConn(b)' <=> HasConn(b)
                       /\ HasCursor(b)' <=> HasCursor(b)
                       /\ call'[b].conn = call[b].conn
                       /\ HasCursor(b) => call'[b].obj = call[b].obj
  BY <1>1, <1>2 DEF HasConn, HasCursor
<1>4. TypeOK'
  BY <1>1 DEF IInv, TypeOK
<1>5. CallsConnected' /\ GeneratorsConnected'
  BY <1>1, <1>3 DEF IInv, CallsConnected, GeneratorsConnected, Pool
<1>6. OneInside' /\ OneHolder'
  BY <1>3 DEF IInv, OneInside, OneHolder, Pool
<1>7. PoolAccounted' /\ LocksAccounted'
  BY <1>3 DEF IInv, PoolAccounted, LocksAccounted, Pool
<1> QED BY <1>4, <1>5, <1>6, <1>7 DEF IInv

\* The frames that calls start with.
NewFrame(f) == f \in Frame /\ f.at \in {"connect", "result"} /\ f.conn = NoConn /\ (~pooled => f.obj = "saver")

LEMMA EnterFrame ==
    ASSUME NEW a \in Calls, NEW o \in Objects, NEW kind \in Kinds, Enter(a, o, kind), ~pooled => o = "saver"
    PROVE  \E f : NewFrame(f) /\ call' = [call EXCEPT ![a] = f]
<1> DEFINE f == [Idle EXCEPT !.at = "connect", !.obj = o, !.kind = kind]
<1>1. NewFrame(f)
  BY DEF NewFrame, Idle, Frame, Objects, Kinds
<1>2. call' = [call EXCEPT ![a] = f]
  BY DEF Enter
<1> HIDE DEF f
<1> QED BY <1>1, <1>2

LEMMA MayCallMade ==
    ASSUME MayCall, made \in 0..MaxCalls
    PROVE  made < MaxCalls /\ made' = made + 1 /\ made' \in 0..MaxCalls
<1>1. made < MaxCalls /\ made' = made + 1 /\ MaxCalls \in Nat
  BY DEF MayCall
<1> QED BY <1>1

LEMMA CallStep ==
    ASSUME IInv, NEW c \in Callers, Call(c) \/ CallFromBody(c) \/ CallSyncFromLoop(c)
    PROVE  IInv'
<1>1. Outer(c) \in Calls /\ Inner(c) \in Calls
  BY DEF Calls, Outer, Inner
<1>2. /\ MayCall /\ made \in 0..MaxCalls
      /\ UNCHANGED <<async, pooled, locked, free, dropped>>
  BY DEF Call, CallFromBody, CallSyncFromLoop, IInv, TypeOK
<1>3. made < MaxCalls /\ made' = made + 1 /\ made' \in 0..MaxCalls
  BY <1>2, MayCallMade
<1>4. \/ \E a \in Calls : \E f : call[a].at = "none" /\ NewFrame(f) /\ call' = [call EXCEPT ![a] = f]
      \/ UNCHANGED call
  <2>1. CASE Call(c)
    <3>1. PICK o \in Objects, kind \in Kinds :
            Enter(Outer(c), o, kind) /\ (~pooled => o = "saver")
      BY <2>1 DEF Call, Objects, Kinds
    <3> QED BY <1>1, <2>1, <3>1, EnterFrame DEF Call, At
  <2>2. CASE CallFromBody(c)
    <3>1. "store" \in Objects /\ "batch" \in Kinds
      BY DEF Objects, Kinds
    <3> QED BY <1>1, <2>2, <3>1, EnterFrame DEF CallFromBody, At
  <2>3. CASE CallSyncFromLoop(c)
    <3>1. PICK kind \in Kinds :
            \/ UNCHANGED call
            \/ call' = [call EXCEPT ![Outer(c)] = [Idle EXCEPT !.at = "result", !.kind = kind]]
      BY <2>3 DEF CallSyncFromLoop
    <3> DEFINE f == [Idle EXCEPT !.at = "result", !.kind = kind]
    <3>2. NewFrame(f)
      BY DEF NewFrame, Idle, Frame, Objects
    <3>3. UNCHANGED call \/ call' = [call EXCEPT ![Outer(c)] = f]
      BY <3>1
    <3> HIDE DEF f
    <3> QED BY <1>1, <2>3, <3>2, <3>3 DEF CallSyncFromLoop, At
  <2> QED BY <2>1, <2>2, <2>3
<1>5. CASE \E a \in Calls : \E f : call[a].at = "none" /\ NewFrame(f) /\ call' = [call EXCEPT ![a] = f]
  BY <1>2, <1>3, <1>5, EnterStep DEF NewFrame
<1>6. CASE UNCHANGED call
  <2>1. TypeOK'
    BY <1>2, <1>3, <1>6 DEF IInv, TypeOK
  <2>2. \A a \in Calls : (HasConn(a)' <=> HasConn(a)) /\ (HasCursor(a)' <=> HasCursor(a))
    BY <1>6 DEF HasConn, HasCursor
  <2>3. CallsConnected' /\ GeneratorsConnected'
    BY <1>2, <1>6, <2>2 DEF IInv, CallsConnected, GeneratorsConnected, Pool
  <2>4. OneInside' /\ OneHolder'
    BY <1>2, <1>6, <2>2 DEF IInv, OneInside, OneHolder, Pool
  <2>5. PoolAccounted' /\ LocksAccounted'
    BY <1>2, <1>6, <2>2 DEF IInv, PoolAccounted, LocksAccounted, Pool
  <2> QED BY <2>1, <2>3, <2>4, <2>5 DEF IInv
<1> QED BY <1>4, <1>5, <1>6

\* A call gets a connection: an idle one of the pool, which nobody holds, or
\* the one its object was given.
LEMMA GetConnectionStep ==
    ASSUME IInv, NEW a \in Calls, GetConnection(a)
    PROVE  IInv'
<1> USE Connections
<1>1. PICK k \in Pool \cup {Single} :
        /\ k \in Pool <=> pooled
        /\ k \in Pool => k \in free
        /\ free' = free \ ({k} \cap Pool)
        /\ call' = [call EXCEPT ![a] = [call[a] EXCEPT !.at = "lock", !.conn = k]]
  <2>1. call[a] \in Frame /\ call \in [Calls -> Frame] /\ free \subseteq Pool
    BY DEF IInv, TypeOK
  <2>2. CASE pooled
    <3>1. PICK k \in free : /\ free' = free \ {k}
                            /\ call' = [call EXCEPT ![a].at = "lock", ![a].conn = k]
      BY <2>2 DEF GetConnection
    <3>2. call' = [call EXCEPT ![a] = [call[a] EXCEPT !.at = "lock", !.conn = k]]
      BY <2>1, <3>1
    <3>3. k \in Pool /\ free' = free \ ({k} \cap Pool)
      BY <2>1, <3>1
    <3> QED BY <2>2, <3>2, <3>3
  <2>3. CASE ~pooled
    <3>1. call' = [call EXCEPT ![a].at = "lock", ![a].conn = Single] /\ free' = free
      BY <2>3 DEF GetConnection
    <3>2. call' = [call EXCEPT ![a] = [call[a] EXCEPT !.at = "lock", !.conn = Single]]
      BY <2>1, <3>1
    <3>3. free' = free \ ({Single} \cap Pool)
      BY <3>1
    <3> QED BY <2>3, <3>2, <3>3
  <2> QED BY <2>2, <2>3
<1> DEFINE f == [call[a] EXCEPT !.at = "lock", !.conn = k]
<1>2. call[a].at = "connect" /\ UNCHANGED <<async, pooled, locked, dropped, made>>
  BY DEF GetConnection, At
<1>3. f \in Frame /\ f.at = "lock" /\ f.conn = k /\ f.obj = call[a].obj
  BY DEF IInv, TypeOK, Frame
<1> HIDE DEF f
<1>4. /\ call' \in [Calls -> Frame] /\ call'[a] = f
      /\ \A b \in Calls : b # a => call'[b] = call[b]
  BY <1>1, <1>3, OneCallMoves DEF IInv, f
<1>5. /\ ~HasCursor(a) /\ ~HasCursor(a)' /\ ~HasConn(a) /\ HasConn(a)' /\ call[a].conn = NoConn
      /\ \A b \in Calls : b # a => (HasConn(b)' <=> HasConn(b)) /\ (HasCursor(b)' <=> HasCursor(b))
  BY <1>2, <1>3, <1>4 DEF HasConn, HasCursor, IInv, CallsConnected
<1>6. TypeOK'
  BY <1>1, <1>2, <1>4 DEF IInv, TypeOK
<1>7. CallsConnected' /\ GeneratorsConnected'
  BY <1>1, <1>2, <1>3, <1>4, <1>5 DEF IInv, CallsConnected, GeneratorsConnected, Pool
<1>8. OneInside'
  BY <1>2, <1>3, <1>4, <1>5 DEF IInv, OneInside
<1>9. OneHolder'
  <2>1. k \in Pool => (\A b \in Calls : call[b].conn # k) /\ (\A g \in dropped : g.conn # k)
    BY <1>1 DEF IInv, PoolAccounted
  <2> QED
    BY <1>2, <1>3, <1>4, <1>5, <2>1 DEF IInv, OneHolder, CallsConnected, Pool
<1>10. PoolAccounted'
  BY <1>1, <1>2, <1>3, <1>4, <1>5 DEF IInv, PoolAccounted, Pool
<1>11. LocksAccounted'
  BY <1>2, <1>3, <1>4, <1>5 DEF IInv, LocksAccounted
<1> QED BY <1>6, <1>7, <1>8, <1>9, <1>10, <1>11 DEF IInv

\* A call gets the lock of its object, which nobody has.
LEMMA AcquireLockStep ==
    ASSUME IInv, NEW a \in Calls, AcquireLock(a)
    PROVE  IInv'
<1> DEFINE f == [call[a] EXCEPT !.at = "execute"]
           o == call[a].obj
<1>1. /\ call[a].at = "lock" /\ o \notin locked /\ locked' = locked \cup {o}
      /\ call' = [call EXCEPT ![a] = f]
      /\ UNCHANGED <<async, pooled, free, dropped, made>>
  BY DEF AcquireLock, At, Goto, TakesLock, IInv, TypeOK, Frame
<1>2. f \in Frame /\ f.at = "execute" /\ f.conn = call[a].conn /\ f.obj = o /\ o \in Objects
  BY DEF IInv, TypeOK, Frame
<1> HIDE DEF f
<1>3. /\ call' \in [Calls -> Frame] /\ call'[a] = f
      /\ \A b \in Calls : b # a => call'[b] = call[b]
  BY <1>1, <1>2, OneCallMoves DEF IInv
<1>4. /\ ~HasCursor(a) /\ HasCursor(a)' /\ HasConn(a) /\ HasConn(a)'
      /\ \A b \in Calls : b # a => (HasConn(b)' <=> HasConn(b)) /\ (HasCursor(b)' <=> HasCursor(b))
      /\ \A b \in Calls : call'[b].obj = call[b].obj /\ call'[b].conn = call[b].conn
  BY <1>1, <1>2, <1>3 DEF HasConn, HasCursor
<1>5. TypeOK'
  BY <1>1, <1>2, <1>3 DEF IInv, TypeOK
<1>6. CallsConnected' /\ GeneratorsConnected'
  BY <1>1, <1>4 DEF IInv, CallsConnected, GeneratorsConnected, Pool
<1>7. OneInside'
  <2>1. /\ \A b \in Calls : HasCursor(b) => call[b].obj # o
        /\ \A g \in dropped : g.obj # o
    BY <1>1, <1>2 DEF IInv, LocksAccounted
  <2> QED BY <1>1, <1>4, <2>1 DEF IInv, OneInside
<1>8. OneHolder'
  BY <1>1, <1>4 DEF IInv, OneHolder, Pool
<1>9. PoolAccounted'
  BY <1>1, <1>4 DEF IInv, PoolAccounted, Pool
<1>10. LocksAccounted'
  BY <1>1, <1>4 DEF IInv, LocksAccounted
<1> QED BY <1>5, <1>6, <1>7, <1>8, <1>9, <1>10 DEF IInv

\* The first tuple of list: the call keeps what it has.
LEMMA YieldTuplesStep ==
    ASSUME IInv, NEW a \in Calls, YieldTuples(a)
    PROVE  IInv'
<1> DEFINE f == [call[a] EXCEPT !.at = "yield"]
<1>1. /\ call[a].at = "execute" /\ call' = [call EXCEPT ![a] = f]
      /\ UNCHANGED <<async, pooled, locked, free, dropped, made>>
  BY DEF YieldTuples, At, Goto
<1>2. f \in Frame /\ f.at = "yield" /\ f.conn = call[a].conn /\ f.obj = call[a].obj
  BY DEF IInv, TypeOK, Frame
<1> HIDE DEF f
<1>3. /\ call' \in [Calls -> Frame] /\ call'[a] = f
      /\ \A b \in Calls : b # a => call'[b] = call[b]
  BY <1>1, <1>2, OneCallMoves DEF IInv
<1>4. \A b \in Calls : /\ HasConn(b)' <=> HasConn(b)
                       /\ HasCursor(b)' <=> HasCursor(b)
                       /\ call'[b].obj = call[b].obj /\ call'[b].conn = call[b].conn
  BY <1>1, <1>2, <1>3 DEF HasConn, HasCursor
<1>5. TypeOK'
  BY <1>1, <1>3 DEF IInv, TypeOK
<1>6. CallsConnected' /\ GeneratorsConnected'
  BY <1>1, <1>4 DEF IInv, CallsConnected, GeneratorsConnected, Pool
<1>7. OneInside' /\ OneHolder'
  BY <1>1, <1>4 DEF IInv, OneInside, OneHolder, Pool
<1>8. PoolAccounted' /\ LocksAccounted'
  BY <1>1, <1>4 DEF IInv, PoolAccounted, LocksAccounted, Pool
<1> QED BY <1>5, <1>6, <1>7, <1>8 DEF IInv

\* A call ends: its connection is given back, and its lock if it has one.
LEMMA EndStep ==
    ASSUME IInv, NEW a \in Calls, call' = [call EXCEPT ![a] = Idle],
           free' = GivenBack(call[a].conn),
           locked' = IF HasCursor(a) THEN locked \ {call[a].obj} ELSE locked,
           UNCHANGED <<async, pooled, dropped, made>>
    PROVE  IInv'
<1> USE Connections
<1> DEFINE k == call[a].conn
           o == call[a].obj
<1>1. Idle \in Frame /\ Idle.conn = NoConn /\ Idle.at = "none" /\ Idle.obj = "saver"
  BY DEF Idle, Frame, Objects, Kinds
<1>2. /\ call' \in [Calls -> Frame] /\ call'[a] = Idle
      /\ \A b \in Calls : b # a => call'[b] = call[b]
  BY <1>1, OneCallMoves DEF IInv
<1>3. /\ ~HasConn(a)' /\ ~HasCursor(a)' /\ call'[a].conn = NoConn
      /\ \A b \in Calls : b # a => (HasConn(b)' <=> HasConn(b)) /\ (HasCursor(b)' <=> HasCursor(b))
  BY <1>1, <1>2 DEF HasConn, HasCursor
<1>4. TypeOK'
  <2>1. free' \subseteq Pool
    BY DEF GivenBack, IInv, TypeOK
  <2>2. locked' \subseteq Objects
    BY DEF IInv, TypeOK
  <2> QED BY <1>2, <2>1, <2>2 DEF IInv, TypeOK
<1>5. CallsConnected' /\ GeneratorsConnected'
  BY <1>1, <1>2, <1>3 DEF IInv, CallsConnected, GeneratorsConnected, Pool
<1>6. OneInside'
  BY <1>2, <1>3 DEF IInv, OneInside
<1>7. OneHolder'
  BY <1>2, <1>3 DEF IInv, OneHolder, Pool
<1>8. PoolAccounted'
  <2> SUFFICES ASSUME NEW j \in Pool
               PROVE  j \in free' <=> (\A b \in Calls : call'[b].conn # j) /\ (\A g \in dropped : g.conn # j)
    BY DEF PoolAccounted, Pool
  <2>1. j \in free <=> (\A b \in Calls : call[b].conn # j) /\ (\A g \in dropped : g.conn # j)
    BY DEF IInv, PoolAccounted
  <2>2. CASE j = k
    <3>1. (\A b \in Calls : b # a => call[b].conn # j) /\ (\A g \in dropped : g.conn # j)
      BY <2>2 DEF IInv, OneHolder, CallsConnected
    <3>2. j \in free'
      BY <2>2 DEF GivenBack
    <3> QED BY <1>2, <1>3, <3>1, <3>2
  <2>3. CASE j # k
    <3>1. j \in free' <=> j \in free
      BY <2>3 DEF GivenBack
    <3> QED BY <1>2, <1>3, <2>1, <2>3, <3>1
  <2> QED BY <2>2, <2>3
<1>9. LocksAccounted'
  <2> SUFFICES ASSUME NEW p \in Objects
               PROVE  p \in locked' <=> \/ \E b \in Calls : HasCursor(b)' /\ call'[b].obj = p
                                        \/ \E g \in dropped : g.obj = p
    BY DEF LocksAccounted
  <2>1. p \in locked <=> \/ \E b \in Calls : HasCursor(b) /\ call[b].obj = p
                         \/ \E g \in dropped : g.obj = p
    BY DEF IInv, LocksAccounted
  <2>2. CASE HasCursor(a) /\ p = o
    <3>1. (\A b \in Calls : b # a /\ HasCursor(b) => call[b].obj # p) /\ (\A g \in dropped : g.obj # p)
      BY <2>2 DEF IInv, OneInside
    <3>2. p \notin locked'
      BY <2>2
    <3> QED BY <1>2, <1>3, <3>1, <3>2
  <2>3. CASE ~(HasCursor(a) /\ p = o)
    <3>1. p \in locked' <=> p \in locked
      BY <2>3
    <3> QED BY <1>2, <1>3, <2>1, <2>3, <3>1
  <2> QED BY <2>2, <2>3
<1> QED BY <1>4, <1>5, <1>6, <1>7, <1>8, <1>9 DEF IInv

LEMMA LeaveStep ==
    ASSUME IInv, NEW a \in Calls, Return(a) \/ Raise(a) \/ Exhaust(a)
    PROVE  IInv'
<1>1. HasCursor(a) /\ Leave(a)
  BY DEF Return, Raise, Exhaust, At, HasCursor
<1> QED BY <1>1, EndStep DEF Leave

LEMMA CancelStep ==
    ASSUME IInv, NEW a \in Calls, Cancel(a)
    PROVE  IInv'
<1>1. ~HasCursor(a)
  BY DEF Cancel, HasCursor
<1> QED BY <1>1, EndStep DEF Cancel

\* A loop over list ends early: what the call has passes to its generator.
LEMMA AbandonStep ==
    ASSUME IInv, NEW a \in Calls, Abandon(a)
    PROVE  IInv'
<1> USE Connections
<1> DEFINE h == [obj |-> call[a].obj, conn |-> call[a].conn]
<1>1. /\ HasCursor(a) /\ HasConn(a) /\ call' = [call EXCEPT ![a] = Idle]
      /\ dropped' = dropped \cup {h}
      /\ UNCHANGED <<async, pooled, locked, free, made>>
  BY DEF Abandon, At, HasCursor, HasConn
<1>2. Idle \in Frame /\ Idle.conn = NoConn /\ Idle.at = "none" /\ Idle.obj = "saver"
  BY DEF Idle, Frame, Objects, Kinds
<1>3. /\ call' \in [Calls -> Frame] /\ call'[a] = Idle
      /\ \A b \in Calls : b # a => call'[b] = call[b]
  BY <1>1, <1>2, OneCallMoves DEF IInv
<1>4. /\ ~HasConn(a)' /\ ~HasCursor(a)' /\ call'[a].conn = NoConn
      /\ \A b \in Calls : b # a => (HasConn(b)' <=> HasConn(b)) /\ (HasCursor(b)' <=> HasCursor(b))
  BY <1>2, <1>3 DEF HasConn, HasCursor
<1>5. h \in Generator /\ h.obj = call[a].obj /\ h.conn = call[a].conn
  BY <1>1 DEF Generator, IInv, TypeOK, Frame, CallsConnected
<1> HIDE DEF h
<1>6. TypeOK'
  BY <1>1, <1>3, <1>5 DEF IInv, TypeOK
<1>7. CallsConnected' /\ GeneratorsConnected'
  <2>1. h.conn \in Pool <=> pooled
    BY <1>1, <1>5 DEF IInv, CallsConnected
  <2>2. ~pooled => h.obj = "saver"
    BY <1>5 DEF IInv, CallsConnected
  <2> QED BY <1>1, <1>2, <1>3, <1>4, <2>1, <2>2 DEF IInv, CallsConnected, GeneratorsConnected, Pool
<1>8. OneInside'
  BY <1>1, <1>3, <1>4, <1>5 DEF IInv, OneInside
<1>9. OneHolder'
  <2>1. /\ \A b \in Calls : b # a /\ call[b].conn \in Pool => call[b].conn # h.conn
        /\ \A g \in dropped : h.conn \in Pool => g.conn # h.conn
    BY <1>1, <1>5 DEF IInv, OneHolder
  <2> QED BY <1>1, <1>3, <1>4, <2>1 DEF IInv, OneHolder, Pool
<1>10. PoolAccounted'
  BY <1>1, <1>3, <1>4, <1>5 DEF IInv, PoolAccounted, Pool
<1>11. LocksAccounted'
  BY <1>1, <1>3, <1>4, <1>5 DEF IInv, LocksAccounted
<1> QED BY <1>6, <1>7, <1>8, <1>9, <1>10, <1>11 DEF IInv

\* A generator is collected.
LEMMA CollectStep ==
    ASSUME IInv, NEW g \in dropped, Collect(g)
    PROVE  IInv'
<1> USE Connections
<1>1. /\ dropped' = dropped \ {g} /\ locked' = locked \ {g.obj} /\ free' = GivenBack(g.conn)
      /\ UNCHANGED <<async, pooled, call, made>>
  BY DEF Collect
<1>2. \A b \in Calls : (HasConn(b)' <=> HasConn(b)) /\ (HasCursor(b)' <=> HasCursor(b))
  BY <1>1 DEF HasConn, HasCursor
<1>3. TypeOK'
  BY <1>1 DEF IInv, TypeOK, GivenBack
<1>4. CallsConnected' /\ GeneratorsConnected'
  BY <1>1, <1>2 DEF IInv, CallsConnected, GeneratorsConnected, Pool
<1>5. OneInside' /\ OneHolder'
  BY <1>1, <1>2 DEF IInv, OneInside, OneHolder, Pool
<1>6. PoolAccounted'
  <2> SUFFICES ASSUME NEW j \in Pool
               PROVE  j \in free' <=> (\A b \in Calls : call'[b].conn # j) /\ (\A h \in dropped' : h.conn # j)
    BY DEF PoolAccounted, Pool
  <2>1. j \in free <=> (\A b \in Calls : call[b].conn # j) /\ (\A h \in dropped : h.conn # j)
    BY DEF IInv, PoolAccounted
  <2>2. CASE j = g.conn
    <3>1. (\A b \in Calls : call[b].conn # j) /\ (\A h \in dropped : h # g => h.conn # j)
      BY <2>2 DEF IInv, OneHolder
    <3>2. j \in free'
      BY <1>1, <2>2 DEF GivenBack
    <3> QED BY <1>1, <3>1, <3>2
  <2>3. CASE j # g.conn
    <3>1. j \in free' <=> j \in free
      BY <1>1, <2>3 DEF GivenBack
    <3> QED BY <1>1, <2>1, <2>3, <3>1
  <2> QED BY <2>2, <2>3
<1>7. LocksAccounted'
  <2>1. (\A b \in Calls : HasCursor(b) => call[b].obj # g.obj) /\ (\A h \in dropped : h # g => h.obj # g.obj)
    BY DEF IInv, OneInside
  <2> QED BY <1>1, <1>2, <2>1 DEF IInv, LocksAccounted
<1> QED BY <1>3, <1>4, <1>5, <1>6, <1>7 DEF IInv

LEMMA StutterIInv ==
    ASSUME IInv, UNCHANGED vars
    PROVE  IInv'
<1>1. UNCHANGED <<async, pooled, call, locked, free, dropped, made>>
  BY DEF vars
<1>2. \A a \in Calls : (HasConn(a)' <=> HasConn(a)) /\ (HasCursor(a)' <=> HasCursor(a))
  BY <1>1 DEF HasConn, HasCursor
<1> QED
  BY <1>1, <1>2 DEF IInv, TypeOK, CallsConnected, GeneratorsConnected, OneInside, OneHolder,
                    PoolAccounted, LocksAccounted, Pool

LEMMA NextIInv == IInv /\ [Next]_vars => IInv'
<1> SUFFICES ASSUME IInv, [Next]_vars PROVE IInv'
  OBVIOUS
<1>1. CASE \E c \in Callers : Call(c) \/ CallFromBody(c) \/ CallSyncFromLoop(c)
  BY <1>1, CallStep
<1>2. CASE \E a \in Calls : Step(a)
  BY <1>2, GetConnectionStep, AcquireLockStep, LeaveStep, YieldTuplesStep DEF Step
<1>3. CASE \E a \in Calls : Raise(a) \/ Abandon(a) \/ Cancel(a)
  BY <1>3, LeaveStep, AbandonStep, CancelStep
<1>4. CASE \E g \in dropped : Collect(g)
  BY <1>4, CollectStep
<1>5. CASE UNCHANGED vars
  BY <1>5, StutterIInv
<1> QED BY <1>1, <1>2, <1>3, <1>4, <1>5 DEF Next

-----------------------------------------------------------------------------
\* The inductive invariant holds in every reachable state.
THEOREM Invariance == Spec => []IInv
BY InitIInv, NextIInv, PTL DEF Spec

\* Calls, locks, connections and generators are what the model says they are.
THEOREM TypeCorrect == Spec => []TypeOK
<1>1. IInv => TypeOK
  BY DEF IInv
<1> QED BY <1>1, Invariance, PTL

\* Two calls never use one connection at the same time, whether they run in
\* threads or in coroutines, with a pool or with a single connection (the
\* lock in _cursor, store/mysql/base.py:313).
THEOREM ConnectionHasOneUser == Spec => []OneUserPerConnection
<1>1. IInv => OneUserPerConnection
  BY IInvImplies
<1> QED BY <1>1, Invariance, PTL

\* However calls end, by return, exception, cancellation or an abandoned loop
\* over list, the pool misses exactly the connections in use, and the locks
\* taken are those of the calls inside (the exits of _cursor and
\* get_connection).
THEOREM NothingIsLeaked == Spec => []NothingLeaked
<1>1. IInv => NothingLeaked
  BY IInvImplies
<1> QED BY <1>1, Invariance, PTL

=============================================================================
