--------------------------- MODULE ShallowProofs ---------------------------
(***************************************************************************)
(* Proofs about ShallowSaver, for every value of its constants: its type   *)
(* invariant, that a stored checkpoint has the values its own put changed, *)
(* and all of its values as long as runs of its scope come one after the   *)
(* other, and which pending writes put drops and which it leaves.          *)
(***************************************************************************)
EXTENDS ShallowInvariant, TLAPS

USE IdsAssumption

-----------------------------------------------------------------------------
\* Lemmas about the operators on tables and transactions.

\* The rows of a table after the changes of a transaction.
LEMMA AppliedRows ==
    ASSUME NEW log, NEW table
    PROVE  /\ DOMAIN Applied(log, table) = (DOMAIN table \ log.del) \cup DOMAIN log.set
           /\ \A k \in DOMAIN Applied(log, table) :
                Applied(log, table)[k] =
                    IF k \in DOMAIN log.set THEN log.set[k] ELSE table[k]
BY DEF Applied

\* With adds or replaces one entry.
LEMMA WithEntry ==
    ASSUME NEW f, NEW k, NEW v
    PROVE  /\ DOMAIN With(f, k, v) = DOMAIN f \cup {k}
           /\ With(f, k, v)[k] = v
           /\ \A x \in DOMAIN f : x # k => With(f, k, v)[x] = f[x]
BY DEF With

\* Without removes entries.
LEMMA WithoutEntries ==
    ASSUME NEW f, NEW K
    PROVE  /\ DOMAIN Without(f, K) = DOMAIN f \ K
           /\ \A x \in DOMAIN f \ K : Without(f, K)[x] = f[x]
BY DEF Without

\* An INSERT that overwrites adds its row to the transaction of s, in one table.
LEMMA UpsertEffect ==
    ASSUME TxShape, NEW s \in Savers, NEW tb \in Tables, NEW k, NEW row,
           Upsert(s, tb, k, row)
    PROVE  /\ TxShape'
           /\ \A r \in Savers \ {s} : tx'[r] = tx[r]
           /\ \A u \in Tables \ {tb} : tx'[s][u] = tx[s][u]
           /\ tx'[s][tb].set = With(tx[s][tb].set, k, row)
           /\ tx'[s][tb].del = tx[s][tb].del
           /\ tx'[s][tb].rows = tx[s][tb].rows \cup {k}
           /\ tx'[s][tb].ranges = tx[s][tb].ranges
BY DEF TxShape, Upsert, Fields

\* INSERT IGNORE does so unless the transaction already sees the row.
LEMMA InsertIgnoreEffect ==
    ASSUME TxShape, NEW s \in Savers, NEW tb \in Tables, NEW k, NEW row,
           InsertIgnore(s, tb, k, row)
    PROVE  /\ TxShape'
           /\ \A r \in Savers \ {s} : tx'[r] = tx[r]
           /\ \A u \in Tables \ {tb} : tx'[s][u] = tx[s][u]
           /\ \/ tx'[s][tb].set = tx[s][tb].set
              \/ tx'[s][tb].set = With(tx[s][tb].set, k, row)
           /\ tx'[s][tb].del = tx[s][tb].del
           /\ tx'[s][tb].rows = tx[s][tb].rows \cup {k}
           /\ tx'[s][tb].ranges = tx[s][tb].ranges
BY DEF TxShape, InsertIgnore, Fields

\* A transaction that ended changes nothing.
LEMMA NoTxEmpty ==
    /\ DOMAIN NoTx = Tables
    /\ \A tb \in Tables :
         /\ DOMAIN NoTx[tb] = Fields
         /\ DOMAIN NoTx[tb].set = {} /\ NoTx[tb].del = {}
         /\ NoTx[tb].rows = {} /\ NoTx[tb].ranges = {}
BY DEF NoTx, NoChange, Empty, Fields, Tables

\* Ending the transaction of s.
LEMMA EndTxEffect ==
    ASSUME TxShape, NEW s \in Savers, tx' = [tx EXCEPT ![s] = NoTx]
    PROVE  /\ TxShape'
           /\ tx'[s] = NoTx
           /\ \A r \in Savers \ {s} : tx'[r] = tx[r]
BY NoTxEmpty DEF TxShape

-----------------------------------------------------------------------------
\* What a step leaves alone stays as it is.

\* The transaction of a saver that does not move; no write is added to a scope
\* it has locked.
LEMMA FrameTx ==
    ASSUME IInv, NEW r \in Savers, tx'[r] = tx[r], pc'[r] = pc[r],
           r \in DOMAIN call' <=> r \in DOMAIN call,
           r \in DOMAIN call => call'[r] = call[r],
           \A i \in DOMAIN asked : asked'[i] = asked[i],
           \A k \in DOMAIN db'.writes \ DOMAIN db.writes : ScopeOf(k) \notin tx[r].writes.ranges
    PROVE  TxOf(r)'
<1>1. TxOf(r)
  BY DEF IInv, TxOfCall
<1>2. ASSUME r \in DOMAIN call, call[r].op = "put", PutTx(r) PROVE PutTx(r)'
  <2>1. call[r].id \in DOMAIN asked
    BY <1>2 DEF IInv, Shapes, CallShape, InPut, InPutWrites, RunShape
  <2> DEFINE i == call[r].id  a == asked[i]  sc == ScopeOf(a)
  <2>2. call'[r].id = i /\ asked'[i] = a /\ call'[r].todo = call[r].todo
    BY <1>2, <2>1
  <2>3. \A k \in DOMAIN db'.writes : ScopeOf(k) = sc => k \in DOMAIN db.writes
    BY <1>2 DEF PutTx
  <2> QED BY <1>2, <2>2, <2>3 DEF PutTx
<1>3. ASSUME WriteTx(r) PROVE WriteTx(r)'
  BY <1>3 DEF WriteTx
<1> QED BY <1>1, <1>2, <1>3 DEF TxOf

\* Transactions and their locks, when a step leaves the tables alone and at most
\* ends a transaction.
LEMMA FrameLocks ==
    ASSUME IInv, UNCHANGED db,
           \A r \in Savers : tx'[r] = tx[r] \/ tx'[r] = NoTx
    PROVE  ScopeLocks'
<1>1. \A r \in Savers : \/ tx'[r] = tx[r]
                        \/ /\ tx'[r].writes.rows = {} /\ tx'[r].writes.ranges = {}
                           /\ DOMAIN tx'[r].writes.set = {}
  BY NoTxEmpty DEF Tables
<1> QED BY <1>1 DEF IInv, ScopeLocks

\* The calls, when no saver moves and the runs in a call stay as they are.
LEMMA FrameCall ==
    ASSUME IInv, UNCHANGED <<pc, call>>,
           \A r \in DOMAIN call : r \in DOMAIN run' /\ run'[r] = run[r],
           \A i \in DOMAIN asked : asked'[i] = asked[i]
    PROVE  CallShape'
<1>1. ASSUME NEW r \in DOMAIN call PROVE (InPut(r) \/ InPutWrites(r))'
  <2>1. CASE InPut(r)
    BY <2>1 DEF InPut, IInv, Shapes, RunShape, CallShape
  <2>2. CASE InPutWrites(r)
    BY <2>2 DEF InPutWrites
  <2> QED BY <2>1, <2>2 DEF IInv, Shapes, CallShape
<1> QED BY <1>1 DEF IInv, Shapes, CallShape

\* The rows, when a step leaves them and what put was asked to store alone.
LEMMA FrameRows ==
    ASSUME IInv, UNCHANGED db, mixed \subseteq mixed',
           DOMAIN asked \subseteq DOMAIN asked', \A i \in DOMAIN asked : asked'[i] = asked[i]
    PROVE  RowsOK' /\ OwnStored' /\ ReadBack'
<1>1. \A sc \in DOMAIN db.checkpoints : db.checkpoints[sc].id \in DOMAIN asked
  BY DEF IInv, RowsOK
<1> QED BY <1>1 DEF IInv, RowsOK, OwnStored, ReadBack, Loaded

\* The runs, when a step leaves them and the rows alone.
LEMMA FrameRuns ==
    ASSUME IInv, UNCHANGED <<db, run, asked, mixed>>
    PROVE  /\ AskedShape' /\ RunShape' /\ RowsOK' /\ OwnStored' /\ ReadBack'
           /\ OneRun' /\ RunHolds'
<1>1. AskedShape' /\ RunShape' /\ OneRun'
  BY DEF IInv, Shapes, AskedShape, RunShape, OneRun
<1>2. RunHolds'
  BY DEF IInv, RunHolds, StoredIds, StoredChans, StoredVals, Loaded
<1> QED BY <1>1, <1>2, FrameRows

-----------------------------------------------------------------------------
\* One lemma per action or group of actions that change the same variables.

LEMMA InitIInv == Init => IInv
<1> SUFFICES ASSUME Init PROVE IInv
  OBVIOUS
<1>1. /\ DOMAIN db = Tables /\ \A tb \in Tables : DOMAIN db[tb] = {}
      /\ tx = [s \in Savers |-> NoTx] /\ pc = [s \in Savers |-> "idle"]
      /\ DOMAIN call = {} /\ DOMAIN run = {} /\ DOMAIN asked = {}
  BY DEF Init, Empty
<1>2. DOMAIN db.checkpoints = {} /\ DOMAIN db.blobs = {} /\ DOMAIN db.writes = {}
  BY <1>1 DEF Tables
<1>3. \A s \in Savers :
        /\ tx[s] = NoTx /\ DOMAIN tx[s] = Tables
        /\ \A tb \in Tables :
             /\ DOMAIN tx[s][tb] = Fields
             /\ DOMAIN tx[s][tb].set = {} /\ tx[s][tb].del = {}
             /\ tx[s][tb].rows = {} /\ tx[s][tb].ranges = {}
  BY <1>1, NoTxEmpty
<1>4. Shapes
  BY <1>1, <1>3 DEF Shapes, TxShape, AskedShape, RunShape, CallShape
<1>5. RowsOK /\ OwnStored /\ ReadBack
  BY <1>1, <1>2 DEF RowsOK, OwnStored, ReadBack
<1>6. TxOfCall /\ ScopeLocks
  BY <1>1, <1>3 DEF TxOfCall, TxOf, ScopeLocks, Tables
<1>7. OneRun /\ RunHolds
  BY <1>1 DEF OneRun, RunHolds
<1> QED BY <1>4, <1>5, <1>6, <1>7 DEF IInv

\* A stored checkpoint is one that was put.
LEMMA StoredCheckpoint ==
    ASSUME IInv, NEW sc \in DOMAIN db.checkpoints
    PROVE  LET i == db.checkpoints[sc].id IN
           /\ i \in DOMAIN asked /\ ScopeOf(asked[i]) = sc
           /\ db.checkpoints[sc] = [id |-> i, chans |-> asked[i].chans]
           /\ db.checkpoints[sc].chans = asked[i].chans
           /\ asked[i].new \subseteq asked[i].chans /\ asked[i].chans \subseteq Channels
           /\ asked[i].vals \in ValueMap
<1>1. LET i == db.checkpoints[sc].id IN
        /\ i \in DOMAIN asked /\ ScopeOf(asked[i]) = sc
        /\ db.checkpoints[sc] = [id |-> i, chans |-> asked[i].chans]
  BY DEF IInv, RowsOK
<1>2. AskedShape
  BY DEF IInv, Shapes
<1> QED BY <1>1, <1>2 DEF AskedShape

\* What get_tuple gives has the right type.
LEMMA LoadedType ==
    ASSUME IInv, NEW sc
    PROVE  /\ Loaded(sc) \in ValueMap
           /\ StoredVals(sc) \in ValueMap
<1>1. \A k \in DOMAIN db.blobs : db.blobs[k] \in Objects \cup {NoVal}
  BY DEF IInv, RowsOK
<1>2. Loaded(sc) \in ValueMap
  BY <1>1 DEF Loaded, LoadedValues, ValueMap
<1>3. [ch \in Channels |-> NoVal] \in ValueMap
  BY DEF ValueMap
<1> QED BY <1>2, <1>3 DEF StoredVals

\* A run starts from what is stored in its scope.
LEMMA StartStep ==
    ASSUME IInv, NEW s \in Savers, NEW t \in Threads, NEW n \in Namespaces,
           NEW i \in StoredIds(Scope(t, n)), pc[s] = "idle",
           StartRun(s, Scope(t, n), i, StoredChans(Scope(t, n)), StoredVals(Scope(t, n))),
           UNCHANGED <<db, tx, pc, call, asked>>
    PROVE  IInv'
<1> DEFINE sc == Scope(t, n)
           b == [thread |-> sc.thread, ns |-> sc.ns, id |-> i, chans |-> StoredChans(sc),
                 vals |-> StoredVals(sc), ids |-> {i} \cap Ids, unput |-> FALSE]
<1>1. s \notin DOMAIN run /\ run' = With(run, s, b)
      /\ mixed' = IF \E r \in DOMAIN run : ScopeOf(run[r]) = sc THEN mixed \cup {sc} ELSE mixed
  BY DEF StartRun
<1>2. /\ DOMAIN run' = DOMAIN run \cup {s} /\ run'[s] = b
      /\ \A r \in DOMAIN run : run'[r] = run[r]
  <2> HIDE DEF b
  <2> QED BY <1>1 DEF With
<1>3. /\ DOMAIN b = {"thread", "ns", "id", "chans", "vals", "ids", "unput"}
      /\ b.thread = t /\ b.ns = n /\ b.id = i /\ b.unput = FALSE
      /\ b.chans = StoredChans(sc) /\ b.vals = StoredVals(sc) /\ ScopeOf(b) = sc
  BY DEF Scope, ScopeOf
<1>4. i \in DOMAIN asked \cup NoIds
  BY DEF StoredIds, IInv, RowsOK
<1>5. b.chans \subseteq Channels
  BY <1>3, StoredCheckpoint DEF StoredChans
<1>6. b.vals \in ValueMap
  BY <1>3, LoadedType
<1> HIDE DEF b
<1>7. RunShape'
  BY <1>2, <1>3, <1>4, <1>5, <1>6 DEF IInv, Shapes, RunShape
<1>8. CallShape'
  BY <1>2, FrameCall DEF IInv, Shapes, CallShape
<1>9. TxShape' /\ AskedShape' /\ ScopeLocks'
  BY DEF IInv, Shapes, TxShape, AskedShape, ScopeLocks
<1>10. TxOfCall'
  BY FrameTx DEF TxOfCall
<1>11. OneRun'
  <2> SUFFICES ASSUME NEW q \in DOMAIN run', NEW r \in DOMAIN run', q # r,
                      ScopeOf(run'[q]) = ScopeOf(run'[r])
               PROVE  ScopeOf(run'[q]) \in mixed'
    BY DEF OneRun
  <2>1. CASE q = s \/ r = s
    BY <2>1, <1>1, <1>2, <1>3
  <2>2. CASE q # s /\ r # s
    BY <2>2, <1>1, <1>2 DEF IInv, OneRun
  <2> QED BY <2>1, <2>2
<1>12. \A x : StoredIds(x)' = StoredIds(x) /\ StoredChans(x)' = StoredChans(x) /\ StoredVals(x)' = StoredVals(x)
  BY DEF StoredIds, StoredChans, StoredVals, Loaded
<1>13. RunHolds'
  <2> SUFFICES ASSUME NEW r \in DOMAIN run', ScopeOf(run'[r]) \notin mixed'
               PROVE  LET x == ScopeOf(run'[r]) IN
                 IF run'[r].unput
                 THEN LET a == asked[run'[r].id] IN
                      \/ run'[r].id \in StoredIds(x)
                      \/ /\ a.parent \in StoredIds(x)
                         /\ a.chans = StoredChans(x) \cup a.new
                         /\ \A ch \in Channels \ a.new : a.vals[ch] = StoredVals(x)[ch]
                 ELSE /\ run'[r].id \in StoredIds(x)
                      /\ run'[r].chans = StoredChans(x)
                      /\ run'[r].vals = StoredVals(x)
    BY <1>12 DEF RunHolds
  <2>1. CASE r = s
    BY <2>1, <1>2, <1>3
  <2>2. CASE r # s
    BY <2>2, <1>1, <1>2 DEF IInv, RunHolds
  <2> QED BY <2>1, <2>2
<1>14. RowsOK' /\ OwnStored' /\ ReadBack'
  BY <1>1, FrameRows
<1> QED BY <1>7, <1>8, <1>9, <1>10, <1>11, <1>13, <1>14 DEF IInv, Shapes

LEMMA GetTupleStep ==
    ASSUME IInv, NEW s \in Savers, GetTupleCall(s)
    PROVE  IInv'
<1>1. PICK t \in Threads, n \in Namespaces : GetTuple(s, t, n) \/ GetNone(s, t, n)
  BY DEF GetTupleCall
<1> DEFINE sc == Scope(t, n)
<1>2. CASE GetTuple(s, t, n)
  <2>1. /\ pc[s] = "idle" /\ sc \in DOMAIN db.checkpoints
        /\ StartRun(s, sc, db.checkpoints[sc].id, db.checkpoints[sc].chans, Loaded(sc))
        /\ UNCHANGED <<db, tx, pc, call, asked>>
    BY <1>2 DEF GetTuple
  <2>2. /\ db.checkpoints[sc].id \in StoredIds(sc)
        /\ StoredChans(sc) = db.checkpoints[sc].chans /\ StoredVals(sc) = Loaded(sc)
    BY <2>1 DEF StoredIds, StoredChans, StoredVals
  <2> QED BY <2>1, <2>2, StartStep
<1>3. CASE GetNone(s, t, n)
  <2>1. PICK i \in {NoId, NullId} : StartRun(s, sc, i, {}, [ch \in Channels |-> NoVal])
    BY <1>3 DEF GetNone
  <2>2. sc \notin DOMAIN db.checkpoints /\ pc[s] = "idle" /\ UNCHANGED <<db, tx, pc, call, asked>>
    BY <1>3 DEF GetNone
  <2>3. /\ i \in StoredIds(sc)
        /\ StoredChans(sc) = {} /\ StoredVals(sc) = [ch \in Channels |-> NoVal]
    BY <2>2 DEF StoredIds, StoredChans, StoredVals, NoIds
  <2> QED BY <2>1, <2>2, <2>3, StartStep
<1> QED BY <1>1, <1>2, <1>3

\* The run computes its next checkpoint from what it holds.
LEMMA NextCheckpointStep ==
    ASSUME IInv, NEW s \in Savers, NextCheckpoint(s)
    PROVE  IInv'
<1>0. PICK i \in Ids, new \in SUBSET Channels : \E fresh \in [new -> Objects \cup {NoVal}] :
         LET a == [thread |-> run[s].thread, ns |-> run[s].ns, parent |-> run[s].id,
                   new |-> new, chans |-> run[s].chans \cup new,
                   vals |-> [ch \in Channels |->
                               IF ch \in new THEN fresh[ch] ELSE run[s].vals[ch]]]
         IN /\ DOMAIN asked = {j \in Ids : j < i}
            /\ \A ch \in new : fresh[ch] = NoVal => run[s].vals[ch] # NoVal
            /\ asked' = With(asked, i, a)
            /\ run' = [run EXCEPT ![s].id = i, ![s].chans = a.chans, ![s].vals = a.vals,
                                  ![s].ids = @ \cup {i}, ![s].unput = TRUE]
  BY DEF NextCheckpoint
<1>1. PICK fresh \in [new -> Objects \cup {NoVal}] :
         LET a == [thread |-> run[s].thread, ns |-> run[s].ns, parent |-> run[s].id,
                   new |-> new, chans |-> run[s].chans \cup new,
                   vals |-> [ch \in Channels |->
                               IF ch \in new THEN fresh[ch] ELSE run[s].vals[ch]]]
         IN /\ DOMAIN asked = {j \in Ids : j < i}
            /\ \A ch \in new : fresh[ch] = NoVal => run[s].vals[ch] # NoVal
            /\ asked' = With(asked, i, a)
            /\ run' = [run EXCEPT ![s].id = i, ![s].chans = a.chans, ![s].vals = a.vals,
                                  ![s].ids = @ \cup {i}, ![s].unput = TRUE]
  BY <1>0
<1>2. /\ pc[s] = "idle" /\ s \in DOMAIN run /\ ~run[s].unput
      /\ UNCHANGED <<db, tx, pc, call, mixed>>
  BY DEF NextCheckpoint
<1> DEFINE b == run[s]
           vals == [ch \in Channels |-> IF ch \in new THEN fresh[ch] ELSE b.vals[ch]]
           a == [thread |-> b.thread, ns |-> b.ns, parent |-> b.id,
                 new |-> new, chans |-> b.chans \cup new, vals |-> vals]
<1>3. b.thread \in Threads /\ b.ns \in Namespaces /\ b.chans \subseteq Channels
      /\ b.vals \in ValueMap
      /\ DOMAIN b = {"thread", "ns", "id", "chans", "vals", "ids", "unput"}
  BY <1>2 DEF IInv, Shapes, RunShape
<1>4. vals \in ValueMap
  BY <1>3 DEF ValueMap
<1>5. /\ a.thread = b.thread /\ a.ns = b.ns /\ a.parent = b.id /\ a.new = new
      /\ a.chans = b.chans \cup new /\ a.vals = vals /\ ScopeOf(a) = ScopeOf(b)
  BY DEF ScopeOf
<1>6. /\ DOMAIN asked' = DOMAIN asked \cup {i} /\ asked'[i] = a /\ i \notin DOMAIN asked
      /\ \A j \in DOMAIN asked : asked'[j] = asked[j]
  <2>1. asked' = With(asked, i, a)
    BY <1>1
  <2>2. i \notin DOMAIN asked
    <3>1. DOMAIN asked = {j \in Ids : j < i}
      BY <1>1
    <3> QED BY <3>1
  <2> HIDE DEF a
  <2> QED BY <2>1, <2>2 DEF With
<1>7. /\ DOMAIN run' = DOMAIN run /\ \A r \in DOMAIN run : r # s => run'[r] = run[r]
      /\ DOMAIN run'[s] = DOMAIN b
      /\ run'[s].thread = b.thread /\ run'[s].ns = b.ns
      /\ run'[s].id = i /\ run'[s].chans = a.chans /\ run'[s].vals = a.vals /\ run'[s].unput = TRUE
  <2>1. run' = [run EXCEPT ![s].id = i, ![s].chans = a.chans, ![s].vals = a.vals,
                           ![s].ids = @ \cup {i}, ![s].unput = TRUE]
    BY <1>1
  <2> HIDE DEF a
  <2> QED BY <1>2, <1>3, <2>1
<1>8. ScopeOf(run'[s]) = ScopeOf(b)
  BY <1>7 DEF ScopeOf
<1>9. vals = [ch \in Channels |-> vals[ch]] /\ \A ch \in Channels \ new : vals[ch] = b.vals[ch]
  OBVIOUS
<1> HIDE DEF a, vals
<1>10. AskedShape'
  BY <1>3, <1>4, <1>5, <1>6 DEF IInv, Shapes, AskedShape
<1>11. RunShape'
  <2> SUFFICES ASSUME NEW r \in DOMAIN run
               PROVE /\ DOMAIN run'[r] = {"thread", "ns", "id", "chans", "vals", "ids", "unput"}
                     /\ run'[r].thread \in Threads /\ run'[r].ns \in Namespaces
                     /\ run'[r].id \in DOMAIN asked' \cup NoIds
                     /\ run'[r].chans \subseteq Channels /\ run'[r].vals \in ValueMap
                     /\ run'[r].unput \in BOOLEAN
                     /\ run'[r].unput =>
                          /\ run'[r].id \in DOMAIN asked'
                          /\ ScopeOf(asked'[run'[r].id]) = ScopeOf(run'[r])
                          /\ asked'[run'[r].id].chans = run'[r].chans
                          /\ asked'[run'[r].id].vals = run'[r].vals
    BY <1>7 DEF RunShape, IInv, Shapes
  <2>1. CASE r = s
    BY <2>1, <1>3, <1>4, <1>5, <1>6, <1>7, <1>8
  <2>2. CASE r # s
    BY <2>2, <1>6, <1>7 DEF IInv, Shapes, RunShape
  <2> QED BY <2>1, <2>2
<1>12. CallShape'
  <2>1. s \notin DOMAIN call
    BY <1>2 DEF IInv, Shapes, CallShape
  <2>3. DOMAIN call \subseteq DOMAIN run
    BY DEF IInv, Shapes, CallShape
  <2>4. \A r \in DOMAIN call : run'[r] = run[r]
    BY <1>7, <2>1, <2>3
  <2> QED BY <1>2, <1>6, <1>7, <2>3, <2>4, FrameCall
<1>13. TxShape' /\ ScopeLocks'
  BY <1>2 DEF IInv, Shapes, TxShape, ScopeLocks
<1>14. TxOfCall'
  BY <1>2, <1>6, FrameTx DEF TxOfCall
<1>15. RowsOK' /\ OwnStored' /\ ReadBack'
  BY <1>2, <1>6, FrameRows
<1>16. \A r \in DOMAIN run : ScopeOf(run'[r]) = ScopeOf(run[r])
  BY <1>7, <1>8
<1>17. OneRun'
  BY <1>2, <1>7, <1>16 DEF IInv, OneRun
<1>18. \A x : StoredIds(x)' = StoredIds(x) /\ StoredChans(x)' = StoredChans(x) /\ StoredVals(x)' = StoredVals(x)
  BY <1>2 DEF StoredIds, StoredChans, StoredVals, Loaded
<1>19. RunHolds'
  <2> SUFFICES ASSUME NEW r \in DOMAIN run, ScopeOf(run[r]) \notin mixed
               PROVE  LET x == ScopeOf(run[r]) IN
                 IF run'[r].unput
                 THEN LET c == asked'[run'[r].id] IN
                      \/ run'[r].id \in StoredIds(x)
                      \/ /\ c.parent \in StoredIds(x)
                         /\ c.chans = StoredChans(x) \cup c.new
                         /\ \A ch \in Channels \ c.new : c.vals[ch] = StoredVals(x)[ch]
                 ELSE /\ run'[r].id \in StoredIds(x)
                      /\ run'[r].chans = StoredChans(x)
                      /\ run'[r].vals = StoredVals(x)
    BY <1>2, <1>7, <1>16, <1>18 DEF RunHolds
  <2>1. CASE r = s
    <3>1. b.id \in StoredIds(ScopeOf(b)) /\ b.chans = StoredChans(ScopeOf(b)) /\ b.vals = StoredVals(ScopeOf(b))
      BY <2>1, <1>2 DEF IInv, RunHolds
    <3> QED BY <2>1, <3>1, <1>5, <1>6, <1>7, <1>9
  <2>2. CASE r # s
    <3>1. run[r].unput => run[r].id \in DOMAIN asked
      BY DEF IInv, Shapes, RunShape
    <3> QED BY <2>2, <3>1, <1>6, <1>7 DEF IInv, RunHolds
  <2> QED BY <2>1, <2>2
<1> QED BY <1>10, <1>11, <1>12, <1>13, <1>14, <1>15, <1>17, <1>19 DEF IInv, Shapes

LEMMA EndRunStep ==
    ASSUME IInv, NEW s \in Savers, EndRun(s)
    PROVE  IInv'
<1>1. UNCHANGED <<db, tx, pc, call, asked, mixed>> /\ pc[s] = "idle"
  BY DEF EndRun
<1>2. /\ DOMAIN run' = DOMAIN run \ {s}
      /\ \A r \in DOMAIN run \ {s} : run'[r] = run[r]
  BY WithoutEntries DEF EndRun
<1>3. RunShape' /\ OneRun'
  BY <1>1, <1>2 DEF IInv, Shapes, RunShape, OneRun
<1>4. RunHolds'
  <2>1. \A x : StoredIds(x)' = StoredIds(x) /\ StoredChans(x)' = StoredChans(x) /\ StoredVals(x)' = StoredVals(x)
    BY <1>1 DEF StoredIds, StoredChans, StoredVals, Loaded
  <2> QED BY <1>1, <1>2, <2>1 DEF IInv, RunHolds
<1>5. CallShape'
  <2>1. s \notin DOMAIN call
    BY <1>1 DEF IInv, Shapes, CallShape
  <2>2. DOMAIN call \subseteq DOMAIN run
    BY DEF IInv, Shapes, CallShape
  <2> QED BY <1>1, <1>2, <2>1, <2>2, FrameCall
<1>6. TxShape' /\ AskedShape' /\ ScopeLocks'
  BY <1>1 DEF IInv, Shapes, TxShape, AskedShape, ScopeLocks
<1>7. TxOfCall'
  BY <1>1, FrameTx DEF TxOfCall
<1>8. RowsOK' /\ OwnStored' /\ ReadBack'
  BY <1>1, FrameRows
<1> QED BY <1>3, <1>4, <1>5, <1>6, <1>7, <1>8 DEF IInv, Shapes

\* What is known of a saver whose put executes its statements.
LEMMA PutKnown ==
    ASSUME IInv, NEW s \in Savers, pc[s] # "idle", call[s].op = "put"
    PROVE  /\ s \in DOMAIN call /\ InPut(s)
           /\ s \in DOMAIN run /\ run[s].unput /\ run[s].id = call[s].id
           /\ call[s].id \in DOMAIN asked
           /\ ScopeOf(asked[call[s].id]) = ScopeOf(run[s])
           /\ asked[call[s].id].thread \in Threads /\ asked[call[s].id].ns \in Namespaces
           /\ asked[call[s].id].new \subseteq Channels
           /\ asked[call[s].id].vals \in ValueMap
           /\ pc[s] \notin {"raised", "delete"} => PutTx(s)
<1>1. s \in DOMAIN call /\ s \in DOMAIN run
  BY DEF IInv, Shapes, CallShape
<1>2. InPut(s)
  BY <1>1 DEF IInv, Shapes, CallShape, InPutWrites
<1>3. /\ run[s].unput /\ run[s].id = call[s].id /\ call[s].id \in DOMAIN asked
      /\ ScopeOf(asked[call[s].id]) = ScopeOf(run[s])
  BY <1>1, <1>2 DEF InPut, IInv, Shapes, RunShape
<1>4. /\ asked[call[s].id].thread \in Threads /\ asked[call[s].id].ns \in Namespaces
      /\ asked[call[s].id].new \subseteq Channels /\ asked[call[s].id].vals \in ValueMap
  BY <1>3 DEF IInv, Shapes, AskedShape
<1>5. pc[s] \notin {"raised", "delete"} => PutTx(s)
  BY <1>1 DEF IInv, TxOfCall, TxOf
<1> QED BY <1>1, <1>2, <1>3, <1>4, <1>5

\* put begins, or put_writes does: nothing is open yet.
LEMMA BeginStep ==
    ASSUME IInv, NEW s \in Savers, NEW c, NEW label, label # "idle",
           pc[s] \in {"idle", "raised"}, s \in DOMAIN run,
           \/ call' = With(call, s, c)
           \/ s \in DOMAIN call /\ call' = [call EXCEPT ![s] = c],
           pc' = [pc EXCEPT ![s] = label],
           \/ /\ c.op = "put" /\ DOMAIN c = {"op", "id", "todo"} /\ label = "delete"
              /\ run[s].unput /\ c.id = run[s].id /\ c.todo = asked[c.id].new
           \/ /\ c.op = "put_writes" /\ c.writes \in WriteLists
              /\ DOMAIN c = {"op", "thread", "ns", "id", "task", "writes", "next"}
              /\ label \in {"writes", "commit"}
              /\ label = "writes" => c.next \in 1..Len(c.writes),
           UNCHANGED <<db, tx, run, asked, mixed>>
    PROVE  IInv'
<1>1. pc \in [Savers -> Statements \cup {"idle", "raised"}]
  BY DEF IInv, Shapes, CallShape
<1>2. pc'[s] = label /\ \A r \in Savers \ {s} : pc'[r] = pc[r]
  BY <1>1
<1>3. /\ DOMAIN call' = DOMAIN call \cup {s} /\ call'[s] = c
      /\ \A r \in DOMAIN call : r # s => call'[r] = call[r]
  BY DEF With
<1>4. CallShape'
  <2>1. pc' \in [Savers -> Statements \cup {"idle", "raised"}]
    BY <1>1 DEF Statements
  <2>2. DOMAIN call' = {r \in Savers : pc'[r] # "idle"}
    BY <1>2, <1>3 DEF IInv, Shapes, CallShape
  <2>3. ASSUME NEW r \in DOMAIN call' PROVE (InPut(r) \/ InPutWrites(r))'
    <3>1. CASE r = s
      BY <3>1, <1>2, <1>3 DEF InPut, InPutWrites
    <3>2. CASE r # s
      <4>1. r \in DOMAIN call /\ pc'[r] = pc[r] /\ call'[r] = call[r]
        BY <3>2, <1>2, <1>3 DEF IInv, Shapes, CallShape
      <4>2. InPut(r) \/ InPutWrites(r)
        BY <4>1 DEF IInv, Shapes, CallShape
      <4> QED BY <4>1, <4>2 DEF InPut, InPutWrites
    <3> QED BY <3>1, <3>2
  <2>4. DOMAIN call' \subseteq DOMAIN run'
    BY <1>3 DEF IInv, Shapes, CallShape
  <2> QED BY <2>1, <2>2, <2>3, <2>4 DEF CallShape
<1>5. TxShape' /\ ScopeLocks'
  BY DEF IInv, Shapes, TxShape, ScopeLocks
<1>6. TxOfCall'
  <2> SUFFICES ASSUME NEW r \in Savers PROVE TxOf(r)'
    BY DEF TxOfCall
  <2>1. CASE r = s
    <3>1. tx'[s] = NoTx
      BY DEF IInv, TxOfCall, TxOf
    <3>2. WriteTx(s)'
      BY <3>1, NoTxEmpty DEF WriteTx, Tables
    <3> QED BY <2>1, <3>1, <3>2, <1>2, <1>3, NoTxEmpty DEF TxOf, Tables
  <2>2. CASE r # s
    BY <2>2, <1>2, <1>3, FrameTx
  <2> QED BY <2>1, <2>2
<1> QED BY <1>4, <1>5, <1>6, FrameRuns DEF IInv, Shapes

LEMMA PutStep ==
    ASSUME IInv, NEW s \in Savers, Put(s)
    PROVE  IInv'
<1> DEFINE c == [op |-> "put", id |-> run[s].id, todo |-> DumpBlobs(asked[run[s].id])]
<1>1. /\ pc[s] = "idle" /\ s \in DOMAIN run /\ run[s].unput /\ call' = With(call, s, c)
      /\ pc' = [pc EXCEPT ![s] = "delete"] /\ UNCHANGED <<db, tx, run, asked, mixed>>
  BY DEF Put, Goto
<1>2. /\ c.op = "put" /\ DOMAIN c = {"op", "id", "todo"} /\ c.id = run[s].id
      /\ c.todo = asked[c.id].new
  BY DEF DumpBlobs
<1> HIDE DEF c
<1> QED BY <1>1, <1>2, BeginStep

LEMMA PutWritesStep ==
    ASSUME IInv, NEW s \in Savers, PutWrites(s)
    PROVE  IInv'
<1>1. PICK i \in run[s].ids, tk \in Tasks, ws \in WriteLists :
         /\ call' = With(call, s,
              [op |-> "put_writes", thread |-> run[s].thread, ns |-> run[s].ns,
               id |-> i, task |-> tk, writes |-> ws, next |-> 1])
         /\ Goto(s, IF ws = <<>> THEN "commit" ELSE "writes")
  BY DEF PutWrites
<1> DEFINE c == [op |-> "put_writes", thread |-> run[s].thread, ns |-> run[s].ns,
                 id |-> i, task |-> tk, writes |-> ws, next |-> 1]
           label == IF ws = <<>> THEN "commit" ELSE "writes"
<1>2. /\ pc[s] = "idle" /\ s \in DOMAIN run /\ UNCHANGED <<db, tx, run, asked, mixed>>
  BY DEF PutWrites
<1>3. /\ c.op = "put_writes" /\ c.writes \in WriteLists /\ c.writes = ws /\ c.next = 1
      /\ DOMAIN c = {"op", "thread", "ns", "id", "task", "writes", "next"}
  OBVIOUS
<1>4. label \in {"writes", "commit"} /\ (label = "writes" => 1 \in 1..Len(ws))
  <2>1. Len(ws) \in Nat /\ ws = [j \in 1..Len(ws) |-> ws[j]]
    BY WriteListsAssumption
  <2> QED BY <2>1
<1>5. call' = With(call, s, c) /\ pc' = [pc EXCEPT ![s] = label]
  BY <1>1 DEF Goto
<1> HIDE DEF c, label
<1> QED BY <1>2, <1>3, <1>4, <1>5, BeginStep

LEMMA RetryStep ==
    ASSUME IInv, NEW s \in Savers, Retry(s)
    PROVE  IInv'
<1>1. pc[s] = "raised" /\ UNCHANGED <<db, tx, run, asked, mixed>>
  BY DEF Retry
<1>2. s \in DOMAIN call /\ s \in DOMAIN run /\ (InPut(s) \/ InPutWrites(s))
  BY <1>1 DEF IInv, Shapes, CallShape
<1>3. CASE call[s].op = "put"
  <2> DEFINE c == [call[s] EXCEPT !.todo = DumpBlobs(asked[call[s].id])]
  <2>1. call' = [call EXCEPT ![s] = c] /\ pc' = [pc EXCEPT ![s] = "delete"]
    BY <1>3 DEF Retry, Goto
  <2>2. DOMAIN call[s] = {"op", "id", "todo"} /\ run[s].unput /\ call[s].id = run[s].id
    BY <1>2, <1>3 DEF InPut, InPutWrites
  <2>3. /\ c.op = "put" /\ DOMAIN c = {"op", "id", "todo"} /\ c.id = run[s].id
        /\ c.todo = asked[c.id].new
    BY <1>3, <2>2 DEF DumpBlobs
  <2> HIDE DEF c
  <2> QED BY <1>1, <1>2, <2>1, <2>2, <2>3, BeginStep
<1>4. CASE call[s].op # "put"
  <2> DEFINE c == [call[s] EXCEPT !.next = 1]
             label == IF call[s].writes = <<>> THEN "commit" ELSE "writes"
  <2>1. call' = [call EXCEPT ![s] = c] /\ pc' = [pc EXCEPT ![s] = label]
    BY <1>4 DEF Retry, Goto
  <2>2. InPutWrites(s)
    BY <1>2, <1>4 DEF InPut
  <2>3. /\ c.op = "put_writes" /\ c.writes \in WriteLists /\ c.next = 1
        /\ DOMAIN c = {"op", "thread", "ns", "id", "task", "writes", "next"}
        /\ c.writes = call[s].writes
    BY <2>2 DEF InPutWrites
  <2>4. label \in {"writes", "commit"} /\ (label = "writes" => 1 \in 1..Len(c.writes))
    <3> DEFINE ws == call[s].writes
    <3>1. ws \in WriteLists
      BY <2>2 DEF InPutWrites
    <3>2. Len(ws) \in Nat /\ ws = [j \in 1..Len(ws) |-> ws[j]]
      BY <3>1, WriteListsAssumption
    <3> QED BY <2>3, <3>2
  <2> HIDE DEF c, label
  <2> QED BY <1>1, <1>2, <2>1, <2>3, <2>4, BeginStep
<1> QED BY <1>3, <1>4

\* The calls, when a saver in a call goes on to a statement of it.
LEMMA GoOnCall ==
    ASSUME IInv, NEW s \in Savers, pc[s] # "idle", NEW c, NEW label \in Statements \cup {"raised"},
           call' = [call EXCEPT ![s] = c] \/ (call' = call /\ c = call[s]),
           pc' = [pc EXCEPT ![s] = label],
           UNCHANGED <<run, asked>>, (InPut(s) \/ InPutWrites(s))'
    PROVE  /\ CallShape'
           /\ DOMAIN call' = DOMAIN call /\ s \in DOMAIN call
           /\ pc'[s] = label /\ call'[s] = c
           /\ \A r \in Savers \ {s} : pc'[r] = pc[r]
           /\ \A r \in DOMAIN call : r # s => call'[r] = call[r]
<1>1. pc \in [Savers -> Statements \cup {"idle", "raised"}] /\ s \in DOMAIN call
  BY DEF IInv, Shapes, CallShape
<1>2. /\ pc'[s] = label /\ \A r \in Savers \ {s} : pc'[r] = pc[r]
      /\ pc' \in [Savers -> Statements \cup {"idle", "raised"}]
  BY <1>1
<1>3. /\ DOMAIN call' = DOMAIN call /\ call'[s] = c
      /\ \A r \in DOMAIN call : r # s => call'[r] = call[r]
  BY <1>1
<1>4. label # "idle"
  BY DEF Statements
<1>5. DOMAIN call' = {r \in Savers : pc'[r] # "idle"} /\ DOMAIN call' \subseteq DOMAIN run'
  BY <1>2, <1>3, <1>4 DEF IInv, Shapes, CallShape
<1>6. ASSUME NEW r \in DOMAIN call' PROVE (InPut(r) \/ InPutWrites(r))'
  <2>1. CASE r # s
    <3>1. r \in DOMAIN call /\ pc'[r] = pc[r] /\ call'[r] = call[r]
      BY <2>1, <1>2, <1>3 DEF IInv, Shapes, CallShape
    <3>2. InPut(r) \/ InPutWrites(r)
      BY <3>1 DEF IInv, Shapes, CallShape
    <3> QED BY <3>1, <3>2 DEF InPut, InPutWrites
  <2> QED BY <2>1
<1> QED BY <1>1, <1>2, <1>3, <1>5, <1>6 DEF CallShape

LEMMA PutDeleteStep ==
    ASSUME IInv, NEW s \in Savers, PutDelete(s)
    PROVE  IInv'
<1> DEFINE i == call[s].id  a == asked[i]  sc == ScopeOf(a)
           label == IF a.new = {} THEN "checkpoint" ELSE "blobs"
           scanned == {k \in DOMAIN Seen(s, "writes") : ScopeOf(k) = sc}
<1>1. /\ pc[s] = "delete" /\ DeleteWritesNotIn(s, sc, i, a.parent)
      /\ pc' = [pc EXCEPT ![s] = label] /\ UNCHANGED <<db, call, run, asked, mixed>>
  BY DEF PutDelete, Goto, AfterDelete, DumpBlobs
<1>2. s \in DOMAIN call /\ call[s].op = "put" /\ InPut(s)
  BY <1>1 DEF IInv, Shapes, CallShape, InPut, InPutWrites
<1>3. tx[s] = NoTx /\ TxShape /\ ScopeLocks
  BY <1>1 DEF IInv, Shapes, TxOfCall, TxOf
<1>4. \A tb \in Tables : DOMAIN tx[s][tb].set = {} /\ tx[s][tb].del = {}
                         /\ tx[s][tb].rows = {} /\ tx[s][tb].ranges = {}
  BY <1>3, NoTxEmpty
<1>5. scanned = {k \in DOMAIN db.writes : ScopeOf(k) = sc}
  <2>1. DOMAIN Seen(s, "writes") = (DOMAIN db["writes"] \ tx[s]["writes"].del) \cup DOMAIN tx[s]["writes"].set
    BY DEF Seen, Applied
  <2>2. DOMAIN Seen(s, "writes") = DOMAIN db.writes
    BY <2>1, <1>4 DEF Tables
  <2> QED BY <2>2
<1>6. /\ TxShape'
      /\ \A r \in Savers \ {s} : tx'[r] = tx[r]
      /\ \A u \in Tables \ {"writes"} : tx'[s][u] = tx[s][u]
      /\ tx'[s].writes.set = tx[s].writes.set
      /\ tx'[s].writes.rows = scanned /\ tx'[s].writes.ranges = {sc}
      /\ tx'[s].writes.del = IF a.parent = NullId THEN {}
                             ELSE {k \in scanned : k.id \notin {i, a.parent}}
  <2>1. tx[s].writes.rows = {} /\ tx[s].writes.ranges = {}
    BY <1>4 DEF Tables
  <2> DEFINE p == a.parent
             gone == IF p = NullId THEN {} ELSE {k \in scanned : k.id \notin {i, p}}
  <2>2. tx' = [tx EXCEPT ![s]["writes"].ranges = @ \cup {sc},
                         ![s]["writes"].rows = @ \cup scanned, ![s]["writes"].del = gone]
    BY <1>1 DEF DeleteWritesNotIn
  <2>3. "writes" \in Tables
    BY DEF Tables
  <2> HIDE DEF scanned, sc, i, p, gone
  <2>4. /\ TxShape'
        /\ \A r \in Savers \ {s} : tx'[r] = tx[r]
        /\ \A u \in Tables \ {"writes"} : tx'[s][u] = tx[s][u]
        /\ tx'[s].writes.set = tx[s].writes.set
        /\ tx'[s].writes.rows = tx[s].writes.rows \cup scanned
        /\ tx'[s].writes.ranges = tx[s].writes.ranges \cup {sc}
        /\ tx'[s].writes.del = gone
    BY <1>3, <2>2, <2>3 DEF TxShape, Fields
  <2>5. /\ tx'[s].writes.rows = scanned /\ tx'[s].writes.ranges = {sc}
    BY <2>1, <2>4
  <2> QED BY <2>4, <2>5 DEF gone, p
<1>7. \A r \in Savers \ {s} : \A k \in tx[r].writes.rows : ScopeOf(k) # sc
  BY <1>1 DEF DeleteWritesNotIn, ScannedFree
<1>8. label \in Statements
  BY DEF Statements
<1>9. InPut(s)'
  BY <1>1, <1>2 DEF InPut, IInv, Shapes, CallShape
<1>11. /\ CallShape' /\ DOMAIN call' = DOMAIN call
       /\ pc'[s] = label /\ \A r \in Savers \ {s} : pc'[r] = pc[r]
  BY <1>1, <1>8, <1>9, GoOnCall
<1> HIDE DEF scanned
<1>12. TxOfCall'
  <2> SUFFICES ASSUME NEW r \in Savers PROVE TxOf(r)'
    BY DEF TxOfCall
  <2>1. CASE r = s
    <3>1. PutTx(s)'
      <4>1. call[s].todo = a.new
        BY <1>1, <1>2 DEF InPut
      <4>2. DOMAIN tx'[s].blobs.set = {} /\ DOMAIN tx'[s].checkpoints.set = {}
            /\ DOMAIN tx'[s].writes.set = {}
        BY <1>4, <1>6 DEF Tables
      <4> QED BY <4>1, <4>2, <1>1, <1>5, <1>6, <1>11 DEF PutTx
    <3> QED BY <2>1, <3>1, <1>1, <1>2, <1>4, <1>6, <1>11 DEF TxOf, Tables
  <2>2. CASE r # s
    BY <2>2, <1>1, <1>6, <1>11, FrameTx
  <2> QED BY <2>1, <2>2
<1>13. ScopeLocks'
  <2> SUFFICES ASSUME NEW q \in Savers
               PROVE  /\ DOMAIN tx'[q].writes.set \subseteq tx'[q].writes.rows
                      /\ \A x \in tx'[q].writes.ranges :
                           /\ \A k \in DOMAIN db.writes : ScopeOf(k) = x => k \in tx'[q].writes.rows
                           /\ \A r \in Savers \ {q} : \A k \in tx'[r].writes.rows : ScopeOf(k) # x
    BY <1>1 DEF ScopeLocks
  <2>1. CASE q = s
    BY <2>1, <1>4, <1>5, <1>6, <1>7 DEF Tables
  <2>2. CASE q # s
    <3>1. /\ tx'[q] = tx[q]
          /\ DOMAIN tx[q].writes.set \subseteq tx[q].writes.rows
          /\ \A x \in tx[q].writes.ranges :
               /\ \A k \in DOMAIN db.writes : ScopeOf(k) = x => k \in tx[q].writes.rows
               /\ \A r \in Savers \ {q} : \A k \in tx[r].writes.rows : ScopeOf(k) # x
      BY <2>2, <1>3, <1>6 DEF ScopeLocks
    <3>2. ASSUME NEW x \in tx[q].writes.ranges, NEW k \in scanned PROVE ScopeOf(k) # x
      BY <2>2, <3>1, <3>2, <1>5, <1>7
    <3> QED BY <2>2, <3>1, <3>2, <1>6
  <2> QED BY <2>1, <2>2
<1> QED BY <1>1, <1>6, <1>11, <1>12, <1>13, FrameRuns DEF IInv, Shapes

\* The locks on pending writes, when a statement touches another table.
LEMMA OtherTableLocks ==
    ASSUME IInv, UNCHANGED db, \A r \in Savers : tx'[r].writes = tx[r].writes
    PROVE  ScopeLocks'
BY DEF IInv, ScopeLocks

LEMMA PutBlobStep ==
    ASSUME IInv, NEW s \in Savers, PutBlob(s)
    PROVE  IInv'
<1> DEFINE a == asked[call[s].id]
<1>1. PICK ch \in call[s].todo :
         /\ Upsert(s, "blobs", ShallowBlobKey(a, ch), a.vals[ch])
         /\ call' = [call EXCEPT ![s].todo = @ \ {ch}]
         /\ Goto(s, AfterBlob(s, ch))
  BY DEF PutBlob
<1> DEFINE key(x) == ShallowBlobKey(a, x)
           c == [call[s] EXCEPT !.todo = @ \ {ch}]
           label == IF call[s].todo = {ch} THEN "checkpoint" ELSE "blobs"
<1>2. pc[s] = "blobs" /\ UNCHANGED <<db, run, asked, mixed>>
  BY DEF PutBlob
<1>3. s \in DOMAIN call /\ call[s].op = "put" /\ InPut(s)
  BY <1>2 DEF IInv, Shapes, CallShape, InPut, InPutWrites
<1>4. PutTx(s) /\ TxShape /\ TxOf(s)
  BY <1>2, <1>3 DEF IInv, Shapes, TxOfCall, TxOf
<1>5. /\ call' = [call EXCEPT ![s] = c] /\ pc' = [pc EXCEPT ![s] = label]
      /\ c.op = "put" /\ c.id = call[s].id /\ c.todo = call[s].todo \ {ch}
      /\ DOMAIN c = {"op", "id", "todo"} /\ label \in Statements
  BY <1>1, <1>3 DEF Goto, AfterBlob, InPut, Statements
<1>6. /\ TxShape'
      /\ \A r \in Savers \ {s} : tx'[r] = tx[r]
      /\ \A u \in Tables \ {"blobs"} : tx'[s][u] = tx[s][u]
      /\ tx'[s].blobs.set = With(tx[s].blobs.set, key(ch), a.vals[ch])
      /\ tx'[s].blobs.del = tx[s].blobs.del
  BY <1>1, <1>4, UpsertEffect DEF Tables
<1>7. call[s].todo \subseteq a.new /\ ch \in a.new
  BY <1>3 DEF InPut
<1> HIDE DEF c, label
<1>8. pc \in [Savers -> Statements \cup {"idle", "raised"}]
  BY DEF IInv, Shapes, CallShape
<1>9. label \in {"checkpoint", "blobs"} /\ (label = "checkpoint" => c.todo = {})
  BY <1>5 DEF label
<1>10. InPut(s)'
  BY <1>2, <1>3, <1>5, <1>8, <1>9 DEF InPut
<1>11. /\ CallShape' /\ DOMAIN call' = DOMAIN call
       /\ pc'[s] = label /\ call'[s] = c
       /\ \A r \in Savers \ {s} : pc'[r] = pc[r]
       /\ \A r \in DOMAIN call : r # s => call'[r] = call[r]
  <2>1. pc[s] # "idle" /\ label \in Statements \cup {"raised"} /\ UNCHANGED <<run, asked>>
    BY <1>2, <1>5
  <2>2. (InPut(s) \/ InPutWrites(s))'
    BY <1>10
  <2> QED BY <1>5, <2>1, <2>2, GoOnCall
<1>12. PutTx(s)'
  <2>1. \A x, y : key(x) = key(y) => x = y
    BY DEF ShallowBlobKey
  <2>2. a.new \ c.todo = (a.new \ call[s].todo) \cup {ch}
    BY <1>5, <1>7
  <2> HIDE DEF key
  <2>3. /\ DOMAIN tx'[s].blobs.set = DOMAIN tx[s].blobs.set \cup {key(ch)}
        /\ tx'[s].blobs.set[key(ch)] = a.vals[ch]
        /\ \A x \in DOMAIN tx[s].blobs.set : x # key(ch) => tx'[s].blobs.set[x] = tx[s].blobs.set[x]
    BY <1>6 DEF With
  <2>4. /\ DOMAIN tx[s].blobs.set = {key(x) : x \in a.new \ call[s].todo}
        /\ \A x \in a.new \ call[s].todo : tx[s].blobs.set[key(x)] = a.vals[x]
    BY <1>4 DEF PutTx, key
  <2>5. DOMAIN tx'[s].blobs.set = {key(x) : x \in a.new \ c.todo}
    BY <2>2, <2>3, <2>4
  <2>6. \A x \in a.new \ c.todo : tx'[s].blobs.set[key(x)] = a.vals[x]
    BY <2>1, <2>2, <2>3, <2>4
  <2>7. tx'[s].checkpoints = tx[s].checkpoints /\ tx'[s].writes = tx[s].writes
    BY <1>6 DEF Tables
  <2>8. call'[s].id = call[s].id /\ asked'[call'[s].id] = a /\ call'[s].todo = c.todo
    BY <1>2, <1>5, <1>11
  <2>9. DOMAIN tx'[s].checkpoints.set = {}
    BY <1>2, <1>4, <2>7 DEF PutTx
  <2>10. /\ DOMAIN tx'[s].blobs.set
              = {ShallowBlobKey(asked'[call'[s].id], x) :
                   x \in asked'[call'[s].id].new \ call'[s].todo}
         /\ \A x \in asked'[call'[s].id].new \ call'[s].todo :
              tx'[s].blobs.set[ShallowBlobKey(asked'[call'[s].id], x)] = asked'[call'[s].id].vals[x]
    BY <2>5, <2>6, <2>8 DEF key
  <2>11. pc'[s] \in {"checkpoint", "blobs"} /\ (pc'[s] = "checkpoint" => call'[s].todo = {})
    BY <1>9, <1>11, <2>8
  <2>12. /\ DOMAIN tx[s].writes.set = {} /\ tx[s].writes.ranges = {ScopeOf(a)}
         /\ \A k \in tx[s].writes.del : ScopeOf(k) = ScopeOf(a) /\ k.id \notin {call[s].id, a.parent}
         /\ a.parent # NullId =>
              \A k \in DOMAIN db.writes :
                ScopeOf(k) = ScopeOf(a) /\ k.id \notin {call[s].id, a.parent} => k \in tx[s].writes.del
    BY <1>4 DEF PutTx
  <2> HIDE DEF a
  <2> QED BY <1>2, <2>7, <2>8, <2>9, <2>10, <2>11, <2>12 DEF PutTx
<1>13. TxOfCall'
  <2> SUFFICES ASSUME NEW r \in Savers PROVE TxOf(r)'
    BY DEF TxOfCall
  <2>1. CASE r = s
    <3>1. tx'[s].checkpoints.del = {} /\ tx'[s].blobs.del = {}
      BY <1>4, <1>6 DEF TxOf, Tables
    <3> QED BY <2>1, <3>1, <1>5, <1>9, <1>11, <1>12 DEF TxOf
  <2>2. CASE r # s
    BY <2>2, <1>2, <1>6, <1>11, FrameTx
  <2> QED BY <2>1, <2>2
<1>14. ScopeLocks'
  BY <1>2, <1>6, OtherTableLocks DEF Tables
<1> QED BY <1>2, <1>6, <1>11, <1>13, <1>14, FrameRuns DEF IInv, Shapes

LEMMA PutCheckpointStep ==
    ASSUME IInv, NEW s \in Savers, PutCheckpoint(s)
    PROVE  IInv'
<1> DEFINE i == call[s].id  a == asked[i]  sc == ScopeOf(a)
           row == [id |-> i, chans |-> a.chans]
<1>1. /\ pc[s] = "checkpoint" /\ Upsert(s, "checkpoints", sc, row)
      /\ pc' = [pc EXCEPT ![s] = "commit"] /\ UNCHANGED <<db, call, run, asked, mixed>>
  BY DEF PutCheckpoint, Goto
<1>2. s \in DOMAIN call /\ call[s].op = "put" /\ InPut(s)
  BY <1>1 DEF IInv, Shapes, CallShape, InPut, InPutWrites
<1>3. PutTx(s) /\ TxShape /\ TxOf(s)
  BY <1>1, <1>2 DEF IInv, Shapes, TxOfCall, TxOf
<1>4. /\ TxShape'
      /\ \A r \in Savers \ {s} : tx'[r] = tx[r]
      /\ \A u \in Tables \ {"checkpoints"} : tx'[s][u] = tx[s][u]
      /\ tx'[s].checkpoints.set = With(tx[s].checkpoints.set, sc, row)
      /\ tx'[s].checkpoints.del = tx[s].checkpoints.del
  <2> HIDE DEF row, sc
  <2> QED BY <1>1, <1>3, UpsertEffect DEF Tables
<1>5. pc \in [Savers -> Statements \cup {"idle", "raised"}] /\ "commit" \in Statements
  BY DEF IInv, Shapes, CallShape, Statements
<1>6. InPut(s)'
  BY <1>1, <1>2, <1>5 DEF InPut
<1>7. /\ CallShape' /\ DOMAIN call' = DOMAIN call
      /\ pc'[s] = "commit" /\ \A r \in Savers \ {s} : pc'[r] = pc[r]
  BY <1>1, <1>5, <1>6, GoOnCall
<1>8. PutTx(s)'
  <2>1. DOMAIN tx[s].checkpoints.set = {} /\ call[s].todo = {}
    BY <1>1, <1>3 DEF PutTx
  <2>2. DOMAIN tx'[s].checkpoints.set = {sc} /\ tx'[s].checkpoints.set[sc] = row
    <3> HIDE DEF sc, row
    <3> QED BY <1>4, <2>1 DEF With
  <2>3. tx'[s].blobs = tx[s].blobs /\ tx'[s].writes = tx[s].writes
    BY <1>4 DEF Tables
  <2> QED BY <1>1, <1>3, <1>7, <2>1, <2>2, <2>3 DEF PutTx
<1>9. TxOfCall'
  <2> SUFFICES ASSUME NEW r \in Savers PROVE TxOf(r)'
    BY DEF TxOfCall
  <2>1. CASE r = s
    <3>1. tx'[s].checkpoints.del = {} /\ tx'[s].blobs.del = {}
      BY <1>3, <1>4 DEF TxOf, Tables
    <3> QED BY <2>1, <3>1, <1>1, <1>2, <1>7, <1>8 DEF TxOf
  <2>2. CASE r # s
    BY <2>2, <1>1, <1>4, <1>7, FrameTx
  <2> QED BY <2>1, <2>2
<1>10. ScopeLocks'
  BY <1>1, <1>4, OtherTableLocks DEF Tables
<1> QED BY <1>1, <1>4, <1>7, <1>9, <1>10, FrameRuns DEF IInv, Shapes

LEMMA PutWriteStep ==
    ASSUME IInv, NEW s \in Savers, PutWrite(s)
    PROVE  IInv'
<1> DEFINE w == call[s]
           k == WriteKey(w.thread, w.ns, w.id, w.task, WriteIdx(w.writes, w.next))
           row == w.writes[w.next]
           c == [w EXCEPT !.next = @ + 1]
           label == IF w.next = Len(w.writes) THEN "commit" ELSE "writes"
<1>1. /\ pc[s] = "writes" /\ UNCHANGED <<db, run, asked, mixed>>
      /\ call' = [call EXCEPT ![s] = c] /\ pc' = [pc EXCEPT ![s] = label]
  BY DEF PutWrite, Goto
<1>2. Upsert(s, "writes", k, row) \/ InsertIgnore(s, "writes", k, row)
  BY DEF PutWrite
<1>3. s \in DOMAIN call /\ InPutWrites(s)
  BY <1>1 DEF IInv, Shapes, CallShape, InPut, InPutWrites
<1>4. WriteTx(s) /\ TxShape /\ TxOf(s) /\ ScopeLocks
  BY <1>1, <1>3 DEF IInv, Shapes, TxOfCall, TxOf, InPutWrites
<1>5. /\ w.writes \in WriteLists /\ w.next \in 1..Len(w.writes) /\ Len(w.writes) \in Nat
      /\ WriteRow(row)
  BY <1>1, <1>3, WriteListsAssumption DEF InPutWrites, WriteRow
<1>6. /\ c.op = "put_writes" /\ c.writes = w.writes /\ c.next = w.next + 1
      /\ DOMAIN c = {"op", "thread", "ns", "id", "task", "writes", "next"}
  BY <1>3 DEF InPutWrites
<1>7. label \in {"writes", "commit"} /\ (label = "writes" => w.next + 1 \in 1..Len(w.writes))
  BY <1>5
<1>8. RowFree(s, "writes", k)
  BY <1>2 DEF Upsert, InsertIgnore
<1> HIDE DEF c, label, k, row
<1>9. /\ TxShape'
      /\ \A r \in Savers \ {s} : tx'[r] = tx[r]
      /\ \A u \in Tables \ {"writes"} : tx'[s][u] = tx[s][u]
      /\ \/ tx'[s].writes.set = tx[s].writes.set
         \/ tx'[s].writes.set = With(tx[s].writes.set, k, row)
      /\ tx'[s].writes.del = tx[s].writes.del
      /\ tx'[s].writes.rows = tx[s].writes.rows \cup {k}
      /\ tx'[s].writes.ranges = tx[s].writes.ranges
  BY <1>2, <1>4, UpsertEffect, InsertIgnoreEffect DEF Tables
<1>10. /\ DOMAIN tx'[s].writes.set \subseteq DOMAIN tx[s].writes.set \cup {k}
       /\ \A x \in DOMAIN tx'[s].writes.set :
            tx'[s].writes.set[x] = row \/ (x \in DOMAIN tx[s].writes.set /\ tx'[s].writes.set[x] = tx[s].writes.set[x])
  BY <1>9 DEF With
<1>11. pc \in [Savers -> Statements \cup {"idle", "raised"}] /\ label \in Statements
  BY <1>7 DEF IInv, Shapes, CallShape, Statements
<1>12. InPutWrites(s)'
  <2>1. pc'[s] = label /\ call'[s] = c
    BY <1>1, <1>3, <1>11
  <2> QED BY <2>1, <1>5, <1>6, <1>7 DEF InPutWrites
<1>13. /\ CallShape' /\ DOMAIN call' = DOMAIN call
       /\ pc'[s] = label /\ call'[s] = c
       /\ \A r \in Savers \ {s} : pc'[r] = pc[r]
       /\ \A r \in DOMAIN call : r # s => call'[r] = call[r]
  BY <1>1, <1>11, <1>12, GoOnCall
<1>14. TxOfCall'
  <2> SUFFICES ASSUME NEW r \in Savers PROVE TxOf(r)'
    BY DEF TxOfCall
  <2>1. CASE r = s
    <3>1. tx'[s].checkpoints = tx[s].checkpoints /\ tx'[s].blobs = tx[s].blobs
      BY <1>9 DEF Tables
    <3>2. WriteTx(s)'
      BY <3>1, <1>4, <1>5, <1>9, <1>10 DEF WriteTx
    <3> QED BY <2>1, <3>1, <3>2, <1>4, <1>6, <1>7, <1>13 DEF TxOf
  <2>2. CASE r # s
    BY <2>2, <1>1, <1>9, <1>13, FrameTx
  <2> QED BY <2>1, <2>2
<1>15. \A r \in Savers \ {s} : ScopeOf(k) \notin tx[r].writes.ranges
  <2> SUFFICES ASSUME NEW r \in Savers \ {s}, ScopeOf(k) \in tx[r].writes.ranges PROVE FALSE
    OBVIOUS
  <2>1. k \notin tx[r].writes.rows /\ k \in DOMAIN Seen(s, "writes")
    BY <1>8 DEF RowFree
  <2>2. DOMAIN Seen(s, "writes") \subseteq DOMAIN db.writes \cup DOMAIN tx[s].writes.set
    BY DEF Seen, Applied
  <2>3. k \notin DOMAIN db.writes
    BY <2>1, <1>4 DEF ScopeLocks
  <2>4. k \notin DOMAIN tx[s].writes.set
    BY <1>4 DEF ScopeLocks
  <2> QED BY <2>1, <2>2, <2>3, <2>4
<1>16. ScopeLocks'
  <2> SUFFICES ASSUME NEW q \in Savers
               PROVE  /\ DOMAIN tx'[q].writes.set \subseteq tx'[q].writes.rows
                      /\ \A x \in tx'[q].writes.ranges :
                           /\ \A y \in DOMAIN db.writes : ScopeOf(y) = x => y \in tx'[q].writes.rows
                           /\ \A r \in Savers \ {q} : \A y \in tx'[r].writes.rows : ScopeOf(y) # x
    BY <1>1 DEF ScopeLocks
  <2>1. CASE q = s
    BY <2>1, <1>4, <1>9, <1>10 DEF ScopeLocks, WriteTx
  <2>2. CASE q # s
    BY <2>2, <1>4, <1>9, <1>15 DEF ScopeLocks
  <2> QED BY <2>1, <2>2
<1> QED BY <1>1, <1>9, <1>13, <1>14, <1>16, FrameRuns DEF IInv, Shapes

\* A statement fails: the transaction is rolled back.
LEMMA StatementFailsStep ==
    ASSUME IInv, NEW s \in Savers, StatementFails(s)
    PROVE  IInv'
<1>1. /\ pc[s] \in Statements /\ tx' = [tx EXCEPT ![s] = NoTx]
      /\ pc' = [pc EXCEPT ![s] = "raised"] /\ UNCHANGED <<db, call, run, asked, mixed>>
  BY DEF StatementFails, Goto
<1>2. TxShape' /\ tx'[s] = NoTx /\ \A r \in Savers \ {s} : tx'[r] = tx[r]
  BY <1>1, EndTxEffect DEF IInv, Shapes
<1>3. pc[s] # "idle" /\ s \in DOMAIN call /\ pc \in [Savers -> Statements \cup {"idle", "raised"}]
  BY <1>1 DEF IInv, Shapes, CallShape, Statements
<1>4. (InPut(s) \/ InPutWrites(s))'
  <2>1. InPut(s) \/ InPutWrites(s)
    BY <1>3 DEF IInv, Shapes, CallShape
  <2>2. pc'[s] = "raised"
    BY <1>1, <1>3
  <2> QED BY <2>1, <2>2, <1>1 DEF InPut, InPutWrites
<1>5. /\ CallShape' /\ DOMAIN call' = DOMAIN call
      /\ pc'[s] = "raised" /\ \A r \in Savers \ {s} : pc'[r] = pc[r]
  BY <1>1, <1>3, <1>4, GoOnCall
<1>6. TxOfCall'
  <2> SUFFICES ASSUME NEW r \in Savers PROVE TxOf(r)'
    BY DEF TxOfCall
  <2>1. CASE r = s
    BY <2>1, <1>2, <1>5, NoTxEmpty DEF TxOf, Tables
  <2>2. CASE r # s
    BY <2>2, <1>1, <1>2, <1>5, FrameTx
  <2> QED BY <2>1, <2>2
<1>7. ScopeLocks'
  BY <1>1, <1>2, FrameLocks
<1> QED BY <1>1, <1>2, <1>5, <1>6, <1>7, FrameRuns DEF IInv, Shapes

\* The run ends, and with it the call it is in.
LEMMA StopRunStep ==
    ASSUME IInv, NEW s \in Savers, StopRun(s)
    PROVE  IInv'
<1>1. /\ tx' = [tx EXCEPT ![s] = NoTx] /\ pc' = [pc EXCEPT ![s] = "idle"]
      /\ UNCHANGED <<db, asked, mixed>>
  BY DEF StopRun, Goto
<1>2. TxShape' /\ tx'[s] = NoTx /\ \A r \in Savers \ {s} : tx'[r] = tx[r]
  BY <1>1, EndTxEffect DEF IInv, Shapes
<1>3. /\ DOMAIN call' = DOMAIN call \ {s} /\ \A r \in DOMAIN call \ {s} : call'[r] = call[r]
      /\ DOMAIN run' = DOMAIN run \ {s} /\ \A r \in DOMAIN run \ {s} : run'[r] = run[r]
  BY WithoutEntries DEF StopRun
<1>4. pc \in [Savers -> Statements \cup {"idle", "raised"}]
  BY DEF IInv, Shapes, CallShape
<1>5. /\ pc'[s] = "idle" /\ \A r \in Savers \ {s} : pc'[r] = pc[r]
      /\ pc' \in [Savers -> Statements \cup {"idle", "raised"}]
  BY <1>1, <1>4
<1>6. CallShape'
  <2>1. DOMAIN call' = {r \in Savers : pc'[r] # "idle"} /\ DOMAIN call' \subseteq DOMAIN run'
    BY <1>3, <1>5 DEF IInv, Shapes, CallShape
  <2>2. ASSUME NEW r \in DOMAIN call' PROVE (InPut(r) \/ InPutWrites(r))'
    <3>1. /\ r # s /\ r \in DOMAIN call /\ r \in DOMAIN run
          /\ r \in Savers /\ (InPut(r) \/ InPutWrites(r))
      BY <1>3 DEF IInv, Shapes, CallShape
    <3>2. call'[r] = call[r] /\ run'[r] = run[r] /\ pc'[r] = pc[r]
      BY <3>1, <1>3, <1>5
    <3> QED BY <3>1, <3>2, <1>1 DEF InPut, InPutWrites
  <2> QED BY <1>5, <2>1, <2>2 DEF CallShape
<1>7. AskedShape' /\ RunShape' /\ OneRun'
  BY <1>1, <1>3 DEF IInv, Shapes, AskedShape, RunShape, OneRun
<1>8. RunHolds'
  <2>1. \A x : StoredIds(x)' = StoredIds(x) /\ StoredChans(x)' = StoredChans(x) /\ StoredVals(x)' = StoredVals(x)
    BY <1>1 DEF StoredIds, StoredChans, StoredVals, Loaded
  <2> QED BY <1>1, <1>3, <2>1 DEF IInv, RunHolds
<1>9. TxOfCall'
  <2> SUFFICES ASSUME NEW r \in Savers PROVE TxOf(r)'
    BY DEF TxOfCall
  <2>1. CASE r = s
    BY <2>1, <1>2, <1>3, <1>5, NoTxEmpty DEF TxOf, Tables
  <2>2. CASE r # s
    BY <2>2, <1>1, <1>2, <1>3, <1>5, FrameTx
  <2> QED BY <2>1, <2>2
<1>10. ScopeLocks'
  BY <1>1, <1>2, FrameLocks
<1>11. RowsOK' /\ OwnStored' /\ ReadBack'
  BY <1>1, FrameRows
<1> QED BY <1>2, <1>6, <1>7, <1>8, <1>9, <1>10, <1>11 DEF IInv, Shapes

-----------------------------------------------------------------------------
\* The end of a transaction: its rows are stored, all at once.

LEMMA CommittedTables ==
    ASSUME IInv, NEW s \in Savers, pc[s] = "commit", ServerCommits(s)
    PROVE  /\ TxShape' /\ tx'[s] = NoTx
           /\ \A r \in Savers \ {s} : tx'[r] = tx[r]
           /\ DOMAIN db' = Tables
           /\ db'.checkpoints = Applied(tx[s].checkpoints, db.checkpoints)
           /\ db'.blobs = Applied(tx[s].blobs, db.blobs)
           /\ db'.writes = Applied(tx[s].writes, db.writes)
           /\ \A k \in DOMAIN db'.writes : WriteRow(db'.writes[k])
           /\ \A r \in Savers \ {s} : \A k \in DOMAIN db'.writes \ DOMAIN db.writes :
                ScopeOf(k) \notin tx[r].writes.ranges
           /\ ScopeLocks'
<1>1. /\ db' = [tb \in Tables |-> Applied(tx[s][tb], db[tb])]
      /\ tx' = [tx EXCEPT ![s] = NoTx]
  BY DEF ServerCommits
<1>2. TxShape' /\ tx'[s] = NoTx /\ \A r \in Savers \ {s} : tx'[r] = tx[r]
  BY <1>1, EndTxEffect DEF IInv, Shapes
<1>3. /\ DOMAIN db' = Tables
      /\ db'.checkpoints = Applied(tx[s].checkpoints, db.checkpoints)
      /\ db'.blobs = Applied(tx[s].blobs, db.blobs)
      /\ db'.writes = Applied(tx[s].writes, db.writes)
  BY <1>1 DEF Tables
<1>4. /\ DOMAIN db'.writes = (DOMAIN db.writes \ tx[s].writes.del) \cup DOMAIN tx[s].writes.set
      /\ \A k \in DOMAIN db'.writes :
           db'.writes[k] = IF k \in DOMAIN tx[s].writes.set THEN tx[s].writes.set[k]
                           ELSE db.writes[k]
  BY <1>3 DEF Applied
<1>5. \A k \in DOMAIN tx[s].writes.set : WriteRow(tx[s].writes.set[k])
  <2>1. TxOf(s) /\ s \in DOMAIN call /\ (InPut(s) \/ InPutWrites(s))
    BY DEF IInv, TxOfCall, Shapes, CallShape
  <2>2. PutTx(s) \/ WriteTx(s)
    BY <2>1 DEF TxOf, InPut, InPutWrites
  <2> QED BY <2>2 DEF PutTx, WriteTx
<1>6. \A k \in DOMAIN db.writes : WriteRow(db.writes[k])
  BY DEF IInv, RowsOK
<1>7. \A k \in DOMAIN db'.writes : WriteRow(db'.writes[k])
  BY <1>4, <1>5, <1>6
<1>8. DOMAIN tx[s].writes.set \subseteq tx[s].writes.rows
  BY DEF IInv, ScopeLocks
<1>9. ASSUME NEW r \in Savers \ {s}, NEW k \in DOMAIN db'.writes \ DOMAIN db.writes
      PROVE  ScopeOf(k) \notin tx[r].writes.ranges
  <2>1. k \in tx[s].writes.rows
    BY <1>4, <1>8
  <2> QED BY <2>1 DEF IInv, ScopeLocks
<1>10. tx'[s].writes.rows = {} /\ tx'[s].writes.ranges = {} /\ DOMAIN tx'[s].writes.set = {}
  BY <1>2, NoTxEmpty DEF Tables
<1>11. ScopeLocks'
  <2> SUFFICES ASSUME NEW q \in Savers
               PROVE  /\ DOMAIN tx'[q].writes.set \subseteq tx'[q].writes.rows
                      /\ \A x \in tx'[q].writes.ranges :
                           /\ \A k \in DOMAIN db'.writes : ScopeOf(k) = x => k \in tx'[q].writes.rows
                           /\ \A r \in Savers \ {q} : \A k \in tx'[r].writes.rows : ScopeOf(k) # x
    BY DEF ScopeLocks
  <2>1. CASE q = s
    BY <2>1, <1>10
  <2>2. CASE q # s
    <3>1. /\ tx'[q] = tx[q]
          /\ DOMAIN tx[q].writes.set \subseteq tx[q].writes.rows
          /\ \A x \in tx[q].writes.ranges :
               /\ \A k \in DOMAIN db.writes : ScopeOf(k) = x => k \in tx[q].writes.rows
               /\ \A r \in Savers \ {q} : \A k \in tx[r].writes.rows : ScopeOf(k) # x
      BY <2>2, <1>2 DEF IInv, ScopeLocks
    <3>2. \A x \in tx[q].writes.ranges : \A k \in DOMAIN db'.writes :
            ScopeOf(k) = x => k \in DOMAIN db.writes
      BY <2>2, <1>9
    <3>3. \A r \in Savers : tx'[r].writes.rows \subseteq tx[r].writes.rows
      BY <1>2, <1>10
    <3> QED BY <3>1, <3>2, <3>3
  <2> QED BY <2>1, <2>2
<1> QED BY <1>2, <1>3, <1>7, <1>9, <1>11

\* put stores its blobs and its checkpoint.
LEMMA CommittedPut ==
    ASSUME IInv, NEW s \in Savers, pc[s] = "commit", call[s].op = "put", ServerCommits(s)
    PROVE  LET i == call[s].id
               a == asked[i]
               sc == ScopeOf(a)
               keys == {ShallowBlobKey(a, ch) : ch \in a.new}
           IN /\ DOMAIN db'.checkpoints = DOMAIN db.checkpoints \cup {sc}
              /\ db'.checkpoints[sc] = [id |-> i, chans |-> a.chans]
              /\ \A x \in DOMAIN db.checkpoints \ {sc} : db'.checkpoints[x] = db.checkpoints[x]
              /\ DOMAIN db'.blobs = DOMAIN db.blobs \cup keys
              /\ \A ch \in a.new : db'.blobs[ShallowBlobKey(a, ch)] = a.vals[ch]
              /\ \A k \in DOMAIN db.blobs \ keys : db'.blobs[k] = db.blobs[k]
<1> DEFINE i == call[s].id  a == asked[i]  sc == ScopeOf(a)
           key(ch) == ShallowBlobKey(a, ch)
           keys == {key(ch) : ch \in a.new}
<1>1. PutTx(s)
  BY PutKnown
<1>2. /\ DOMAIN tx[s].blobs.set = keys
      /\ \A ch \in a.new : tx[s].blobs.set[key(ch)] = a.vals[ch]
  BY <1>1 DEF PutTx
<1>3. DOMAIN tx[s].checkpoints.set = {sc} /\ tx[s].checkpoints.set[sc] = [id |-> i, chans |-> a.chans]
  BY <1>1 DEF PutTx
<1>4. tx[s].checkpoints.del = {} /\ tx[s].blobs.del = {}
  BY DEF IInv, TxOfCall, TxOf
<1>5. /\ db'.checkpoints = Applied(tx[s].checkpoints, db.checkpoints)
      /\ db'.blobs = Applied(tx[s].blobs, db.blobs)
  BY CommittedTables
<1> HIDE DEF a, sc, key, keys
<1>6. /\ DOMAIN db'.checkpoints = DOMAIN db.checkpoints \cup {sc}
      /\ db'.checkpoints[sc] = [id |-> i, chans |-> a.chans]
      /\ \A x \in DOMAIN db.checkpoints \ {sc} : db'.checkpoints[x] = db.checkpoints[x]
  BY <1>3, <1>4, <1>5 DEF Applied
<1>7. /\ DOMAIN db'.blobs = DOMAIN db.blobs \cup keys
      /\ \A k \in keys : db'.blobs[k] = tx[s].blobs.set[k]
      /\ \A k \in DOMAIN db.blobs \ keys : db'.blobs[k] = db.blobs[k]
  BY <1>2, <1>4, <1>5 DEF Applied
<1>8. \A ch \in a.new : db'.blobs[key(ch)] = a.vals[ch]
  BY <1>2, <1>7 DEF keys
<1> QED BY <1>6, <1>7, <1>8 DEF a, sc, key, keys

\* put_writes leaves the checkpoints and the blobs alone.
LEMMA CommittedPutWrites ==
    ASSUME IInv, NEW s \in Savers, pc[s] = "commit", call[s].op = "put_writes", ServerCommits(s)
    PROVE  /\ DOMAIN db'.checkpoints = DOMAIN db.checkpoints
           /\ \A x \in DOMAIN db.checkpoints : db'.checkpoints[x] = db.checkpoints[x]
           /\ DOMAIN db'.blobs = DOMAIN db.blobs
           /\ \A k \in DOMAIN db.blobs : db'.blobs[k] = db.blobs[k]
<1>1. s \in DOMAIN call /\ TxOf(s)
  BY DEF IInv, TxOfCall, Shapes, CallShape
<1>2. WriteTx(s) /\ tx[s].checkpoints.del = {} /\ tx[s].blobs.del = {}
  BY <1>1 DEF TxOf
<1>3. /\ db'.checkpoints = Applied(tx[s].checkpoints, db.checkpoints)
      /\ db'.blobs = Applied(tx[s].blobs, db.blobs)
  BY CommittedTables
<1> QED BY <1>2, <1>3 DEF WriteTx, Applied

\* A name for what holds of a scope before and after a step.
SameStored(x) ==
    /\ StoredIds(x)' = StoredIds(x)
    /\ StoredChans(x)' = StoredChans(x)
    /\ StoredVals(x)' = StoredVals(x)

\* put overwrites its scope with what it was asked to store, if its run has had
\* the scope to itself, and leaves the other scopes alone.
LEMMA PutStored ==
    ASSUME IInv, NEW s \in Savers, pc[s] = "commit", call[s].op = "put", ServerCommits(s),
           UNCHANGED <<asked, mixed>>,
           NEW i, i = call[s].id, NEW a, a = asked[i], NEW sc, sc = ScopeOf(a)
    PROVE  /\ StoredIds(sc)' = {i}
           /\ StoredChans(sc)' = a.chans
           /\ sc \notin mixed => StoredVals(sc)' = a.vals
           /\ \A t \in Threads, n \in Namespaces : Scope(t, n) # sc => SameStored(Scope(t, n))
<1> DEFINE keys == {ShallowBlobKey(a, ch) : ch \in a.new}
<1>1. /\ DOMAIN db'.checkpoints = DOMAIN db.checkpoints \cup {sc}
      /\ db'.checkpoints[sc] = [id |-> i, chans |-> a.chans]
      /\ \A x \in DOMAIN db.checkpoints \ {sc} : db'.checkpoints[x] = db.checkpoints[x]
      /\ DOMAIN db'.blobs = DOMAIN db.blobs \cup keys
      /\ \A ch \in a.new : db'.blobs[ShallowBlobKey(a, ch)] = a.vals[ch]
      /\ \A k \in DOMAIN db.blobs \ keys : db'.blobs[k] = db.blobs[k]
  BY CommittedPut
<1>2. /\ s \in DOMAIN run /\ run[s].unput /\ run[s].id = i /\ i \in DOMAIN asked
      /\ sc = ScopeOf(run[s]) /\ a.new \subseteq Channels /\ a.vals \in ValueMap
  BY PutKnown
<1>3. \A ch \in Channels : ShallowBlobKey(sc, ch) = ShallowBlobKey(a, ch)
  BY DEF ShallowBlobKey, ScopeOf, Scope
<1>4. \A ch \in Channels : ShallowBlobKey(a, ch) \in keys <=> ch \in a.new
  BY <1>2 DEF ShallowBlobKey
<1>5. ASSUME NEW t \in Threads, NEW n \in Namespaces, Scope(t, n) # sc
      PROVE  SameStored(Scope(t, n))
  <2> DEFINE x == Scope(t, n)
  <2>1. x \in DOMAIN db'.checkpoints <=> x \in DOMAIN db.checkpoints
    BY <1>1, <1>5
  <2>2. x \in DOMAIN db.checkpoints => db'.checkpoints[x] = db.checkpoints[x]
    BY <1>1, <1>5
  <2>3. \A ch \in Channels : ShallowBlobKey(x, ch) \notin keys
    <3> SUFFICES ASSUME NEW ch \in Channels, NEW c \in a.new,
                        ShallowBlobKey(x, ch) = ShallowBlobKey(a, c)
                 PROVE  FALSE
      OBVIOUS
    <3>1. x.thread = a.thread /\ x.ns = a.ns
      BY DEF ShallowBlobKey
    <3> QED BY <3>1, <1>5 DEF Scope, ScopeOf
  <2>4. \A ch \in Channels :
          /\ ShallowBlobKey(x, ch) \in DOMAIN db'.blobs <=> ShallowBlobKey(x, ch) \in DOMAIN db.blobs
          /\ ShallowBlobKey(x, ch) \in DOMAIN db.blobs =>
               db'.blobs[ShallowBlobKey(x, ch)] = db.blobs[ShallowBlobKey(x, ch)]
    BY <1>1, <2>3
  <2> HIDE DEF x
  <2>5. StoredIds(x)' = StoredIds(x) /\ StoredChans(x)' = StoredChans(x)
    BY <2>1, <2>2 DEF StoredIds, StoredChans
  <2>6. x \in DOMAIN db.checkpoints => Loaded(x)' = Loaded(x)
    BY <2>2, <2>4 DEF Loaded, LoadedValues
  <2>7. StoredVals(x)' = StoredVals(x)
    BY <2>1, <2>6 DEF StoredVals
  <2> QED BY <2>5, <2>7 DEF SameStored, x
<1>6. StoredIds(sc)' = {i} /\ StoredChans(sc)' = a.chans
  <2> QED BY <1>1 DEF StoredIds, StoredChans
<1>7. ASSUME sc \notin mixed PROVE StoredVals(sc)' = a.vals
  <2>1. \A ch \in a.new : ch \in a.chans
    BY <1>2 DEF IInv, Shapes, AskedShape
  <2>2. StoredVals(sc)' = [ch \in Channels |->
           IF ch \in a.chans /\ ShallowBlobKey(sc, ch) \in DOMAIN db'.blobs
           THEN db'.blobs[ShallowBlobKey(sc, ch)] ELSE NoVal]
    <3> QED BY <1>1 DEF StoredVals, Loaded, LoadedValues
  <2>3. ASSUME NEW ch \in a.new PROVE StoredVals(sc)'[ch] = a.vals[ch]
    <3>1. ShallowBlobKey(sc, ch) = ShallowBlobKey(a, ch) /\ ShallowBlobKey(a, ch) \in keys
      BY <1>2, <1>3, <1>4
    <3>2. ShallowBlobKey(sc, ch) \in DOMAIN db'.blobs /\ db'.blobs[ShallowBlobKey(sc, ch)] = a.vals[ch]
      BY <3>1, <1>1
    <3> QED BY <2>1, <2>2, <3>2, <1>2
  <2>4. ASSUME NEW ch \in Channels \ a.new,
               ch \in a.chans <=> ch \in StoredChans(sc), a.vals[ch] = StoredVals(sc)[ch]
        PROVE  StoredVals(sc)'[ch] = a.vals[ch]
    <3>1. ShallowBlobKey(sc, ch) \notin keys
      BY <1>3, <1>4
    <3>2. /\ ShallowBlobKey(sc, ch) \in DOMAIN db'.blobs <=> ShallowBlobKey(sc, ch) \in DOMAIN db.blobs
          /\ ShallowBlobKey(sc, ch) \in DOMAIN db.blobs =>
               db'.blobs[ShallowBlobKey(sc, ch)] = db.blobs[ShallowBlobKey(sc, ch)]
      BY <3>1, <1>1
    <3>3. StoredVals(sc)[ch] = IF ch \in StoredChans(sc) /\ ShallowBlobKey(sc, ch) \in DOMAIN db.blobs
                               THEN db.blobs[ShallowBlobKey(sc, ch)] ELSE NoVal
      BY DEF StoredVals, StoredChans, Loaded, LoadedValues
    <3> QED BY <2>2, <2>4, <3>2, <3>3
  <2>5. ASSUME NEW ch \in Channels \ a.new
        PROVE  (ch \in a.chans <=> ch \in StoredChans(sc)) /\ a.vals[ch] = StoredVals(sc)[ch]
    <3>1. CASE i \in StoredIds(sc)
      <4>1. i \notin NoIds
        BY <1>2 DEF IInv, Shapes, AskedShape, NoIds, NoId, NullId
      <4>2. sc \in DOMAIN db.checkpoints /\ i = db.checkpoints[sc].id
        BY <3>1, <4>1 DEF StoredIds
      <4>3. db.checkpoints[sc].chans = a.chans
        BY <4>2, StoredCheckpoint
      <4>4. Loaded(sc) = a.vals
        BY <4>2, <1>7 DEF IInv, ReadBack
      <4> QED BY <4>2, <4>3, <4>4 DEF StoredChans, StoredVals
    <3>2. CASE i \notin StoredIds(sc)
      <4>1. /\ a.chans = StoredChans(sc) \cup a.new
            /\ \A c \in Channels \ a.new : a.vals[c] = StoredVals(sc)[c]
        BY <3>2, <1>2, <1>7 DEF IInv, RunHolds
      <4> QED BY <4>1
    <3> QED BY <3>1, <3>2
  <2>6. \A ch \in Channels : StoredVals(sc)'[ch] = a.vals[ch]
    BY <2>3, <2>4, <2>5
  <2>7. a.vals = [ch \in Channels |-> a.vals[ch]]
    BY <1>2 DEF ValueMap
  <2>8. StoredVals(sc)' = [ch \in Channels |-> StoredVals(sc)'[ch]]
    <3> QED BY <2>2
  <2> QED BY <2>6, <2>7, <2>8
<1> QED BY <1>5, <1>6, <1>7

\* put_writes leaves what is stored in every scope as it is.
LEMMA PutWritesStored ==
    ASSUME IInv, NEW s \in Savers, pc[s] = "commit", call[s].op = "put_writes", ServerCommits(s),
           NEW x
    PROVE  SameStored(x)
<1>1. /\ DOMAIN db'.checkpoints = DOMAIN db.checkpoints
      /\ \A y \in DOMAIN db.checkpoints : db'.checkpoints[y] = db.checkpoints[y]
      /\ DOMAIN db'.blobs = DOMAIN db.blobs
      /\ \A k \in DOMAIN db.blobs : db'.blobs[k] = db.blobs[k]
  BY CommittedPutWrites
<1>2. x \in DOMAIN db.checkpoints => Loaded(x)' = Loaded(x)
  BY <1>1 DEF Loaded, LoadedValues
<1> QED BY <1>1, <1>2 DEF SameStored, StoredIds, StoredChans, StoredVals

\* The rows are in order after a COMMIT.
LEMMA CommittedRows ==
    ASSUME IInv, NEW s \in Savers, pc[s] = "commit", ServerCommits(s), UNCHANGED <<asked, mixed>>
    PROVE  RowsOK' /\ OwnStored' /\ ReadBack'
<1> DEFINE i == call[s].id  a == asked[i]  sc == ScopeOf(a)
<1>1. call[s].op \in {"put", "put_writes"}
  BY DEF IInv, Shapes, CallShape, InPut, InPutWrites
<1>2. DOMAIN db' = Tables /\ \A k \in DOMAIN db'.writes : WriteRow(db'.writes[k])
  BY CommittedTables
<1>3. \A x \in DOMAIN db.checkpoints :
        /\ db.checkpoints[x].id \in DOMAIN asked /\ ScopeOf(asked[db.checkpoints[x].id]) = x
        /\ db.checkpoints[x] = [id |-> db.checkpoints[x].id, chans |-> asked[db.checkpoints[x].id].chans]
  BY DEF IInv, RowsOK
<1>4. /\ DOMAIN db.blobs \subseteq [thread : Threads, ns : Namespaces, channel : Channels]
      /\ \A k \in DOMAIN db.blobs : db.blobs[k] \in Objects \cup {NoVal}
  BY DEF IInv, RowsOK
<1>5. \A x \in DOMAIN db.checkpoints : \A ch \in asked[db.checkpoints[x].id].new :
        /\ ShallowBlobKey(x, ch) \in DOMAIN db.blobs
        /\ db.blobs[ShallowBlobKey(x, ch)] = asked[db.checkpoints[x].id].vals[ch]
  BY DEF IInv, OwnStored
<1>6. \A x \in DOMAIN db.checkpoints : x \notin mixed => Loaded(x) = asked[db.checkpoints[x].id].vals
  BY DEF IInv, ReadBack
<1>7. CASE call[s].op = "put_writes"
  <2>1. /\ DOMAIN db'.checkpoints = DOMAIN db.checkpoints
        /\ \A x \in DOMAIN db.checkpoints : db'.checkpoints[x] = db.checkpoints[x]
        /\ DOMAIN db'.blobs = DOMAIN db.blobs
        /\ \A k \in DOMAIN db.blobs : db'.blobs[k] = db.blobs[k]
    BY <1>7, CommittedPutWrites
  <2>2. RowsOK'
    BY <1>2, <1>3, <1>4, <2>1 DEF RowsOK
  <2>3. OwnStored'
    BY <1>5, <2>1 DEF OwnStored
  <2>4. \A x \in DOMAIN db.checkpoints : Loaded(x)' = Loaded(x)
    BY <2>1 DEF Loaded, LoadedValues
  <2>5. ReadBack'
    BY <1>6, <2>1, <2>4 DEF ReadBack
  <2> QED BY <2>2, <2>3, <2>5
<1>8. CASE call[s].op = "put"
  <2> DEFINE keys == {ShallowBlobKey(a, ch) : ch \in a.new}
  <2>1. /\ DOMAIN db'.checkpoints = DOMAIN db.checkpoints \cup {sc}
        /\ db'.checkpoints[sc] = [id |-> i, chans |-> a.chans]
        /\ \A x \in DOMAIN db.checkpoints \ {sc} : db'.checkpoints[x] = db.checkpoints[x]
        /\ DOMAIN db'.blobs = DOMAIN db.blobs \cup keys
        /\ \A ch \in a.new : db'.blobs[ShallowBlobKey(a, ch)] = a.vals[ch]
        /\ \A k \in DOMAIN db.blobs \ keys : db'.blobs[k] = db.blobs[k]
    BY <1>8, CommittedPut
  <2>2. /\ i \in DOMAIN asked /\ a.thread \in Threads /\ a.ns \in Namespaces
        /\ a.new \subseteq Channels /\ a.vals \in ValueMap
    BY <1>8, PutKnown
  <2>3. \A ch \in a.new : a.vals[ch] \in Objects \cup {NoVal}
    BY <2>2 DEF ValueMap
  <2>4. keys \subseteq [thread : Threads, ns : Namespaces, channel : Channels]
    BY <2>2 DEF ShallowBlobKey
  <2>5. RowsOK'
    <3>1. /\ DOMAIN db'.blobs \subseteq [thread : Threads, ns : Namespaces, channel : Channels]
          /\ \A k \in DOMAIN db'.blobs : db'.blobs[k] \in Objects \cup {NoVal}
      BY <2>1, <2>3, <2>4, <1>4
    <3>2. \A x \in DOMAIN db'.checkpoints :
            LET row == db'.checkpoints[x] IN
            /\ row.id \in DOMAIN asked /\ ScopeOf(asked[row.id]) = x
            /\ row = [id |-> row.id, chans |-> asked[row.id].chans]
      BY <2>1, <2>2, <1>3
    <3> HIDE DEF a, sc, keys
    <3> QED BY <1>2, <3>1, <3>2 DEF RowsOK
  <2>6. \A x \in DOMAIN db.checkpoints \ {sc} : \A ch \in Channels : ShallowBlobKey(x, ch) \notin keys
    <3> SUFFICES ASSUME NEW x \in DOMAIN db.checkpoints \ {sc}, NEW ch \in Channels, NEW c \in a.new,
                        ShallowBlobKey(x, ch) = ShallowBlobKey(a, c)
                 PROVE  FALSE
      OBVIOUS
    <3>1. x.thread = a.thread /\ x.ns = a.ns
      BY DEF ShallowBlobKey
    <3>2. x = ScopeOf(asked[db.checkpoints[x].id])
      BY <1>3
    <3> QED BY <3>1, <3>2 DEF Scope, ScopeOf
  <2>7. \A x \in DOMAIN db.checkpoints \ {sc} : \A ch \in Channels :
          /\ ShallowBlobKey(x, ch) \in DOMAIN db'.blobs <=> ShallowBlobKey(x, ch) \in DOMAIN db.blobs
          /\ ShallowBlobKey(x, ch) \in DOMAIN db.blobs =>
               db'.blobs[ShallowBlobKey(x, ch)] = db.blobs[ShallowBlobKey(x, ch)]
    BY <2>1, <2>6
  <2>8. OwnStored'
    <3> SUFFICES ASSUME NEW x \in DOMAIN db'.checkpoints, NEW ch \in asked[db'.checkpoints[x].id].new
                 PROVE  /\ ShallowBlobKey(x, ch) \in DOMAIN db'.blobs
                        /\ db'.blobs[ShallowBlobKey(x, ch)] = asked[db'.checkpoints[x].id].vals[ch]
      BY DEF OwnStored
    <3>1. CASE x = sc
      <4>1. ch \in a.new /\ asked[db'.checkpoints[x].id] = a
        BY <3>1, <2>1
      <4>2. ShallowBlobKey(x, ch) = ShallowBlobKey(a, ch)
        BY <3>1 DEF ShallowBlobKey, ScopeOf, Scope
      <4> QED BY <4>1, <4>2, <2>1
    <3>2. CASE x # sc
      <4>1. x \in DOMAIN db.checkpoints \ {sc} /\ db'.checkpoints[x] = db.checkpoints[x]
        BY <3>2, <2>1
      <4>2. ch \in Channels
        BY <4>1, StoredCheckpoint
      <4> QED BY <4>1, <4>2, <1>5, <2>7
    <3> QED BY <3>1, <3>2
  <2>9. ReadBack'
    <3> SUFFICES ASSUME NEW x \in DOMAIN db'.checkpoints, x \notin mixed
                 PROVE  Loaded(x)' = asked[db'.checkpoints[x].id].vals
      BY DEF ReadBack
    <3>1. CASE x = sc
      <4>1. PICK c, d : c = a /\ d = i
        OBVIOUS
      <4>2. StoredVals(x)' = c.vals
        BY <3>1, <4>1, <1>8, PutStored
      <4>3. StoredVals(x)' = Loaded(x)'
        BY DEF StoredVals
      <4>4. asked[db'.checkpoints[x].id] = c
        BY <3>1, <4>1, <2>1
      <4> QED BY <4>2, <4>3, <4>4
    <3>2. CASE x # sc
      <4>1. x \in DOMAIN db.checkpoints \ {sc} /\ db'.checkpoints[x] = db.checkpoints[x]
        BY <3>2, <2>1
      <4>2. Loaded(x)' = Loaded(x)
        <5> HIDE DEF sc, keys
        <5> QED BY <4>1, <2>7 DEF Loaded, LoadedValues
      <4> QED BY <4>1, <4>2, <1>6
    <3> QED BY <3>1, <3>2
  <2> QED BY <2>5, <2>8, <2>9
<1> QED BY <1>1, <1>7, <1>8

\* The runs after a COMMIT: the run of s is through with its put, or will put
\* again what is stored already.
LEMMA CommittedRuns ==
    ASSUME IInv, NEW s \in Savers, pc[s] = "commit", ServerCommits(s), UNCHANGED <<asked, mixed>>,
           \/ UNCHANGED run
           \/ call[s].op = "put" /\ run' = [run EXCEPT ![s].unput = FALSE]
    PROVE  AskedShape' /\ RunShape' /\ OneRun' /\ RunHolds'
<1> DEFINE i == call[s].id  a == asked[i]  sc == ScopeOf(a)
<1>1. call[s].op \in {"put", "put_writes"} /\ s \in DOMAIN call /\ s \in DOMAIN run
  BY DEF IInv, Shapes, CallShape, InPut, InPutWrites
<1>2. AskedShape' /\ DOMAIN run \subseteq Savers
  BY DEF IInv, Shapes, AskedShape, RunShape
<1>3. DOMAIN run[s] = {"thread", "ns", "id", "chans", "vals", "ids", "unput"}
  BY <1>1 DEF IInv, Shapes, RunShape
<1>4. /\ DOMAIN run' = DOMAIN run
      /\ \A r \in DOMAIN run \ {s} : run'[r] = run[r]
      /\ DOMAIN run'[s] = DOMAIN run[s]
      /\ run'[s].thread = run[s].thread /\ run'[s].ns = run[s].ns /\ run'[s].id = run[s].id
      /\ run'[s].chans = run[s].chans /\ run'[s].vals = run[s].vals
      /\ \/ run'[s] = run[s]
         \/ call[s].op = "put" /\ run'[s].unput = FALSE
  BY <1>1, <1>3
<1>5. RunShape'
  <2> SUFFICES ASSUME NEW r \in DOMAIN run
               PROVE  /\ DOMAIN run'[r] = {"thread", "ns", "id", "chans", "vals", "ids", "unput"}
                      /\ run'[r].thread \in Threads /\ run'[r].ns \in Namespaces
                      /\ run'[r].id \in DOMAIN asked \cup NoIds
                      /\ run'[r].chans \subseteq Channels /\ run'[r].vals \in ValueMap
                      /\ run'[r].unput \in BOOLEAN
                      /\ run'[r].unput =>
                           /\ run'[r].id \in DOMAIN asked
                           /\ ScopeOf(asked[run'[r].id]) = ScopeOf(run'[r])
                           /\ asked[run'[r].id].chans = run'[r].chans
                           /\ asked[run'[r].id].vals = run'[r].vals
    BY <1>2, <1>4 DEF RunShape
  <2>1. CASE run'[r] = run[r]
    BY <2>1 DEF IInv, Shapes, RunShape
  <2>2. CASE r = s /\ run'[s].unput = FALSE
    BY <2>2, <1>1, <1>4 DEF IInv, Shapes, RunShape
  <2> QED BY <2>1, <2>2, <1>4
<1>6. \A r \in DOMAIN run : ScopeOf(run'[r]) = ScopeOf(run[r])
  BY <1>4 DEF ScopeOf
<1>7. OneRun'
  BY <1>4, <1>6 DEF IInv, OneRun
<1>8. RunHolds'
  <2> DEFINE Holds(r, x) ==
        IF run'[r].unput
        THEN \/ run'[r].id \in StoredIds(x)'
             \/ /\ asked[run'[r].id].parent \in StoredIds(x)'
                /\ asked[run'[r].id].chans = StoredChans(x)' \cup asked[run'[r].id].new
                /\ \A ch \in Channels \ asked[run'[r].id].new :
                     asked[run'[r].id].vals[ch] = StoredVals(x)'[ch]
        ELSE /\ run'[r].id \in StoredIds(x)'
             /\ run'[r].chans = StoredChans(x)'
             /\ run'[r].vals = StoredVals(x)'
  <2>1. ASSUME NEW r \in DOMAIN run, NEW x, x = ScopeOf(run[r]), x \notin mixed,
               run'[r] = run[r], SameStored(x)
        PROVE  Holds(r, x)
    BY <2>1 DEF IInv, RunHolds, SameStored
  <2>2. ASSUME NEW r \in DOMAIN run, NEW x, x = ScopeOf(run[r]), x \notin mixed
        PROVE  Holds(r, x)
    <3>1. CASE call[s].op = "put_writes"
      <4>1. run'[r] = run[r]
        BY <3>1, <1>4
      <4> QED BY <3>1, <4>1, <2>1, <2>2, PutWritesStored
    <3>2. CASE call[s].op = "put"
      <4>0. PICK j, c, y : j = call[s].id /\ c = asked[j] /\ y = ScopeOf(c)
        OBVIOUS
      <4>1. /\ StoredIds(y)' = {j} /\ StoredChans(y)' = c.chans
            /\ y \notin mixed => StoredVals(y)' = c.vals
        BY <3>2, <4>0, PutStored
      <4>2. /\ run[s].unput /\ run[s].id = j /\ y = ScopeOf(run[s])
        BY <3>2, <4>0, PutKnown
      <4>3. c.chans = run[s].chans /\ c.vals = run[s].vals
        BY <1>1, <4>0, <4>2 DEF IInv, Shapes, RunShape
      <4>4. CASE r = s
        <5>1. x = y
          BY <4>2, <4>4, <2>2
        <5>2. run'[s].id \in StoredIds(y)'
          BY <1>4, <4>1, <4>2
        <5>3. run'[s].chans = StoredChans(y)' /\ run'[s].vals = StoredVals(y)'
          BY <1>4, <2>2, <4>1, <4>3, <5>1
        <5> QED BY <4>4, <5>1, <5>2, <5>3
      <4>5. CASE r # s
        <5>1. x # y
          BY <4>2, <4>5, <2>2, <1>1 DEF IInv, OneRun
        <5>2. run[r].thread \in Threads /\ run[r].ns \in Namespaces
          BY DEF IInv, Shapes, RunShape
        <5>3. PICK t \in Threads, n \in Namespaces : x = Scope(t, n)
          BY <2>2, <5>2 DEF ScopeOf
        <5>4. SameStored(x)
          BY <3>2, <4>0, <5>1, <5>3, PutStored
        <5>5. run'[r] = run[r]
          BY <4>5, <1>4
        <5> QED BY <2>1, <2>2, <5>4, <5>5
      <4> QED BY <4>4, <4>5
    <3> QED BY <1>1, <3>1, <3>2
  <2>3. \A r \in DOMAIN run' : \A x : x = ScopeOf(run'[r]) /\ x \notin mixed => Holds(r, x)
    <3> HIDE DEF Holds
    <3> QED BY <2>2, <1>4, <1>6
  <2> SUFFICES ASSUME NEW r \in DOMAIN run', NEW x, x = ScopeOf(run'[r]), x \notin mixed
               PROVE  Holds(r, x)
    BY DEF RunHolds
  <2> QED BY <2>3
<1> QED BY <1>2, <1>5, <1>7, <1>8

LEMMA CommitStep ==
    ASSUME IInv, NEW s \in Savers, Commit(s)
    PROVE  IInv'
<1>1. /\ pc[s] = "commit" /\ ServerCommits(s)
      /\ run' = IF call[s].op = "put" THEN [run EXCEPT ![s].unput = FALSE] ELSE run
      /\ pc' = [pc EXCEPT ![s] = "idle"] /\ UNCHANGED <<asked, mixed>>
  BY DEF Commit, Goto
<1>2. /\ TxShape' /\ tx'[s] = NoTx /\ \A r \in Savers \ {s} : tx'[r] = tx[r]
      /\ \A r \in Savers \ {s} : \A k \in DOMAIN db'.writes \ DOMAIN db.writes :
           ScopeOf(k) \notin tx[r].writes.ranges
      /\ ScopeLocks'
  BY <1>1, CommittedTables
<1>3. RowsOK' /\ OwnStored' /\ ReadBack'
  BY <1>1, CommittedRows
<1>4. AskedShape' /\ RunShape' /\ OneRun' /\ RunHolds'
  BY <1>1, CommittedRuns
<1>5. /\ DOMAIN call' = DOMAIN call \ {s} /\ \A r \in DOMAIN call \ {s} : call'[r] = call[r]
  BY WithoutEntries DEF Commit
<1>6. pc \in [Savers -> Statements \cup {"idle", "raised"}]
  BY DEF IInv, Shapes, CallShape
<1>7. /\ pc'[s] = "idle" /\ \A r \in Savers \ {s} : pc'[r] = pc[r]
      /\ pc' \in [Savers -> Statements \cup {"idle", "raised"}]
  BY <1>1, <1>6
<1>8. CallShape'
  <2>1. DOMAIN run' = DOMAIN run /\ \A r \in DOMAIN run \ {s} : run'[r] = run[r]
    BY <1>1
  <2>2. DOMAIN call' = {r \in Savers : pc'[r] # "idle"} /\ DOMAIN call' \subseteq DOMAIN run'
    BY <1>5, <1>7, <2>1 DEF IInv, Shapes, CallShape
  <2>3. ASSUME NEW r \in DOMAIN call' PROVE (InPut(r) \/ InPutWrites(r))'
    <3>1. /\ r # s /\ r \in DOMAIN call /\ r \in DOMAIN run
          /\ r \in Savers /\ (InPut(r) \/ InPutWrites(r))
      BY <1>5 DEF IInv, Shapes, CallShape
    <3>2. call'[r] = call[r] /\ run'[r] = run[r] /\ pc'[r] = pc[r]
      BY <3>1, <1>5, <1>7, <2>1
    <3> QED BY <3>1, <3>2, <1>1 DEF InPut, InPutWrites
  <2> QED BY <1>7, <2>2, <2>3 DEF CallShape
<1>9. TxOfCall'
  <2> SUFFICES ASSUME NEW r \in Savers PROVE TxOf(r)'
    BY DEF TxOfCall
  <2>1. CASE r = s
    BY <2>1, <1>2, <1>5, <1>7, NoTxEmpty DEF TxOf, Tables
  <2>2. CASE r # s
    BY <2>2, <1>1, <1>2, <1>5, <1>7, FrameTx
  <2> QED BY <2>1, <2>2
<1> QED BY <1>2, <1>3, <1>4, <1>8, <1>9 DEF IInv, Shapes

\* The rows are stored, but the call does not know.
LEMMA CommitLostStep ==
    ASSUME IInv, NEW s \in Savers, CommitLost(s)
    PROVE  IInv'
<1>1. /\ pc[s] = "commit" /\ ServerCommits(s)
      /\ pc' = [pc EXCEPT ![s] = "raised"] /\ UNCHANGED <<call, run, asked, mixed>>
  BY DEF CommitLost, Goto
<1>2. /\ TxShape' /\ tx'[s] = NoTx /\ \A r \in Savers \ {s} : tx'[r] = tx[r]
      /\ \A r \in Savers \ {s} : \A k \in DOMAIN db'.writes \ DOMAIN db.writes :
           ScopeOf(k) \notin tx[r].writes.ranges
      /\ ScopeLocks'
  BY <1>1, CommittedTables
<1>3. RowsOK' /\ OwnStored' /\ ReadBack'
  BY <1>1, CommittedRows
<1>4. AskedShape' /\ RunShape' /\ OneRun' /\ RunHolds'
  BY <1>1, CommittedRuns
<1>5. pc[s] # "idle" /\ s \in DOMAIN call /\ pc \in [Savers -> Statements \cup {"idle", "raised"}]
  BY <1>1 DEF IInv, Shapes, CallShape
<1>6. (InPut(s) \/ InPutWrites(s))'
  <2>1. InPut(s) \/ InPutWrites(s)
    BY <1>5 DEF IInv, Shapes, CallShape
  <2>2. pc'[s] = "raised"
    BY <1>1, <1>5
  <2> QED BY <2>1, <2>2, <1>1 DEF InPut, InPutWrites
<1>7. /\ CallShape' /\ DOMAIN call' = DOMAIN call
      /\ pc'[s] = "raised" /\ \A r \in Savers \ {s} : pc'[r] = pc[r]
  BY <1>1, <1>5, <1>6, GoOnCall
<1>8. TxOfCall'
  <2> SUFFICES ASSUME NEW r \in Savers PROVE TxOf(r)'
    BY DEF TxOfCall
  <2>1. CASE r = s
    BY <2>1, <1>2, <1>7, NoTxEmpty DEF TxOf, Tables
  <2>2. CASE r # s
    BY <2>2, <1>1, <1>2, <1>7, FrameTx
  <2> QED BY <2>1, <2>2
<1> QED BY <1>2, <1>3, <1>4, <1>7, <1>8 DEF IInv, Shapes

-----------------------------------------------------------------------------
LEMMA NextIInv == IInv /\ [Next]_vars => IInv'
<1> SUFFICES ASSUME IInv, [Next]_vars PROVE IInv'
  OBVIOUS
<1>1. CASE Next
  <2> SUFFICES ASSUME NEW s \in Savers,
                      \/ GetTupleCall(s) \/ NextCheckpoint(s) \/ EndRun(s)
                      \/ PutCall(s) \/ PutWritesCall(s)
                      \/ EndTransaction(s) \/ Retry(s) \/ GiveUp(s) \/ Crash(s)
               PROVE  IInv'
    BY <1>1 DEF Next
  <2>1. CASE GetTupleCall(s)
    BY <2>1, GetTupleStep
  <2>2. CASE NextCheckpoint(s)
    BY <2>2, NextCheckpointStep
  <2>3. CASE EndRun(s)
    BY <2>3, EndRunStep
  <2>4. CASE PutCall(s)
    BY <2>4, PutStep, PutDeleteStep, PutBlobStep, PutCheckpointStep DEF PutCall
  <2>5. CASE PutWritesCall(s)
    BY <2>5, PutWritesStep, PutWriteStep DEF PutWritesCall
  <2>6. CASE EndTransaction(s)
    BY <2>6, CommitStep, CommitLostStep, StatementFailsStep DEF EndTransaction
  <2>7. CASE Retry(s)
    BY <2>7, RetryStep
  <2>8. CASE GiveUp(s) \/ Crash(s)
    BY <2>8, StopRunStep DEF GiveUp, Crash
  <2> QED BY <2>1, <2>2, <2>3, <2>4, <2>5, <2>6, <2>7, <2>8
<1>2. CASE UNCHANGED vars
  <2>1. UNCHANGED <<db, tx, pc, call, run, asked, mixed>>
    BY <1>2 DEF vars
  <2>2. Shapes'
    BY <2>1 DEF IInv, Shapes, TxShape, AskedShape, RunShape, CallShape, InPut, InPutWrites
  <2>3. TxOfCall' /\ ScopeLocks'
    BY <2>1, FrameTx, FrameLocks DEF TxOfCall
  <2> QED BY <2>1, <2>2, <2>3, FrameRuns DEF IInv
<1> QED BY <1>1, <1>2

\* The inductive invariant holds in every reachable state.
THEOREM Invariance == Spec => []IInv
<1> QED BY InitIInv, NextIInv, PTL DEF Spec

-----------------------------------------------------------------------------
LEMMA IInvType == IInv => TypeOK
<1> SUFFICES ASSUME IInv PROVE TypeOK
  OBVIOUS
<1>1. ASSUME NEW sc \in DOMAIN db.checkpoints
      PROVE  /\ sc \in [thread : Threads, ns : Namespaces]
             /\ db.checkpoints[sc] \in [id : DOMAIN asked, chans : SUBSET Channels]
  <2>1. LET i == db.checkpoints[sc].id IN
        /\ i \in DOMAIN asked /\ ScopeOf(asked[i]) = sc
        /\ db.checkpoints[sc] = [id |-> i, chans |-> asked[i].chans]
        /\ asked[i].chans \subseteq Channels
    BY StoredCheckpoint
  <2>2. \A i \in DOMAIN asked : asked[i].thread \in Threads /\ asked[i].ns \in Namespaces
    BY DEF IInv, Shapes, AskedShape
  <2> QED BY <2>1, <2>2 DEF ScopeOf, Scope
<1>2. \A k \in DOMAIN db.writes : db.writes[k] \in [channel : STRING, value : STRING]
  BY DEF IInv, RowsOK, WriteRow
<1> QED BY <1>1, <1>2 DEF TypeOK, IInv, RowsOK, Shapes, CallShape

\* One checkpoint row per scope, one blob row per channel of it, and exactly the
\* savers that are in a call have one.
THEOREM TypeCorrect == Spec => []TypeOK
<1> QED BY Invariance, IInvType, PTL

LEMMA IInvOwnValues == IInv => OwnValues
<1> SUFFICES ASSUME IInv, NEW sc \in DOMAIN db.checkpoints,
                    NEW ch \in asked[db.checkpoints[sc].id].new
             PROVE  Loaded(sc)[ch] = asked[db.checkpoints[sc].id].vals[ch]
  BY DEF OwnValues
<1>1. /\ ShallowBlobKey(sc, ch) \in DOMAIN db.blobs
      /\ db.blobs[ShallowBlobKey(sc, ch)] = asked[db.checkpoints[sc].id].vals[ch]
  BY DEF IInv, OwnStored
<1>2. ch \in db.checkpoints[sc].chans /\ ch \in Channels
  BY StoredCheckpoint
<1> QED BY <1>1, <1>2 DEF Loaded, LoadedValues

\* Whatever puts overlap, fail, are retried or crash, the stored checkpoint has
\* the values its own put changed.
THEOREM OwnValuesHold == Spec => []OwnValues
<1> QED BY Invariance, IInvOwnValues, PTL

\* get_tuple gives back all values of the stored checkpoint of a scope in which
\* runs come one after the other, however each of them ended.
THEOREM SequentialRunsReadBack == Spec => []ReadBack
<1>1. IInv => ReadBack
  BY DEF IInv
<1> QED BY <1>1, Invariance, PTL

LEMMA IInvRunOnStored == IInv => RunOnStored
<1> SUFFICES ASSUME IInv, NEW s \in DOMAIN run, ScopeOf(run[s]) \notin mixed
             PROVE  \/ run[s].id \in StoredIds(ScopeOf(run[s]))
                    \/ run[s].unput /\ asked[run[s].id].parent \in StoredIds(ScopeOf(run[s]))
  BY DEF RunOnStored, StoredIds, NoIds
<1> QED BY DEF IInv, RunHolds

\* What a run that has its scope to itself has reached is what is stored there,
\* but for the checkpoint it is just putting.
THEOREM RunsFollowTheStore == Spec => []RunOnStored
<1> QED BY Invariance, IInvRunOnStored, PTL

\* Only a COMMIT changes the tables.
LEMMA OnlyCommitsStore ==
    ASSUME [Next]_vars
    PROVE  \/ UNCHANGED db
           \/ \E s \in Savers : pc[s] = "commit" /\ ServerCommits(s)
BY DEF Next, vars, GetTupleCall, GetTuple, GetNone, NextCheckpoint, EndRun, PutCall, Put,
       PutDelete, PutBlob, PutCheckpoint, PutWritesCall, PutWrites, PutWrite,
       EndTransaction, Commit, CommitLost, StatementFails, Retry, GiveUp, Crash, StopRun

\* put never drops the writes of the checkpoint it stores, nor of the one it was
\* computed from.
THEOREM NeededWritesStay == Spec => NeededWritesKept
<1> DEFINE Needed(k) ==
      /\ ScopeOf(k) \in DOMAIN db'.checkpoints
      /\ k.id \notin {db'.checkpoints[ScopeOf(k)].id,
                      asked[db'.checkpoints[ScopeOf(k)].id].parent}
<1>1. ASSUME IInv, [Next]_vars, NEW k \in DOMAIN db.writes \ DOMAIN db'.writes
      PROVE  Needed(k)
  <2>1. PICK s \in Savers : pc[s] = "commit" /\ ServerCommits(s)
    BY <1>1, OnlyCommitsStore
  <2>2. k \in tx[s].writes.del
    <3>1. db'.writes = Applied(tx[s].writes, db.writes)
      BY <1>1, <2>1, CommittedTables
    <3> QED BY <1>1, <3>1 DEF Applied
  <2>3. call[s].op = "put"
    <3>1. TxOf(s) /\ s \in DOMAIN call /\ (InPut(s) \/ InPutWrites(s))
      BY <1>1, <2>1 DEF IInv, TxOfCall, Shapes, CallShape
    <3> QED BY <3>1, <2>1, <2>2 DEF TxOf, WriteTx, InPut, InPutWrites
  <2>4. PutTx(s)
    BY <1>1, <2>1, <2>3, PutKnown
  <2>5. ScopeOf(k) = ScopeOf(asked[call[s].id])
        /\ k.id \notin {call[s].id, asked[call[s].id].parent}
    BY <2>2, <2>4 DEF PutTx
  <2>6. /\ ScopeOf(k) \in DOMAIN db'.checkpoints
        /\ db'.checkpoints[ScopeOf(k)].id = call[s].id
    <3> DEFINE sc == ScopeOf(asked[call[s].id])
    <3>1. /\ DOMAIN db'.checkpoints = DOMAIN db.checkpoints \cup {sc}
          /\ db'.checkpoints[sc] = [id |-> call[s].id, chans |-> asked[call[s].id].chans]
      BY <1>1, <2>1, <2>3, CommittedPut
    <3> QED BY <2>5, <3>1
  <2> QED BY <2>5, <2>6
<1>2. IInv /\ [Next]_vars => [\A k \in DOMAIN db.writes \ DOMAIN db'.writes :
          LET sc == ScopeOf(k) IN
          /\ sc \in DOMAIN db'.checkpoints
          /\ k.id \notin {db'.checkpoints[sc].id, asked[db'.checkpoints[sc].id].parent}]_vars
  BY <1>1
<1> QED BY <1>2, Invariance, PTL DEF Spec, NeededWritesKept

\* When put returns, the only writes left in its scope are those of its
\* checkpoint and of the one it was computed from.
THEOREM SupersededWritesGo == Spec => SupersededWritesGone
<1>1. ASSUME IInv, NEW s \in Savers, Commit(s), call[s].op = "put",
             asked[call[s].id].parent # NullId, NEW k \in DOMAIN db'.writes,
             ScopeOf(k) = ScopeOf(asked[call[s].id])
      PROVE  k.id \in {call[s].id, asked[call[s].id].parent}
  <2>1. pc[s] = "commit" /\ ServerCommits(s)
    BY <1>1 DEF Commit
  <2>2. PutTx(s)
    BY <1>1, <2>1, PutKnown
  <2>3. k \in DOMAIN db.writes /\ k \notin tx[s].writes.del
    <3>1. db'.writes = Applied(tx[s].writes, db.writes) /\ DOMAIN tx[s].writes.set = {}
      BY <1>1, <2>1, <2>2, CommittedTables DEF PutTx
    <3> QED BY <1>1, <3>1 DEF Applied
  <2> QED BY <1>1, <2>2, <2>3 DEF PutTx
<1>2. IInv /\ [Next]_vars => [\A s \in Savers :
          (Commit(s) /\ call[s].op = "put" /\ asked[call[s].id].parent # NullId)
          => LET i == call[s].id IN
             \A k \in DOMAIN db'.writes :
                 ScopeOf(k) = ScopeOf(asked[i]) => k.id \in {i, asked[i].parent}]_vars
  BY <1>1
<1> QED BY <1>2, Invariance, PTL DEF Spec, SupersededWritesGone

=============================================================================
