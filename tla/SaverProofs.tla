---------------------------- MODULE SaverProofs ----------------------------
(***************************************************************************)
(* Proofs about Saver, for every value of its constants: its type          *)
(* invariant, and that a checkpoint whose thread was not deleted under its *)
(* run reads back with all the values it was put with.                     *)
(***************************************************************************)
EXTENDS SaverInvariant, TLAPS

USE IdsAssumption, ValuesAssumption

-----------------------------------------------------------------------------
\* Lemmas about the operators on tables and transactions.

\* The rows of a table after the changes of a transaction.
LEMMA AppliedRows ==
    ASSUME NEW log, NEW table
    PROVE  /\ DOMAIN Applied(log, table) = (DOMAIN table \ log.del) \cup DOMAIN log.set
           /\ \A k \in DOMAIN Applied(log, table) :
                Applied(log, table)[k] =
                    IF k \in DOMAIN log.set THEN log.set[k] ELSE table[k]
BY DEF Applied

\* With adds or replaces one entry.
LEMMA WithEntry ==
    ASSUME NEW f, NEW k, NEW v
    PROVE  /\ DOMAIN With(f, k, v) = DOMAIN f \cup {k}
           /\ With(f, k, v)[k] = v
           /\ \A x \in DOMAIN f : x # k => With(f, k, v)[x] = f[x]
BY DEF With

\* Without removes entries.
LEMMA WithoutEntries ==
    ASSUME NEW f, NEW K
    PROVE  /\ DOMAIN Without(f, K) = DOMAIN f \ K
           /\ \A x \in DOMAIN f \ K : Without(f, K)[x] = f[x]
BY DEF Without

\* An INSERT that overwrites adds its row to the transaction of s, in one table.
LEMMA UpsertEffect ==
    ASSUME TxShape, NEW s \in Savers, NEW tb \in Tables, NEW k, NEW row,
           Upsert(s, tb, k, row)
    PROVE  /\ TxShape'
           /\ \A r \in Savers \ {s} : tx'[r] = tx[r]
           /\ \A u \in Tables \ {tb} : tx'[s][u] = tx[s][u]
           /\ tx'[s][tb].set = With(tx[s][tb].set, k, row)
           /\ tx'[s][tb].del = tx[s][tb].del
BY DEF TxShape, Upsert, Fields

\* INSERT IGNORE does so unless the transaction already sees the row.
LEMMA InsertIgnoreEffect ==
    ASSUME TxShape, NEW s \in Savers, NEW tb \in Tables, NEW k, NEW row,
           InsertIgnore(s, tb, k, row)
    PROVE  /\ TxShape'
           /\ \A r \in Savers \ {s} : tx'[r] = tx[r]
           /\ \A u \in Tables \ {tb} : tx'[s][u] = tx[s][u]
           /\ \/ k \in DOMAIN Seen(s, tb) /\ tx'[s][tb].set = tx[s][tb].set
              \/ tx'[s][tb].set = With(tx[s][tb].set, k, row)
           /\ tx'[s][tb].del = tx[s][tb].del
BY DEF TxShape, InsertIgnore, Fields

\* A DELETE marks rows of its thread, in one table.
LEMMA DeleteEffect ==
    ASSUME TxShape, NEW s \in Savers, NEW tb \in Tables, NEW t,
           DeleteWhereThread(s, tb, t)
    PROVE  /\ TxShape'
           /\ \A r \in Savers \ {s} : tx'[r] = tx[r]
           /\ \A u \in Tables \ {tb} : tx'[s][u] = tx[s][u]
           /\ tx'[s][tb].set = tx[s][tb].set
           /\ \A k \in tx'[s][tb].del : k.thread = t
BY DEF TxShape, DeleteWhereThread, Fields

\* A transaction that ended changes nothing.
LEMMA NoTxEmpty ==
    /\ DOMAIN NoTx = Tables
    /\ \A tb \in Tables :
         /\ DOMAIN NoTx[tb] = Fields
         /\ DOMAIN NoTx[tb].set = {} /\ NoTx[tb].del = {}
BY DEF NoTx, NoChange, Empty, Fields, Tables

\* Ending the transaction of s.
LEMMA EndTxEffect ==
    ASSUME TxShape, NEW s \in Savers, tx' = [tx EXCEPT ![s] = NoTx]
    PROVE  /\ TxShape'
           /\ tx'[s] = NoTx
           /\ \A r \in Savers \ {s} : tx'[r] = tx[r]
BY NoTxEmpty DEF TxShape

-----------------------------------------------------------------------------
\* Loading a checkpoint.

\* What get_tuple reads has values of the right type.
LEMMA LoadedType ==
    ASSUME RowsOK, AskedShape, NEW k \in DOMAIN db.checkpoints
    PROVE  LoadedValues(db, k.thread, k.ns, db.checkpoints[k]) \in ValueMap
<1>1. db.checkpoints[k].inline \in [Channels -> Primitives \cup {NoVal}]
  BY DEF RowsOK, CheckpointRow, Row
<1>2. \A b \in DOMAIN db.blobs : db.blobs[b] \in Objects
  BY DEF RowsOK, BlobRow, BlobChannels
<1> QED
  BY <1>1, <1>2 DEF LoadedValues, ValueMap, Values

\* A put whose blobs are all stored reads back with the values it was given.
LEMMA TracedReadsBack ==
    ASSUME RowsOK, AskedShape, NEW k \in DOMAIN db.checkpoints,
           NEW a, a = asked[k.id],
           Traced(asked, a.thread, a.ns, a.vers, a.vals),
           Present(DOMAIN db.blobs, a.thread, a.ns, a.vers, a.vals, Channels)
    PROVE  LoadedValues(db, k.thread, k.ns, db.checkpoints[k]) = a.vals
<1> DEFINE row == db.checkpoints[k]
           key(ch) == BlobKey(a.thread, a.ns, ch, a.vers[ch])
<1>1. /\ k.thread = a.thread /\ k.ns = a.ns
      /\ row.vers = a.vers /\ row.inline = Inline(a)
      /\ k.id \in DOMAIN asked
  BY DEF RowsOK, CheckpointRow
<1>2. a.vals \in ValueMap
  BY <1>1 DEF AskedShape
<1>3. ASSUME NEW ch \in Channels
      PROVE  LoadedValues(db, a.thread, a.ns, row)[ch] = a.vals[ch]
  <2>1. LoadedValues(db, a.thread, a.ns, row)[ch] =
          IF key(ch) \in DOMAIN db.blobs THEN db.blobs[key(ch)] ELSE Inline(a)[ch]
    BY <1>1 DEF LoadedValues
  <2>2. CASE key(ch) \in DOMAIN db.blobs
    <3>1. BlobRow(key(ch), db.blobs[key(ch)])
      BY <2>2 DEF RowsOK
    <3>2. key(ch).version = a.vers[ch] /\ key(ch).channel = ch
      BY DEF BlobKey
    <3>3. a.vers[ch][2] \in DOMAIN asked
          /\ db.blobs[key(ch)] = asked[a.vers[ch][2]].vals[ch]
      BY <3>1, <3>2 DEF BlobRow
    <3>4. asked[a.vers[ch][2]].vals[ch] = a.vals[ch]
      BY <3>3 DEF Traced, AskedShape
    <3> QED BY <2>1, <2>2, <3>3, <3>4
  <2>3. CASE key(ch) \notin DOMAIN db.blobs
    <3>1. a.vals[ch] \notin Objects
      BY <2>3 DEF Present
    <3>2. Inline(a)[ch] = a.vals[ch]
      BY <3>1, <1>2 DEF Inline, ValueMap, Values
    <3> QED BY <2>1, <2>3, <3>2
  <2> QED BY <2>2, <2>3
<1>4. LoadedValues(db, a.thread, a.ns, row)
        = [ch \in Channels |-> LoadedValues(db, a.thread, a.ns, row)[ch]]
  BY DEF LoadedValues
<1>5. a.vals = [ch \in Channels |-> a.vals[ch]]
  BY <1>2 DEF ValueMap
<1> QED
  BY <1>1, <1>3, <1>4, <1>5

\* Every stored checkpoint that has not been cut off is traced.
LEMMA StoredReadsBack ==
    ASSUME IInv, NEW k \in DOMAIN db.checkpoints, k.id \notin severed
    PROVE  /\ k.id \in DOMAIN asked
           /\ Traced(asked, k.thread, k.ns, asked[k.id].vers, asked[k.id].vals)
           /\ Present(DOMAIN db.blobs, k.thread, k.ns, asked[k.id].vers, asked[k.id].vals, Channels)
           /\ LoadedValues(db, k.thread, k.ns, db.checkpoints[k]) = asked[k.id].vals
<1> DEFINE a == asked[k.id]
<1>1. RowsOK /\ AskedShape /\ AskedTraced /\ StoredPresent
  BY DEF IInv
<1>2. k.id \in DOMAIN asked /\ k.thread = a.thread /\ k.ns = a.ns
  BY <1>1 DEF RowsOK, CheckpointRow
<1>3. Traced(asked, a.thread, a.ns, a.vers, a.vals)
  BY <1>1, <1>2 DEF AskedTraced
<1>4. Present(DOMAIN db.blobs, a.thread, a.ns, a.vers, a.vals, Channels)
  BY <1>1 DEF StoredPresent
<1>5. LoadedValues(db, k.thread, k.ns, db.checkpoints[k]) = a.vals
  BY <1>1, <1>3, <1>4, TracedReadsBack
<1> QED
  BY <1>2, <1>3, <1>4, <1>5

\* The invariant gives the type invariant and the property.
LEMMA IInvImplies ==
    ASSUME IInv
    PROVE  TypeOK /\ ReadBack
<1>1. ReadBack
  BY StoredReadsBack DEF ReadBack, Loaded
<1>2. TypeOK
  <2>1. DOMAIN db = Tables /\ DOMAIN db.checkpoints \subseteq CheckpointKey
        /\ (\A k \in DOMAIN db.checkpoints : db.checkpoints[k] \in Row)
    BY DEF IInv, RowsOK, CheckpointRow
  <2>2. \A k \in DOMAIN db.blobs : db.blobs[k] \in Objects
    BY DEF IInv, RowsOK, BlobRow, BlobChannels
  <2>3. \A k \in DOMAIN db.writes : db.writes[k] \in [channel : STRING, value : STRING]
    BY DEF IInv, RowsOK, WriteRow
  <2>4. /\ pc \in [Savers -> Statements \cup {"idle", "raised"}]
        /\ DOMAIN call = {s \in Savers : pc[s] # "idle"}
    BY DEF IInv, CallShape
  <2>5. DOMAIN base \subseteq Savers /\ DOMAIN asked \subseteq Ids /\ severed \subseteq DOMAIN asked
    BY DEF IInv, BaseShape, AskedShape, SeveredShape
  <2> QED BY <2>1, <2>2, <2>3, <2>4, <2>5 DEF TypeOK
<1> QED BY <1>1, <1>2

-----------------------------------------------------------------------------
\* What a step leaves alone stays as it is.

LEMMA FrameData ==
    ASSUME IInv, UNCHANGED <<db, asked, severed>>
    PROVE  /\ AskedShape' /\ SeveredShape' /\ RowsOK'
           /\ OwnVersions' /\ AskedTraced' /\ StoredPresent'
<1>1. AskedShape' /\ SeveredShape' /\ OwnVersions'
  BY DEF IInv, AskedShape, SeveredShape, OwnVersions
<1>2. RowsOK'
  BY DEF IInv, RowsOK, CheckpointRow, BlobRow
<1>3. AskedTraced' /\ StoredPresent'
  BY DEF IInv, AskedTraced, StoredPresent
<1> QED BY <1>1, <1>2, <1>3

\* Calls do not change, and the runs that are in one keep what they hold.
LEMMA FrameCall ==
    ASSUME IInv, UNCHANGED <<pc, call, asked>>,
           \A r \in DOMAIN call \cap DOMAIN base : r \in DOMAIN base' /\ base'[r] = base[r]
    PROVE  CallShape' /\ PutOfItsRun'
<1>1. CallShape'
  BY DEF IInv, CallShape, BlobChannels
<1>2. PutOfItsRun'
  <2> SUFFICES ASSUME NEW r \in DOMAIN call, call[r].op = "put"
               PROVE  /\ asked[call[r].id].thread = base'[r].thread
                      /\ asked[call[r].id].ns = base'[r].ns
    BY DEF PutOfItsRun
  <2>1. r \in DOMAIN base
    BY DEF IInv, CallShape
  <2> QED BY <2>1 DEF IInv, PutOfItsRun
<1> QED BY <1>1, <1>2

LEMMA FrameBase ==
    ASSUME IInv, UNCHANGED <<db, base, asked, severed>>
    PROVE  BaseShape' /\ BaseTraced'
BY DEF IInv, BaseShape, BaseTraced

-----------------------------------------------------------------------------
\* One lemma per action or group of actions that change the same variables.

\* get_tuple gives a run a checkpoint of its own thread whose values are all
\* stored, unless it is one that was cut off.
LEMMA StartStep ==
    ASSUME IInv, NEW s \in Savers, NEW t \in Threads, NEW n \in Namespaces,
           NEW i \in StoredIds(t, n), pc[s] = "idle", StartFrom(s, t, n, i),
           UNCHANGED <<db, tx, pc, call, asked, severed>>
    PROVE  IInv'
<1> DEFINE k == [thread |-> t, ns |-> n, id |-> i]
           b == [thread |-> t, ns |-> n, id |-> i, vers |-> db.checkpoints[k].vers,
                 vals |-> LoadedValues(db, t, n, db.checkpoints[k])]
<1>1. k \in DOMAIN db.checkpoints /\ i \in Ids
  BY DEF StoredIds
<1>2. base' = With(base, s, b)
  BY DEF StartFrom
<1>3. /\ DOMAIN base' = DOMAIN base \cup {s} /\ base'[s] = b
      /\ \A r \in DOMAIN base : r # s => base'[r] = base[r]
  BY <1>2 DEF With
<1>4. CheckpointRow(k, db.checkpoints[k])
  BY <1>1 DEF IInv, RowsOK
<1>5. b.vers \in VersionMap /\ b.vers = asked[i].vers /\ i \in DOMAIN asked
      /\ asked[i].thread = t /\ asked[i].ns = n
  BY <1>4 DEF CheckpointRow, Row, VersionMap
<1>6. b.vals \in ValueMap
  BY <1>1, LoadedType DEF IInv
<1>7. /\ DOMAIN b = {"thread", "ns", "id", "vers", "vals"}
      /\ b.thread = t /\ b.ns = n /\ b.id = i
  OBVIOUS
<1>8. i \notin severed =>
        Traced(asked, t, n, b.vers, b.vals) /\ Present(DOMAIN db.blobs, t, n, b.vers, b.vals, Channels)
  BY <1>1, <1>5, StoredReadsBack
<1> HIDE DEF b
<1>9. BaseShape'
  BY <1>3, <1>5, <1>6, <1>7 DEF IInv, BaseShape
<1>10. BaseTraced'
  <2> SUFFICES ASSUME NEW r \in DOMAIN base'
               PROVE  /\ base'[r].id # NoId => asked[base'[r].id].thread = base'[r].thread
                      /\ base'[r].id = NoId => \A ch \in Channels : base'[r].vals[ch] = NoVal
                      /\ base'[r].id \notin severed =>
                           /\ Traced(asked, base'[r].thread, base'[r].ns, base'[r].vers, base'[r].vals)
                           /\ Present(DOMAIN db.blobs, base'[r].thread, base'[r].ns, base'[r].vers, base'[r].vals, Channels)
    BY DEF BaseTraced
  <2>1. CASE r = s
    BY <2>1, <1>1, <1>3, <1>5, <1>7, <1>8 DEF NoId
  <2>2. CASE r # s
    BY <2>2, <1>3 DEF IInv, BaseTraced
  <2> QED BY <2>1, <2>2
<1>11. TxShape' /\ PendingOK'
  BY DEF IInv, TxShape, PendingOK, CheckpointRow, BlobRow
<1>12. CallShape' /\ PutOfItsRun'
  <2>1. s \notin DOMAIN call
    BY DEF IInv, CallShape
  <2> QED BY <1>3, <2>1, FrameCall
<1>13. OwnBlobsAccounted'
  BY DEF IInv, OwnBlobsAccounted
<1> QED
  BY <1>9, <1>10, <1>11, <1>12, <1>13, FrameData DEF IInv

LEMMA GetStep ==
    ASSUME IInv, NEW s \in Savers, NEW t \in Threads, NEW n \in Namespaces,
           GetLatest(s, t, n) \/ \E i \in Ids : GetTuple(s, t, n, i)
    PROVE  IInv'
<1>1. PICK i \in StoredIds(t, n) : StartFrom(s, t, n, i)
  BY DEF GetLatest, GetTuple, Latest
<1> QED
  BY <1>1, StartStep DEF GetLatest, GetTuple

\* A run that found nothing holds nothing.
LEMMA GetNoneStep ==
    ASSUME IInv, NEW s \in Savers, NEW t \in Threads, NEW n \in Namespaces,
           GetNone(s, t, n)
    PROVE  IInv'
<1> DEFINE b == [thread |-> t, ns |-> n, id |-> NoId,
                 vers |-> [ch \in Channels |-> NoVersion],
                 vals |-> [ch \in Channels |-> NoVal]]
<1>1. base' = With(base, s, b) /\ UNCHANGED <<db, tx, pc, call, asked, severed>>
  BY DEF GetNone
<1>2. /\ DOMAIN base' = DOMAIN base \cup {s} /\ base'[s] = b
      /\ \A r \in DOMAIN base : r # s => base'[r] = base[r]
  BY <1>1 DEF With
<1>3. /\ DOMAIN b = {"thread", "ns", "id", "vers", "vals"}
      /\ b.thread = t /\ b.ns = n /\ b.id = NoId
      /\ b.vers \in VersionMap /\ b.vals \in ValueMap
  <2>1. NoVersion \in Nat \X (Ids \cup {NoId})
    BY DEF NoVersion, NoId
  <2> QED BY <2>1 DEF VersionMap, ValueMap, Values
<1>4. /\ Traced(asked, t, n, b.vers, b.vals) /\ Present(DOMAIN db.blobs, t, n, b.vers, b.vals, Channels)
      /\ \A ch \in Channels : b.vals[ch] = NoVal
  BY DEF Traced, Present, NoVersion
<1> HIDE DEF b
<1>5. BaseShape'
  BY <1>1, <1>2, <1>3 DEF IInv, BaseShape
<1>6. BaseTraced'
  <2> SUFFICES ASSUME NEW r \in DOMAIN base'
               PROVE  /\ base'[r].id # NoId => asked[base'[r].id].thread = base'[r].thread
                      /\ base'[r].id = NoId => \A ch \in Channels : base'[r].vals[ch] = NoVal
                      /\ base'[r].id \notin severed =>
                           /\ Traced(asked, base'[r].thread, base'[r].ns, base'[r].vers, base'[r].vals)
                           /\ Present(DOMAIN db.blobs, base'[r].thread, base'[r].ns, base'[r].vers, base'[r].vals, Channels)
    BY <1>1 DEF BaseTraced
  <2>1. CASE r = s
    BY <2>1, <1>2, <1>3, <1>4
  <2>2. CASE r # s
    BY <2>2, <1>2 DEF IInv, BaseTraced
  <2> QED BY <2>1, <2>2
<1>7. TxShape' /\ PendingOK'
  BY <1>1 DEF IInv, TxShape, PendingOK, CheckpointRow, BlobRow
<1>8. CallShape' /\ PutOfItsRun'
  <2>1. s \notin DOMAIN call
    BY DEF IInv, CallShape, GetNone
  <2> QED BY <1>1, <1>2, <2>1, FrameCall
<1>9. OwnBlobsAccounted'
  BY <1>1 DEF IInv, OwnBlobsAccounted
<1> QED
  BY <1>1, <1>5, <1>6, <1>7, <1>8, <1>9, FrameData DEF IInv

LEMMA EndRunStep ==
    ASSUME IInv, NEW s \in Savers, EndRun(s)
    PROVE  IInv'
<1>1. UNCHANGED <<db, tx, pc, call, asked, severed>> /\ pc[s] = "idle"
  BY DEF EndRun
<1>2. /\ DOMAIN base' = DOMAIN base \ {s}
      /\ \A r \in DOMAIN base \ {s} : base'[r] = base[r]
  BY WithoutEntries DEF EndRun
<1>3. BaseShape'
  BY <1>1, <1>2 DEF IInv, BaseShape
<1>4. BaseTraced'
  BY <1>1, <1>2 DEF IInv, BaseTraced
<1>5. TxShape' /\ PendingOK'
  BY <1>1 DEF IInv, TxShape, PendingOK, CheckpointRow, BlobRow
<1>6. CallShape' /\ PutOfItsRun'
  <2>1. s \notin DOMAIN call
    BY <1>1 DEF IInv, CallShape
  <2> QED BY <1>1, <1>2, <2>1, FrameCall
<1>7. OwnBlobsAccounted'
  BY <1>1 DEF IInv, OwnBlobsAccounted
<1> QED
  BY <1>1, <1>3, <1>4, <1>5, <1>6, <1>7, FrameData DEF IInv

\* A put that is new leaves what is known of the others true.
LEMMA AskedGrows ==
    ASSUME AskedShape, NEW i \in Ids \ DOMAIN asked, NEW a, asked' = With(asked, i, a)
    PROVE  /\ DOMAIN asked' = DOMAIN asked \cup {i} /\ asked'[i] = a
           /\ \A j \in DOMAIN asked : asked'[j] = asked[j]
           /\ \A k, row : CheckpointRow(k, row) => CheckpointRow(k, row)'
           /\ \A k, val : BlobRow(k, val) => BlobRow(k, val)'
           /\ \A t, n, vers, vals :
                Traced(asked, t, n, vers, vals) => Traced(asked', t, n, vers, vals)
<1>1. /\ DOMAIN asked' = DOMAIN asked \cup {i} /\ asked'[i] = a
      /\ \A j \in DOMAIN asked : asked'[j] = asked[j]
  BY DEF With
<1>2. \A k, row : CheckpointRow(k, row) => CheckpointRow(k, row)'
  BY <1>1 DEF CheckpointRow
<1>3. \A k, val : BlobRow(k, val) => BlobRow(k, val)'
  BY <1>1 DEF BlobRow
<1>4. \A t, n, vers, vals : Traced(asked, t, n, vers, vals) => Traced(asked', t, n, vers, vals)
  BY <1>1 DEF Traced
<1> QED BY <1>1, <1>2, <1>3, <1>4

\* put is called: a new id, and the values of the base or new ones.
LEMMA PutStep ==
    ASSUME IInv, NEW s \in Savers, Put(s)
    PROVE  IInv'
<1>1. PICK i \in Ids, new \in SUBSET Channels : \E v \in NextVersion(base[s].vers, i) :
        \E fresh \in [new -> Values] :
          /\ DOMAIN asked = {j \in Ids : j < i}
          /\ asked' = With(asked, i, NextCheckpoint(base[s], new, v, fresh))
          /\ call' = With(call, s, [op |-> "put", id |-> i,
                       todo |-> BlobChannels(NextCheckpoint(base[s], new, v, fresh))])
          /\ Goto(s, PutStart(NextCheckpoint(base[s], new, v, fresh)))
          /\ severed' = IF base[s].id \in severed THEN severed \cup {i} ELSE severed
  BY DEF Put, Values
<1>2. PICK v \in NextVersion(base[s].vers, i), fresh \in [new -> Values] :
          /\ DOMAIN asked = {j \in Ids : j < i}
          /\ asked' = With(asked, i, NextCheckpoint(base[s], new, v, fresh))
          /\ call' = With(call, s, [op |-> "put", id |-> i,
                       todo |-> BlobChannels(NextCheckpoint(base[s], new, v, fresh))])
          /\ Goto(s, PutStart(NextCheckpoint(base[s], new, v, fresh)))
          /\ severed' = IF base[s].id \in severed THEN severed \cup {i} ELSE severed
  BY <1>1
<1>3. s \in DOMAIN base /\ pc[s] = "idle" /\ UNCHANGED <<db, tx, base>>
  BY DEF Put
<1> DEFINE b == base[s]
           a == NextCheckpoint(b, new, v, fresh)
           c == [op |-> "put", id |-> i, todo |-> BlobChannels(a)]
<1>4. i \notin DOMAIN asked
  BY <1>2
<1>5. /\ b.thread \in Threads /\ b.ns \in Namespaces /\ b.id \in DOMAIN asked \cup {NoId}
      /\ b.vers \in VersionMap /\ b.vals \in ValueMap
  BY <1>3 DEF IInv, BaseShape
<1>6. v \in Nat \X Ids /\ v[2] = i
  <2>1. PICK m \in {b.vers[ch][1] + 1 : ch \in Channels} : v = <<m, i>>
    BY <1>2 DEF NextVersion
  <2>2. m \in Nat
    BY <1>5 DEF VersionMap
  <2> QED BY <2>1, <2>2
<1>7. /\ a.thread = b.thread /\ a.ns = b.ns /\ a.parent = b.id /\ a.new = new
      /\ \A ch \in Channels : a.vers[ch] = IF ch \in new THEN v ELSE b.vers[ch]
      /\ \A ch \in Channels : a.vals[ch] = IF ch \in new THEN fresh[ch] ELSE b.vals[ch]
      /\ a.vers = [ch \in Channels |-> IF ch \in new THEN v ELSE b.vers[ch]]
      /\ a.vals = [ch \in Channels |-> IF ch \in new THEN fresh[ch] ELSE b.vals[ch]]
  BY DEF NextCheckpoint
<1>8. a.vers \in VersionMap
  BY <1>5, <1>6, <1>7 DEF VersionMap
<1>9. a.vals \in ValueMap
  BY <1>5, <1>7 DEF ValueMap
<1> HIDE DEF a
<1>10. /\ DOMAIN asked' = DOMAIN asked \cup {i} /\ asked'[i] = a
       /\ \A j \in DOMAIN asked : asked'[j] = asked[j]
       /\ \A k, row : CheckpointRow(k, row) => CheckpointRow(k, row)'
       /\ \A k, val : BlobRow(k, val) => BlobRow(k, val)'
       /\ \A t, n, vers, vals : Traced(asked, t, n, vers, vals) => Traced(asked', t, n, vers, vals)
  <2>1. AskedShape
    BY DEF IInv
  <2>2. asked' = With(asked, i, a)
    BY <1>2 DEF a
  <2> QED BY <2>1, <2>2, <1>4, AskedGrows
<1>11. /\ DOMAIN call' = DOMAIN call \cup {s} /\ call'[s] = c
       /\ \A r \in DOMAIN call : r # s => call'[r] = call[r]
       /\ s \notin DOMAIN call
  <2>1. call' = With(call, s, c)
    BY <1>2 DEF a
  <2>2. s \notin DOMAIN call
    BY <1>3 DEF IInv, CallShape
  <2> QED BY <2>1, <2>2 DEF With
<1>12. /\ pc' \in [Savers -> Statements \cup {"idle", "raised"}]
       /\ pc'[s] = PutStart(a) /\ \A r \in Savers : r # s => pc'[r] = pc[r]
  BY <1>2 DEF Goto, PutStart, Statements, IInv, CallShape, a
<1>13. /\ severed' = IF b.id \in severed THEN severed \cup {i} ELSE severed
       /\ severed \subseteq DOMAIN asked
       /\ \A j \in DOMAIN asked : j \in severed' <=> j \in severed
       /\ NoId \notin severed /\ NoId \notin severed'
  BY <1>2, <1>4 DEF IInv, SeveredShape, AskedShape
<1>14. TxShape'
  BY <1>3 DEF IInv, TxShape
<1>15. AskedShape'
  <2>1. a.parent \in Ids \cup {NoId}
    BY <1>5, <1>7 DEF IInv, AskedShape
  <2> QED BY <2>1, <1>5, <1>7, <1>8, <1>9, <1>10 DEF IInv, AskedShape
<1>16. BaseShape'
  BY <1>3, <1>10 DEF IInv, BaseShape
<1>17. CallShape'
  <2>1. DOMAIN call' = {r \in Savers : pc'[r] # "idle"}
    BY <1>11, <1>12 DEF IInv, CallShape, PutStart
  <2> SUFFICES ASSUME NEW r \in DOMAIN call'
               PROVE  CallShape!3!(r)'
    BY <2>1, <1>12 DEF CallShape
  <2>2. CASE r = s
    BY <2>2, <1>3, <1>10, <1>11, <1>12 DEF PutStart
  <2>3. CASE r # s
    BY <2>3, <1>3, <1>10, <1>11, <1>12 DEF IInv, CallShape, BlobChannels
  <2> QED BY <2>2, <2>3
<1>18. SeveredShape'
  BY <1>10, <1>13 DEF SeveredShape
<1>19. RowsOK'
  BY <1>3, <1>10 DEF IInv, RowsOK, WriteRow
<1>20. PendingOK'
  <2> SUFFICES ASSUME NEW r \in Savers
               PROVE  PendingOK!(r)'
    BY DEF PendingOK
  <2>1. PendingOK!(r)
    BY DEF IInv, PendingOK
  <2>2. CASE r = s
    BY <2>1, <2>2, <1>3, <1>10, <1>11 DEF WriteRow
  <2>3. CASE r # s
    BY <2>1, <2>3, <1>3, <1>10, <1>11, <1>12 DEF WriteRow
  <2> QED BY <2>2, <2>3
<1>21. OwnVersions'
  BY <1>6, <1>7, <1>10 DEF IInv, OwnVersions, AskedShape
<1>22. PutOfItsRun'
  <2> SUFFICES ASSUME NEW r \in DOMAIN call', call'[r].op = "put"
               PROVE  /\ asked'[call'[r].id].thread = base'[r].thread
                      /\ asked'[call'[r].id].ns = base'[r].ns
    BY DEF PutOfItsRun
  <2>1. CASE r = s
    BY <2>1, <1>3, <1>7, <1>10, <1>11
  <2>2. CASE r # s
    BY <2>2, <1>3, <1>10, <1>11 DEF IInv, PutOfItsRun, CallShape
  <2> QED BY <2>1, <2>2
<1>23. AskedTraced'
  <2> SUFFICES ASSUME NEW j \in DOMAIN asked', j \notin severed'
               PROVE  /\ Traced(asked', asked'[j].thread, asked'[j].ns, asked'[j].vers, asked'[j].vals)
                      /\ Present(DOMAIN db'.blobs, asked'[j].thread, asked'[j].ns, asked'[j].vers,
                                 asked'[j].vals, Channels \ asked'[j].new)
    BY DEF AskedTraced
  <2>1. CASE j # i
    <3>1. j \in DOMAIN asked /\ j \notin severed /\ asked'[j] = asked[j]
      BY <2>1, <1>10, <1>13
    <3>2. /\ Traced(asked, asked[j].thread, asked[j].ns, asked[j].vers, asked[j].vals)
          /\ Present(DOMAIN db.blobs, asked[j].thread, asked[j].ns, asked[j].vers,
                     asked[j].vals, Channels \ asked[j].new)
      BY <3>1 DEF IInv, AskedTraced
    <3> QED BY <3>1, <3>2, <1>3, <1>10
  <2>2. CASE j = i
    <3>1. b.id \notin severed
      BY <2>2, <1>13
    <3>2. Traced(asked, b.thread, b.ns, b.vers, b.vals)
          /\ Present(DOMAIN db.blobs, b.thread, b.ns, b.vers, b.vals, Channels)
      BY <3>1, <1>3 DEF IInv, BaseTraced
    <3>3. Traced(asked', a.thread, a.ns, a.vers, a.vals)
      BY <3>2, <1>4, <1>6, <1>7, <1>10 DEF Traced
    <3>4. Present(DOMAIN db.blobs, a.thread, a.ns, a.vers, a.vals, Channels \ a.new)
      BY <3>2, <1>7 DEF Present
    <3> QED BY <2>2, <3>3, <3>4, <1>3, <1>10
  <2> QED BY <2>1, <2>2
<1>24. BaseTraced'
  <2> SUFFICES ASSUME NEW r \in DOMAIN base
               PROVE  /\ base[r].id # NoId => asked'[base[r].id].thread = base[r].thread
                      /\ base[r].id = NoId => \A ch \in Channels : base[r].vals[ch] = NoVal
                      /\ base[r].id \notin severed' =>
                           /\ Traced(asked', base[r].thread, base[r].ns, base[r].vers, base[r].vals)
                           /\ Present(DOMAIN db'.blobs, base[r].thread, base[r].ns, base[r].vers, base[r].vals, Channels)
    BY <1>3 DEF BaseTraced
  <2>1. base[r].id \in DOMAIN asked \cup {NoId}
    BY DEF IInv, BaseShape
  <2>2. base[r].id \notin severed' => base[r].id \notin severed
    BY <2>1, <1>13
  <2> QED BY <2>1, <2>2, <1>3, <1>10 DEF IInv, BaseTraced
<1>25. OwnBlobsAccounted'
  <2> SUFFICES ASSUME NEW r \in DOMAIN call'
               PROVE  OwnBlobsAccounted!(r)'
    BY DEF OwnBlobsAccounted
  <2>1. CASE r = s
    BY <2>1, <1>10, <1>11, <1>12 DEF PutStart
  <2>2. CASE r # s
    <3>1. r \in DOMAIN call /\ call'[r] = call[r] /\ pc'[r] = pc[r]
      BY <2>2, <1>11, <1>12 DEF IInv, CallShape
    <3>2. call[r].op = "put" =>
            call[r].id \in DOMAIN asked /\ asked'[call[r].id] = asked[call[r].id]
            /\ (call[r].id \notin severed' => call[r].id \notin severed)
      BY <3>1, <1>10, <1>13 DEF IInv, CallShape
    <3>3. OwnBlobsAccounted!(r)
      BY <3>1 DEF IInv, OwnBlobsAccounted
    <3> QED BY <3>1, <3>2, <3>3, <1>3 DEF BlobChannels
  <2> QED BY <2>1, <2>2
<1>26. StoredPresent'
  <2> SUFFICES ASSUME NEW k \in DOMAIN db.checkpoints, k.id \notin severed'
               PROVE  Present(DOMAIN db'.blobs, asked'[k.id].thread, asked'[k.id].ns, asked'[k.id].vers,
                              asked'[k.id].vals, Channels)
    BY <1>3 DEF StoredPresent
  <2>1. k.id \in DOMAIN asked
    BY DEF IInv, RowsOK, CheckpointRow
  <2> QED BY <2>1, <1>3, <1>10, <1>13 DEF IInv, StoredPresent
<1> QED
  BY <1>14, <1>15, <1>16, <1>17, <1>18, <1>19, <1>20, <1>21, <1>22, <1>23, <1>24,
     <1>25, <1>26 DEF IInv

\* Only s moves: the calls of the other savers, what their transactions hold
\* and the state of their blobs stay right.
LEMMA OthersKeepTheirs ==
    ASSUME IInv, NEW s \in Savers, UNCHANGED <<db, base, asked, severed>>,
           NEW r \in Savers \ {s}, tx'[r] = tx[r], pc'[r] = pc[r],
           r \in DOMAIN call <=> r \in DOMAIN call',
           r \in DOMAIN call => call'[r] = call[r]
    PROVE  /\ r \in DOMAIN call' => CallShape!3!(r)'
           /\ PendingOK!(r)'
           /\ r \in DOMAIN call' => PutOfItsRun!(r)'
           /\ r \in DOMAIN call' => OwnBlobsAccounted!(r)'
<1>1. r \in DOMAIN call' => CallShape!3!(r)'
  BY DEF IInv, CallShape, BlobChannels
<1>2. PendingOK!(r)'
  <2>1. PendingOK!(r)
    BY DEF IInv, PendingOK
  <2> QED BY <2>1 DEF CheckpointRow, BlobRow
<1>3. r \in DOMAIN call' => PutOfItsRun!(r)'
  BY DEF IInv, PutOfItsRun
<1>4. r \in DOMAIN call' => OwnBlobsAccounted!(r)'
  <2>1. r \in DOMAIN call => OwnBlobsAccounted!(r)
    BY DEF IInv, OwnBlobsAccounted
  <2> QED BY <2>1 DEF BlobChannels
<1> QED BY <1>1, <1>2, <1>3, <1>4

\* So a step of s that changes its transaction, its call and its statement
\* preserves the invariant if it leaves those of s right.
LEMMA OwnStep ==
    ASSUME IInv, NEW s \in Savers, UNCHANGED <<db, base, asked, severed>>,
           TxShape', \A r \in Savers \ {s} : tx'[r] = tx[r],
           NEW label \in Statements \cup {"idle", "raised"}, Goto(s, label),
           DOMAIN call' = {r \in Savers : pc'[r] # "idle"},
           \A r \in Savers \ {s} : r \in DOMAIN call => call'[r] = call[r],
           s \in DOMAIN call' =>
               CallShape!3!(s)' /\ PutOfItsRun!(s)' /\ OwnBlobsAccounted!(s)',
           PendingOK!(s)'
    PROVE  IInv'
<1>1. /\ pc' \in [Savers -> Statements \cup {"idle", "raised"}]
      /\ \A r \in Savers \ {s} : pc'[r] = pc[r]
  BY DEF IInv, CallShape, Goto
<1>2. \A r \in Savers \ {s} : r \in DOMAIN call <=> r \in DOMAIN call'
  BY <1>1 DEF IInv, CallShape
<1>3. ASSUME NEW r \in Savers \ {s}
      PROVE  /\ r \in DOMAIN call' => CallShape!3!(r)'
             /\ PendingOK!(r)'
             /\ r \in DOMAIN call' => PutOfItsRun!(r)'
             /\ r \in DOMAIN call' => OwnBlobsAccounted!(r)'
  BY <1>1, <1>2, OthersKeepTheirs
<1>4. \A r \in DOMAIN call' : r \in Savers
  OBVIOUS
<1>5. CallShape'
  <2>1. \A r \in DOMAIN call' : CallShape!3!(r)'
    BY <1>3, <1>4
  <2> QED BY <1>1, <2>1 DEF CallShape
<1>6. PendingOK'
  <2>1. \A r \in Savers : PendingOK!(r)'
    BY <1>3
  <2> QED BY <2>1 DEF PendingOK
<1>7. PutOfItsRun'
  <2>1. \A r \in DOMAIN call' : PutOfItsRun!(r)'
    BY <1>3, <1>4
  <2> QED BY <2>1 DEF PutOfItsRun
<1>8. OwnBlobsAccounted'
  <2>1. \A r \in DOMAIN call' : OwnBlobsAccounted!(r)'
    BY <1>3, <1>4
  <2> QED BY <2>1 DEF OwnBlobsAccounted
<1> QED
  BY <1>5, <1>6, <1>7, <1>8, FrameData, FrameBase DEF IInv

\* A blob is inserted, or already there.
LEMMA PutBlobStep ==
    ASSUME IInv, NEW s \in Savers, PutBlob(s)
    PROVE  IInv'
<1> DEFINE i == call[s].id
           a == asked[i]
<1>1. PICK ch \in call[s].todo :
        /\ InsertIgnore(s, "blobs", BlobKey(a.thread, a.ns, ch, a.vers[ch]), a.vals[ch])
        /\ call' = [call EXCEPT ![s].todo = @ \ {ch}]
        /\ Goto(s, IF call[s].todo = {ch} THEN "checkpoint" ELSE "blobs")
  BY DEF PutBlob
<1>2. pc[s] = "blobs" /\ UNCHANGED <<db, base, asked, severed>>
  BY DEF PutBlob
<1> DEFINE k == BlobKey(a.thread, a.ns, ch, a.vers[ch])
           next == IF call[s].todo = {ch} THEN "checkpoint" ELSE "blobs"
<1>3. /\ s \in DOMAIN call /\ call[s].op = "put" /\ i \in DOMAIN asked /\ s \in DOMAIN base
      /\ DOMAIN call[s] = {"op", "id", "todo"} /\ call[s].todo \subseteq BlobChannels(a)
  BY <1>2 DEF IInv, CallShape
<1>4. /\ DOMAIN call' = DOMAIN call
      /\ \A r \in Savers \ {s} : r \in DOMAIN call => call'[r] = call[r]
      /\ call'[s].op = "put" /\ call'[s].id = i /\ call'[s].todo = call[s].todo \ {ch}
      /\ DOMAIN call'[s] = {"op", "id", "todo"}
  BY <1>1, <1>3
<1>5. pc'[s] = next /\ next \in Statements /\ DOMAIN call' = {r \in Savers : pc'[r] # "idle"}
  BY <1>1, <1>2, <1>3, <1>4 DEF Goto, Statements, IInv, CallShape
<1>6. /\ TxShape'
      /\ \A r \in Savers \ {s} : tx'[r] = tx[r]
      /\ \A u \in Tables \ {"blobs"} : tx'[s][u] = tx[s][u]
      /\ \/ k \in DOMAIN Seen(s, "blobs") /\ tx'[s].blobs.set = tx[s].blobs.set
         \/ tx'[s].blobs.set = With(tx[s].blobs.set, k, a.vals[ch])
      /\ tx'[s].blobs.del = tx[s].blobs.del
  BY <1>1, InsertIgnoreEffect DEF IInv, Tables
<1>7. ch \in a.new /\ a.vers[ch][2] = i /\ a.vals[ch] \in Objects /\ a.thread \in Threads
  BY <1>1, <1>3 DEF BlobChannels, IInv, OwnVersions, AskedShape
<1>8. BlobRow(k, a.vals[ch])
  <2>1. k.version = a.vers[ch] /\ k.channel = ch
    BY DEF BlobKey
  <2> QED BY <2>1, <1>1, <1>3, <1>7 DEF BlobRow
<1>9. CallShape!3!(s)'
  BY <1>2, <1>3, <1>4, <1>5 DEF BlobChannels
<1>10. PutOfItsRun!(s)'
  BY <1>2, <1>3, <1>4 DEF IInv, PutOfItsRun
<1>11. PendingOK!(s)'
  <2>1. PendingOK!(s)
    BY DEF IInv, PendingOK
  <2>2. DOMAIN tx[s].checkpoints.set = {} /\ tx'[s].checkpoints = tx[s].checkpoints
        /\ tx'[s].writes = tx[s].writes
    BY <2>1, <1>2, <1>6 DEF Tables
  <2>3. \A x \in DOMAIN tx'[s].blobs.set : BlobRow(x, tx'[s].blobs.set[x])
    BY <2>1, <1>6, <1>8 DEF With
  <2>4. tx[s].blobs.del = {}
    BY <2>1, <1>3
  <2> QED BY <2>1, <2>2, <2>3, <2>4, <1>2, <1>6 DEF BlobRow
<1>12. OwnBlobsAccounted!(s)'
  <2>1. i \notin severed => \A x \in BlobChannels(a) \ call[s].todo :
          BlobKey(a.thread, a.ns, x, a.vers[x]) \in DOMAIN db.blobs \cup DOMAIN tx[s].blobs.set
    BY <1>2, <1>3 DEF IInv, OwnBlobsAccounted
  <2>2. DOMAIN tx[s].blobs.set \subseteq DOMAIN tx'[s].blobs.set
    BY <1>6 DEF With
  <2>3. k \in DOMAIN db.blobs \cup DOMAIN tx'[s].blobs.set
    <3>1. CASE k \in DOMAIN Seen(s, "blobs") /\ tx'[s].blobs.set = tx[s].blobs.set
      BY <3>1 DEF Seen, Applied
    <3>2. CASE tx'[s].blobs.set = With(tx[s].blobs.set, k, a.vals[ch])
      BY <3>2 DEF With
    <3> QED BY <3>1, <3>2, <1>6
  <2>4. i \notin severed => \A x \in BlobChannels(a) \ call'[s].todo :
          BlobKey(a.thread, a.ns, x, a.vers[x]) \in DOMAIN db.blobs \cup DOMAIN tx'[s].blobs.set
    BY <2>1, <2>2, <2>3, <1>4
  <2>5. next \in {"checkpoint", "commit"} => call'[s].todo = {}
    BY <1>4
  <2> QED BY <2>4, <2>5, <1>2, <1>4, <1>5 DEF BlobChannels
<1> QED
  BY <1>1, <1>2, <1>4, <1>5, <1>6, <1>9, <1>10, <1>11, <1>12, OwnStep

\* The checkpoint row is inserted or updated.
LEMMA PutCheckpointStep ==
    ASSUME IInv, NEW s \in Savers, PutCheckpoint(s)
    PROVE  IInv'
<1> DEFINE i == call[s].id
           a == asked[i]
           k == [thread |-> a.thread, ns |-> a.ns, id |-> i]
           seen == Seen(s, "checkpoints")
           row == [parent |-> IF k \in DOMAIN seen THEN seen[k].parent ELSE a.parent,
                   vers |-> a.vers, inline |-> Inline(a)]
<1>1. /\ pc[s] = "checkpoint" /\ Upsert(s, "checkpoints", k, row) /\ Goto(s, "commit")
      /\ UNCHANGED <<db, call, base, asked, severed>>
  BY DEF PutCheckpoint
<1>2. /\ s \in DOMAIN call /\ call[s].op = "put" /\ i \in DOMAIN asked /\ s \in DOMAIN base
  BY <1>1 DEF IInv, CallShape
<1>3. PendingOK!(s)
  BY DEF IInv, PendingOK
<1>4. CheckpointRow(k, row)
  <2>1. /\ i \in Ids /\ a.thread \in Threads /\ a.ns \in Namespaces
        /\ a.parent \in Ids \cup {NoId} /\ a.vers \in VersionMap /\ a.vals \in ValueMap
    BY <1>2 DEF IInv, AskedShape
  <2>2. k \in CheckpointKey
    BY <2>1 DEF CheckpointKey
  <2>3. k \in DOMAIN seen => seen[k].parent \in Ids \cup {NoId}
    <3>1. \A x \in DOMAIN db.checkpoints : db.checkpoints[x].parent \in Ids \cup {NoId}
      BY DEF IInv, RowsOK, CheckpointRow, Row
    <3>2. \A x \in DOMAIN tx[s].checkpoints.set :
             tx[s].checkpoints.set[x].parent \in Ids \cup {NoId}
      BY <1>3 DEF CheckpointRow, Row
    <3> QED BY <3>1, <3>2 DEF Seen, Applied
  <2>4. Inline(a) \in [Channels -> Primitives \cup {NoVal}]
    BY DEF Inline
  <2>5. row \in Row
    BY <2>1, <2>3, <2>4 DEF Row, VersionMap
  <2> QED BY <2>2, <2>5, <1>2 DEF CheckpointRow
<1> HIDE DEF row, k
<1>5. /\ TxShape'
      /\ \A r \in Savers \ {s} : tx'[r] = tx[r]
      /\ \A u \in Tables \ {"checkpoints"} : tx'[s][u] = tx[s][u]
      /\ tx'[s].checkpoints.set = With(tx[s].checkpoints.set, k, row)
  BY <1>1, UpsertEffect DEF IInv, Tables
<1>6. pc'[s] = "commit" /\ DOMAIN call' = {r \in Savers : pc'[r] # "idle"}
  BY <1>1 DEF Goto, IInv, CallShape
<1>7. CallShape!3!(s)'
  BY <1>1, <1>2, <1>6 DEF IInv, CallShape, BlobChannels
<1>8. PutOfItsRun!(s)'
  BY <1>1, <1>2 DEF IInv, PutOfItsRun
<1>9. tx'[s].blobs = tx[s].blobs /\ tx'[s].writes = tx[s].writes
  BY <1>5 DEF Tables
<1>10. PendingOK!(s)'
  <2>1. k.id = i
    BY DEF k
  <2>2. \A x \in DOMAIN tx'[s].checkpoints.set :
          CheckpointRow(x, tx'[s].checkpoints.set[x]) /\ x.id = i
    BY <2>1, <1>3, <1>4, <1>5 DEF With
  <2> QED BY <2>2, <1>1, <1>2, <1>3, <1>6, <1>9 DEF CheckpointRow, BlobRow
<1>11. OwnBlobsAccounted!(s)'
  BY <1>1, <1>2, <1>6, <1>9 DEF IInv, OwnBlobsAccounted, BlobChannels
<1> QED
  BY <1>1, <1>5, <1>6, <1>7, <1>8, <1>10, <1>11, OwnStep DEF Statements

\* put_writes is called by a run.
LEMMA PutWritesStep ==
    ASSUME IInv, NEW s \in Savers, PutWrites(s)
    PROVE  IInv'
<1>1. PICK tk \in Tasks, ws \in WriteLists :
        /\ call' = With(call, s,
             [op |-> "put_writes", thread |-> base[s].thread, ns |-> base[s].ns,
              id |-> base[s].id, task |-> tk, writes |-> ws, next |-> 1])
        /\ Goto(s, IF ws = <<>> THEN "commit" ELSE "writes")
  BY DEF PutWrites
<1>2. s \in DOMAIN base /\ pc[s] = "idle" /\ UNCHANGED <<db, tx, base, asked, severed>>
  BY DEF PutWrites
<1> DEFINE c == [op |-> "put_writes", thread |-> base[s].thread, ns |-> base[s].ns,
                 id |-> base[s].id, task |-> tk, writes |-> ws, next |-> 1]
           label == IF ws = <<>> THEN "commit" ELSE "writes"
<1>3. /\ DOMAIN call' = DOMAIN call \cup {s} /\ call'[s] = c
      /\ \A r \in Savers \ {s} : r \in DOMAIN call => call'[r] = call[r]
      /\ s \notin DOMAIN call
  BY <1>1, <1>2 DEF With, IInv, CallShape
<1>4. pc'[s] = label /\ label \in Statements /\ DOMAIN call' = {r \in Savers : pc'[r] # "idle"}
  BY <1>1, <1>2, <1>3 DEF Goto, Statements, IInv, CallShape
<1>5. ws # <<>> => 1 \in 1..Len(ws)
  BY <1>1, WriteListsAssumption
<1>6. CallShape!3!(s)'
  BY <1>1, <1>2, <1>3, <1>4, <1>5 DEF IInv, BaseShape
<1>7. PutOfItsRun!(s)' /\ OwnBlobsAccounted!(s)'
  BY <1>3
<1>8. PendingOK!(s)'
  <2>1. PendingOK!(s)
    BY DEF IInv, PendingOK
  <2> QED BY <2>1, <1>2, <1>3 DEF CheckpointRow, BlobRow
<1> QED
  BY <1>1, <1>2, <1>3, <1>4, <1>6, <1>7, <1>8, OwnStep DEF IInv, TxShape

\* A pending write is inserted, replaced, or already there.
LEMMA PutWriteStep ==
    ASSUME IInv, NEW s \in Savers, PutWrite(s)
    PROVE  IInv'
<1> DEFINE c == call[s]
           k == WriteKey(c.thread, c.ns, c.id, c.task, WriteIdx(c.writes, c.next))
           row == c.writes[c.next]
           label == IF c.next = Len(c.writes) THEN "commit" ELSE "writes"
<1>1. /\ pc[s] = "writes" /\ Goto(s, label)
      /\ Upsert(s, "writes", k, row) \/ InsertIgnore(s, "writes", k, row)
      /\ call' = [call EXCEPT ![s].next = @ + 1]
      /\ UNCHANGED <<db, base, asked, severed>>
  BY DEF PutWrite
<1>2. /\ s \in DOMAIN call /\ c.op = "put_writes" /\ c.writes \in WriteLists
      /\ DOMAIN c = {"op", "thread", "ns", "id", "task", "writes", "next"}
      /\ c.thread \in Threads /\ c.next \in 1..Len(c.writes)
  BY <1>1 DEF IInv, CallShape
<1>3. /\ DOMAIN call' = DOMAIN call
      /\ \A r \in Savers \ {s} : r \in DOMAIN call => call'[r] = call[r]
      /\ DOMAIN call'[s] = DOMAIN c /\ call'[s].op = "put_writes"
      /\ call'[s].thread = c.thread /\ call'[s].writes = c.writes
      /\ call'[s].next = c.next + 1
  BY <1>1, <1>2
<1>4. pc'[s] = label /\ label \in Statements /\ DOMAIN call' = {r \in Savers : pc'[r] # "idle"}
  BY <1>1, <1>2, <1>3 DEF Goto, Statements, IInv, CallShape
<1>5. /\ TxShape'
      /\ \A r \in Savers \ {s} : tx'[r] = tx[r]
      /\ \A u \in Tables \ {"writes"} : tx'[s][u] = tx[s][u]
      /\ \/ tx'[s].writes.set = tx[s].writes.set
         \/ tx'[s].writes.set = With(tx[s].writes.set, k, row)
  BY <1>1, UpsertEffect, InsertIgnoreEffect DEF IInv, Tables
<1>6. Len(c.writes) \in Nat /\ WriteRow(row)
  BY <1>2, WriteListsAssumption DEF WriteRow
<1>7. CallShape!3!(s)'
  <2>1. pc'[s] = "writes" => c.next + 1 \in 1..Len(c.writes)
    BY <1>2, <1>4, <1>6
  <2> QED BY <2>1, <1>2, <1>3, <1>4
<1>8. PutOfItsRun!(s)' /\ OwnBlobsAccounted!(s)'
  BY <1>3
<1>9. PendingOK!(s)'
  <2>1. PendingOK!(s)
    BY DEF IInv, PendingOK
  <2>2. tx'[s].checkpoints = tx[s].checkpoints /\ tx'[s].blobs = tx[s].blobs
    BY <1>5 DEF Tables
  <2>3. \A x \in DOMAIN tx'[s].writes.set : WriteRow(tx'[s].writes.set[x])
    BY <2>1, <1>5, <1>6 DEF With
  <2>4. DOMAIN tx[s].checkpoints.set = {} /\ tx[s].blobs.del = {}
    BY <2>1, <1>2
  <2> QED BY <2>1, <2>2, <2>3, <2>4, <1>1 DEF BlobRow
<1> QED
  BY <1>1, <1>3, <1>4, <1>5, <1>7, <1>8, <1>9, OwnStep

\* delete_thread is called.
LEMMA DeleteThreadStep ==
    ASSUME IInv, NEW s \in Savers, DeleteThread(s)
    PROVE  IInv'
<1>1. PICK t \in Threads : call' = With(call, s, [op |-> "delete_thread", thread |-> t])
  BY DEF DeleteThread
<1>2. /\ pc[s] = "idle" /\ Goto(s, "delete_checkpoints")
      /\ UNCHANGED <<db, tx, base, asked, severed>>
  BY DEF DeleteThread
<1>3. /\ DOMAIN call' = DOMAIN call \cup {s}
      /\ call'[s].op = "delete_thread" /\ call'[s].thread = t
      /\ \A r \in Savers \ {s} : r \in DOMAIN call => call'[r] = call[r]
      /\ s \notin DOMAIN call
  BY <1>1, <1>2 DEF With, IInv, CallShape
<1>4. pc'[s] = "delete_checkpoints" /\ DOMAIN call' = {r \in Savers : pc'[r] # "idle"}
  BY <1>2, <1>3 DEF Goto, IInv, CallShape
<1>5. CallShape!3!(s)' /\ PutOfItsRun!(s)' /\ OwnBlobsAccounted!(s)'
  BY <1>3, <1>4
<1>6. PendingOK!(s)'
  <2>1. PendingOK!(s)
    BY DEF IInv, PendingOK
  <2> QED BY <2>1, <1>2, <1>3 DEF CheckpointRow, BlobRow
<1> QED
  BY <1>2, <1>3, <1>4, <1>5, <1>6, OwnStep DEF Statements, IInv, TxShape

\* One DELETE of delete_thread.
LEMMA DeleteStatementStep ==
    ASSUME IInv, NEW s \in Savers, NEW tb \in Tables,
           pc[s] \in {"delete_checkpoints", "delete_blobs", "delete_writes"},
           DeleteWhereThread(s, tb, call[s].thread),
           NEW label \in {"delete_blobs", "delete_writes", "commit"}, Goto(s, label),
           UNCHANGED <<db, call, base, asked, severed>>
    PROVE  IInv'
<1>1. s \in DOMAIN call /\ call[s].op = "delete_thread" /\ call[s].thread \in Threads
  BY DEF IInv, CallShape
<1>2. /\ TxShape'
      /\ \A r \in Savers \ {s} : tx'[r] = tx[r]
      /\ \A u \in Tables \ {tb} : tx'[s][u] = tx[s][u]
      /\ tx'[s][tb].set = tx[s][tb].set
      /\ \A k \in tx'[s][tb].del : k.thread = call[s].thread
  BY DeleteEffect DEF IInv
<1>3. pc'[s] = label /\ DOMAIN call' = {r \in Savers : pc'[r] # "idle"}
  BY DEF Goto, IInv, CallShape
<1>4. CallShape!3!(s)' /\ PutOfItsRun!(s)' /\ OwnBlobsAccounted!(s)'
  BY <1>1, <1>3
<1>5. PendingOK!(s)'
  <2>1. PendingOK!(s)
    BY DEF IInv, PendingOK
  <2>2. \A u \in Tables : tx'[s][u].set = tx[s][u].set
    BY <1>2
  <2>3. tx'[s].checkpoints.set = tx[s].checkpoints.set /\ tx'[s].blobs.set = tx[s].blobs.set
        /\ tx'[s].writes.set = tx[s].writes.set
    BY <2>2 DEF Tables
  <2>4. \A k \in tx'[s].blobs.del : k.thread = call[s].thread
    BY <2>1, <1>2 DEF Tables
  <2>5. DOMAIN tx[s].checkpoints.set = {}
    BY <2>1, <1>1
  <2> QED BY <2>1, <2>3, <2>4, <2>5, <1>1, <1>3 DEF BlobRow
<1> QED
  BY <1>2, <1>3, <1>4, <1>5, OwnStep DEF Statements

LEMMA DeleteStep ==
    ASSUME IInv, NEW s \in Savers,
           DeleteCheckpoints(s) \/ DeleteBlobs(s) \/ DeleteWrites(s)
    PROVE  IInv'
BY DeleteStatementStep DEF DeleteCheckpoints, DeleteBlobs, DeleteWrites, Tables

\* A statement raises and the transaction is rolled back.
LEMMA StatementFailsStep ==
    ASSUME IInv, NEW s \in Savers, StatementFails(s)
    PROVE  IInv'
<1>1. /\ pc[s] \in Statements /\ tx' = [tx EXCEPT ![s] = NoTx] /\ Goto(s, "raised")
      /\ UNCHANGED <<db, call, base, asked, severed>>
  BY DEF StatementFails
<1>2. s \in DOMAIN call
  BY <1>1 DEF IInv, CallShape, Statements
<1>3. /\ TxShape' /\ tx'[s] = NoTx /\ \A r \in Savers \ {s} : tx'[r] = tx[r]
  BY <1>1, EndTxEffect DEF IInv
<1>4. pc'[s] = "raised" /\ DOMAIN call' = {r \in Savers : pc'[r] # "idle"}
  BY <1>1, <1>2 DEF Goto, IInv, CallShape
<1>5. CallShape!3!(s)'
  BY <1>1, <1>2, <1>4 DEF IInv, CallShape, BlobChannels
<1>6. PutOfItsRun!(s)' /\ OwnBlobsAccounted!(s)'
  BY <1>1, <1>2, <1>4 DEF IInv, PutOfItsRun
<1>7. PendingOK!(s)'
  BY <1>3, NoTxEmpty DEF Tables
<1> QED
  BY <1>1, <1>3, <1>4, <1>5, <1>6, <1>7, OwnStep

\* The caller repeats a call that raised.
LEMMA RetryStep ==
    ASSUME IInv, NEW s \in Savers, Retry(s)
    PROVE  IInv'
<1>1. pc[s] = "raised" /\ UNCHANGED <<db, tx, base, asked, severed>>
  BY DEF Retry
<1>2. s \in DOMAIN call
  BY <1>1 DEF IInv, CallShape
<1>3. PendingOK!(s)
  BY DEF IInv, PendingOK
<1>4. DOMAIN tx[s].checkpoints.set = {} /\ tx[s].blobs.del = {} /\ TxShape'
  BY <1>1, <1>3 DEF IInv, TxShape
<1>5. CASE call[s].op = "put"
  <2> DEFINE a == asked[call[s].id]
  <2>1. call' = [call EXCEPT ![s].todo = BlobChannels(a)] /\ Goto(s, PutStart(a))
    BY <1>5 DEF Retry
  <2>2. /\ DOMAIN call[s] = {"op", "id", "todo"} /\ call[s].id \in DOMAIN asked
        /\ s \in DOMAIN base
    BY <1>2, <1>5 DEF IInv, CallShape
  <2>3. /\ DOMAIN call' = DOMAIN call
        /\ \A r \in Savers \ {s} : r \in DOMAIN call => call'[r] = call[r]
        /\ DOMAIN call'[s] = {"op", "id", "todo"} /\ call'[s].op = "put"
        /\ call'[s].id = call[s].id /\ call'[s].todo = BlobChannels(a)
    BY <2>1, <2>2, <1>2, <1>5
  <2>4. /\ PutStart(a) \in Statements /\ pc'[s] = PutStart(a)
        /\ DOMAIN call' = {r \in Savers : pc'[r] # "idle"}
    BY <1>1, <1>2, <2>1, <2>3 DEF PutStart, Statements, Goto, IInv, CallShape
  <2>5. CallShape!3!(s)'
    BY <1>1, <2>2, <2>3, <2>4 DEF PutStart, BlobChannels
  <2>6. PutOfItsRun!(s)'
    BY <1>1, <1>2, <1>5, <2>3 DEF IInv, PutOfItsRun
  <2>7. OwnBlobsAccounted!(s)'
    BY <1>1, <2>3, <2>4 DEF PutStart, BlobChannels
  <2>8. PendingOK!(s)'
    BY <1>1, <1>3, <1>4, <1>5 DEF BlobRow
  <2> QED BY <1>1, <2>1, <2>3, <2>4, <2>5, <2>6, <2>7, <2>8, <1>4, OwnStep
<1>6. CASE call[s].op = "put_writes"
  <2> DEFINE ws == call[s].writes
             label == IF ws = <<>> THEN "commit" ELSE "writes"
  <2>1. call' = [call EXCEPT ![s].next = 1] /\ Goto(s, label)
    BY <1>6 DEF Retry
  <2>2. /\ DOMAIN call[s] = {"op", "thread", "ns", "id", "task", "writes", "next"}
        /\ call[s].thread \in Threads /\ ws \in WriteLists
    BY <1>2, <1>6 DEF IInv, CallShape
  <2>3. /\ DOMAIN call' = DOMAIN call
        /\ \A r \in Savers \ {s} : r \in DOMAIN call => call'[r] = call[r]
        /\ DOMAIN call'[s] = DOMAIN call[s] /\ call'[s].op = "put_writes"
        /\ call'[s].thread = call[s].thread /\ call'[s].writes = ws /\ call'[s].next = 1
    BY <2>1, <2>2, <1>2, <1>6
  <2>4. /\ label \in Statements /\ pc'[s] = label
        /\ DOMAIN call' = {r \in Savers : pc'[r] # "idle"}
    BY <1>1, <1>2, <2>1, <2>3 DEF Statements, Goto, IInv, CallShape
  <2>5. ws # <<>> => 1 \in 1..Len(ws)
    BY <2>2, WriteListsAssumption
  <2>6. CallShape!3!(s)'
    BY <2>2, <2>3, <2>4, <2>5
  <2>7. PutOfItsRun!(s)' /\ OwnBlobsAccounted!(s)'
    BY <2>3
  <2>8. PendingOK!(s)'
    BY <1>1, <1>3, <1>4, <1>6 DEF BlobRow
  <2> QED BY <1>1, <2>1, <2>3, <2>4, <2>6, <2>7, <2>8, <1>4, OwnStep
<1>7. CASE call[s].op = "delete_thread"
  <2>1. call' = call /\ Goto(s, "delete_checkpoints")
    BY <1>7 DEF Retry
  <2>2. /\ pc'[s] = "delete_checkpoints" /\ DOMAIN call' = {r \in Savers : pc'[r] # "idle"}
    BY <1>1, <2>1 DEF Goto, IInv, CallShape
  <2>3. CallShape!3!(s)' /\ PutOfItsRun!(s)' /\ OwnBlobsAccounted!(s)'
    BY <1>2, <1>7, <2>1, <2>2 DEF IInv, CallShape
  <2>4. PendingOK!(s)'
    BY <1>1, <1>3, <1>4, <2>1 DEF BlobRow
  <2> QED BY <1>1, <2>1, <2>2, <2>3, <2>4, <1>4, OwnStep DEF Statements
<1> QED
  BY <1>2, <1>5, <1>6, <1>7 DEF IInv, CallShape

\* The caller gives up, or its process dies: its run and its transaction end.
LEMMA LeaveStep ==
    ASSUME IInv, NEW s \in Savers, GiveUp(s) \/ Crash(s)
    PROVE  IInv'
<1>1. /\ pc[s] \in Statements \cup {"raised"} /\ Goto(s, "idle")
      /\ (tx' = tx /\ pc[s] = "raised") \/ tx' = [tx EXCEPT ![s] = NoTx]
      /\ call' = Without(call, {s}) /\ base' = Without(base, {s})
      /\ UNCHANGED <<db, asked, severed>>
  BY DEF GiveUp, Crash
<1>2. /\ DOMAIN call' = DOMAIN call \ {s} /\ \A r \in DOMAIN call' : call'[r] = call[r]
      /\ DOMAIN base' = DOMAIN base \ {s} /\ \A r \in DOMAIN base' : base'[r] = base[r]
  BY <1>1 DEF Without
<1>3. /\ pc' \in [Savers -> Statements \cup {"idle", "raised"}]
      /\ pc'[s] = "idle" /\ \A r \in Savers \ {s} : pc'[r] = pc[r]
  BY <1>1 DEF Goto, IInv, CallShape
<1>4. TxShape' /\ \A r \in Savers \ {s} : tx'[r] = tx[r]
  BY <1>1, EndTxEffect DEF IInv, TxShape
<1>5. BaseShape' /\ BaseTraced'
  <2>1. BaseShape'
    BY <1>1, <1>2 DEF IInv, BaseShape
  <2>2. BaseTraced'
    <3> SUFFICES ASSUME NEW r \in DOMAIN base'
                 PROVE  BaseTraced!(r)'
      BY DEF BaseTraced
    <3>1. BaseTraced!(r)
      BY <1>2 DEF IInv, BaseTraced
    <3> QED BY <3>1, <1>1, <1>2
  <2> QED BY <2>1, <2>2
<1>6. CallShape'
  <2>1. DOMAIN call' = {r \in Savers : pc'[r] # "idle"}
    BY <1>2, <1>3 DEF IInv, CallShape
  <2> SUFFICES ASSUME NEW r \in DOMAIN call'
               PROVE  CallShape!3!(r)'
    BY <2>1, <1>3 DEF CallShape
  <2> QED BY <2>1, <1>1, <1>2, <1>3 DEF IInv, CallShape, BlobChannels
<1>7. PendingOK'
  <2> SUFFICES ASSUME NEW r \in Savers
               PROVE  PendingOK!(r)'
    BY DEF PendingOK
  <2>1. PendingOK!(r)
    BY DEF IInv, PendingOK
  <2>2. CASE r # s
    <3>1. tx'[r] = tx[r] /\ pc'[r] = pc[r] /\ asked' = asked
      BY <2>2, <1>1, <1>3, <1>4
    <3>2. r \in DOMAIN call => r \in DOMAIN call' /\ call'[r] = call[r]
      BY <2>2, <1>2
    <3> QED BY <2>1, <3>1, <3>2 DEF CheckpointRow, BlobRow
  <2>3. CASE r = s /\ tx' = [tx EXCEPT ![s] = NoTx]
    <3>1. tx'[s] = NoTx
      BY <2>3, EndTxEffect DEF IInv
    <3> QED BY <2>3, <3>1, NoTxEmpty DEF Tables
  <2>4. CASE r = s /\ tx' = tx /\ pc[s] = "raised"
    <3>1. DOMAIN tx[s].checkpoints.set = {} /\ tx[s].blobs.del = {}
      BY <2>1, <2>4
    <3> QED BY <2>1, <2>4, <3>1, <1>1 DEF BlobRow
  <2> QED BY <2>2, <2>3, <2>4, <1>1
<1>8. PutOfItsRun' /\ OwnBlobsAccounted'
  <2>1. \A r \in DOMAIN call' : r \in Savers \ {s} /\ pc'[r] = pc[r] /\ tx'[r] = tx[r]
    BY <1>2, <1>3, <1>4 DEF IInv, CallShape
  <2>2. \A r \in DOMAIN call' : call[r].op = "put" => base'[r] = base[r]
    BY <2>1, <1>2 DEF IInv, CallShape
  <2>3. PutOfItsRun'
    <3> SUFFICES ASSUME NEW r \in DOMAIN call', call'[r].op = "put"
                 PROVE  /\ asked[call[r].id].thread = base[r].thread
                        /\ asked[call[r].id].ns = base[r].ns
      BY <2>2, <1>1, <1>2 DEF PutOfItsRun
    <3> QED BY <1>2 DEF IInv, PutOfItsRun
  <2>4. OwnBlobsAccounted'
    BY <2>1, <1>1, <1>2 DEF IInv, OwnBlobsAccounted, BlobChannels
  <2> QED BY <2>3, <2>4
<1> QED
  BY <1>1, <1>4, <1>5, <1>6, <1>7, <1>8, FrameData DEF IInv

-----------------------------------------------------------------------------
\* The end of a transaction.

\* Committing keeps every blob but those of a deleted thread, and adds those
\* of the transaction.
LEMMA CommittedBlobs ==
    ASSUME IInv, NEW s \in DOMAIN call, ServerCommits(s)
    PROVE  /\ \A k \in DOMAIN db.blobs \ DOMAIN db'.blobs :
                call[s].op = "delete_thread" /\ k.thread = call[s].thread
           /\ DOMAIN tx[s].blobs.set \subseteq DOMAIN db'.blobs
<1>1. s \in Savers
  BY DEF IInv, CallShape
<1>2. DOMAIN db'.blobs = (DOMAIN db.blobs \ tx[s].blobs.del) \cup DOMAIN tx[s].blobs.set
  BY DEF ServerCommits, Applied, Tables
<1>3. \A k \in tx[s].blobs.del :
        call[s].op = "delete_thread" /\ k.thread = call[s].thread
  BY <1>1 DEF IInv, PendingOK
<1> QED BY <1>2, <1>3

\* So what a checkpoint that is not cut off needs stays stored.
LEMMA CommitKeepsPresent ==
    ASSUME IInv, NEW s \in DOMAIN call, ServerCommits(s),
           NEW i \in DOMAIN asked \ severed', NEW t, t = asked[i].thread,
           NEW n, NEW vers, NEW vals, NEW C, Present(DOMAIN db.blobs, t, n, vers, vals, C)
    PROVE  Present(DOMAIN db'.blobs, t, n, vers, vals, C)
<1>1. call[s].op = "delete_thread" => t # call[s].thread
  BY DEF ServerCommits
<1>2. \A ch : BlobKey(t, n, ch, vers[ch]).thread = t
  BY DEF BlobKey
<1> QED
  BY <1>1, <1>2, CommittedBlobs DEF Present

\* All the blobs of a put that commits are stored afterwards.
LEMMA CommitStoresPut ==
    ASSUME IInv, NEW s \in DOMAIN call, pc[s] = "commit", ServerCommits(s),
           call[s].op = "put", call[s].id \notin severed
    PROVE  LET a == asked[call[s].id] IN
           Present(DOMAIN db'.blobs, a.thread, a.ns, a.vers, a.vals, Channels)
<1> DEFINE i == call[s].id
           a == asked[i]
<1>1. s \in Savers /\ i \in DOMAIN asked
  BY DEF IInv, CallShape
<1>2. Present(DOMAIN db.blobs, a.thread, a.ns, a.vers, a.vals, Channels \ a.new)
  BY <1>1 DEF IInv, AskedTraced
<1>3. \A ch \in BlobChannels(a) :
        BlobKey(a.thread, a.ns, ch, a.vers[ch]) \in DOMAIN db.blobs \cup DOMAIN tx[s].blobs.set
  BY DEF IInv, OwnBlobsAccounted
<1>4. DOMAIN db.blobs \cup DOMAIN tx[s].blobs.set \subseteq DOMAIN db'.blobs
  BY CommittedBlobs
<1> QED
  BY <1>2, <1>3, <1>4 DEF Present, BlobChannels

\* The rows and the checkpoints after a commit.
LEMMA ServerCommitsData ==
    ASSUME IInv, NEW s \in DOMAIN call, pc[s] = "commit", ServerCommits(s), asked' = asked
    PROVE  /\ TxShape' /\ AskedShape' /\ SeveredShape' /\ RowsOK' /\ OwnVersions'
           /\ AskedTraced' /\ StoredPresent'
           /\ tx'[s] = NoTx /\ \A r \in Savers \ {s} : tx'[r] = tx[r]
<1>1. s \in Savers
  BY DEF IInv, CallShape
<1>2. TxShape' /\ tx'[s] = NoTx /\ \A r \in Savers \ {s} : tx'[r] = tx[r]
  BY <1>1, EndTxEffect DEF IInv, ServerCommits
<1>3. AskedShape' /\ OwnVersions'
  BY DEF IInv, AskedShape, OwnVersions
<1>4. SeveredShape' /\ severed \subseteq severed'
  BY DEF IInv, SeveredShape, ServerCommits
<1>5. PendingOK!(s)
  BY <1>1 DEF IInv, PendingOK
<1>6. /\ DOMAIN db' = Tables
      /\ \A tb \in Tables : db'[tb] = Applied(tx[s][tb], db[tb])
  BY DEF ServerCommits
<1>7. \A k \in DOMAIN db'.checkpoints :
        /\ CheckpointRow(k, db'.checkpoints[k])
        /\ k \in DOMAIN db.checkpoints \/ (call[s].op = "put" /\ k.id = call[s].id)
  <2>1. db'.checkpoints = Applied(tx[s].checkpoints, db.checkpoints)
    BY <1>6 DEF Tables
  <2>2. \A k \in DOMAIN db.checkpoints : CheckpointRow(k, db.checkpoints[k])
    BY DEF IInv, RowsOK
  <2> QED BY <2>1, <2>2, <1>5 DEF Applied
<1>8. \A k \in DOMAIN db'.blobs : BlobRow(k, db'.blobs[k])
  <2>1. db'.blobs = Applied(tx[s].blobs, db.blobs)
    BY <1>6 DEF Tables
  <2>2. \A k \in DOMAIN db.blobs : BlobRow(k, db.blobs[k])
    BY DEF IInv, RowsOK
  <2> QED BY <2>1, <2>2, <1>5 DEF Applied
<1>9. \A k \in DOMAIN db'.writes : WriteRow(db'.writes[k])
  <2>1. db'.writes = Applied(tx[s].writes, db.writes)
    BY <1>6 DEF Tables
  <2>2. \A k \in DOMAIN db.writes : WriteRow(db.writes[k])
    BY DEF IInv, RowsOK
  <2> QED BY <2>1, <2>2, <1>5 DEF Applied
<1>10. RowsOK'
  BY <1>6, <1>7, <1>8, <1>9 DEF RowsOK, CheckpointRow, BlobRow, WriteRow
<1>11. AskedTraced'
  <2> SUFFICES ASSUME NEW i \in DOMAIN asked \ severed'
               PROVE  /\ Traced(asked, asked[i].thread, asked[i].ns, asked[i].vers, asked[i].vals)
                      /\ Present(DOMAIN db'.blobs, asked[i].thread, asked[i].ns, asked[i].vers,
                                 asked[i].vals, Channels \ asked[i].new)
    BY DEF AskedTraced
  <2>1. AskedTraced!(i)
    BY <1>4 DEF IInv, AskedTraced
  <2> QED BY <2>1, CommitKeepsPresent
<1>12. StoredPresent'
  <2> SUFFICES ASSUME NEW k \in DOMAIN db'.checkpoints, k.id \notin severed'
               PROVE  Present(DOMAIN db'.blobs, asked[k.id].thread, asked[k.id].ns,
                              asked[k.id].vers, asked[k.id].vals, Channels)
    BY DEF StoredPresent
  <2>1. k.id \in DOMAIN asked /\ k.id \notin severed
    BY <1>4, <1>7 DEF CheckpointRow
  <2>2. CASE k \in DOMAIN db.checkpoints
    <3>1. Present(DOMAIN db.blobs, asked[k.id].thread, asked[k.id].ns,
                  asked[k.id].vers, asked[k.id].vals, Channels)
      BY <2>1, <2>2 DEF IInv, StoredPresent
    <3> QED BY <2>1, <3>1, CommitKeepsPresent
  <2>3. CASE call[s].op = "put" /\ k.id = call[s].id
    BY <2>1, <2>3, CommitStoresPut
  <2> QED BY <1>7, <2>2, <2>3
<1> QED
  BY <1>2, <1>3, <1>4, <1>10, <1>11, <1>12

\* The runs that go on after a commit.
LEMMA CommitKeepsBase ==
    ASSUME IInv, NEW s \in DOMAIN call, ServerCommits(s), asked' = asked,
           NEW r \in DOMAIN base, r \in DOMAIN base', base'[r] = base[r]
    PROVE  BaseTraced!(r)'
<1> DEFINE b == base[r]
<1>1. BaseTraced!(r)
  BY DEF IInv, BaseTraced
<1>2. severed \subseteq severed'
  BY DEF ServerCommits
<1>3. b.id \in DOMAIN asked \cup {NoId}
  BY DEF IInv, BaseShape
<1>4. ASSUME b.id \notin severed'
      PROVE  Traced(asked, b.thread, b.ns, b.vers, b.vals)
             /\ Present(DOMAIN db'.blobs, b.thread, b.ns, b.vers, b.vals, Channels)
  <2>1. /\ Traced(asked, b.thread, b.ns, b.vers, b.vals)
        /\ Present(DOMAIN db.blobs, b.thread, b.ns, b.vers, b.vals, Channels)
    BY <1>1, <1>2, <1>4
  <2>2. CASE b.id = NoId
    <3>1. \A ch \in Channels : b.vals[ch] \notin Objects
      BY <1>1, <2>2
    <3> QED BY <2>1, <3>1 DEF Present
  <2>3. CASE b.id # NoId
    <3>1. b.id \in DOMAIN asked \ severed' /\ b.thread = asked[b.id].thread
      BY <1>1, <1>3, <1>4, <2>3
    <3> QED BY <2>1, <3>1, CommitKeepsPresent
  <2> QED BY <2>2, <2>3
<1> QED BY <1>1, <1>4

\* The calls of the other savers.
LEMMA CommitKeepsCall ==
    ASSUME IInv, NEW s \in DOMAIN call, ServerCommits(s), asked' = asked,
           NEW r \in DOMAIN call \ {s}, r \in DOMAIN call', call'[r] = call[r], pc'[r] = pc[r],
           r \in DOMAIN base => r \in DOMAIN base' /\ base'[r] = base[r]
    PROVE  CallShape!3!(r)' /\ PutOfItsRun!(r)' /\ OwnBlobsAccounted!(r)'
<1>1. s \in Savers /\ r \in Savers
  BY DEF IInv, CallShape
<1>2. CallShape!3!(r) /\ PutOfItsRun!(r) /\ OwnBlobsAccounted!(r)
  BY DEF IInv, CallShape, PutOfItsRun, OwnBlobsAccounted
<1>3. tx'[r] = tx[r]
  BY <1>1, EndTxEffect DEF IInv, ServerCommits
<1>4. CallShape!3!(r)'
  BY <1>2 DEF BlobChannels
<1>5. PutOfItsRun!(r)'
  BY <1>2, <1>4
<1>6. OwnBlobsAccounted!(r)'
  <2> DEFINE a == asked[call[r].id]
             key(ch) == BlobKey(a.thread, a.ns, ch, a.vers[ch])
  <2> SUFFICES ASSUME call[r].op = "put"
               PROVE  /\ call[r].id \notin severed' /\ pc[r] \in {"blobs", "checkpoint", "commit"} =>
                           \A ch \in BlobChannels(a) \ call[r].todo :
                               key(ch) \in DOMAIN db'.blobs \cup DOMAIN tx[r].blobs.set
                      /\ pc[r] \in {"checkpoint", "commit"} => call[r].todo = {}
    BY <1>3 DEF BlobChannels
  <2>1. pc[r] \in {"checkpoint", "commit"} => call[r].todo = {}
    BY <1>2
  <2>2. ASSUME call[r].id \notin severed', pc[r] \in {"blobs", "checkpoint", "commit"},
               NEW ch \in BlobChannels(a) \ call[r].todo
        PROVE  key(ch) \in DOMAIN db'.blobs \cup DOMAIN tx[r].blobs.set
    <3>1. call[r].id \in DOMAIN asked
      BY <1>2
    <3>2. key(ch) \in DOMAIN db.blobs \cup DOMAIN tx[r].blobs.set
      BY <1>2, <2>2 DEF ServerCommits
    <3>3. key(ch).thread = a.thread
      BY DEF BlobKey
    <3>4. call[s].op = "delete_thread" => a.thread # call[s].thread
      BY <2>2, <3>1 DEF ServerCommits
    <3> QED BY <3>2, <3>3, <3>4, CommittedBlobs
  <2> QED BY <2>1, <2>2
<1> QED BY <1>4, <1>5, <1>6

\* What the other savers have in their transactions.
LEMMA CommitKeepsPending ==
    ASSUME IInv, NEW s \in DOMAIN call, ServerCommits(s), asked' = asked, NEW r \in Savers,
           r # s => pc'[r] = pc[r]
                    /\ (r \in DOMAIN call => r \in DOMAIN call' /\ call'[r] = call[r])
    PROVE  PendingOK!(r)'
<1>1. s \in Savers
  BY DEF IInv, CallShape
<1>2. /\ tx'[s] = NoTx /\ \A u \in Savers \ {s} : tx'[u] = tx[u]
  BY <1>1, EndTxEffect DEF IInv, ServerCommits
<1>3. PendingOK!(r)
  BY DEF IInv, PendingOK
<1>4. CASE r = s
  BY <1>2, <1>4, NoTxEmpty DEF Tables
<1>5. CASE r # s
  BY <1>2, <1>3, <1>5 DEF CheckpointRow, BlobRow
<1> QED BY <1>4, <1>5

\* The call returns, and after a put its run goes on from the new checkpoint.
LEMMA CommitStep ==
    ASSUME IInv, NEW s \in Savers, Commit(s)
    PROVE  IInv'
<1> DEFINE i == call[s].id
           a == asked[i]
<1>1. /\ pc[s] = "commit" /\ ServerCommits(s) /\ call' = Without(call, {s})
      /\ Goto(s, "idle") /\ asked' = asked
      /\ call[s].op = "put" =>
           base' = [base EXCEPT ![s].id = i, ![s].vers = a.vers, ![s].vals = a.vals]
      /\ call[s].op # "put" => base' = base
  BY DEF Commit
<1>2. s \in DOMAIN call
  BY <1>1 DEF IInv, CallShape
<1>3. /\ DOMAIN call' = DOMAIN call \ {s} /\ \A r \in DOMAIN call' : call'[r] = call[r]
  BY <1>1 DEF Without
<1>4. /\ pc' \in [Savers -> Statements \cup {"idle", "raised"}]
      /\ pc'[s] = "idle" /\ \A r \in Savers \ {s} : pc'[r] = pc[r]
  BY <1>1 DEF Goto, IInv, CallShape
<1>5. /\ TxShape' /\ AskedShape' /\ SeveredShape' /\ RowsOK' /\ OwnVersions'
      /\ AskedTraced' /\ StoredPresent'
  BY <1>1, <1>2, ServerCommitsData
<1>6. /\ DOMAIN base' = DOMAIN base
      /\ \A r \in DOMAIN base : r # s => base'[r] = base[r]
      /\ call[s].op # "put" => base' = base
  BY <1>1
<1>7. ASSUME call[s].op = "put"
      PROVE  /\ s \in DOMAIN base /\ i \in DOMAIN asked /\ i # NoId
             /\ DOMAIN base'[s] = {"thread", "ns", "id", "vers", "vals"}
             /\ base'[s].thread = a.thread /\ base'[s].ns = a.ns /\ base'[s].id = i
             /\ base'[s].vers = a.vers /\ base'[s].vals = a.vals
             /\ a.thread \in Threads /\ a.ns \in Namespaces
             /\ a.vers \in VersionMap /\ a.vals \in ValueMap
  <2>1. s \in DOMAIN base /\ i \in DOMAIN asked
    BY <1>2, <1>7 DEF IInv, CallShape
  <2>2. DOMAIN base[s] = {"thread", "ns", "id", "vers", "vals"}
    BY <2>1 DEF IInv, BaseShape
  <2>3. base[s].thread = a.thread /\ base[s].ns = a.ns
    BY <1>2, <1>7 DEF IInv, PutOfItsRun
  <2>4. /\ a.thread \in Threads /\ a.ns \in Namespaces
        /\ a.vers \in VersionMap /\ a.vals \in ValueMap /\ i # NoId
    BY <2>1 DEF IInv, AskedShape
  <2>5. base' = [base EXCEPT ![s].id = i, ![s].vers = a.vers, ![s].vals = a.vals]
    BY <1>1, <1>7
  <2> HIDE DEF a, i
  <2>6. base'[s] = [base[s] EXCEPT !.id = i, !.vers = a.vers, !.vals = a.vals]
    BY <2>1, <2>5
  <2>7. /\ DOMAIN base'[s] = DOMAIN base[s] /\ base'[s].id = i
        /\ base'[s].vers = a.vers /\ base'[s].vals = a.vals
        /\ base'[s].thread = base[s].thread /\ base'[s].ns = base[s].ns
    BY <2>2, <2>6
  <2> QED BY <2>1, <2>2, <2>3, <2>4, <2>7
<1>8. BaseShape'
  <2> SUFFICES ASSUME NEW r \in DOMAIN base'
               PROVE  BaseShape!2!(r)'
    BY <1>6 DEF BaseShape, IInv
  <2>1. CASE r = s /\ call[s].op = "put"
    BY <1>1, <1>7, <2>1
  <2>2. CASE r # s \/ call[s].op # "put"
    BY <1>1, <1>6, <2>2 DEF IInv, BaseShape
  <2> QED BY <2>1, <2>2
<1>9. BaseTraced'
  <2> SUFFICES ASSUME NEW r \in DOMAIN base'
               PROVE  BaseTraced!(r)'
    BY DEF BaseTraced
  <2>1. CASE r = s /\ call[s].op = "put"
    <3>1. i \in severed' \/ (Traced(asked, a.thread, a.ns, a.vers, a.vals)
                              /\ Present(DOMAIN db'.blobs, a.thread, a.ns, a.vers, a.vals, Channels))
      <4>1. severed \subseteq severed'
        BY <1>1 DEF ServerCommits
      <4>2. i \notin severed => Traced(asked, a.thread, a.ns, a.vers, a.vals)
        BY <1>7, <2>1 DEF IInv, AskedTraced
      <4>3. i \notin severed =>
              Present(DOMAIN db'.blobs, a.thread, a.ns, a.vers, a.vals, Channels)
        BY <1>1, <1>2, <2>1, CommitStoresPut
      <4> QED BY <4>1, <4>2, <4>3
    <3> QED BY <1>1, <1>7, <2>1, <3>1
  <2>2. CASE r # s \/ call[s].op # "put"
    BY <1>1, <1>2, <1>6, <2>2, CommitKeepsBase
  <2> QED BY <2>1, <2>2
<1>10. CallShape' /\ PutOfItsRun' /\ OwnBlobsAccounted'
  <2>1. DOMAIN call' = {r \in Savers : pc'[r] # "idle"}
    BY <1>3, <1>4 DEF IInv, CallShape
  <2>2. ASSUME NEW r \in DOMAIN call'
        PROVE  CallShape!3!(r)' /\ PutOfItsRun!(r)' /\ OwnBlobsAccounted!(r)'
    BY <1>1, <1>2, <1>3, <1>4, <1>6, <2>1, CommitKeepsCall
  <2> QED BY <1>4, <2>1, <2>2 DEF CallShape, PutOfItsRun, OwnBlobsAccounted
<1>11. PendingOK'
  <2> SUFFICES ASSUME NEW r \in Savers
               PROVE  PendingOK!(r)'
    BY DEF PendingOK
  <2> QED BY <1>1, <1>2, <1>3, <1>4, CommitKeepsPending
<1> QED
  BY <1>5, <1>8, <1>9, <1>10, <1>11 DEF IInv

\* The server commits and the caller sees an exception: the run stays where it was.
LEMMA CommitLostStep ==
    ASSUME IInv, NEW s \in Savers, CommitLost(s)
    PROVE  IInv'
<1>1. /\ pc[s] = "commit" /\ ServerCommits(s) /\ Goto(s, "raised")
      /\ UNCHANGED <<call, base, asked>>
  BY DEF CommitLost
<1>2. s \in DOMAIN call
  BY <1>1 DEF IInv, CallShape
<1>3. /\ pc' \in [Savers -> Statements \cup {"idle", "raised"}]
      /\ pc'[s] = "raised" /\ \A r \in Savers \ {s} : pc'[r] = pc[r]
  BY <1>1 DEF Goto, IInv, CallShape
<1>4. /\ TxShape' /\ AskedShape' /\ SeveredShape' /\ RowsOK' /\ OwnVersions'
      /\ AskedTraced' /\ StoredPresent'
  BY <1>1, <1>2, ServerCommitsData
<1>5. BaseShape'
  BY <1>1 DEF IInv, BaseShape
<1>6. BaseTraced'
  <2> SUFFICES ASSUME NEW r \in DOMAIN base'
               PROVE  BaseTraced!(r)'
    BY DEF BaseTraced
  <2> QED BY <1>1, <1>2, CommitKeepsBase
<1>7. CallShape' /\ PutOfItsRun' /\ OwnBlobsAccounted'
  <2>1. DOMAIN call' = {r \in Savers : pc'[r] # "idle"}
    BY <1>1, <1>2, <1>3 DEF IInv, CallShape
  <2>2. CallShape!3!(s)' /\ PutOfItsRun!(s)' /\ OwnBlobsAccounted!(s)'
    BY <1>1, <1>2, <1>3 DEF IInv, CallShape, PutOfItsRun, BlobChannels
  <2>3. ASSUME NEW r \in DOMAIN call', r # s
        PROVE  CallShape!3!(r)' /\ PutOfItsRun!(r)' /\ OwnBlobsAccounted!(r)'
    BY <1>1, <1>2, <1>3, <2>1, <2>3, CommitKeepsCall
  <2>4. \A r \in DOMAIN call' :
          CallShape!3!(r)' /\ PutOfItsRun!(r)' /\ OwnBlobsAccounted!(r)'
    BY <2>2, <2>3
  <2> QED BY <1>3, <2>1, <2>4 DEF CallShape, PutOfItsRun, OwnBlobsAccounted
<1>8. PendingOK'
  <2> SUFFICES ASSUME NEW r \in Savers
               PROVE  PendingOK!(r)'
    BY DEF PendingOK
  <2> QED BY <1>1, <1>2, <1>3, CommitKeepsPending
<1> QED
  BY <1>4, <1>5, <1>6, <1>7, <1>8 DEF IInv

-----------------------------------------------------------------------------
\* The theorems.

LEMMA InitIInv == Init => IInv
<1> SUFFICES ASSUME Init PROVE IInv
  OBVIOUS
<1>1. /\ db = [tb \in Tables |-> Empty] /\ tx = [s \in Savers |-> NoTx]
      /\ pc = [s \in Savers |-> "idle"]
      /\ call = Empty /\ base = Empty /\ asked = Empty /\ severed = {}
  BY DEF Init
<1>2. DOMAIN call = {} /\ DOMAIN base = {} /\ DOMAIN asked = {}
  BY <1>1 DEF Empty
<1>3. DOMAIN db = Tables /\ DOMAIN db.checkpoints = {} /\ DOMAIN db.blobs = {}
      /\ DOMAIN db.writes = {}
  BY <1>1 DEF Empty, Tables
<1>4. TxShape /\ PendingOK
  <2>1. \A s \in Savers : tx[s] = NoTx
    BY <1>1
  <2>2. DOMAIN tx = Savers
    BY <1>1
  <2>3. TxShape
    BY <2>1, <2>2, NoTxEmpty DEF TxShape
  <2>4. PendingOK
    BY <2>1, NoTxEmpty DEF PendingOK, Tables
  <2> QED BY <2>3, <2>4
<1>5. CallShape
  BY <1>1, <1>2 DEF CallShape
<1>6. AskedShape /\ BaseShape /\ SeveredShape /\ RowsOK
  BY <1>1, <1>2, <1>3 DEF AskedShape, BaseShape, SeveredShape, RowsOK
<1>7. OwnVersions /\ PutOfItsRun /\ AskedTraced /\ BaseTraced /\ OwnBlobsAccounted /\ StoredPresent
  BY <1>2, <1>3 DEF OwnVersions, PutOfItsRun, AskedTraced, BaseTraced, OwnBlobsAccounted, StoredPresent
<1> QED BY <1>4, <1>5, <1>6, <1>7 DEF IInv

LEMMA StutterIInv == IInv /\ UNCHANGED vars => IInv'
<1> SUFFICES ASSUME IInv, UNCHANGED vars PROVE IInv'
  OBVIOUS
<1>1. UNCHANGED <<db, tx, pc, call, base, asked, severed>>
  BY DEF vars
<1>2. TxShape' /\ PendingOK' /\ OwnBlobsAccounted'
  BY <1>1 DEF IInv, TxShape, PendingOK, OwnBlobsAccounted, CheckpointRow, BlobRow, BlobChannels
<1> QED BY <1>1, <1>2, FrameData, FrameCall, FrameBase DEF IInv

LEMMA NextIInv == IInv /\ [Next]_vars => IInv'
<1> SUFFICES ASSUME IInv, Next PROVE IInv'
  BY StutterIInv
<1>1. PICK s \in Savers : Next!(s)
  BY DEF Next
<1>2. CASE \E t \in Threads, n \in Namespaces :
             GetLatest(s, t, n) \/ \E i \in Ids : GetTuple(s, t, n, i)
  BY <1>2, GetStep
<1>3. CASE \E t \in Threads, n \in Namespaces : GetNone(s, t, n)
  BY <1>3, GetNoneStep
<1>4. CASE EndRun(s)
  BY <1>4, EndRunStep
<1>5. CASE Put(s)
  BY <1>5, PutStep
<1>6. CASE PutBlob(s)
  BY <1>6, PutBlobStep
<1>7. CASE PutCheckpoint(s)
  BY <1>7, PutCheckpointStep
<1>8. CASE PutWrites(s)
  BY <1>8, PutWritesStep
<1>9. CASE PutWrite(s)
  BY <1>9, PutWriteStep
<1>10. CASE DeleteThread(s)
  BY <1>10, DeleteThreadStep
<1>11. CASE DeleteCheckpoints(s) \/ DeleteBlobs(s) \/ DeleteWrites(s)
  BY <1>11, DeleteStep
<1>12. CASE Commit(s)
  BY <1>12, CommitStep
<1>13. CASE CommitLost(s)
  BY <1>13, CommitLostStep
<1>14. CASE StatementFails(s)
  BY <1>14, StatementFailsStep
<1>15. CASE Retry(s)
  BY <1>15, RetryStep
<1>16. CASE GiveUp(s) \/ Crash(s)
  BY <1>16, LeaveStep
<1> QED
  BY <1>1, <1>2, <1>3, <1>4, <1>5, <1>6, <1>7, <1>8, <1>9, <1>10, <1>11, <1>12,
     <1>13, <1>14, <1>15, <1>16
  DEF GetTupleCall, PutCall, PutWritesCall, DeleteThreadCall, EndTransaction

\* IInv holds in every state of Saver: every blob row is the one its version
\* was chosen for, and a run that was not cut off has all its values stored.
THEOREM Invariance == Spec => []IInv
BY InitIInv, NextIInv, PTL DEF Spec

\* Type correctness of the saver: rows, calls and runs keep the shape that the
\* schema of base.py and the methods of the saver give them.
THEOREM TypeCorrect == Spec => []TypeOK
<1>1. IInv => TypeOK
  BY IInvImplies
<1> QED BY <1>1, Invariance, PTL

\* A checkpoint reads back with every value it was put with, whatever calls,
\* failures, retries and crashes of any number of savers happen in between,
\* unless its thread was deleted under the run that put it (get_tuple's join
\* of checkpoints with checkpoint_blobs, put's INSERT IGNORE).
THEOREM ReadBackHolds == Spec => []ReadBack
<1>1. IInv => ReadBack
  BY IInvImplies
<1> QED BY <1>1, Invariance, PTL

=============================================================================
