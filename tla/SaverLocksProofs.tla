-------------------------- MODULE SaverLocksProofs --------------------------
(***************************************************************************)
(* More proofs about Saver, for every value of its constants, from the     *)
(* locks its transactions hold: a checkpoint has the values of its own     *)
(* put, the checkpoint of a run stays stored, pending writes are stored    *)
(* whole and never replaced by a later attempt, and delete_thread leaves   *)
(* nothing behind.  Last, Saver implements CheckpointHistory: when clients *)
(* delete a thread only while no run is using it, each commit changes the  *)
(* tables as one step of the history does.                                 *)
(***************************************************************************)
EXTENDS SaverLocks, SaverProofs

USE IdsAssumption, ValuesAssumption

-----------------------------------------------------------------------------
\* Statements, with the locks they take.

\* What an INSERT of either kind does to the transaction of s.
Inserted(s, tb, k, row) ==
    /\ TxShape'
    /\ \A r \in Savers \ {s} : tx'[r] = tx[r]
    /\ \A u \in Tables \ {tb} : tx'[s][u] = tx[s][u]
    /\ RowFree(s, tb, k)
    /\ tx'[s][tb].rows = tx[s][tb].rows \cup {k}
    /\ tx'[s][tb].ranges = tx[s][tb].ranges
    /\ tx'[s][tb].del = tx[s][tb].del
    /\ \/ k \in DOMAIN Seen(s, tb) /\ tx'[s][tb].set = tx[s][tb].set
       \/ tx'[s][tb].set = With(tx[s][tb].set, k, row)

LEMMA UpsertInserts ==
    ASSUME TxShape, NEW s \in Savers, NEW tb \in Tables, NEW k, NEW row,
           Upsert(s, tb, k, row)
    PROVE  Inserted(s, tb, k, row) /\ tx'[s][tb].set = With(tx[s][tb].set, k, row)
<1>1. /\ TxShape' /\ (\A r \in Savers \ {s} : tx'[r] = tx[r])
      /\ (\A u \in Tables \ {tb} : tx'[s][u] = tx[s][u])
      /\ tx'[s][tb].set = With(tx[s][tb].set, k, row) /\ tx'[s][tb].del = tx[s][tb].del
  BY UpsertEffect
<1>2. /\ tx'[s][tb].rows = tx[s][tb].rows \cup {k}
      /\ tx'[s][tb].ranges = tx[s][tb].ranges /\ RowFree(s, tb, k)
  BY DEF TxShape, Upsert, Fields
<1> QED BY <1>1, <1>2 DEF Inserted

LEMMA IgnoreInserts ==
    ASSUME TxShape, NEW s \in Savers, NEW tb \in Tables, NEW k, NEW row,
           InsertIgnore(s, tb, k, row)
    PROVE  /\ Inserted(s, tb, k, row)
           /\ k \in DOMAIN Seen(s, tb) => tx'[s][tb].set = tx[s][tb].set
<1>1. /\ TxShape' /\ (\A r \in Savers \ {s} : tx'[r] = tx[r])
      /\ (\A u \in Tables \ {tb} : tx'[s][u] = tx[s][u])
      /\ \/ k \in DOMAIN Seen(s, tb) /\ tx'[s][tb].set = tx[s][tb].set
         \/ tx'[s][tb].set = With(tx[s][tb].set, k, row)
      /\ tx'[s][tb].del = tx[s][tb].del
  BY InsertIgnoreEffect
<1>2. /\ tx'[s][tb].rows = tx[s][tb].rows \cup {k}
      /\ tx'[s][tb].ranges = tx[s][tb].ranges /\ RowFree(s, tb, k)
      /\ k \in DOMAIN Seen(s, tb) => tx'[s][tb].set = tx[s][tb].set
  BY DEF TxShape, InsertIgnore, Fields
<1> QED BY <1>1, <1>2 DEF Inserted

\* What a DELETE does to it.
Deletes(s, tb, t) ==
    /\ TxShape'
    /\ \A r \in Savers \ {s} : tx'[r] = tx[r]
    /\ \A u \in Tables \ {tb} : tx'[s][u] = tx[s][u]
    /\ ThreadFree(s, tb, t)
    /\ tx'[s][tb].rows = tx[s][tb].rows
    /\ tx'[s][tb].ranges = tx[s][tb].ranges \cup {t}
    /\ tx'[s][tb].set = tx[s][tb].set
    /\ tx'[s][tb].del = {k \in DOMAIN Seen(s, tb) : k.thread = t}

LEMMA DeleteDeletes ==
    ASSUME TxShape, NEW s \in Savers, NEW tb \in Tables, NEW t, DeleteWhereThread(s, tb, t)
    PROVE  Deletes(s, tb, t)
<1>1. /\ TxShape' /\ (\A r \in Savers \ {s} : tx'[r] = tx[r])
      /\ (\A u \in Tables \ {tb} : tx'[s][u] = tx[s][u])
      /\ tx'[s][tb].set = tx[s][tb].set
  BY DeleteEffect
<1>2. /\ tx'[s][tb].rows = tx[s][tb].rows /\ ThreadFree(s, tb, t)
      /\ tx'[s][tb].ranges = tx[s][tb].ranges \cup {t}
      /\ tx'[s][tb].del = {k \in DOMAIN Seen(s, tb) : k.thread = t}
  BY DEF TxShape, DeleteWhereThread, Fields
<1> QED BY <1>1, <1>2 DEF Deletes

\* Either statement keeps what transactions have locked, whatever their calls.
LEMMA InsertLocks ==
    ASSUME TableLocks, NEW s \in Savers, NEW tb \in Tables, NEW k, NEW row,
           Inserted(s, tb, k, row), db' = db
    PROVE  TableLocks'
<1>1. DOMAIN tx'[s][tb].set \subseteq DOMAIN tx[s][tb].set \cup {k}
  BY DEF Inserted, With
<1>2. LocksExclusive'
  BY DEF Inserted, RowFree, TableLocks, LocksExclusive
<1>3. ChangesLocked'
  BY <1>1 DEF Inserted, TableLocks, ChangesLocked
<1>4. DeletesCovered'
  BY DEF Inserted, TableLocks, DeletesCovered
<1> QED BY <1>2, <1>3, <1>4 DEF TableLocks

\* A DELETE is the first statement of its transaction on its table.
LEMMA DeleteLocks ==
    ASSUME TableLocks, NEW s \in Savers, NEW tb \in Tables, NEW t, Deletes(s, tb, t), db' = db,
           tx[s][tb].rows = {}, tx[s][tb].ranges = {}
    PROVE  TableLocks'
<1>1. DOMAIN tx[s][tb].set = {} /\ tx[s][tb].del = {}
  BY DEF TableLocks, ChangesLocked
<1>2. DOMAIN Seen(s, tb) = DOMAIN db[tb]
  BY <1>1 DEF Seen, Applied
<1>3. LocksExclusive'
  BY DEF Deletes, ThreadFree, TableLocks, LocksExclusive
<1>4. ChangesLocked'
  BY DEF Deletes, TableLocks, ChangesLocked
<1>5. DeletesCovered'
  BY <1>2 DEF Deletes, TableLocks, DeletesCovered
<1> QED BY <1>3, <1>4, <1>5 DEF TableLocks

\* So does the end of a transaction that is rolled back.
LEMMA RollbackLocks ==
    ASSUME TableLocks, NEW s \in Savers, tx'[s] = NoTx, \A r \in Savers \ {s} : tx'[r] = tx[r],
           db' = db
    PROVE  TableLocks'
<1>1. \A tb \in Tables : /\ tx'[s][tb].rows = {} /\ tx'[s][tb].ranges = {} /\ tx'[s][tb].del = {}
                        /\ DOMAIN tx'[s][tb].set = {}
  BY DEF NoTx, NoChange, Empty
<1> QED BY <1>1 DEF TableLocks, LocksExclusive, ChangesLocked, DeletesCovered

-----------------------------------------------------------------------------
\* What a step leaves alone stays as it is.

\* The saver r, and the rows it has locked, when another saver takes a step.
Undisturbed(r) ==
    /\ tx'[r] = tx[r] /\ pc'[r] = pc[r]
    /\ r \in DOMAIN call' <=> r \in DOMAIN call
    /\ r \in DOMAIN call => call'[r] = call[r]
    /\ \A i \in DOMAIN asked : i \in DOMAIN asked' /\ asked'[i] = asked[i]
    /\ \A k \in tx[r].blobs.rows : k \in DOMAIN db.blobs => k \in DOMAIN db'.blobs
    /\ \A k \in tx[r].writes.rows : k \in DOMAIN db.writes => k \in DOMAIN db'.writes

LEMMA OthersStay ==
    ASSUME IInv, LInv, NEW r \in Savers, Undisturbed(r)
    PROVE  TxOf(r)' /\ (r \in DOMAIN call' /\ pc'[r] # "raised" => ProgressOf(r)')
<1> USE DEF Undisturbed
<1>1. TxOf(r)'
  BY DEF LInv, TxOfCall, TxOf
<1>2. ASSUME r \in DOMAIN call', pc'[r] # "raised"
      PROVE  ProgressOf(r)'
  <2>1. r \in DOMAIN call /\ ProgressOf(r)
    BY <1>2 DEF LInv, Progress
  <2>2. call[r].op = "put" => PutProgress(r)'
    <3> SUFFICES ASSUME call[r].op = "put" PROVE PutProgress(r)'
      OBVIOUS
    <3>1. call[r].id \in DOMAIN asked
      BY <2>1 DEF IInv, CallShape
    <3>2. PutProgress(r)
      BY <2>1 DEF ProgressOf
    <3> QED BY <2>1, <3>1, <3>2 DEF PutProgress, BlobChannels, OwnBlobKey
  <2>3. call[r].op = "put_writes" => WriteProgress(r)'
    BY <2>1 DEF ProgressOf, WriteProgress, RowKey
  <2>4. call[r].op = "delete_thread" => DeleteProgress(r)'
    BY <2>1 DEF ProgressOf, DeleteProgress
  <2> QED BY <2>1, <2>2, <2>3, <2>4 DEF ProgressOf
<1> QED BY <1>1, <1>2

\* The parts of the invariant about all savers, one saver at a time.
LEMMA StepOfOne ==
    ASSUME IInv, LInv, NEW s \in Savers, DOMAIN call' \subseteq Savers,
           \A r \in Savers \ {s} : Undisturbed(r),
           TxOf(s)', s \in DOMAIN call' /\ pc'[s] # "raised" => ProgressOf(s)'
    PROVE  TxOfCall' /\ Progress'
BY OthersStay DEF TxOfCall, Progress

\* The rows of the tables, as long as they are not changed.
LEMMA TablesStay ==
    ASSUME IInv, LInv, db' = db, \A i \in DOMAIN asked : i \in DOMAIN asked' /\ asked'[i] = asked[i]
    PROVE  OwnPresent' /\ WriteKeys' /\ NoAttemptCut'
<1>1. OwnPresent'
  <2>1. \A k \in DOMAIN db.checkpoints : k.id \in DOMAIN asked
    BY DEF IInv, RowsOK, CheckpointRow
  <2> QED BY <2>1 DEF LInv, OwnPresent, BlobChannels, OwnBlobKey
<1>2. WriteKeys' /\ NoAttemptCut'
  BY DEF LInv, WriteKeys, NoAttemptCut, Regular, RowBeside
<1> QED BY <1>1, <1>2

-----------------------------------------------------------------------------
\* Steps outside a transaction.

\* The call of s has executed no statement.
Fresh(s) ==
    /\ call[s].op = "put" =>
         /\ call[s].todo = BlobChannels(asked[call[s].id])
         /\ pc[s] = PutStart(asked[call[s].id])
    /\ call[s].op = "put_writes" =>
         /\ call[s].next = 1
         /\ pc[s] = IF call[s].writes = <<>> THEN "commit" ELSE "writes"
    /\ call[s].op = "delete_thread" => pc[s] = "delete_checkpoints"

LEMMA NoTxLocks ==
    \A tb \in Tables : /\ NoTx[tb].rows = {} /\ NoTx[tb].ranges = {} /\ NoTx[tb].del = {}
                       /\ DOMAIN NoTx[tb].set = {}
BY DEF NoTx, NoChange, Empty

\* A step of s that touches neither the tables nor a transaction.
LEMMA QuietStep ==
    ASSUME IInv, LInv, IInv', NEW s \in Savers, UNCHANGED <<db, tx>>, pc[s] \in {"idle", "raised"},
           \A r \in Savers \ {s} : /\ pc'[r] = pc[r]
                                   /\ r \in DOMAIN call' <=> r \in DOMAIN call
                                   /\ r \in DOMAIN call => call'[r] = call[r],
           \A i \in DOMAIN asked : i \in DOMAIN asked' /\ asked'[i] = asked[i],
           s \in DOMAIN call' => Fresh(s)', BaseStored'
    PROVE  LInv'
<1>1. TableLocks' /\ NewWrites'
  BY DEF LInv, TableLocks, LocksExclusive, ChangesLocked, DeletesCovered, NewWrites
<1>2. tx[s] = NoTx /\ tx'[s] = NoTx
  BY DEF LInv, TxOfCall, TxOf
<1>3. TxOf(s)'
  BY <1>2, NoTxLocks DEF TxOf, Tables
<1>4. s \in DOMAIN call' => ProgressOf(s)'
  BY <1>2, NoTxLocks DEF Fresh, ProgressOf, PutProgress, PutStart, WriteProgress, DeleteProgress, Tables
<1>5. DOMAIN call' \subseteq Savers
  BY DEF IInv, CallShape
<1>6. TxOfCall' /\ Progress'
  BY <1>3, <1>4, <1>5, StepOfOne DEF Undisturbed
<1>7. OwnPresent' /\ WriteKeys' /\ NoAttemptCut'
  BY TablesStay
<1> QED BY <1>1, <1>6, <1>7 DEF LInv

\* The checkpoint that get_tuple found is stored.
LEMMA GetKeepsLInv ==
    ASSUME IInv, LInv, IInv', NEW s \in Savers, GetTupleCall(s)
    PROVE  LInv'
<1>1. PICK t \in Threads, n \in Namespaces :
        GetLatest(s, t, n) \/ GetNone(s, t, n) \/ \E i \in Ids : GetTuple(s, t, n, i)
  BY DEF GetTupleCall
<1>2. pc[s] = "idle" /\ UNCHANGED <<db, tx, pc, call, asked, severed>>
  BY <1>1 DEF GetLatest, GetNone, GetTuple
<1>3. s \notin DOMAIN call
  BY <1>2 DEF IInv, CallShape
<1>4. PICK b : /\ base' = With(base, s, b)
               /\ b.id # NoId => [thread |-> b.thread, ns |-> b.ns, id |-> b.id] \in DOMAIN db.checkpoints
  <2>1. CASE GetNone(s, t, n)
    BY <2>1 DEF GetNone
  <2>2. CASE GetLatest(s, t, n) \/ \E i \in Ids : GetTuple(s, t, n, i)
    <3>1. PICK i \in StoredIds(t, n) : StartFrom(s, t, n, i)
      BY <2>2 DEF GetLatest, GetTuple, Latest
    <3> QED BY <3>1 DEF StartFrom, StoredIds
  <2> QED BY <1>1, <2>1, <2>2
<1>5. /\ DOMAIN base' = DOMAIN base \cup {s} /\ base'[s] = b
      /\ \A r \in DOMAIN base : r # s => base'[r] = base[r]
  BY <1>4 DEF With
<1>6. BaseStored'
  BY <1>2, <1>4, <1>5 DEF LInv, BaseStored
<1> QED BY <1>2, <1>3, <1>6, QuietStep

\* Runs that go on as they are keep their checkpoint.
LEMMA BaseStays ==
    ASSUME BaseStored, db' = db, severed \subseteq severed', DOMAIN base' \subseteq DOMAIN base,
           \A r \in DOMAIN base' : base'[r] = base[r]
    PROVE  BaseStored'
BY DEF BaseStored

LEMMA EndRunKeepsLInv ==
    ASSUME IInv, LInv, IInv', NEW s \in Savers, EndRun(s)
    PROVE  LInv'
<1>1. pc[s] = "idle" /\ base' = Without(base, {s}) /\ UNCHANGED <<db, tx, pc, call, asked, severed>>
  BY DEF EndRun
<1>2. BaseStored'
  BY <1>1, BaseStays DEF Without, LInv
<1>3. s \notin DOMAIN call
  BY <1>1 DEF IInv, CallShape
<1> QED BY <1>1, <1>2, <1>3, QuietStep

\* The other savers when s makes or drops a call.
LEMMA OthersCalls ==
    ASSUME IInv, NEW s \in Savers, NEW c, NEW label, Goto(s, label),
           call' = With(call, s, c) \/ call' = Without(call, {s})
    PROVE  /\ pc'[s] = label
           /\ \A r \in Savers \ {s} : /\ pc'[r] = pc[r]
                                      /\ r \in DOMAIN call' <=> r \in DOMAIN call
                                      /\ r \in DOMAIN call => call'[r] = call[r]
           /\ call' = With(call, s, c) => s \in DOMAIN call' /\ call'[s] = c
           /\ call' = Without(call, {s}) => s \notin DOMAIN call'
<1>1. pc' = [pc EXCEPT ![s] = label] /\ DOMAIN pc = Savers
  BY DEF Goto, IInv, CallShape
<1>2. DOMAIN call \subseteq Savers
  BY DEF IInv, CallShape
<1>3. CASE call' = With(call, s, c)
  <2>1. /\ DOMAIN call' = DOMAIN call \cup {s} /\ call'[s] = c
        /\ \A r \in DOMAIN call : r # s => call'[r] = call[r]
    BY <1>3 DEF With
  <2>2. DOMAIN call' # DOMAIN Without(call, {s})
    BY <2>1 DEF Without
  <2> QED BY <1>1, <2>1, <2>2
<1>4. CASE call' = Without(call, {s})
  <2>1. /\ DOMAIN call' = DOMAIN call \ {s}
        /\ \A r \in DOMAIN call \ {s} : call'[r] = call[r]
    BY <1>4 DEF Without
  <2>2. DOMAIN call' # DOMAIN With(call, s, c)
    BY <2>1 DEF With
  <2> QED BY <1>1, <2>1, <2>2
<1> QED BY <1>3, <1>4

\* put has an id of its own, and has stored nothing yet.
LEMMA PutKeepsLInv ==
    ASSUME IInv, LInv, IInv', NEW s \in Savers, Put(s)
    PROVE  LInv'
<1>1. pc[s] = "idle" /\ UNCHANGED <<db, tx, base>>
  BY DEF Put
<1>2. PICK i \in Ids : \E a :
        /\ DOMAIN asked = {j \in Ids : j < i}
        /\ asked' = With(asked, i, a)
        /\ call' = With(call, s, [op |-> "put", id |-> i, todo |-> BlobChannels(a)])
        /\ Goto(s, PutStart(a))
        /\ severed' = IF base[s].id \in severed THEN severed \cup {i} ELSE severed
  BY DEF Put
<1>3. PICK a :
        /\ DOMAIN asked = {j \in Ids : j < i}
        /\ asked' = With(asked, i, a)
        /\ call' = With(call, s, [op |-> "put", id |-> i, todo |-> BlobChannels(a)])
        /\ Goto(s, PutStart(a))
        /\ severed' = IF base[s].id \in severed THEN severed \cup {i} ELSE severed
  BY <1>2
<1> DEFINE c == [op |-> "put", id |-> i, todo |-> BlobChannels(a)]
<1>4. i \notin DOMAIN asked
  BY <1>3
<1>5. asked'[i] = a /\ \A j \in DOMAIN asked : j \in DOMAIN asked' /\ asked'[j] = asked[j]
  BY <1>3, <1>4 DEF With
<1>6. c.op = "put" /\ c.id = i /\ c.todo = BlobChannels(a)
  OBVIOUS
<1>7. call' = With(call, s, c) /\ Goto(s, PutStart(a))
  BY <1>3
<1> HIDE DEF c
<1>8. /\ pc'[s] = PutStart(a) /\ s \in DOMAIN call' /\ call'[s] = c
      /\ \A r \in Savers \ {s} : /\ pc'[r] = pc[r]
                                 /\ r \in DOMAIN call' <=> r \in DOMAIN call
                                 /\ r \in DOMAIN call => call'[r] = call[r]
  BY <1>7, OthersCalls
<1>9. Fresh(s)'
  BY <1>5, <1>6, <1>8 DEF Fresh, BlobChannels, PutStart
<1>10. BaseStored'
  BY <1>1, <1>3, BaseStays DEF LInv
<1> QED BY <1>1, <1>5, <1>8, <1>9, <1>10, QuietStep

LEMMA PutWritesKeepsLInv ==
    ASSUME IInv, LInv, IInv', NEW s \in Savers, PutWrites(s)
    PROVE  LInv'
<1>1. pc[s] = "idle" /\ UNCHANGED <<db, tx, base, asked, severed>>
  BY DEF PutWrites
<1>2. PICK tk \in Tasks, ws \in WriteLists :
         /\ call' = With(call, s,
              [op |-> "put_writes", thread |-> base[s].thread, ns |-> base[s].ns,
               id |-> base[s].id, task |-> tk, writes |-> ws, next |-> 1])
         /\ Goto(s, IF ws = <<>> THEN "commit" ELSE "writes")
  BY DEF PutWrites
<1> DEFINE c == [op |-> "put_writes", thread |-> base[s].thread, ns |-> base[s].ns,
                 id |-> base[s].id, task |-> tk, writes |-> ws, next |-> 1]
           label == IF ws = <<>> THEN "commit" ELSE "writes"
<1>3. c.op = "put_writes" /\ c.next = 1 /\ c.writes = ws
  OBVIOUS
<1>4. call' = With(call, s, c) /\ Goto(s, label)
  BY <1>2
<1> HIDE DEF c
<1>5. /\ pc'[s] = label /\ s \in DOMAIN call' /\ call'[s] = c
      /\ \A r \in Savers \ {s} : /\ pc'[r] = pc[r]
                                 /\ r \in DOMAIN call' <=> r \in DOMAIN call
                                 /\ r \in DOMAIN call => call'[r] = call[r]
  BY <1>4, OthersCalls
<1>6. Fresh(s)'
  BY <1>3, <1>5 DEF Fresh
<1>7. BaseStored'
  BY <1>1, BaseStays DEF LInv
<1> QED BY <1>1, <1>5, <1>6, <1>7, QuietStep

LEMMA DeleteThreadKeepsLInv ==
    ASSUME IInv, LInv, IInv', NEW s \in Savers, DeleteThread(s)
    PROVE  LInv'
<1>1. pc[s] = "idle" /\ UNCHANGED <<db, tx, base, asked, severed>>
  BY DEF DeleteThread
<1>2. PICK t \in Threads : call' = With(call, s, [op |-> "delete_thread", thread |-> t])
  BY DEF DeleteThread
<1> DEFINE c == [op |-> "delete_thread", thread |-> t]
<1>3. c.op = "delete_thread"
  OBVIOUS
<1>4. call' = With(call, s, c) /\ Goto(s, "delete_checkpoints")
  BY <1>2 DEF DeleteThread
<1> HIDE DEF c
<1>5. /\ pc'[s] = "delete_checkpoints" /\ s \in DOMAIN call' /\ call'[s] = c
      /\ \A r \in Savers \ {s} : /\ pc'[r] = pc[r]
                                 /\ r \in DOMAIN call' <=> r \in DOMAIN call
                                 /\ r \in DOMAIN call => call'[r] = call[r]
  BY <1>4, OthersCalls
<1>6. Fresh(s)'
  BY <1>3, <1>5 DEF Fresh
<1>7. BaseStored'
  BY <1>1, BaseStays DEF LInv
<1> QED BY <1>1, <1>5, <1>6, <1>7, QuietStep

\* A call that is made again starts over.
LEMMA RetryKeepsLInv ==
    ASSUME IInv, LInv, IInv', NEW s \in Savers, Retry(s)
    PROVE  LInv'
<1>1. pc[s] = "raised" /\ UNCHANGED <<db, tx, base, asked, severed>> /\ s \in DOMAIN call
  BY DEF Retry, IInv, CallShape
<1>2. pc \in [Savers -> Statements \cup {"idle", "raised"}]
  BY DEF IInv, CallShape
<1>3. BaseStored'
  BY <1>1, BaseStays DEF LInv
<1>4. CASE call[s].op = "put"
  <2> DEFINE label == PutStart(asked[call[s].id])
             todo == BlobChannels(asked[call[s].id])
  <2>1. call' = [call EXCEPT ![s].todo = todo] /\ pc' = [pc EXCEPT ![s] = label]
    BY <1>4 DEF Retry, Goto
  <2>2. DOMAIN call[s] = {"op", "id", "todo"}
    BY <1>1, <1>4 DEF IInv, CallShape
  <2>3. /\ call'[s].op = call[s].op /\ call'[s].id = call[s].id /\ call'[s].todo = todo
        /\ DOMAIN call' = DOMAIN call /\ \A r \in DOMAIN call \ {s} : call'[r] = call[r]
    BY <1>1, <2>1, <2>2
  <2>4. pc'[s] = label /\ \A r \in Savers \ {s} : pc'[r] = pc[r]
    BY <1>2, <2>1
  <2>5. Fresh(s)'
    BY <1>1, <1>4, <2>3, <2>4 DEF Fresh, BlobChannels, PutStart
  <2> QED BY <1>1, <1>3, <2>3, <2>4, <2>5, QuietStep
<1>5. CASE call[s].op = "put_writes"
  <2> DEFINE label == IF call[s].writes = <<>> THEN "commit" ELSE "writes"
  <2>1. call' = [call EXCEPT ![s].next = 1] /\ pc' = [pc EXCEPT ![s] = label]
    BY <1>5 DEF Retry, Goto
  <2>2. DOMAIN call[s] = {"op", "thread", "ns", "id", "task", "writes", "next"}
    BY <1>1, <1>5 DEF IInv, CallShape
  <2>3. /\ call'[s].op = call[s].op /\ call'[s].writes = call[s].writes /\ call'[s].next = 1
        /\ DOMAIN call' = DOMAIN call /\ \A r \in DOMAIN call \ {s} : call'[r] = call[r]
    BY <1>1, <2>1, <2>2
  <2>4. pc'[s] = label /\ \A r \in Savers \ {s} : pc'[r] = pc[r]
    BY <1>2, <2>1
  <2>5. Fresh(s)'
    BY <1>1, <1>5, <2>3, <2>4 DEF Fresh
  <2> QED BY <1>1, <1>3, <2>3, <2>4, <2>5, QuietStep
<1>6. CASE call[s].op = "delete_thread"
  <2>1. call' = call /\ pc' = [pc EXCEPT ![s] = "delete_checkpoints"]
    BY <1>6 DEF Retry, Goto
  <2>2. pc'[s] = "delete_checkpoints" /\ \A r \in Savers \ {s} : pc'[r] = pc[r]
    BY <1>2, <2>1
  <2>3. Fresh(s)'
    BY <1>6, <2>1, <2>2 DEF Fresh
  <2> QED BY <1>1, <1>3, <2>1, <2>2, <2>3, QuietStep
<1> QED BY <1>1, <1>4, <1>5, <1>6 DEF IInv, CallShape

LEMMA GiveUpKeepsLInv ==
    ASSUME IInv, LInv, IInv', NEW s \in Savers, GiveUp(s)
    PROVE  LInv'
<1>1. /\ pc[s] = "raised" /\ call' = Without(call, {s}) /\ base' = Without(base, {s})
      /\ Goto(s, "idle") /\ UNCHANGED <<db, tx, asked, severed>>
  BY DEF GiveUp
<1>2. BaseStored'
  BY <1>1, BaseStays DEF Without, LInv
<1>3. /\ s \notin DOMAIN call'
      /\ \A r \in Savers \ {s} : /\ pc'[r] = pc[r]
                                 /\ r \in DOMAIN call' <=> r \in DOMAIN call
                                 /\ r \in DOMAIN call => call'[r] = call[r]
  BY <1>1, OthersCalls
<1> QED BY <1>1, <1>2, <1>3, QuietStep

-----------------------------------------------------------------------------
\* Statements.

\* A statement of the call of s, which changes its transaction and its call.
LEMMA StatementStep ==
    ASSUME IInv, LInv, IInv', NEW s \in Savers, UNCHANGED <<db, base, asked, severed>>, TableLocks',
           \A r \in Savers \ {s} : /\ tx'[r] = tx[r] /\ pc'[r] = pc[r]
                                   /\ r \in DOMAIN call' <=> r \in DOMAIN call
                                   /\ r \in DOMAIN call => call'[r] = call[r],
           TxOf(s)', s \in DOMAIN call' /\ pc'[s] # "raised" => ProgressOf(s)',
           \A k \in DOMAIN tx'[s].writes.set : k.idx >= 0 => k \notin DOMAIN db.writes
    PROVE  LInv'
<1>1. DOMAIN call' \subseteq Savers
  BY DEF IInv, CallShape
<1>2. TxOfCall' /\ Progress'
  BY <1>1, StepOfOne DEF Undisturbed
<1>3. OwnPresent' /\ WriteKeys' /\ NoAttemptCut' /\ BaseStored'
  BY TablesStay, BaseStays DEF LInv
<1>4. NewWrites'
  <2>1. \A r \in Savers : \A k \in DOMAIN tx'[r].writes.set : k.idx >= 0 => k \notin DOMAIN db.writes
    BY DEF LInv, NewWrites
  <2> QED BY <2>1 DEF NewWrites
<1> QED BY <1>2, <1>3, <1>4 DEF LInv

\* The other savers when s executes a statement.
LEMMA OthersGoOn ==
    ASSUME IInv, NEW s \in Savers, NEW label, Goto(s, label), NEW c,
           call' = call \/ call' = [call EXCEPT ![s] = c]
    PROVE  /\ pc'[s] = label /\ DOMAIN call' = DOMAIN call
           /\ \A r \in Savers \ {s} : /\ pc'[r] = pc[r]
                                      /\ r \in DOMAIN call' <=> r \in DOMAIN call
                                      /\ r \in DOMAIN call => call'[r] = call[r]
BY DEF Goto, IInv, CallShape

\* put holds the row of its blob, which is stored or in its transaction.
LEMMA PutBlobKeepsLInv ==
    ASSUME IInv, LInv, IInv', NEW s \in Savers, PutBlob(s)
    PROVE  LInv'
<1> DEFINE i == call[s].id
           a == asked[i]
<1>1. PICK ch \in call[s].todo :
        /\ InsertIgnore(s, "blobs", OwnBlobKey(a, ch), a.vals[ch])
        /\ call' = [call EXCEPT ![s].todo = @ \ {ch}]
        /\ Goto(s, IF call[s].todo = {ch} THEN "checkpoint" ELSE "blobs")
  BY DEF PutBlob, OwnBlobKey
<1> DEFINE k == OwnBlobKey(a, ch)
           label == IF call[s].todo = {ch} THEN "checkpoint" ELSE "blobs"
           c == [call[s] EXCEPT !.todo = call[s].todo \ {ch}]
<1>2. pc[s] = "blobs" /\ UNCHANGED <<db, base, asked, severed>>
  BY DEF PutBlob
<1>3. /\ s \in DOMAIN call /\ call[s].op = "put" /\ DOMAIN call[s] = {"op", "id", "todo"}
  BY <1>2 DEF IInv, CallShape
<1>4. call' = [call EXCEPT ![s] = c]
  BY <1>1
<1>5. c.op = "put" /\ c.id = i /\ c.todo = call[s].todo \ {ch}
  BY <1>3
<1>6. Inserted(s, "blobs", k, a.vals[ch])
  BY <1>1, IgnoreInserts DEF IInv, Tables
<1> HIDE DEF c, k
<1>7. /\ pc'[s] = label /\ DOMAIN call' = DOMAIN call /\ call'[s] = c
      /\ \A r \in Savers \ {s} : /\ pc'[r] = pc[r]
                                 /\ r \in DOMAIN call' <=> r \in DOMAIN call
                                 /\ r \in DOMAIN call => call'[r] = call[r]
  <2>1. Goto(s, label)
    BY <1>1
  <2>2. call'[s] = c
    BY <1>3, <1>4
  <2> HIDE DEF label
  <2> QED BY <1>4, <2>1, <2>2, OthersGoOn
<1>8. TableLocks'
  BY <1>2, <1>6, InsertLocks DEF LInv, Tables
<1>9. /\ \A r \in Savers \ {s} : tx'[r] = tx[r]
      /\ tx'[s].checkpoints = tx[s].checkpoints /\ tx'[s].writes = tx[s].writes
      /\ tx'[s].blobs.rows = tx[s].blobs.rows \cup {k}
      /\ tx'[s].blobs.ranges = tx[s].blobs.ranges
      /\ DOMAIN db.blobs \cup DOMAIN tx[s].blobs.set \cup {k}
           \subseteq DOMAIN db.blobs \cup DOMAIN tx'[s].blobs.set
  BY <1>6 DEF Inserted, Tables, Seen, Applied, With
<1>10. TxOf(s)'
  BY <1>3, <1>5, <1>7, <1>9 DEF LInv, TxOfCall, TxOf, Tables
<1>11. ProgressOf(s)'
  <2>1. PutProgress(s)
    BY <1>2, <1>3 DEF LInv, Progress, ProgressOf
  <2>2. \A x \in BlobChannels(a) \ c.todo :
          /\ OwnBlobKey(a, x) \in tx'[s].blobs.rows
          /\ OwnBlobKey(a, x) \in DOMAIN db.blobs \cup DOMAIN tx'[s].blobs.set
    BY <1>5, <1>9, <2>1 DEF PutProgress, k
  <2>3. pc'[s] = "checkpoint" => c.todo = {}
    BY <1>5, <1>7
  <2> QED BY <1>2, <1>5, <1>7, <2>2, <2>3 DEF ProgressOf, PutProgress, BlobChannels, OwnBlobKey
<1>12. \A x \in DOMAIN tx'[s].writes.set : x.idx >= 0 => x \notin DOMAIN db.writes
  BY <1>9 DEF LInv, NewWrites
<1> QED BY <1>2, <1>7, <1>8, <1>9, <1>10, <1>11, <1>12, StatementStep

LEMMA PutCheckpointKeepsLInv ==
    ASSUME IInv, LInv, IInv', NEW s \in Savers, PutCheckpoint(s)
    PROVE  LInv'
<1> DEFINE i == call[s].id
           a == asked[i]
           k == [thread |-> a.thread, ns |-> a.ns, id |-> i]
<1>1. PICK row : Upsert(s, "checkpoints", k, row)
  BY DEF PutCheckpoint
<1>2. pc[s] = "checkpoint" /\ UNCHANGED <<db, call, base, asked, severed>> /\ Goto(s, "commit")
  BY DEF PutCheckpoint
<1>3. s \in DOMAIN call /\ call[s].op = "put"
  BY <1>2 DEF IInv, CallShape
<1> HIDE DEF k
<1>4. Inserted(s, "checkpoints", k, row) /\ tx'[s].checkpoints.set = With(tx[s].checkpoints.set, k, row)
  BY <1>1, UpsertInserts DEF IInv, Tables
<1>5. /\ pc'[s] = "commit"
      /\ \A r \in Savers \ {s} : pc'[r] = pc[r]
  BY <1>2, OthersGoOn
<1>6. TableLocks'
  BY <1>2, <1>4, InsertLocks DEF LInv, Tables
<1>7. /\ \A r \in Savers \ {s} : tx'[r] = tx[r]
      /\ tx'[s].blobs = tx[s].blobs /\ tx'[s].writes = tx[s].writes
      /\ tx'[s].checkpoints.ranges = tx[s].checkpoints.ranges
      /\ k \in DOMAIN tx'[s].checkpoints.set
  BY <1>4 DEF Inserted, Tables, With
<1>8. TxOf(s)'
  BY <1>2, <1>3, <1>5, <1>7 DEF LInv, TxOfCall, TxOf, Tables
<1>9. ProgressOf(s)'
  <2>1. PutProgress(s)
    BY <1>2, <1>3 DEF LInv, Progress, ProgressOf
  <2> QED BY <1>2, <1>3, <1>5, <1>7, <2>1 DEF ProgressOf, PutProgress, BlobChannels, OwnBlobKey, k
<1>10. \A x \in DOMAIN tx'[s].writes.set : x.idx >= 0 => x \notin DOMAIN db.writes
  BY <1>7 DEF LInv, NewWrites
<1> QED BY <1>2, <1>5, <1>6, <1>7, <1>8, <1>9, <1>10, StatementStep

\* A DELETE of delete_thread.
LEMMA DeleteKeepsLInv ==
    ASSUME IInv, LInv, IInv', NEW s \in Savers,
           DeleteCheckpoints(s) \/ DeleteBlobs(s) \/ DeleteWrites(s)
    PROVE  LInv'
<1> DEFINE t == call[s].thread
<1>1. /\ UNCHANGED <<db, call, base, asked, severed>>
      /\ pc[s] \in {"delete_checkpoints", "delete_blobs", "delete_writes"}
  BY DEF DeleteCheckpoints, DeleteBlobs, DeleteWrites
<1>2. s \in DOMAIN call /\ call[s].op = "delete_thread"
  BY <1>1 DEF IInv, CallShape
<1>3. DeleteProgress(s)
  BY <1>1, <1>2 DEF LInv, Progress, ProgressOf
<1>4. PICK tb \in Tables, label \in {"delete_blobs", "delete_writes", "commit"} :
        /\ DeleteWhereThread(s, tb, t) /\ Goto(s, label) /\ tx[s][tb].ranges = {}
        /\ \/ pc[s] = "delete_checkpoints" /\ tb = "checkpoints" /\ label = "delete_blobs"
           \/ pc[s] = "delete_blobs" /\ tb = "blobs" /\ label = "delete_writes"
           \/ pc[s] = "delete_writes" /\ tb = "writes" /\ label = "commit"
  BY <1>3 DEF DeleteCheckpoints, DeleteBlobs, DeleteWrites, DeleteProgress, Tables
<1>5. Deletes(s, tb, t)
  BY <1>4, DeleteDeletes DEF IInv
<1>6. pc'[s] = label /\ \A r \in Savers \ {s} : pc'[r] = pc[r]
  BY <1>1, <1>4, OthersGoOn
<1>7. \A u \in Tables : tx[s][u].rows = {}
  BY <1>2 DEF LInv, TxOfCall, TxOf
<1>8. TableLocks'
  BY <1>1, <1>4, <1>5, <1>7, DeleteLocks DEF LInv
<1>9. /\ \A r \in Savers \ {s} : tx'[r] = tx[r]
      /\ \A u \in Tables \ {tb} : tx'[s][u] = tx[s][u]
      /\ tx'[s][tb].rows = {} /\ tx'[s][tb].ranges = {t} /\ tx'[s][tb].set = tx[s][tb].set
  BY <1>4, <1>5, <1>7 DEF Deletes
<1>10. DOMAIN tx'[s].writes.set = {}
  BY <1>2, <1>9 DEF LInv, TxOfCall, TxOf, Tables
<1>11. TxOf(s)'
  BY <1>1, <1>2, <1>4, <1>6, <1>9, <1>10 DEF LInv, TxOfCall, TxOf
<1>12. ProgressOf(s)'
  BY <1>1, <1>2, <1>3, <1>4, <1>6, <1>9 DEF ProgressOf, DeleteProgress, Tables
<1> QED BY <1>1, <1>6, <1>8, <1>9, <1>10, <1>11, <1>12, StatementStep

\* Rows of special channels have a negative idx, the others that of their place.
LEMMA WriteIdxSign ==
    ASSUME NEW ws, NEW j \in Nat
    PROVE  /\ Special(ws[j]) => WriteIdx(ws, j) \in Int /\ WriteIdx(ws, j) < 0
           /\ ~Special(ws[j]) => WriteIdx(ws, j) = j - 1
BY DEF Special, WriteIdx, WritesIdxMap

\* put_writes goes on to its next write: its row is new, or it was stored, or
\* the list overwrites it.
LEMMA WriteProgressStep ==
    ASSUME NEW s \in DOMAIN call, WriteProgress(s), NEW c, NEW log,
           c.next = call[s].next + 1, c.writes = call[s].writes,
           call[s].next <= Len(c.writes), Len(c.writes) \in Nat,
           \A j : RowKey(c, j) = RowKey(call[s], j),
           call'[s] = c, tx'[s].writes = log,
           pc'[s] = IF call[s].next = Len(c.writes) THEN "commit" ELSE "writes",
           db' = db,
           NEW k, k = RowKey(c, call[s].next),
           log.rows = tx[s].writes.rows \cup {k},
           \/ log.set = With(tx[s].writes.set, k, c.writes[call[s].next])
           \/ /\ log.set = tx[s].writes.set /\ k \in DOMAIN db.writes \cup DOMAIN log.set
              /\ ~Overwrites(c.writes)
    PROVE  WriteProgress(s)'
<1> DEFINE n == call[s].next
           old == tx[s].writes
<1>1. n \in Nat \ {0}
  BY DEF WriteProgress
<1>2. /\ DOMAIN old.set \subseteq DOMAIN log.set
      /\ \A x \in DOMAIN old.set : x # k => log.set[x] = old.set[x]
      /\ k \in DOMAIN db.writes \cup DOMAIN log.set
      /\ \A x \in DOMAIN log.set : x \in DOMAIN old.set \/ x = k
  BY DEF With
<1>3. Overwrites(c.writes) => k \in DOMAIN log.set /\ log.set[k] = c.writes[n]
  BY DEF With
<1>4. ASSUME NEW j \in 1..n
      PROVE  /\ j <= Len(c.writes)
             /\ RowKey(c, j) \in log.rows
             /\ RowKey(c, j) \in DOMAIN db.writes \cup DOMAIN log.set
             /\ Overwrites(c.writes) =>
                  /\ RowKey(c, j) \in DOMAIN log.set
                  /\ \E m \in j..n : RowKey(c, m) = RowKey(c, j) /\ log.set[RowKey(c, j)] = c.writes[m]
  <2>1. CASE j = n
    BY <1>1, <1>2, <1>3, <2>1
  <2>2. CASE j # n
    <3>1. j \in 1..(n - 1)
      BY <1>1, <2>2
    <3>2. /\ j <= Len(c.writes)
          /\ RowKey(c, j) \in old.rows
          /\ RowKey(c, j) \in DOMAIN db.writes \cup DOMAIN old.set
          /\ Overwrites(c.writes) =>
               /\ RowKey(c, j) \in DOMAIN old.set
               /\ \E m \in j..(n - 1) : RowKey(c, m) = RowKey(c, j) /\ old.set[RowKey(c, j)] = c.writes[m]
      BY <3>1 DEF WriteProgress
    <3>3. ASSUME Overwrites(c.writes)
          PROVE  \E m \in j..n : RowKey(c, m) = RowKey(c, j) /\ log.set[RowKey(c, j)] = c.writes[m]
      <4>1. CASE RowKey(c, j) = k
        <5>1. n \in j..n
          BY <1>1
        <5> QED BY <1>3, <3>3, <4>1, <5>1
      <4>2. CASE RowKey(c, j) # k
        <5>1. PICK m \in j..(n - 1) : RowKey(c, m) = RowKey(c, j) /\ old.set[RowKey(c, j)] = c.writes[m]
          BY <3>2, <3>3
        <5>2. m \in j..n
          BY <1>1, <5>1
        <5> QED BY <1>2, <3>2, <3>3, <4>2, <5>1, <5>2
      <4> QED BY <4>1, <4>2
    <3> QED BY <1>2, <3>2, <3>3
  <2> QED BY <2>1, <2>2
<1>5. ASSUME NEW x \in DOMAIN log.set
      PROVE  \E j \in 1..n : x = RowKey(c, j) /\ (~Special(c.writes[j]) => log.set[x] = c.writes[j])
  <2>1. CASE log.set = With(old.set, k, c.writes[n]) /\ x = k
    <3>1. n \in 1..n /\ log.set[x] = c.writes[n]
      BY <1>1, <2>1 DEF With
    <3> QED BY <2>1, <3>1
  <2>2. CASE ~(log.set = With(old.set, k, c.writes[n]) /\ x = k)
    <3>1. x \in DOMAIN old.set /\ log.set[x] = old.set[x]
      BY <2>2 DEF With
    <3>2. PICK j \in 1..(n - 1) : x = RowKey(c, j) /\ (~Special(c.writes[j]) => old.set[x] = c.writes[j])
      BY <3>1 DEF WriteProgress
    <3>3. j \in 1..n
      BY <1>1
    <3> QED BY <3>1, <3>2, <3>3
  <2> QED BY <2>1, <2>2
<1>6. c.next \in Nat \ {0} /\ c.next - 1 = n
  BY <1>1
<1>7. pc'[s] = "commit" => c.next = Len(c.writes) + 1
  BY <1>1
<1>8. /\ \A j \in 1..(c.next - 1) :
           /\ j <= Len(c.writes)
           /\ RowKey(c, j) \in log.rows
           /\ RowKey(c, j) \in DOMAIN db'.writes \cup DOMAIN log.set
           /\ Overwrites(c.writes) =>
                /\ RowKey(c, j) \in DOMAIN log.set
                /\ \E m \in j..(c.next - 1) :
                     RowKey(c, m) = RowKey(c, j) /\ log.set[RowKey(c, j)] = c.writes[m]
      /\ \A x \in DOMAIN log.set : \E j \in 1..(c.next - 1) :
           x = RowKey(c, j) /\ (~Special(c.writes[j]) => log.set[x] = c.writes[j])
  <2> HIDE DEF n, old
  <2> QED BY <1>4, <1>5, <1>6
<1> HIDE DEF n, old
<1> QED
  BY <1>6, <1>7, <1>8 DEF WriteProgress

LEMMA PutWriteKeepsLInv ==
    ASSUME IInv, LInv, IInv', NEW s \in Savers, PutWrite(s)
    PROVE  LInv'
<1> DEFINE c0 == call[s]
           n == c0.next
           k == RowKey(c0, n)
           row == c0.writes[n]
           label == IF n = Len(c0.writes) THEN "commit" ELSE "writes"
           c == [c0 EXCEPT !.next = n + 1]
<1>1. /\ pc[s] = "writes" /\ UNCHANGED <<db, base, asked, severed>>
      /\ IF Overwrites(c0.writes)
         THEN Upsert(s, "writes", k, row)
         ELSE InsertIgnore(s, "writes", k, row)
      /\ call' = [call EXCEPT ![s].next = @ + 1]
      /\ Goto(s, label)
  BY DEF PutWrite, RowKey
<1>2. /\ s \in DOMAIN call /\ c0.op = "put_writes"
      /\ DOMAIN c0 = {"op", "thread", "ns", "id", "task", "writes", "next"}
      /\ c0.writes \in WriteLists /\ n \in 1..Len(c0.writes)
  BY <1>1 DEF IInv, CallShape
<1>3. Len(c0.writes) \in Nat /\ n \in Nat
  BY <1>2, WriteListsAssumption
<1>4. call' = [call EXCEPT ![s] = c]
  BY <1>1
<1>5. /\ c.op = "put_writes" /\ c.next = n + 1 /\ c.writes = c0.writes
      /\ \A j : RowKey(c, j) = RowKey(c0, j)
  BY <1>2 DEF RowKey
<1>6. /\ Inserted(s, "writes", k, row)
      /\ ~Overwrites(c0.writes) /\ k \in DOMAIN Seen(s, "writes") => tx'[s].writes.set = tx[s].writes.set
      /\ Overwrites(c0.writes) => tx'[s].writes.set = With(tx[s].writes.set, k, row)
  BY <1>1, UpsertInserts, IgnoreInserts DEF IInv, Tables
<1> HIDE DEF c, k, row
<1>7. /\ pc'[s] = label /\ DOMAIN call' = DOMAIN call /\ call'[s] = c
      /\ \A r \in Savers \ {s} : /\ pc'[r] = pc[r]
                                 /\ r \in DOMAIN call' <=> r \in DOMAIN call
                                 /\ r \in DOMAIN call => call'[r] = call[r]
  <2>1. Goto(s, label)
    BY <1>1
  <2>2. call'[s] = c
    BY <1>2, <1>4
  <2> HIDE DEF label
  <2> QED BY <1>4, <2>1, <2>2, OthersGoOn
<1>8. TableLocks'
  BY <1>1, <1>6, InsertLocks DEF LInv, Tables
<1>9. /\ \A r \in Savers \ {s} : tx'[r] = tx[r]
      /\ tx'[s].checkpoints = tx[s].checkpoints /\ tx'[s].blobs = tx[s].blobs
      /\ tx'[s].writes.rows = tx[s].writes.rows \cup {k}
      /\ tx'[s].writes.ranges = tx[s].writes.ranges
  BY <1>6 DEF Inserted, Tables
<1>10. tx[s].writes.ranges = {} /\ tx[s].writes.del = {}
  BY <1>2 DEF LInv, TxOfCall, TxOf, TableLocks, ChangesLocked, Tables
<1>11. DOMAIN Seen(s, "writes") = DOMAIN db.writes \cup DOMAIN tx[s].writes.set
  BY <1>10 DEF Seen, Applied
<1>12. \/ tx'[s].writes.set = With(tx[s].writes.set, k, row)
          /\ (k \notin DOMAIN db.writes \/ Overwrites(c0.writes))
       \/ /\ tx'[s].writes.set = tx[s].writes.set
          /\ k \in DOMAIN db.writes \cup DOMAIN tx[s].writes.set /\ ~Overwrites(c0.writes)
  BY <1>6, <1>11 DEF Inserted
<1>13. TxOf(s)'
  BY <1>2, <1>5, <1>7, <1>9 DEF LInv, TxOfCall, TxOf, Tables
<1>14. ProgressOf(s)'
  <2>1. WriteProgress(s)
    BY <1>1, <1>2 DEF LInv, Progress, ProgressOf
  <2>2. n <= Len(c0.writes)
    BY <1>2, <1>3
  <2>3. WriteProgress(s)'
    BY <1>1, <1>2, <1>3, <1>5, <1>7, <1>9, <1>12, <2>1, <2>2, WriteProgressStep DEF k, row
  <2> QED BY <1>5, <1>7, <2>3 DEF ProgressOf
<1>15. ASSUME NEW x \in DOMAIN tx'[s].writes.set, x.idx >= 0
       PROVE  x \notin DOMAIN db.writes
  <2>1. CASE x \in DOMAIN tx[s].writes.set
    BY <1>15, <2>1 DEF LInv, NewWrites
  <2>2. CASE x \notin DOMAIN tx[s].writes.set
    <3>1. x = k /\ (k \notin DOMAIN db.writes \/ Overwrites(c0.writes))
      BY <1>12, <2>2 DEF With
    <3>2. k.idx = WriteIdx(c0.writes, n)
      BY DEF k, RowKey, WriteKey
    <3>3. ~Special(c0.writes[n])
      BY <1>3, <1>15, <3>1, <3>2, WriteIdxSign
    <3>4. ~Overwrites(c0.writes)
      BY <1>2, <3>3, WriteListsAssumption DEF Overwrites
    <3> QED BY <3>1, <3>4
  <2> QED BY <2>1, <2>2
<1> QED BY <1>1, <1>7, <1>8, <1>9, <1>13, <1>14, <1>15, StatementStep

-----------------------------------------------------------------------------
\* The end of a transaction.

\* A statement raises, or the process dies: nothing of the transaction is kept.
LEMMA RollbackKeepsLInv ==
    ASSUME IInv, LInv, IInv', NEW s \in Savers, StatementFails(s) \/ Crash(s)
    PROVE  LInv'
<1>1. /\ UNCHANGED <<db, asked, severed>> /\ tx' = [tx EXCEPT ![s] = NoTx]
      /\ \/ Goto(s, "raised") /\ call' = call /\ base' = base
         \/ Goto(s, "idle") /\ call' = Without(call, {s}) /\ base' = Without(base, {s})
  BY DEF StatementFails, Crash
<1>2. tx'[s] = NoTx /\ \A r \in Savers \ {s} : tx'[r] = tx[r]
  BY <1>1, EndTxEffect DEF IInv
<1>3. TableLocks'
  BY <1>1, <1>2, RollbackLocks DEF LInv
<1>4. /\ s \in DOMAIN call' => pc'[s] = "raised"
      /\ \A r \in Savers \ {s} : /\ pc'[r] = pc[r]
                                 /\ r \in DOMAIN call' <=> r \in DOMAIN call
                                 /\ r \in DOMAIN call => call'[r] = call[r]
  BY <1>1, OthersCalls, OthersGoOn
<1>5. TxOf(s)'
  BY <1>2, NoTxLocks DEF TxOf, Tables
<1>6. DOMAIN call' \subseteq Savers
  BY DEF IInv, CallShape
<1>7. TxOfCall' /\ Progress'
  BY <1>1, <1>2, <1>4, <1>5, <1>6, StepOfOne DEF Undisturbed
<1>8. OwnPresent' /\ WriteKeys' /\ NoAttemptCut'
  BY <1>1, TablesStay
<1>9. BaseStored'
  BY <1>1, BaseStays DEF Without, LInv
<1>10. NewWrites'
  <2>1. \A r \in Savers : \A k \in DOMAIN tx'[r].writes.set : k.idx >= 0 => k \notin DOMAIN db.writes
    BY <1>2, NoTxLocks DEF LInv, NewWrites, Tables
  <2> QED BY <1>1, <2>1 DEF NewWrites
<1> QED BY <1>3, <1>7, <1>8, <1>9, <1>10 DEF LInv

\* What a commit does to a table: the rows of the transaction are added, those
\* it deleted are gone, and rows that other transactions have locked stay
\* stored or missing as they were.
LEMMA CommitEffect ==
    ASSUME IInv, LInv, NEW s \in Savers, ServerCommits(s)
    PROVE  /\ tx'[s] = NoTx /\ \A r \in Savers \ {s} : tx'[r] = tx[r]
           /\ \A tb \in Tables :
                /\ DOMAIN db'[tb] = (DOMAIN db[tb] \ tx[s][tb].del) \cup DOMAIN tx[s][tb].set
                /\ \A k \in DOMAIN db'[tb] :
                     db'[tb][k] = IF k \in DOMAIN tx[s][tb].set THEN tx[s][tb].set[k] ELSE db[tb][k]
           /\ \A r \in Savers \ {s}, tb \in Tables :
                /\ \A k \in tx[r][tb].rows : k \in DOMAIN db'[tb] <=> k \in DOMAIN db[tb]
                /\ \A k \in DOMAIN db'[tb] : k.thread \in tx[r][tb].ranges => k \in DOMAIN db[tb]
<1>1. tx'[s] = NoTx /\ \A r \in Savers \ {s} : tx'[r] = tx[r]
  BY EndTxEffect DEF IInv, ServerCommits
<1>2. \A tb \in Tables :
        /\ DOMAIN db'[tb] = (DOMAIN db[tb] \ tx[s][tb].del) \cup DOMAIN tx[s][tb].set
        /\ \A k \in DOMAIN db'[tb] :
             db'[tb][k] = IF k \in DOMAIN tx[s][tb].set THEN tx[s][tb].set[k] ELSE db[tb][k]
  BY DEF ServerCommits, Applied
<1>3. ASSUME NEW r \in Savers \ {s}, NEW tb \in Tables
      PROVE  /\ \A k \in tx[r][tb].rows : k \in DOMAIN db'[tb] <=> k \in DOMAIN db[tb]
             /\ \A k \in DOMAIN db'[tb] : k.thread \in tx[r][tb].ranges => k \in DOMAIN db[tb]
  <2>1. /\ \A k \in DOMAIN tx[s][tb].set : k \in tx[s][tb].rows
        /\ \A k \in tx[s][tb].del : k.thread \in tx[s][tb].ranges
    BY DEF LInv, TableLocks, ChangesLocked
  <2>2. /\ \A k \in tx[s][tb].rows : k \notin tx[r][tb].rows /\ k.thread \notin tx[r][tb].ranges
        /\ \A k \in tx[r][tb].rows : k.thread \notin tx[s][tb].ranges
    BY DEF LInv, TableLocks, LocksExclusive
  <2> QED BY <1>2, <2>1, <2>2
<1> QED BY <1>1, <1>2, <1>3

\* put and put_writes delete nothing.
LEMMA InsertsKeepRows ==
    ASSUME IInv, LInv, NEW s \in DOMAIN call, call[s].op # "delete_thread", ServerCommits(s)
    PROVE  \A tb \in Tables : DOMAIN db[tb] \subseteq DOMAIN db'[tb]
<1>1. s \in Savers
  BY DEF IInv, CallShape
<1>2. \A tb \in Tables : tx[s][tb].del = {}
  BY <1>1 DEF LInv, TxOfCall, TxOf, TableLocks, ChangesLocked
<1> QED BY <1>1, <1>2, CommitEffect

\* delete_thread leaves no row of its thread, and every row of the others.
LEMMA DeleteEmptiesThread ==
    ASSUME IInv, LInv, NEW s \in DOMAIN call, pc[s] = "commit", call[s].op = "delete_thread",
           ServerCommits(s)
    PROVE  \A tb \in Tables :
             /\ DOMAIN db'[tb] = {k \in DOMAIN db[tb] : k.thread # call[s].thread}
             /\ \A k \in DOMAIN db'[tb] : db'[tb][k] = db[tb][k]
<1>1. s \in Savers
  BY DEF IInv, CallShape
<1> SUFFICES ASSUME NEW tb \in Tables
             PROVE  /\ DOMAIN db'[tb] = {k \in DOMAIN db[tb] : k.thread # call[s].thread}
                    /\ \A k \in DOMAIN db'[tb] : db'[tb][k] = db[tb][k]
  OBVIOUS
<1>2. DeleteProgress(s)
  BY DEF LInv, Progress, ProgressOf
<1>3. tx[s][tb].ranges # {}
  BY <1>2 DEF DeleteProgress, Tables
<1>4. tx[s][tb].ranges = {call[s].thread} /\ tx[s][tb].rows = {}
  BY <1>1, <1>3 DEF LInv, TxOfCall, TxOf
<1>5. DOMAIN tx[s][tb].set = {} /\ \A k \in tx[s][tb].del : k.thread = call[s].thread
  BY <1>1, <1>4 DEF LInv, TableLocks, ChangesLocked
<1>6. \A k \in DOMAIN db[tb] : k.thread = call[s].thread => k \in tx[s][tb].del
  BY <1>1, <1>4 DEF LInv, TableLocks, DeletesCovered
<1> QED BY <1>1, <1>5, <1>6, CommitEffect

\* The locks, transactions and calls after a commit.
LEMMA CommitKeepsLocks ==
    ASSUME IInv, LInv, IInv', NEW s \in Savers, ServerCommits(s), asked' = asked,
           s \in DOMAIN call' => pc'[s] = "raised",
           \A r \in Savers \ {s} : /\ pc'[r] = pc[r]
                                   /\ r \in DOMAIN call' <=> r \in DOMAIN call
                                   /\ r \in DOMAIN call => call'[r] = call[r]
    PROVE  TableLocks' /\ TxOfCall' /\ Progress'
<1>1. tx'[s] = NoTx /\ \A r \in Savers \ {s} : tx'[r] = tx[r]
  BY CommitEffect
<1>2. \A tb \in Tables : /\ tx'[s][tb].rows = {} /\ tx'[s][tb].ranges = {} /\ tx'[s][tb].del = {}
                         /\ DOMAIN tx'[s][tb].set = {}
  BY <1>1, NoTxLocks
<1>3. LocksExclusive' /\ ChangesLocked'
  BY <1>1, <1>2 DEF LInv, TableLocks, LocksExclusive, ChangesLocked
<1>4. DeletesCovered'
  <2> SUFFICES ASSUME NEW r \in Savers, NEW tb \in Tables, NEW k \in DOMAIN db'[tb],
                      k.thread \in tx'[r][tb].ranges
               PROVE  k \in tx'[r][tb].del
    BY DEF DeletesCovered
  <2>1. r # s
    BY <1>2
  <2>2. k \in DOMAIN db[tb]
    BY <1>1, <2>1, CommitEffect
  <2> QED BY <1>1, <2>1, <2>2 DEF LInv, TableLocks, DeletesCovered
<1>5. TxOf(s)'
  BY <1>1, NoTxLocks DEF TxOf, Tables
<1>6. ASSUME NEW r \in Savers \ {s}
      PROVE  Undisturbed(r)
  <2>1. /\ \A k \in tx[r].blobs.rows : k \in DOMAIN db.blobs => k \in DOMAIN db'.blobs
        /\ \A k \in tx[r].writes.rows : k \in DOMAIN db.writes => k \in DOMAIN db'.writes
    BY CommitEffect DEF Tables
  <2> QED BY <1>1, <2>1 DEF Undisturbed
<1>7. DOMAIN call' \subseteq Savers
  BY DEF IInv, CallShape
<1> QED BY <1>3, <1>4, <1>5, <1>6, <1>7, StepOfOne DEF TableLocks

\* The tables after a commit.
LEMMA CommitKeepsOwnPresent ==
    ASSUME IInv, LInv, NEW s \in DOMAIN call, pc[s] = "commit", ServerCommits(s), asked' = asked
    PROVE  OwnPresent'
<1>1. s \in Savers
  BY DEF IInv, CallShape
<1> SUFFICES ASSUME NEW k \in DOMAIN db'.checkpoints, NEW ch \in BlobChannels(asked[k.id])
             PROVE  OwnBlobKey(asked[k.id], ch) \in DOMAIN db'.blobs
  BY DEF OwnPresent, BlobChannels, OwnBlobKey
<1> DEFINE key == OwnBlobKey(asked[k.id], ch)
<1>2. ASSUME k \in DOMAIN db.checkpoints
      PROVE  key \in DOMAIN db.blobs /\ key.thread = k.thread
  <2>1. CheckpointRow(k, db.checkpoints[k])
    BY <1>2 DEF IInv, RowsOK
  <2> QED BY <1>2, <2>1 DEF LInv, OwnPresent, CheckpointRow, OwnBlobKey, BlobKey
<1> HIDE DEF key
<1>3. CASE call[s].op = "delete_thread"
  <2>1. k \in DOMAIN db.checkpoints /\ k.thread # call[s].thread
    BY <1>3, DeleteEmptiesThread DEF Tables
  <2>2. key \in DOMAIN db'.blobs
    BY <1>2, <1>3, <2>1, DeleteEmptiesThread DEF Tables
  <2> QED BY <2>2 DEF key
<1>4. CASE call[s].op # "delete_thread"
  <2>1. DOMAIN db.blobs \subseteq DOMAIN db'.blobs
    BY <1>4, InsertsKeepRows DEF Tables
  <2>2. CASE k \in DOMAIN db.checkpoints
    BY <1>2, <2>1, <2>2 DEF key
  <2>3. CASE k \notin DOMAIN db.checkpoints
    <3>1. k \in DOMAIN tx[s].checkpoints.set
      BY <1>1, <2>3, CommitEffect DEF Tables
    <3>2. call[s].op = "put" /\ k.id = call[s].id
      BY <1>1, <3>1 DEF IInv, PendingOK
    <3>3. PutProgress(s)
      BY <3>2 DEF LInv, Progress, ProgressOf
    <3>4. key \in DOMAIN db.blobs \cup DOMAIN tx[s].blobs.set
      BY <3>2, <3>3 DEF PutProgress, key
    <3>5. DOMAIN tx[s].blobs.set \subseteq DOMAIN db'.blobs
      BY <1>1, CommitEffect DEF Tables
    <3> QED BY <2>1, <3>4, <3>5 DEF key
  <2> QED BY <2>2, <2>3
<1> QED BY <1>3, <1>4

LEMMA CommitKeepsBaseStored ==
    ASSUME IInv, LInv, NEW s \in DOMAIN call, pc[s] = "commit", ServerCommits(s), asked' = asked,
           NEW r \in DOMAIN base, base[r].id \in Ids \ severed'
    PROVE  [thread |-> base[r].thread, ns |-> base[r].ns, id |-> base[r].id] \in DOMAIN db'.checkpoints
<1> DEFINE k == [thread |-> base[r].thread, ns |-> base[r].ns, id |-> base[r].id]
<1>1. severed \subseteq severed'
  BY DEF ServerCommits
<1>2. k \in DOMAIN db.checkpoints
  BY <1>1 DEF LInv, BaseStored
<1>3. CASE call[s].op = "delete_thread"
  <2>1. base[r].id \in DOMAIN asked /\ asked[base[r].id].thread = base[r].thread
    BY DEF IInv, BaseShape, BaseTraced
  <2>2. k.thread # call[s].thread
    BY <1>3, <2>1 DEF ServerCommits
  <2> HIDE DEF k
  <2>3. k \in DOMAIN db'.checkpoints
    BY <1>2, <1>3, <2>2, DeleteEmptiesThread DEF Tables
  <2> QED BY <2>3 DEF k
<1>4. CASE call[s].op # "delete_thread"
  BY <1>2, <1>4, InsertsKeepRows DEF Tables
<1> QED BY <1>3, <1>4

\* The rows of put_writes at COMMIT.
LEMMA CommitsOwnWrites ==
    ASSUME IInv, LInv, NEW s \in DOMAIN call, pc[s] = "commit", NEW k \in DOMAIN tx[s].writes.set
    PROVE  /\ call[s].op = "put_writes" /\ WriteProgress(s)
           /\ \E j \in 1..Len(call[s].writes) :
                /\ k = RowKey(call[s], j)
                /\ ~Special(call[s].writes[j]) => tx[s].writes.set[k] = call[s].writes[j]
<1>1. s \in Savers
  BY DEF IInv, CallShape
<1>2. call[s].op = "put_writes"
  BY <1>1 DEF LInv, TxOfCall, TxOf
<1>3. WriteProgress(s)
  BY <1>2 DEF LInv, Progress, ProgressOf
<1>4. Len(call[s].writes) \in Nat
  BY <1>2, WriteListsAssumption DEF IInv, CallShape
<1>5. call[s].next = Len(call[s].writes) + 1
  BY <1>3 DEF WriteProgress
<1>6. call[s].next - 1 = Len(call[s].writes)
  BY <1>4, <1>5
<1> QED BY <1>2, <1>3, <1>6 DEF WriteProgress

LEMMA RowKeyFields ==
    ASSUME NEW c, NEW j
    PROVE  /\ RowKey(c, j).idx = WriteIdx(c.writes, j)
           /\ RowKey(c, j) = WriteKey(RowKey(c, j).thread, RowKey(c, j).ns, RowKey(c, j).id,
                                      RowKey(c, j).task, RowKey(c, j).idx)
           /\ \A i : [RowKey(c, j) EXCEPT !.idx = i] = WriteKey(c.thread, c.ns, c.id, c.task, i)
BY DEF RowKey, WriteKey

LEMMA CommitKeepsWriteKeys ==
    ASSUME IInv, LInv, NEW s \in DOMAIN call, pc[s] = "commit", ServerCommits(s)
    PROVE  WriteKeys' /\ (\A r \in Savers \ {s} : \A k \in DOMAIN tx[r].writes.set :
                              k.idx >= 0 => k \notin DOMAIN db'.writes)
<1>1. s \in Savers
  BY DEF IInv, CallShape
<1>2. ASSUME NEW k \in DOMAIN db'.writes
      PROVE  k = WriteKey(k.thread, k.ns, k.id, k.task, k.idx) /\ k.idx \in Int
  <2>1. CASE k \in DOMAIN db.writes
    BY <2>1 DEF LInv, WriteKeys
  <2>2. CASE k \notin DOMAIN db.writes
    <3>1. k \in DOMAIN tx[s].writes.set
      BY <1>1, <2>2, CommitEffect DEF Tables
    <3>2. PICK j \in 1..Len(call[s].writes) : k = RowKey(call[s], j)
      BY <3>1, CommitsOwnWrites
    <3>3. Len(call[s].writes) \in Nat
      BY <3>1, CommitsOwnWrites, WriteListsAssumption DEF IInv, CallShape
    <3>4. WriteIdx(call[s].writes, j) \in Int
      BY <3>3, WriteIdxSign
    <3> QED BY <3>2, <3>4, RowKeyFields
  <2> QED BY <2>1, <2>2
<1>3. ASSUME NEW r \in Savers \ {s}, NEW k \in DOMAIN tx[r].writes.set, k.idx >= 0
      PROVE  k \notin DOMAIN db'.writes
  <2>1. k \in tx[r].writes.rows
    BY DEF LInv, TableLocks, ChangesLocked, Tables
  <2>2. k \notin DOMAIN db.writes
    BY <1>3 DEF LInv, NewWrites
  <2> QED BY <1>1, <2>1, <2>2, CommitEffect DEF Tables
<1> QED BY <1>2, <1>3 DEF WriteKeys

-----------------------------------------------------------------------------
\* The attempts of a task.

\* The task of row k has all the regular writes of ws in the table.
Holds(table, k, ws) ==
    \A j \in Regular(ws) :
        RowBeside(k, j) \in DOMAIN table /\ table[RowBeside(k, j)] = ws[j]

\* Row k is of ws, and all the regular writes of ws have rows in the table.
BelongsTo(table, k, ws) ==
    /\ k.idx + 1 \in Regular(ws) /\ table[k] = ws[k.idx + 1]
    /\ \A j \in Regular(ws) : RowBeside(k, j) \in DOMAIN table

\* A commit replaces no regular write, and deletes those of a whole thread.
LEMMA CommitKeepsRegular ==
    ASSUME IInv, LInv, NEW s \in DOMAIN call, pc[s] = "commit", ServerCommits(s),
           NEW x \in DOMAIN db.writes, x.idx >= 0
    PROVE  \/ x \in DOMAIN db'.writes /\ db'.writes[x] = db.writes[x]
           \/ call[s].op = "delete_thread" /\ x.thread = call[s].thread
<1>1. s \in Savers
  BY DEF IInv, CallShape
<1>2. CASE call[s].op = "delete_thread"
  BY <1>2, DeleteEmptiesThread DEF Tables
<1>3. CASE call[s].op # "delete_thread"
  <2>1. x \in DOMAIN db'.writes
    BY <1>3, InsertsKeepRows DEF Tables
  <2>2. x \notin DOMAIN tx[s].writes.set
    BY <1>1 DEF LInv, NewWrites
  <2> QED BY <1>1, <2>1, <2>2, CommitEffect DEF Tables
<1> QED BY <1>2, <1>3

\* The rows beside a row that a commit does not delete are not deleted either.
LEMMA CommitKeepsBeside ==
    ASSUME IInv, LInv, NEW s \in DOMAIN call, pc[s] = "commit", ServerCommits(s),
           NEW x \in DOMAIN db.writes, x.idx >= 0,
           call[s].op = "delete_thread" => x.thread # call[s].thread,
           NEW ws \in WriteLists, NEW j \in Regular(ws), RowBeside(x, j) \in DOMAIN db.writes
    PROVE  /\ RowBeside(x, j) \in DOMAIN db'.writes
           /\ db'.writes[RowBeside(x, j)] = db.writes[RowBeside(x, j)]
<1> DEFINE y == RowBeside(x, j)
<1>1. x = WriteKey(x.thread, x.ns, x.id, x.task, x.idx)
  BY DEF LInv, WriteKeys
<1>2. y.idx = j - 1 /\ y.thread = x.thread
  BY <1>1 DEF WriteKey, RowBeside
<1>3. j \in Nat /\ j - 1 >= 0
  BY WriteListsAssumption DEF Regular
<1> HIDE DEF y
<1>4. y \in DOMAIN db'.writes /\ db'.writes[y] = db.writes[y]
  BY <1>2, <1>3, CommitKeepsRegular DEF y
<1> QED BY <1>4 DEF y

LEMMA HeldStays ==
    ASSUME IInv, LInv, NEW s \in DOMAIN call, pc[s] = "commit", ServerCommits(s),
           NEW x \in DOMAIN db.writes, x.idx >= 0,
           NEW k, k = WriteKey(x.thread, x.ns, x.id, x.task, k.idx),
           call[s].op = "delete_thread" => x.thread # call[s].thread
    PROVE  \E ws \in WriteLists : Regular(ws) # {} /\ Holds(db'.writes, k, ws)
<1>1. PICK ws \in WriteLists : Regular(ws) # {} /\ Holds(db.writes, x, ws)
  BY DEF LInv, NoAttemptCut, Holds
<1>2. x = WriteKey(x.thread, x.ns, x.id, x.task, x.idx)
  BY DEF LInv, WriteKeys
<1>3. ASSUME NEW j \in Regular(ws)
      PROVE  RowBeside(k, j) \in DOMAIN db'.writes /\ db'.writes[RowBeside(k, j)] = ws[j]
  <2>1. RowBeside(k, j) = RowBeside(x, j)
    BY <1>2 DEF WriteKey, RowBeside
  <2>2. RowBeside(x, j) \in DOMAIN db.writes /\ db.writes[RowBeside(x, j)] = ws[j]
    BY <1>1 DEF Holds
  <2> QED BY <2>1, <2>2, CommitKeepsBeside
<1> QED BY <1>1, <1>3 DEF Holds

\* A commit cuts no attempt that was stored before.
LEMMA StoredNotCut ==
    ASSUME IInv, LInv, NEW s \in DOMAIN call, pc[s] = "commit", ServerCommits(s),
           NEW k \in DOMAIN db.writes, k \in DOMAIN db'.writes, k.idx >= 0
    PROVE  /\ \E ws \in WriteLists : Regular(ws) # {} /\ Holds(db'.writes, k, ws)
           /\ \E ws \in WriteLists : BelongsTo(db'.writes, k, ws)
<1>1. k = WriteKey(k.thread, k.ns, k.id, k.task, k.idx)
  BY DEF LInv, WriteKeys
<1>2. call[s].op = "delete_thread" => k.thread # call[s].thread
  BY DeleteEmptiesThread DEF Tables
<1>3. \E ws \in WriteLists : Regular(ws) # {} /\ Holds(db'.writes, k, ws)
  BY <1>1, <1>2, HeldStays
<1>4. PICK ws \in WriteLists : BelongsTo(db.writes, k, ws)
  BY DEF LInv, NoAttemptCut, BelongsTo
<1>5. db'.writes[k] = db.writes[k]
  BY <1>2, CommitKeepsRegular
<1>6. \A j \in Regular(ws) : RowBeside(k, j) \in DOMAIN db'.writes
  BY <1>2, <1>4, CommitKeepsBeside DEF BelongsTo
<1>7. BelongsTo(db'.writes, k, ws)
  BY <1>4, <1>5, <1>6 DEF BelongsTo
<1> QED BY <1>3, <1>7

\* An attempt has rows for all its regular writes once it is committed; if some
\* of them were there before, the whole of an earlier attempt was.
LEMMA CommitKeepsAttempts ==
    ASSUME IInv, LInv, NEW s \in DOMAIN call, pc[s] = "commit", ServerCommits(s)
    PROVE  NoAttemptCut'
<1>1. s \in Savers
  BY DEF IInv, CallShape
<1> SUFFICES ASSUME NEW k \in DOMAIN db'.writes, k.idx >= 0
             PROVE  /\ \E ws \in WriteLists : Regular(ws) # {} /\ Holds(db'.writes, k, ws)
                    /\ \E ws \in WriteLists : BelongsTo(db'.writes, k, ws)
  BY DEF NoAttemptCut, Holds, BelongsTo
<1>2. CASE k \in DOMAIN db.writes
  BY <1>2, StoredNotCut
<1>3. CASE k \notin DOMAIN db.writes
  <2> DEFINE c == call[s]
             ws == c.writes
             log == tx[s].writes
  <2>1. k \in DOMAIN log.set
    BY <1>1, <1>3, CommitEffect DEF Tables
  <2>2. c.op = "put_writes" /\ WriteProgress(s) /\ ws \in WriteLists
    BY <2>1, CommitsOwnWrites DEF IInv, CallShape
  <2>3. DOMAIN ws = 1..Len(ws) /\ Len(ws) \in Nat
    BY <2>2, WriteListsAssumption
  <2>4. \A j \in Regular(ws) : j \in 1..Len(ws) /\ ~Special(ws[j])
    BY <2>3 DEF Regular
  <2>5. PICK i \in 1..Len(ws) : k = RowKey(c, i)
    BY <2>1, CommitsOwnWrites
  <2>6. k.idx = i - 1 /\ i \in Regular(ws)
    BY <2>3, <2>5, RowKeyFields, WriteIdxSign DEF Regular
  <2>7. \A j \in Regular(ws) : /\ RowBeside(k, j) = RowKey(c, j)
                               /\ RowKey(c, j).idx = j - 1
    <3>1. \A x : [k EXCEPT !.idx = x] = WriteKey(c.thread, c.ns, c.id, c.task, x)
      BY <2>5, RowKeyFields
    <3>2. \A j \in Regular(ws) : WriteIdx(ws, j) = j - 1
      BY <2>3, <2>4, WriteIdxSign
    <3> HIDE DEF ws, c
    <3>3. \A j \in Regular(ws) : RowBeside(k, j) = WriteKey(c.thread, c.ns, c.id, c.task, j - 1)
      BY <3>1 DEF RowBeside
    <3>4. \A j \in Regular(ws) : RowKey(c, j) = WriteKey(c.thread, c.ns, c.id, c.task, j - 1)
      BY <3>2 DEF RowKey, ws
    <3>5. \A j \in Regular(ws) : RowKey(c, j).idx = j - 1
      BY <3>2, RowKeyFields DEF ws
    <3> QED BY <3>3, <3>4, <3>5
  <2>8. \A j \in Regular(ws) : RowKey(c, j) \in DOMAIN db.writes \cup DOMAIN log.set
    <3>1. c.next = Len(ws) + 1
      BY <2>2 DEF WriteProgress
    <3>2. c.next - 1 = Len(ws)
      BY <2>3, <3>1
    <3> QED BY <2>2, <2>4, <3>2 DEF WriteProgress
  <2>9. ASSUME NEW j \in Regular(ws), RowKey(c, j) \in DOMAIN log.set
        PROVE  RowKey(c, j) \in DOMAIN db'.writes /\ db'.writes[RowKey(c, j)] = ws[j]
    <3> DEFINE x == RowKey(c, j)
    <3>1. PICK m \in 1..Len(ws) : x = RowKey(c, m) /\ (~Special(ws[m]) => log.set[x] = ws[m])
      BY <2>9, CommitsOwnWrites
    <3>2. m = j
      <4>1. j \in Nat \ {0} /\ m \in Nat \ {0}
        BY <2>3, <2>4
      <4>2. WriteIdx(ws, j) = j - 1
        BY <2>4, <4>1, WriteIdxSign
      <4>3. WriteIdx(ws, m) < 0 \/ WriteIdx(ws, m) = m - 1
        BY <4>1, WriteIdxSign
      <4>4. WriteIdx(ws, m) = j - 1
        BY <3>1, <4>2, RowKeyFields
      <4> QED BY <4>1, <4>3, <4>4
    <3>3. log.set[x] = ws[j]
      BY <2>4, <3>1, <3>2
    <3> HIDE DEF x
    <3>4. x \in DOMAIN db'.writes /\ db'.writes[x] = ws[j]
      BY <1>1, <2>9, <3>3, CommitEffect DEF Tables, x
    <3> QED BY <3>4 DEF x
  <2>10. \A j \in Regular(ws) : RowKey(c, j) \in DOMAIN db'.writes
    <3>1. \A x \in DOMAIN db.writes : x \in DOMAIN db'.writes
      BY <2>2, InsertsKeepRows DEF Tables
    <3> QED BY <2>8, <2>9, <3>1
  <2>11. BelongsTo(db'.writes, k, ws)
    <3>1. db'.writes[k] = ws[i]
      BY <2>1, <2>5, <2>6, <2>9
    <3>2. k.idx + 1 = i
      BY <2>6
    <3> QED BY <2>6, <2>7, <2>10, <3>1, <3>2 DEF BelongsTo
  <2>12. \E vs \in WriteLists : Regular(vs) # {} /\ Holds(db'.writes, k, vs)
    <3>1. CASE \E j \in Regular(ws) : RowKey(c, j) \in DOMAIN db.writes
      <4>1. PICK j \in Regular(ws) : RowKey(c, j) \in DOMAIN db.writes
        BY <3>1
      <4> DEFINE x == RowKey(c, j)
      <4>2. x.idx >= 0
        BY <2>3, <2>4, <2>7
      <4>3. k = WriteKey(x.thread, x.ns, x.id, x.task, k.idx)
        BY <2>5 DEF RowKey, WriteKey
      <4> HIDE DEF x
      <4> QED BY <2>2, <4>1, <4>2, <4>3, HeldStays DEF x
    <3>2. CASE \A j \in Regular(ws) : RowKey(c, j) \notin DOMAIN db.writes
      <4>1. Holds(db'.writes, k, ws)
        BY <2>7, <2>8, <2>9, <3>2 DEF Holds
      <4> QED BY <2>2, <2>6, <4>1
    <3> QED BY <3>1, <3>2
  <2> QED BY <2>2, <2>11, <2>12
<1> QED BY <1>2, <1>3

-----------------------------------------------------------------------------
\* Commits, and the theorems.

\* The call returns; the run of a put goes on from a checkpoint that is stored.
LEMMA CommitKeepsLInv ==
    ASSUME IInv, LInv, IInv', NEW s \in Savers, Commit(s) \/ CommitLost(s)
    PROVE  LInv'
<1>1. pc[s] = "commit" /\ ServerCommits(s) /\ asked' = asked /\ s \in DOMAIN call
  BY DEF Commit, CommitLost, IInv, CallShape
<1>2. /\ s \in DOMAIN call' => pc'[s] = "raised"
      /\ \A r \in Savers \ {s} : /\ pc'[r] = pc[r]
                                 /\ r \in DOMAIN call' <=> r \in DOMAIN call
                                 /\ r \in DOMAIN call => call'[r] = call[r]
  <2>1. CASE Commit(s)
    BY <2>1, OthersCalls DEF Commit
  <2>2. CASE CommitLost(s)
    BY <2>2, OthersGoOn DEF CommitLost
  <2> QED BY <2>1, <2>2
<1>3. TableLocks' /\ TxOfCall' /\ Progress'
  BY <1>1, <1>2, CommitKeepsLocks
<1>4. OwnPresent' /\ WriteKeys' /\ NoAttemptCut'
  BY <1>1, CommitKeepsOwnPresent, CommitKeepsWriteKeys, CommitKeepsAttempts
<1>5. NewWrites'
  <2>1. tx'[s] = NoTx /\ \A r \in Savers \ {s} : tx'[r] = tx[r]
    BY <1>1, CommitEffect
  <2>2. \A r \in Savers : \A k \in DOMAIN tx'[r].writes.set : k.idx >= 0 => k \notin DOMAIN db'.writes
    BY <1>1, <2>1, NoTxLocks, CommitKeepsWriteKeys DEF Tables
  <2> QED BY <2>2 DEF NewWrites
<1>6. BaseStored'
  <2>1. CASE Commit(s) /\ call[s].op = "put"
    <3> DEFINE a == asked[call[s].id]
    <3>1. base' = [base EXCEPT ![s].id = call[s].id, ![s].vers = a.vers, ![s].vals = a.vals]
      BY <2>1 DEF Commit
    <3>2. s \in DOMAIN base /\ DOMAIN base[s] = {"thread", "ns", "id", "vers", "vals"}
      BY <1>1, <2>1 DEF IInv, CallShape, BaseShape
    <3>3. base' = [base EXCEPT ![s] = [base[s] EXCEPT !.id = call[s].id, !.vers = a.vers, !.vals = a.vals]]
      BY <3>1, <3>2
    <3> HIDE DEF a
    <3>4. /\ DOMAIN base' = DOMAIN base /\ \A r \in DOMAIN base \ {s} : base'[r] = base[r]
          /\ base'[s].id = call[s].id /\ base'[s].thread = base[s].thread /\ base'[s].ns = base[s].ns
      BY <3>2, <3>3
    <3>5. [thread |-> base[s].thread, ns |-> base[s].ns, id |-> call[s].id] \in DOMAIN db'.checkpoints
      <4>1. base[s].thread = a.thread /\ base[s].ns = a.ns
        BY <1>1, <2>1 DEF IInv, PutOfItsRun, a
      <4>2. PutProgress(s)
        BY <1>1, <2>1 DEF LInv, Progress, ProgressOf
      <4>3. [thread |-> a.thread, ns |-> a.ns, id |-> call[s].id] \in DOMAIN tx[s].checkpoints.set
        BY <1>1, <4>2 DEF PutProgress, a
      <4>4. DOMAIN tx[s].checkpoints.set \subseteq DOMAIN db'.checkpoints
        BY <1>1, CommitEffect DEF Tables
      <4> QED BY <4>1, <4>3, <4>4
    <3>6. \A r \in DOMAIN base \ {s} : base[r].id \in Ids \ severed' =>
            [thread |-> base[r].thread, ns |-> base[r].ns, id |-> base[r].id] \in DOMAIN db'.checkpoints
      BY <1>1, CommitKeepsBaseStored
    <3> QED BY <3>4, <3>5, <3>6 DEF BaseStored
  <2>2. CASE ~(Commit(s) /\ call[s].op = "put")
    <3>1. base' = base
      BY <2>2 DEF Commit, CommitLost
    <3> QED BY <1>1, <3>1, CommitKeepsBaseStored DEF BaseStored
  <2> QED BY <2>1, <2>2
<1> QED BY <1>3, <1>4, <1>5, <1>6 DEF LInv

LEMMA InitLInv == Init => LInv
<1> SUFFICES ASSUME Init PROVE LInv
  OBVIOUS
<1>1. /\ \A s \in Savers : tx[s] = NoTx
      /\ DOMAIN call = {} /\ DOMAIN base = {}
      /\ \A tb \in Tables : DOMAIN db[tb] = {}
  BY DEF Init, Empty
<1>2. \A s \in Savers, tb \in Tables : /\ tx[s][tb].rows = {} /\ tx[s][tb].ranges = {}
                                       /\ tx[s][tb].del = {} /\ DOMAIN tx[s][tb].set = {}
  BY <1>1, NoTxLocks
<1>3. TableLocks
  BY <1>1, <1>2 DEF TableLocks, LocksExclusive, ChangesLocked, DeletesCovered
<1>4. TxOfCall /\ Progress /\ NewWrites
  BY <1>1, <1>2 DEF TxOfCall, TxOf, Progress, NewWrites, Tables
<1>5. OwnPresent /\ WriteKeys /\ BaseStored /\ NoAttemptCut
  BY <1>1 DEF OwnPresent, WriteKeys, BaseStored, NoAttemptCut, Tables
<1> QED BY <1>3, <1>4, <1>5 DEF LInv

LEMMA StutterLInv == IInv /\ LInv /\ UNCHANGED vars => LInv'
<1> SUFFICES ASSUME IInv, LInv, UNCHANGED vars PROVE LInv'
  OBVIOUS
<1>1. UNCHANGED <<db, tx, pc, call, base, asked, severed>>
  BY DEF vars
<1>2. TableLocks' /\ NewWrites' /\ BaseStored'
  BY <1>1 DEF LInv, TableLocks, LocksExclusive, ChangesLocked, DeletesCovered, NewWrites, BaseStored
<1>3. \A r \in Savers : Undisturbed(r)
  BY <1>1 DEF Undisturbed
<1>4. DOMAIN call' \subseteq Savers
  BY <1>1 DEF IInv, CallShape
<1>5. TxOfCall' /\ Progress'
  BY <1>3, <1>4, OthersStay DEF TxOfCall, Progress
<1>6. OwnPresent' /\ WriteKeys' /\ NoAttemptCut'
  BY <1>1, TablesStay
<1> QED BY <1>2, <1>5, <1>6 DEF LInv

LEMMA NextLInv == IInv /\ LInv /\ [Next]_vars => LInv'
<1> SUFFICES ASSUME IInv, LInv, Next PROVE LInv'
  BY StutterLInv
<1>1. IInv'
  BY NextIInv
<1>2. PICK s \in Savers : Next!(s)
  BY DEF Next
<1>3. CASE GetTupleCall(s) \/ EndRun(s)
  BY <1>1, <1>3, GetKeepsLInv, EndRunKeepsLInv
<1>4. CASE PutCall(s)
  BY <1>1, <1>4, PutKeepsLInv, PutBlobKeepsLInv, PutCheckpointKeepsLInv DEF PutCall
<1>5. CASE PutWritesCall(s)
  BY <1>1, <1>5, PutWritesKeepsLInv, PutWriteKeepsLInv DEF PutWritesCall
<1>6. CASE DeleteThreadCall(s)
  BY <1>1, <1>6, DeleteThreadKeepsLInv, DeleteKeepsLInv DEF DeleteThreadCall
<1>7. CASE EndTransaction(s) \/ Crash(s)
  BY <1>1, <1>7, CommitKeepsLInv, RollbackKeepsLInv DEF EndTransaction
<1>8. CASE Retry(s) \/ GiveUp(s)
  BY <1>1, <1>8, RetryKeepsLInv, GiveUpKeepsLInv
<1> QED BY <1>2, <1>3, <1>4, <1>5, <1>6, <1>7, <1>8

\* LInv holds in every state of Saver: transactions exclude each other by
\* their locks, and have done what the statements executed so far do.
THEOREM LocksInvariance == Spec => []LInv
BY InitIInv, InitLInv, NextIInv, NextLInv, PTL DEF Spec

\* A checkpoint that can be read has the values its own put was given for the
\* channels it changed, even in a thread that was deleted under its run (put
\* writes blobs and checkpoint in one transaction).
LEMMA OwnPresentReads ==
    ASSUME IInv, OwnPresent
    PROVE  OwnValues
<1> SUFFICES ASSUME NEW k \in DOMAIN db.checkpoints, NEW ch \in asked[k.id].new
             PROVE  Loaded(k)[ch] = asked[k.id].vals[ch]
  BY DEF OwnValues
<1> DEFINE a == asked[k.id]
           key == OwnBlobKey(a, ch)
           row == db.checkpoints[k]
<1>1. /\ k.id \in DOMAIN asked /\ k.thread = a.thread /\ k.ns = a.ns
      /\ row.vers = a.vers /\ row.inline = Inline(a)
  BY DEF IInv, RowsOK, CheckpointRow
<1>2. ch \in Channels /\ a.vals[ch] \in Values /\ a.vers[ch][2] = k.id
  BY <1>1 DEF IInv, AskedShape, ValueMap, OwnVersions
<1>3. key.version = a.vers[ch] /\ key.channel = ch
  BY DEF OwnBlobKey, BlobKey
<1>4. Loaded(k)[ch] = IF key \in DOMAIN db.blobs THEN db.blobs[key] ELSE Inline(a)[ch]
  BY <1>1, <1>2 DEF Loaded, LoadedValues, OwnBlobKey
<1> HIDE DEF key
<1>5. CASE key \in DOMAIN db.blobs
  <2>1. BlobRow(key, db.blobs[key])
    BY <1>5 DEF IInv, RowsOK
  <2> QED BY <1>2, <1>3, <1>4, <1>5, <2>1 DEF BlobRow
<1>6. CASE key \notin DOMAIN db.blobs
  <2>1. ch \notin BlobChannels(a)
    BY <1>6 DEF OwnPresent, key
  <2>2. Inline(a)[ch] = a.vals[ch]
    BY <1>2, <2>1 DEF BlobChannels, Inline, Values
  <2> QED BY <1>4, <1>6, <2>2
<1> QED BY <1>5, <1>6

THEOREM OwnValuesHold == Spec => []OwnValues
<1>1. IInv /\ LInv => OwnValues
  BY OwnPresentReads DEF LInv
<1> QED BY <1>1, Invariance, LocksInvariance, PTL

\* The checkpoint a run continues from stays stored until its thread is deleted.
THEOREM BaseStaysStored == Spec => []BaseStored
<1>1. LInv => BaseStored
  BY DEF LInv
<1> QED BY <1>1, LocksInvariance, PTL

\* Whatever lists the tasks hand to put_writes, however often, and whichever of
\* its statements fails, no attempt is cut: the first is stored whole, and every
\* attempt that stored a row has rows for all its regular writes.
THEOREM AttemptsNotCut == Spec => []NoAttemptCut
<1>1. LInv => NoAttemptCut
  BY DEF LInv
<1> QED BY <1>1, LocksInvariance, PTL

-----------------------------------------------------------------------------
\* What a step may do.

LEMMA OnlyCommitsChangeTables ==
    ASSUME Next, db' # db
    PROVE  \E s \in Savers : Commit(s) \/ CommitLost(s)
<1>1. PICK s \in Savers : Next!(s)
  BY DEF Next
<1>2. ~GetTupleCall(s) /\ ~EndRun(s)
  BY DEF GetTupleCall, GetLatest, GetNone, GetTuple, EndRun
<1>3. ~PutCall(s)
  BY DEF PutCall, Put, PutBlob, PutCheckpoint
<1>4. ~PutWritesCall(s)
  BY DEF PutWritesCall, PutWrites, PutWrite
<1>5. ~DeleteThreadCall(s)
  BY DEF DeleteThreadCall, DeleteThread, DeleteCheckpoints, DeleteBlobs, DeleteWrites
<1>6. ~StatementFails(s) /\ ~Retry(s) /\ ~GiveUp(s) /\ ~Crash(s)
  BY DEF StatementFails, Retry, GiveUp, Crash
<1> QED BY <1>1, <1>2, <1>3, <1>4, <1>5, <1>6 DEF EndTransaction

\* Every saver is at COMMIT only in a call.
LEMMA CommitCall ==
    ASSUME IInv, NEW s \in Savers, Commit(s) \/ CommitLost(s)
    PROVE  s \in DOMAIN call /\ pc[s] = "commit" /\ ServerCommits(s)
BY DEF Commit, CommitLost, IInv, CallShape

LEMMA FirstAttemptStep == IInv /\ LInv /\ [Next]_vars => [KeepsFirstAttempt]_vars
<1> SUFFICES ASSUME IInv, LInv, Next PROVE KeepsFirstAttempt
  OBVIOUS
<1> SUFFICES ASSUME NEW k \in DOMAIN db.writes, k.idx >= 0
             PROVE  \/ k \in DOMAIN db'.writes /\ db'.writes[k] = db.writes[k]
                    \/ \A x \in DOMAIN db'.writes : x.thread # k.thread
  BY DEF KeepsFirstAttempt
<1>1. CASE db' = db
  BY <1>1
<1>2. CASE db' # db
  <2>1. PICK s \in Savers : Commit(s) \/ CommitLost(s)
    BY <1>2, OnlyCommitsChangeTables
  <2>2. s \in DOMAIN call /\ pc[s] = "commit" /\ ServerCommits(s)
    BY <2>1, CommitCall
  <2>3. CASE k \in DOMAIN db'.writes /\ db'.writes[k] = db.writes[k]
    BY <2>3
  <2>4. CASE call[s].op = "delete_thread" /\ k.thread = call[s].thread
    BY <2>2, <2>4, DeleteEmptiesThread DEF Tables
  <2> QED BY <2>2, <2>3, <2>4, CommitKeepsRegular
<1> QED BY <1>1, <1>2

\* Only the saver that takes the step moves on.
LEMMA OneMoves ==
    ASSUME IInv, NEW s \in Savers, Next!(s), NEW r \in Savers, pc'[r] # pc[r]
    PROVE  r = s
<1>1. pc \in [Savers -> Statements \cup {"idle", "raised"}]
  BY DEF IInv, CallShape
<1>2. pc' = pc \/ \E label : Goto(s, label)
  <2>1. CASE GetTupleCall(s) \/ EndRun(s)
    BY <2>1 DEF GetTupleCall, GetLatest, GetNone, GetTuple, EndRun
  <2>2. CASE PutCall(s)
    BY <2>2 DEF PutCall, Put, PutBlob, PutCheckpoint
  <2>3. CASE PutWritesCall(s)
    BY <2>3 DEF PutWritesCall, PutWrites, PutWrite
  <2>4. CASE DeleteThreadCall(s)
    BY <2>4 DEF DeleteThreadCall, DeleteThread, DeleteCheckpoints, DeleteBlobs, DeleteWrites
  <2>5. CASE EndTransaction(s)
    BY <2>5 DEF EndTransaction, Commit, CommitLost, StatementFails
  <2>6. CASE Retry(s)
    <3>1. s \in DOMAIN call /\ call[s].op \in {"put", "put_writes", "delete_thread"}
      BY <2>6 DEF Retry, IInv, CallShape
    <3> QED BY <2>6, <3>1 DEF Retry
  <2>7. CASE GiveUp(s) \/ Crash(s)
    BY <2>7 DEF GiveUp, Crash
  <2> QED BY <2>1, <2>2, <2>3, <2>4, <2>5, <2>6, <2>7
<1> QED BY <1>1, <1>2 DEF Goto

\* A call whose saver is idle after COMMIT, and still has its run, has returned.
LEMMA ReturnCommits ==
    ASSUME IInv, Next, NEW s \in Savers, pc[s] = "commit", pc'[s] = "idle", s \in DOMAIN base'
    PROVE  Commit(s)
<1>1. PICK r \in Savers : Next!(r)
  BY DEF Next
<1>2. r = s
  BY <1>1, OneMoves
<1>3. pc \in [Savers -> Statements \cup {"idle", "raised"}]
  BY DEF IInv, CallShape
<1>4. ~GetTupleCall(s) /\ ~EndRun(s) /\ ~Put(s) /\ ~PutWrites(s) /\ ~DeleteThread(s)
  BY DEF GetTupleCall, GetLatest, GetNone, GetTuple, EndRun, Put, PutWrites, DeleteThread
<1>5. ~PutBlob(s) /\ ~PutCheckpoint(s) /\ ~PutWrite(s)
  BY DEF PutBlob, PutCheckpoint, PutWrite
<1>6. ~DeleteCheckpoints(s) /\ ~DeleteBlobs(s) /\ ~DeleteWrites(s) /\ ~Retry(s) /\ ~GiveUp(s)
  BY DEF DeleteCheckpoints, DeleteBlobs, DeleteWrites, Retry, GiveUp
<1>7. ~CommitLost(s) /\ ~StatementFails(s)
  BY <1>3 DEF CommitLost, StatementFails, Goto
<1>8. ~Crash(s)
  BY DEF Crash, Without
<1> QED
  BY <1>1, <1>2, <1>4, <1>5, <1>6, <1>7, <1>8
  DEF PutCall, PutWritesCall, DeleteThreadCall, EndTransaction

LEMMA ReturnStep == IInv /\ LInv /\ [Next]_vars => [ReturnsStored]_vars
<1> SUFFICES ASSUME IInv, LInv, Next PROVE ReturnsStored
  OBVIOUS
<1> SUFFICES ASSUME NEW s \in Savers, pc[s] = "commit", pc'[s] = "idle", s \in DOMAIN base',
                    call[s].op = "put_writes", NEW j \in DOMAIN call[s].writes
             PROVE  LET c == call[s] IN
                    /\ RowKey(c, j) \in DOMAIN db'.writes
                    /\ Overwrites(c.writes) => \E m \in DOMAIN c.writes :
                         m >= j /\ RowKey(c, m) = RowKey(c, j) /\ db'.writes[RowKey(c, j)] = c.writes[m]
  BY DEF ReturnsStored, RowKey
<1> DEFINE c == call[s]
           ws == c.writes
           k == RowKey(c, j)
<1>1. s \in DOMAIN call /\ ServerCommits(s)
  BY ReturnCommits, CommitCall
<1>2. DOMAIN ws = 1..Len(ws) /\ Len(ws) \in Nat
  BY <1>1, WriteListsAssumption DEF IInv, CallShape
<1>3. WriteProgress(s)
  BY <1>1 DEF LInv, Progress, ProgressOf
<1>4. c.next = Len(ws) + 1
  BY <1>3 DEF WriteProgress
<1>5. c.next - 1 = Len(ws)
  BY <1>2, <1>4
<1>6. /\ k \in DOMAIN db.writes \cup DOMAIN tx[s].writes.set
      /\ Overwrites(ws) =>
           /\ k \in DOMAIN tx[s].writes.set
           /\ \E m \in j..Len(ws) : RowKey(c, m) = k /\ tx[s].writes.set[k] = ws[m]
  BY <1>2, <1>3, <1>5 DEF WriteProgress
<1> HIDE DEF k
<1>7. k \in DOMAIN db'.writes
  BY <1>1, <1>6, CommitEffect, InsertsKeepRows DEF Tables
<1>8. ASSUME Overwrites(ws)
      PROVE  \E m \in DOMAIN ws : m >= j /\ RowKey(c, m) = k /\ db'.writes[k] = ws[m]
  <2>1. PICK m \in j..Len(ws) : RowKey(c, m) = k /\ tx[s].writes.set[k] = ws[m]
    BY <1>6, <1>8
  <2>2. m \in DOMAIN ws /\ m >= j
    BY <1>2
  <2>3. db'.writes[k] = tx[s].writes.set[k]
    BY <1>1, <1>6, <1>7, <1>8, CommitEffect DEF Tables
  <2> QED BY <2>1, <2>2, <2>3
<1> QED BY <1>7, <1>8 DEF k

LEMMA DeletedStep == IInv /\ LInv /\ [Next]_vars => [LeavesNothing]_vars
<1> SUFFICES ASSUME IInv, LInv PROVE LeavesNothing
  OBVIOUS
<1> QED BY CommitCall, DeleteEmptiesThread DEF LeavesNothing

LEMMA LatestStep == IInv /\ LInv /\ [Next]_vars => [NeverOlder]_vars
<1> SUFFICES ASSUME IInv, LInv PROVE NeverOlder
  OBVIOUS
<1> SUFFICES ASSUME NEW s \in DOMAIN base, NEW t \in Threads, NEW n \in Namespaces, GetLatest(s, t, n),
                    base[s].thread = t, base[s].ns = n, base[s].id \notin severed
             PROVE  base'[s].id >= base[s].id
  BY DEF NeverOlder
<1>1. PICK i \in Latest(t, n) : StartFrom(s, t, n, i)
  BY DEF GetLatest
<1>2. base'[s].id = i /\ i \in Ids /\ \A j \in StoredIds(t, n) : j <= i
  BY <1>1 DEF StartFrom, With, Latest, StoredIds
<1>3. base[s].id \in DOMAIN asked \cup {NoId} /\ DOMAIN asked \subseteq Ids
  BY DEF IInv, BaseShape, AskedShape
<1>4. CASE base[s].id = NoId
  BY <1>2, <1>4 DEF NoId
<1>5. CASE base[s].id # NoId
  <2>1. base[s].id \in StoredIds(t, n)
    BY <1>3, <1>5 DEF LInv, BaseStored, StoredIds
  <2> QED BY <1>2, <2>1 DEF StoredIds
<1> QED BY <1>4, <1>5

\* A regular write is never replaced by a later attempt of its task: put_writes
\* inserts with IGNORE, and holds the row until it commits.
THEOREM FirstAttemptNeverReplaced == Spec => FirstAttemptStays
BY Invariance, LocksInvariance, FirstAttemptStep, PTL DEF Spec, FirstAttemptStays

\* When put_writes returns, each of its writes has its row, and lists of special
\* channels have replaced what was there.
THEOREM ReturnedWritesAreStored == Spec => ReturnedWritesStored
BY Invariance, LocksInvariance, ReturnStep, PTL DEF Spec, ReturnedWritesStored

\* delete_thread leaves no row of its thread, whatever the other savers put
\* while its three statements ran.
THEOREM DeleteLeavesNothing == Spec => DeletedThreadIsGone
BY Invariance, LocksInvariance, DeletedStep, PTL DEF Spec, DeletedThreadIsGone

\* get_tuple without an id never answers a run with something older than what
\* it holds, unless the thread was deleted.
THEOREM LatestOnlyMovesForward == Spec => LatestMovesForward
BY Invariance, LocksInvariance, LatestStep, PTL DEF Spec, LatestMovesForward

-----------------------------------------------------------------------------
\* The third part of the inductive invariant.

\* No thread is deleted under a run, so nothing that is stored or in use is
\* cut off.
NothingSevered ==
    /\ \A s \in DOMAIN base : base[s].id \notin severed
    /\ \A k \in DOMAIN db.checkpoints : k.id \notin severed
    /\ \A s \in DOMAIN call :
         /\ call[s].op = "put" => call[s].id \notin severed
         /\ call[s].op = "delete_thread" => \A r \in DOMAIN base : base[r].thread # call[s].thread

\* A put continues the checkpoint of its run, and the writes of a put_writes
\* belong to it.
CallsOfRuns ==
    \A s \in DOMAIN call :
        /\ call[s].op = "put" => asked[call[s].id].parent = base[s].id
        /\ call[s].op = "put_writes" =>
             /\ s \in DOMAIN base /\ base[s].id # NoId
             /\ call[s].thread = base[s].thread /\ call[s].ns = base[s].ns
             /\ call[s].id = base[s].id /\ call[s].task \in Tasks

\* A checkpoint row names the parent its put was given.
Parents ==
    /\ \A k \in DOMAIN db.checkpoints : db.checkpoints[k].parent = asked[k.id].parent
    /\ \A s \in Savers : \A k \in DOMAIN tx[s].checkpoints.set :
         tx[s].checkpoints.set[k].parent = asked[k.id].parent

FunctionTables == db.writes = [k \in DOMAIN db.writes |-> db.writes[k]]

\* Of the writes up to position n that share a row: the last one wins if the
\* list overwrites, the first one otherwise.
Wins(ws, n, j) ==
    \A m \in 1..n : WriteIdx(ws, m) = WriteIdx(ws, j) => IF Overwrites(ws) THEN m <= j ELSE j <= m

\* What a put_writes has added so far is what it adds in the history.
WriteValues(s) ==
    LET c == call[s]
        log == tx[s].writes
        n == c.next - 1
    IN
    /\ ~Overwrites(c.writes) => \A k \in DOMAIN log.set : k \notin DOMAIN db.writes
    /\ \A j \in 1..n : \E m \in 1..n :
         /\ WriteIdx(c.writes, m) = WriteIdx(c.writes, j)
         /\ Wins(c.writes, n, m)
         /\ RowKey(c, m) \in DOMAIN log.set => log.set[RowKey(c, m)] = c.writes[m]

WritesInOrder ==
    \A s \in DOMAIN call : call[s].op = "put_writes" /\ pc[s] # "raised" => WriteValues(s)

RInv == NothingSevered /\ CallsOfRuns /\ Parents /\ FunctionTables /\ WritesInOrder

-----------------------------------------------------------------------------
\* What a step leaves alone stays as it is.

\* The same call, perhaps at another of its statements.
SameCall(c, d) ==
    /\ d.op = c.op
    /\ c.op = "put" => d.id = c.id
    /\ c.op = "put_writes" => /\ d.thread = c.thread /\ d.ns = c.ns /\ d.id = c.id
                              /\ d.task = c.task
    /\ c.op = "delete_thread" => d.thread = c.thread

\* Runs and calls that go on, or end.
LEMMA RunsGoOn ==
    ASSUME IInv, RInv, UNCHANGED <<asked, severed>>, DOMAIN db'.checkpoints = DOMAIN db.checkpoints,
           DOMAIN base' \subseteq DOMAIN base, \A r \in DOMAIN base' : base'[r] = base[r],
           \A r \in DOMAIN call' : /\ r \in DOMAIN call /\ SameCall(call[r], call'[r])
                                   /\ r \in DOMAIN base => r \in DOMAIN base'
    PROVE  NothingSevered' /\ CallsOfRuns'
<1>1. NothingSevered'
  BY DEF RInv, NothingSevered, SameCall
<1>2. CallsOfRuns'
  <2> SUFFICES ASSUME NEW r \in DOMAIN call'
               PROVE  /\ call'[r].op = "put" => asked[call'[r].id].parent = base'[r].id
                      /\ call'[r].op = "put_writes" =>
                           /\ r \in DOMAIN base' /\ base'[r].id # NoId
                           /\ call'[r].thread = base'[r].thread /\ call'[r].ns = base'[r].ns
                           /\ call'[r].id = base'[r].id /\ call'[r].task \in Tasks
    BY DEF CallsOfRuns
  <2>1. call'[r].op = "put" => r \in DOMAIN base
    BY DEF IInv, CallShape, SameCall
  <2> QED BY <2>1 DEF RInv, CallsOfRuns, SameCall
<1> QED BY <1>1, <1>2

\* Parents, as long as no transaction adds a checkpoint.
LEMMA ParentsStay ==
    ASSUME IInv, RInv, db' = db, \A i \in DOMAIN asked : i \in DOMAIN asked' /\ asked'[i] = asked[i],
           \A r \in Savers : \/ tx'[r].checkpoints = tx[r].checkpoints
                             \/ tx'[r].checkpoints.set = tx[r].checkpoints.set
                             \/ DOMAIN tx'[r].checkpoints.set = {}
    PROVE  Parents' /\ FunctionTables'
<1>1. \A k \in DOMAIN db.checkpoints : k.id \in DOMAIN asked
  BY DEF IInv, RowsOK, CheckpointRow
<1>2. \A r \in Savers : \A k \in DOMAIN tx[r].checkpoints.set : k.id \in DOMAIN asked
  BY DEF IInv, PendingOK, CheckpointRow
<1>3. \A r \in Savers : \A k \in DOMAIN tx'[r].checkpoints.set :
        tx'[r].checkpoints.set[k].parent = asked'[k.id].parent
  BY <1>2 DEF RInv, Parents
<1> QED BY <1>1, <1>3 DEF RInv, Parents, FunctionTables

\* The writes of a saver, while the rows it has locked stay stored or missing.
LEMMA WriteValuesStay ==
    ASSUME IInv, LInv, RInv, NEW r \in DOMAIN call, call[r].op = "put_writes", pc[r] # "raised",
           tx'[r] = tx[r], call'[r] = call[r],
           \A k \in tx[r].writes.rows : k \in DOMAIN db'.writes => k \in DOMAIN db.writes
    PROVE  WriteValues(r)'
<1>1. r \in Savers
  BY DEF IInv, CallShape
<1>2. WriteValues(r)
  BY DEF RInv, WritesInOrder
<1>3. DOMAIN tx[r].writes.set \subseteq tx[r].writes.rows
  BY <1>1 DEF LInv, TableLocks, ChangesLocked, Tables
<1> QED BY <1>2, <1>3 DEF WriteValues, RowKey

LEMMA OthersInOrder ==
    ASSUME IInv, LInv, RInv, NEW s \in Savers,
           \A r \in Savers \ {s} : /\ tx'[r] = tx[r] /\ pc'[r] = pc[r]
                                   /\ r \in DOMAIN call' <=> r \in DOMAIN call
                                   /\ r \in DOMAIN call => call'[r] = call[r],
           \A r \in Savers \ {s} : \A k \in tx[r].writes.rows :
               k \in DOMAIN db'.writes => k \in DOMAIN db.writes,
           DOMAIN call' \subseteq Savers,
           s \in DOMAIN call' /\ call'[s].op = "put_writes" /\ pc'[s] # "raised" => WriteValues(s)'
    PROVE  WritesInOrder'
BY WriteValuesStay DEF WritesInOrder

\* A call that has executed no statement.
LEMMA WritesBegin ==
    ASSUME NEW s \in Savers, tx'[s] = NoTx, call'[s].next = 1
    PROVE  WriteValues(s)'
<1>1. tx'[s].writes.set = Empty /\ DOMAIN Empty = {}
  BY DEF NoTx, NoChange, Tables, Empty
<1>2. 1..(call'[s].next - 1) = {}
  OBVIOUS
<1> QED BY <1>1, <1>2 DEF WriteValues

-----------------------------------------------------------------------------
\* One lemma per action or group of actions.

\* A run never starts from a thread that is being deleted.
LEMMA GetKeepsRInv ==
    ASSUME Exclusive, IInv, LInv, RInv, IInv', NEW s \in Savers, GetTupleCall(s)
    PROVE  RInv'
<1>1. PICK t \in Threads, n \in Namespaces :
        GetLatest(s, t, n) \/ GetNone(s, t, n) \/ \E i \in Ids : GetTuple(s, t, n, i)
  BY DEF GetTupleCall
<1>2. pc[s] = "idle" /\ UNCHANGED <<db, tx, pc, call, asked, severed>> /\ MayUse(t)
  BY <1>1 DEF GetLatest, GetNone, GetTuple
<1>3. s \notin DOMAIN call /\ DOMAIN call \subseteq Savers
  BY <1>2 DEF IInv, CallShape
<1>4. PICK b : base' = With(base, s, b) /\ b.thread = t /\ b.id \notin severed
  <2>1. CASE GetNone(s, t, n)
    <3>1. NoId \notin severed
      BY DEF IInv, AskedShape, SeveredShape
    <3> QED BY <2>1, <3>1 DEF GetNone
  <2>2. CASE GetLatest(s, t, n) \/ \E i \in Ids : GetTuple(s, t, n, i)
    <3>1. PICK i \in StoredIds(t, n) : StartFrom(s, t, n, i)
      BY <2>2 DEF GetLatest, GetTuple, Latest
    <3>2. [thread |-> t, ns |-> n, id |-> i] \in DOMAIN db.checkpoints
      BY <3>1 DEF StoredIds
    <3>3. i \notin severed
      BY <3>2 DEF RInv, NothingSevered
    <3> QED BY <3>1, <3>3 DEF StartFrom
  <2> QED BY <1>1, <2>1, <2>2
<1>5. /\ DOMAIN base' = DOMAIN base \cup {s} /\ base'[s] = b
      /\ \A r \in DOMAIN base : r # s => base'[r] = base[r]
  BY <1>4 DEF With
<1>6. NothingSevered'
  <2>1. \A r \in DOMAIN base' : base'[r].id \notin severed
    BY <1>4, <1>5 DEF RInv, NothingSevered
  <2>2. \A q \in DOMAIN call : call[q].op = "delete_thread" => call[q].thread # t
    BY <1>2 DEF MayUse
  <2>3. \A q \in DOMAIN call : call[q].op = "delete_thread" =>
          \A r \in DOMAIN base' : base'[r].thread # call[q].thread
    BY <1>4, <1>5, <2>2 DEF RInv, NothingSevered
  <2> QED BY <1>2, <2>1, <2>3 DEF RInv, NothingSevered
<1>7. CallsOfRuns'
  <2>1. \A r \in DOMAIN call : call[r].op = "put" => r \in DOMAIN base
    BY DEF IInv, CallShape
  <2> QED BY <1>2, <1>3, <1>5, <2>1 DEF RInv, CallsOfRuns
<1>8. Parents' /\ FunctionTables'
  BY <1>2, ParentsStay
<1>9. WritesInOrder'
  BY <1>2, <1>3, OthersInOrder
<1> QED BY <1>6, <1>7, <1>8, <1>9 DEF RInv

LEMMA EndRunKeepsRInv ==
    ASSUME IInv, LInv, RInv, NEW s \in Savers, EndRun(s)
    PROVE  RInv'
<1>1. pc[s] = "idle" /\ base' = Without(base, {s}) /\ UNCHANGED <<db, tx, pc, call, asked, severed>>
  BY DEF EndRun
<1>2. s \notin DOMAIN call /\ DOMAIN call \subseteq Savers
  BY <1>1 DEF IInv, CallShape
<1>3. DOMAIN base' = DOMAIN base \ {s} /\ \A r \in DOMAIN base' : base'[r] = base[r]
  BY <1>1 DEF Without
<1>4. NothingSevered' /\ CallsOfRuns'
  BY <1>1, <1>2, <1>3, RunsGoOn DEF SameCall
<1>5. Parents' /\ FunctionTables' /\ WritesInOrder'
  BY <1>1, <1>2, ParentsStay, OthersInOrder
<1> QED BY <1>4, <1>5 DEF RInv

\* put names the checkpoint of its run as the parent.
LEMMA PutKeepsRInv ==
    ASSUME IInv, LInv, RInv, IInv', NEW s \in Savers, Put(s)
    PROVE  RInv'
<1>1. pc[s] = "idle" /\ UNCHANGED <<db, tx, base>> /\ s \in DOMAIN base
  BY DEF Put
<1>2. PICK i \in Ids : \E a :
        /\ DOMAIN asked = {j \in Ids : j < i} /\ a.parent = base[s].id
        /\ asked' = With(asked, i, a)
        /\ call' = With(call, s, [op |-> "put", id |-> i, todo |-> BlobChannels(a)])
        /\ Goto(s, PutStart(a))
        /\ severed' = IF base[s].id \in severed THEN severed \cup {i} ELSE severed
  BY DEF Put, NextCheckpoint
<1>3. PICK a :
        /\ DOMAIN asked = {j \in Ids : j < i} /\ a.parent = base[s].id
        /\ asked' = With(asked, i, a)
        /\ call' = With(call, s, [op |-> "put", id |-> i, todo |-> BlobChannels(a)])
        /\ Goto(s, PutStart(a))
        /\ severed' = IF base[s].id \in severed THEN severed \cup {i} ELSE severed
  BY <1>2
<1> DEFINE c == [op |-> "put", id |-> i, todo |-> BlobChannels(a)]
<1>4. i \notin DOMAIN asked /\ i \notin severed
  BY <1>3 DEF IInv, SeveredShape
<1>5. asked'[i] = a /\ \A j \in DOMAIN asked : j \in DOMAIN asked' /\ asked'[j] = asked[j]
  BY <1>3, <1>4 DEF With
<1>6. severed' = severed
  BY <1>1, <1>3 DEF RInv, NothingSevered
<1>7. c.op = "put" /\ c.id = i /\ call' = With(call, s, c) /\ Goto(s, PutStart(a))
  BY <1>3
<1> HIDE DEF c
<1>8. /\ pc'[s] = PutStart(a) /\ s \in DOMAIN call' /\ call'[s] = c
      /\ \A r \in Savers \ {s} : /\ pc'[r] = pc[r]
                                 /\ r \in DOMAIN call' <=> r \in DOMAIN call
                                 /\ r \in DOMAIN call => call'[r] = call[r]
  BY <1>7, OthersCalls
<1>9. DOMAIN call' \subseteq Savers
  BY DEF IInv, CallShape
<1>10. NothingSevered'
  BY <1>1, <1>4, <1>6, <1>7, <1>8, <1>9 DEF RInv, NothingSevered
<1>11. CallsOfRuns'
  <2>1. \A r \in DOMAIN call : call[r].op = "put" => call[r].id \in DOMAIN asked
    BY DEF IInv, CallShape
  <2> SUFFICES ASSUME NEW r \in DOMAIN call'
               PROVE  /\ call'[r].op = "put" => asked'[call'[r].id].parent = base[r].id
                      /\ call'[r].op = "put_writes" =>
                           /\ r \in DOMAIN base /\ base[r].id # NoId
                           /\ call'[r].thread = base[r].thread /\ call'[r].ns = base[r].ns
                           /\ call'[r].id = base[r].id /\ call'[r].task \in Tasks
    BY <1>1 DEF CallsOfRuns
  <2>2. CASE r = s
    BY <1>3, <1>5, <1>7, <1>8, <2>2
  <2>3. CASE r # s
    <3>1. r \in DOMAIN call /\ call'[r] = call[r]
      BY <1>8, <1>9, <2>3
    <3> QED BY <1>5, <2>1, <3>1 DEF RInv, CallsOfRuns
  <2> QED BY <2>2, <2>3
<1>12. Parents' /\ FunctionTables'
  BY <1>1, <1>5, ParentsStay
<1>13. WritesInOrder'
  BY <1>1, <1>7, <1>8, <1>9, OthersInOrder
<1> QED BY <1>10, <1>11, <1>12, <1>13 DEF RInv

LEMMA PutWritesKeepsRInv ==
    ASSUME IInv, LInv, RInv, IInv', NEW s \in Savers, PutWrites(s)
    PROVE  RInv'
<1>1. /\ pc[s] = "idle" /\ UNCHANGED <<db, tx, base, asked, severed>>
      /\ s \in DOMAIN base /\ base[s].id # NoId
  BY DEF PutWrites
<1>2. PICK tk \in Tasks, ws \in WriteLists :
         /\ call' = With(call, s,
              [op |-> "put_writes", thread |-> base[s].thread, ns |-> base[s].ns,
               id |-> base[s].id, task |-> tk, writes |-> ws, next |-> 1])
         /\ Goto(s, IF ws = <<>> THEN "commit" ELSE "writes")
  BY DEF PutWrites
<1> DEFINE c == [op |-> "put_writes", thread |-> base[s].thread, ns |-> base[s].ns,
                 id |-> base[s].id, task |-> tk, writes |-> ws, next |-> 1]
           label == IF ws = <<>> THEN "commit" ELSE "writes"
<1>3. /\ c.op = "put_writes" /\ c.next = 1 /\ c.thread = base[s].thread /\ c.ns = base[s].ns
      /\ c.id = base[s].id /\ c.task = tk
  OBVIOUS
<1>4. call' = With(call, s, c) /\ Goto(s, label)
  BY <1>2
<1> HIDE DEF c, label
<1>5. /\ pc'[s] = label /\ s \in DOMAIN call' /\ call'[s] = c
      /\ \A r \in Savers \ {s} : /\ pc'[r] = pc[r]
                                 /\ r \in DOMAIN call' <=> r \in DOMAIN call
                                 /\ r \in DOMAIN call => call'[r] = call[r]
  BY <1>4, OthersCalls
<1>6. DOMAIN call' \subseteq Savers
  BY DEF IInv, CallShape
<1>7. NothingSevered' /\ CallsOfRuns'
  BY <1>1, <1>3, <1>5, <1>6 DEF RInv, NothingSevered, CallsOfRuns
<1>8. tx'[s] = NoTx
  BY <1>1 DEF LInv, TxOfCall, TxOf
<1>9. WritesInOrder'
  BY <1>1, <1>3, <1>5, <1>6, <1>8, WritesBegin, OthersInOrder
<1> QED BY <1>1, <1>7, <1>9, ParentsStay DEF RInv

\* A thread is deleted only while no run holds a checkpoint of it.
LEMMA DeleteThreadKeepsRInv ==
    ASSUME Exclusive, IInv, LInv, RInv, IInv', NEW s \in Savers, DeleteThread(s)
    PROVE  RInv'
<1>1. pc[s] = "idle" /\ UNCHANGED <<db, tx, base, asked, severed>>
  BY DEF DeleteThread
<1>2. PICK t \in Threads : MayDelete(t) /\ call' = With(call, s, [op |-> "delete_thread", thread |-> t])
  BY DEF DeleteThread
<1> DEFINE c == [op |-> "delete_thread", thread |-> t]
<1>3. c.op = "delete_thread" /\ c.thread = t
  OBVIOUS
<1>4. call' = With(call, s, c) /\ Goto(s, "delete_checkpoints")
  BY <1>2 DEF DeleteThread
<1> HIDE DEF c
<1>5. /\ s \in DOMAIN call' /\ call'[s] = c
      /\ \A r \in Savers \ {s} : /\ pc'[r] = pc[r]
                                 /\ r \in DOMAIN call' <=> r \in DOMAIN call
                                 /\ r \in DOMAIN call => call'[r] = call[r]
  BY <1>4, OthersCalls
<1>6. DOMAIN call' \subseteq Savers
  BY DEF IInv, CallShape
<1>7. NothingSevered'
  BY <1>1, <1>2, <1>3, <1>5, <1>6 DEF RInv, NothingSevered, MayDelete
<1>8. CallsOfRuns'
  BY <1>1, <1>3, <1>5, <1>6 DEF RInv, CallsOfRuns
<1>9. WritesInOrder'
  BY <1>1, <1>3, <1>5, <1>6, OthersInOrder
<1> QED BY <1>1, <1>7, <1>8, <1>9, ParentsStay DEF RInv

LEMMA RetryKeepsRInv ==
    ASSUME IInv, LInv, RInv, IInv', NEW s \in Savers, Retry(s)
    PROVE  RInv'
<1>1. pc[s] = "raised" /\ UNCHANGED <<db, tx, base, asked, severed>> /\ s \in DOMAIN call
  BY DEF Retry, IInv, CallShape
<1>2. pc \in [Savers -> Statements \cup {"idle", "raised"}] /\ DOMAIN call \subseteq Savers
  BY DEF IInv, CallShape
<1>3. /\ DOMAIN call' = DOMAIN call /\ \A r \in DOMAIN call \ {s} : call'[r] = call[r]
      /\ \A r \in Savers \ {s} : pc'[r] = pc[r]
      /\ SameCall(call[s], call'[s])
      /\ call'[s].op = "put_writes" => call'[s].next = 1
  <2>1. CASE call[s].op = "put"
    <3> DEFINE d == [call[s] EXCEPT !.todo = BlobChannels(asked[call[s].id])]
               label == PutStart(asked[call[s].id])
    <3>1. call' = [call EXCEPT ![s] = d] /\ pc' = [pc EXCEPT ![s] = label]
      BY <2>1 DEF Retry, Goto
    <3>2. DOMAIN call[s] = {"op", "id", "todo"}
      BY <1>1, <2>1 DEF IInv, CallShape
    <3>3. d.op = "put" /\ d.id = call[s].id
      BY <2>1, <3>2
    <3> HIDE DEF d, label
    <3> QED BY <1>1, <1>2, <2>1, <3>1, <3>3 DEF SameCall
  <2>2. CASE call[s].op = "put_writes"
    <3> DEFINE d == [call[s] EXCEPT !.next = 1]
               label == IF call[s].writes = <<>> THEN "commit" ELSE "writes"
    <3>1. call' = [call EXCEPT ![s] = d] /\ pc' = [pc EXCEPT ![s] = label]
      BY <2>2 DEF Retry, Goto
    <3>2. DOMAIN call[s] = {"op", "thread", "ns", "id", "task", "writes", "next"}
      BY <1>1, <2>2 DEF IInv, CallShape
    <3>3. /\ d.op = "put_writes" /\ d.thread = call[s].thread /\ d.ns = call[s].ns
          /\ d.id = call[s].id /\ d.task = call[s].task /\ d.next = 1
      BY <2>2, <3>2
    <3> HIDE DEF d, label
    <3> QED BY <1>1, <1>2, <2>2, <3>1, <3>3 DEF SameCall
  <2>3. CASE call[s].op = "delete_thread"
    BY <1>1, <1>2, <2>3 DEF Retry, Goto, SameCall
  <2> QED BY <1>1, <2>1, <2>2, <2>3 DEF IInv, CallShape
<1>4. NothingSevered' /\ CallsOfRuns'
  BY <1>1, <1>3, RunsGoOn DEF SameCall
<1>5. tx'[s] = NoTx
  BY <1>1, <1>2 DEF LInv, TxOfCall, TxOf
<1>6. WritesInOrder'
  BY <1>1, <1>2, <1>3, <1>5, WritesBegin, OthersInOrder
<1> QED BY <1>1, <1>4, <1>6, ParentsStay DEF RInv

\* The end of a call that did not commit.
LEMMA LeaveKeepsRInv ==
    ASSUME IInv, LInv, RInv, NEW s \in Savers, GiveUp(s) \/ StatementFails(s) \/ Crash(s)
    PROVE  RInv'
<1>1. /\ UNCHANGED <<db, asked, severed>>
      /\ tx' = tx \/ tx' = [tx EXCEPT ![s] = NoTx]
      /\ \/ Goto(s, "raised") /\ call' = call /\ base' = base
         \/ Goto(s, "idle") /\ call' = Without(call, {s}) /\ base' = Without(base, {s})
  BY DEF GiveUp, StatementFails, Crash
<1>2. \A r \in Savers \ {s} : tx'[r] = tx[r]
  BY <1>1 DEF IInv, TxShape
<1>3. tx'[s] = tx[s] \/ tx'[s] = NoTx
  BY <1>1 DEF IInv, TxShape
<1>4. /\ s \in DOMAIN call' => pc'[s] = "raised"
      /\ \A r \in Savers \ {s} : /\ pc'[r] = pc[r]
                                 /\ r \in DOMAIN call' <=> r \in DOMAIN call
                                 /\ r \in DOMAIN call => call'[r] = call[r]
  BY <1>1, OthersCalls, OthersGoOn
<1>5. /\ DOMAIN call \subseteq Savers /\ DOMAIN call' \subseteq DOMAIN call
      /\ DOMAIN base' \subseteq DOMAIN base /\ \A r \in DOMAIN base' : base'[r] = base[r]
      /\ \A r \in DOMAIN call' : call'[r] = call[r] /\ (r \in DOMAIN base => r \in DOMAIN base')
  BY <1>1 DEF Without, IInv, CallShape
<1>6. NothingSevered' /\ CallsOfRuns'
  BY <1>1, <1>5, RunsGoOn DEF SameCall
<1>7. Parents' /\ FunctionTables'
  BY <1>1, <1>2, <1>3, NoTxLocks, ParentsStay DEF Tables
<1>8. WritesInOrder'
  BY <1>1, <1>2, <1>4, <1>5, OthersInOrder
<1> QED BY <1>6, <1>7, <1>8 DEF RInv

-----------------------------------------------------------------------------
\* Statements.

\* A statement of s that adds neither a checkpoint nor a write.
LEMMA StatementKeepsRInv ==
    ASSUME IInv, LInv, RInv, NEW s \in DOMAIN call, UNCHANGED <<db, base, asked, severed>>,
           \A r \in Savers \ {s} : /\ tx'[r] = tx[r] /\ pc'[r] = pc[r]
                                   /\ r \in DOMAIN call' <=> r \in DOMAIN call
                                   /\ r \in DOMAIN call => call'[r] = call[r],
           DOMAIN call' = DOMAIN call, SameCall(call[s], call'[s]),
           Parents', call[s].op = "put_writes" => WriteValues(s)'
    PROVE  RInv'
<1>1. DOMAIN call \subseteq Savers
  BY DEF IInv, CallShape
<1>2. NothingSevered' /\ CallsOfRuns'
  BY <1>1, RunsGoOn DEF SameCall
<1>3. WritesInOrder'
  BY <1>1, OthersInOrder DEF SameCall
<1>4. FunctionTables'
  BY DEF RInv, FunctionTables
<1> QED BY <1>2, <1>3, <1>4 DEF RInv

LEMMA PutBlobKeepsRInv ==
    ASSUME IInv, LInv, RInv, NEW s \in Savers, PutBlob(s)
    PROVE  RInv'
<1> DEFINE a == asked[call[s].id]
<1>1. PICK ch \in call[s].todo :
        /\ InsertIgnore(s, "blobs", OwnBlobKey(a, ch), a.vals[ch])
        /\ call' = [call EXCEPT ![s].todo = @ \ {ch}]
        /\ Goto(s, IF call[s].todo = {ch} THEN "checkpoint" ELSE "blobs")
  BY DEF PutBlob, OwnBlobKey
<1> DEFINE label == IF call[s].todo = {ch} THEN "checkpoint" ELSE "blobs"
           c == [call[s] EXCEPT !.todo = call[s].todo \ {ch}]
<1>2. pc[s] = "blobs" /\ UNCHANGED <<db, base, asked, severed>>
  BY DEF PutBlob
<1>3. /\ s \in DOMAIN call /\ call[s].op = "put" /\ DOMAIN call[s] = {"op", "id", "todo"}
  BY <1>2 DEF IInv, CallShape
<1>4. call' = [call EXCEPT ![s] = c] /\ Goto(s, label)
  BY <1>1
<1>5. SameCall(call[s], c)
  BY <1>3 DEF SameCall
<1>6. Inserted(s, "blobs", OwnBlobKey(a, ch), a.vals[ch])
  BY <1>1, IgnoreInserts DEF IInv, Tables
<1> HIDE DEF c, label
<1>7. /\ DOMAIN call' = DOMAIN call /\ call'[s] = c
      /\ \A r \in Savers \ {s} : /\ pc'[r] = pc[r]
                                 /\ r \in DOMAIN call' <=> r \in DOMAIN call
                                 /\ r \in DOMAIN call => call'[r] = call[r]
  <2>1. call'[s] = c
    BY <1>3, <1>4
  <2> QED BY <1>4, <2>1, OthersGoOn
<1>8. (\A r \in Savers \ {s} : tx'[r] = tx[r]) /\ tx'[s].checkpoints = tx[s].checkpoints
  BY <1>6 DEF Inserted, Tables
<1>9. Parents'
  BY <1>2, <1>8, ParentsStay
<1> QED BY <1>2, <1>3, <1>5, <1>7, <1>8, <1>9, StatementKeepsRInv

\* The checkpoint row keeps the parent it has, which is that of its put.
LEMMA PutCheckpointKeepsRInv ==
    ASSUME IInv, LInv, RInv, NEW s \in Savers, PutCheckpoint(s)
    PROVE  RInv'
<1> DEFINE i == call[s].id
           a == asked[i]
           k == [thread |-> a.thread, ns |-> a.ns, id |-> i]
           seen == Seen(s, "checkpoints")
           row == [parent |-> IF k \in DOMAIN seen THEN seen[k].parent ELSE a.parent,
                   vers |-> a.vers, inline |-> Inline(a)]
<1>1. /\ pc[s] = "checkpoint" /\ UNCHANGED <<db, call, base, asked, severed>> /\ Goto(s, "commit")
      /\ Upsert(s, "checkpoints", k, row)
  BY DEF PutCheckpoint
<1>2. s \in DOMAIN call /\ call[s].op = "put"
  BY <1>1 DEF IInv, CallShape
<1>3. k.id = i /\ row.parent = IF k \in DOMAIN seen THEN seen[k].parent ELSE a.parent
  OBVIOUS
<1> HIDE DEF k, row
<1>4. row.parent = a.parent
  <2>1. k \in DOMAIN seen => seen[k].parent = asked[k.id].parent
    BY DEF Seen, Applied, RInv, Parents
  <2> QED BY <1>3, <2>1
<1>5. /\ \A r \in Savers \ {s} : tx'[r] = tx[r]
      /\ tx'[s].checkpoints.set = With(tx[s].checkpoints.set, k, row)
  BY <1>1, UpsertInserts DEF Inserted, IInv, Tables
<1>6. tx'[s].writes = tx[s].writes
  BY <1>1, UpsertInserts DEF Inserted, IInv, Tables
<1>7. Parents'
  <2>1. \A x \in DOMAIN tx'[s].checkpoints.set : tx'[s].checkpoints.set[x].parent = asked[x.id].parent
    BY <1>3, <1>4, <1>5 DEF With, RInv, Parents
  <2>2. \A r \in Savers : \A x \in DOMAIN tx'[r].checkpoints.set :
          tx'[r].checkpoints.set[x].parent = asked[x.id].parent
    BY <1>5, <2>1 DEF RInv, Parents
  <2> QED BY <1>1, <2>2 DEF RInv, Parents
<1>8. \A r \in Savers \ {s} : pc'[r] = pc[r]
  BY <1>1, OthersGoOn
<1> QED BY <1>1, <1>2, <1>5, <1>7, <1>8, StatementKeepsRInv DEF SameCall

LEMMA DeleteKeepsRInv ==
    ASSUME IInv, LInv, RInv, NEW s \in Savers,
           DeleteCheckpoints(s) \/ DeleteBlobs(s) \/ DeleteWrites(s)
    PROVE  RInv'
<1>1. PICK tb \in Tables, label \in {"delete_blobs", "delete_writes", "commit"} :
        /\ pc[s] \in {"delete_checkpoints", "delete_blobs", "delete_writes"}
        /\ DeleteWhereThread(s, tb, call[s].thread) /\ Goto(s, label)
        /\ UNCHANGED <<db, call, base, asked, severed>>
  BY DEF DeleteCheckpoints, DeleteBlobs, DeleteWrites, Tables
<1>2. s \in DOMAIN call /\ call[s].op = "delete_thread"
  BY <1>1 DEF IInv, CallShape
<1>3. Deletes(s, tb, call[s].thread)
  BY <1>1, DeleteDeletes DEF IInv
<1>4. (\A r \in Savers \ {s} : tx'[r] = tx[r]) /\ tx'[s].checkpoints.set = tx[s].checkpoints.set
  BY <1>3 DEF Deletes, Tables
<1>5. Parents'
  BY <1>1, <1>4, ParentsStay
<1>6. \A r \in Savers \ {s} : pc'[r] = pc[r]
  BY <1>1, OthersGoOn
<1> QED BY <1>1, <1>2, <1>4, <1>5, <1>6, StatementKeepsRInv DEF SameCall

\* Rows of one call are told apart by their idx.
LEMMA SameRowKey ==
    ASSUME NEW c, NEW j, NEW m
    PROVE  RowKey(c, j) = RowKey(c, m) <=> WriteIdx(c.writes, j) = WriteIdx(c.writes, m)
<1>1. RowKey(c, j).idx = WriteIdx(c.writes, j) /\ RowKey(c, m).idx = WriteIdx(c.writes, m)
  BY RowKeyFields
<1> QED BY <1>1 DEF RowKey, WriteKey

\* put_writes goes on to its next write: a list that overwrites has the last
\* write of each row, any other list the first one, if the row is new.
LEMMA WriteValuesStep ==
    ASSUME NEW s \in DOMAIN call, WriteProgress(s), WriteValues(s), NEW c, NEW log,
           c.next = call[s].next + 1, c.writes = call[s].writes,
           \A j : RowKey(c, j) = RowKey(call[s], j),
           call'[s] = c, tx'[s].writes = log, db' = db,
           NEW k, k = RowKey(c, call[s].next),
           \/ log.set = With(tx[s].writes.set, k, c.writes[call[s].next])
              /\ (Overwrites(c.writes) \/ k \notin DOMAIN db.writes \cup DOMAIN tx[s].writes.set)
           \/ log.set = tx[s].writes.set /\ k \in DOMAIN db.writes \cup DOMAIN tx[s].writes.set
              /\ ~Overwrites(c.writes)
    PROVE  WriteValues(s)'
<1> DEFINE n == call[s].next
           ws == c.writes
           old == tx[s].writes.set
<1>1. n \in Nat \ {0} /\ c.next - 1 = n
  BY DEF WriteProgress
<1>2. /\ ~Overwrites(ws) => \A x \in DOMAIN old : x \notin DOMAIN db.writes
      /\ \A j \in 1..(n - 1) : \E m \in 1..(n - 1) :
           /\ WriteIdx(ws, m) = WriteIdx(ws, j)
           /\ Wins(ws, n - 1, m)
           /\ RowKey(c, m) \in DOMAIN old => old[RowKey(c, m)] = ws[m]
  BY DEF WriteValues
<1>3. /\ \A j \in 1..(n - 1) : RowKey(c, j) \in DOMAIN db.writes \cup DOMAIN old
      /\ \A x \in DOMAIN old : \E j \in 1..(n - 1) : x = RowKey(c, j)
  BY DEF WriteProgress
<1>4. /\ \A x \in DOMAIN log.set : x \in DOMAIN old \/ x = k
      /\ \A x \in DOMAIN old : x # k => log.set[x] = old[x]
      /\ \/ k \in DOMAIN log.set /\ log.set[k] = ws[n]
            /\ (Overwrites(ws) \/ k \notin DOMAIN db.writes \cup DOMAIN old)
         \/ log.set = old /\ k \in DOMAIN db.writes \cup DOMAIN old /\ ~Overwrites(ws)
  BY DEF With
<1>5. \A j : RowKey(c, j) = k <=> WriteIdx(ws, j) = WriteIdx(ws, n)
  BY SameRowKey
<1> HIDE DEF n, ws, old
<1>6. ~Overwrites(ws) => \A x \in DOMAIN log.set : x \notin DOMAIN db.writes
  BY <1>2, <1>4
<1>7. ASSUME NEW j \in 1..n
      PROVE  \E m \in 1..n : /\ WriteIdx(ws, m) = WriteIdx(ws, j)
                             /\ Wins(ws, n, m)
                             /\ RowKey(c, m) \in DOMAIN log.set => log.set[RowKey(c, m)] = ws[m]
  <2>1. n \in 1..n /\ \A m \in 1..n : m # n => m \in 1..(n - 1)
    BY <1>1
  <2>2. CASE WriteIdx(ws, j) # WriteIdx(ws, n)
    <3>1. j \in 1..(n - 1)
      BY <2>1, <2>2
    <3>2. PICK m \in 1..(n - 1) : /\ WriteIdx(ws, m) = WriteIdx(ws, j)
                                  /\ Wins(ws, n - 1, m)
                                  /\ RowKey(c, m) \in DOMAIN old => old[RowKey(c, m)] = ws[m]
      BY <1>2, <3>1
    <3>3. m \in 1..n
      BY <1>1
    <3>4. Wins(ws, n, m)
      BY <2>1, <2>2, <3>2 DEF Wins
    <3>5. RowKey(c, m) # k
      BY <1>5, <2>2, <3>2
    <3> QED BY <1>4, <3>2, <3>3, <3>4, <3>5
  <2>3. CASE WriteIdx(ws, j) = WriteIdx(ws, n) /\ Overwrites(ws)
    <3>1. Wins(ws, n, n)
      BY <1>1, <2>3 DEF Wins
    <3> QED BY <1>4, <1>5, <2>1, <2>3, <3>1
  <2>4. CASE WriteIdx(ws, j) = WriteIdx(ws, n) /\ ~Overwrites(ws)
    <3>1. CASE \E i \in 1..(n - 1) : WriteIdx(ws, i) = WriteIdx(ws, n)
      <4>1. PICK i \in 1..(n - 1) : WriteIdx(ws, i) = WriteIdx(ws, n)
        BY <3>1
      <4>2. PICK m \in 1..(n - 1) : /\ WriteIdx(ws, m) = WriteIdx(ws, i)
                                    /\ Wins(ws, n - 1, m)
                                    /\ RowKey(c, m) \in DOMAIN old => old[RowKey(c, m)] = ws[m]
        BY <1>2, <4>1
      <4>3. m \in 1..n /\ m <= n
        BY <1>1
      <4>4. Wins(ws, n, m)
        BY <2>1, <2>4, <4>2, <4>3 DEF Wins
      <4>5. RowKey(c, m) = k /\ k \in DOMAIN db.writes \cup DOMAIN old
        BY <1>3, <1>5, <4>1, <4>2
      <4>6. log.set = old
        BY <1>4, <2>4, <4>5
      <4> QED BY <2>4, <4>1, <4>2, <4>3, <4>4, <4>6
    <3>2. CASE \A i \in 1..(n - 1) : WriteIdx(ws, i) # WriteIdx(ws, n)
      <4>1. Wins(ws, n, n)
        BY <1>1, <2>1, <2>4, <3>2 DEF Wins
      <4>2. k \notin DOMAIN old
        BY <1>3, <1>5, <3>2
      <4>3. k \in DOMAIN log.set => log.set[k] = ws[n]
        BY <1>4, <4>2
      <4> QED BY <1>5, <2>1, <2>4, <4>1, <4>3
    <3> QED BY <3>1, <3>2
  <2> QED BY <2>2, <2>3, <2>4
<1>8. /\ ~Overwrites(ws) => \A x \in DOMAIN log.set : x \notin DOMAIN db'.writes
      /\ \A j \in 1..(c.next - 1) : \E m \in 1..(c.next - 1) :
           /\ WriteIdx(ws, m) = WriteIdx(ws, j)
           /\ Wins(ws, c.next - 1, m)
           /\ RowKey(c, m) \in DOMAIN log.set => log.set[RowKey(c, m)] = ws[m]
  BY <1>1, <1>6, <1>7
<1> QED BY <1>8 DEF WriteValues, ws

LEMMA PutWriteKeepsRInv ==
    ASSUME IInv, LInv, RInv, NEW s \in Savers, PutWrite(s)
    PROVE  RInv'
<1> DEFINE c0 == call[s]
           n == c0.next
           k == RowKey(c0, n)
           row == c0.writes[n]
           label == IF n = Len(c0.writes) THEN "commit" ELSE "writes"
           c == [c0 EXCEPT !.next = n + 1]
<1>1. /\ pc[s] = "writes" /\ UNCHANGED <<db, base, asked, severed>>
      /\ IF Overwrites(c0.writes)
         THEN Upsert(s, "writes", k, row)
         ELSE InsertIgnore(s, "writes", k, row)
      /\ call' = [call EXCEPT ![s].next = @ + 1]
      /\ Goto(s, label)
  BY DEF PutWrite, RowKey
<1>2. /\ s \in DOMAIN call /\ c0.op = "put_writes"
      /\ DOMAIN c0 = {"op", "thread", "ns", "id", "task", "writes", "next"}
  BY <1>1 DEF IInv, CallShape
<1>3. call' = [call EXCEPT ![s] = c]
  BY <1>1
<1>4. /\ c.op = "put_writes" /\ c.next = n + 1 /\ c.writes = c0.writes
      /\ \A j : RowKey(c, j) = RowKey(c0, j)
      /\ SameCall(c0, c)
  BY <1>2 DEF RowKey, SameCall
<1>5. /\ Inserted(s, "writes", k, row)
      /\ ~Overwrites(c0.writes) /\ k \in DOMAIN Seen(s, "writes") => tx'[s].writes.set = tx[s].writes.set
      /\ Overwrites(c0.writes) => tx'[s].writes.set = With(tx[s].writes.set, k, row)
  BY <1>1, UpsertInserts, IgnoreInserts DEF IInv, Tables
<1> HIDE DEF c, k, row, label
<1>6. /\ DOMAIN call' = DOMAIN call /\ call'[s] = c
      /\ \A r \in Savers \ {s} : /\ pc'[r] = pc[r]
                                 /\ r \in DOMAIN call' <=> r \in DOMAIN call
                                 /\ r \in DOMAIN call => call'[r] = call[r]
  <2>1. call'[s] = c
    BY <1>2, <1>3
  <2> QED BY <1>1, <1>3, <2>1, OthersGoOn
<1>7. (\A r \in Savers \ {s} : tx'[r] = tx[r]) /\ tx'[s].checkpoints = tx[s].checkpoints
  BY <1>5 DEF Inserted, Tables
<1>8. Parents'
  BY <1>1, <1>7, ParentsStay
<1>9. DOMAIN Seen(s, "writes") = DOMAIN db.writes \cup DOMAIN tx[s].writes.set
  <2>1. tx[s].writes.ranges = {} /\ tx[s].writes.del = {}
    BY <1>2 DEF LInv, TxOfCall, TxOf, TableLocks, ChangesLocked, Tables
  <2> QED BY <2>1 DEF Seen, Applied
<1>10. \/ tx'[s].writes.set = With(tx[s].writes.set, k, row)
          /\ (Overwrites(c0.writes) \/ k \notin DOMAIN db.writes \cup DOMAIN tx[s].writes.set)
       \/ tx'[s].writes.set = tx[s].writes.set
          /\ k \in DOMAIN db.writes \cup DOMAIN tx[s].writes.set /\ ~Overwrites(c0.writes)
  BY <1>5, <1>9 DEF Inserted
<1>11. WriteValues(s)'
  <2>1. WriteProgress(s) /\ WriteValues(s)
    BY <1>1, <1>2 DEF LInv, Progress, ProgressOf, RInv, WritesInOrder
  <2> QED BY <1>1, <1>2, <1>4, <1>6, <1>10, <2>1, WriteValuesStep DEF k, row
<1> QED BY <1>1, <1>2, <1>4, <1>6, <1>7, <1>8, <1>11, StatementKeepsRInv

-----------------------------------------------------------------------------
\* The end of a transaction.

\* Which checkpoints and runs a commit leaves in use.
LEMMA CommitSeversNone ==
    ASSUME IInv, LInv, RInv, NEW s \in DOMAIN call, pc[s] = "commit", ServerCommits(s)
    PROVE  /\ \A r \in DOMAIN base : base[r].id \notin severed'
           /\ \A k \in DOMAIN db'.checkpoints : k.id \notin severed'
           /\ \A r \in DOMAIN call : call[r].op = "put" => call[r].id \notin severed'
<1>1. s \in Savers
  BY DEF IInv, CallShape
<1>2. CASE call[s].op = "delete_thread"
  <2> DEFINE t == call[s].thread
  <2>1. severed' = severed \cup {i \in DOMAIN asked : asked[i].thread = t}
    BY <1>2 DEF ServerCommits
  <2>2. \A r \in DOMAIN base : base[r].thread # t
    BY <1>2 DEF RInv, NothingSevered
  <2>3. ASSUME NEW r \in DOMAIN base
        PROVE  base[r].id \notin severed'
    <3>1. base[r].id # NoId => asked[base[r].id].thread = base[r].thread
      BY DEF IInv, BaseTraced
    <3>2. NoId \notin DOMAIN asked
      BY DEF IInv, AskedShape
    <3> QED BY <2>1, <2>2, <3>1, <3>2 DEF RInv, NothingSevered
  <2>4. ASSUME NEW k \in DOMAIN db'.checkpoints
        PROVE  k.id \notin severed'
    <3>1. k \in DOMAIN db.checkpoints /\ k.thread # t
      BY <1>2, DeleteEmptiesThread DEF Tables
    <3>2. asked[k.id].thread = k.thread
      BY <3>1 DEF IInv, RowsOK, CheckpointRow
    <3> QED BY <2>1, <3>1, <3>2 DEF RInv, NothingSevered
  <2>5. ASSUME NEW r \in DOMAIN call, call[r].op = "put"
        PROVE  call[r].id \notin severed'
    <3>1. r \in DOMAIN base
      BY <2>5 DEF IInv, CallShape
    <3>2. asked[call[r].id].thread = base[r].thread
      BY <2>5 DEF IInv, PutOfItsRun
    <3> QED BY <2>1, <2>2, <2>5, <3>1, <3>2 DEF RInv, NothingSevered
  <2> QED BY <2>3, <2>4, <2>5
<1>3. CASE call[s].op # "delete_thread"
  <2>1. severed' = severed
    BY <1>3 DEF ServerCommits
  <2>2. ASSUME NEW k \in DOMAIN db'.checkpoints
        PROVE  k.id \notin severed
    <3>1. k \in DOMAIN db.checkpoints \/ k \in DOMAIN tx[s].checkpoints.set
      BY <1>1, CommitEffect DEF Tables
    <3>2. k \in DOMAIN tx[s].checkpoints.set => call[s].op = "put" /\ k.id = call[s].id
      BY <1>1 DEF IInv, PendingOK
    <3> QED BY <3>1, <3>2 DEF RInv, NothingSevered
  <2> QED BY <2>1, <2>2 DEF RInv, NothingSevered
<1> QED BY <1>2, <1>3

LEMMA CommitKeepsRInv ==
    ASSUME IInv, LInv, RInv, IInv', NEW s \in Savers, Commit(s) \/ CommitLost(s)
    PROVE  RInv'
<1>1. s \in DOMAIN call /\ pc[s] = "commit" /\ ServerCommits(s) /\ asked' = asked
  BY CommitCall DEF Commit, CommitLost
<1>2. DOMAIN call \subseteq Savers
  BY DEF IInv, CallShape
<1>3. /\ s \in DOMAIN call' => pc'[s] = "raised" /\ call'[s] = call[s]
      /\ \A r \in Savers \ {s} : /\ pc'[r] = pc[r]
                                 /\ r \in DOMAIN call' <=> r \in DOMAIN call
                                 /\ r \in DOMAIN call => call'[r] = call[r]
  <2>1. CASE Commit(s)
    BY <2>1, OthersCalls DEF Commit
  <2>2. CASE CommitLost(s)
    BY <2>2, OthersGoOn DEF CommitLost
  <2> QED BY <2>1, <2>2
<1>4. DOMAIN call' \subseteq Savers
  BY DEF IInv, CallShape
<1>5. /\ DOMAIN base' = DOMAIN base /\ \A r \in DOMAIN base : base'[r].thread = base[r].thread
      /\ \A r \in DOMAIN base \ {s} : base'[r] = base[r]
      /\ s \in DOMAIN base /\ s \in DOMAIN call' => base'[s] = base[s]
      /\ s \in DOMAIN base => \/ base'[s].id = base[s].id
                              \/ call[s].op = "put" /\ base'[s].id = call[s].id
  <2>1. CASE Commit(s) /\ call[s].op = "put"
    <3> DEFINE a == asked[call[s].id]
    <3>1. base' = [base EXCEPT ![s].id = call[s].id, ![s].vers = a.vers, ![s].vals = a.vals]
      BY <2>1 DEF Commit
    <3>2. s \in DOMAIN base /\ DOMAIN base[s] = {"thread", "ns", "id", "vers", "vals"}
      BY <1>1, <2>1 DEF IInv, CallShape, BaseShape
    <3>3. base' = [base EXCEPT ![s] = [base[s] EXCEPT !.id = call[s].id, !.vers = a.vers, !.vals = a.vals]]
      BY <3>1, <3>2
    <3>4. s \notin DOMAIN call'
      BY <2>1 DEF Commit, Without
    <3> HIDE DEF a
    <3> QED BY <2>1, <3>2, <3>3, <3>4
  <2>2. CASE ~(Commit(s) /\ call[s].op = "put")
    BY <2>2 DEF Commit, CommitLost
  <2> QED BY <2>1, <2>2
<1>6. NothingSevered'
  <2>1. \A r \in DOMAIN base' : base'[r].id \notin severed'
    BY <1>1, <1>5, CommitSeversNone
  <2>2. \A r \in DOMAIN call' : /\ call'[r].op = "put" => call'[r].id \notin severed'
                                /\ call'[r].op = "delete_thread" =>
                                     \A q \in DOMAIN base' : base'[q].thread # call'[r].thread
    <3> SUFFICES ASSUME NEW r \in DOMAIN call'
                 PROVE  /\ call'[r].op = "put" => call'[r].id \notin severed'
                        /\ call'[r].op = "delete_thread" =>
                             \A q \in DOMAIN base' : base'[q].thread # call'[r].thread
      OBVIOUS
    <3>1. r \in DOMAIN call /\ call'[r] = call[r]
      BY <1>1, <1>3, <1>4
    <3> QED BY <1>1, <1>5, <3>1, CommitSeversNone DEF RInv, NothingSevered
  <2> QED BY <1>1, <2>1, <2>2, CommitSeversNone DEF NothingSevered
<1>7. CallsOfRuns'
  <2> SUFFICES ASSUME NEW r \in DOMAIN call'
               PROVE  /\ call'[r].op = "put" => asked[call'[r].id].parent = base'[r].id
                      /\ call'[r].op = "put_writes" =>
                           /\ r \in DOMAIN base' /\ base'[r].id # NoId
                           /\ call'[r].thread = base'[r].thread /\ call'[r].ns = base'[r].ns
                           /\ call'[r].id = base'[r].id /\ call'[r].task \in Tasks
    BY <1>1 DEF CallsOfRuns
  <2>1. r \in DOMAIN call /\ call'[r] = call[r]
    BY <1>1, <1>3, <1>4
  <2>2. call[r].op = "put" => r \in DOMAIN base
    BY <2>1 DEF IInv, CallShape
  <2>3. r \in DOMAIN base => base'[r] = base[r]
    BY <1>5
  <2> QED BY <1>5, <2>1, <2>2, <2>3 DEF RInv, CallsOfRuns
<1>8. Parents'
  <2>1. \A k \in DOMAIN db'.checkpoints : db'.checkpoints[k].parent = asked[k.id].parent
    BY <1>1, CommitEffect DEF RInv, Parents, Tables
  <2>2. \A r \in Savers : \A k \in DOMAIN tx'[r].checkpoints.set :
          tx'[r].checkpoints.set[k].parent = asked[k.id].parent
    BY <1>1, CommitEffect, NoTxLocks DEF RInv, Parents, Tables
  <2> QED BY <1>1, <2>1, <2>2 DEF Parents
<1>9. FunctionTables'
  BY <1>1 DEF ServerCommits, Applied, FunctionTables, Tables
<1>10. WritesInOrder'
  <2>1. \A r \in Savers \ {s} : \A k \in tx[r].writes.rows :
          k \in DOMAIN db'.writes => k \in DOMAIN db.writes
    BY <1>1, CommitEffect DEF Tables
  <2>2. \A r \in Savers \ {s} : tx'[r] = tx[r]
    BY <1>1, CommitEffect
  <2> QED BY <1>3, <1>4, <2>1, <2>2, OthersInOrder
<1> QED BY <1>6, <1>7, <1>8, <1>9, <1>10 DEF RInv

-----------------------------------------------------------------------------
\* The invariant.

LEMMA InitRInv == Init => RInv
<1> SUFFICES ASSUME Init PROVE RInv
  OBVIOUS
<1>1. /\ \A s \in Savers : tx[s] = NoTx
      /\ DOMAIN call = {} /\ DOMAIN base = {}
      /\ \A tb \in Tables : DOMAIN db[tb] = {}
      /\ db.writes = Empty
  BY DEF Init, Empty, Tables
<1>2. NothingSevered /\ CallsOfRuns /\ WritesInOrder
  BY <1>1 DEF NothingSevered, CallsOfRuns, WritesInOrder, Tables
<1>3. Parents
  BY <1>1, NoTxLocks DEF Parents, Tables
<1>4. FunctionTables
  BY <1>1 DEF FunctionTables, Empty
<1> QED BY <1>2, <1>3, <1>4 DEF RInv

LEMMA StutterRInv == IInv /\ LInv /\ RInv /\ UNCHANGED vars => RInv'
<1> SUFFICES ASSUME IInv, LInv, RInv, UNCHANGED vars PROVE RInv'
  OBVIOUS
<1>1. UNCHANGED <<db, tx, pc, call, base, asked, severed>>
  BY DEF vars
<1>2. NothingSevered' /\ CallsOfRuns'
  BY <1>1, RunsGoOn DEF SameCall
<1>3. Parents' /\ FunctionTables'
  BY <1>1, ParentsStay
<1>4. WritesInOrder'
  BY <1>1 DEF RInv, WritesInOrder, WriteValues, RowKey
<1> QED BY <1>2, <1>3, <1>4 DEF RInv

LEMMA NextRInv == Exclusive /\ IInv /\ LInv /\ RInv /\ [Next]_vars => RInv'
<1> SUFFICES ASSUME Exclusive, IInv, LInv, RInv, Next PROVE RInv'
  BY StutterRInv
<1>1. IInv'
  BY NextIInv
<1>2. PICK s \in Savers : Next!(s)
  BY DEF Next
<1>3. CASE GetTupleCall(s) \/ EndRun(s)
  BY <1>1, <1>3, GetKeepsRInv, EndRunKeepsRInv
<1>4. CASE PutCall(s)
  BY <1>1, <1>4, PutKeepsRInv, PutBlobKeepsRInv, PutCheckpointKeepsRInv DEF PutCall
<1>5. CASE PutWritesCall(s)
  BY <1>1, <1>5, PutWritesKeepsRInv, PutWriteKeepsRInv DEF PutWritesCall
<1>6. CASE DeleteThreadCall(s)
  BY <1>1, <1>6, DeleteThreadKeepsRInv, DeleteKeepsRInv DEF DeleteThreadCall
<1>7. CASE EndTransaction(s) \/ Crash(s) \/ GiveUp(s)
  BY <1>1, <1>7, CommitKeepsRInv, LeaveKeepsRInv DEF EndTransaction
<1>8. CASE Retry(s)
  BY <1>1, <1>8, RetryKeepsRInv
<1> QED BY <1>2, <1>3, <1>4, <1>5, <1>6, <1>7, <1>8

-----------------------------------------------------------------------------
\* The simulation.

\* The history the tables stand for (the substitution of History), and what it
\* says: every stored checkpoint with the parent and the values of its put.
StoredHistory ==
    [k \in DOMAIN db.checkpoints |-> [parent |-> db.checkpoints[k].parent, vals |-> Loaded(k)]]

AskedHistory(K) == [k \in K |-> [parent |-> asked[k.id].parent, vals |-> asked[k.id].vals]]

HistoryOfPuts == StoredHistory = AskedHistory(DOMAIN db.checkpoints)

LEMMA HistoryIsOfPuts == IInv /\ RInv => HistoryOfPuts
<1> SUFFICES ASSUME IInv, RInv PROVE HistoryOfPuts
  OBVIOUS
<1> SUFFICES ASSUME NEW k \in DOMAIN db.checkpoints
             PROVE  db.checkpoints[k].parent = asked[k.id].parent /\ Loaded(k) = asked[k.id].vals
  BY DEF HistoryOfPuts, StoredHistory, AskedHistory
<1>1. k.id \notin severed
  BY DEF RInv, NothingSevered
<1> QED BY <1>1, StoredReadsBack DEF RInv, Parents, Loaded

\* The operators of the history are those of the tables.
LEMMA HistoryFunctions ==
    /\ \A f, k, v : History!With(f, k, v) = With(f, k, v)
    /\ \A f, K : History!Without(f, K) = Without(f, K)
    /\ History!Empty = Empty
BY DEF History!With, With, History!Without, Without, History!Empty, Empty

LEMMA HistoryKeys ==
    History!NoId = NoId /\ History!CheckpointKey = CheckpointKey
BY DEF History!NoId, NoId, History!CheckpointKey, CheckpointKey

LEMMA HistoryRows ==
    /\ \A t, n, i, tk, x : History!WriteKey(t, n, i, tk, x) = WriteKey(t, n, i, tk, x)
    /\ \A ws, j : History!WriteIdx(ws, j) = WriteIdx(ws, j)
    /\ \A ws : History!Overwrites(ws) <=> Overwrites(ws)
BY DEF History!WriteKey, WriteKey, History!Special, Special, History!WriteIdx, WriteIdx,
       History!Overwrites, Overwrites, History!WritesIdxMap, WritesIdxMap

LEMMA HistoryInit == Init => History!Init
<1> SUFFICES ASSUME Init PROVE History!Init
  OBVIOUS
<1>1. DOMAIN db.checkpoints = {} /\ db.writes = Empty
  BY DEF Init, Empty, Tables
<1> QED BY <1>1, HistoryFunctions DEF History!Init, Empty

\* A put that commits stores its checkpoint in the history, unless it is a retry
\* whose first COMMIT was executed without the caller learning it.
LEMMA PutSimulates ==
    ASSUME IInv, LInv, RInv, HistoryOfPuts, HistoryOfPuts', NEW s \in DOMAIN call,
           call[s].op = "put", pc[s] = "commit", ServerCommits(s), asked' = asked
    PROVE  History!Next \/ UNCHANGED History!hvars
<1> DEFINE i == call[s].id
           a == asked[i]
           k == [thread |-> a.thread, ns |-> a.ns, id |-> i]
<1>1. s \in Savers /\ s \in DOMAIN base /\ i \in DOMAIN asked
  BY DEF IInv, CallShape
<1>2. \A tb \in Tables : tx[s][tb].del = {}
  BY <1>1 DEF LInv, TxOfCall, TxOf, TableLocks, ChangesLocked
<1>3. DOMAIN tx[s].checkpoints.set = {k} /\ k \in CheckpointKey
  <2>1. k \in DOMAIN tx[s].checkpoints.set
    BY DEF LInv, Progress, ProgressOf, PutProgress
  <2>2. ASSUME NEW x \in DOMAIN tx[s].checkpoints.set
        PROVE  x = k /\ x \in CheckpointKey
    <3>1. /\ CheckpointRow(x, tx[s].checkpoints.set[x]) /\ x.id = i
      BY <1>1 DEF IInv, PendingOK
    <3> QED BY <3>1 DEF CheckpointRow, CheckpointKey
  <2> HIDE DEF k
  <2> QED BY <2>1, <2>2
<1>4. DOMAIN db'.checkpoints = DOMAIN db.checkpoints \cup {k}
  <2> HIDE DEF k
  <2> QED BY <1>1, <1>2, <1>3, CommitEffect DEF Tables
<1>5. db'.writes = db.writes
  <2>1. DOMAIN tx[s].writes.set = {}
    BY <1>1 DEF LInv, TxOfCall, TxOf
  <2>2. db'.writes = [x \in DOMAIN db.writes |-> db.writes[x]]
    BY <1>2, <2>1 DEF ServerCommits, Applied, Tables
  <2> QED BY <2>2 DEF RInv, FunctionTables
<1>6. StoredHistory' = AskedHistory(DOMAIN db.checkpoints \cup {k})
  BY <1>4 DEF HistoryOfPuts, AskedHistory
<1>7. CASE k \in DOMAIN db.checkpoints
  <2>1. DOMAIN db.checkpoints \cup {k} = DOMAIN db.checkpoints
    BY <1>7
  <2>2. StoredHistory' = StoredHistory
    BY <1>6, <2>1 DEF HistoryOfPuts
  <2> QED BY <1>5, <2>2 DEF History!hvars, StoredHistory
<1>8. CASE k \notin DOMAIN db.checkpoints
  <2>1. StoredHistory' = With(StoredHistory, k, [parent |-> a.parent, vals |-> a.vals])
    BY <1>6 DEF HistoryOfPuts, AskedHistory, With
  <2>2. DOMAIN StoredHistory = DOMAIN db.checkpoints
    BY DEF StoredHistory
  <2>3. ASSUME a.parent # NoId
        PROVE  [k EXCEPT !.id = a.parent] \in DOMAIN db.checkpoints
    <3>1. a.parent = base[s].id /\ a.thread = base[s].thread /\ a.ns = base[s].ns
      BY DEF RInv, CallsOfRuns, IInv, PutOfItsRun
    <3>2. base[s].id \in Ids \ severed
      BY <1>1, <2>3, <3>1 DEF IInv, BaseShape, AskedShape, RInv, NothingSevered
    <3>3. [thread |-> base[s].thread, ns |-> base[s].ns, id |-> base[s].id] \in DOMAIN db.checkpoints
      BY <1>1, <3>2 DEF LInv, BaseStored
    <3> QED BY <3>1, <3>3
  <2>4. a.parent \in Ids \cup {NoId} /\ a.vals \in [Channels -> Objects \cup Primitives \cup {NoVal}]
    BY <1>1 DEF IInv, AskedShape, ValueMap, Values
  <2>5. PICK x \in History!CheckpointKey, p \in Ids \cup {History!NoId},
             v \in [Channels -> Objects \cup Primitives \cup {NoVal}] :
          x = k /\ p = a.parent /\ v = a.vals
    <3> HIDE DEF k, a
    <3> QED BY <1>3, <2>4, HistoryKeys
  <2> HIDE DEF k, a
  <2>6. History!Put(x, p, v)
    BY <1>5, <1>8, <2>1, <2>2, <2>3, <2>5, HistoryFunctions, HistoryKeys DEF History!Put, StoredHistory
  <2> QED BY <2>6 DEF History!Next
<1> QED BY <1>7, <1>8

\* delete_thread empties its thread in the history.
LEMMA DeleteSimulates ==
    ASSUME IInv, LInv, RInv, HistoryOfPuts, HistoryOfPuts', NEW s \in DOMAIN call,
           call[s].op = "delete_thread", pc[s] = "commit", ServerCommits(s), asked' = asked
    PROVE  History!Next
<1>1. PICK t \in Threads : t = call[s].thread
  BY DEF IInv, CallShape
<1>2. \A tb \in Tables : /\ DOMAIN db'[tb] = {k \in DOMAIN db[tb] : k.thread # t}
                         /\ \A k \in DOMAIN db'[tb] : db'[tb][k] = db[tb][k]
  BY <1>1, DeleteEmptiesThread
<1>3. StoredHistory' = Without(StoredHistory, {k \in DOMAIN StoredHistory : k.thread = t})
  <2>1. DOMAIN db'.checkpoints = DOMAIN db.checkpoints \ {k \in DOMAIN db.checkpoints : k.thread = t}
    BY <1>2 DEF Tables
  <2>2. StoredHistory' = AskedHistory(DOMAIN db.checkpoints \ {k \in DOMAIN db.checkpoints : k.thread = t})
    BY <2>1 DEF HistoryOfPuts, AskedHistory
  <2>3. DOMAIN StoredHistory = DOMAIN db.checkpoints
    BY DEF StoredHistory
  <2> QED BY <2>2, <2>3 DEF HistoryOfPuts, AskedHistory, Without
<1>4. db'.writes = Without(db.writes, {k \in DOMAIN db.writes : k.thread = t})
  <2> DEFINE left == DOMAIN db.writes \ {k \in DOMAIN db.writes : k.thread = t}
  <2>1. DOMAIN db'.writes = left /\ \A k \in left : db'.writes[k] = db.writes[k]
    BY <1>2 DEF Tables
  <2>2. db'.writes = [k \in DOMAIN db'.writes |-> db'.writes[k]]
    BY DEF ServerCommits, Applied, Tables
  <2> QED BY <2>1, <2>2 DEF Without
<1>5. History!DeleteThread(t)
  BY <1>3, <1>4, HistoryFunctions DEF History!DeleteThread, StoredHistory
<1> QED BY <1>5 DEF History!Next

\* Of the writes that share a row, one wins.
LEMMA OneWins ==
    ASSUME NEW ws, NEW n \in Nat, NEW i \in 1..n, NEW j \in 1..n, WriteIdx(ws, i) = WriteIdx(ws, j),
           Wins(ws, n, i), Wins(ws, n, j)
    PROVE  i = j
BY DEF Wins

\* put_writes adds all its writes to the history at once, each row with the
\* write that wins it.
LEMMA PutWritesSimulates ==
    ASSUME IInv, LInv, RInv, HistoryOfPuts, HistoryOfPuts', NEW s \in DOMAIN call,
           call[s].op = "put_writes", pc[s] = "commit", ServerCommits(s), asked' = asked
    PROVE  History!Next
<1> DEFINE c == call[s]
           ws == c.writes
           n == Len(ws)
           k == [thread |-> c.thread, ns |-> c.ns, id |-> c.id]
           log == tx[s].writes.set
           Key(j) == RowKey(c, j)
<1>1. s \in Savers /\ ws \in WriteLists /\ DOMAIN ws = 1..n /\ n \in Nat
  BY WriteListsAssumption DEF IInv, CallShape
<1>2. WriteProgress(s) /\ WriteValues(s) /\ c.next - 1 = n
  <2>1. WriteProgress(s) /\ WriteValues(s)
    BY DEF LInv, Progress, ProgressOf, RInv, WritesInOrder
  <2>2. c.next = n + 1
    BY <2>1 DEF WriteProgress
  <2> QED BY <1>1, <2>1, <2>2
<1>3. /\ \A j \in 1..n : /\ Key(j) \in DOMAIN db.writes \cup DOMAIN log
                         /\ Overwrites(ws) => Key(j) \in DOMAIN log
      /\ \A x \in DOMAIN log : \E j \in 1..n : x = Key(j)
  BY <1>2 DEF WriteProgress
<1>4. /\ ~Overwrites(ws) => \A x \in DOMAIN log : x \notin DOMAIN db.writes
      /\ \A j \in 1..n : \E m \in 1..n :
           /\ WriteIdx(ws, m) = WriteIdx(ws, j)
           /\ Wins(ws, n, m)
           /\ Key(m) \in DOMAIN log => log[Key(m)] = ws[m]
  BY <1>2 DEF WriteValues
<1>5. /\ c.task \in Tasks
      /\ k \in DOMAIN db.checkpoints /\ k \in CheckpointKey
  <2>1. /\ s \in DOMAIN base /\ base[s].id # NoId /\ c.task \in Tasks
        /\ c.thread = base[s].thread /\ c.ns = base[s].ns /\ c.id = base[s].id
    BY DEF RInv, CallsOfRuns
  <2>2. base[s].id \in Ids \ severed
    BY <2>1 DEF IInv, BaseShape, AskedShape, RInv, NothingSevered
  <2>3. k \in DOMAIN db.checkpoints
    BY <2>1, <2>2 DEF LInv, BaseStored
  <2> HIDE DEF k
  <2> QED BY <2>1, <2>3 DEF IInv, RowsOK, CheckpointRow
<1>6. \A tb \in Tables : tx[s][tb].del = {}
  BY <1>1 DEF LInv, TxOfCall, TxOf, TableLocks, ChangesLocked
<1>7. StoredHistory' = StoredHistory
  <2>1. DOMAIN tx[s].checkpoints.set = {}
    BY <1>1 DEF IInv, PendingOK
  <2>2. s \in Savers /\ tx[s].checkpoints.del = {}
    BY <1>1, <1>6 DEF Tables
  <2>3. DOMAIN db'.checkpoints = DOMAIN db.checkpoints
    BY <2>1, <2>2 DEF ServerCommits, Applied, Tables
  <2> QED BY <2>3 DEF HistoryOfPuts, AskedHistory
<1>8. db'.writes = [x \in DOMAIN db.writes \cup DOMAIN log |->
                      IF x \in DOMAIN log THEN log[x] ELSE db.writes[x]]
  BY <1>6 DEF ServerCommits, Applied, Tables
<1> HIDE DEF c, log
<1>9. PICK x \in History!CheckpointKey, tk \in Tasks, l \in WriteLists :
        x = k /\ tk = c.task /\ l = ws
  <2> HIDE DEF k, ws
  <2> QED BY <1>1, <1>5, HistoryKeys
\* What History!PutWrites(x, tk, l) writes, against what s has committed.
<1> DEFINE HKey(j) == History!WriteKey(x.thread, x.ns, x.id, tk, History!WriteIdx(l, j))
           HWins(j) == \A m \in History!SameRow(l, j) : IF History!Overwrites(l) THEN m <= j ELSE j <= m
           Keys == {HKey(j) : j \in DOMAIN l}
           Added(y) == IF y \in DOMAIN db.writes /\ (~History!Overwrites(l) \/ y \notin Keys)
                       THEN db.writes[y]
                       ELSE l[CHOOSE j \in DOMAIN l : HKey(j) = y /\ HWins(j)]
<1>10. /\ \A j : HKey(j) = Key(j)
       /\ History!Overwrites(l) <=> Overwrites(ws)
       /\ DOMAIN l = 1..n
       /\ \A j \in 1..n : HWins(j) <=> Wins(ws, n, j)
  <2>1. \A j : HKey(j) = Key(j)
    BY <1>9, HistoryRows DEF RowKey
  <2>2. History!Overwrites(l) <=> Overwrites(ws)
    BY <1>9, HistoryRows
  <2>3. DOMAIN l = 1..n
    BY <1>1, <1>9
  <2>4. ASSUME NEW j \in 1..n
        PROVE  HWins(j) <=> Wins(ws, n, j)
    <3>1. History!SameRow(l, j) = {m \in 1..n : WriteIdx(ws, m) = WriteIdx(ws, j)}
      BY <1>9, <2>3, HistoryRows DEF History!SameRow
    <3> QED BY <2>2, <3>1 DEF Wins
  <2> QED BY <2>1, <2>2, <2>3, <2>4
<1>11. DOMAIN db.writes \cup DOMAIN log = DOMAIN db.writes \cup Keys
  BY <1>3, <1>10
<1>12. ASSUME NEW y \in DOMAIN db.writes \cup Keys
       PROVE  (IF y \in DOMAIN log THEN log[y] ELSE db.writes[y]) = Added(y)
  <2>1. CASE y \in DOMAIN db.writes /\ (~Overwrites(ws) \/ y \notin Keys)
    <3>1. y \notin DOMAIN log
      BY <1>3, <1>4, <1>10, <2>1
    <3> QED BY <1>10, <2>1, <3>1
  <2>2. CASE ~(y \in DOMAIN db.writes /\ (~Overwrites(ws) \/ y \notin Keys))
    <3>1. PICK j \in 1..n : y = Key(j)
      BY <1>10, <2>2
    <3>2. y \in DOMAIN log
      BY <1>3, <1>10, <2>2, <3>1
    <3>3. PICK m \in 1..n : /\ WriteIdx(ws, m) = WriteIdx(ws, j)
                            /\ Wins(ws, n, m)
                            /\ Key(m) \in DOMAIN log => log[Key(m)] = ws[m]
      BY <1>4
    <3>4. Key(m) = y
      BY <3>1, <3>3, SameRowKey
    <3>5. \A i \in 1..n : Key(i) = y /\ Wins(ws, n, i) => i = m
      BY <1>1, <3>3, <3>4, SameRowKey, OneWins
    <3>6. Added(y) = l[CHOOSE i \in DOMAIN l : HKey(i) = y /\ HWins(i)]
      BY <1>10, <2>2
    <3>7. (CHOOSE i \in DOMAIN l : HKey(i) = y /\ HWins(i)) = m
      <4> HIDE DEF Key, HKey, HWins, ws, n
      <4> QED BY <1>10, <3>3, <3>4, <3>5
    <3> HIDE DEF Added
    <3> QED BY <1>9, <3>2, <3>3, <3>4, <3>6, <3>7
  <2> QED BY <2>1, <2>2
<1>13. db'.writes = [y \in DOMAIN db.writes \cup Keys |-> Added(y)]
  <2> HIDE DEF Keys, Added
  <2> QED BY <1>8, <1>11, <1>12
<1>14. x \in DOMAIN StoredHistory
  BY <1>5, <1>9 DEF StoredHistory
<1>15. History!PutWrites(x, tk, l)
  BY <1>7, <1>13, <1>14 DEF History!PutWrites, StoredHistory
<1> QED BY <1>15 DEF History!Next

-----------------------------------------------------------------------------
\* The theorem.

LEMMA StepSimulates ==
    ASSUME IInv, LInv, RInv, HistoryOfPuts, HistoryOfPuts', [Next]_vars
    PROVE  [History!Next]_(History!hvars)
<1>1. CASE db' = db
  <2>1. StoredHistory' = StoredHistory
    BY <1>1 DEF StoredHistory, Loaded
  <2> QED BY <1>1, <2>1 DEF History!hvars, StoredHistory
<1>2. CASE db' # db
  <2>1. PICK s \in Savers : Commit(s) \/ CommitLost(s)
    BY <1>2, OnlyCommitsChangeTables DEF vars
  <2>2. /\ s \in DOMAIN call /\ pc[s] = "commit" /\ ServerCommits(s) /\ asked' = asked
        /\ call[s].op \in {"put", "put_writes", "delete_thread"}
    BY <2>1, CommitCall DEF Commit, CommitLost, IInv, CallShape
  <2> QED BY <2>2, PutSimulates, PutWritesSimulates, DeleteSimulates
<1> QED BY <1>1, <1>2

\* Saver implements CheckpointHistory when clients delete a thread only while
\* no run is using it: each commit of a put, a put_writes or a delete_thread is
\* that one step of the history, a retry of a put that was stored already
\* changes nothing, and no statement, failure, crash or lost answer can be seen.
THEOREM SaverImplementsHistory == ASSUME Exclusive PROVE Spec => ImplementsHistory
<1>1. Init => IInv /\ LInv /\ RInv
  BY InitIInv, InitLInv, InitRInv
<1>2. IInv /\ LInv /\ RInv /\ [Next]_vars => (IInv /\ LInv /\ RInv)'
  BY NextIInv, NextLInv, NextRInv
<1>3. IInv /\ RInv => HistoryOfPuts
  BY HistoryIsOfPuts
<1>4. IInv /\ LInv /\ RInv /\ HistoryOfPuts /\ HistoryOfPuts' /\ [Next]_vars
        => [History!Next]_(History!hvars)
  BY StepSimulates
<1>5. Init => History!Init
  BY HistoryInit
<1> QED BY <1>1, <1>2, <1>3, <1>4, <1>5, PTL DEF Spec, ImplementsHistory, History!Spec

=============================================================================
