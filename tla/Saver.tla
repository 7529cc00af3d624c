------------------------------- MODULE Saver -------------------------------
(***************************************************************************)
(* The full-history checkpoint saver: BaseSyncMySQLSaver (__init__.py) and *)
(* its asyncio twin (aio_base.py) over the tables of base.py.              *)
(*                                                                         *)
(* Several saver objects, each with a connection of its own, work on one   *)
(* database.  put, put_writes and delete_thread run their statements one   *)
(* by one inside a transaction (_cursor(pipeline=True)); get_tuple is one  *)
(* consistent SELECT.  A statement can raise, a process can die between    *)
(* any two statements, and the answer to COMMIT can be lost.               *)
(*                                                                         *)
(* The database (external) is InnoDB at its default isolation: a reader    *)
(* sees committed rows, a statement that inserts or finds a row keeps that *)
(* row locked until its transaction ends, and a DELETE of a thread also    *)
(* locks the gaps, so that nothing can be inserted for the thread.         *)
(***************************************************************************)
EXTENDS SaverData

CONSTANTS
    Savers,       \* saver objects, one connection each
    Ops,          \* the calls the clients of this instance make
    Exclusive     \* clients delete a thread only when no run is using it

ASSUME OpsAssumption ==
    /\ Ops \subseteq {"put", "put_writes", "delete_thread"}
    /\ Exclusive \in BOOLEAN

VARIABLES
    db,       \* the committed rows of the three tables
    tx,       \* tx[s]: the open transaction on the connection of s
    pc,       \* pc[s]: the statement the call of s executes next
    call,     \* call[s]: the arguments of the call s is in
    base,     \* base[s]: the checkpoint the run driven through s continues from
    asked,    \* asked[i]: what the put of checkpoint i was asked to store
    severed   \* checkpoints whose thread was deleted since their run loaded it

vars == <<db, tx, pc, call, base, asked, severed>>

-----------------------------------------------------------------------------
\* Statements and row locks (InnoDB); threads are the ranges DELETE locks.

\* What a statement of the transaction of s finds in table tb.
Seen(s, tb) == Applied(tx[s][tb], db[tb])

RowFree(s, tb, k) ==
    \A r \in Savers \ {s} : k \notin tx[r][tb].rows /\ k.thread \notin tx[r][tb].ranges

ThreadFree(s, tb, t) ==
    \A r \in Savers \ {s} :
        t \notin tx[r][tb].ranges /\ \A k \in tx[r][tb].rows : k.thread # t

\* INSERT ... ON DUPLICATE KEY UPDATE, after its row has been computed.
Upsert(s, tb, k, row) ==
    /\ RowFree(s, tb, k)
    /\ tx' = [tx EXCEPT ![s][tb].rows = @ \cup {k},
                        ![s][tb].set = With(@, k, row)]

\* INSERT IGNORE: a row that exists stays as it is.
InsertIgnore(s, tb, k, row) ==
    /\ RowFree(s, tb, k)
    /\ tx' = [tx EXCEPT ![s][tb].rows = @ \cup {k},
                        ![s][tb].set = IF k \in DOMAIN Seen(s, tb)
                                       THEN @ ELSE With(@, k, row)]

\* DELETE FROM tb WHERE thread_id = t.
DeleteWhereThread(s, tb, t) ==
    /\ ThreadFree(s, tb, t)
    /\ tx' = [tx EXCEPT ![s][tb].ranges = @ \cup {t},
                        ![s][tb].del = {k \in DOMAIN Seen(s, tb) : k.thread = t}]

-----------------------------------------------------------------------------
\* What the rows mean.

\* Mutant: the join forgets the version.
LoadedAnyVersion(tables, t, n, row) ==
    [ch \in Channels |->
        LET K == {k \in DOMAIN tables.blobs : k.thread = t /\ k.ns = n /\ k.channel = ch}
        IN IF K # {} THEN tables.blobs[CHOOSE k \in K : TRUE] ELSE row.inline[ch]]

\* A checkpoint row and its blobs as SELECT_SQL joins them: the blob of a
\* channel is the one stored at the version channel_versions names.
LoadedValues(tables, t, n, row) ==
    [ch \in Channels |->
        LET k == BlobKey(t, n, ch, row.vers[ch])
        IN IF k \in DOMAIN tables.blobs THEN tables.blobs[k] ELSE row.inline[ch]]

Loaded(k) == LoadedValues(db, k.thread, k.ns, db.checkpoints[k])

StoredIds(t, n) ==
    {i \in Ids : [thread |-> t, ns |-> n, id |-> i] \in DOMAIN db.checkpoints}

\* Mutant: ORDER BY without DESC.
Oldest(t, n) == {i \in StoredIds(t, n) : \A j \in StoredIds(t, n) : i <= j}

\* SELECT ... ORDER BY checkpoint_id DESC LIMIT 1.
Latest(t, n) == {i \in StoredIds(t, n) : \A j \in StoredIds(t, n) : j <= i}

\* Mutant: a version without its random part.
NextVersionCounter(vers, i) ==
    {<<n, NoId>> : n \in {m \in {vers[ch][1] + 1 : ch \in Channels} :
                              \A ch \in Channels : vers[ch][1] < m}}

\* get_next_version of the greatest version a checkpoint holds: the integer
\* part grows by one, and the random part never repeats (the id of the
\* checkpoint stands for it).
NextVersion(vers, i) ==
    {<<n, i>> : n \in {m \in {vers[ch][1] + 1 : ch \in Channels} :
                          \A ch \in Channels : vers[ch][1] < m}}

\* Mutant: every changed channel goes to checkpoint_blobs.
AllNewChannels(a) == a.new

\* Channels whose value goes to checkpoint_blobs, of those put was given as
\* changed; every primitive value goes into the checkpoint itself.
BlobChannels(a) == {ch \in a.new : a.vals[ch] \in Objects}
Inline(a) == [ch \in Channels |-> IF a.vals[ch] \in Primitives THEN a.vals[ch] ELSE NoVal]

-----------------------------------------------------------------------------
Init ==
    /\ db = [tb \in Tables |-> Empty]
    /\ tx = [s \in Savers |-> NoTx]
    /\ pc = [s \in Savers |-> "idle"]
    /\ call = Empty
    /\ base = Empty
    /\ asked = Empty
    /\ severed = {}

Goto(s, label) == pc' = [pc EXCEPT ![s] = label]

\* Deleting a thread a run is using, or loading one being deleted, is the
\* race that Exclusive rules out.
MayUse(t) ==
    Exclusive => \A s \in DOMAIN call :
                    call[s].op = "delete_thread" => call[s].thread # t
MayDelete(t) == Exclusive => \A s \in DOMAIN base : base[s].thread # t

-----------------------------------------------------------------------------
\* get_tuple: a run starts from the latest checkpoint, or from a given one.

StartFrom(s, t, n, i) ==
    LET row == db.checkpoints[[thread |-> t, ns |-> n, id |-> i]]
    IN base' = With(base, s,
         [thread |-> t, ns |-> n, id |-> i, vers |-> row.vers,
          vals |-> LoadedValues(db, t, n, row)])

GetLatest(s, t, n) ==
    /\ pc[s] = "idle"
    /\ MayUse(t)
    /\ \E i \in Latest(t, n) : StartFrom(s, t, n, i)
    /\ UNCHANGED <<db, tx, pc, call, asked, severed>>

GetTuple(s, t, n, i) ==
    /\ pc[s] = "idle"
    /\ MayUse(t)
    /\ i \in StoredIds(t, n)
    /\ StartFrom(s, t, n, i)
    /\ UNCHANGED <<db, tx, pc, call, asked, severed>>

\* get_tuple answers None: the run starts with nothing.
GetNone(s, t, n) ==
    /\ pc[s] = "idle"
    /\ MayUse(t)
    /\ StoredIds(t, n) = {}
    /\ base' = With(base, s,
         [thread |-> t, ns |-> n, id |-> NoId,
          vers |-> [ch \in Channels |-> NoVersion],
          vals |-> [ch \in Channels |-> NoVal]])
    /\ UNCHANGED <<db, tx, pc, call, asked, severed>>

\* The run ends: the caller drops what it loaded.
EndRun(s) ==
    /\ pc[s] = "idle" /\ s \in DOMAIN base
    /\ base' = Without(base, {s})
    /\ UNCHANGED <<db, tx, pc, call, asked, severed>>

-----------------------------------------------------------------------------
\* put: INSERT IGNORE every new blob, then upsert the checkpoint.

\* put starts with the checkpoint row when no changed channel holds an object.
PutStart(a) == IF BlobChannels(a) = {} THEN "checkpoint" ELSE "blobs"

\* The arguments of put when the run has computed its next checkpoint: the
\* channels in new got a fresh value and the version v, the others keep theirs.
NextCheckpoint(b, new, v, fresh) ==
    [thread |-> b.thread, ns |-> b.ns, parent |-> b.id, new |-> new,
     vers |-> [ch \in Channels |-> IF ch \in new THEN v ELSE b.vers[ch]],
     vals |-> [ch \in Channels |-> IF ch \in new THEN fresh[ch] ELSE b.vals[ch]]]

Put(s) ==
    /\ "put" \in Ops /\ pc[s] = "idle" /\ s \in DOMAIN base
    /\ \E i \in Ids :
         /\ DOMAIN asked = {j \in Ids : j < i}
         /\ \E new \in SUBSET Channels, v \in NextVersion(base[s].vers, i) :
            \E fresh \in [new -> Objects \cup Primitives \cup {NoVal}] :
              LET a == NextCheckpoint(base[s], new, v, fresh) IN
                /\ asked' = With(asked, i, a)
                /\ call' = With(call, s, [op |-> "put", id |-> i, todo |-> BlobChannels(a)])
                /\ Goto(s, PutStart(a))
         /\ severed' = IF base[s].id \in severed THEN severed \cup {i} ELSE severed
    /\ UNCHANGED <<db, tx, base>>

\* Mutant: put without a transaction, each statement commits on its own.
PutBlobAutocommit(s) ==
    /\ pc[s] = "blobs"
    /\ LET a == asked[call[s].id] IN
       \E ch \in call[s].todo :
         LET k == BlobKey(a.thread, a.ns, ch, a.vers[ch]) IN
         /\ RowFree(s, "blobs", k)
         /\ db' = [db EXCEPT !.blobs = IF k \in DOMAIN @ THEN @ ELSE With(@, k, a.vals[ch])]
         /\ call' = [call EXCEPT ![s].todo = @ \ {ch}]
         /\ Goto(s, IF call[s].todo = {ch} THEN "checkpoint" ELSE "blobs")
    /\ UNCHANGED <<tx, base, asked, severed>>

PutBlob(s) ==
    /\ pc[s] = "blobs"
    /\ LET a == asked[call[s].id] IN
       \E ch \in call[s].todo :
         /\ InsertIgnore(s, "blobs", BlobKey(a.thread, a.ns, ch, a.vers[ch]), a.vals[ch])
         /\ call' = [call EXCEPT ![s].todo = @ \ {ch}]
         /\ Goto(s, IF call[s].todo = {ch} THEN "checkpoint" ELSE "blobs")
    /\ UNCHANGED <<db, base, asked, severed>>

\* ON DUPLICATE KEY UPDATE leaves parent_checkpoint_id alone.
PutCheckpoint(s) ==
    /\ pc[s] = "checkpoint"
    /\ LET i == call[s].id
           a == asked[i]
           k == [thread |-> a.thread, ns |-> a.ns, id |-> i]
           seen == Seen(s, "checkpoints")
       IN Upsert(s, "checkpoints", k,
            [parent |-> IF k \in DOMAIN seen THEN seen[k].parent ELSE a.parent,
             vers |-> a.vers, inline |-> Inline(a)])
    /\ Goto(s, "commit")
    /\ UNCHANGED <<db, call, base, asked, severed>>

-----------------------------------------------------------------------------
\* put_writes: one row per write of a task of the loaded checkpoint.

PutWrites(s) ==
    /\ "put_writes" \in Ops /\ pc[s] = "idle" /\ s \in DOMAIN base
    /\ base[s].id # NoId
    /\ \E tk \in Tasks, ws \in WriteLists :
         /\ call' = With(call, s,
              [op |-> "put_writes", thread |-> base[s].thread, ns |-> base[s].ns,
               id |-> base[s].id, task |-> tk, writes |-> ws, next |-> 1])
         /\ Goto(s, IF ws = <<>> THEN "commit" ELSE "writes")
    /\ UNCHANGED <<db, tx, base, asked, severed>>

\* Mutant: put_writes without a transaction.
PutWriteAutocommit(s) ==
    /\ pc[s] = "writes"
    /\ LET c == call[s]
           k == WriteKey(c.thread, c.ns, c.id, c.task, WriteIdx(c.writes, c.next))
       IN /\ RowFree(s, "writes", k)
          /\ db' = [db EXCEPT !.writes = IF k \in DOMAIN @ /\ ~Overwrites(c.writes)
                                         THEN @ ELSE With(@, k, c.writes[c.next])]
          /\ call' = [call EXCEPT ![s].next = @ + 1]
          /\ Goto(s, IF c.next = Len(c.writes) THEN "commit" ELSE "writes")
    /\ UNCHANGED <<tx, base, asked, severed>>

\* Mutant: put_writes always uses INSERT IGNORE.
PutWriteIgnore(s) ==
    /\ pc[s] = "writes"
    /\ LET c == call[s]
           k == WriteKey(c.thread, c.ns, c.id, c.task, WriteIdx(c.writes, c.next))
       IN /\ InsertIgnore(s, "writes", k, c.writes[c.next])
          /\ call' = [call EXCEPT ![s].next = @ + 1]
          /\ Goto(s, IF c.next = Len(c.writes) THEN "commit" ELSE "writes")
    /\ UNCHANGED <<db, base, asked, severed>>

PutWrite(s) ==
    /\ pc[s] = "writes"
    /\ LET c == call[s]
           k == WriteKey(c.thread, c.ns, c.id, c.task, WriteIdx(c.writes, c.next))
           row == c.writes[c.next]
       IN /\ IF Overwrites(c.writes)
             THEN Upsert(s, "writes", k, row)
             ELSE InsertIgnore(s, "writes", k, row)
          /\ call' = [call EXCEPT ![s].next = @ + 1]
          /\ Goto(s, IF c.next = Len(c.writes) THEN "commit" ELSE "writes")
    /\ UNCHANGED <<db, base, asked, severed>>

-----------------------------------------------------------------------------
\* delete_thread: checkpoints, then blobs, then writes, in every namespace.

DeleteThread(s) ==
    /\ "delete_thread" \in Ops /\ pc[s] = "idle"
    /\ \E t \in Threads :
         /\ MayDelete(t)
         /\ call' = With(call, s, [op |-> "delete_thread", thread |-> t])
    /\ Goto(s, "delete_checkpoints")
    /\ UNCHANGED <<db, tx, base, asked, severed>>

\* Mutant: delete_thread without a transaction.
DeleteCheckpointsAutocommit(s) ==
    /\ pc[s] = "delete_checkpoints"
    /\ ThreadFree(s, "checkpoints", call[s].thread)
    /\ db' = [db EXCEPT !.checkpoints =
                 Without(@, {k \in DOMAIN @ : k.thread = call[s].thread})]
    /\ Goto(s, "delete_blobs")
    /\ UNCHANGED <<tx, call, base, asked, severed>>

DeleteCheckpoints(s) ==
    /\ pc[s] = "delete_checkpoints"
    /\ DeleteWhereThread(s, "checkpoints", call[s].thread)
    /\ Goto(s, "delete_blobs")
    /\ UNCHANGED <<db, call, base, asked, severed>>

DeleteBlobs(s) ==
    /\ pc[s] = "delete_blobs"
    /\ DeleteWhereThread(s, "blobs", call[s].thread)
    /\ Goto(s, "delete_writes")
    /\ UNCHANGED <<db, call, base, asked, severed>>

DeleteWrites(s) ==
    /\ pc[s] = "delete_writes"
    /\ DeleteWhereThread(s, "writes", call[s].thread)
    /\ Goto(s, "commit")
    /\ UNCHANGED <<db, call, base, asked, severed>>

-----------------------------------------------------------------------------
\* The end of a transaction (_cursor), and failures.

\* The server commits.  Every checkpoint put or being put in a thread that is
\* deleted is cut off from the rows it builds on.
ServerCommits(s) ==
    /\ db' = [tb \in Tables |-> Applied(tx[s][tb], db[tb])]
    /\ tx' = [tx EXCEPT ![s] = NoTx]
    /\ severed' = IF call[s].op = "delete_thread"
                  THEN severed \cup {i \in DOMAIN asked : asked[i].thread = call[s].thread}
                  ELSE severed

\* The call returns; after a put the run goes on from the new checkpoint.
Commit(s) ==
    /\ pc[s] = "commit"
    /\ ServerCommits(s)
    /\ base' = IF call[s].op = "put"
               THEN LET a == asked[call[s].id] IN
                    [base EXCEPT ![s].id = call[s].id, ![s].vers = a.vers, ![s].vals = a.vals]
               ELSE base
    /\ call' = Without(call, {s})
    /\ Goto(s, "idle")
    /\ UNCHANGED asked

\* conn.commit() raises although the server has committed; the rollback that
\* follows finds no transaction.
CommitLost(s) ==
    /\ pc[s] = "commit"
    /\ ServerCommits(s)
    /\ Goto(s, "raised")
    /\ UNCHANGED <<call, base, asked>>

Statements == {"blobs", "checkpoint", "writes", "delete_checkpoints",
               "delete_blobs", "delete_writes", "commit"}

\* Mutant: the exception is swallowed, and the run goes on from what it put.
StatementFailsSilently(s) ==
    /\ pc[s] \in Statements
    /\ tx' = [tx EXCEPT ![s] = NoTx]
    /\ base' = IF call[s].op = "put"
               THEN [base EXCEPT ![s].id = call[s].id, ![s].vers = asked[call[s].id].vers,
                                 ![s].vals = asked[call[s].id].vals]
               ELSE base
    /\ call' = Without(call, {s})
    /\ Goto(s, "idle")
    /\ UNCHANGED <<db, asked, severed>>

\* A statement raises (connection error, deadlock victim, lock wait timeout):
\* except: conn.rollback(); raise.
StatementFails(s) ==
    /\ pc[s] \in Statements
    /\ tx' = [tx EXCEPT ![s] = NoTx]
    /\ Goto(s, "raised")
    /\ UNCHANGED <<db, call, base, asked, severed>>

\* The caller makes the same call again, or gives up and ends its run.
Retry(s) ==
    /\ pc[s] = "raised"
    /\ CASE call[s].op = "put" ->
              /\ call' = [call EXCEPT ![s].todo = BlobChannels(asked[call[s].id])]
              /\ Goto(s, PutStart(asked[call[s].id]))
         [] call[s].op = "put_writes" ->
              /\ call' = [call EXCEPT ![s].next = 1]
              /\ Goto(s, IF call[s].writes = <<>> THEN "commit" ELSE "writes")
         [] call[s].op = "delete_thread" ->
              /\ call' = call
              /\ Goto(s, "delete_checkpoints")
    /\ UNCHANGED <<db, tx, base, asked, severed>>

GiveUp(s) ==
    /\ pc[s] = "raised"
    /\ call' = Without(call, {s})
    /\ base' = Without(base, {s})
    /\ Goto(s, "idle")
    /\ UNCHANGED <<db, tx, asked, severed>>

\* The process dies: the server rolls its transaction back.
Crash(s) ==
    /\ pc[s] \in Statements
    /\ tx' = [tx EXCEPT ![s] = NoTx]
    /\ call' = Without(call, {s})
    /\ base' = Without(base, {s})
    /\ Goto(s, "idle")
    /\ UNCHANGED <<db, asked, severed>>

-----------------------------------------------------------------------------
\* The calls as the asyncio twin awaits them, statement by statement.
GetTupleCall(s) ==
    \E t \in Threads, n \in Namespaces :
        \/ GetLatest(s, t, n)
        \/ GetNone(s, t, n)
        \/ \E i \in Ids : GetTuple(s, t, n, i)
PutCall(s) == Put(s) \/ PutBlob(s) \/ PutCheckpoint(s)
PutWritesCall(s) == PutWrites(s) \/ PutWrite(s)
DeleteThreadCall(s) ==
    DeleteThread(s) \/ DeleteCheckpoints(s) \/ DeleteBlobs(s) \/ DeleteWrites(s)
EndTransaction(s) == Commit(s) \/ CommitLost(s) \/ StatementFails(s)

Next ==
    \E s \in Savers :
        \/ GetTupleCall(s) \/ EndRun(s)
        \/ PutCall(s) \/ PutWritesCall(s) \/ DeleteThreadCall(s)
        \/ EndTransaction(s) \/ Retry(s) \/ GiveUp(s) \/ Crash(s)

Spec == Init /\ [][Next]_vars

-----------------------------------------------------------------------------
\* Properties.

Row == [parent : Ids \cup {NoId}, vers : [Channels -> (Nat \X (Ids \cup {NoId}))],
        inline : [Channels -> Primitives \cup {NoVal}]]

\* Type invariant: the rows of the tables, the arguments of the puts and the
\* checkpoints the runs hold have the columns and values the schema allows,
\* and exactly the savers that are in a call have one.
TypeOK ==
    /\ DOMAIN db = Tables
    /\ DOMAIN db.checkpoints \subseteq CheckpointKey
    /\ \A k \in DOMAIN db.checkpoints : db.checkpoints[k] \in Row
    /\ \A k \in DOMAIN db.blobs : db.blobs[k] \in Objects
    /\ \A k \in DOMAIN db.writes : db.writes[k] \in [channel : STRING, value : STRING]
    /\ pc \in [Savers -> Statements \cup {"idle", "raised"}]
    /\ DOMAIN call = {s \in Savers : pc[s] # "idle"}
    /\ DOMAIN base \subseteq Savers
    /\ DOMAIN asked \subseteq Ids
    /\ severed \subseteq DOMAIN asked

\* put stores the checkpoint and the blobs of its changed channels together:
\* whatever other calls, crashes and failures happen in between, a checkpoint
\* that can be read has every value its own put was given for them.
OwnValues ==
    \A k \in DOMAIN db.checkpoints :
        \A ch \in asked[k.id].new : Loaded(k)[ch] = asked[k.id].vals[ch]

\* Reading a checkpoint gives back all the values it was put with, also those
\* whose blobs earlier checkpoints stored, unless its thread was deleted
\* under the run that put it.
ReadBack ==
    \A k \in DOMAIN db.checkpoints :
        k.id \notin severed => Loaded(k) = asked[k.id].vals

\* The checkpoint a run continues from stays stored until its thread is deleted.
BaseStored ==
    \A s \in DOMAIN base :
        base[s].id \in Ids \ severed =>
            [thread |-> base[s].thread, ns |-> base[s].ns, id |-> base[s].id]
                \in DOMAIN db.checkpoints

\* The places of the regular writes in a list, and the row of the task of row
\* k for the j-th write.
Regular(ws) == {j \in DOMAIN ws : ~Special(ws[j])}
RowBeside(k, j) == [k EXCEPT !.idx = j - 1]

\* No failure or crash cuts an attempt of a task. Of the task that stored a
\* regular row, one attempt (the first) is stored whole, with its own values;
\* and some attempt to which the row itself belongs has a row for each of its
\* regular writes: its own row, or one that an earlier attempt left there.
\* (INSERT IGNORE does mix attempts that disagree: a later one fills the places
\* that the earlier ones did not have.)
NoAttemptCut ==
    \A k \in DOMAIN db.writes :
        k.idx >= 0 =>
            /\ \E ws \in WriteLists :
                 /\ Regular(ws) # {}
                 /\ \A j \in Regular(ws) :
                      RowBeside(k, j) \in DOMAIN db.writes /\ db.writes[RowBeside(k, j)] = ws[j]
            /\ \E ws \in WriteLists :
                 /\ k.idx + 1 \in Regular(ws) /\ db.writes[k] = ws[k.idx + 1]
                 /\ \A j \in Regular(ws) : RowBeside(k, j) \in DOMAIN db.writes

\* A regular write, once stored, is never replaced by a later attempt of the
\* task: it stays until its thread is deleted as a whole.
KeepsFirstAttempt ==
    \A k \in DOMAIN db.writes :
        k.idx >= 0 =>
            \/ k \in DOMAIN db'.writes /\ db'.writes[k] = db.writes[k]
            \/ \A x \in DOMAIN db'.writes : x.thread # k.thread

FirstAttemptStays == [][KeepsFirstAttempt]_vars

\* When put_writes returns, each of its writes has its row; writes to special
\* channels alone (a new error, an answered interrupt) replace the old ones.
ReturnsStored ==
    \A s \in Savers :
        (pc[s] = "commit" /\ pc'[s] = "idle" /\ s \in DOMAIN base' /\ call[s].op = "put_writes")
        => LET c == call[s]
               Key(j) == WriteKey(c.thread, c.ns, c.id, c.task, WriteIdx(c.writes, j))
           IN \A j \in DOMAIN c.writes :
                /\ Key(j) \in DOMAIN db'.writes
                /\ Overwrites(c.writes) => \E m \in DOMAIN c.writes :
                      m >= j /\ Key(m) = Key(j) /\ db'.writes[Key(j)] = c.writes[m]

ReturnedWritesStored == [][ReturnsStored]_vars

\* When delete_thread commits, no row of the thread is left in any table and
\* any namespace, whatever was stored while it ran.
LeavesNothing ==
    \A s \in Savers :
        (Commit(s) \/ CommitLost(s)) /\ call[s].op = "delete_thread"
        => \A tb \in Tables : \A k \in DOMAIN db'[tb] : k.thread # call[s].thread

DeletedThreadIsGone == [][LeavesNothing]_vars

\* The newest checkpoint a reader can see only moves forward: get_tuple without
\* an id never answers with something older than what the same run already
\* holds, unless the thread was deleted.
NeverOlder ==
    \A s \in DOMAIN base, t \in Threads, n \in Namespaces :
        (GetLatest(s, t, n) /\ base[s].thread = t /\ base[s].ns = n /\ base[s].id \notin severed)
        => base'[s].id >= base[s].id

LatestMovesForward == [][NeverOlder]_vars

\* Refinement: the tables, read the way get_tuple reads them, are a history
\* that changes as CheckpointHistory says.
History == INSTANCE CheckpointHistory WITH
    history <- [k \in DOMAIN db.checkpoints |->
                  [parent |-> db.checkpoints[k].parent, vals |-> Loaded(k)]],
    writes <- db.writes

ImplementsHistory == History!Spec

=============================================================================
