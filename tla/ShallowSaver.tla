---------------------------- MODULE ShallowSaver ----------------------------
(***************************************************************************)
(* The shallow saver (shallow.py): BaseShallowSyncMySQLSaver and its       *)
(* asyncio twin.  A thread and namespace has one checkpoint row and one    *)
(* blob row per channel, both overwritten by every put.                    *)
(*                                                                         *)
(* Several savers, each with a connection of its own, are driven by runs   *)
(* of langgraph: a run loads the checkpoint, computes the next one, puts   *)
(* it, and stores its tasks' writes from background threads, so that       *)
(* put_writes of a checkpoint can come before its put or much later.       *)
(*                                                                         *)
(* The database is InnoDB as in Saver, but DELETE ... NOT IN locks the     *)
(* rows it scans and the gaps between them: two of them exclude each       *)
(* other only where there are rows, and both keep new rows out.            *)
(***************************************************************************)
EXTENDS SaverData

CONSTANTS Savers   \* saver objects, one connection each

VARIABLES
    db,      \* the committed rows of the three tables
    tx,      \* tx[s]: the open transaction on the connection of s
    pc,      \* pc[s]: the statement the call of s executes next
    call,    \* call[s]: the arguments of the call s is in
    run,     \* run[s]: the checkpoint the run driven through s has reached
    asked,   \* asked[i]: what the put of checkpoint i was asked to store
    mixed    \* the scopes two runs have used at the same time

vars == <<db, tx, pc, call, run, asked, mixed>>

\* Primary keys.  Every row of a thread and namespace is in their scope.
Scope(t, n) == [thread |-> t, ns |-> n]
ScopeOf(k) == Scope(k.thread, k.ns)
ShallowBlobKey(a, ch) == [thread |-> a.thread, ns |-> a.ns, channel |-> ch]

\* A config of a run without a checkpoint: no checkpoint_id, for which put
\* compares with "", or checkpoint_id None, for which it compares with NULL.
NullId == -1

-----------------------------------------------------------------------------
\* Statements and row locks (InnoDB).

Seen(s, tb) == Applied(tx[s][tb], db[tb])

\* An existing row only needs its lock, a new one also a free gap.
RowFree(s, tb, k) ==
    \A r \in Savers \ {s} :
        /\ k \notin tx[r][tb].rows
        /\ k \in DOMAIN Seen(s, tb) \/ ScopeOf(k) \notin tx[r][tb].ranges

ScannedFree(s, tb, sc) ==
    \A r \in Savers \ {s} : \A k \in tx[r][tb].rows : ScopeOf(k) # sc

\* INSERT ... ON DUPLICATE KEY UPDATE.
Upsert(s, tb, k, row) ==
    /\ RowFree(s, tb, k)
    /\ tx' = [tx EXCEPT ![s][tb].rows = @ \cup {k},
                        ![s][tb].set = With(@, k, row)]

\* INSERT IGNORE.
InsertIgnore(s, tb, k, row) ==
    /\ RowFree(s, tb, k)
    /\ tx' = [tx EXCEPT ![s][tb].rows = @ \cup {k},
                        ![s][tb].set = IF k \in DOMAIN Seen(s, tb)
                                       THEN @ ELSE With(@, k, row)]

\* DELETE FROM checkpoint_writes WHERE ... AND checkpoint_id NOT IN (i, p):
\* nothing is unequal to NULL.
DeleteWritesNotIn(s, sc, i, p) ==
    LET scanned == {k \in DOMAIN Seen(s, "writes") : ScopeOf(k) = sc} IN
    /\ ScannedFree(s, "writes", sc)
    /\ tx' = [tx EXCEPT ![s]["writes"].ranges = @ \cup {sc},
                        ![s]["writes"].rows = @ \cup scanned,
                        ![s]["writes"].del = IF p = NullId THEN {}
                                             ELSE {k \in scanned : k.id \notin {i, p}}]

-----------------------------------------------------------------------------
\* What the rows mean.

\* SELECT_SQL and _load_blobs: the values of the channels the checkpoint knows,
\* whichever put stored them.
LoadedValues(tables, sc) ==
    [ch \in Channels |->
        LET k == ShallowBlobKey(sc, ch)
        IN IF ch \in tables.checkpoints[sc].chans /\ k \in DOMAIN tables.blobs
           THEN tables.blobs[k] ELSE NoVal]

Loaded(sc) == LoadedValues(db, sc)

\* Mutant: a channel that lost its value gets no row.
DumpValuesOnly(a) == {ch \in a.new : a.vals[ch] # NoVal}

\* _dump_blobs: a row for every changed channel, "empty" if it has no value.
DumpBlobs(a) == a.new

-----------------------------------------------------------------------------
Init ==
    /\ db = [tb \in Tables |-> Empty]
    /\ tx = [s \in Savers |-> NoTx]
    /\ pc = [s \in Savers |-> "idle"]
    /\ call = Empty
    /\ run = Empty
    /\ asked = Empty
    /\ mixed = {}

Goto(s, label) == pc' = [pc EXCEPT ![s] = label]

-----------------------------------------------------------------------------
\* Runs (external: langgraph).

\* A run starts from a checkpoint, or with nothing.
StartRun(s, sc, i, chans, vals) ==
    /\ s \notin DOMAIN run
    /\ run' = With(run, s,
         [thread |-> sc.thread, ns |-> sc.ns, id |-> i, chans |-> chans, vals |-> vals,
          ids |-> {i} \cap Ids, unput |-> FALSE])
    /\ mixed' = IF \E r \in DOMAIN run : ScopeOf(run[r]) = sc THEN mixed \cup {sc} ELSE mixed

\* The run computes its next checkpoint from the one it has, which has been put.
\* The channels in new have changed: they got a value, or lost the one they had.
NextCheckpoint(s) ==
    /\ pc[s] = "idle" /\ s \in DOMAIN run /\ ~run[s].unput
    /\ \E i \in Ids, new \in SUBSET Channels :
       \E fresh \in [new -> Objects \cup {NoVal}] :
         LET a == [thread |-> run[s].thread, ns |-> run[s].ns, parent |-> run[s].id,
                   new |-> new, chans |-> run[s].chans \cup new,
                   vals |-> [ch \in Channels |->
                               IF ch \in new THEN fresh[ch] ELSE run[s].vals[ch]]]
         IN /\ DOMAIN asked = {j \in Ids : j < i}
            /\ \A ch \in new : fresh[ch] = NoVal => run[s].vals[ch] # NoVal
            /\ asked' = With(asked, i, a)
            /\ run' = [run EXCEPT ![s].id = i, ![s].chans = a.chans, ![s].vals = a.vals,
                                  ![s].ids = @ \cup {i}, ![s].unput = TRUE]
    /\ UNCHANGED <<db, tx, pc, call, mixed>>

EndRun(s) ==
    /\ pc[s] = "idle" /\ s \in DOMAIN run /\ ~run[s].unput
    /\ run' = Without(run, {s})
    /\ UNCHANGED <<db, tx, pc, call, asked, mixed>>

-----------------------------------------------------------------------------
\* get_tuple: the one checkpoint of the scope, whatever id the config names.

GetTuple(s, t, n) ==
    LET sc == Scope(t, n) IN
    /\ pc[s] = "idle"
    /\ sc \in DOMAIN db.checkpoints
    /\ StartRun(s, sc, db.checkpoints[sc].id, db.checkpoints[sc].chans, Loaded(sc))
    /\ UNCHANGED <<db, tx, pc, call, asked>>

GetNone(s, t, n) ==
    LET sc == Scope(t, n) IN
    /\ pc[s] = "idle"
    /\ sc \notin DOMAIN db.checkpoints
    /\ \E i \in {NoId, NullId} : StartRun(s, sc, i, {}, [ch \in Channels |-> NoVal])
    /\ UNCHANGED <<db, tx, pc, call, asked>>

-----------------------------------------------------------------------------
\* put: delete the writes of superseded checkpoints, upsert the blobs of the
\* changed channels, upsert the checkpoint.

Put(s) ==
    /\ pc[s] = "idle" /\ s \in DOMAIN run /\ run[s].unput
    /\ call' = With(call, s,
         [op |-> "put", id |-> run[s].id, todo |-> DumpBlobs(asked[run[s].id])])
    /\ Goto(s, "delete")
    /\ UNCHANGED <<db, tx, run, asked, mixed>>

AfterDelete(a) == IF DumpBlobs(a) = {} THEN "checkpoint" ELSE "blobs"

\* Mutant: only the writes of the parent are kept.
PutDeleteOwn(s) ==
    /\ pc[s] = "delete"
    /\ LET i == call[s].id  a == asked[i] IN
         /\ DeleteWritesNotIn(s, ScopeOf(a), a.parent, a.parent)
         /\ Goto(s, AfterDelete(a))
    /\ UNCHANGED <<db, call, run, asked, mixed>>

\* Mutant: a parent that is missing from the config is NULL too.
PutDeleteNull(s) ==
    /\ pc[s] = "delete"
    /\ LET i == call[s].id  a == asked[i] IN
         /\ DeleteWritesNotIn(s, ScopeOf(a), i, IF a.parent = NoId THEN NullId ELSE a.parent)
         /\ Goto(s, AfterDelete(a))
    /\ UNCHANGED <<db, call, run, asked, mixed>>

PutDelete(s) ==
    /\ pc[s] = "delete"
    /\ LET i == call[s].id  a == asked[i] IN
         /\ DeleteWritesNotIn(s, ScopeOf(a), i, a.parent)
         /\ Goto(s, AfterDelete(a))
    /\ UNCHANGED <<db, call, run, asked, mixed>>

AfterBlob(s, ch) == IF call[s].todo = {ch} THEN "checkpoint" ELSE "blobs"

\* Mutant: put without a transaction.
PutBlobAutocommit(s) ==
    /\ pc[s] = "blobs"
    /\ LET a == asked[call[s].id] IN
       \E ch \in call[s].todo :
         /\ RowFree(s, "blobs", ShallowBlobKey(a, ch))
         /\ db' = [db EXCEPT !.blobs = With(@, ShallowBlobKey(a, ch), a.vals[ch])]
         /\ call' = [call EXCEPT ![s].todo = @ \ {ch}]
         /\ Goto(s, AfterBlob(s, ch))
    /\ UNCHANGED <<tx, run, asked, mixed>>

PutBlob(s) ==
    /\ pc[s] = "blobs"
    /\ LET a == asked[call[s].id] IN
       \E ch \in call[s].todo :
         /\ Upsert(s, "blobs", ShallowBlobKey(a, ch), a.vals[ch])
         /\ call' = [call EXCEPT ![s].todo = @ \ {ch}]
         /\ Goto(s, AfterBlob(s, ch))
    /\ UNCHANGED <<db, run, asked, mixed>>

\* Mutant: one row per checkpoint, as in the full-history saver.
PutCheckpointPerId(s) ==
    /\ pc[s] = "checkpoint"
    /\ LET i == call[s].id  a == asked[i] IN
         Upsert(s, "checkpoints", [thread |-> a.thread, ns |-> a.ns, id |-> i],
                [id |-> i, chans |-> a.chans])
    /\ Goto(s, "commit")
    /\ UNCHANGED <<db, call, run, asked, mixed>>

PutCheckpoint(s) ==
    /\ pc[s] = "checkpoint"
    /\ LET i == call[s].id  a == asked[i] IN
         Upsert(s, "checkpoints", ScopeOf(a), [id |-> i, chans |-> a.chans])
    /\ Goto(s, "commit")
    /\ UNCHANGED <<db, call, run, asked, mixed>>

-----------------------------------------------------------------------------
\* put_writes, for any checkpoint the run has reached so far.

PutWrites(s) ==
    /\ pc[s] = "idle" /\ s \in DOMAIN run
    /\ \E i \in run[s].ids, tk \in Tasks, ws \in WriteLists :
         /\ call' = With(call, s,
              [op |-> "put_writes", thread |-> run[s].thread, ns |-> run[s].ns,
               id |-> i, task |-> tk, writes |-> ws, next |-> 1])
         /\ Goto(s, IF ws = <<>> THEN "commit" ELSE "writes")
    /\ UNCHANGED <<db, tx, run, asked, mixed>>

PutWrite(s) ==
    /\ pc[s] = "writes"
    /\ LET c == call[s]
           k == WriteKey(c.thread, c.ns, c.id, c.task, WriteIdx(c.writes, c.next))
           row == c.writes[c.next]
       IN /\ IF Overwrites(c.writes)
             THEN Upsert(s, "writes", k, row)
             ELSE InsertIgnore(s, "writes", k, row)
          /\ call' = [call EXCEPT ![s].next = @ + 1]
          /\ Goto(s, IF c.next = Len(c.writes) THEN "commit" ELSE "writes")
    /\ UNCHANGED <<db, run, asked, mixed>>

-----------------------------------------------------------------------------
\* The end of a transaction (_cursor), and failures.

ServerCommits(s) ==
    /\ db' = [tb \in Tables |-> Applied(tx[s][tb], db[tb])]
    /\ tx' = [tx EXCEPT ![s] = NoTx]

\* The call returns.
Commit(s) ==
    /\ pc[s] = "commit"
    /\ ServerCommits(s)
    /\ run' = IF call[s].op = "put" THEN [run EXCEPT ![s].unput = FALSE] ELSE run
    /\ call' = Without(call, {s})
    /\ Goto(s, "idle")
    /\ UNCHANGED <<asked, mixed>>

\* conn.commit() raises although the server has committed.
CommitLost(s) ==
    /\ pc[s] = "commit"
    /\ ServerCommits(s)
    /\ Goto(s, "raised")
    /\ UNCHANGED <<call, run, asked, mixed>>

Statements == {"delete", "blobs", "checkpoint", "writes", "commit"}

\* Mutant: the exception is swallowed, and the run goes on.
StatementFailsSilently(s) ==
    /\ pc[s] \in Statements
    /\ tx' = [tx EXCEPT ![s] = NoTx]
    /\ run' = IF call[s].op = "put" THEN [run EXCEPT ![s].unput = FALSE] ELSE run
    /\ call' = Without(call, {s})
    /\ Goto(s, "idle")
    /\ UNCHANGED <<db, asked, mixed>>

\* A statement raises: except: conn.rollback(); raise.
StatementFails(s) ==
    /\ pc[s] \in Statements
    /\ tx' = [tx EXCEPT ![s] = NoTx]
    /\ Goto(s, "raised")
    /\ UNCHANGED <<db, call, run, asked, mixed>>

\* The caller makes the same call again, or gives up and ends its run.
Retry(s) ==
    /\ pc[s] = "raised"
    /\ IF call[s].op = "put"
       THEN /\ call' = [call EXCEPT ![s].todo = DumpBlobs(asked[call[s].id])]
            /\ Goto(s, "delete")
       ELSE /\ call' = [call EXCEPT ![s].next = 1]
            /\ Goto(s, IF call[s].writes = <<>> THEN "commit" ELSE "writes")
    /\ UNCHANGED <<db, tx, run, asked, mixed>>

\* The run ends: its caller gives up, or its process dies at any point and the
\* server rolls its transaction back.
StopRun(s) ==
    /\ tx' = [tx EXCEPT ![s] = NoTx]
    /\ call' = Without(call, {s})
    /\ run' = Without(run, {s})
    /\ Goto(s, "idle")
    /\ UNCHANGED <<db, asked, mixed>>

GiveUp(s) == pc[s] = "raised" /\ StopRun(s)
Crash(s) == s \in DOMAIN run /\ pc[s] # "raised" /\ StopRun(s)

-----------------------------------------------------------------------------
\* The calls as the asyncio twin awaits them, statement by statement.
GetTupleCall(s) ==
    \E t \in Threads, n \in Namespaces : GetTuple(s, t, n) \/ GetNone(s, t, n)
PutCall(s) == Put(s) \/ PutDelete(s) \/ PutBlob(s) \/ PutCheckpoint(s)
PutWritesCall(s) == PutWrites(s) \/ PutWrite(s)
EndTransaction(s) == Commit(s) \/ CommitLost(s) \/ StatementFails(s)

Next ==
    \E s \in Savers :
        \/ GetTupleCall(s) \/ NextCheckpoint(s) \/ EndRun(s)
        \/ PutCall(s) \/ PutWritesCall(s)
        \/ EndTransaction(s) \/ Retry(s) \/ GiveUp(s) \/ Crash(s)

Spec == Init /\ [][Next]_vars

-----------------------------------------------------------------------------
\* Properties.

\* Type invariant: one checkpoint row per scope and one blob row per channel of
\* it, and exactly the savers that are in a call have one.
TypeOK ==
    /\ DOMAIN db = Tables
    /\ DOMAIN db.checkpoints \subseteq [thread : Threads, ns : Namespaces]
    /\ \A sc \in DOMAIN db.checkpoints :
         db.checkpoints[sc] \in [id : DOMAIN asked, chans : SUBSET Channels]
    /\ DOMAIN db.blobs \subseteq [thread : Threads, ns : Namespaces, channel : Channels]
    /\ \A k \in DOMAIN db.blobs : db.blobs[k] \in Objects \cup {NoVal}
    /\ \A k \in DOMAIN db.writes : db.writes[k] \in [channel : STRING, value : STRING]
    /\ pc \in [Savers -> Statements \cup {"idle", "raised"}]
    /\ DOMAIN call = {s \in Savers : pc[s] # "idle"}
    /\ DOMAIN call \subseteq DOMAIN run

\* Whatever puts run at the same time, fail, retry or crash, the stored
\* checkpoint has the values its own put changed: the blobs and the checkpoint
\* row that overwrites another's are stored together.
OwnValues ==
    \A sc \in DOMAIN db.checkpoints :
        LET a == asked[db.checkpoints[sc].id]
        IN \A ch \in a.new : Loaded(sc)[ch] = a.vals[ch]

\* As long as runs of a scope come one after the other, however each of them
\* ended, get_tuple gives back all the values of the stored checkpoint.
ReadBack ==
    \A sc \in DOMAIN db.checkpoints :
        sc \notin mixed => Loaded(sc) = asked[db.checkpoints[sc].id].vals

\* As long as runs of a scope come one after the other, what a run has reached
\* is what is stored, but for the checkpoint it is just putting.
RunOnStored ==
    \A s \in DOMAIN run :
        LET sc == ScopeOf(run[s])
            stored == IF sc \in DOMAIN db.checkpoints
                      THEN {db.checkpoints[sc].id} ELSE {NoId, NullId}
        IN sc \notin mixed =>
             \/ run[s].id \in stored
             \/ run[s].unput /\ asked[run[s].id].parent \in stored

\* put never drops the writes a resumed run needs: those of the checkpoint that
\* is stored afterwards (its tasks may have written before it was put) and
\* those of its parent (its pending sends).
NeededWritesKept ==
    [][\A k \in DOMAIN db.writes \ DOMAIN db'.writes :
          LET sc == ScopeOf(k) IN
          /\ sc \in DOMAIN db'.checkpoints
          /\ k.id \notin {db'.checkpoints[sc].id, asked[db'.checkpoints[sc].id].parent}]_vars

\* No history: when put returns, the only writes left in its scope are those of
\* its checkpoint and of the one it was computed from, also if others stored
\* writes meanwhile; unless the config said checkpoint_id None.
SupersededWritesGone ==
    [][\A s \in Savers :
          (Commit(s) /\ call[s].op = "put" /\ asked[call[s].id].parent # NullId)
          => LET i == call[s].id IN
             \A k \in DOMAIN db'.writes :
                 ScopeOf(k) = ScopeOf(asked[i]) => k.id \in {i, asked[i].parent}]_vars

\* What the docstring of put says (shallow.py:420-423): put saves the checkpoint
\* and overwrites the previous one, so that once it returns get_tuple answers
\* with the checkpoint it was given.
PutOverwrites ==
    [][\A s \in Savers :
          (Commit(s) /\ call[s].op = "put")
          => LET a == asked[call[s].id]
             IN LoadedValues(db', ScopeOf(a)) = a.vals]_vars

=============================================================================
