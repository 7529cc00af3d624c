-------------------------- MODULE ShallowInvariant --------------------------
(***************************************************************************)
(* The inductive invariant of ShallowSaver: what the open transactions     *)
(* hold, which rows of pending writes they lock, and how what a run holds  *)
(* relates to what is stored in its scope.                                 *)
(***************************************************************************)
EXTENDS ShallowSaver

ValueMap == [Channels -> Objects \cup {NoVal}]
NoIds == {NoId, NullId}

-----------------------------------------------------------------------------
\* Shapes.

Fields == {"set", "del", "rows", "ranges"}

TxShape ==
    /\ DOMAIN tx = Savers
    /\ \A s \in Savers :
         /\ DOMAIN tx[s] = Tables
         /\ \A tb \in Tables : DOMAIN tx[s][tb] = Fields

\* What put was asked to store.
AskedShape ==
    /\ DOMAIN asked \subseteq Ids
    /\ \A i \in DOMAIN asked :
         /\ asked[i].thread \in Threads /\ asked[i].ns \in Namespaces
         /\ asked[i].new \subseteq asked[i].chans /\ asked[i].chans \subseteq Channels
         /\ asked[i].vals \in ValueMap

\* A run that has computed a checkpoint holds what put is asked to store.
RunShape ==
    /\ DOMAIN run \subseteq Savers
    /\ \A s \in DOMAIN run :
         /\ DOMAIN run[s] = {"thread", "ns", "id", "chans", "vals", "ids", "unput"}
         /\ run[s].thread \in Threads /\ run[s].ns \in Namespaces
         /\ run[s].id \in DOMAIN asked \cup NoIds
         /\ run[s].chans \subseteq Channels /\ run[s].vals \in ValueMap
         /\ run[s].unput \in BOOLEAN
         /\ run[s].unput =>
              /\ run[s].id \in DOMAIN asked
              /\ ScopeOf(asked[run[s].id]) = ScopeOf(run[s])
              /\ asked[run[s].id].chans = run[s].chans
              /\ asked[run[s].id].vals = run[s].vals

\* put stores the checkpoint its run has computed.
InPut(s) ==
    /\ call[s].op = "put"
    /\ DOMAIN call[s] = {"op", "id", "todo"}
    /\ run[s].unput /\ call[s].id = run[s].id
    /\ call[s].todo \subseteq asked[call[s].id].new
    /\ pc[s] \in {"delete", "blobs", "checkpoint", "commit", "raised"}
    /\ pc[s] = "delete" => call[s].todo = asked[call[s].id].new

InPutWrites(s) ==
    /\ call[s].op = "put_writes"
    /\ DOMAIN call[s] = {"op", "thread", "ns", "id", "task", "writes", "next"}
    /\ call[s].writes \in WriteLists
    /\ pc[s] \in {"writes", "commit", "raised"}
    /\ pc[s] = "writes" => call[s].next \in 1..Len(call[s].writes)

\* A call belongs to a run.
CallShape ==
    /\ pc \in [Savers -> Statements \cup {"idle", "raised"}]
    /\ DOMAIN call = {s \in Savers : pc[s] # "idle"}
    /\ DOMAIN call \subseteq DOMAIN run
    /\ \A s \in DOMAIN call : InPut(s) \/ InPutWrites(s)

-----------------------------------------------------------------------------
\* Rows.

WriteRow(row) == row \in [channel : STRING, value : STRING]

RowsOK ==
    /\ DOMAIN db = Tables
    /\ \A sc \in DOMAIN db.checkpoints :
         LET row == db.checkpoints[sc] IN
         /\ row.id \in DOMAIN asked /\ ScopeOf(asked[row.id]) = sc
         /\ row = [id |-> row.id, chans |-> asked[row.id].chans]
    /\ DOMAIN db.blobs \subseteq [thread : Threads, ns : Namespaces, channel : Channels]
    /\ \A k \in DOMAIN db.blobs : db.blobs[k] \in Objects \cup {NoVal}
    /\ \A k \in DOMAIN db.writes : WriteRow(db.writes[k])

\* put's transaction: it has locked its scope, deleted the superseded writes,
\* stored the blobs it is through with and, at COMMIT, the checkpoint.
PutTx(s) ==
    LET i == call[s].id
        a == asked[i]
        sc == ScopeOf(a)
        blobs == tx[s].blobs.set
        rows == tx[s].checkpoints.set
        log == tx[s].writes
    IN
    /\ DOMAIN blobs = {ShallowBlobKey(a, ch) : ch \in a.new \ call[s].todo}
    /\ \A ch \in a.new \ call[s].todo : blobs[ShallowBlobKey(a, ch)] = a.vals[ch]
    /\ pc[s] \in {"checkpoint", "commit"} => call[s].todo = {}
    /\ DOMAIN rows = IF pc[s] = "commit" THEN {sc} ELSE {}
    /\ pc[s] = "commit" => rows[sc] = [id |-> i, chans |-> a.chans]
    /\ DOMAIN log.set = {} /\ log.ranges = {sc}
    /\ \A k \in log.del : ScopeOf(k) = sc /\ k.id \notin {i, a.parent}
    /\ a.parent # NullId =>
         \A k \in DOMAIN db.writes :
             ScopeOf(k) = sc /\ k.id \notin {i, a.parent} => k \in log.del

\* put_writes only adds rows of pending writes.
WriteTx(s) ==
    /\ DOMAIN tx[s].checkpoints.set = {} /\ DOMAIN tx[s].blobs.set = {}
    /\ tx[s].writes.del = {} /\ tx[s].writes.ranges = {}
    /\ \A k \in DOMAIN tx[s].writes.set : WriteRow(tx[s].writes.set[k])

\* A transaction is open only between the first and the last statement.
TxOf(s) ==
    /\ tx[s].checkpoints.del = {} /\ tx[s].blobs.del = {}
    /\ pc[s] \in {"idle", "raised", "delete"} => tx[s] = NoTx
    /\ s \in DOMAIN call /\ pc[s] \notin {"raised", "delete"} =>
         /\ call[s].op = "put" => PutTx(s)
         /\ call[s].op = "put_writes" => WriteTx(s)

TxOfCall == \A s \in Savers : TxOf(s)

\* Behind its DELETE ... NOT IN a put has all stored writes of its scope locked,
\* and no other transaction holds one or adds one.
ScopeLocks ==
    /\ \A s \in Savers : DOMAIN tx[s].writes.set \subseteq tx[s].writes.rows
    /\ \A s \in Savers : \A sc \in tx[s].writes.ranges :
         /\ \A k \in DOMAIN db.writes : ScopeOf(k) = sc => k \in tx[s].writes.rows
         /\ \A r \in Savers \ {s} : \A k \in tx[r].writes.rows : ScopeOf(k) # sc

-----------------------------------------------------------------------------
\* Runs and what is stored in their scopes.

StoredIds(sc) ==
    IF sc \in DOMAIN db.checkpoints THEN {db.checkpoints[sc].id} ELSE NoIds
StoredChans(sc) ==
    IF sc \in DOMAIN db.checkpoints THEN db.checkpoints[sc].chans ELSE {}
StoredVals(sc) ==
    IF sc \in DOMAIN db.checkpoints THEN Loaded(sc) ELSE [ch \in Channels |-> NoVal]

\* The values that put had to store with a stored checkpoint are its values.
OwnStored ==
    \A sc \in DOMAIN db.checkpoints :
        LET a == asked[db.checkpoints[sc].id] IN
        \A ch \in a.new :
            /\ ShallowBlobKey(sc, ch) \in DOMAIN db.blobs
            /\ db.blobs[ShallowBlobKey(sc, ch)] = a.vals[ch]

OneRun ==
    \A s, r \in DOMAIN run :
        s # r /\ ScopeOf(run[s]) = ScopeOf(run[r]) => ScopeOf(run[s]) \in mixed

\* A run that has its scope to itself holds what is stored there, or has
\* computed the next checkpoint from it.
RunHolds ==
    \A s \in DOMAIN run :
        LET sc == ScopeOf(run[s]) IN
        sc \notin mixed =>
            IF run[s].unput
            THEN LET a == asked[run[s].id] IN
                 \/ run[s].id \in StoredIds(sc)
                 \/ /\ a.parent \in StoredIds(sc)
                    /\ a.chans = StoredChans(sc) \cup a.new
                    /\ \A ch \in Channels \ a.new : a.vals[ch] = StoredVals(sc)[ch]
            ELSE /\ run[s].id \in StoredIds(sc)
                 /\ run[s].chans = StoredChans(sc)
                 /\ run[s].vals = StoredVals(sc)

Shapes == TxShape /\ AskedShape /\ RunShape /\ CallShape

IInv ==
    /\ Shapes /\ RowsOK /\ TxOfCall /\ ScopeLocks
    /\ OwnStored /\ OneRun /\ RunHolds /\ ReadBack

=============================================================================
