--------------------------- MODULE SaverInvariant ---------------------------
(***************************************************************************)
(* The inductive invariant behind Saver's TypeOK and ReadBack.  A blob row *)
(* is traced back to the put that chose its version: the random part of a  *)
(* version stands for the id of that put's checkpoint, v[2].               *)
(***************************************************************************)
EXTENDS Saver

Values == Objects \cup Primitives \cup {NoVal}
VersionMap == [Channels -> Nat \X (Ids \cup {NoId})]
ValueMap == [Channels -> Values]

-----------------------------------------------------------------------------
\* Shapes.

Fields == {"set", "del", "rows", "ranges"}

\* tx is a function of savers, tables and the four fields of a log.
TxShape ==
    /\ DOMAIN tx = Savers
    /\ \A s \in Savers :
         /\ DOMAIN tx[s] = Tables
         /\ \A tb \in Tables : DOMAIN tx[s][tb] = Fields

\* What put was asked to store.
AskedShape ==
    /\ DOMAIN asked \subseteq Ids
    /\ \A i \in DOMAIN asked :
         /\ asked[i].thread \in Threads /\ asked[i].ns \in Namespaces
         /\ asked[i].parent \in Ids \cup {NoId}
         /\ asked[i].new \in SUBSET Channels
         /\ asked[i].vers \in VersionMap /\ asked[i].vals \in ValueMap

\* What a run holds.
BaseShape ==
    /\ DOMAIN base \subseteq Savers
    /\ \A s \in DOMAIN base :
         /\ DOMAIN base[s] = {"thread", "ns", "id", "vers", "vals"}
         /\ base[s].thread \in Threads /\ base[s].ns \in Namespaces
         /\ base[s].id \in DOMAIN asked \cup {NoId}
         /\ base[s].vers \in VersionMap /\ base[s].vals \in ValueMap

\* A saver is in a call exactly when it has its arguments, and executes the
\* statements of that call; a put or put_writes is made by a run.
CallShape ==
    /\ pc \in [Savers -> Statements \cup {"idle", "raised"}]
    /\ DOMAIN call = {s \in Savers : pc[s] # "idle"}
    /\ \A s \in DOMAIN call :
         \/ /\ call[s].op = "put"
            /\ DOMAIN call[s] = {"op", "id", "todo"}
            /\ call[s].id \in DOMAIN asked /\ s \in DOMAIN base
            /\ call[s].todo \subseteq BlobChannels(asked[call[s].id])
            /\ pc[s] \in {"blobs", "checkpoint", "commit", "raised"}
         \/ /\ call[s].op = "put_writes"
            /\ DOMAIN call[s] = {"op", "thread", "ns", "id", "task", "writes", "next"}
            /\ call[s].thread \in Threads
            /\ call[s].writes \in WriteLists
            /\ pc[s] \in {"writes", "commit", "raised"}
            /\ pc[s] = "writes" => call[s].next \in 1..Len(call[s].writes)
         \/ /\ call[s].op = "delete_thread"
            /\ call[s].thread \in Threads
            /\ pc[s] \in {"delete_checkpoints", "delete_blobs", "delete_writes",
                          "commit", "raised"}

-----------------------------------------------------------------------------
\* Rows, committed or not, against the puts that stored them.

\* A checkpoint row says what the put of that checkpoint was asked to store.
CheckpointRow(k, row) ==
    /\ k \in CheckpointKey /\ row \in Row
    /\ k.id \in DOMAIN asked
    /\ k.thread = asked[k.id].thread /\ k.ns = asked[k.id].ns
    /\ row.vers = asked[k.id].vers
    /\ row.inline = Inline(asked[k.id])

\* A blob row holds the value the put that chose its version gave its channel.
BlobRow(k, val) ==
    /\ k.version[2] \in DOMAIN asked
    /\ LET a == asked[k.version[2]] IN
         /\ k = BlobKey(a.thread, a.ns, k.channel, a.vers[k.channel])
         /\ k.channel \in BlobChannels(a)
         /\ val = a.vals[k.channel]

WriteRow(row) == row \in [channel : STRING, value : STRING]

\* The rows of every table, and those a transaction is about to add.
RowsOK ==
    /\ DOMAIN db = Tables
    /\ \A k \in DOMAIN db.checkpoints : CheckpointRow(k, db.checkpoints[k])
    /\ \A k \in DOMAIN db.blobs : BlobRow(k, db.blobs[k])
    /\ \A k \in DOMAIN db.writes : WriteRow(db.writes[k])

PendingOK ==
    \A s \in Savers :
        /\ \A k \in DOMAIN tx[s].checkpoints.set :
             /\ CheckpointRow(k, tx[s].checkpoints.set[k])
             /\ s \in DOMAIN call /\ call[s].op = "put" /\ k.id = call[s].id
             /\ pc[s] = "commit"
        /\ \A k \in DOMAIN tx[s].blobs.set : BlobRow(k, tx[s].blobs.set[k])
        /\ \A k \in DOMAIN tx[s].writes.set : WriteRow(tx[s].writes.set[k])
        /\ \A k \in tx[s].blobs.del :
             /\ s \in DOMAIN call /\ call[s].op = "delete_thread"
             /\ k.thread = call[s].thread /\ pc[s] # "raised"

-----------------------------------------------------------------------------
\* Where values come from.

\* The value vals[ch] is the one its version was chosen for among the given
\* puts, and a channel without a version has no value.
Traced(puts, t, n, vers, vals) ==
    \A ch \in Channels :
        LET i == vers[ch][2] IN
        \/ i = NoId /\ vals[ch] = NoVal
        \/ /\ i \in DOMAIN puts
           /\ ch \in puts[i].new
           /\ puts[i].thread = t /\ puts[i].ns = n
           /\ puts[i].vers[ch] = vers[ch] /\ puts[i].vals[ch] = vals[ch]

\* The blobs of the channels in C are among the given rows.
Present(rows, t, n, vers, vals, C) ==
    \A ch \in C : vals[ch] \in Objects => BlobKey(t, n, ch, vers[ch]) \in rows

\* Only checkpoints that were put are cut off.
SeveredShape == severed \subseteq DOMAIN asked

\* A put gave the channels it changed a version of its own.
OwnVersions == \A i \in DOMAIN asked : \A ch \in asked[i].new : asked[i].vers[ch][2] = i

\* Every put that has not been cut off from its thread.
AskedTraced ==
    \A i \in DOMAIN asked \ severed :
        LET a == asked[i] IN
        /\ Traced(asked, a.thread, a.ns, a.vers, a.vals)
        /\ Present(DOMAIN db.blobs, a.thread, a.ns, a.vers, a.vals, Channels \ a.new)

\* Every run that has not been cut off holds a checkpoint of its own thread,
\* with all its values stored.
BaseTraced ==
    \A s \in DOMAIN base :
        LET b == base[s] IN
        /\ b.id # NoId => asked[b.id].thread = b.thread
        /\ b.id = NoId => \A ch \in Channels : b.vals[ch] = NoVal
        /\ b.id \notin severed =>
             /\ Traced(asked, b.thread, b.ns, b.vers, b.vals)
             /\ Present(DOMAIN db.blobs, b.thread, b.ns, b.vers, b.vals, Channels)

\* A put belongs to the thread and namespace of the run that makes it.
PutOfItsRun ==
    \A s \in DOMAIN call :
        call[s].op = "put" =>
            /\ asked[call[s].id].thread = base[s].thread
            /\ asked[call[s].id].ns = base[s].ns

\* put's own blobs: stored, or in the transaction, or still to do.
OwnBlobsAccounted ==
    \A s \in DOMAIN call :
        call[s].op = "put" =>
            LET a == asked[call[s].id] IN
            /\ call[s].id \notin severed /\ pc[s] \in {"blobs", "checkpoint", "commit"} =>
                 \A ch \in BlobChannels(a) \ call[s].todo :
                     BlobKey(a.thread, a.ns, ch, a.vers[ch])
                         \in DOMAIN db.blobs \cup DOMAIN tx[s].blobs.set
            /\ pc[s] \in {"checkpoint", "commit"} => call[s].todo = {}

\* The blobs of every stored checkpoint are stored.
StoredPresent ==
    \A k \in DOMAIN db.checkpoints :
        k.id \notin severed =>
            LET a == asked[k.id] IN Present(DOMAIN db.blobs, a.thread, a.ns, a.vers, a.vals, Channels)

IInv ==
    /\ TxShape /\ AskedShape /\ BaseShape /\ CallShape /\ SeveredShape
    /\ RowsOK /\ PendingOK
    /\ OwnVersions /\ PutOfItsRun
    /\ AskedTraced /\ BaseTraced /\ OwnBlobsAccounted /\ StoredPresent

=============================================================================
