----------------------------- MODULE SaverLocks -----------------------------
(***************************************************************************)
(* The second inductive invariant of Saver, on top of SaverInvariant: what *)
(* the open transactions hold and lock.  Behind it are OwnValues,          *)
(* BaseStored and NoAttemptCut, and what a step may do to stored writes    *)
(* and to a thread that is deleted.                                        *)
(***************************************************************************)
EXTENDS SaverInvariant

OwnBlobKey(a, ch) == BlobKey(a.thread, a.ns, ch, a.vers[ch])
RowKey(c, j) == WriteKey(c.thread, c.ns, c.id, c.task, WriteIdx(c.writes, j))

-----------------------------------------------------------------------------
\* Transactions and locks.

\* A row that one transaction has locked is locked by no other, nor is a range
\* that it lies in.
LocksExclusive ==
    \A s, r \in Savers, tb \in Tables :
        s # r => \A k \in tx[s][tb].rows :
                    k \notin tx[r][tb].rows /\ k.thread \notin tx[r][tb].ranges

\* What a transaction adds or deletes it has locked.
ChangesLocked ==
    \A s \in Savers, tb \in Tables :
        /\ DOMAIN tx[s][tb].set \subseteq tx[s][tb].rows
        /\ \A k \in tx[s][tb].del : k.thread \in tx[s][tb].ranges

\* A DELETE misses no committed row of the range it locked.
DeletesCovered ==
    \A s \in Savers, tb \in Tables : \A k \in DOMAIN db[tb] :
        k.thread \in tx[s][tb].ranges => k \in tx[s][tb].del

\* A transaction is open only during the statements of a call, which either
\* inserts rows or deletes one thread.
TxOf(s) ==
    /\ pc[s] \in {"idle", "raised"} => tx[s] = NoTx
    /\ \A tb \in Tables :
         /\ tx[s][tb].rows # {} => s \in DOMAIN call /\ call[s].op # "delete_thread"
         /\ tx[s][tb].ranges # {} =>
              /\ s \in DOMAIN call /\ call[s].op = "delete_thread"
              /\ tx[s][tb].ranges = {call[s].thread}
    /\ DOMAIN tx[s].writes.set # {} => s \in DOMAIN call /\ call[s].op = "put_writes"

TableLocks == LocksExclusive /\ ChangesLocked /\ DeletesCovered
TxOfCall == \A s \in Savers : TxOf(s)

-----------------------------------------------------------------------------
\* How far the statements of a call have come.

\* put holds the rows of the blobs it is through with; at COMMIT it has
\* written the checkpoint.
PutProgress(s) ==
    LET a == asked[call[s].id] IN
    /\ \A ch \in BlobChannels(a) \ call[s].todo :
         /\ OwnBlobKey(a, ch) \in tx[s].blobs.rows
         /\ OwnBlobKey(a, ch) \in DOMAIN db.blobs \cup DOMAIN tx[s].blobs.set
    /\ pc[s] \in {"checkpoint", "commit"} => call[s].todo = {}
    /\ pc[s] = "commit" =>
         [thread |-> a.thread, ns |-> a.ns, id |-> call[s].id] \in DOMAIN tx[s].checkpoints.set

\* put_writes holds the rows of the writes it is through with, and adds no
\* others.
WriteProgress(s) ==
    LET c == call[s]
        log == tx[s].writes
    IN
    /\ c.next \in Nat \ {0} /\ (pc[s] = "commit" => c.next = Len(c.writes) + 1)
    /\ \A j \in 1..(c.next - 1) :
         /\ j <= Len(c.writes)
         /\ RowKey(c, j) \in log.rows
         /\ RowKey(c, j) \in DOMAIN db.writes \cup DOMAIN log.set
         /\ Overwrites(c.writes) =>
              /\ RowKey(c, j) \in DOMAIN log.set
              /\ \E m \in j..(c.next - 1) :
                   RowKey(c, m) = RowKey(c, j) /\ log.set[RowKey(c, j)] = c.writes[m]
    /\ \A k \in DOMAIN log.set : \E j \in 1..(c.next - 1) :
         /\ k = RowKey(c, j)
         /\ ~Special(c.writes[j]) => log.set[k] = c.writes[j]

\* delete_thread has locked its thread in the tables it is through with.
DeleteProgress(s) ==
    /\ tx[s].checkpoints.ranges # {} <=> pc[s] \in {"delete_blobs", "delete_writes", "commit"}
    /\ tx[s].blobs.ranges # {} <=> pc[s] \in {"delete_writes", "commit"}
    /\ tx[s].writes.ranges # {} <=> pc[s] = "commit"

ProgressOf(s) ==
    /\ call[s].op = "put" => PutProgress(s)
    /\ call[s].op = "put_writes" => WriteProgress(s)
    /\ call[s].op = "delete_thread" => DeleteProgress(s)

Progress == \A s \in DOMAIN call : pc[s] # "raised" => ProgressOf(s)

-----------------------------------------------------------------------------
\* What the tables hold.

\* The blobs that the put of a stored checkpoint had to store are stored, even
\* when the thread was deleted since the run loaded it.
OwnPresent ==
    \A k \in DOMAIN db.checkpoints :
        \A ch \in BlobChannels(asked[k.id]) : OwnBlobKey(asked[k.id], ch) \in DOMAIN db.blobs

WriteKeys ==
    \A k \in DOMAIN db.writes :
        k = WriteKey(k.thread, k.ns, k.id, k.task, k.idx) /\ k.idx \in Int

\* The regular writes a transaction adds were not stored.
NewWrites ==
    \A s \in Savers : \A k \in DOMAIN tx[s].writes.set : k.idx >= 0 => k \notin DOMAIN db.writes

LInv ==
    /\ TableLocks /\ TxOfCall /\ Progress
    /\ OwnPresent /\ WriteKeys /\ NewWrites
    /\ BaseStored /\ NoAttemptCut

=============================================================================
