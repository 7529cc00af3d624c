----------------------------- MODULE SaverData -----------------------------
(***************************************************************************)
(* The data the savers and their abstract specification share: tables and *)
(* transactions, keys, and the rows a list of pending writes turns into    *)
(* (base.py).                                                              *)
(***************************************************************************)
EXTENDS Integers, Sequences

CONSTANTS
    Threads,      \* thread_id
    Namespaces,   \* checkpoint_ns
    Ids,          \* checkpoint ids: uuid6 strings sort in the order of creation
    Channels,     \* the channels of the graph
    Objects,      \* values stored as blobs
    Primitives,   \* None, str, int, float, bool: stored inside the checkpoint
    NoVal,        \* "the channel has no value"
    Tasks,        \* task ids
    WriteLists    \* the lists of writes tasks hand to put_writes

NoId == 0
NoVersion == <<0, NoId>>

ASSUME IdsAssumption == Ids \subseteq Nat \ {NoId}
ASSUME ValuesAssumption ==
    /\ NoVal \notin Objects \cup Primitives
    /\ Objects \cap Primitives = {}
ASSUME ChannelsAssumption == Channels # {}
ASSUME WriteListsAssumption ==
    \A ws \in WriteLists :
        /\ ws = [j \in 1..Len(ws) |-> ws[j]] /\ Len(ws) \in Nat
        /\ \A j \in 1..Len(ws) : ws[j] \in [channel : STRING, value : STRING]

-----------------------------------------------------------------------------
\* Partial functions: a table maps the primary keys of its rows to the rows.

Empty == [k \in {} |-> k]
With(f, k, v) == [x \in DOMAIN f \cup {k} |-> IF x = k THEN v ELSE f[x]]
Without(f, K) == [x \in DOMAIN f \ K |-> f[x]]

-----------------------------------------------------------------------------
\* The tables, and what an open transaction holds per table (InnoDB): the rows
\* inserted or updated, the rows deleted, the rows locked, the ranges locked.

Tables == {"checkpoints", "blobs", "writes"}

NoChange == [set |-> Empty, del |-> {}, rows |-> {}, ranges |-> {}]
NoTx == [tb \in Tables |-> NoChange]

Applied(log, table) ==
    [k \in (DOMAIN table \ log.del) \cup DOMAIN log.set |->
        IF k \in DOMAIN log.set THEN log.set[k] ELSE table[k]]

\* Keys of the full-history tables.

CheckpointKey == [thread : Threads, ns : Namespaces, id : Ids]
BlobKey(t, n, ch, v) == [thread |-> t, ns |-> n, channel |-> ch, version |-> v]
WriteKey(t, n, i, tk, x) ==
    [thread |-> t, ns |-> n, id |-> i, task |-> tk, idx |-> x]

-----------------------------------------------------------------------------
\* WRITES_IDX_MAP (external): the rows of special channels.
WritesIdxMap ==
    [ch \in {"__error__", "__scheduled__", "__interrupt__", "__resume__"} |->
        CASE ch = "__error__" -> -1
          [] ch = "__scheduled__" -> -2
          [] ch = "__interrupt__" -> -3
          [] ch = "__resume__" -> -4]

Special(w) == w.channel \in DOMAIN WritesIdxMap

\* The idx column of the j-th write of a list.
WriteIdx(ws, j) == IF Special(ws[j]) THEN WritesIdxMap[ws[j].channel] ELSE j - 1

\* Mutant: one special channel in the list is enough to overwrite.
OverwritesIfAny(ws) == \E j \in DOMAIN ws : Special(ws[j])

\* put_writes overwrites existing rows only if every channel is special.
Overwrites(ws) == \A j \in DOMAIN ws : Special(ws[j])

=============================================================================
