----------------------------- MODULE SaverReads -----------------------------
(***************************************************************************)
(* How the full-history saver reads: list and get_tuple (__init__.py),     *)
(* alist and aget_tuple (aio_base.py), with _search_where and the          *)
(* migration of pending sends (base.py).  Checkpoints older than format v4 *)
(* do not store their TASKS channel; it is read from the writes of their   *)
(* parent with a second SELECT, and no transaction holds the two together. *)
(*                                                                         *)
(* A reader asks for pages of the list, or for one checkpoint, while       *)
(* others put checkpoints, put sends and delete threads.  Their calls are  *)
(* transactions (module Saver) and happen here in one step.  Checkpoint    *)
(* ids are time-ordered and unique over all threads (langgraph's uuid6).   *)
(***************************************************************************)
EXTENDS Ordering, SequencesExt, FiniteSetsExt

CONSTANTS
    Scopes,     \* the threads and namespaces in use, [thread, ns]
    Ids,        \* checkpoint ids
    Tasks,      \* tasks that send, [path, id]
    MaxSends,   \* bound: sends that are stored
    Kinds,      \* the formats and metadata of checkpoints, [v, metadata]
    Configs,    \* the configs a reader lists, [thread, ns, id], each may be missing
    Filters,    \* the metadata it filters by
    Limits      \* the page sizes it asks for

NoId == 0
None == "None"

ASSUME ReadsAssumption ==
    /\ \A sc \in Scopes : sc = [thread |-> sc.thread, ns |-> sc.ns]
    /\ Ids \subseteq Nat \ {NoId}
    /\ IsFiniteSet(Ids)
    /\ MaxSends \in Nat
    /\ Limits \subseteq Nat \ {0}
    /\ \A tk \in Tasks : tk.path \in Int /\ tk.id \in Int   \* texts, only compared
    /\ \A kind \in Kinds : kind.v \in 1..4                 \* formats up to the newest

VARIABLES
    checkpoints,    \* the rows of checkpoints, by id
    sends,          \* the rows of checkpoint_writes in the channel TASKS
    reader,         \* the call of the reader and what it has been given
    due             \* due[i]: the sends checkpoint i has to hand to its tasks

vars == <<checkpoints, sends, reader, due>>

Threads == {sc.thread : sc \in Scopes}
With(f, k, v) == [x \in DOMAIN f \cup {k} |-> IF x = k THEN v ELSE f[x]]

\* The rows of put_writes of one task of checkpoint i.
Send(i, tk, n) ==
    [thread |-> checkpoints[i].thread, id |-> i, path |-> tk.path, task |-> tk.id, idx |-> n]
SendsOf(i) == {w \in sends : w.id = i}

-----------------------------------------------------------------------------
\* The queries.

\* _search_where, and the WHERE of get_tuple: the config, the metadata filter,
\* and before.
SearchWhere(cfg, filter, before) ==
    {i \in DOMAIN checkpoints :
        /\ cfg.thread \in {None, checkpoints[i].thread}
        /\ cfg.ns \in {None, checkpoints[i].ns}
        /\ cfg.id \in {NoId, i}
        /\ filter \in {None, checkpoints[i].metadata}
        /\ before = NoId \/ i < before}

NewestFirst(S) == InOrder(S, {p \in S \X S : p[1] > p[2]})

\* Mutant: the filter is applied to the page instead of the table.
SelectRowsThenFilter(cfg, filter, before, limit) ==
    LET all == NewestFirst(SearchWhere(cfg, None, before))
        page == SubSeq(all, 1, Min({limit, Len(all)}))
    IN SelectSeq(page, LAMBDA i : filter \in {None, checkpoints[i].metadata})

\* Mutant: no LIMIT.
SelectRowsUnlimited(cfg, filter, before, limit) == NewestFirst(SearchWhere(cfg, filter, before))

\* SELECT ... WHERE ... ORDER BY checkpoint_id DESC LIMIT.
SelectRows(cfg, filter, before, limit) ==
    LET all == NewestFirst(SearchWhere(cfg, filter, before))
    IN SubSeq(all, 1, Min({limit, Len(all)}))

\* Mutant: the row of the last format before v4 is not migrated.
OlderThanV3(row) == row.v < 3 /\ row.parent # NoId

\* The rows whose TASKS channel is not stored with them.
ToMigrate(row) == row.v < 4 /\ row.parent # NoId

\* SELECT_PENDING_SENDS_SQL: the sends of some checkpoints of one thread.
SelectPendingSends(thread, parents) == {w \in sends : w.thread = thread /\ w.id \in parents}

\* deserialize_pending_sends: by path, task and index.
Earlier(w, x) ==
    \/ w.path < x.path
    \/ w.path = x.path /\ w.task < x.task
    \/ w.path = x.path /\ w.task = x.task /\ w.idx < x.idx

DeserializePendingSends(W) == InOrder(W, {p \in W \X W : Earlier(p[1], p[2])})

\* _migrate_pending_sends: the sends become the value of TASKS.
MigratePendingSends(row, W) ==
    IF W = {} THEN row ELSE [row EXCEPT !.tasks = DeserializePendingSends(W)]

\* Mutant: a parent hands its sends to one of its children only.
MigrateOneChild(rows) ==
    LET migrate == {n \in DOMAIN rows : ToMigrate(rows[n])}
        found == SelectPendingSends(rows[1].thread, {rows[n].parent : n \in migrate})
    IN [n \in DOMAIN rows |->
            IF n \in migrate /\ \A m \in migrate : m > n => rows[m].parent # rows[n].parent
            THEN MigratePendingSends(rows[n], {w \in found : w.id = rows[n].parent})
            ELSE rows[n]]

\* list: one SELECT for the sends of all parents, in the thread of the first
\* row, handed out to every child of each.
MigrateRows(rows) ==
    LET migrate == {n \in DOMAIN rows : ToMigrate(rows[n])}
        found == SelectPendingSends(rows[1].thread, {rows[n].parent : n \in migrate})
    IN [n \in DOMAIN rows |->
            IF n \in migrate
            THEN MigratePendingSends(rows[n], {w \in found : w.id = rows[n].parent})
            ELSE rows[n]]

\* get_tuple: the sends of the one parent, in the thread of the config.
MigrateRow(thread, row) ==
    IF ToMigrate(row)
    THEN MigratePendingSends(row, SelectPendingSends(thread, {row.parent}))
    ELSE row

-----------------------------------------------------------------------------
\* The other clients.

Idle == [call |-> "none"]

Init ==
    /\ checkpoints = [i \in {} |-> i]
    /\ sends = {}
    /\ reader = Idle
    /\ due = [i \in {} |-> i]

\* The reader's history: what it must still be given, and the threads that
\* were deleted since its last SELECT of checkpoints.
Deleted(i) ==
    IF reader.call = "none" THEN reader
    ELSE [reader EXCEPT !.stays = @ \ {j \in DOMAIN checkpoints : checkpoints[j].thread = i},
                        !.deleted = @ \cup {i}]

\* put of a checkpoint computed from its parent after the parent's tasks; a
\* client of format v4 stores their sends in the channel TASKS.
Put(sc) ==
    \E i \in Ids \ DOMAIN due, p \in DOMAIN checkpoints \cup {NoId}, kind \in Kinds :
        /\ p # NoId => /\ p < i
                       /\ checkpoints[p].thread = sc.thread /\ checkpoints[p].ns = sc.ns
        /\ due' = With(due, i, SendsOf(p))
        /\ checkpoints' = With(checkpoints, i,
             [id |-> i, thread |-> sc.thread, ns |-> sc.ns, parent |-> p,
              v |-> kind.v, metadata |-> kind.metadata,
              tasks |-> IF kind.v = 4 THEN DeserializePendingSends(SendsOf(p)) ELSE <<>>])
    /\ UNCHANGED <<sends, reader>>

\* put_writes of a task: those of its sends that are not there yet.
PutWrites(i) ==
    \E tk \in Tasks, n \in 1..MaxSends :
        /\ sends' = sends \cup {Send(i, tk, m) : m \in 1..n}
        /\ Cardinality(sends') <= MaxSends
    /\ UNCHANGED <<checkpoints, reader, due>>

DeleteThread(t) ==
    /\ reader' = Deleted(t)
    /\ checkpoints' = [i \in {j \in DOMAIN checkpoints : checkpoints[j].thread # t} |-> checkpoints[i]]
    /\ sends' = {w \in sends : w.thread # t}
    /\ due' = [i \in DOMAIN due |-> {w \in due[i] : w.thread # t}]

-----------------------------------------------------------------------------
\* The reader.

\* The first SELECT of a page: its rows, and what the second one is for.
Select(call, cfg, filter, before, limit, listed, stays) ==
    LET ids == SelectRows(cfg, filter, before, limit)
        rows == [n \in DOMAIN ids |-> checkpoints[ids[n]]]
    IN reader' = [call |-> call, cfg |-> cfg, filter |-> filter, limit |-> limit,
                  at |-> IF \E n \in DOMAIN rows : ToMigrate(rows[n]) THEN "sends" ELSE "given",
                  rows |-> rows, listed |-> listed \o ids,
                  stays |-> stays, deleted |-> {}]

\* list, for the first page.
List ==
    /\ reader.call = "none"
    /\ \E cfg \in Configs, filter \in Filters \cup {None}, limit \in Limits :
         Select("list", cfg, filter, NoId, limit, <<>>, SearchWhere(cfg, filter, NoId))
    /\ UNCHANGED <<checkpoints, sends, due>>

\* list, before the last checkpoint of the page before, which was full.
ListBefore ==
    /\ reader.call = "list" /\ reader.at = "given"
    /\ Len(reader.rows) = reader.limit
    /\ Select("list", reader.cfg, reader.filter, Last(reader.listed), reader.limit,
              reader.listed, reader.stays)
    /\ UNCHANGED <<checkpoints, sends, due>>

\* get_tuple, of a checkpoint or of the latest.
GetTuple ==
    /\ reader.call = "none"
    /\ \E sc \in Scopes, i \in Ids \cup {NoId} :
         Select("get_tuple", [thread |-> sc.thread, ns |-> sc.ns, id |-> i], None, NoId, 1, <<>>, {})
    /\ UNCHANGED <<checkpoints, sends, due>>

\* The second SELECT.
SelectSends ==
    /\ reader.call # "none" /\ reader.at = "sends"
    /\ reader' = [reader EXCEPT !.at = "given",
            !.rows = IF reader.call = "list" THEN MigrateRows(@)
                     ELSE <<MigrateRow(reader.cfg.thread, @[1])>>]
    /\ UNCHANGED <<checkpoints, sends, due>>

\* The reader has what it wanted.
Stop ==
    /\ reader.call # "none" /\ reader.at = "given"
    /\ reader' = Idle
    /\ UNCHANGED <<checkpoints, sends, due>>

Next ==
    \/ \E sc \in Scopes : Put(sc)
    \/ \E i \in DOMAIN checkpoints : PutWrites(i)
    \/ \E t \in Threads : DeleteThread(t)
    \/ List \/ ListBefore \/ GetTuple \/ SelectSends \/ Stop

Spec == Init /\ [][Next]_vars

-----------------------------------------------------------------------------
\* Properties.

RowsOf(r) == {r.rows[n] : n \in DOMAIN r.rows}

\* Type invariant: a row is as put made it or, on the reader's side, with the
\* sends of its parent, and a page is no longer than its limit.
TypeOK ==
    /\ DOMAIN checkpoints \subseteq DOMAIN due
    /\ DOMAIN due \subseteq Ids
    /\ \A i \in DOMAIN checkpoints :
         /\ checkpoints[i].id = i
         /\ [thread |-> checkpoints[i].thread, ns |-> checkpoints[i].ns] \in Scopes
         /\ checkpoints[i].parent \in (DOMAIN due \cup {NoId}) \ {i}
    /\ \A w \in sends : w.idx \in 1..MaxSends /\ w.id \in DOMAIN checkpoints
    /\ reader # Idle =>
         /\ Len(reader.rows) <= reader.limit
         /\ \A row \in RowsOf(reader) : \A w \in ToSet(row.tasks) : w.id = row.parent

\* However checkpoints are put and threads deleted between its pages, a list
\* read page by page, each before the last checkpoint of the one before, gives
\* no checkpoint twice, newest first, and once a page is not full it has given
\* every checkpoint that was there from the first page on.
PagesComplete ==
    reader.call = "list" =>
        /\ \A m, n \in DOMAIN reader.listed : m < n => reader.listed[m] > reader.listed[n]
        /\ Len(reader.rows) < reader.limit => reader.stays \subseteq ToSet(reader.listed)

\* Whoever put a checkpoint, in whatever format, whoever lists or gets it, its
\* TASKS are, each once and in the order of the tasks that sent them, sends of
\* its parent, and among them all that were sent before it was put; unless its
\* thread is deleted between the two SELECTs.
TasksHandedOver ==
    reader.call # "none" /\ reader.at = "given" /\ reader.cfg.thread # None =>
        \A row \in RowsOf(reader) :
            row.thread \notin reader.deleted =>
                /\ \A m, n \in DOMAIN row.tasks : m < n => Earlier(row.tasks[m], row.tasks[n])
                /\ due[row.id] \subseteq ToSet(row.tasks)

\* The step that ends list gives what get_tuple would give for each row.
GivesWhatGetTupleGives ==
    \A n \in DOMAIN reader.rows :
        reader'.rows[n] = MigrateRow(reader.rows[n].thread, reader.rows[n])

\* What list answers for the checkpoints of a thread is what get_tuple would
\* answer for each of them.
ListAgreesWithGetTuple ==
    [][SelectSends /\ reader.call = "list" /\ reader.cfg.thread # None
       => GivesWhatGetTupleGives]_vars

\* What __init__.py:151 says of the rows of list, whichever thread they are of:
\* "migrate pending sends if necessary".
ListMigratesEveryThread ==
    [][SelectSends /\ reader.call = "list"
       => GivesWhatGetTupleGives]_vars

=============================================================================
