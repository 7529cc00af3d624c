# A verification project for langgraph-checkpoint-mysql

The library keeps the checkpoints of LangGraph runs in MySQL or MariaDB, and a
key-value store for agents beside them. This directory holds TLA+ modules
translated from its source, TLC configurations that check them on small
instances, and TLAPS proofs of what matters most for every size of instance.
Paths below are relative to `src/langgraph/`.

## 1. The system

| Component | Source | State it keeps | Operations |
|---|---|---|---|
| Full-history saver | `checkpoint/mysql/base.py`, `__init__.py` (sync), `aio_base.py` (asyncio) | tables `checkpoints`, `checkpoint_blobs`, `checkpoint_writes` | `get_tuple`, `list`, `put`, `put_writes`, `delete_thread`, `get_next_version` |
| Cursor layer | `_cursor` in `__init__.py`, `aio_base.py`; `_internal.py`, `_ainternal.py` | one lock per saver, a connection or a source of connections | `_cursor(pipeline)`, `get_connection` |
| Setup | `setup` and `MIGRATIONS` of both savers and of the store | tables `checkpoint_migrations`, `store_migrations`, the schema | `setup` |
| Synchronous bridge | `aio_base.py:403-544` | the event loop, the asyncio lock | `list`, `get_tuple`, `put`, `put_writes`, `delete_thread` from other threads |
| Shallow saver | `checkpoint/mysql/shallow.py` | one checkpoint row per thread and namespace, one blob per channel | `get_tuple`, `list`, `put`, `put_writes` |
| Store | `store/mysql/base.py`, `aio_base.py` | table `store` | `batch` / `abatch` of get, put, search, list_namespaces |
| Row decoding | `checkpoint/mysql/utils.py` | none | order of writes and sends, base64, JSON |
| Drivers | `pymysql.py`, `aio.py`, `asyncmy.py` | none | connection strings, cursor classes |

How they interact. A graph run (external: `langgraph.pregel`) reads a
checkpoint, computes the next one, gives every channel it changed a version
from `get_next_version`, and hands checkpoint and changed versions to `put`;
tasks hand their results to `put_writes`. `put` keeps primitive values in the
checkpoint's own JSON and the others in `checkpoint_blobs`, one row per channel
and *version*, so that an unchanged channel shares the row an earlier checkpoint
stored. `get_tuple` joins the versions a checkpoint names with those rows. Every
writing call runs inside `_cursor(pipeline=True)`: get a connection, take the
saver's lock, `begin`, the statements, `commit`; on any exception `rollback` and
raise. Savers of different processes meet only in the database.

What is hard here, and what makes each part correct:

* *Full-history saver.* Values are spread over rows that different puts wrote.
  A checkpoint must read back what it was put with although any statement can
  fail, any process can die, the answer to `COMMIT` can be lost and the call
  repeated, two runs can branch from one checkpoint, and a thread can be deleted
  meanwhile. A reader must never meet half a put, nor a list of writes
  that a failure cut short. Two attempts of one task that hand in different
  lists do mix: a later one replaces nothing, but fills the places the earlier
  one had no regular write for.
* *Setup.* DDL commits by itself, so a migration and its record are two steps.
  A kill between them, or two processes, must not leave the schema behind or
  beside the record.
* *Cursor layer and bridge.* A generator holds a non-reentrant lock while it is
  suspended; threads wait for coroutines. Everybody who waits must be served.
* *Shallow saver.* It overwrites: order of commits decides what is left, and
  the writes of superseded checkpoints must go.
* *Store.* A batch answers reads before it applies writes and deduplicates by a
  key that is not the one of the table; search matches text prefixes.

## 2. The modules

| Module | What it is |
|---|---|
| `SaverData` | constants, tables and transactions, keys, the rows a list of writes becomes; shared by both savers |
| `Saver` | the full-history saver, statement by statement, over InnoDB transactions; its properties |
| `CheckpointHistory` | the abstract specification: `put`, `put_writes`, `delete_thread` in one step each |
| `SaverInvariant`, `SaverProofs` | the inductive invariant of what `Saver` stores, and the proofs that rest on it |
| `SaverLocks`, `SaverLocksProofs` | the inductive invariant of its transactions, locks and writes, the proofs that need it, and the step simulation of `CheckpointHistory` |
| `MCSaver` | TLC instances |
| `ShallowSaver`, `MCShallowSaver` | the shallow saver, statement by statement, its properties and its instances |
| `ShallowInvariant`, `ShallowProofs` | its inductive invariant and its proofs |
| `Ordering`, `OrderLemmas` | `InOrder`, the elements of a finite set as a sequence (ORDER BY, `sorted`, a dict), and what is proved about it |
| `SaverReads`, `SaverReadsProofs`, `MCSaverReads` | how the full-history saver lists and gets checkpoints: pages, filters, the sends of old formats; its proofs and its instances |
| `Cursor`, `CursorProofs` | connection and lock of every call of a saver and a store, sync and async, and the synchronous bridge; its proofs |
| `StoreText` | namespaces as dotted texts, LIKE, SUBSTRING_INDEX, the order of texts |
| `StoreMap` | the abstract specification of the store: a map read in one state and changed in one step |
| `Store`, `StoreProofs`, `MCStore` | a batch of the store, statement by statement, its properties, its proofs and its instances |
| `Migrations` | the three `MIGRATIONS` lists and what a DDL statement does |
| `Setup`, `SetupProofs`, `MCSetup` | `setup()` run by any number of processes, its proofs, its instances |

### Saver

| Variable | In the program |
|---|---|
| `db` | committed rows of the three tables, keyed by their primary keys |
| `tx[s]` | the open transaction on the connection of saver `s`: rows set, rows deleted, row and range locks |
| `pc[s]` | the statement the current call of `s` executes next |
| `call[s]` | the arguments of that call, and how far it is (`todo`, `next`) |
| `base[s]` | the checkpoint the run driven through `s` continues from |
| `asked[i]`, `severed` | history: what `put` was asked to store as checkpoint `i`; the puts whose thread was deleted since their run loaded it |

`GetLatest`, `GetTuple` and `GetNone` are `get_tuple`. `Put`, `PutBlob`,
`PutCheckpoint` are the statements of `put`; `PutWrites`, `PutWrite` those of
`put_writes` (the drivers send the rows of `executemany` one by one, because the
statement has `UNHEX(MD5(%s))` in its VALUES list); `DeleteThread` and the three
`Delete...` those of `delete_thread`. `Commit`, `CommitLost` and
`StatementFails` are the three ways out of `_cursor`; `Retry`, `GiveUp` and
`Crash` are what the caller does then. The sync and the asyncio saver execute the
same statements in the same order; `PutCall`, `EndTransaction` and the like
name the asyncio methods (a cancellation at an `await` is one of the exceptions
of `StatementFails`).

What stands for what:

* MySQL is external: InnoDB at REPEATABLE READ. One SELECT is a consistent
  snapshot. An insert, found or not, locks its row until the end of the
  transaction (the shared lock of a duplicate is taken as an exclusive one); a
  DELETE by `thread_id` locks the thread's rows and gaps. A wait that ends in a
  deadlock or a timeout is `StatementFails`.
* Checkpoint ids are uuid6 and are numbered in the order of creation over all
  processes. `random()` never repeats, so the fraction of a version stands for the id
  of the checkpoint it was made for: `<<integer part, id>>`.
* One `put` uses one new version for all channels it changes, the successor of
  the greatest one the run holds, as `langgraph.pregel` does. A run makes one
  call at a time.
* A value is an object (stored as a blob), a primitive (stored inline) or absent.
  Serialisation is left to `langgraph`; metadata is carried, not modelled.

### ShallowSaver

`db`, `tx`, `pc`, `call` and `asked` are as in `Saver`; a checkpoint row has the
key (thread, namespace), called its *scope*, and a blob row adds the channel.
`run[s]` is the checkpoint a run has reached (`unput` while it has not been
put); `mixed` remembers the scopes that two runs have used at the same time.
`GetTuple` and `GetNone` are `get_tuple`, which ignores the id in the config.
`Put`, `PutDelete`, `PutBlob` (an upsert, with "empty" for a channel without a
value) and `PutCheckpoint` are `put`.

langgraph stores writes from background threads, so `PutWrites` may name any
checkpoint the run has been at, before or after that checkpoint's own put. A run
that loaded nothing hands `put` no `checkpoint_id` (compared with `""`, here
`NoId`) or None (compared with NULL, here `NullId`; `NOT IN` then selects
nothing). `DELETE ... NOT IN` locks the rows it scans and the gaps of its scope:
unlike `DeleteWhereThread` of `Saver`, which makes two deletions exclude each
other even where there is no row (a pair that would only repeat each other), two
puts over an empty scope go on together, up to their blobs.

### Setup

`library` picks one of the `MIGRATIONS` lists (full saver and shallow saver in
the MySQL and the MariaDB branch, store). `tables` is the schema as far as
migrations change it: columns added, size of `checkpoint_ns`, its part in the
primary key, kind of `checkpoint_ns_hash`, indexes. `recorded` is the migrations
table. `Start`, `ReadVersion`, `Migrate`, `Record` are the statements of
`setup`; a DDL statement is atomic and fails when what it adds is there. `Die`
and `StartAgain` are the process. `Callers[l]` is the set of processes that call
`setup` of the library `l`. Initially the database is empty or as any
earlier release left it. The connection is in autocommit mode, which `README.md`
of the library demands; without it the asyncio `setup`, which has no `COMMIT`,
would lose the last version.

### SaverReads

| Variable | In the program |
|---|---|
| `checkpoints` | the rows of `checkpoints`: parent, format, metadata, and the TASKS channel of format v4 |
| `sends` | the rows of `checkpoint_writes` in the channel TASKS |
| `reader` | one call of `list` or `get_tuple`, the rows it has in hand, and (history) what its pages have given so far |
| `due` | history: the sends that were stored when a checkpoint was put |

`List` and `ListBefore` are the SELECT of `list` for a first page and for the
page `before` the last checkpoint of the previous one; `GetTuple` is that of
`get_tuple`; `SelectSends` is the second SELECT, with `MigrateRows` and
`MigrateRow` for what the two methods do with its rows. No transaction holds the
two statements together, so the other clients act between them. Their own calls
are transactions, shown to be atomic in `Saver`, and are one action here.

### Cursor

`call[a]` is where a call is: waiting for a connection (`connect`), for the lock
(`lock`), executing, suspended in a loop over `list` (`yield`), or blocked on
the event loop (`result`). A caller has an outer call and, from the body of a
loop over `list`, an inner one to the store. `locked` and `free` are the locks
and the idle connections; `dropped` are generators that a loop has left and
nobody has collected yet, which still hold both. `async` and `pooled` choose
once which classes are used and what they were given. A synchronous method of an
async saver takes the connection and the lock from the thread that called it,
step by step, because each of its steps is a step of the coroutine it waits for;
only while a coroutine of the loop itself waits so does the loop stand still
(`LoopRuns`).

### Store

| Variable | In the program |
|---|---|
| `rows` | the committed rows of the table `store`, keyed by prefix and key |
| `clock` | `CURRENT_TIMESTAMP`, in seconds |
| `ops[s]`, `todo[s]` | the operations of the batch of store `s`, and the statements it has still to execute |
| `snapshot[s]`, `log[s]` | the transaction: its read view, and the rows it has set, deleted and locked |
| `results[s]` | the answers, by index of the operation |

`Statements` is `_group_ops` with the `_prepare_batch_*` and `_get_batch_*`
methods: a SELECT per namespace of the gets, one per search and per list, a
DELETE per namespace and one INSERT. `GetItems`, `Search`, `ListNamespaces`,
`DeleteItems` and `InsertItems` execute them; `Commit` and `Raise` end the batch.
A text is the sequence of its character codes, so that LIKE, SUBSTRING_INDEX and
the order of texts do what the server does with them.

## 3. What the runs check

| Run | Question | Bounds |
|---|---|---|
| `saver_history` | `TypeOK`, `OwnValues`, `ReadBack`, `BaseStored`, `LatestMovesForward`: two runs branch, fork from old checkpoints, repeat, fail and delete at once | 2 savers, 1 thread, 3 checkpoints, 1 channel, 2 objects, 1 primitive |
| `saver_writes` | `NoAttemptCut`, `FirstAttemptStays`, `ReturnedWritesStored`, `DeletedThreadIsGone`: disagreeing attempts of a task; `OwnValues` of a checkpoint with two channels | 2 savers, 1 checkpoint, 2 channels, 5 lists of writes: two regular attempts, two special, one mixed |
| `saver_refines` | `ImplementsHistory`: the tables as `get_tuple` reads them are a history that changes atomically | 2 savers, 2 namespaces, 2 checkpoints, 2 lists, deletions kept apart from runs |
| `reads_pages` | `TypeOK`, `PagesComplete`, `TasksHandedOver`, `ListAgreesWithGetTuple`: a reader among puts, sends and deletions | 3 checkpoints in 2 threads, 2 tasks, 2 sends, formats v3 and v4, pages of 2, with and without a filter |
| `reads_threads` | `ListMigratesEveryThread`, *violated* by a list of two threads | the same, 1 send, pages of 3 |
| `cursor_calls` | `TypeOK`, `OneUserPerConnection`, `NothingLeaked`, `EveryCallEnds`: sync and async, pool and single connection | 2 threads, 1 coroutine, pool of 4, 4 calls in all |
| `shallow_puts` | `TypeOK`, `OwnValues`, `ReadBack`, `RunOnStored`, `NeededWritesKept`, `SupersededWritesGone` | 2 savers, 1 scope, 3 checkpoints, 1 channel, 1 object or none, 1 write |
| `shallow_overlap` | `PutOverwrites`, *violated*: two overlapping runs | the same, 2 objects, no writes |
| `store_batches` | `TypeOK`, `PagesPartition`, `WaitsForRunningOnly`, `ImplementsStoreMap`: two stores run batches at once | 2 stores, 5 batches with every type of operation, 3 namespaces, 2 seconds |
| `store_siblings` | `SearchInsideNamespace`, *violated* by namespaces (a, a) and (a, ab) | 1 store, 3 batches |
| `setup_restarts` | `TypeOK`, `SchemaOneAhead`, `RaisesOnlyWhenCutShort`, `FinishedSchema`, `FinishedRecorded`, `RecordsContiguous`, `EventuallySetUp` | the real lists, from every earlier release; two processes for the store and the shallow saver in the MySQL branch, one elsewhere |
| `setup_upgrade_race` | `FinishedSchema`, *violated*: two processes | the list of the full saver |

Why the bounds are enough. Savers influence each other only through rows of one
thread and through locks, so two savers and one thread contain every pairwise
conflict. Two checkpoints let a put rely on another's blobs; three are needed
for two runs that branch from one checkpoint and a reader behind them, and to
get a version with an integer part two branches share. Two objects make a
swapped value visible; one primitive covers the inline path. A put with one
blob stored and one to come needs two channels: these are in `saver_writes`, with one
checkpoint; `ReadBack` is proved for all channels. Five lists of writes hold
each combination of regular and special channels. The lists of setup are the
real ones, so only the number of processes is bounded there. In `shallow_puts`
three checkpoints are a superseded one, its successor and a put over both; a
channel with a value, one that lost it and one never set are told apart by one
object. In `reads_pages` three checkpoints fill a page of two and leave one for
the next, and are a parent with two children, one of each format; the two tasks
have paths and ids in opposite order. In `cursor_calls` two threads and a coroutine
are one that has the lock, one that waits and one in the body of a loop; four
calls let one of them come back, and the pool has one connection more than there
are callers. In `store_batches` each batch has a reason: puts before reads of the
same item, an item put and deleted, rows locked in opposite orders, two pages in
one batch, namespaces that are cut; two seconds give rows with equal and with
different times. Deadlock is checked in every run but `cursor_calls`, whose calls
are bounded (`EveryCallEnds` says there that nobody is stuck): a saver or store
can always fail its statement, which is what InnoDB's deadlock detection does.

`Exclusive` is the only restriction on clients: in `saver_refines` nobody deletes
a thread that a run is using. Without it the abstract history cannot be
implemented: `delete_thread` racing a run leaves later checkpoints of that run
whose older values are gone. `OwnValues` says what is still true then, and
`severed` marks exactly those checkpoints for `ReadBack`.

Every property has a mutant in `PROJECT.json`: a plausible bug in one
definition (statements outside the transaction, a version without its random
part, a join without the version, a dropped `DESC`, a swallowed exception, `any`
for `all`, a slice one late) under which TLC finds it violated.

**Findings.** `shallow_overlap`: `put` of the shallow saver stores the blobs of
`new_versions` only, over rows without a version. Run A loads a checkpoint, run
B loads it too and puts a new value of a channel, then A puts its own next
checkpoint, which leaves that channel as it was. A's put returns, but the stored
checkpoint is A's with B's value. Its docstring says that it saves the
checkpoint and overwrites the previous one. `OwnValues` is what still holds then
(the channels A changed are A's), and `ReadBack` and `RunOnStored` hold in every
scope whose runs came one after the other.

`reads_threads`: for checkpoints of format v < 4, `list` reads the sends of all
parents with one SELECT, for the thread of its *first* row. In the run t1 has
checkpoint 1, which a task sends from, and its child 2, and t2 has checkpoint 3.
The list of both starts with 3, so the sends are looked up under t2, and 2 comes
back without the send that `get_tuple` gives it. The code's comment
("migrate pending sends if necessary") makes no difference between threads; the
test of it lists one thread. Within one thread
the two agree (`ListAgreesWithGetTuple`).

`store_siblings`: `search` matches `LIKE 'a.a%'`, which also matches the text
`a.ab`, so items of a sibling namespace are returned, where the test expects only
those of the one asked for. `store_batches` keeps to labels none of which is the
beginning of another, and there every answer is what `StoreMap` promises.

`setup_upgrade_race`: `setup` reads the newest version once and
then runs migrations without checking that they are still due. If two processes
upgrade a database of an earlier release (for instance the one before
migration 14) at the same time, one of them can execute
`ALTER TABLE ... DROP PRIMARY KEY, ADD PRIMARY KEY (thread_id, checkpoint_id, ...)`
after the other has finished. Its `INSERT` of the version raises, but the tables
now have an older primary key while the newest version is recorded, so that no later
`setup` repairs them. The lists of the shallow saver and of the store have no
migration that a later one overrides, and `setup_restarts` shows them safe.

A related limit shown by `setup_restarts`: after a kill between `CREATE INDEX`
or `ADD COLUMN` and its record, `setup` raises at every start.
`RaisesOnlyWhenCutShort` says that this is the only way to get there with one
process, and `EventuallySetUp` that otherwise setup returns.

Fairness. `Saver`, `ShallowSaver`, `SaverReads` and `Store` state safety only;
no fairness is assumed. `FairSpec` of `Setup` assumes weak fairness of each
process's next statement: a process that is not killed goes on.
`EventuallySetUp` asks for nothing while kills go on. `FairSpec` of `Cursor`
assumes that a thread or a coroutine that can take a step takes it, that the
body of a loop over `list` ends, and that a dropped generator is collected
(CPython does so at once or in a cycle collection, asyncio closes it). It does
not assume that locks or pools are fair (`threading.Lock` is not): `EveryCallEnds`
needs only that the calls of the others are finitely many. Three conditions of the
code stand behind it, and each one that is dropped makes calls wait for ever: the
pool has more connections than there are callers, the body of a loop over `list`
does not call the saver it lists, and `put` and `put_writes` of an async saver are
not called on its loop's thread.

## 4. What is proved

Every safety property of a passing run is a theorem but one
(`ImplementsStoreMap`), for every value of the constants; the runs show the same
on small instances. The constants are restricted only by the named ASSUMEs of
the modules, which TLC evaluates on the instances.

### The full-history saver: `SaverProofs`

For every set of savers, threads, namespaces, ids, channels, values and writes
(ids are naturals other than 0, objects, primitives and "no value" are disjoint,
the lists of writes are sequences of writes; nothing is assumed finite):
`TypeOK` and `ReadBack`.

`ReadBack` relates a checkpoint to rows that other puts, perhaps long ago, have
stored, so it is not inductive. The invariant `IInv` of `SaverInvariant` adds the
reasons:

1. every blob row, committed or in a transaction, is the one its version was
   chosen for, with the value that put gave the channel (`RowsOK`, `PendingOK`,
   `BlobRow`); this is where the random part of a version is needed;
2. a put gave the channels it changed versions of its own (`OwnVersions`), and
   each version a run or a put holds leads to the put that made it and to the
   same value (`Traced` in `AskedTraced`, `BaseTraced`);
3. what a run holds is stored, what a put in progress needs and has not changed
   itself is stored, and its own blobs are stored, in its transaction or still to do
   (`Present`, `OwnBlobsAccounted`, `StoredPresent`), until a deletion of the
   thread cuts it off (`severed`).

The proof has one lemma per action (`PutStep`, `PutBlobStep`, ..., `CommitStep`).
Statements inside a transaction share `OwnStep`, since they change nothing
another saver sees; the weight is in `CommitStep` and `CommitLostStep`, where
`CommittedBlobs` says that a commit removes only blobs of a deleted thread. Row
locks are not needed for `ReadBack`: versions never collide.

### Locks, writes, deletion and the history: `SaverLocksProofs`

The other properties need them. `LInv` of `SaverLocks`, inductive together with
`IInv`, says that locked rows and ranges exclude each other and cover what their
transaction changes (`LocksExclusive`, `ChangesLocked`, `DeletesCovered`), that
only the call in progress has a transaction (`TxOfCall`), and how far its
statements have come: what it is through with is locked, and stored or in its
log (`Progress`). From it follow `OwnValues` (a deletion that waited for a put,
or the other way round, leaves all of the put or none of it), `BaseStored`,
`NoAttemptCut`, and about single steps `FirstAttemptStays`,
`ReturnedWritesStored`, `DeletedThreadIsGone` and `LatestMovesForward`.
`DeletedThreadIsGone` is about the step in which the server commits a
`delete_thread`, whether or not its answer arrives; what other savers store
afterwards is theirs.

`NoAttemptCut` has two parts: one attempt of a task (the first) is stored whole,
with its own values, and a stored row belongs to an attempt each of whose regular
writes has a row. The second part does not say that those rows are of the same
attempt: `INSERT IGNORE` mixes attempts that have regular writes at different
places, and lists of `saver_writes` do.

`SaverImplementsHistory` is the refinement: under `Exclusive`, each commit of a
put, a put_writes or a delete_thread is that one step of `CheckpointHistory`, a
put that repeats what a lost answer hid is a stutter, and so is every other step. It
needs a third invariant, `RInv`: no stored checkpoint is cut off
(`NothingSevered`, where `Exclusive` is used), a put continues the checkpoint of
its run (`CallsOfRuns`, `Parents`), and a put_writes half way through its list has
in its log what the history would have for the first half (`WriteValues`).

### Reading: `SaverReadsProofs`

`TypeOK`, `PagesComplete`, `TasksHandedOver` and `ListAgreesWithGetTuple`, for
any finite set of ids, any tasks with comparable paths and ids, formats 1 to 4
and any positive page sizes. The invariant `IInv` of the module: what a
checkpoint has to hand over is stored with its parent, or with itself in format
v4 (`Stored`); the rows the reader holds are still the stored ones but for their
tasks, unless their thread was deleted since (`Given`); and the list it has been
given descends and misses, of what stayed stored, only ids below its last one
while its last page was full (`Listed`). The order of rows and of sends is
`Ordering!InOrder`. `OrderLemmas` shows that it holds every element of a finite
set once and in order, and that there is only one such sequence: the rank of an
element is a bijection from the set to the positions.

### Setup: `SetupProofs`

For any number of processes and any lists: `TypeOK`, `RecordsContiguous`,
`FinishedRecorded`; the invariant adds that a process in the loop has everything
before its migration recorded (`LoopKnows`). About the schema:
`SchemaOneAhead` and `RaisesOnlyWhenCutShort`, both about a process that has the
database to itself, and `FinishedSchema` for every library which one process
sets up *or* whose migrations are harmless when they run late
(`LateRunsHarmless`: run over any later release, a migration fails or changes
nothing). `MCSetup` has an ASSUME by which TLC evaluates that hypothesis for its
instances; the list of the full saver does not satisfy it, and so two processes
can upgrade it wrongly (`setup_upgrade_race`). The invariant `SInv` says that with v
versions recorded the tables are those of release v or of the next one, and that
who has run migration v has brought them there.

The lists satisfy `MigrationsAssumption`: every migration can run where those
before it ran (TLC evaluates it on the real lists). `ReleasesOf` is a recursive
function; that it exists and is unfolded by its equation is proved by way of the
least number at which it would fail (`OrderLemmas!LeastNumber`), since the
induction theorems of the library are out of the prover's reach.

### Connections and locks: `CursorProofs`

For any finite set of callers, any pool and any number of calls: `TypeOK`,
`OneUserPerConnection`, `NothingLeaked`. The invariant says where a call
has a connection and from where (`CallsConnected`, `GeneratorsConnected`), that
behind the lock of an object there is one call or one dropped generator
(`OneInside`), that a pool connection has one holder (`OneHolder`), and that what
is idle and what is locked add up (`PoolAccounted`, `LocksAccounted`). Without a pool
the lock is what keeps calls off each other's connection; with one, it is the
pool.

### The shallow saver: `ShallowProofs`

For every set of savers, scopes, ids, channels, values and writes: `TypeOK`,
`OwnValues`, `ReadBack`, `RunOnStored`, `NeededWritesKept`,
`SupersededWritesGone`. The invariant of `ShallowInvariant`: a transaction holds
what its put or put_writes has done so far (`TxOfCall`), a scanned scope is
closed to the inserts of others (`ScopeLocks`), what the stored checkpoint's own put
changed is stored (`OwnStored`), two runs in a scope make it mixed (`OneRun`),
and a run that has its scope to itself holds exactly what is stored there, or is
one put ahead of it (`RunHolds`). `OwnValues` holds in mixed scopes too; the
others cannot, as `shallow_overlap` shows.

### The store: `StoreProofs`

For any stores and any batches of well-formed operations (`BatchesAssumption`: a
namespace is a sequence of texts, limit and offset are naturals): `TypeOK`,
`WaitsForRunningOnly`, `PagesPartition`. The invariant `IInv` of the module:
what is stored, in a log or in a snapshot are rows of items somebody put, a batch
that is not running has no log, locks or snapshot, the statements still to do
are groups of the batch's own operations, and every answer to a search is a page
of *some* order of what it finds in the batch's one snapshot.

`PagesPartition` then needs two facts. Rows of different seconds have only one
order from the newest to the oldest (`NewestFirstSorted`, by
`OrderLemmas!SortedUnique`), so that two pages are cut out of one sequence. And
two rows are never one item: the labels a text is split into determine the text
(`LabelsDetermineText`), although not every tuple of labels is got back from the
text it was joined to (a label may hold a dot).

### Model-checked only

* Liveness, `EventuallySetUp` and `EveryCallEnds`: out of the prover's reach.
* `ImplementsStoreMap`. It does not hold for all batches: `store_siblings`
  is a batch for which a search answers more than `StoreMap` allows. A theorem
  would need the hypothesis that LIKE on the texts of the batches' namespaces
  agrees with prefixes of labels, and a proof that the grouped and deduplicated
  statements add up to the batch.
* The four violated properties, of course, and what the bounds of section 3 say
  about the finite instances.

## 5. What is not modelled, and the plan

Not modelled, and why:

* JSON, base64, serialisers, the text of SQL, connection strings and driver
  classes: formatting and I/O without state.
* `BaseStore.get`, `put` and the like, and `AsyncBatchedBaseStore`, which collects
  operations into batches: they belong to `langgraph`. Any batch they could
  build is an input of `Store`, whose runs choose five.
* `created_at`, and filters on other than one field: columns the properties do not tell
  apart. `list` of the shallow saver is one SELECT of the rows `get_tuple` reads.
* Two objects given one connection: each has its own lock, so nothing in the code
  keeps them apart. A factory that makes a connection for each call: who closes it
  depends on the driver.
* A call of a saver from the body of a loop over its own `list`: it waits for the
  lock its own caller holds, always.
* `list` of the shallow saver with a checkpoint id or `before`: the query names a
  column that the table does not have, so it always raises.
* MySQL beyond the locking and isolation stated above. Where `get_tuple` and
  `list` read with one SELECT, they read one state of the database.

What is left is to prove more:

1. `StoreMap`, step by step: that `Statements` loses no operation of a batch and
   keeps the last put of an item; that what a transaction has changed is what the
   puts it is through with change; then `ImplementsStoreMap` for batches on whose
   namespaces LIKE and labels agree.
2. That the real lists of the shallow saver and of the store satisfy
   `LateRunsHarmless` is evaluated by TLC; it could be proved.
