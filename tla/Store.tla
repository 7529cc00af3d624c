------------------------------- MODULE Store -------------------------------
(***************************************************************************)
(* BaseSyncMySQLStore (store/mysql/base.py) and BaseAsyncMySQLStore        *)
(* (store/mysql/aio_base.py): batch runs a list of operations as a few SQL *)
(* statements in one transaction.  The two share the queries; the async    *)
(* one awaits every statement, and both hold their lock for the whole      *)
(* batch, so that what interleaves is the statements of several stores on  *)
(* one database.                                                           *)
(*                                                                         *)
(* The database (external) is InnoDB at its default isolation: the first   *)
(* SELECT of a transaction fixes the snapshot the later ones read; INSERT  *)
(* and DELETE see the newest rows and keep them locked until the end; a    *)
(* cycle of transactions that wait for each other is broken by an error.   *)
(***************************************************************************)
EXTENDS StoreText, FiniteSetsExt

CONSTANTS
    Stores,     \* store objects, one connection each
    Batches,    \* the lists of operations their clients hand to batch
    NoValue,    \* None
    MaxTime     \* bound of the clock

ASSUME MaxTimeAssumption == MaxTime \in Nat

\* Operations are the tuples of langgraph.store.base: a namespace is a tuple of
\* labels, limit and offset are not negative.
ASSUME BatchesAssumption ==
    \A batch \in Batches :
        /\ batch \in Seq(ToSet(batch))
        /\ \A i \in DOMAIN batch :
             LET op == batch[i] IN
             /\ op.type \in {"get", "put", "search", "list"}
             /\ op.type # "list" => op.ns \in Seq(Seq(Int))
             /\ op.type \in {"search", "list"} => op.limit \in Nat /\ op.offset \in Nat
             /\ op.type = "search" =>
                  op = [type |-> op.type, ns |-> op.ns, filters |-> op.filters,
                        limit |-> op.limit, offset |-> op.offset]

VARIABLES
    rows,       \* the committed rows of the table store
    clock,      \* CURRENT_TIMESTAMP, in seconds
    stage,      \* stage[s]: whether the batch of s is running or has returned
    ops,        \* ops[s]: the operations of that batch
    todo,       \* todo[s]: the statements the batch still has to execute
    snapshot,   \* snapshot[s]: <<>>, or the table as the transaction reads it
    log,        \* log[s]: the rows the transaction has set, deleted and locked
    results     \* results[s]: the answers so far, each a list; None is <<>>

vars == <<rows, clock, stage, ops, todo, snapshot, log, results>>

NoLog == [set |-> [r \in {} |-> r], del |-> {}, locked |-> {}]

Row(op) == [prefix |-> NamespaceText(op.ns), key |-> op.key]

\* The table the statements of s change.
Current(s) ==
    LET set == log[s].set
    IN [r \in DOMAIN set \cup (DOMAIN rows \ log[s].del) |->
            IF r \in DOMAIN set THEN set[r] ELSE rows[r]]

\* Mutant: autocommit, every SELECT reads the newest rows.
ReadNewest(s) == rows

\* The table the SELECTs of s read.
ReadView(s) == IF snapshot[s] = <<>> THEN rows ELSE snapshot[s][1]

-----------------------------------------------------------------------------
\* The statements of a batch.

\* _group_ops: the operations of one type, each with its index.
OfType(batch, type) == {i \in DOMAIN batch : batch[i].type = type}

SameItem(op, other) == op.ns = other.ns /\ op.key = other.key

\* Mutant: the first put of an item wins.
FirstPuts(batch) ==
    {i \in OfType(batch, "put") :
        \A j \in OfType(batch, "put") : j < i => ~SameItem(batch[i], batch[j])}

\* dedupped_ops: the last put of an item wins.
LastPuts(batch) ==
    {i \in OfType(batch, "put") :
        \A j \in OfType(batch, "put") : j > i => ~SameItem(batch[i], batch[j])}

\* The operations I, one group per namespace, in the order in which a dict
\* keeps keys that are inserted one by one and may be overwritten later.
ByNamespace(batch, I) ==
    LET inserted(i) == Min({j \in OfType(batch, batch[i].type) : SameItem(batch[i], batch[j])})
        first(G) == Min({inserted(i) : i \in G})
        groups == {{j \in I : batch[j].ns = batch[i].ns} : i \in I}
    IN InOrder(groups, {p \in groups \X groups : first(p[1]) < first(p[2])})

OneByOne(I) ==
    LET groups == {{i} : i \in I}
    IN InOrder(groups, {p \in groups \X groups : Min(p[1]) < Min(p[2])})

Statements(batch) ==
    LET each(kind, groups) == [n \in DOMAIN groups |-> [kind |-> kind, of |-> groups[n]]]
        deletes == {i \in LastPuts(batch) : batch[i].value = NoValue}
        inserts == LastPuts(batch) \ deletes
    IN each("get", ByNamespace(batch, OfType(batch, "get")))
       \o each("search", OneByOne(OfType(batch, "search")))
       \o each("list", OneByOne(OfType(batch, "list")))
       \o each("delete", ByNamespace(batch, deletes))
       \o (IF inserts = {} THEN <<>> ELSE <<[kind |-> "insert", of |-> inserts]>>)

-----------------------------------------------------------------------------
\* The queries.

\* LIMIT %s OFFSET %s.
Page(s, op) == SubSeq(s, op.offset + 1, Min({op.offset + op.limit, Len(s)}))

\* _prepare_batch_search_queries: WHERE prefix LIKE 'namespace%' AND filters.
Found(table, op) ==
    {r \in DOMAIN table :
        /\ Like(r.prefix, NamespaceText(op.ns) \o <<Percent>>)
        /\ \A f \in op.filters : FilterPasses(table[r].value, f)}

\* ORDER BY updated_at DESC: rows of the same second come in any order.
NewestFirst(table, S) ==
    {o \in SetToSeqs(S) :
        \A m, n \in DOMAIN o : m < n => table[o[m]].updated >= table[o[n]].updated}

\* _row_to_item, _row_to_search_item.
FoundItem(table, r) ==
    [ns |-> DecodeText(r.prefix), key |-> r.key, value |-> table[r].value]

\* The namespace patterns of list_namespaces.
Matches(prefix, c) ==
    Like(prefix, IF c.type = "prefix" THEN PatternText(c.path) \o <<Percent>>
                                      ELSE <<Percent>> \o PatternText(c.path))

\* _get_batch_list_namespaces_queries: GROUP BY and ORDER BY truncated_prefix.
ListedNamespaces(table, op) ==
    LET matching == {r \in DOMAIN table : \A c \in op.conditions : Matches(r.prefix, c)}
        truncated == {SubstringIndex(r.prefix, op.depth) : r \in matching}
        order == {p \in truncated \X truncated : TextLess(p[1], p[2])}
        page == Page(InOrder(truncated, order), op)
    IN [n \in DOMAIN page |-> [ns |-> DecodeText(page[n])]]

-----------------------------------------------------------------------------
Init ==
    /\ rows = [r \in {} |-> r]
    /\ clock = 0
    /\ stage = [s \in Stores |-> "idle"]
    /\ ops = [s \in Stores |-> <<>>]
    /\ todo = [s \in Stores |-> <<>>]
    /\ snapshot = [s \in Stores |-> <<>>]
    /\ log = [s \in Stores |-> NoLog]
    /\ results = [s \in Stores |-> <<>>]

\* batch: the operations are grouped, the connection begins a transaction.
Begin(s, batch) ==
    /\ stage[s] # "running"
    /\ stage' = [stage EXCEPT ![s] = "running"]
    /\ ops' = [ops EXCEPT ![s] = batch]
    /\ todo' = [todo EXCEPT ![s] = Statements(batch)]
    /\ results' = [results EXCEPT ![s] = [i \in DOMAIN batch |-> <<>>]]
    /\ UNCHANGED <<rows, clock, snapshot, log>>

Executes(s, kind) ==
    /\ todo[s] # <<>> /\ Head(todo[s]).kind = kind
    /\ todo' = [todo EXCEPT ![s] = Tail(@)]
    /\ UNCHANGED <<rows, clock, stage, ops>>

\* A SELECT: it fixes the snapshot if it is the first one.
Selects(s, kind) ==
    /\ Executes(s, kind)
    /\ snapshot' = [snapshot EXCEPT ![s] = IF @ = <<>> THEN <<rows>> ELSE @]
    /\ UNCHANGED log

Answer(s, i, answer) == results' = [results EXCEPT ![s][i] = answer]

\* Mutant: the rows are handed out to the operations in their order.
GetItemsShifted(s) ==
    /\ Selects(s, "get")
    /\ LET table == ReadView(s)
           of == Head(todo[s]).of
       IN results' = [results EXCEPT ![s] =
            [i \in DOMAIN @ |->
                IF i \in of
                THEN LET r == Row(ops[s][Min(of)])
                     IN IF r \in DOMAIN table THEN <<FoundItem(table, r)>> ELSE <<>>
                ELSE @[i]]]

\* _batch_get_ops: one statement per namespace.
GetItems(s) ==
    /\ Selects(s, "get")
    /\ LET table == ReadView(s)
       IN results' = [results EXCEPT ![s] =
            [i \in DOMAIN @ |->
                IF i \in Head(todo[s]).of
                THEN LET r == Row(ops[s][i])
                     IN IF r \in DOMAIN table THEN <<FoundItem(table, r)>> ELSE <<>>
                ELSE @[i]]]

\* _batch_search_ops.
Search(s) ==
    /\ Selects(s, "search")
    /\ \E i \in Head(todo[s]).of :
         LET table == ReadView(s)
             op == ops[s][i]
         IN \E order \in NewestFirst(table, Found(table, op)) :
              LET page == Page(order, op)
              IN Answer(s, i, [n \in DOMAIN page |-> FoundItem(table, page[n])])

\* _batch_list_namespaces_ops.
ListNamespaces(s) ==
    /\ Selects(s, "list")
    /\ \E i \in Head(todo[s]).of : Answer(s, i, ListedNamespaces(ReadView(s), ops[s][i]))

\* The rows the next statement of s locks, and the stores it waits for.
Locks(s) ==
    IF todo[s] = <<>> \/ Head(todo[s]).kind \notin {"delete", "insert"}
    THEN {} ELSE {Row(ops[s][i]) : i \in Head(todo[s]).of}
WaitsFor(s) == {t \in Stores \ {s} : log[t].locked \cap Locks(s) # {}}

\* DELETE FROM store WHERE prefix = %s AND `key` IN (...).
DeleteItems(s) ==
    /\ WaitsFor(s) = {}
    /\ Executes(s, "delete")
    /\ log' = [log EXCEPT ![s].locked = @ \cup Locks(s), ![s].del = @ \cup Locks(s)]
    /\ UNCHANGED <<snapshot, results>>

\* INSERT INTO store ... ON DUPLICATE KEY UPDATE value, updated_at.
InsertItems(s) ==
    /\ WaitsFor(s) = {}
    /\ Executes(s, "insert")
    /\ LET op(r) == ops[s][CHOOSE i \in Head(todo[s]).of : Row(ops[s][i]) = r]
           set == [r \in Locks(s) \cup DOMAIN log[s].set |->
                     IF r \in Locks(s) THEN [value |-> op(r).value, updated |-> clock]
                                       ELSE log[s].set[r]]
       IN log' = [log EXCEPT ![s].locked = @ \cup Locks(s), ![s].set = set]
    /\ UNCHANGED <<snapshot, results>>

Ends(s, how) ==
    /\ stage' = [stage EXCEPT ![s] = how]
    /\ todo' = [todo EXCEPT ![s] = <<>>]
    /\ snapshot' = [snapshot EXCEPT ![s] = <<>>]
    /\ log' = [log EXCEPT ![s] = NoLog]
    /\ UNCHANGED clock

\* conn.commit(), and batch returns.
Commit(s) ==
    /\ stage[s] = "running" /\ todo[s] = <<>>
    /\ rows' = Current(s)
    /\ Ends(s, "returned")
    /\ UNCHANGED <<ops, results>>

\* Mutant: the exception leaves the transaction open.
RaiseWithoutRollback(s) ==
    /\ stage[s] = "running"
    /\ stage' = [stage EXCEPT ![s] = "idle"]
    /\ ops' = [ops EXCEPT ![s] = <<>>]
    /\ todo' = [todo EXCEPT ![s] = <<>>]
    /\ results' = [results EXCEPT ![s] = <<>>]
    /\ UNCHANGED <<rows, clock, snapshot, log>>

\* except: conn.rollback(); raise.  A statement may raise (InnoDB lets one of the
\* stores that wait for each other raise), or COMMIT, before or after it was
\* executed; a process that dies is rolled back too.
Raise(s) ==
    /\ stage[s] = "running"
    /\ \/ UNCHANGED rows
       \/ todo[s] = <<>> /\ rows' = Current(s)
    /\ Ends(s, "idle")
    /\ ops' = [ops EXCEPT ![s] = <<>>]
    /\ results' = [results EXCEPT ![s] = <<>>]

Tick ==
    /\ clock < MaxTime
    /\ clock' = clock + 1
    /\ UNCHANGED <<rows, stage, ops, todo, snapshot, log, results>>

Statement(s) ==
    GetItems(s) \/ Search(s) \/ ListNamespaces(s) \/ DeleteItems(s) \/ InsertItems(s)

Next ==
    \/ \E s \in Stores :
         \/ \E batch \in Batches : Begin(s, batch)
         \/ Statement(s) \/ Commit(s) \/ Raise(s)
    \/ Tick

Spec == Init /\ [][Next]_vars

-----------------------------------------------------------------------------
\* Properties.

\* Type invariant: every row is the row of an item some batch can put, and a
\* transaction has changed only rows it has locked.
TypeOK ==
    LET items == UNION {{Row(b[i]) : i \in OfType(b, "put")} : b \in Batches}
    IN /\ DOMAIN rows \subseteq items
       /\ \A r \in DOMAIN rows : rows[r].value # NoValue /\ rows[r].updated \in 0..clock
       /\ clock \in 0..MaxTime
       /\ stage \in [Stores -> {"idle", "running", "returned"}]
       /\ \A s \in Stores :
            /\ DOMAIN log[s].set \cup log[s].del \subseteq log[s].locked
            /\ log[s].locked \subseteq items
            /\ stage[s] # "running" => todo[s] = <<>> /\ snapshot[s] = <<>>

\* The map the rows stand for.
Items(table) ==
    [k \in {[ns |-> DecodeText(r.prefix), key |-> r.key] : r \in DOMAIN table} |->
        table[Row(k)].value]

Map == INSTANCE StoreMap WITH
    items <- Items(rows),
    seen <- [s \in Stores |-> IF snapshot[s] = <<>> THEN <<>> ELSE <<Items(snapshot[s][1])>>],
    results <- [s \in Stores |-> IF stage[s] = "returned" THEN results[s] ELSE <<>>]

\* The statements of a batch (grouped by type, deduplicated, deletes before the
\* one insert, LIKE on texts), interleaved with those of other stores, amount
\* to what StoreMap promises.
ImplementsStoreMap == Map!Spec

\* Two pages of one search, asked for in one batch, have no item in common
\* whatever other stores commit in between, provided no two rows found have
\* been updated in the same second.
PagesPartition ==
    \A s \in Stores : \A i, j \in OfType(ops[s], "search") :
        LET a == ops[s][i]
            b == ops[s][j]
        IN (/\ b = [a EXCEPT !.offset = a.offset + a.limit]
            /\ snapshot[s] # <<>>
            /\ \A q, r \in Found(snapshot[s][1], a) :
                 q # r => snapshot[s][1][q].updated # snapshot[s][1][r].updated)
           => \A m \in DOMAIN results[s][i], n \in DOMAIN results[s][j] :
                 ~SameItem(results[s][i][m], results[s][j][n])

\* A store waits for rows only while the batch that has them runs: a batch that
\* has raised or returned, wherever it was, blocks nobody.
WaitsForRunningOnly ==
    \A s, t \in Stores : t \in WaitsFor(s) => stage[t] = "running"

\* A search finds nothing outside the namespace it is asked for.
SearchInsideNamespace ==
    \A s \in Stores : \A i \in OfType(ops[s], "search") :
        \A n \in DOMAIN results[s][i] : Map!Under(results[s][i][n].ns, ops[s][i].ns)

=============================================================================
