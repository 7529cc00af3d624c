----------------------------- MODULE Migrations -----------------------------
(***************************************************************************)
(* The MIGRATIONS lists of the three libraries that own tables: the        *)
(* full-history saver (base.py), the shallow saver (shallow.py) and the    *)
(* store.  A table is a partial function from what migrations change       *)
(* (columns, indexes, the namespace part of the primary key) to its        *)
(* present form; columns no later migration touches are left out.          *)
(***************************************************************************)
EXTENDS Integers, Sequences

\* CREATE TABLE IF NOT EXISTS, and ALTER TABLE or CREATE INDEX: what the
\* statement sets, and which of it must not exist before.
Create(t, form) == [table |-> t, create |-> TRUE, adds |-> {}, sets |-> form]
Alter(t, adds, form) == [table |-> t, create |-> FALSE, adds |-> adds, sets |-> form]
Index(t, name) == Alter(t, {name}, [x \in {name} |-> "index"])

ForEachTable(M(_)) == << M("checkpoints"), M("checkpoint_blobs"), M("checkpoint_writes") >>

VersionTable == Create("migrations", [v |-> "primary key"])

\* hash: the dialect's branch, a generated column (MySQL) or a plain one (MariaDB).
SaverMigrations(hash) ==
    LET CreateTable(t) == Create(t, [ns |-> 150, key |-> "ns", blob |-> "longblob"])
        WidenNs(t) == Alter(t, {}, [ns |-> 255])
        DropNsFromKey(t) == Alter(t, {}, [ns |-> 2000, key |-> "none"])
        HashNsIntoKey(t) == Alter(t, {"hash"}, [hash |-> hash, key |-> "hash"])
        PlainHash(t) == Alter(t, {}, [hash |-> "plain"])
    IN << VersionTable >>
       \o ForEachTable(CreateTable)
       \o << Alter("checkpoint_blobs", {}, [blob |-> "longblob"]) >>
       \o << Index("checkpoints", "thread_id"), Index("checkpoint_blobs", "thread_id"),
             Index("checkpoint_writes", "thread_id"), Index("checkpoints", "checkpoint_id") >>
       \o ForEachTable(WidenNs)
       \o ForEachTable(DropNsFromKey)
       \o ForEachTable(HashNsIntoKey)
       \o << Alter("checkpoint_writes", {"task_path"}, [task_path |-> 2000]) >>
       \o ForEachTable(PlainHash)

ShallowMigrations(hash) ==
    LET CreateTable(t) == Create(t, [ns |-> 2000, hash |-> hash, key |-> "hash"])
        IndexThread(t) == Index(t, "thread_id")
        PlainHash(t) == Alter(t, {}, [hash |-> "plain"])
    IN << VersionTable >>
       \o ForEachTable(CreateTable)
       \o ForEachTable(IndexThread)
       \o << Alter("checkpoint_writes", {"task_path"}, [task_path |-> 2000]) >>
       \o ForEachTable(PlainHash)

StoreMigrations == << Create("store", [key |-> "prefix, key"]), Index("store", "prefix") >>

-----------------------------------------------------------------------------
\* The effect of a statement on the tables, when it succeeds.

NoTables == [t \in {} |-> t]

CanRun(tables, m) ==
    m.create \/ (m.table \in DOMAIN tables /\ m.adds \cap DOMAIN tables[m.table] = {})

Altered(form, sets) ==
    [x \in DOMAIN form \cup DOMAIN sets |-> IF x \in DOMAIN sets THEN sets[x] ELSE form[x]]

Ran(tables, m) ==
    [t \in DOMAIN tables \cup {m.table} |->
        CASE t # m.table -> tables[t]
          [] t = m.table /\ t \notin DOMAIN tables -> m.sets
          [] t = m.table /\ t \in DOMAIN tables ->
               IF m.create THEN tables[t] ELSE Altered(tables[t], m.sets)]

-----------------------------------------------------------------------------
\* What a list of migrations promises.

\* The tables after the first v migrations of the list, each run once.
ReleasesOf(list) ==
    LET r[v \in 0..Len(list)] ==
            IF v = 0 THEN Ran(NoTables, VersionTable) ELSE Ran(r[v - 1], list[v])
    IN r

\* A partial function: a table, or a set of tables.
IsForm(f) == f = [x \in DOMAIN f |-> f[x]]

\* A new database can be set up: every migration runs where those before it ran.
RunsInOrder(list) == \A v \in 1..Len(list) : CanRun(ReleasesOf(list)[v - 1], list[v])

\* A migration run once more, however late, fails or changes nothing.
LateRunsHarmless(list) ==
    \A v \in 1..Len(list) : \A w \in v..Len(list) :
        CanRun(ReleasesOf(list)[w], list[v])
        => Ran(ReleasesOf(list)[w], list[v]) = ReleasesOf(list)[w]

=============================================================================
