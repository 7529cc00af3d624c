------------------------------- MODULE Setup -------------------------------
(***************************************************************************)
(* setup() of the savers and of the store (sync and async): every process  *)
(* that starts calls it, reads the newest recorded version, and runs and   *)
(* records the migrations after it one by one.                             *)
(*                                                                         *)
(* The connection is in autocommit mode, as README.md requires: a          *)
(* statement is visible to the others as soon as it returns, and a DDL     *)
(* statement is atomic.  A process can be killed between any two           *)
(* statements and starts again later.                                      *)
(***************************************************************************)
EXTENDS Migrations

CONSTANTS
    Setups,     \* the processes
    Lists,      \* Lists[l]: the MIGRATIONS list of library l
    Callers     \* Callers[l]: the processes that call setup of library l

ASSUME ListsAssumption ==
    \A l \in DOMAIN Lists : Len(Lists[l]) \in Nat /\ Callers[l] \subseteq Setups

ASSUME MigrationsAssumption ==
    \A l \in DOMAIN Lists :
        /\ \A v \in 1..Len(Lists[l]) : IsForm(Lists[l][v].sets)
        /\ RunsInOrder(Lists[l])

VARIABLES
    library,    \* the library whose tables are set up
    tables,     \* the tables of the database
    recorded,   \* the rows of the migrations table
    pc,         \* pc[p]: the statement p executes next
    next        \* next[p]: the migration p is at

vars == <<library, tables, recorded, pc, next>>

Versions == 0..(Len(Lists[library]) - 1)
MIGRATIONS(v) == Lists[library][v + 1]

\* The tables after the first v migrations, each run once.
Released == ReleasesOf(Lists[library])

\* Running migration v again changes nothing and does not fail.
Repeatable(v) == CanRun(Released[v + 1], MIGRATIONS(v))

-----------------------------------------------------------------------------
\* A database without tables, or one an earlier release set up.
Init ==
    /\ library \in DOMAIN Lists
    /\ \E v \in 0..Len(Lists[library]) :
         /\ recorded = 0..(v - 1)
         /\ tables = IF v = 0 THEN NoTables ELSE Released[v]
    /\ pc = [p \in Setups |-> "idle"]
    /\ next = [p \in Setups |-> 0]

Goto(p, label) == pc' = [pc EXCEPT ![p] = label]

\* The first statement creates the migrations table.
Start(p) ==
    /\ p \in Callers[library] /\ pc[p] = "idle"
    /\ tables' = Ran(tables, VersionTable)
    /\ Goto(p, "read")
    /\ UNCHANGED <<library, recorded, next>>

\* Mutant: range(version + 1, len(MIGRATIONS) + 1).
GoOnPastTheEnd(p, v) ==
    /\ next' = [next EXCEPT ![p] = v]
    /\ Goto(p, IF v - 1 \in Versions THEN "migrate" ELSE "done")

\* The loop goes on with migration v, or ends behind the last one.
GoOn(p, v) ==
    /\ next' = [next EXCEPT ![p] = v]
    /\ Goto(p, IF v \in Versions THEN "migrate" ELSE "done")

\* Mutants: the slice of the list starts one late, or one early.
ReadVersionOneLate(p) ==
    /\ pc[p] = "read"
    /\ \E v \in recorded \cup {-1} :
         /\ \A w \in recorded : w <= v
         /\ GoOn(p, v + 2)
    /\ UNCHANGED <<library, tables, recorded>>

ReadVersionOneEarly(p) ==
    /\ pc[p] = "read"
    /\ \E v \in recorded \cup {0} :
         /\ \A w \in recorded : w <= v
         /\ GoOn(p, v)
    /\ UNCHANGED <<library, tables, recorded>>

\* SELECT v ... ORDER BY v DESC LIMIT 1; version -1 when there is no row.
ReadVersion(p) ==
    /\ pc[p] = "read"
    /\ \E v \in recorded \cup {-1} :
         /\ \A w \in recorded : w <= v
         /\ GoOn(p, v + 1)
    /\ UNCHANGED <<library, tables, recorded>>

\* Mutant: versions and statements are zipped one apart.
MigrateMisaligned(p) ==
    /\ pc[p] = "migrate"
    /\ LET m == MIGRATIONS(IF next[p] = 0 THEN 0 ELSE next[p] - 1) IN
         IF CanRun(tables, m)
         THEN tables' = Ran(tables, m) /\ Goto(p, "record")
         ELSE UNCHANGED tables /\ Goto(p, "record")
    /\ UNCHANGED <<library, recorded, next>>

\* The statement of the migration: it fails if what it adds is there already.
Migrate(p) ==
    /\ pc[p] = "migrate"
    /\ LET m == MIGRATIONS(next[p]) IN
         IF CanRun(tables, m)
         THEN tables' = Ran(tables, m) /\ Goto(p, "record")
         ELSE UNCHANGED tables /\ Goto(p, "raised")
    /\ UNCHANGED <<library, recorded, next>>

\* Mutant: a duplicate version ends setup as if it were complete.
RecordSwallows(p) ==
    /\ pc[p] = "record"
    /\ IF next[p] \in recorded
       THEN UNCHANGED <<recorded, next>> /\ Goto(p, "done")
       ELSE recorded' = recorded \cup {next[p]} /\ GoOn(p, next[p] + 1)
    /\ UNCHANGED <<library, tables>>

\* INSERT INTO ..._migrations: v is the primary key.
Record(p) ==
    /\ pc[p] = "record"
    /\ IF next[p] \in recorded
       THEN UNCHANGED <<recorded, next>> /\ Goto(p, "raised")
       ELSE recorded' = recorded \cup {next[p]} /\ GoOn(p, next[p] + 1)
    /\ UNCHANGED <<library, tables>>

\* The process is killed inside setup.
Die(p) ==
    /\ pc[p] \in {"read", "migrate", "record"}
    /\ Goto(p, "idle")
    /\ UNCHANGED <<library, tables, recorded, next>>

\* setup has ended, and the process is started again some day.
StartAgain(p) ==
    /\ pc[p] \in {"done", "raised"}
    /\ Goto(p, "idle")
    /\ UNCHANGED <<library, tables, recorded, next>>

SetupStep(p) == Start(p) \/ ReadVersion(p) \/ Migrate(p) \/ Record(p)

Next == \E p \in Setups : SetupStep(p) \/ Die(p) \/ StartAgain(p)

Spec == Init /\ [][Next]_vars

\* A process that is not killed goes on.
FairSpec == Spec /\ \A p \in Setups : WF_vars(SetupStep(p))

-----------------------------------------------------------------------------
\* Properties.

\* Type invariant, and the loop variable stays inside the list.
TypeOK ==
    /\ library \in DOMAIN Lists
    /\ recorded \subseteq Versions
    /\ pc \in [Setups -> {"idle", "read", "migrate", "record", "done", "raised"}]
    /\ next \in [Setups -> Nat]
    /\ \A p \in Setups : pc[p] \in {"migrate", "record"} => next[p] \in Versions

\* The recorded versions have no gap: what the newest one says of the
\* migrations before it is true, however many processes race.
RecordsContiguous == \A v \in recorded : 0..v \subseteq recorded

\* A process that returned from setup has all migrations recorded.
FinishedRecorded == \A p \in Setups : pc[p] = "done" => recorded = Versions

\* When setup returns, the tables are those of the release.
FinishedSchema ==
    \A p \in Setups : pc[p] = "done" => tables = Released[Len(Lists[library])]

Alone(p) == Callers[library] = {p}

\* One process at a time: wherever it is killed, the tables are those of the
\* recorded version, or one migration ahead of it.
SchemaOneAhead ==
    LET v == IF recorded = {} THEN 0 ELSE (CHOOSE w \in recorded : \A x \in recorded : x <= w) + 1
    IN (\E p \in Setups : Alone(p)) =>
         \/ v = 0 /\ tables = NoTables
         \/ tables = Released[v]
         \/ v < Len(Lists[library]) /\ tables = Released[v + 1]

\* One process at a time: setup raises only when an earlier one was killed
\* between a statement that cannot be run twice and its record; from then on
\* it raises every time.
RaisesOnlyWhenCutShort ==
    \A p \in Setups :
        Alone(p) /\ pc[p] = "raised" => ~Repeatable(next[p]) /\ tables = Released[next[p] + 1]

\* A statement that cannot be run twice was run, and nobody will record it.
Stuck ==
    \E v \in Versions \ recorded :
        /\ ~Repeatable(v) /\ tables = Released[v + 1]
        /\ \A p \in Setups : ~(pc[p] = "record" /\ next[p] = v)

\* One process at a time: when the kills stop, setup returns, unless one of
\* them came between a statement that cannot be run twice and its record.
EventuallySetUp ==
    \A p \in Setups :
        Alone(p) /\ <>[][~Die(p)]_vars => []<>(pc[p] = "done") \/ <>[]Stuck

=============================================================================
