---------------------------- MODULE SetupProofs ----------------------------
(***************************************************************************)
(* Proofs about Setup, for any number of processes and any list of         *)
(* migrations: the recorded versions never have a gap, a process that      *)
(* returned from setup has all of them recorded, and the tables follow     *)
(* the record.                                                             *)
(*                                                                         *)
(* ReleasesOf is a recursive function: that it satisfies its equation, and *)
(* what all its values have in common, is proved from the least number at  *)
(* which it could fail.                                                    *)
(***************************************************************************)
EXTENDS Setup, OrderLemmas

USE ListsAssumption

\* A process in the loop has everything before its migration recorded.
LoopKnows ==
    \A p \in Setups :
        pc[p] \in {"migrate", "record"} => 0..(next[p] - 1) \subseteq recorded

IInv == TypeOK /\ RecordsContiguous /\ FinishedRecorded /\ LoopKnows

LEMMA InitIInv == Init => IInv
<1> SUFFICES ASSUME Init PROVE IInv
  OBVIOUS
<1>1. PICK v \in 0..Len(Lists[library]) : recorded = 0..(v - 1)
  BY DEF Init
<1>2. library \in DOMAIN Lists /\ Len(Lists[library]) \in Nat
  BY DEF Init
<1>3. recorded \subseteq Versions /\ RecordsContiguous
  BY <1>1, <1>2 DEF Versions, RecordsContiguous
<1> QED
  BY <1>2, <1>3 DEF Init, IInv, TypeOK, FinishedRecorded, LoopKnows

\* GoOn keeps the invariant of p when everything before v is recorded.
LEMMA GoOnStep ==
    ASSUME IInv, NEW p \in Setups, NEW v \in Nat, GoOn(p, v),
           library' = library, recorded' \subseteq Versions, RecordsContiguous',
           recorded \subseteq recorded', 0..(v - 1) \subseteq recorded'
    PROVE  IInv'
<1>1. /\ next' = [next EXCEPT ![p] = v]
      /\ pc' = [pc EXCEPT ![p] = IF v \in Versions THEN "migrate" ELSE "done"]
  BY DEF GoOn, Goto
<1>2. library \in DOMAIN Lists /\ Len(Lists[library]) \in Nat /\ Versions' = Versions
  BY DEF IInv, TypeOK, Versions
<1>3. v \notin Versions => recorded' = Versions
  <2> DEFINE n == Len(Lists[library])
  <2> SUFFICES ASSUME v \notin 0..(n - 1)
               PROVE  0..(n - 1) \subseteq 0..(v - 1)
    BY DEF Versions
  <2>1. n \in Nat
    BY <1>2
  <2> HIDE DEF n
  <2> QED BY <2>1
<1>4. TypeOK'
  BY <1>1, <1>2 DEF IInv, TypeOK
<1>5. FinishedRecorded'
  <2> SUFFICES ASSUME NEW q \in Setups, pc'[q] = "done"
               PROVE  recorded' = Versions
    BY <1>2 DEF FinishedRecorded
  <2>1. CASE q = p
    BY <2>1, <1>1, <1>3 DEF IInv, TypeOK
  <2>2. CASE q # p
    BY <2>2, <1>1 DEF IInv, TypeOK, FinishedRecorded
  <2> QED BY <2>1, <2>2
<1>6. LoopKnows'
  <2> SUFFICES ASSUME NEW q \in Setups, pc'[q] \in {"migrate", "record"}
               PROVE  0..(next'[q] - 1) \subseteq recorded'
    BY DEF LoopKnows
  <2>1. CASE q = p
    BY <2>1, <1>1 DEF IInv, TypeOK
  <2>2. CASE q # p
    BY <2>2, <1>1 DEF IInv, TypeOK, LoopKnows
  <2> QED BY <2>1, <2>2
<1> QED BY <1>4, <1>5, <1>6 DEF IInv

\* Reading the newest version: everything before the next one is recorded.
LEMMA ReadVersionStep ==
    ASSUME IInv, NEW p \in Setups, ReadVersion(p)
    PROVE  IInv'
<1>1. PICK v \in recorded \cup {-1} : (\A w \in recorded : w <= v) /\ GoOn(p, v + 1)
  BY DEF ReadVersion
<1>2. UNCHANGED <<library, tables, recorded>>
  BY DEF ReadVersion
<1>3. recorded \subseteq Versions /\ RecordsContiguous
  BY DEF IInv, TypeOK
<1>4. v \in -1..(Len(Lists[library]) - 1) /\ Len(Lists[library]) \in Nat
  BY <1>3 DEF Versions, IInv, TypeOK
<1>5. 0..((v + 1) - 1) \subseteq recorded
  BY <1>1, <1>3, <1>4 DEF RecordsContiguous
<1>6. RecordsContiguous' /\ recorded' \subseteq Versions
  BY <1>2, <1>3 DEF RecordsContiguous
<1>7. v + 1 \in Nat
  BY <1>4
<1> QED BY <1>1, <1>2, <1>5, <1>6, <1>7, GoOnStep

\* Recording a version that is not there yet.
LEMMA RecordStep ==
    ASSUME IInv, NEW p \in Setups, Record(p)
    PROVE  IInv'
<1>1. pc[p] = "record" /\ UNCHANGED <<library, tables>>
  BY DEF Record
<1>2. next[p] \in Versions /\ next[p] \in Nat /\ 0..(next[p] - 1) \subseteq recorded
  BY <1>1 DEF IInv, TypeOK, LoopKnows
<1>3. CASE next[p] \in recorded
  <2>1. UNCHANGED <<library, recorded, next>> /\ pc' = [pc EXCEPT ![p] = "raised"]
    BY <1>1, <1>3 DEF Record, Goto
  <2> QED BY <2>1 DEF IInv, TypeOK, Versions, RecordsContiguous, FinishedRecorded, LoopKnows
<1>4. CASE next[p] \notin recorded
  <2>1. recorded' = recorded \cup {next[p]} /\ GoOn(p, next[p] + 1)
    BY <1>4 DEF Record
  <2>2. 0..next[p] \subseteq recorded'
    BY <1>2, <2>1
  <2>3. RecordsContiguous'
    BY <2>1, <2>2 DEF IInv, RecordsContiguous
  <2>4. recorded' \subseteq Versions
    BY <1>2, <2>1 DEF IInv, TypeOK
  <2>5. next[p] + 1 \in Nat /\ (next[p] + 1) - 1 = next[p]
    BY <1>2
  <2> QED BY <1>1, <2>1, <2>2, <2>3, <2>4, <2>5, GoOnStep
<1> QED BY <1>3, <1>4

\* The other steps only move a process.
LEMMA MoveStep ==
    ASSUME IInv, NEW p \in Setups,
           Start(p) \/ Migrate(p) \/ Die(p) \/ StartAgain(p)
    PROVE  IInv'
<1>1. /\ UNCHANGED <<library, recorded, next>>
      /\ \/ pc' = [pc EXCEPT ![p] = "read"]
         \/ pc' = [pc EXCEPT ![p] = "raised"]
         \/ pc' = [pc EXCEPT ![p] = "idle"]
         \/ pc' = [pc EXCEPT ![p] = "record"] /\ pc[p] = "migrate"
  BY DEF Start, Migrate, Die, StartAgain, Goto
<1> QED
  BY <1>1 DEF IInv, TypeOK, Versions, RecordsContiguous, FinishedRecorded, LoopKnows

LEMMA NextIInv == IInv /\ [Next]_vars => IInv'
<1> SUFFICES ASSUME IInv, [Next]_vars PROVE IInv'
  OBVIOUS
<1>1. CASE UNCHANGED vars
  BY <1>1 DEF vars, IInv, TypeOK, Versions, RecordsContiguous, FinishedRecorded, LoopKnows
<1>2. CASE Next
  BY <1>2, ReadVersionStep, RecordStep, MoveStep DEF Next, SetupStep
<1> QED BY <1>1, <1>2

\* Type correctness of setup: the loop variable stays inside the list.
THEOREM TypeCorrect == Spec => []TypeOK
<1>1. IInv => TypeOK
  BY DEF IInv
<1> QED BY <1>1, InitIInv, NextIInv, PTL DEF Spec

\* However many processes run setup at once and wherever they are killed, the
\* recorded versions never have a gap: the newest one stands for all before it
\* (SELECT v ... ORDER BY v DESC LIMIT 1 relies on it).
THEOREM VersionsHaveNoGap == Spec => []RecordsContiguous
<1>1. IInv => RecordsContiguous
  BY DEF IInv
<1> QED BY <1>1, InitIInv, NextIInv, PTL DEF Spec

\* A process whose setup returned has every migration recorded, whoever ran it.
THEOREM ReturnedMeansRecorded == Spec => []FinishedRecorded
<1>1. IInv => FinishedRecorded
  BY DEF IInv
<1> QED BY <1>1, InitIInv, NextIInv, PTL DEF Spec

-----------------------------------------------------------------------------
\* What a statement does to the tables.

LEMMA RanIsForm ==
    ASSUME NEW t, NEW m
    PROVE  IsForm(Ran(t, m)) /\ DOMAIN Ran(t, m) = DOMAIN t \cup {m.table}
BY DEF IsForm, Ran

LEMMA AlteredTwice ==
    ASSUME NEW f, NEW g
    PROVE  Altered(Altered(f, g), g) = Altered(f, g)
BY DEF Altered

\* A statement that succeeds twice in a row changes nothing the second time.
LEMMA RanTwice ==
    ASSUME NEW t, NEW m, IsForm(m.sets)
    PROVE  Ran(Ran(t, m), m) = Ran(t, m)
<1> DEFINE a == Ran(t, m)  b == Ran(a, m)
<1>1. /\ DOMAIN a = DOMAIN t \cup {m.table}
      /\ a = [x \in DOMAIN a |-> a[x]]
      /\ DOMAIN b = DOMAIN a
      /\ b = [x \in DOMAIN b |-> b[x]]
  <2>1. IsForm(a) /\ DOMAIN a = DOMAIN t \cup {m.table}
    BY RanIsForm
  <2> HIDE DEF a
  <2>2. IsForm(b) /\ DOMAIN b = DOMAIN a \cup {m.table}
    BY RanIsForm
  <2> QED BY <2>1, <2>2 DEF IsForm
<1>2. ASSUME NEW x \in DOMAIN a, x # m.table PROVE b[x] = a[x]
  <2> HIDE DEF a
  <2> QED BY <1>2 DEF Ran
<1>3. m.table \in DOMAIN a /\ b[m.table] = IF m.create THEN a[m.table] ELSE Altered(a[m.table], m.sets)
  <2>1. m.table \in DOMAIN a
    BY <1>1
  <2> HIDE DEF a
  <2> QED BY <2>1 DEF Ran
<1>4. ~m.create => Altered(a[m.table], m.sets) = a[m.table]
  <2> SUFFICES ASSUME ~m.create PROVE Altered(a[m.table], m.sets) = a[m.table]
    OBVIOUS
  <2>1. CASE m.table \in DOMAIN t
    <3>1. a[m.table] = Altered(t[m.table], m.sets)
      BY <2>1 DEF Ran
    <3> QED BY <3>1, AlteredTwice
  <2>2. CASE m.table \notin DOMAIN t
    <3>1. a[m.table] = m.sets
      BY <2>2 DEF Ran
    <3> HIDE DEF a
    <3>2. Altered(m.sets, m.sets) = m.sets
      BY DEF Altered, IsForm
    <3> QED BY <3>1, <3>2
  <2> QED BY <2>1, <2>2
<1> HIDE DEF a, b
<1>5. \A x \in DOMAIN a : b[x] = a[x]
  BY <1>2, <1>3, <1>4
<1>6. b = a
  BY <1>1, <1>5
<1> QED BY <1>6 DEF a, b

LEMMA VersionTableTwice ==
    ASSUME NEW t, IsForm(t), "migrations" \in DOMAIN t
    PROVE  Ran(t, VersionTable) = t
<1>1. VersionTable.table = "migrations" /\ VersionTable.create
  BY DEF VersionTable, Create
<1>2. DOMAIN Ran(t, VersionTable) = DOMAIN t
  BY <1>1, RanIsForm
<1>3. \A x \in DOMAIN t : Ran(t, VersionTable)[x] = t[x]
  BY <1>1 DEF Ran
<1>4. Ran(t, VersionTable) = [x \in DOMAIN t |-> Ran(t, VersionTable)[x]]
  BY <1>2, RanIsForm DEF IsForm
<1> QED BY <1>3, <1>4 DEF IsForm

-----------------------------------------------------------------------------
\* The tables after each migration.

\* ReleasesOf satisfies its equation: a list of k migrations that had no such
\* function would have a shorter one before it.
LEMMA ReleasesDef ==
    ASSUME NEW list, Len(list) \in Nat
    PROVE  ReleasesOf(list) =
             [v \in 0..Len(list) |->
                IF v = 0 THEN Ran(NoTables, VersionTable)
                ELSE Ran(ReleasesOf(list)[v - 1], list[v])]
<1> DEFINE Step(r, v) == IF v = 0 THEN Ran(NoTables, VersionTable) ELSE Ran(r[v - 1], list[v])
           Defined(k) == \E r : r = [v \in 0..k |-> Step(r, v)]
<1>1. \A k \in Nat : Defined(k)
  <2> DEFINE Bad == {k \in Nat : ~Defined(k)}
  <2> SUFFICES ASSUME Bad # {} PROVE FALSE
    OBVIOUS
  <2>1. PICK k \in Bad : \A j \in Bad : k <= j
    BY LeastNumber
  <2>2. CASE k = 0
    <3> DEFINE r == [v \in 0..0 |-> Ran(NoTables, VersionTable)]
    <3>1. r = [v \in 0..0 |-> Step(r, v)]
      OBVIOUS
    <3> QED BY <3>1, <2>2
  <2>3. CASE k # 0
    <3>1. k \in Nat /\ k - 1 \in Nat /\ ~(k <= k - 1)
      BY <2>3
    <3>2. PICK r : r = [v \in 0..(k - 1) |-> Step(r, v)]
      BY <3>1, <2>1
    <3> DEFINE q == [v \in 0..k |-> Step(r, v)]
    <3>3. \A v \in 0..(k - 1) : q[v] = r[v]
      BY <3>1, <3>2
    <3>4. \A v \in 0..k : Step(q, v) = Step(r, v)
      <4> SUFFICES ASSUME NEW v \in 0..k PROVE Step(q, v) = Step(r, v)
        OBVIOUS
      <4>1. v # 0 => v - 1 \in 0..(k - 1)
        BY <3>1
      <4> HIDE DEF q
      <4> QED BY <4>1, <3>3
    <3>5. q = [v \in 0..k |-> Step(q, v)]
      BY <3>4
    <3> QED BY <3>5, <2>1
  <2> QED BY <2>2, <2>3
<1>2. Defined(Len(list))
  BY <1>1
<1> QED BY <1>2 DEF ReleasesOf

LEMMA ReleasesStep ==
    ASSUME NEW list, Len(list) \in Nat
    PROVE  /\ ReleasesOf(list)[0] = Ran(NoTables, VersionTable)
           /\ \A v \in 1..Len(list) : ReleasesOf(list)[v] = Ran(ReleasesOf(list)[v - 1], list[v])
<1> DEFINE R == ReleasesOf(list)
<1>1. R = [v \in 0..Len(list) |->
             IF v = 0 THEN Ran(NoTables, VersionTable) ELSE Ran(R[v - 1], list[v])]
  BY ReleasesDef
<1> HIDE DEF R
<1>2. /\ R[0] = Ran(NoTables, VersionTable)
      /\ \A v \in 1..Len(list) : R[v] = Ran(R[v - 1], list[v])
  BY <1>1
<1> QED BY <1>2 DEF R

\* Every release has the table of versions: setup may always create it.
LEMMA ReleasesHaveVersions ==
    ASSUME NEW list, Len(list) \in Nat, NEW n \in 0..Len(list)
    PROVE  Ran(ReleasesOf(list)[n], VersionTable) = ReleasesOf(list)[n]
<1> DEFINE R == ReleasesOf(list)
           Fine(k) == IsForm(R[k]) /\ "migrations" \in DOMAIN R[k]
           Bad == {k \in 0..Len(list) : ~Fine(k)}
<1>1. Bad = {}
  <2> SUFFICES ASSUME Bad # {} PROVE FALSE
    OBVIOUS
  <2>0. Bad \subseteq Nat
    OBVIOUS
  <2>1. PICK k \in Bad : \A j \in Bad : k <= j
    BY <2>0, LeastNumber
  <2>2. CASE k = 0
    <3>1. R[k] = Ran(NoTables, VersionTable)
      BY <2>2, ReleasesStep
    <3>2. VersionTable.table = "migrations"
      BY DEF VersionTable, Create
    <3>3. Fine(k)
      BY <3>1, <3>2, RanIsForm
    <3> QED BY <3>3, <2>1
  <2>3. CASE k # 0
    <3>1. k \in 1..Len(list) /\ k - 1 \in 0..Len(list) /\ ~(k <= k - 1)
      BY <2>3
    <3>2. "migrations" \in DOMAIN R[k - 1]
      BY <3>1, <2>1
    <3>3. R[k] = Ran(R[k - 1], list[k])
      BY <3>1, ReleasesStep
    <3>4. Fine(k)
      <4> HIDE DEF R
      <4>1. /\ IsForm(Ran(R[k - 1], list[k]))
            /\ DOMAIN Ran(R[k - 1], list[k]) = DOMAIN R[k - 1] \cup {list[k].table}
        BY RanIsForm
      <4>2. IsForm(R[k]) /\ DOMAIN R[k] = DOMAIN R[k - 1] \cup {list[k].table}
        BY <3>3, <4>1
      <4> QED BY <3>2, <4>2
    <3> QED BY <3>4, <2>1
  <2> QED BY <2>2, <2>3
<1>2. Fine(n)
  BY <1>1
<1> QED BY <1>2, VersionTableTwice

-----------------------------------------------------------------------------
\* The inductive invariant: with v versions recorded, the tables are those of
\* release v or of the next one, and a process that has run migration v but not
\* recorded it has moved them there.  A process that falls behind must not undo
\* what the others did: there is only one, or late runs are harmless.

CareTaken == (\E p \in Setups : Alone(p)) \/ LateRunsHarmless(Lists[library])

SchemaAt(v) ==
    \/ v = 0 /\ tables = NoTables /\ \A p \in Setups : pc[p] = "idle"
    \/ tables = Released[v]
    \/ v < Len(Lists[library]) /\ tables = Released[v + 1]

RanAt(v) == \A p \in Setups : pc[p] = "record" /\ next[p] = v => tables = Released[v + 1]

\* Where a process that has the database to itself can be.
AloneAt(v) ==
    \A p \in Setups : Alone(p) =>
        /\ \A q \in Setups \ {p} : pc[q] = "idle"
        /\ pc[p] \in {"migrate", "record"} => next[p] = v
        /\ pc[p] = "raised" =>
             /\ next[p] = v /\ v < Len(Lists[library])
             /\ ~Repeatable(v) /\ tables = Released[v + 1]

SInv ==
    CareTaken =>
        \E v \in 0..Len(Lists[library]) :
            recorded = 0..(v - 1) /\ SchemaAt(v) /\ RanAt(v) /\ AloneAt(v)

\* What the releases of the library that is set up have in common.
LEMMA Releases ==
    ASSUME TypeOK
    PROVE  /\ Len(Lists[library]) \in Nat
           /\ Released[0] = Ran(NoTables, VersionTable)
           /\ \A v \in Versions :
                /\ Released[v + 1] = Ran(Released[v], MIGRATIONS(v))
                /\ CanRun(Released[v], MIGRATIONS(v))
                /\ Ran(Released[v + 1], MIGRATIONS(v)) = Released[v + 1]
           /\ \A v \in 0..Len(Lists[library]) : Ran(Released[v], VersionTable) = Released[v]
<1> DEFINE list == Lists[library]
<1>1. /\ Len(list) \in Nat
      /\ \A v \in 1..Len(list) : IsForm(list[v].sets)
      /\ RunsInOrder(list)
  BY MigrationsAssumption DEF TypeOK
<1>2. Released = ReleasesOf(list) /\ Versions = 0..(Len(list) - 1)
  BY DEF Released, Versions
<1>3. \A v : MIGRATIONS(v) = list[v + 1]
  BY DEF MIGRATIONS
<1> HIDE DEF list
<1>4. Released[0] = Ran(NoTables, VersionTable)
  BY <1>1, <1>2, ReleasesStep
<1>5. \A v \in 0..Len(list) : Ran(Released[v], VersionTable) = Released[v]
  BY <1>1, <1>2, ReleasesHaveVersions
<1>6. ASSUME NEW v \in Versions
      PROVE  /\ Released[v + 1] = Ran(Released[v], MIGRATIONS(v))
             /\ CanRun(Released[v], MIGRATIONS(v))
             /\ Ran(Released[v + 1], MIGRATIONS(v)) = Released[v + 1]
  <2>1. v + 1 \in 1..Len(list) /\ (v + 1) - 1 = v
    BY <1>1, <1>2
  <2>2. Released[v + 1] = Ran(Released[v], list[v + 1])
    BY <1>1, <1>2, <2>1, ReleasesStep
  <2>3. CanRun(Released[v], list[v + 1])
    BY <1>1, <1>2, <2>1 DEF RunsInOrder
  <2>4. Ran(Released[v + 1], list[v + 1]) = Released[v + 1]
    BY <1>1, <2>1, <2>2, RanTwice
  <2> QED BY <1>3, <2>2, <2>3, <2>4
<1> QED BY <1>1, <1>4, <1>5, <1>6 DEF list

\* A migration that is run late, where this can happen.
LEMMA LateRun ==
    ASSUME TypeOK, LateRunsHarmless(Lists[library]), NEW v \in Versions,
           NEW w \in 0..Len(Lists[library]), v < w, CanRun(Released[w], MIGRATIONS(v))
    PROVE  Ran(Released[w], MIGRATIONS(v)) = Released[w]
<1>1. Len(Lists[library]) \in Nat
  BY DEF TypeOK
<1>2. v + 1 \in 1..Len(Lists[library]) /\ w \in (v + 1)..Len(Lists[library])
  BY <1>1 DEF Versions
<1> QED BY <1>2 DEF LateRunsHarmless, Released, MIGRATIONS

LEMMA InitSInv == Init => SInv
<1> SUFFICES ASSUME Init PROVE SInv
  OBVIOUS
<1>1. PICK v \in 0..Len(Lists[library]) :
        recorded = 0..(v - 1) /\ tables = IF v = 0 THEN NoTables ELSE Released[v]
  BY DEF Init
<1>2. \A p \in Setups : pc[p] = "idle"
  BY DEF Init
<1>3. SchemaAt(v) /\ RanAt(v) /\ AloneAt(v)
  BY <1>1, <1>2 DEF SchemaAt, RanAt, AloneAt
<1> QED BY <1>1, <1>3 DEF SInv

\* A step of p keeps what is known of a process that is alone, which is p itself,
\* when p ends up where it may be.
LEMMA AloneStep ==
    ASSUME NEW p \in Setups, NEW v, NEW w, AloneAt(v),
           p \in Callers[library] \/ pc[p] # "idle",
           library' = library, \A q \in Setups \ {p} : pc'[q] = pc[q],
           Alone(p) => /\ pc'[p] \in {"migrate", "record"} => next'[p] = w
                       /\ pc'[p] = "raised" =>
                            /\ next'[p] = w /\ w < Len(Lists[library])
                            /\ ~Repeatable(w) /\ tables' = Released[w + 1]
    PROVE  AloneAt(w)'
<1>1. Released' = Released /\ Repeatable(w)' = Repeatable(w)
  BY DEF Released, Repeatable, MIGRATIONS
<1>2. ASSUME NEW q \in Setups, Alone(q) PROVE q = p
  BY <1>2 DEF Alone, AloneAt
<1>3. ASSUME NEW q \in Setups, Alone(q)' PROVE q = p /\ Alone(p)
  BY <1>2, <1>3 DEF Alone
<1>4. ASSUME Alone(p) PROVE \A q \in Setups \ {p} : pc'[q] = "idle"
  BY <1>4 DEF AloneAt
<1> QED BY <1>1, <1>3, <1>4 DEF AloneAt

\* What is known when a process is at work on version v.
LEMMA AtWork ==
    ASSUME IInv, NEW v \in 0..Len(Lists[library]), recorded = 0..(v - 1), SchemaAt(v),
           NEW p \in Setups, pc[p] # "idle"
    PROVE  /\ \/ tables = Released[v]
              \/ v < Len(Lists[library]) /\ tables = Released[v + 1]
           /\ pc[p] \in {"migrate", "record"} => next[p] \in Versions /\ next[p] <= v
<1>1. TypeOK /\ Len(Lists[library]) \in Nat
  BY Releases DEF IInv
<1>2. ASSUME pc[p] \in {"migrate", "record"} PROVE next[p] \in Versions /\ next[p] <= v
  <2>1. next[p] \in Versions /\ next[p] \in Nat /\ 0..(next[p] - 1) \subseteq 0..(v - 1)
    BY <1>2 DEF IInv, TypeOK, LoopKnows
  <2>2. ASSUME NEW k \in Nat, NEW m \in Nat, 0..(k - 1) \subseteq 0..(m - 1) PROVE k <= m
    <3>1. k # 0 => k - 1 \in 0..(k - 1)
      OBVIOUS
    <3> QED BY <2>2, <3>1
  <2>3. v \in Nat
    BY <1>1
  <2> QED BY <2>1, <2>2, <2>3
<1> QED BY <1>2 DEF SchemaAt

LEMMA StartSchema ==
    ASSUME IInv, SInv, NEW p \in Setups, Start(p)
    PROVE  SInv'
<1> SUFFICES ASSUME CareTaken PROVE SInv'
  BY DEF SInv, CareTaken, Alone, Start
<1>1. PICK v \in 0..Len(Lists[library]) :
        recorded = 0..(v - 1) /\ SchemaAt(v) /\ RanAt(v) /\ AloneAt(v)
  BY DEF SInv
<1>2. /\ p \in Callers[library] /\ pc' = [pc EXCEPT ![p] = "read"]
      /\ tables' = Ran(tables, VersionTable) /\ UNCHANGED <<library, recorded, next>>
  BY DEF Start, Goto
<1>3. TypeOK /\ Len(Lists[library]) \in Nat /\ Released' = Released
  BY <1>2, Releases DEF IInv, Released
<1>4. \A q \in Setups : pc'[q] = IF q = p THEN "read" ELSE pc[q]
  BY <1>2 DEF IInv, TypeOK
<1>5. tables = NoTables /\ v = 0 => tables' = Released[v]
  BY <1>2, <1>3, Releases
<1>6. \A u \in 0..Len(Lists[library]) : tables = Released[u] => tables' = Released[u]
  BY <1>2, <1>3, Releases
<1>7. v < Len(Lists[library]) => v + 1 \in 0..Len(Lists[library])
  BY <1>3
<1>8. SchemaAt(v)'
  BY <1>1, <1>2, <1>3, <1>5, <1>6, <1>7 DEF SchemaAt
<1>9. RanAt(v)'
  <2> SUFFICES ASSUME NEW q \in Setups, pc'[q] = "record", next'[q] = v
               PROVE  tables' = Released[v + 1]
    BY <1>2, <1>3 DEF RanAt
  <2>1. q # p /\ pc[q] = "record" /\ next[q] = v
    BY <1>2, <1>4
  <2>2. v \in Versions /\ tables = Released[v + 1]
    BY <2>1, <1>1 DEF IInv, TypeOK, RanAt
  <2>3. v + 1 \in 0..Len(Lists[library])
    BY <1>3, <2>2 DEF Versions
  <2> QED BY <2>2, <2>3, <1>6
<1>10. AloneAt(v)'
  BY <1>1, <1>2, <1>4, AloneStep
<1> QED BY <1>1, <1>2, <1>8, <1>9, <1>10 DEF SInv

\* A process that is killed, or started again.
LEMMA IdleSchema ==
    ASSUME IInv, SInv, NEW p \in Setups, Die(p) \/ StartAgain(p)
    PROVE  SInv'
<1> SUFFICES ASSUME CareTaken PROVE SInv'
  BY DEF SInv, CareTaken, Alone, Die, StartAgain
<1>1. PICK v \in 0..Len(Lists[library]) :
        recorded = 0..(v - 1) /\ SchemaAt(v) /\ RanAt(v) /\ AloneAt(v)
  BY DEF SInv
<1>2. /\ pc[p] # "idle" /\ pc' = [pc EXCEPT ![p] = "idle"]
      /\ UNCHANGED <<library, tables, recorded, next>>
  BY DEF Die, StartAgain, Goto
<1>3. Released' = Released
  BY <1>2 DEF Released
<1>4. \A q \in Setups : pc'[q] = IF q = p THEN "idle" ELSE pc[q]
  BY <1>2 DEF IInv, TypeOK
<1>5. SchemaAt(v)' /\ RanAt(v)'
  BY <1>1, <1>2, <1>3, <1>4 DEF SchemaAt, RanAt
<1>6. AloneAt(v)'
  BY <1>1, <1>2, <1>4, AloneStep
<1> QED BY <1>1, <1>2, <1>5, <1>6 DEF SInv

LEMMA ReadVersionSchema ==
    ASSUME IInv, SInv, NEW p \in Setups, ReadVersion(p)
    PROVE  SInv'
<1> SUFFICES ASSUME CareTaken PROVE SInv'
  BY DEF SInv, CareTaken, Alone, ReadVersion
<1>1. PICK v \in 0..Len(Lists[library]) :
        recorded = 0..(v - 1) /\ SchemaAt(v) /\ RanAt(v) /\ AloneAt(v)
  BY DEF SInv
<1>2. Len(Lists[library]) \in Nat
  BY Releases DEF IInv
<1>3. PICK u \in recorded \cup {-1} : (\A w \in recorded : w <= u) /\ GoOn(p, u + 1)
  BY DEF ReadVersion
<1>4. u + 1 = v
  <2>1. v # 0 => v - 1 \in recorded
    BY <1>1, <1>2
  <2> QED BY <1>1, <1>2, <1>3, <2>1
<1>5. PICK label \in {"migrate", "done"} :
        pc' = [pc EXCEPT ![p] = label] /\ next' = [next EXCEPT ![p] = v]
  BY <1>3, <1>4 DEF GoOn, Goto
<1>6. pc[p] = "read" /\ UNCHANGED <<library, tables, recorded>> /\ Released' = Released
  BY DEF ReadVersion, Released
<1>7. /\ pc'[p] = label /\ next'[p] = v
      /\ \A q \in Setups \ {p} : pc'[q] = pc[q] /\ next'[q] = next[q]
  BY <1>5 DEF IInv, TypeOK
<1>8. SchemaAt(v)'
  BY <1>1, <1>6, AtWork DEF SchemaAt
<1>9. RanAt(v)'
  BY <1>1, <1>6, <1>7 DEF RanAt
<1>10. AloneAt(v)'
  BY <1>1, <1>6, <1>7, AloneStep
<1> QED BY <1>1, <1>6, <1>8, <1>9, <1>10 DEF SInv

LEMMA MigrateSchema ==
    ASSUME IInv, SInv, NEW p \in Setups, Migrate(p)
    PROVE  SInv'
<1> SUFFICES ASSUME CareTaken PROVE SInv'
  BY DEF SInv, CareTaken, Alone, Migrate
<1>1. PICK v \in 0..Len(Lists[library]) :
        recorded = 0..(v - 1) /\ SchemaAt(v) /\ RanAt(v) /\ AloneAt(v)
  BY DEF SInv
<1> DEFINE u == next[p]  n == Len(Lists[library])
<1>2. pc[p] = "migrate" /\ UNCHANGED <<library, recorded, next>> /\ Released' = Released
  BY DEF Migrate, Released
<1>3. /\ tables = Released[v] \/ (v < n /\ tables = Released[v + 1])
      /\ u \in Versions /\ u <= v
  BY <1>1, <1>2, AtWork
<1>4. TypeOK /\ n \in Nat
  BY Releases DEF IInv
<1>5. Alone(p) => u = v
  BY <1>1, <1>2 DEF AloneAt
<1>6. v \in Versions => v < n
  BY <1>4 DEF Versions
<1>7. CASE CanRun(tables, MIGRATIONS(u))
  <2>1. tables' = Ran(tables, MIGRATIONS(u)) /\ pc' = [pc EXCEPT ![p] = "record"]
    BY <1>7 DEF Migrate, Goto
  <2>2. pc'[p] = "record" /\ \A q \in Setups \ {p} : pc'[q] = pc[q]
    BY <2>1 DEF IInv, TypeOK
  <2>3. CASE u = v
    <3>1. v \in Versions /\ tables' = Released[v + 1]
      BY <1>3, <1>4, <2>1, <2>3, Releases
    <3>2. SchemaAt(v)' /\ RanAt(v)'
      BY <1>2, <1>6, <3>1 DEF SchemaAt, RanAt
    <3>3. AloneAt(v)'
      BY <1>1, <1>2, <2>2, <2>3, AloneStep
    <3> QED BY <1>1, <1>2, <3>2, <3>3 DEF SInv
  <2>4. CASE u # v
    <3>1. LateRunsHarmless(Lists[library])
      BY <1>1, <1>2, <1>5, <2>4 DEF CareTaken, AloneAt
    <3>2. tables' = tables
      <4>1. CASE tables = Released[v]
        <5>1. u < v
          BY <1>3, <1>4, <2>4 DEF Versions
        <5> QED BY <1>3, <1>4, <1>7, <2>1, <3>1, <4>1, <5>1, LateRun
      <4>2. CASE v < n /\ tables = Released[v + 1]
        <5>1. v + 1 \in 0..n /\ u < v + 1
          BY <1>3, <1>4, <4>2 DEF Versions
        <5> QED BY <1>3, <1>4, <1>7, <2>1, <3>1, <4>2, <5>1, LateRun
      <4> QED BY <1>3, <4>1, <4>2
    <3>3. SchemaAt(v)'
      BY <1>2, <1>3, <3>2 DEF SchemaAt
    <3>4. RanAt(v)'
      BY <1>1, <1>2, <2>2, <2>4, <3>2 DEF RanAt
    <3>5. AloneAt(v)'
      BY <1>1, <1>2, <1>5, <2>2, <2>4, AloneStep
    <3> QED BY <1>1, <1>2, <3>3, <3>4, <3>5 DEF SInv
  <2> QED BY <2>3, <2>4
<1>8. CASE ~CanRun(tables, MIGRATIONS(u))
  <2>1. tables' = tables /\ pc' = [pc EXCEPT ![p] = "raised"]
    BY <1>8 DEF Migrate, Goto
  <2>2. pc'[p] = "raised" /\ \A q \in Setups \ {p} : pc'[q] = pc[q]
    BY <2>1 DEF IInv, TypeOK
  <2>3. SchemaAt(v)'
    BY <1>2, <1>3, <2>1 DEF SchemaAt
  <2>4. RanAt(v)'
    BY <1>1, <1>2, <2>1, <2>2 DEF RanAt
  <2>5. ASSUME Alone(p)
        PROVE  u = v /\ v < n /\ ~Repeatable(v) /\ tables' = Released[v + 1]
    <3>1. u = v /\ v \in Versions /\ CanRun(Released[v], MIGRATIONS(v))
      BY <1>3, <1>4, <1>5, <2>5, Releases
    <3>2. tables = Released[v + 1]
      BY <1>3, <1>8, <3>1
    <3> QED BY <1>6, <1>8, <2>1, <3>1, <3>2 DEF Repeatable
  <2>6. AloneAt(v)'
    BY <1>1, <1>2, <2>2, <2>5, AloneStep
  <2> QED BY <1>1, <1>2, <2>3, <2>4, <2>6 DEF SInv
<1> QED BY <1>7, <1>8

LEMMA RecordSchema ==
    ASSUME IInv, SInv, NEW p \in Setups, Record(p)
    PROVE  SInv'
<1> SUFFICES ASSUME CareTaken PROVE SInv'
  BY DEF SInv, CareTaken, Alone, Record
<1>1. PICK v \in 0..Len(Lists[library]) :
        recorded = 0..(v - 1) /\ SchemaAt(v) /\ RanAt(v) /\ AloneAt(v)
  BY DEF SInv
<1> DEFINE u == next[p]  n == Len(Lists[library])
<1>2. pc[p] = "record" /\ UNCHANGED <<library, tables>> /\ Released' = Released
  BY DEF Record, Released
<1>3. /\ tables = Released[v] \/ (v < n /\ tables = Released[v + 1])
      /\ u \in Versions /\ u <= v
  BY <1>1, <1>2, AtWork
<1>4. TypeOK /\ n \in Nat
  BY Releases DEF IInv
<1>5. Alone(p) => u = v
  BY <1>1, <1>2 DEF AloneAt
<1>6. CASE u \in recorded
  <2>1. UNCHANGED <<recorded, next>> /\ pc' = [pc EXCEPT ![p] = "raised"]
    BY <1>6 DEF Record, Goto
  <2>2. pc'[p] = "raised" /\ \A q \in Setups \ {p} : pc'[q] = pc[q]
    BY <2>1 DEF IInv, TypeOK
  <2>3. u # v
    BY <1>1, <1>4, <1>6
  <2>4. SchemaAt(v)'
    BY <1>2, <1>3 DEF SchemaAt
  <2>5. RanAt(v)'
    BY <1>1, <1>2, <2>1, <2>2 DEF RanAt
  <2>6. AloneAt(v)'
    BY <1>1, <1>2, <1>5, <2>2, <2>3, AloneStep
  <2> QED BY <1>1, <1>2, <2>1, <2>4, <2>5, <2>6 DEF SInv
<1>7. CASE u \notin recorded
  <2>1. u = v /\ v < n /\ v \in Nat
    BY <1>1, <1>3, <1>4, <1>7 DEF Versions
  <2>2. recorded' = recorded \cup {v} /\ GoOn(p, v + 1)
    BY <1>7, <2>1 DEF Record
  <2>3. PICK label \in {"migrate", "done"} :
          pc' = [pc EXCEPT ![p] = label] /\ next' = [next EXCEPT ![p] = v + 1]
    BY <2>2 DEF GoOn, Goto
  <2>4. /\ pc'[p] = label /\ next'[p] = v + 1
        /\ \A q \in Setups \ {p} : pc'[q] = pc[q] /\ next'[q] = next[q]
    BY <2>3 DEF IInv, TypeOK
  <2>5. v + 1 \in 0..n /\ recorded' = 0..((v + 1) - 1)
    BY <1>1, <1>4, <2>1, <2>2
  <2>6. tables = Released[v + 1]
    BY <1>1, <1>2, <2>1 DEF RanAt
  <2>7. SchemaAt(v + 1)'
    BY <1>2, <2>6 DEF SchemaAt
  <2>8. RanAt(v + 1)'
    <3> SUFFICES ASSUME NEW q \in Setups, pc'[q] = "record", next'[q] = v + 1
                 PROVE  FALSE
      BY DEF RanAt
    <3>1. pc[q] = "record" /\ next[q] = v + 1
      BY <2>4
    <3>2. next[q] <= v
      BY <1>1, <3>1, AtWork
    <3> QED BY <2>1, <3>1, <3>2
  <2>9. AloneAt(v + 1)'
    BY <1>1, <1>2, <2>4, AloneStep
  <2> QED BY <1>2, <2>5, <2>7, <2>8, <2>9 DEF SInv
<1> QED BY <1>6, <1>7

LEMMA NextSInv == IInv /\ SInv /\ [Next]_vars => SInv'
<1> SUFFICES ASSUME IInv, SInv, [Next]_vars PROVE SInv'
  OBVIOUS
<1>1. CASE UNCHANGED vars
  BY <1>1 DEF vars, SInv, CareTaken, SchemaAt, RanAt, AloneAt, Alone, Repeatable,
              Released, MIGRATIONS
<1>2. CASE Next
  BY <1>2, StartSchema, IdleSchema, ReadVersionSchema, MigrateSchema, RecordSchema
  DEF Next, SetupStep
<1> QED BY <1>1, <1>2

LEMMA Invariance == Spec => [](IInv /\ SInv)
<1> QED BY InitIInv, InitSInv, NextIInv, NextSInv, PTL DEF Spec

-----------------------------------------------------------------------------

\* A process that has the database to itself, wherever it is killed, leaves the
\* tables of the recorded version or of the one after it.
THEOREM SchemaFollowsRecord == Spec => []SchemaOneAhead
<1>1. IInv /\ SInv => SchemaOneAhead
  <2> SUFFICES ASSUME IInv, SInv, \E p \in Setups : Alone(p) PROVE SchemaOneAhead
    BY DEF SchemaOneAhead
  <2>1. PICK v \in 0..Len(Lists[library]) : recorded = 0..(v - 1) /\ SchemaAt(v)
    BY DEF SInv, CareTaken
  <2>2. Len(Lists[library]) \in Nat
    BY Releases DEF IInv
  <2> DEFINE newest == CHOOSE w \in recorded : \A x \in recorded : x <= w
             k == IF recorded = {} THEN 0 ELSE newest + 1
  <2>3. k = v
    <3>1. CASE v = 0
      BY <2>1, <3>1
    <3>2. CASE v # 0
      <4>1. v - 1 \in recorded /\ \A x \in recorded : x <= v - 1
        BY <2>1, <2>2, <3>2
      <4>2. newest \in recorded /\ \A x \in recorded : x <= newest
        BY <4>1
      <4>3. newest = v - 1
        <5> HIDE DEF newest
        <5> QED BY <2>1, <2>2, <4>1, <4>2
      <4> HIDE DEF newest
      <4> QED BY <2>2, <4>1, <4>3
    <3> QED BY <3>1, <3>2
  <2>4. \/ k = 0 /\ tables = NoTables
        \/ tables = Released[k]
        \/ k < Len(Lists[library]) /\ tables = Released[k + 1]
    <3> HIDE DEF k
    <3> QED BY <2>1, <2>3 DEF SchemaAt
  <2> QED BY <2>4 DEF SchemaOneAhead
<1> QED BY <1>1, Invariance, PTL

\* A process that has the database to itself raises only where an earlier one
\* was killed between a statement that cannot be run twice and its record.
THEOREM RaisesOnlyBehindAKill == Spec => []RaisesOnlyWhenCutShort
<1>1. IInv /\ SInv => RaisesOnlyWhenCutShort
  BY DEF SInv, CareTaken, AloneAt, RaisesOnlyWhenCutShort
<1> QED BY <1>1, Invariance, PTL

\* However many processes set up a library, if late runs of its migrations are
\* harmless, or the only one that does, wherever it is killed: a process whose
\* setup returned finds the tables of the release.
THEOREM ReturnedMeansReleased ==
    ASSUME \A l \in DOMAIN Lists :
             (\E p \in Setups : Callers[l] = {p}) \/ LateRunsHarmless(Lists[l])
    PROVE  Spec => []FinishedSchema
<1>1. IInv /\ SInv => FinishedSchema
  <2> SUFFICES ASSUME IInv, SInv, NEW p \in Setups, pc[p] = "done"
               PROVE  tables = Released[Len(Lists[library])]
    BY DEF FinishedSchema
  <2>1. CareTaken
    BY DEF CareTaken, Alone, IInv, TypeOK
  <2>2. PICK v \in 0..Len(Lists[library]) : recorded = 0..(v - 1) /\ SchemaAt(v)
    BY <2>1 DEF SInv
  <2>3. recorded = Versions /\ Len(Lists[library]) \in Nat
    BY Releases DEF IInv, FinishedRecorded
  <2>4. v = Len(Lists[library])
    <3> DEFINE n == Len(Lists[library])
    <3>1. 0..(v - 1) = 0..(n - 1) /\ n \in Nat /\ v \in 0..n
      BY <2>2, <2>3 DEF Versions
    <3> HIDE DEF n
    <3>2. v # n => n - 1 \in 0..(n - 1) /\ n - 1 \notin 0..(v - 1)
      BY <3>1
    <3>3. v = n
      BY <3>1, <3>2
    <3> QED BY <3>3 DEF n
  <2> QED BY <2>2, <2>3, <2>4, AtWork
<1> QED BY <1>1, Invariance, PTL

=============================================================================
