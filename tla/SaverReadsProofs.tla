-------------------------- MODULE SaverReadsProofs --------------------------
(***************************************************************************)
(* Proofs about SaverReads, for every value of its constants: a list read  *)
(* page by page is complete and gives nothing twice, checkpoints are given *)
(* with the sends of their parent, and list and get_tuple agree.           *)
(***************************************************************************)
EXTENDS SaverReads, OrderLemmas, SequenceTheorems

-----------------------------------------------------------------------------
\* The inductive invariant.

\* Sends of the parent, each once and in order.
TasksOK(row) ==
    /\ IsSequence(row.tasks)
    /\ \A n \in 1..Len(row.tasks) : row.tasks[n].id = row.parent
    /\ \A m, n \in 1..Len(row.tasks) : m < n => Earlier(row.tasks[m], row.tasks[n])

\* A row that put has stored, or that is given to the reader.
IsRow(row) ==
    /\ DOMAIN row = {"id", "thread", "ns", "parent", "v", "metadata", "tasks"}
    /\ [thread |-> row.thread, ns |-> row.ns] \in Scopes
    /\ row.id \in DOMAIN due
    /\ row.parent \in DOMAIN due \cup {NoId} /\ row.parent < row.id
    /\ row.v \in 1..4
    /\ TasksOK(row)

IsSend(w) ==
    /\ w = [thread |-> w.thread, id |-> w.id, path |-> w.path, task |-> w.task, idx |-> w.idx]
    /\ w.id \in DOMAIN checkpoints /\ w.thread = checkpoints[w.id].thread
    /\ w.path \in Int /\ w.task \in Int /\ w.idx \in 1..MaxSends

\* What a checkpoint has to hand to its tasks is stored: with its parent, and
\* with the checkpoint itself if it has the newest format.
StoredRow(i) ==
    LET row == checkpoints[i] IN
    /\ IsRow(row) /\ row.id = i
    /\ \A w \in due[i] : w \in sends /\ w.id = row.parent /\ w.thread = row.thread
    /\ row.v = 4 => due[i] \subseteq ToSet(row.tasks)

Stored ==
    /\ DOMAIN checkpoints \subseteq DOMAIN due /\ DOMAIN due \subseteq Ids
    /\ IsFiniteSet(sends) /\ \A w \in sends : IsSend(w)
    /\ \A i \in DOMAIN checkpoints : StoredRow(i)

\* A row the reader has been given is still the stored one, but for its tasks,
\* unless its thread has been deleted.
GivenRow(row) ==
    /\ IsRow(row)
    /\ reader.cfg.thread # None => row.thread = reader.cfg.thread
    /\ row.thread \notin reader.deleted =>
         /\ row.id \in DOMAIN checkpoints
         /\ checkpoints[row.id].thread = row.thread
         /\ checkpoints[row.id].parent = row.parent
         /\ row.v = 4 => due[row.id] \subseteq ToSet(row.tasks)
         /\ reader.at = "given" /\ reader.cfg.thread # None =>
              due[row.id] \subseteq ToSet(row.tasks)

Given ==
    /\ DOMAIN reader = {"call", "cfg", "filter", "limit", "at", "rows", "listed", "stays", "deleted"}
    /\ reader.call \in {"list", "get_tuple"} /\ reader.at \in {"sends", "given"}
    /\ reader.limit \in Nat \ {0}
    /\ IsSequence(reader.rows) /\ Len(reader.rows) <= reader.limit
    /\ reader.at = "sends" => reader.rows # <<>>
    /\ reader.call = "get_tuple" => reader.limit = 1
    /\ \A n \in 1..Len(reader.rows) : GivenRow(reader.rows[n])

\* The list is newest first, each once.
Descends(listed) ==
    /\ IsSequence(listed) /\ \A n \in 1..Len(listed) : listed[n] \in Ids
    /\ \A m, n \in 1..Len(listed) : m < n => listed[m] > listed[n]

\* What stays and is not in the list comes later in it: the last page, of so
\* many rows, is full.
Continues(listed, stays, rows, limit) ==
    /\ rows <= Len(listed)
    /\ \A i \in stays : i \in ToSet(listed) \/ (rows = limit /\ i < listed[Len(listed)])

Listed ==
    /\ Descends(reader.listed)
    /\ Continues(reader.listed, reader.stays, Len(reader.rows), reader.limit)
    /\ reader.stays \subseteq SearchWhere(reader.cfg, reader.filter, NoId)

IInv ==
    /\ Stored
    /\ reader # Idle => Given
    /\ reader.call = "list" => Listed

-----------------------------------------------------------------------------
\* Lemmas about the queries.

\* ORDER BY checkpoint_id DESC.
LEMMA NewestFirstSorts ==
    ASSUME NEW S, IsFiniteSet(S), S \subseteq Nat
    PROVE  LET q == NewestFirst(S) IN
           /\ IsSequence(q)
           /\ \A n \in 1..Len(q) : q[n] \in S
           /\ \A m, n \in 1..Len(q) : m < n => q[m] > q[n]
           /\ \A i \in S : \E n \in 1..Len(q) : q[n] = i
<1> DEFINE R == {p \in S \X S : p[1] > p[2]}
           q == NewestFirst(S)
<1>1. Orders(R, S)
  BY DEF Orders
<1>2. Sorted(R, S, q)
  BY <1>1, SortedInOrder DEF NewestFirst
<1> HIDE DEF q
<1>3. \A m, n \in 1..Len(q) : m < n => q[m] > q[n]
  BY <1>2 DEF Sorted
<1> QED BY <1>2, <1>3 DEF q, Sorted

\* Sends of one parent are ordered by path, task and index.
LEMMA SendsSorted ==
    ASSUME NEW W, IsFiniteSet(W),
           \A w, x \in W : w.thread = x.thread /\ w.id = x.id,
           \A w \in W :
             /\ w = [thread |-> w.thread, id |-> w.id, path |-> w.path, task |-> w.task, idx |-> w.idx]
             /\ w.path \in Int /\ w.task \in Int /\ w.idx \in Int
    PROVE  LET q == DeserializePendingSends(W) IN
           /\ IsSequence(q)
           /\ \A n \in 1..Len(q) : q[n] \in W
           /\ \A m, n \in 1..Len(q) : m < n => Earlier(q[m], q[n])
           /\ ToSet(q) = W
<1> DEFINE R == {e \in W \X W : Earlier(e[1], e[2])}
           q == DeserializePendingSends(W)
<1>1. \A x, y \in W : <<x, y>> \in R <=> Earlier(x, y)
  OBVIOUS
<1>2. Orders(R, W)
  <2>1. ASSUME NEW x \in W, NEW y \in W, x.path = y.path, x.task = y.task, x.idx = y.idx
        PROVE  x = y
    BY <2>1
  <2>2. ASSUME NEW x \in W, NEW y \in W PROVE x = y \/ Earlier(x, y) \/ Earlier(y, x)
    BY <2>1 DEF Earlier
  <2>3. \A x \in W : ~Earlier(x, x)
    BY DEF Earlier
  <2>4. \A x, y, z \in W : Earlier(x, y) /\ Earlier(y, z) => Earlier(x, z)
    BY DEF Earlier
  <2> HIDE DEF R
  <2> QED BY <1>1, <2>2, <2>3, <2>4 DEF Orders
<1>3. Sorted(R, W, q)
  BY <1>2, SortedInOrder DEF DeserializePendingSends
<1> HIDE DEF R, q
<1>4. ToSet(q) = W
  <2>1. DOMAIN q = 1..Len(q)
    BY <1>3 DEF Sorted, IsSequence
  <2> QED BY <1>3, <2>1 DEF Sorted, ToSet
<1>5. \A m, n \in 1..Len(q) : m < n => Earlier(q[m], q[n])
  BY <1>1, <1>3 DEF Sorted
<1> QED BY <1>3, <1>4, <1>5 DEF q, Sorted

\* ORDER BY and LIMIT: what a page does not give comes after it.
LEMMA PageOfList ==
    ASSUME NEW cfg, NEW filter, NEW before, NEW limit \in Nat \ {0}, DOMAIN checkpoints \subseteq Ids
    PROVE  LET q == SelectRows(cfg, filter, before, limit) IN
           /\ IsSequence(q) /\ Len(q) <= limit
           /\ \A n \in 1..Len(q) : q[n] \in SearchWhere(cfg, filter, before)
           /\ \A m, n \in 1..Len(q) : m < n => q[m] > q[n]
           /\ \A i \in SearchWhere(cfg, filter, before) :
                \/ \E n \in 1..Len(q) : q[n] = i
                \/ Len(q) = limit /\ i < q[Len(q)]
<1> DEFINE S == SearchWhere(cfg, filter, before)
           all == NewestFirst(S)
           last == Min({limit, Len(all)})
           q == SelectRows(cfg, filter, before, limit)
<1>1. IsFiniteSet(S) /\ S \subseteq Nat
  BY FS_Subset, ReadsAssumption DEF SearchWhere
<1> HIDE DEF S
<1>2. /\ IsSequence(all)
      /\ \A n \in 1..Len(all) : all[n] \in S
      /\ \A m, n \in 1..Len(all) : m < n => all[m] > all[n]
      /\ \A i \in S : \E n \in 1..Len(all) : all[n] = i
  BY <1>1, NewestFirstSorts
<1>3. q = SubSeq(all, 1, last)
  BY DEF SelectRows, S
<1> HIDE DEF all, q
<1>4. Len(all) \in Nat
  BY <1>2 DEF IsSequence
<1>5. /\ last = IF limit <= Len(all) THEN limit ELSE Len(all)
      /\ last \in Nat /\ last <= limit /\ last <= Len(all)
  <2>1. \E x \in {limit, Len(all)} : \A y \in {limit, Len(all)} : x <= y
    BY <1>4
  <2>2. last \in {limit, Len(all)} /\ \A y \in {limit, Len(all)} : last <= y
    BY <2>1 DEF Min
  <2> HIDE DEF last
  <2> QED BY <1>4, <2>2
<1> HIDE DEF last
<1>6. q = [n \in 1..last |-> all[n]]
  <2>1. all \in Seq(S)
    BY <1>2 DEF IsSequence
  <2>2. /\ Len(q) = last /\ q \in Seq(S)
        /\ \A n \in 1..last : q[n] = all[n]
    BY <1>3, <1>5, <2>1, SubSeqProperties
  <2> QED BY <2>2
<1>7. Len(q) = last
  BY <1>5, <1>6
<1>8. /\ IsSequence(q) /\ Len(q) <= limit
      /\ \A n \in 1..Len(q) : q[n] \in S
      /\ \A m, n \in 1..Len(q) : m < n => q[m] > q[n]
  BY <1>2, <1>4, <1>5, <1>6, <1>7 DEF IsSequence
<1>9. ASSUME NEW i \in S, ~\E n \in 1..Len(q) : q[n] = i
      PROVE  Len(q) = limit /\ i < q[Len(q)]
  <2>1. PICK n \in 1..Len(all) : all[n] = i
    BY <1>2
  <2>2. n > last
    BY <1>4, <1>5, <1>6, <1>7, <1>9, <2>1
  <2>3. last = limit /\ last \in 1..Len(all) /\ q[last] = all[last]
    BY <1>4, <1>5, <1>6, <2>1, <2>2
  <2>4. all[last] > all[n] /\ all[last] \in Nat /\ all[n] \in Nat
    BY <1>1, <1>2, <2>1, <2>2, <2>3
  <2> QED BY <1>7, <2>1, <2>3, <2>4
<1> QED BY <1>8, <1>9 DEF S, q


\* The sends of a checkpoint that are stored are those of its thread.
LEMMA SendsOfOne ==
    ASSUME Stored, NEW W, W \subseteq sends, NEW p, \A w \in W : w.id = p
    PROVE  LET q == DeserializePendingSends(W) IN
           /\ IsSequence(q)
           /\ \A n \in 1..Len(q) : q[n].id = p
           /\ \A m, n \in 1..Len(q) : m < n => Earlier(q[m], q[n])
           /\ ToSet(q) = W
<1> DEFINE q == DeserializePendingSends(W)
<1>1. IsFiniteSet(W)
  BY FS_Subset DEF Stored
<1>2. /\ \A w, x \in W : w.thread = x.thread /\ w.id = x.id
      /\ \A w \in W :
           /\ w = [thread |-> w.thread, id |-> w.id, path |-> w.path, task |-> w.task, idx |-> w.idx]
           /\ w.path \in Int /\ w.task \in Int /\ w.idx \in Int
  BY ReadsAssumption DEF Stored, IsSend
<1>3. /\ IsSequence(q)
      /\ \A n \in 1..Len(q) : q[n] \in W
      /\ \A m, n \in 1..Len(q) : m < n => Earlier(q[m], q[n])
      /\ ToSet(q) = W
  BY <1>1, <1>2, SendsSorted
<1> HIDE DEF q
<1>4. \A n \in 1..Len(q) : q[n].id = p
  BY <1>3
<1> QED BY <1>3, <1>4 DEF q

\* A row with the sends of its parent is the same row but for its tasks.
LEMMA RowMigrated ==
    ASSUME Stored, NEW row, IsRow(row), NEW W, W \subseteq sends, \A w \in W : w.id = row.parent
    PROVE  LET new == MigratePendingSends(row, W) IN
           /\ IsRow(new)
           /\ new.id = row.id /\ new.thread = row.thread /\ new.parent = row.parent /\ new.v = row.v
           /\ W \subseteq ToSet(new.tasks)
<1> DEFINE q == DeserializePendingSends(W)
           new == MigratePendingSends(row, W)
<1>1. CASE W = {}
  BY <1>1 DEF MigratePendingSends
<1>2. CASE W # {}
  <2>1. /\ IsSequence(q)
        /\ \A n \in 1..Len(q) : q[n].id = row.parent
        /\ \A m, n \in 1..Len(q) : m < n => Earlier(q[m], q[n])
        /\ ToSet(q) = W
    BY SendsOfOne
  <2>2. new = [row EXCEPT !.tasks = q]
    BY <1>2 DEF MigratePendingSends
  <2> HIDE DEF q, new
  <2>3. DOMAIN row = {"id", "thread", "ns", "parent", "v", "metadata", "tasks"}
    BY DEF IsRow
  <2>4. /\ DOMAIN new = DOMAIN row /\ new.tasks = q
        /\ new.id = row.id /\ new.thread = row.thread /\ new.ns = row.ns
        /\ new.parent = row.parent /\ new.v = row.v
    BY <2>2, <2>3
  <2>5. TasksOK(new)
    BY <2>1, <2>4 DEF TasksOK
  <2>6. IsRow(new)
    BY <2>4, <2>5 DEF IsRow
  <2> QED BY <2>1, <2>4, <2>6 DEF new
<1> QED BY <1>1, <1>2

\* Without a parent there is nothing to hand to the tasks.
LEMMA NothingDue ==
    ASSUME Stored, NEW i \in DOMAIN checkpoints, ~ToMigrate(checkpoints[i])
    PROVE  due[i] \subseteq ToSet(checkpoints[i].tasks)
<1> DEFINE row == checkpoints[i]
<1>1. row.v \in 1..4 /\ (row.v = 4 => due[i] \subseteq ToSet(row.tasks))
  BY DEF Stored, StoredRow, IsRow
<1>2. CASE row.parent = NoId
  <2>1. \A w \in due[i] : w.id = NoId /\ w.id \in Ids
    BY <1>2 DEF Stored, StoredRow, IsSend
  <2>2. NoId \notin Ids
    BY ReadsAssumption
  <2> QED BY <2>1, <2>2
<1> QED BY <1>1, <1>2 DEF ToMigrate

-----------------------------------------------------------------------------
\* The other clients keep the invariant.

LEMMA InitHolds == Init => IInv
<1> SUFFICES ASSUME Init PROVE IInv
  OBVIOUS
<1>1. reader = Idle /\ reader.call = "none"
  BY DEF Init, Idle
<1>2. Stored
  BY FS_EmptySet DEF Init, Stored
<1> QED BY <1>1, <1>2 DEF IInv

LEMMA PutHolds ==
    ASSUME IInv, NEW sc \in Scopes, Put(sc)
    PROVE  IInv'
<1> PICK i \in Ids \ DOMAIN due, p \in DOMAIN checkpoints \cup {NoId}, kind \in Kinds :
      /\ p # NoId => /\ p < i
                     /\ checkpoints[p].thread = sc.thread /\ checkpoints[p].ns = sc.ns
      /\ due' = With(due, i, SendsOf(p))
      /\ checkpoints' = With(checkpoints, i,
             [id |-> i, thread |-> sc.thread, ns |-> sc.ns, parent |-> p,
              v |-> kind.v, metadata |-> kind.metadata,
              tasks |-> IF kind.v = 4 THEN DeserializePendingSends(SendsOf(p)) ELSE <<>>])
  BY DEF Put
<1> DEFINE row == [id |-> i, thread |-> sc.thread, ns |-> sc.ns, parent |-> p,
                   v |-> kind.v, metadata |-> kind.metadata,
                   tasks |-> IF kind.v = 4 THEN DeserializePendingSends(SendsOf(p)) ELSE <<>>]
<1>1. UNCHANGED <<sends, reader>>
  BY DEF Put
<1>2. Stored
  BY DEF IInv
<1>3. DOMAIN checkpoints \subseteq DOMAIN due /\ DOMAIN due \subseteq Ids /\ i \notin DOMAIN checkpoints
  BY <1>2 DEF Stored
<1>4. /\ DOMAIN due' = DOMAIN due \cup {i}
      /\ due'[i] = SendsOf(p)
      /\ \A j \in DOMAIN due : due'[j] = due[j]
  BY DEF With
<1>5. /\ DOMAIN checkpoints' = DOMAIN checkpoints \cup {i}
      /\ checkpoints'[i] = row
      /\ \A j \in DOMAIN checkpoints : checkpoints'[j] = checkpoints[j]
  BY <1>3 DEF With
<1>6. SendsOf(p) \subseteq sends /\ \A w \in SendsOf(p) : w.id = p
  BY DEF SendsOf
<1>7. p < i /\ p \in DOMAIN due' \cup {NoId}
  BY <1>3, <1>4, ReadsAssumption DEF NoId
<1>8. TasksOK(row) /\ (row.v = 4 => SendsOf(p) = ToSet(row.tasks))
  <2> DEFINE q == DeserializePendingSends(SendsOf(p))
  <2>1. CASE kind.v = 4
    <3>1. /\ IsSequence(q)
          /\ \A n \in 1..Len(q) : q[n].id = p
          /\ \A m, n \in 1..Len(q) : m < n => Earlier(q[m], q[n])
          /\ ToSet(q) = SendsOf(p)
      BY <1>2, <1>6, SendsOfOne
    <3>2. row.tasks = q /\ row.parent = p
      BY <2>1
    <3> HIDE DEF q, row
    <3> QED BY <3>1, <3>2 DEF TasksOK
  <2>2. CASE kind.v # 4
    <3>1. row.tasks = <<>> /\ row.v # 4
      BY <2>2
    <3> HIDE DEF row
    <3> QED BY <3>1 DEF TasksOK, IsSequence
  <2> QED BY <2>1, <2>2
<1>9. /\ DOMAIN row = {"id", "thread", "ns", "parent", "v", "metadata", "tasks"}
      /\ [thread |-> row.thread, ns |-> row.ns] \in Scopes
      /\ row.id = i /\ row.parent = p /\ row.thread = sc.thread /\ row.v \in 1..4
  BY ReadsAssumption
<1> HIDE DEF row
<1>10. ASSUME NEW r, IsRow(r)
       PROVE  /\ DOMAIN r = {"id", "thread", "ns", "parent", "v", "metadata", "tasks"}
              /\ [thread |-> r.thread, ns |-> r.ns] \in Scopes
              /\ r.id \in DOMAIN due'
              /\ r.parent \in DOMAIN due' \cup {NoId} /\ r.parent < r.id
              /\ r.v \in 1..4 /\ TasksOK(r)
  BY <1>4, <1>10 DEF IsRow
<1>11. Stored'
  <2>1. ASSUME NEW w \in sends' PROVE IsSend(w)'
    <3>1. IsSend(w) /\ w.id \in DOMAIN checkpoints
      BY <1>1, <1>2 DEF Stored, IsSend
    <3> QED BY <3>1, <1>5 DEF IsSend
  <2>2. ASSUME NEW j \in DOMAIN checkpoints PROVE StoredRow(j)'
    <3>1. checkpoints'[j] = checkpoints[j] /\ due'[j] = due[j] /\ StoredRow(j)
      BY <1>2, <1>3, <1>4, <1>5 DEF Stored
    <3>2. IsRow(checkpoints[j])'
      BY <3>1, <1>10 DEF IsRow, StoredRow
    <3> QED BY <3>1, <3>2, <1>1 DEF StoredRow
  <2>3. StoredRow(i)'
    <3>1. IsRow(checkpoints[i])'
      BY <1>4, <1>5, <1>7, <1>8, <1>9 DEF IsRow
    <3>2. \A w \in SendsOf(p) : w \in sends' /\ w.id = p /\ w.thread = sc.thread
      BY <1>1, <1>2, <1>6, ReadsAssumption DEF Stored, IsSend, NoId
    <3> QED BY <3>1, <3>2, <1>4, <1>5, <1>8, <1>9 DEF StoredRow
  <2> QED BY <1>1, <1>2, <1>3, <1>4, <1>5, <2>1, <2>2, <2>3 DEF Stored
<1>12. ASSUME reader # Idle PROVE Given'
  <2>1. Given
    BY <1>12 DEF IInv
  <2>2. ASSUME NEW r, GivenRow(r) PROVE GivenRow(r)'
    <3>1. IsRow(r) /\ r.id \in DOMAIN due
      BY <2>2 DEF GivenRow, IsRow
    <3>2. due'[r.id] = due[r.id]
      BY <3>1, <1>4
    <3>3. r.id \in DOMAIN checkpoints =>
            r.id \in DOMAIN checkpoints' /\ checkpoints'[r.id] = checkpoints[r.id]
      BY <1>5
    <3>4. IsRow(r)'
      BY <3>1, <1>10 DEF IsRow
    <3> QED BY <2>2, <3>2, <3>3, <3>4, <1>1 DEF GivenRow
  <2> QED BY <2>1, <2>2, <1>1 DEF Given
<1>13. ASSUME reader.call = "list" PROVE Listed'
  <2>1. SearchWhere(reader.cfg, reader.filter, NoId) \subseteq
          SearchWhere(reader.cfg, reader.filter, NoId)'
    BY <1>1, <1>5 DEF SearchWhere
  <2> QED BY <1>1, <1>13, <2>1 DEF IInv, Listed
<1> QED BY <1>1, <1>11, <1>12, <1>13 DEF IInv


LEMMA PutWritesHolds ==
    ASSUME IInv, NEW i \in DOMAIN checkpoints, PutWrites(i)
    PROVE  IInv'
<1> PICK tk \in Tasks, n \in 1..MaxSends :
      /\ sends' = sends \cup {Send(i, tk, m) : m \in 1..n}
      /\ Cardinality(sends') <= MaxSends
  BY DEF PutWrites
<1> DEFINE new == {Send(i, tk, m) : m \in 1..n}
<1>1. UNCHANGED <<checkpoints, reader, due>>
  BY DEF PutWrites
<1>2. Stored
  BY DEF IInv
<1>3. IsFiniteSet(new)
  <2> DEFINE f == [m \in 1..n |-> Send(i, tk, m)]
  <2>1. IsFiniteSet(1..n)
    <3>1. n \in Nat /\ 1 \in Int /\ n \in Int
      BY ReadsAssumption
    <3> QED BY <3>1, FS_Interval
  <2>2. f \in Surjection(1..n, new)
    BY DEF Surjection
  <2> QED BY <2>1, <2>2, FS_Surjection
<1>4. IsFiniteSet(sends')
  BY <1>2, <1>3, FS_Union DEF Stored
<1>5. ASSUME NEW w \in sends' PROVE IsSend(w)'
  <2>1. CASE w \in sends
    BY <2>1, <1>1, <1>2 DEF Stored, IsSend
  <2>2. CASE w \in new
    <3>1. PICK m \in 1..n : w = Send(i, tk, m)
      BY <2>2
    <3>2. /\ w = [thread |-> w.thread, id |-> w.id, path |-> w.path, task |-> w.task, idx |-> w.idx]
          /\ w.id = i /\ w.thread = checkpoints[i].thread
          /\ w.path = tk.path /\ w.task = tk.id /\ w.idx = m
      BY <3>1 DEF Send
    <3>3. m \in 1..MaxSends /\ tk.path \in Int /\ tk.id \in Int
      BY ReadsAssumption
    <3> QED BY <3>2, <3>3, <1>1 DEF IsSend
  <2> QED BY <2>1, <2>2
<1>6. Stored'
  BY <1>1, <1>2, <1>4, <1>5 DEF Stored, StoredRow, IsRow
<1>7. ASSUME reader # Idle PROVE Given'
  BY <1>1, <1>7 DEF IInv, Given, GivenRow, IsRow
<1>8. ASSUME reader.call = "list" PROVE Listed'
  BY <1>1, <1>8 DEF IInv, Listed, SearchWhere
<1> QED BY <1>1, <1>6, <1>7, <1>8 DEF IInv

LEMMA DeleteThreadHolds ==
    ASSUME IInv, NEW t, DeleteThread(t)
    PROVE  IInv'
<1>1. /\ reader' = Deleted(t)
      /\ sends' = {w \in sends : w.thread # t}
      /\ DOMAIN checkpoints' = {j \in DOMAIN checkpoints : checkpoints[j].thread # t}
      /\ \A j \in DOMAIN checkpoints' : checkpoints'[j] = checkpoints[j]
      /\ DOMAIN due' = DOMAIN due
      /\ \A j \in DOMAIN due : due'[j] = {w \in due[j] : w.thread # t}
  BY DEF DeleteThread
<1>2. Stored
  BY DEF IInv
<1>3. Stored'
  <2>1. IsFiniteSet(sends')
    BY <1>1, <1>2, FS_Subset DEF Stored
  <2>2. ASSUME NEW w \in sends' PROVE IsSend(w)'
    <3>1. IsSend(w) /\ w.thread # t
      BY <1>1, <1>2 DEF Stored
    <3>2. w.id \in DOMAIN checkpoints' /\ checkpoints'[w.id] = checkpoints[w.id]
      BY <3>1, <1>1 DEF IsSend
    <3> QED BY <3>1, <3>2 DEF IsSend
  <2>3. ASSUME NEW j \in DOMAIN checkpoints' PROVE StoredRow(j)'
    <3>1. StoredRow(j) /\ j \in DOMAIN due /\ checkpoints'[j] = checkpoints[j]
      BY <1>1, <1>2 DEF Stored
    <3>2. IsRow(checkpoints[j])'
      BY <3>1, <1>1 DEF StoredRow, IsRow
    <3>3. due'[j] = {w \in due[j] : w.thread # t}
      BY <3>1, <1>1
    <3> QED BY <3>1, <3>2, <3>3, <1>1 DEF StoredRow
  <2> QED BY <1>1, <1>2, <2>1, <2>2, <2>3 DEF Stored
<1>4. CASE reader = Idle
  <2>1. reader' = Idle /\ reader'.call = "none"
    BY <1>1, <1>4 DEF Deleted, Idle
  <2> QED BY <1>3, <2>1 DEF IInv
<1>5. CASE reader # Idle
  <2>1. Given /\ (reader.call = "list" => Listed)
    BY <1>5 DEF IInv
  <2>2. reader' = [reader EXCEPT
             !.stays = @ \ {j \in DOMAIN checkpoints : checkpoints[j].thread = t},
             !.deleted = @ \cup {t}]
    BY <1>1, <2>1 DEF Deleted, Given
  <2>3. /\ DOMAIN reader' = DOMAIN reader
        /\ reader'.call = reader.call /\ reader'.at = reader.at
        /\ reader'.limit = reader.limit /\ reader'.rows = reader.rows
        /\ reader'.cfg = reader.cfg /\ reader'.filter = reader.filter
        /\ reader'.listed = reader.listed
        /\ reader'.stays = reader.stays \ {j \in DOMAIN checkpoints : checkpoints[j].thread = t}
        /\ reader'.deleted = reader.deleted \cup {t}
    BY <2>1, <2>2 DEF Given
  <2>4. ASSUME NEW r, GivenRow(r) PROVE GivenRow(r)'
    <3>1. IsRow(r) /\ r.id \in DOMAIN due /\ IsRow(r)'
      BY <2>4, <1>1 DEF GivenRow, IsRow
    <3>2. due'[r.id] \subseteq due[r.id]
      BY <3>1, <1>1
    <3>3. ASSUME r.thread \notin reader'.deleted
          PROVE  /\ r.id \in DOMAIN checkpoints /\ checkpoints[r.id].thread # t
                 /\ checkpoints'[r.id] = checkpoints[r.id] /\ r.id \in DOMAIN checkpoints'
      BY <2>3, <2>4, <3>3, <1>1 DEF GivenRow
    <3> QED BY <2>3, <2>4, <3>1, <3>2, <3>3 DEF GivenRow
  <2>5. Given'
    BY <2>1, <2>3, <2>4 DEF Given
  <2>6. ASSUME reader.call = "list" PROVE Listed'
    <3>1. ASSUME NEW i \in reader'.stays PROVE i \in SearchWhere(reader.cfg, reader.filter, NoId)'
      <4>1. i \in SearchWhere(reader.cfg, reader.filter, NoId)
        BY <2>1, <2>3, <2>6 DEF Listed
      <4>2. i \in DOMAIN checkpoints' /\ checkpoints'[i] = checkpoints[i]
        BY <4>1, <1>1, <2>3 DEF SearchWhere
      <4> QED BY <4>1, <4>2, <2>3 DEF SearchWhere
    <3> QED BY <2>1, <2>3, <2>6, <3>1 DEF Listed, Descends, Continues
  <2> QED BY <1>3, <2>3, <2>5, <2>6 DEF IInv
<1> QED BY <1>4, <1>5

-----------------------------------------------------------------------------
\* The reader keeps it.

\* The rows of a page are stored, and those that are not migrated have what
\* they must hand over.
LEMMA SelectGives ==
    ASSUME Stored, NEW call \in {"list", "get_tuple"}, NEW cfg, NEW filter, NEW before,
           NEW limit \in Nat \ {0}, NEW listed, NEW stays,
           call = "get_tuple" => limit = 1,
           Select(call, cfg, filter, before, limit, listed, stays),
           UNCHANGED <<checkpoints, sends, due>>
    PROVE  /\ Stored' /\ Given'
           /\ reader'.call = call /\ reader'.cfg = cfg /\ reader'.filter = filter
           /\ reader'.limit = limit /\ reader'.stays = stays
           /\ reader'.listed = listed \o SelectRows(cfg, filter, before, limit)
           /\ Len(reader'.rows) = Len(SelectRows(cfg, filter, before, limit))
<1> DEFINE ids == SelectRows(cfg, filter, before, limit)
           rows == [n \in DOMAIN ids |-> checkpoints[ids[n]]]
           at == IF \E n \in DOMAIN rows : ToMigrate(rows[n]) THEN "sends" ELSE "given"
<1>1. /\ IsSequence(ids) /\ Len(ids) <= limit
      /\ \A n \in 1..Len(ids) : ids[n] \in SearchWhere(cfg, filter, before)
  BY PageOfList DEF Stored
<1>2. reader' = [call |-> call, cfg |-> cfg, filter |-> filter, limit |-> limit,
                 at |-> at, rows |-> rows, listed |-> listed \o ids,
                 stays |-> stays, deleted |-> {}]
  BY DEF Select
<1> HIDE DEF ids
<1>3. /\ DOMAIN rows = 1..Len(ids) /\ Len(rows) = Len(ids) /\ Len(ids) \in Nat
      /\ \A n \in 1..Len(ids) : rows[n] = checkpoints[ids[n]]
  BY <1>1 DEF IsSequence
<1>4. IsSequence(rows)
  BY <1>1, <1>3 DEF IsSequence
<1>5. at \in {"sends", "given"} /\ (at = "sends" => rows # <<>>)
      /\ (at = "given" => \A n \in 1..Len(ids) : ~ToMigrate(rows[n]))
  BY <1>3
<1> HIDE DEF rows, at
<1>6. /\ DOMAIN reader' = {"call", "cfg", "filter", "limit", "at", "rows", "listed", "stays", "deleted"}
      /\ reader'.call = call /\ reader'.cfg = cfg /\ reader'.filter = filter
      /\ reader'.limit = limit /\ reader'.stays = stays /\ reader'.at = at
      /\ reader'.rows = rows /\ reader'.listed = listed \o ids /\ reader'.deleted = {}
  BY <1>2
<1>7. ASSUME NEW r, \E n \in 1..Len(ids) : r = rows[n] PROVE GivenRow(r)'
  <2> PICK n \in 1..Len(ids) : r = rows[n]
    BY <1>7
  <2> PICK i : i = ids[n]
    OBVIOUS
  <2>1. i \in DOMAIN checkpoints /\ r = checkpoints[i] /\ cfg.thread \in {None, r.thread}
    BY <1>1, <1>3 DEF SearchWhere
  <2>2. StoredRow(i)
    BY <2>1 DEF Stored
  <2>3. at = "given" => due[i] \subseteq ToSet(r.tasks)
    BY <1>3, <1>5, <2>1, NothingDue
  <2>4. IsRow(r)'
    BY <2>1, <2>2 DEF StoredRow, IsRow
  <2> QED BY <1>6, <2>1, <2>2, <2>3, <2>4 DEF StoredRow, GivenRow
<1>8. Given'
  <2>1. \A n \in 1..Len(reader'.rows) : GivenRow(reader.rows[n])'
    BY <1>3, <1>6, <1>7
  <2> QED BY <1>1, <1>3, <1>4, <1>5, <1>6, <2>1 DEF Given
<1>9. Stored'
  BY DEF Stored, StoredRow, IsSend, IsRow
<1> QED BY <1>3, <1>6, <1>8, <1>9 DEF ids


\* The list with one more page: it goes on where it stopped.
\* Where the next page begins.
GoesOn(cfg, filter, before, listed, stays) ==
    /\ before = NoId => listed = <<>>
    /\ before # NoId => before \in Ids /\ \A n \in 1..Len(listed) : listed[n] >= before
    /\ stays \subseteq SearchWhere(cfg, filter, NoId)
    /\ \A i \in stays : before = NoId \/ i \in ToSet(listed) \/ i < before

LEMMA PageAdded ==
    ASSUME Stored, NEW cfg, NEW filter, NEW before, NEW limit \in Nat \ {0}, NEW listed, NEW stays,
           Descends(listed), GoesOn(cfg, filter, before, listed, stays)
    PROVE  LET ids == SelectRows(cfg, filter, before, limit) IN
           /\ Descends(listed \o ids)
           /\ Continues(listed \o ids, stays, Len(ids), limit)
<1> DEFINE ids == SelectRows(cfg, filter, before, limit)
           more == listed \o ids
<1>1. /\ IsSequence(ids) /\ Len(ids) <= limit
      /\ \A n \in 1..Len(ids) : ids[n] \in SearchWhere(cfg, filter, before)
      /\ \A m, n \in 1..Len(ids) : m < n => ids[m] > ids[n]
      /\ \A i \in SearchWhere(cfg, filter, before) :
           \/ \E n \in 1..Len(ids) : ids[n] = i
           \/ Len(ids) = limit /\ i < ids[Len(ids)]
  BY PageOfList DEF Stored
<1> HIDE DEF ids
<1>2. /\ Len(listed) \in Nat /\ DOMAIN listed = 1..Len(listed)
      /\ Len(ids) \in Nat /\ DOMAIN ids = 1..Len(ids)
      /\ \A n \in 1..Len(listed) : listed[n] \in Ids
      /\ \A m, n \in 1..Len(listed) : m < n => listed[m] > listed[n]
  BY <1>1 DEF IsSequence, Descends
<1>3. \A n \in 1..Len(ids) : ids[n] \in Ids /\ (before # NoId => ids[n] < before)
  BY <1>1 DEF SearchWhere, Stored
<1>4. /\ Len(more) = Len(listed) + Len(ids) /\ Len(more) \in Nat
      /\ more = [n \in 1..Len(more) |-> IF n <= Len(listed) THEN listed[n] ELSE ids[n - Len(listed)]]
  <2>1. listed \in Seq(Ids) /\ ids \in Seq(Ids)
    BY <1>1, <1>2, <1>3 DEF IsSequence, Descends
  <2>2. /\ more \in Seq(Ids) /\ Len(more) = Len(listed) + Len(ids)
        /\ \A n \in 1..(Len(listed) + Len(ids)) :
             more[n] = IF n <= Len(listed) THEN listed[n] ELSE ids[n - Len(listed)]
    BY <2>1, ConcatProperties
  <2> HIDE DEF more
  <2> QED BY <2>2, <1>2
<1> HIDE DEF more
<1>5. \A n \in 1..Len(ids) : n + Len(listed) \in 1..Len(more) /\ more[n + Len(listed)] = ids[n]
  BY <1>2, <1>4
<1>6. \A n \in 1..Len(listed) : n \in 1..Len(more) /\ more[n] = listed[n]
  BY <1>2, <1>4
<1>7. ASSUME NEW n \in 1..Len(more)
      PROVE  \/ n \in 1..Len(listed) /\ more[n] = listed[n]
             \/ n > Len(listed) /\ n - Len(listed) \in 1..Len(ids)
                /\ more[n] = ids[n - Len(listed)]
  BY <1>2, <1>4
<1>8. IsSequence(more) /\ \A n \in 1..Len(more) : more[n] \in Ids
  BY <1>2, <1>3, <1>4, <1>7 DEF IsSequence
<1>9. ASSUME NEW m \in 1..Len(more), NEW n \in 1..Len(more), m < n
      PROVE  more[m] > more[n]
  <2>1. CASE m \in 1..Len(listed) /\ n \in 1..Len(listed)
    BY <2>1, <1>2, <1>6, <1>9
  <2>2. CASE m \in 1..Len(listed) /\ n > Len(listed)
    <3>1. more[m] = listed[m] /\ before # NoId /\ listed[m] >= before /\ listed[m] \in Nat /\ before \in Nat
      BY <2>2, <1>2, <1>6, ReadsAssumption DEF GoesOn
    <3>2. more[n] < before /\ more[n] \in Nat
      BY <2>2, <1>3, <1>7, <3>1, ReadsAssumption
    <3> QED BY <3>1, <3>2
  <2>3. CASE m > Len(listed)
    <3>1. /\ n > Len(listed)
          /\ m - Len(listed) \in 1..Len(ids) /\ more[m] = ids[m - Len(listed)]
          /\ n - Len(listed) \in 1..Len(ids) /\ more[n] = ids[n - Len(listed)]
      BY <2>3, <1>2, <1>7, <1>9
    <3>2. m - Len(listed) < n - Len(listed)
      BY <1>2, <1>9
    <3> QED BY <3>1, <3>2, <1>1
  <2> QED BY <2>1, <2>2, <2>3, <1>2, <1>4, <1>9
<1>10. ASSUME NEW i \in stays, i \notin ToSet(more)
       PROVE  Len(ids) = limit /\ i < more[Len(more)]
  <2>1. DOMAIN more = 1..Len(more)
    BY <1>4
  <2>2. \A n \in 1..Len(more) : more[n] # i
    BY <2>1, <1>10 DEF ToSet
  <2>3. i \notin ToSet(listed)
    BY <2>2, <1>2, <1>6 DEF ToSet
  <2>4. i \in SearchWhere(cfg, filter, before)
    BY <2>3 DEF SearchWhere, GoesOn
  <2>5. \A n \in 1..Len(ids) : ids[n] # i
    BY <2>2, <1>5
  <2>6. Len(ids) = limit /\ i < ids[Len(ids)]
    BY <2>4, <2>5, <1>1
  <2>7. more[Len(more)] = ids[Len(ids)]
    <3>1. Len(ids) \in 1..Len(ids)
      BY <2>6, <1>2
    <3>2. more[Len(ids) + Len(listed)] = ids[Len(ids)]
      BY <3>1, <1>5
    <3> QED BY <3>2, <1>2, <1>4
  <2> QED BY <2>6, <2>7
<1>11. Len(ids) <= Len(more)
  BY <1>2, <1>4
<1>12. Descends(more) /\ Continues(more, stays, Len(ids), limit)
  BY <1>8, <1>9, <1>10, <1>11 DEF Descends, Continues
<1> QED BY <1>12 DEF ids, more

LEMMA ListHolds ==
    ASSUME IInv, List
    PROVE  IInv'
<1> PICK cfg \in Configs, filter \in Filters \cup {None}, limit \in Limits :
      Select("list", cfg, filter, NoId, limit, <<>>, SearchWhere(cfg, filter, NoId))
  BY DEF List
<1> DEFINE ids == SelectRows(cfg, filter, NoId, limit)
           more == <<>> \o ids
           stays == SearchWhere(cfg, filter, NoId)
<1>1. UNCHANGED <<checkpoints, sends, due>> /\ Stored /\ limit \in Nat \ {0}
  BY ReadsAssumption DEF List, IInv
<1>2. /\ Stored' /\ Given'
      /\ reader'.call = "list" /\ reader'.cfg = cfg /\ reader'.filter = filter
      /\ reader'.limit = limit /\ reader'.stays = stays
      /\ reader'.listed = more
      /\ Len(reader'.rows) = Len(ids)
  BY <1>1, SelectGives
<1>3. Descends(<<>>) /\ GoesOn(cfg, filter, NoId, <<>>, stays)
  BY DEF IsSequence, Descends, GoesOn
<1>4. Descends(more) /\ Continues(more, stays, Len(ids), limit)
  BY <1>1, <1>3, PageAdded
<1> HIDE DEF ids, more
<1>5. \A i \in stays : i \in SearchWhere(cfg, filter, NoId)'
  BY <1>1 DEF SearchWhere
<1> HIDE DEF stays
<1>6. Listed'
  BY <1>2, <1>4, <1>5 DEF Listed, Descends, Continues
<1> QED BY <1>2, <1>6 DEF IInv

LEMMA ListBeforeHolds ==
    ASSUME IInv, ListBefore
    PROVE  IInv'
<1> DEFINE cfg == reader.cfg
           filter == reader.filter
           limit == reader.limit
           listed == reader.listed
           before == Last(listed)
           stays == reader.stays
           ids == SelectRows(cfg, filter, before, limit)
           more == listed \o ids
<1>1. /\ UNCHANGED <<checkpoints, sends, due>> /\ Stored
      /\ reader.call = "list" /\ Len(reader.rows) = limit
      /\ Select("list", cfg, filter, before, limit, listed, stays)
  BY DEF ListBefore, IInv
<1>2. Given /\ Listed /\ limit \in Nat \ {0}
  BY <1>1 DEF IInv, Idle, Given
<1>3. /\ Len(listed) \in Nat \ {0} /\ before = listed[Len(listed)] /\ before \in Ids
  <2>1. Len(listed) \in Nat /\ limit <= Len(listed)
    BY <1>1, <1>2 DEF Listed, Descends, Continues, IsSequence
  <2>2. Len(listed) \in Nat \ {0} /\ Len(listed) \in 1..Len(listed)
    BY <2>1, <1>2
  <2> QED BY <2>2, <1>2 DEF Listed, Descends, Last
<1>4. /\ Stored' /\ Given'
      /\ reader'.call = "list" /\ reader'.cfg = cfg /\ reader'.filter = filter
      /\ reader'.limit = limit /\ reader'.stays = stays
      /\ reader'.listed = more
      /\ Len(reader'.rows) = Len(ids)
  BY <1>1, <1>2, SelectGives
<1>5. /\ Descends(listed) /\ stays \subseteq SearchWhere(cfg, filter, NoId)
      /\ \A i \in stays : i \in ToSet(listed) \/ i < before
  BY <1>2, <1>3 DEF Listed, Continues
<1>6. GoesOn(cfg, filter, before, listed, stays)
  <2>1. \A n \in 1..Len(listed) : listed[n] \in Nat
    BY <1>5, ReadsAssumption DEF Descends
  <2>2. \A n \in 1..Len(listed) : listed[n] >= before
    BY <2>1, <1>3, <1>5 DEF Descends
  <2>3. before # NoId
    BY <1>3, ReadsAssumption
  <2> HIDE DEF before, cfg, filter, listed, stays
  <2> QED BY <2>2, <2>3, <1>3, <1>5 DEF GoesOn
<1> HIDE DEF before
<1>7. Descends(more) /\ Continues(more, stays, Len(ids), limit)
  BY <1>1, <1>2, <1>5, <1>6, PageAdded
<1> HIDE DEF ids, more
<1>8. \A i \in stays : i \in SearchWhere(reader.cfg, reader.filter, NoId)'
  BY <1>1, <1>4, <1>5 DEF SearchWhere
<1> HIDE DEF cfg, filter, limit, listed, stays
<1>9. Listed'
  BY <1>4, <1>7, <1>8 DEF Listed, Descends, Continues
<1> QED BY <1>4, <1>9 DEF IInv

LEMMA GetTupleHolds ==
    ASSUME IInv, GetTuple
    PROVE  IInv'
<1> PICK cfg : Select("get_tuple", cfg, None, NoId, 1, <<>>, {})
  BY DEF GetTuple
<1>1. UNCHANGED <<checkpoints, sends, due>> /\ Stored
  BY DEF GetTuple, IInv
<1>2. "get_tuple" \in {"list", "get_tuple"} /\ 1 \in Nat \ {0}
  OBVIOUS
<1>3. Stored' /\ Given' /\ reader'.call = "get_tuple"
  BY <1>1, <1>2, SelectGives
<1> QED BY <1>3 DEF IInv


\* What the second SELECT makes of a row.
Migrated(row, new) ==
    \/ ~ToMigrate(row) /\ new = row
    \/ \E W \in SUBSET sends :
         /\ ToMigrate(row)
         /\ new = MigratePendingSends(row, W)
         /\ \A w \in W : w.id = row.parent
         /\ reader.cfg.thread # None =>
              \A w \in sends : w.id = row.parent /\ w.thread = row.thread => w \in W

LEMMA AnswerHolds ==
    ASSUME Stored, NEW row, GivenRow(row), NEW new, Migrated(row, new),
           UNCHANGED <<checkpoints, sends, due>>,
           reader'.cfg = reader.cfg, reader'.deleted = reader.deleted, reader'.at = "given"
    PROVE  GivenRow(new)'
<1>1. IsRow(row) /\ row.v \in 1..4 /\ row.parent < row.id
  BY DEF GivenRow, IsRow
<1>2. ASSUME row.thread \notin reader.deleted
      PROVE  /\ row.id \in DOMAIN checkpoints
             /\ checkpoints[row.id].thread = row.thread /\ checkpoints[row.id].parent = row.parent
             /\ \A w \in due[row.id] :
                  w \in sends /\ w.id = row.parent /\ w.thread = row.thread /\ w.id # NoId
  <2>1. /\ row.id \in DOMAIN checkpoints /\ StoredRow(row.id)
        /\ checkpoints[row.id].thread = row.thread /\ checkpoints[row.id].parent = row.parent
    BY <1>2 DEF GivenRow, Stored
  <2>2. \A w \in sends : w.id # NoId
    BY ReadsAssumption DEF Stored, IsSend
  <2> QED BY <2>1, <2>2 DEF StoredRow
<1>3. CASE ~ToMigrate(row) /\ new = row
  <2>1. row.thread \notin reader.deleted => due[row.id] \subseteq ToSet(row.tasks)
    <3>1. CASE row.v = 4
      BY <3>1 DEF GivenRow
    <3>2. CASE row.parent = NoId
      BY <3>2, <1>2
    <3> QED BY <1>1, <1>3, <3>1, <3>2 DEF ToMigrate
  <2>2. IsRow(row)'
    BY <1>1 DEF IsRow
  <2> QED BY <1>3, <2>1, <2>2 DEF GivenRow
<1>4. ASSUME NEW W \in SUBSET sends,
             ToMigrate(row), new = MigratePendingSends(row, W), \A w \in W : w.id = row.parent,
             reader.cfg.thread # None =>
               \A w \in sends : w.id = row.parent /\ w.thread = row.thread => w \in W
      PROVE  GivenRow(new)'
  <2>1. /\ IsRow(new)
        /\ new.id = row.id /\ new.thread = row.thread /\ new.parent = row.parent /\ new.v = row.v
        /\ W \subseteq ToSet(new.tasks)
    BY <1>1, <1>4, RowMigrated
  <2>2. IsRow(new)'
    BY <2>1 DEF IsRow
  <2>3. new.v # 4
    BY <1>4, <2>1 DEF ToMigrate
  <2> QED BY <1>2, <1>4, <2>1, <2>2, <2>3 DEF GivenRow
<1> QED BY <1>3, <1>4 DEF Migrated


\* list finds the sends of the parent of a row, if it is for one thread.
LEMMA MigrateRowsIsMigrated ==
    ASSUME IInv, reader.call = "list", reader.at = "sends", NEW n \in 1..Len(reader.rows)
    PROVE  LET row == reader.rows[n]
               new == MigrateRows(reader.rows)[n]
           IN /\ Migrated(row, new)
              /\ reader.cfg.thread # None => new = MigrateRow(row.thread, row)
<1> DEFINE rows == reader.rows
           row == rows[n]
           migrate == {m \in DOMAIN rows : ToMigrate(rows[m])}
           found == SelectPendingSends(rows[1].thread, {rows[m].parent : m \in migrate})
           W == {w \in found : w.id = row.parent}
           new == MigrateRows(rows)[n]
<1>1. Given /\ DOMAIN rows = 1..Len(rows) /\ 1 \in 1..Len(rows)
      /\ \A m \in 1..Len(rows) : GivenRow(rows[m])
  BY DEF IInv, Idle, Given, IsSequence
<1>2. new = IF n \in migrate THEN MigratePendingSends(row, W) ELSE row
  BY <1>1 DEF MigrateRows
<1>3. reader.cfg.thread # None => rows[1].thread = row.thread
  BY <1>1 DEF GivenRow
<1> HIDE DEF new
<1>4. CASE ~ToMigrate(row)
  <2>1. new = row
    BY <1>2, <1>4
  <2> QED BY <1>4, <2>1 DEF Migrated, MigrateRow, new
<1>5. CASE ToMigrate(row)
  <2>1. n \in migrate /\ row.parent \in {rows[m].parent : m \in migrate}
    BY <1>1, <1>5
  <2>2. new = MigratePendingSends(row, W)
    BY <1>2, <2>1
  <2>3. W = {w \in sends : w.thread = rows[1].thread /\ w.id = row.parent}
    BY <2>1 DEF SelectPendingSends
  <2> HIDE DEF W
  <2>4. Migrated(row, new)
    <3>1. W \in SUBSET sends /\ \A w \in W : w.id = row.parent
      BY <2>3
    <3>2. reader.cfg.thread # None =>
            \A w \in sends : w.id = row.parent /\ w.thread = row.thread => w \in W
      BY <1>3, <2>3
    <3> HIDE DEF row
    <3> QED BY <1>5, <2>2, <3>1, <3>2 DEF Migrated
  <2>5. ASSUME reader.cfg.thread # None PROVE new = MigrateRow(row.thread, row)
    <3>1. W = SelectPendingSends(row.thread, {row.parent})
      BY <1>3, <2>3, <2>5 DEF SelectPendingSends
    <3> QED BY <1>5, <2>2, <3>1 DEF MigrateRow
  <2> QED BY <2>4, <2>5 DEF new
<1> QED BY <1>4, <1>5

LEMMA SelectSendsHolds ==
    ASSUME IInv, SelectSends
    PROVE  IInv'
<1> DEFINE rows == reader.rows
           answer == IF reader.call = "list" THEN MigrateRows(rows)
                     ELSE <<MigrateRow(reader.cfg.thread, rows[1])>>
<1>1. /\ Stored /\ Given /\ reader.at = "sends"
      /\ UNCHANGED <<checkpoints, sends, due>>
      /\ reader' = [reader EXCEPT !.at = "given", !.rows = answer]
  BY DEF SelectSends, IInv, Idle
<1>2. /\ DOMAIN rows = 1..Len(rows) /\ Len(rows) \in Nat /\ 1 \in 1..Len(rows)
      /\ \A n \in 1..Len(rows) : GivenRow(rows[n])
  BY <1>1 DEF Given, IsSequence
<1>3. /\ IsSequence(answer) /\ Len(answer) = Len(rows)
      /\ \A n \in 1..Len(rows) : Migrated(rows[n], answer[n])
  <2>1. CASE reader.call = "list"
    <3>1. answer = MigrateRows(rows)
      BY <2>1
    <3>2. \A n \in 1..Len(rows) : Migrated(rows[n], answer[n])
      BY <1>1, <2>1, <3>1, MigrateRowsIsMigrated
    <3>3. /\ DOMAIN MigrateRows(rows) = DOMAIN rows
          /\ MigrateRows(rows) = [n \in DOMAIN rows |-> MigrateRows(rows)[n]]
      BY DEF MigrateRows
    <3> HIDE DEF answer, rows
    <3>4. DOMAIN answer = 1..Len(rows) /\ answer = [n \in 1..Len(rows) |-> answer[n]]
      BY <1>2, <3>1, <3>3
    <3>5. Len(answer) = Len(rows)
      BY <1>2, <3>4
    <3> QED BY <1>2, <3>2, <3>4, <3>5 DEF IsSequence
  <2>2. CASE reader.call # "list"
    <3>1. 1 = Len(rows)
      <4> DEFINE k == Len(rows)
      <4>1. k <= 1
        BY <1>1, <2>2 DEF Given
      <4>2. k \in Nat /\ k >= 1
        BY <1>2
      <4> HIDE DEF k
      <4>3. k = 1
        BY <4>1, <4>2
      <4> QED BY <4>3 DEF k
    <3>2. answer = <<MigrateRow(reader.cfg.thread, rows[1])>>
      BY <2>2
    <3> HIDE DEF answer
    <3>3. IsSequence(answer) /\ Len(answer) = 1 /\ answer[1] = MigrateRow(reader.cfg.thread, rows[1])
      BY <3>2 DEF IsSequence
    <3>4. Migrated(rows[1], answer[1])
      <4> DEFINE W == SelectPendingSends(reader.cfg.thread, {rows[1].parent})
      <4>1. /\ W \in SUBSET sends /\ \A w \in W : w.id = rows[1].parent
            /\ reader.cfg.thread # None =>
                 \A w \in sends : w.id = rows[1].parent /\ w.thread = rows[1].thread => w \in W
        BY <1>2 DEF SelectPendingSends, GivenRow
      <4> HIDE DEF W
      <4>2. answer[1] = IF ToMigrate(rows[1]) THEN MigratePendingSends(rows[1], W) ELSE rows[1]
        BY <3>3 DEF MigrateRow, W
      <4> QED BY <4>1, <4>2 DEF Migrated
    <3> QED BY <3>1, <3>3, <3>4
  <2> QED BY <2>1, <2>2
<1> HIDE DEF answer
<1>4. /\ DOMAIN reader' = DOMAIN reader
      /\ reader'.at = "given" /\ reader'.rows = answer
      /\ reader'.call = reader.call /\ reader'.cfg = reader.cfg /\ reader'.filter = reader.filter
      /\ reader'.limit = reader.limit /\ reader'.listed = reader.listed
      /\ reader'.stays = reader.stays /\ reader'.deleted = reader.deleted
  BY <1>1 DEF Given
<1>5. ASSUME NEW new, \E n \in 1..Len(rows) : new = answer[n]
      PROVE  GivenRow(new)'
  <2> PICK n \in 1..Len(rows) : new = answer[n]
    BY <1>5
  <2> PICK row : row = rows[n]
    OBVIOUS
  <2>1. GivenRow(row) /\ Migrated(row, new)
    BY <1>2, <1>3
  <2> QED BY <1>1, <1>4, <2>1, AnswerHolds
<1>6. Given'
  <2>1. \A n \in 1..Len(reader'.rows) : GivenRow(reader.rows[n])'
    BY <1>3, <1>4, <1>5
  <2>2. reader'.rows # <<>>
    BY <1>2, <1>3, <1>4
  <2> QED BY <1>1, <1>2, <1>3, <1>4, <2>1, <2>2 DEF Given
<1>7. ASSUME reader.call = "list" PROVE Listed'
  <2>1. Listed
    BY <1>7 DEF IInv
  <2>2. \A i \in reader.stays : i \in SearchWhere(reader.cfg, reader.filter, NoId)'
    BY <1>1, <1>4, <2>1 DEF Listed, SearchWhere
  <2> QED BY <1>3, <1>4, <2>1, <2>2 DEF Listed, Descends, Continues
<1>8. Stored'
  BY <1>1 DEF Stored, StoredRow, IsSend, IsRow
<1> QED BY <1>4, <1>6, <1>7, <1>8 DEF IInv

LEMMA StopHolds ==
    ASSUME IInv, Stop
    PROVE  IInv'
<1>1. UNCHANGED <<checkpoints, sends, due>> /\ reader' = Idle /\ reader'.call = "none" /\ Stored
  BY DEF Stop, Idle, IInv
<1>2. Stored'
  BY <1>1 DEF Stored, StoredRow, IsSend, IsRow
<1> QED BY <1>1, <1>2 DEF IInv

LEMMA NextHolds == IInv /\ [Next]_vars => IInv'
<1> SUFFICES ASSUME IInv, [Next]_vars PROVE IInv'
  OBVIOUS
<1>1. CASE UNCHANGED vars
  BY <1>1 DEF vars, IInv, Stored, StoredRow, IsSend, IsRow, Given, GivenRow,
              Listed, Descends, Continues, SearchWhere
<1>2. ASSUME NEW sc \in Scopes, Put(sc) PROVE IInv'
  BY <1>2, PutHolds
<1>3. ASSUME NEW i \in DOMAIN checkpoints, PutWrites(i) PROVE IInv'
  BY <1>3, PutWritesHolds
<1>4. ASSUME NEW t \in Threads, DeleteThread(t) PROVE IInv'
  BY <1>4, DeleteThreadHolds
<1>5. CASE List
  BY <1>5, ListHolds
<1>6. CASE ListBefore
  BY <1>6, ListBeforeHolds
<1>7. CASE GetTuple
  BY <1>7, GetTupleHolds
<1>8. CASE SelectSends
  BY <1>8, SelectSendsHolds
<1>9. CASE Stop
  BY <1>9, StopHolds
<1> QED BY <1>1, <1>2, <1>3, <1>4, <1>5, <1>6, <1>7, <1>8, <1>9 DEF Next

\* IInv is an invariant of the reads and of what happens between them.
LEMMA Invariance == Spec => []IInv
  BY InitHolds, NextHolds, PTL DEF Spec

-----------------------------------------------------------------------------
\* The theorems.

\* The type invariant: stored rows are as put made them, and the rows given to
\* a reader have sends of their parents.
THEOREM TypeCorrect == Spec => []TypeOK
<1>1. ASSUME IInv PROVE TypeOK
  <2>1. ASSUME NEW i \in DOMAIN checkpoints
        PROVE  /\ checkpoints[i].id = i
               /\ [thread |-> checkpoints[i].thread, ns |-> checkpoints[i].ns] \in Scopes
               /\ checkpoints[i].parent \in (DOMAIN due \cup {NoId}) \ {i}
    <3>1. StoredRow(i) /\ DOMAIN due \subseteq Nat
      BY <1>1, ReadsAssumption DEF IInv, Stored
    <3> QED BY <3>1 DEF StoredRow, IsRow, NoId
  <2>2. ASSUME reader # Idle
        PROVE  /\ Len(reader.rows) <= reader.limit
               /\ \A row \in RowsOf(reader) : \A w \in ToSet(row.tasks) : w.id = row.parent
    <3>1. Given
      BY <1>1, <2>2 DEF IInv
    <3>2. ASSUME NEW row, GivenRow(row), NEW w \in ToSet(row.tasks) PROVE w.id = row.parent
      BY <3>2 DEF GivenRow, IsRow, TasksOK, IsSequence, ToSet
    <3> QED BY <3>1, <3>2 DEF Given, IsSequence, RowsOf
  <2> QED BY <1>1, <2>1, <2>2 DEF TypeOK, IInv, Stored, IsSend
<1> QED BY <1>1, Invariance, PTL

\* However checkpoints are put and threads deleted between the pages of a list,
\* the list is complete and gives nothing twice.
THEOREM PagesAreComplete == Spec => []PagesComplete
<1>1. ASSUME IInv, reader.call = "list"
      PROVE  /\ \A m, n \in DOMAIN reader.listed : m < n => reader.listed[m] > reader.listed[n]
             /\ Len(reader.rows) < reader.limit => reader.stays \subseteq ToSet(reader.listed)
  <2>1. Listed /\ Given
    BY <1>1 DEF IInv, Idle
  <2>2. \A m, n \in DOMAIN reader.listed : m < n => reader.listed[m] > reader.listed[n]
    BY <2>1 DEF Listed, Descends, IsSequence
  <2>3. Len(reader.rows) \in Nat /\ reader.limit \in Nat
    BY <2>1 DEF Given, IsSequence
  <2> QED BY <2>1, <2>2, <2>3 DEF Listed, Continues
<1>2. IInv => PagesComplete
  BY <1>1 DEF PagesComplete
<1> QED BY <1>2, Invariance, PTL

\* Whoever lists or gets a checkpoint of a thread, in whatever format it was
\* put, is given the sends of its parent, each once, in order, all that were
\* sent before it was put.
THEOREM TasksAreHandedOver == Spec => []TasksHandedOver
<1>1. ASSUME IInv, reader.call # "none", reader.at = "given", reader.cfg.thread # None,
             NEW row \in RowsOf(reader), row.thread \notin reader.deleted
      PROVE  /\ \A m, n \in DOMAIN row.tasks : m < n => Earlier(row.tasks[m], row.tasks[n])
             /\ due[row.id] \subseteq ToSet(row.tasks)
  <2>1. Given
    BY <1>1 DEF IInv, Idle
  <2>2. GivenRow(row)
    BY <1>1, <2>1 DEF Given, IsSequence, RowsOf
  <2>3. \A m, n \in DOMAIN row.tasks : m < n => Earlier(row.tasks[m], row.tasks[n])
    BY <2>2 DEF GivenRow, IsRow, TasksOK, IsSequence
  <2> QED BY <1>1, <2>2, <2>3 DEF GivenRow
<1>2. IInv => TasksHandedOver
  BY <1>1 DEF TasksHandedOver
<1> QED BY <1>2, Invariance, PTL

\* What list answers for the checkpoints of a thread is what get_tuple would
\* answer for each of them.
THEOREM ListAndGetTupleAgree == Spec => ListAgreesWithGetTuple
<1>1. ASSUME IInv, SelectSends, reader.call = "list", reader.cfg.thread # None
      PROVE  GivesWhatGetTupleGives
  <2>1. /\ reader.at = "sends" /\ Given
        /\ reader' = [reader EXCEPT !.at = "given", !.rows = MigrateRows(@)]
    BY <1>1 DEF SelectSends, IInv, Idle
  <2>2. reader'.rows = MigrateRows(reader.rows) /\ DOMAIN reader.rows = 1..Len(reader.rows)
    BY <2>1 DEF Given, IsSequence
  <2>3. \A n \in 1..Len(reader.rows) :
          MigrateRows(reader.rows)[n] = MigrateRow(reader.rows[n].thread, reader.rows[n])
    BY <1>1, <2>1, MigrateRowsIsMigrated
  <2> QED BY <2>2, <2>3 DEF GivesWhatGetTupleGives
<1>2. IInv /\ [Next]_vars =>
        [SelectSends /\ reader.call = "list" /\ reader.cfg.thread # None
         => GivesWhatGetTupleGives]_vars
  BY <1>1
<1> QED BY <1>2, Invariance, PTL DEF Spec, ListAgreesWithGetTuple

=============================================================================
