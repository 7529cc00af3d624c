------------------------------ MODULE StoreMap ------------------------------
(***************************************************************************)
(* What a store promises: a map from namespaces and keys to values.  A     *)
(* batch reads one state of the map, whatever the order of its operations, *)
(* and its puts become visible together, after its reads, the last put of  *)
(* a key winning; a batch that raises has put everything or nothing.       *)
(***************************************************************************)
EXTENDS Integers, Sequences, FiniteSets

CONSTANTS
    Stores,     \* store objects
    Batches,    \* the lists of operations their clients hand to batch
    NoValue     \* None: no item, or a put that deletes

VARIABLES
    items,      \* the map
    stage,      \* stage[s]: whether the batch of s is running or has returned
    ops,        \* ops[s]: that batch; one that raised is forgotten
    seen,       \* seen[s]: <<>>, or the state of the map the batch reads
    results     \* results[s]: the answers of a batch that has returned

vars == <<items, stage, ops, seen, results>>

Star == <<42>>
Unlimited == -1

Under(ns, prefix) == Len(prefix) <= Len(ns) /\ SubSeq(ns, 1, Len(prefix)) = prefix

\* A path matches the first (the last) labels of a namespace; "*" is any label.
MatchesCondition(ns, c) ==
    LET skip == IF c.type = "prefix" THEN 0 ELSE Len(ns) - Len(c.path)
    IN /\ Len(c.path) <= Len(ns)
       /\ \A i \in DOMAIN c.path : c.path[i] \in {Star, ns[skip + i]}

Passes(value, filter) ==
    CASE filter.op = "$eq"  -> value = filter.value
      [] filter.op = "$ne"  -> value # filter.value
      [] filter.op = "$gt"  -> value > filter.value
      [] filter.op = "$gte" -> value >= filter.value
      [] filter.op = "$lt"  -> value < filter.value
      [] filter.op = "$lte" -> value <= filter.value

\* answer is a page of the set S: no element twice, and as many as there are.
IsPage(answer, S, op) ==
    /\ \A m, n \in DOMAIN answer : m # n => answer[m] # answer[n]
    /\ \A n \in DOMAIN answer : answer[n] \in S
    /\ LET left == Cardinality(S) - op.offset
       IN Len(answer) = IF left < 0 THEN 0 ELSE IF left < op.limit THEN left ELSE op.limit

Item(op) == [ns |-> op.ns, key |-> op.key]
FoundItem(map, k) == [ns |-> k.ns, key |-> k.key, value |-> map[k]]

\* An answer is a list: of one item or of none (None) for get and put.
IsAnswer(map, op, answer) ==
    CASE op.type = "get" ->
            answer = IF Item(op) \in DOMAIN map THEN <<FoundItem(map, Item(op))>> ELSE <<>>
      [] op.type = "put" -> answer = <<>>
      [] op.type = "search" ->
            IsPage(answer,
                   {FoundItem(map, k) :
                      k \in {k \in DOMAIN map : /\ Under(k.ns, op.ns)
                                                /\ \A f \in op.filters : Passes(map[k], f)}},
                   op)
      [] op.type = "list" ->
            IsPage(answer,
                   {[ns |-> IF op.depth = Unlimited \/ Len(k.ns) <= op.depth
                            THEN k.ns ELSE SubSeq(k.ns, 1, op.depth)] :
                      k \in {k \in DOMAIN map : \A c \in op.conditions : MatchesCondition(k.ns, c)}},
                   op)

Reads(batch) == \E i \in DOMAIN batch : batch[i].type # "put"

\* The map after the puts of a batch, one after the other.
AfterPuts(map, batch) ==
    LET after[n \in 0..Len(batch)] ==
            IF n = 0 THEN map
            ELSE LET op == batch[n]
                     k == Item(op)
                     before == after[n - 1]
                 IN IF op.type # "put" THEN before
                    ELSE IF op.value = NoValue
                         THEN [x \in DOMAIN before \ {k} |-> before[x]]
                         ELSE [x \in DOMAIN before \cup {k} |->
                                 IF x = k THEN op.value ELSE before[x]]
    IN after[Len(batch)]

-----------------------------------------------------------------------------
Init ==
    /\ items = [k \in {} |-> k]
    /\ stage = [s \in Stores |-> "idle"]
    /\ ops = [s \in Stores |-> <<>>]
    /\ seen = [s \in Stores |-> <<>>]
    /\ results = [s \in Stores |-> <<>>]

Call(s, batch) ==
    /\ stage[s] # "running"
    /\ stage' = [stage EXCEPT ![s] = "running"]
    /\ ops' = [ops EXCEPT ![s] = batch]
    /\ results' = [results EXCEPT ![s] = <<>>]
    /\ UNCHANGED <<items, seen>>

\* The batch reads.
Look(s) ==
    /\ stage[s] = "running" /\ seen[s] = <<>> /\ Reads(ops[s])
    /\ seen' = [seen EXCEPT ![s] = <<items>>]
    /\ UNCHANGED <<items, stage, ops, results>>

\* The batch puts and returns.
Finish(s) ==
    /\ stage[s] = "running"
    /\ Reads(ops[s]) => seen[s] # <<>>
    /\ items' = AfterPuts(items, ops[s])
    /\ stage' = [stage EXCEPT ![s] = "returned"]
    /\ DOMAIN results'[s] = DOMAIN ops[s]
    /\ \A i \in DOMAIN ops[s] :
         IsAnswer(IF seen[s] = <<>> THEN items ELSE seen[s][1], ops[s][i], results'[s][i])
    /\ \A r \in Stores \ {s} : results'[r] = results[r]
    /\ seen' = [seen EXCEPT ![s] = <<>>]
    /\ UNCHANGED ops

\* The batch raises: without a trace, or the answer to COMMIT was lost.
Fail(s) ==
    /\ stage[s] = "running"
    /\ items' \in {items, AfterPuts(items, ops[s])}
    /\ stage' = [stage EXCEPT ![s] = "idle"]
    /\ ops' = [ops EXCEPT ![s] = <<>>]
    /\ seen' = [seen EXCEPT ![s] = <<>>]
    /\ UNCHANGED results

Next == \E s \in Stores : (\E b \in Batches : Call(s, b)) \/ Look(s) \/ Finish(s) \/ Fail(s)

Spec == Init /\ [][Next]_vars

=============================================================================
