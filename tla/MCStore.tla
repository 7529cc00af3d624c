------------------------------ MODULE MCStore ------------------------------
(* Instances of Store for TLC. *)
EXTENDS Store

\* Labels "a", "b", "ab"; namespaces of one and two labels.
A == <<97>>
B == <<98>>
AB == <<97, 98>>

GetOp(ns, k) == [type |-> "get", ns |-> ns, key |-> k]
PutOp(ns, k, v) == [type |-> "put", ns |-> ns, key |-> k, value |-> v]
SearchOp(ns, filters, limit, offset) ==
    [type |-> "search", ns |-> ns, filters |-> filters, limit |-> limit, offset |-> offset]
ListOp(conditions, depth, limit, offset) ==
    [type |-> "list", conditions |-> conditions, depth |-> depth, limit |-> limit, offset |-> offset]

\* Puts before the reads of their own item, the same item put twice, deletes
\* and inserts of the same two items in opposite order, two pages of a search.
MCBatches ==
    { <<PutOp(<<A, A>>, "k", 1), PutOp(<<A, B>>, "k", NoValue)>>,
      <<PutOp(<<A, B>>, "k", 2), PutOp(<<A, A>>, "k", NoValue),
        GetOp(<<A, A>>, "k"), GetOp(<<A, B>>, "k"), GetOp(<<A, A>>, "l")>>,
      <<PutOp(<<B>>, "k", 1), PutOp(<<A, A>>, "k", 2), PutOp(<<B>>, "k", NoValue)>>,
      <<SearchOp(<<A>>, {}, 1, 0), SearchOp(<<A>>, {}, 1, 1),
        SearchOp(<<>>, {[op |-> "$gte", value |-> 2]}, 2, 0)>>,
      <<ListOp({}, 1, 2, 0), PutOp(<<B>>, "k", 1),
        ListOp({[type |-> "suffix", path |-> <<B>>], [type |-> "prefix", path |-> <<Star>>]},
               Unlimited, 1, 0)>> }

\* A namespace whose last label is the beginning of another's.
MCSiblings ==
    { <<PutOp(<<A, A>>, "k", 1)>>, <<PutOp(<<A, AB>>, "k", 1)>>,
      <<SearchOp(<<A, A>>, {}, 10, 0)>> }

\* Symmetry: stores are only compared for equality.
Symmetry == Permutations(Stores)

=============================================================================
