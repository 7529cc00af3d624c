------------------------------ MODULE MCSaver ------------------------------
(* Instances of Saver for TLC. *)
EXTENDS SaverInvariant, TLC

CONSTANTS MaxId

MCIds == 1..MaxId

Write(ch, v) == [channel |-> ch, value |-> v]

\* Two attempts of the same task that disagree, two lists for special
\* channels only, one of which names a channel twice, and a mixed list.
MCWriteLists ==
    { <<Write("a", "first"), Write("b", "first")>>,
      <<Write("a", "second"), Write("b", "second")>>,
      <<Write("__error__", "first")>>,
      <<Write("__resume__", "second"), Write("__error__", "second"), Write("__resume__", "third")>>,
      <<Write("a", "mixed"), Write("__resume__", "mixed")>> }

\* No pending writes, or one list of each kind.
MCNoWriteLists == {}
MCShortWriteLists == { <<Write("a", "first")>>, <<Write("__error__", "first")>> }

\* Symmetry: savers, threads, namespaces and objects are only compared for equality.
Symmetry ==
    Permutations(Savers) \cup Permutations(Threads)
        \cup Permutations(Namespaces) \cup Permutations(Objects)

=============================================================================
