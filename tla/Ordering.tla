------------------------------ MODULE Ordering ------------------------------
(***************************************************************************)
(* ORDER BY, sorted and the order of a dict: the elements of a finite set  *)
(* as a sequence.  (SetToSortSeq of the community modules rests on an      *)
(* operator of module TLC that the proof system does not know.)            *)
(***************************************************************************)
EXTENDS Integers, FiniteSets, Sequences

\* The elements of S in the strict order R, a set of pairs: the n-th has n - 1
\* before it.
InOrder(S, R) ==
    [n \in 1..Cardinality(S) |->
        CHOOSE x \in S : Cardinality({y \in S : <<y, x>> \in R}) = n - 1]

=============================================================================
