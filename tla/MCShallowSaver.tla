--------------------------- MODULE MCShallowSaver ---------------------------
(* Instances of ShallowSaver for TLC. *)
EXTENDS ShallowSaver, TLC

CONSTANTS MaxId

MCIds == 1..MaxId

\* One write of a task.  What a list of writes may contain is MCSaver's matter.
MCWriteLists == { <<[channel |-> "a", value |-> "sent"]>> }
MCNoWriteLists == {}

\* Symmetry: savers are only compared for equality.
Symmetry == Permutations(Savers)

=============================================================================
