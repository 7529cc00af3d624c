---------------------------- MODULE MCSaverReads ----------------------------
(* Instances of SaverReads for TLC. *)
EXTENDS SaverReads

CONSTANTS MaxId

MCIds == 1..MaxId

MCScopes == {[thread |-> "t1", ns |-> ""], [thread |-> "t2", ns |-> ""]}

\* The order of the paths is not the order of the ids.
MCTasks == {[path |-> 1, id |-> 2], [path |-> 2, id |-> 1]}

MCKinds == {[v |-> 3, metadata |-> "input"], [v |-> 3, metadata |-> "loop"], [v |-> 4, metadata |-> "loop"]}

\* All threads; a thread.
MCConfigs == {[thread |-> None, ns |-> None, id |-> NoId],
              [thread |-> "t1", ns |-> None, id |-> NoId]}

=============================================================================
