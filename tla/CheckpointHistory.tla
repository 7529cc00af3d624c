------------------------- MODULE CheckpointHistory -------------------------
(***************************************************************************)
(* What the saver promises to the graph: a history of checkpoints per      *)
(* thread and namespace and the pending writes of their tasks, changed by  *)
(* put, put_writes and delete_thread in one step each.                     *)
(***************************************************************************)
EXTENDS SaverData

VARIABLES
    history,   \* history[k]: the parent and the channel values of checkpoint k
    writes     \* the pending writes, by their primary keys

hvars == <<history, writes>>

Init == history = Empty /\ writes = Empty

\* A checkpoint is stored once, whole, and next to the one it continues.
Put(k, parent, vals) ==
    /\ k \notin DOMAIN history
    /\ parent # NoId => [k EXCEPT !.id = parent] \in DOMAIN history
    /\ history' = With(history, k, [parent |-> parent, vals |-> vals])
    /\ UNCHANGED writes

\* The positions of ws that share the row of position j.
SameRow(ws, j) == {m \in DOMAIN ws : WriteIdx(ws, m) = WriteIdx(ws, j)}

\* All writes of a task at once: lists of special channels replace what is
\* there, and the last one counts; any other list only adds what is missing,
\* and the first one counts.
PutWrites(k, task, ws) ==
    LET Key(j) == WriteKey(k.thread, k.ns, k.id, task, WriteIdx(ws, j))
        Wins(j) == \A m \in SameRow(ws, j) : IF Overwrites(ws) THEN m <= j ELSE j <= m
    IN /\ k \in DOMAIN history
       /\ writes' = [x \in DOMAIN writes \cup {Key(j) : j \in DOMAIN ws} |->
            IF x \in DOMAIN writes /\ (~Overwrites(ws) \/ x \notin {Key(j) : j \in DOMAIN ws})
            THEN writes[x]
            ELSE ws[CHOOSE j \in DOMAIN ws : Key(j) = x /\ Wins(j)]]
       /\ UNCHANGED history

\* Nothing of the thread is left, in any namespace.
DeleteThread(t) ==
    /\ history' = Without(history, {k \in DOMAIN history : k.thread = t})
    /\ writes' = Without(writes, {k \in DOMAIN writes : k.thread = t})

Next ==
    \/ \E k \in CheckpointKey, parent \in Ids \cup {NoId},
          vals \in [Channels -> Objects \cup Primitives \cup {NoVal}] : Put(k, parent, vals)
    \/ \E k \in CheckpointKey, task \in Tasks, ws \in WriteLists : PutWrites(k, task, ws)
    \/ \E t \in Threads : DeleteThread(t)

Spec == Init /\ [][Next]_hvars

=============================================================================
