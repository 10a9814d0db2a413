------------------------------ MODULE MC_Engine ------------------------------
(***************************************************************************)
(* Engine instantiated for TLC: two nodes, a row at each, and workers on   *)
(* both nodes whose transactions touch both rows in opposite orders, so    *)
(* local and remote locking, waiting, dying and deferred grants all meet.  *)
(***************************************************************************)
EXTENDS Engine

CONSTANTS n1, n2, w1, w2, w3, k1, k2

R(k) == [key |-> k, mode |-> "READ"]
W(k) == [key |-> k, mode |-> "WRITE"]

MCNode == {n1, n2}
MCKey == {k1, k2}

\* k1 lives on n1, k2 on n2 (RANGE partitioning of two keys over two nodes).
MCHome == [k \in MCKey |-> IF k = k1 THEN n1 ELSE n2]

\* Three workers: a second worker on n1 makes readers share k1 and lets a
\* local and a remote requester queue on the same row; w1 and w2 read one
\* row and then write the other across nodes, a wait cycle.
MCWorker3 == {w1, w2, w3}
MCNodeOf3 == [w \in MCWorker3 |-> IF w = w2 THEN n2 ELSE n1]
MCWorkerId3 == [w \in MCWorker3 |-> CASE w = w1 -> 0 [] w = w2 -> 1 [] w = w3 -> 2]
MCProgram3 ==
    [w \in MCWorker3 |->
        CASE w = w1 -> << <<R(k1), W(k2)>> >>
          [] w = w2 -> << <<R(k2), W(k1)>> >>
          [] w = w3 -> << <<R(k1), R(k2)>> >>]
==============================================================================
