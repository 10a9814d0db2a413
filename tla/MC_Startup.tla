----------------------------- MODULE MC_Startup -----------------------------
(***************************************************************************)
(* Startup for TLC: two nodes, so that one node can start before or after *)
(* the other and lose Inits sent to it while it is not up, and two worker *)
(* threads per node, so that one of them runs the node barrier while the  *)
(* other waits at the pthread barrier.  Three nodes give the same cases   *)
(* but more than four million states.                                     *)
(***************************************************************************)
EXTENDS Startup

CONSTANTS n1, n2, w1, w2

MCNode == {n1, n2}
MCWorker == {w1, w2}
==============================================================================
