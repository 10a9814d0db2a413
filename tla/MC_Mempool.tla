---------------------------- MODULE MC_Mempool ----------------------------
(* Instances of Mempool for TLC: two threads, eight nodes, caches of two.  *)
EXTENDS Mempool, TLC

CONSTANTS t1, t2, n1, n2, n3, n4, n5, n6, n7, n8

MCThread == {t1, t2}
MCData == <<n1, n2, n3, n4, n5, n6, n7, n8>>

\* One node more than the most the lists can hold without a refill underflow.
MCMaxUsedOver == Len(MCData) - Cardinality(MCThread) * 2 + 1

Symmetry == Permutations(MCThread)
=============================================================================
