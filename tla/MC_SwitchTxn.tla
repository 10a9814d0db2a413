--------------------------- MODULE MC_SwitchTxn ----------------------------
(* Instances of SwitchTxn for TLC: two workers of one node, each running *)
(* one transaction.  YCSB: three ops over three hot ids and two register  *)
(* stages, so that packets with one and with two passes occur.            *)
(* SmallBank: two customers, every transaction type on either order of    *)
(* the pair, accounts one payment from empty so that aborts occur.        *)
(* TPC-C: two warehouses of one district and three items, two stages, so  *)
(* that hot stock rows of both warehouses share a stage and a NewOrder of *)
(* two lines can need a second pass; some stock rows are cold.            *)
(* Registry: two buckets of four slots (NUM_SLOTS as in the code), so the *)
(* node's ids 0 and 1 land in different buckets.                          *)
EXTENDS SwitchTxn

CONSTANTS w1, w2

MCWorker == {w1, w2}

MCTPHot == {<<0, 0>>, <<0, 2>>, <<1, 0>>}

Symmetry == Permutations(MCWorker)
=============================================================================
