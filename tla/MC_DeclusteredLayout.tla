------------------------ MODULE MC_DeclusteredLayout ------------------------
(* Instances of DeclusteredLayout for TLC: four tuples and three sampled  *)
(* transactions built like test.cpp's (generate_chain_dep over accesses), *)
(* whose dependencies point in opposite directions and close a cycle.     *)
EXTENDS DeclusteredLayout

TA == [acc |-> <<1, 2, 3>>, deps |-> ChainDeps(<<1, 2, 3>>), rep |-> 1]
TB == [acc |-> <<4, 3, 2>>, deps |-> ChainDeps(<<4, 3, 2>>), rep |-> 2]
TC == [acc |-> <<3, 4, 1>>, deps |-> ChainDeps(<<3, 4, 1>>), rep |-> 1]

MCTxns == {TA, TB, TC}
=============================================================================
