------------------------- MODULE DeclusteredLayout -------------------------
(***************************************************************************)
(* The declustered-layout tool (src/declustered_layout): it samples        *)
(* transactions into an access graph, bisects the graph recursively with   *)
(* an external max-cut solver into NPart partitions (GraphMaxCut::part),   *)
(* orders the partitions along the dependency edges between them           *)
(* (GraphTopoSort), and gives every sampled tuple a switch register slot   *)
(* (DeclusteredLayout::compute_layout).                                    *)
(*                                                                         *)
(* The tool is sequential; each action is one step of compute_layout.     *)
(* The external programs (rmaxcut, MQLib, tightCutWeighted) are modelled   *)
(* by what their output may be: any 2-cut of the nodes they are given, any *)
(* set of edges to delete.  Undirected edge weights only steer the max-cut *)
(* solver, so the model keeps the undirected edges and drops their         *)
(* weights; directed weights decide the direction of the topology edges   *)
(* and are kept.                                                           *)
(***************************************************************************)
EXTENDS Integers, Sequences, SequencesExt, FiniteSets, FiniteSetsExt

CONSTANTS
    Txns,        \* sampled transactions: [acc: Seq(tuple), deps: Seq(pair), rep: Nat]
    MaxSamples,  \* bound on the add_sample calls
    NPart,       \* PARTITIONS, the npart argument of GraphMaxCut::part
    Algo,        \* "RMAXCUT" or "MQLIB"
    TopoSort,    \* the topo_sort argument of compute_layout
    STAGES,      \* DeclusteredLayout::STAGES
    REG_SIZE,    \* DeclusteredLayout::REG_SIZE
    MAX_ACCESSES \* DeclusteredLayout::MAX_ACCESSES

VARIABLES
    g,           \* DeclusteredLayout::g, the access graph
    samples,     \* add_sample calls so far
    phase,       \* the step of compute_layout the tool is at
    queue,       \* graph_queue of GraphMaxCut::part: <<[g, depth]>>
    parts,       \* the Partitionings of the leaves, in queue order
    part,        \* the combined Partitioning [parts, map]
    cut1,        \* history: the first bisection of g (not program state)
    topo,        \* GraphTopoSort::topo: [lut: Seq(pid), dw: edge -> weight]
    top_order,   \* the node order tsort computed (<<>> before tsort)
    loc,         \* switch_tuples: tid -> [stage, idx]
    err,         \* the exception that ended compute_layout, or "none"
    sampled,     \* the transactions given to add_sample, in order (test.cpp's txns)
    pid0,        \* history: part.map as GraphMaxCut::part returned it (not program state)
    passHist,    \* SwitchSimulator::process's pass_hist: passes -> repeats
    violated     \* per sampled transaction, the dependencies process counts as violated

simVars == <<sampled, pid0, passHist, violated>>
vars == <<g, samples, phase, queue, parts, part, cut1, topo, top_order, loc, err, simVars>>

-----------------------------------------------------------------------------
(***************************************************************************)
(* Graph (graph.hpp/.cpp).  IncrementalLUT numbers tuples in order of      *)
(* first use and every user of the graph maps node ids back with rev, so   *)
(* the access graph is kept on tuple ids: `nodes` is the LUT's key set.    *)
(***************************************************************************)
EmptyGraph == [nodes |-> {}, uw |-> {}, dw |-> <<>>, dangling |-> {}]

AddWeight(f, k, w) ==
    IF k \in DOMAIN f THEN [f EXCEPT ![k] = @ + w] ELSE f @@ (k :> w)

AddUndirectedEdge(gr, t1, t2) ==
    [gr EXCEPT !.nodes = @ \cup {t1, t2}, !.uw = @ \cup {{t1, t2}}]

AddDirectedEdge(gr, t1, t2, w) ==
    [gr EXCEPT !.nodes = @ \cup {t1, t2}, !.dw = AddWeight(@, <<t1, t2>>, w)]

AddDangling(gr, t) ==
    [gr EXCEPT !.nodes = @ \cup {t}, !.dangling = @ \cup {t}]

\* Tuples on some undirected edge: the nodes the max-cut solver is given.
EdgeNodes(gr) == UNION gr.uw

(***************************************************************************)
(* Transaction::generate_chain_dep: a dependency between each access and   *)
(* the next; it throws for two accesses or fewer.                          *)
(***************************************************************************)
ChainDeps(acc) == [i \in 1..Len(acc) - 1 |-> <<acc[i], acc[i + 1]>>]

(***************************************************************************)
(* DeclusteredLayout::add_sample: an undirected edge for every pair of     *)
(* accesses i < j, then a directed edge of weight `repeats` per dependency.*)
(***************************************************************************)
AddSampleGraph(gr, txn) ==
    LET N == Len(txn.acc)
        pairs == {<<i, j>> \in (1..N) \X (1..N) : i < j}
        und == FoldSet(LAMBDA p, h : AddUndirectedEdge(h, txn.acc[p[1]], txn.acc[p[2]]),
                       gr, pairs)
    IN  FoldLeft(LAMBDA h, d : AddDirectedEdge(h, d[1], d[2], txn.rep), und, txn.deps)

-----------------------------------------------------------------------------
(***************************************************************************)
(* Partitioning (partitioning.cpp).  insert throws when the tuple is       *)
(* already mapped; operator+= shifts the right-hand pids by this->parts.   *)
(***************************************************************************)
NewPartitioning(n) == [parts |-> n, map |-> <<>>]

\* insert of several tuples: FALSE when one of them is already mapped.
CanInsert(p, ts) == ts \cap DOMAIN p.map = {}

Insert(p, f) == [p EXCEPT !.map = @ @@ f]

Combine(p, q) ==
    [parts |-> p.parts + q.parts,
     map   |-> p.map @@ [t \in DOMAIN q.map |-> q.map[t] + p.parts]]

\* Integers as the sequence in ascending order: one fixed iteration order
\* of the unordered containers the code loops over.
RECURSIVE Ascending(_)
Ascending(S) == IF S = {} THEN <<>> ELSE <<Min(S)>> \o Ascending(S \ {Min(S)})

(***************************************************************************)
(* "add dangling uniformly between both partitions": the i-th dangling     *)
(* node goes to side i & 1.  part_* and split loop over the same           *)
(* unordered_set, so they see the same order.                              *)
(***************************************************************************)
DanglingSide(gr) ==
    LET s == Ascending(gr.dangling)
    IN  [t \in gr.dangling |-> CHOOSE i \in 0..1 : \E k \in DOMAIN s : s[k] = t /\ (k - 1) % 2 = i]

(***************************************************************************)
(* part_rmaxcut: the solver writes one spin per node of the edge file,    *)
(* inserted as pid (spin == -1); then the dangling nodes are inserted.     *)
(* part_mqlib: the instance has current_node_id nodes, dangling ones       *)
(* included, so MQLib returns a spin for every node; the dangling loop     *)
(* then inserts the dangling nodes a second time.                          *)
(* PartitionDup is the case where that insert throws.                      *)
(***************************************************************************)
SolverNodes(gr) == IF Algo = "RMAXCUT" THEN EdgeNodes(gr) ELSE gr.nodes

PartitionDup(gr, spins) == ~CanInsert(Insert(NewPartitioning(2), spins), gr.dangling)

PartitionResult(gr, spins) == Insert(Insert(NewPartitioning(2), spins), DanglingSide(gr))

(***************************************************************************)
(* GraphMaxCut::split: an edge inside a side goes to that side's graph; an *)
(* endpoint of a cut edge that has no edge on its side becomes dangling    *)
(* there; the parent's dangling nodes are dealt out alternately.           *)
(***************************************************************************)
SideNoCut(gr, p, s) ==
    LET inner == {e \in gr.uw : \A t \in e : p[t] = s}
        dang  == {t \in gr.dangling : DanglingSide(gr)[t] = s}
    IN  [nodes |-> UNION inner \cup dang, uw |-> inner, dw |-> <<>>,
         dangling |-> dang]

SideSwapped(gr, p, s) ==
    LET inner == {e \in gr.uw : \A t \in e : p[t] = 1 - s}
        cutn  == {t \in UNION {e \in gr.uw : \E a, b \in e : p[a] # p[b]} : p[t] = 1 - s}
        dang  == {t \in gr.dangling : DanglingSide(gr)[t] = 1 - s}
    IN  [nodes |-> UNION inner \cup cutn \cup dang,
         uw |-> inner, dw |-> <<>>,
         dangling |-> (cutn \ UNION inner) \cup dang]

Side(gr, p, s) ==
    LET inner == {e \in gr.uw : \A t \in e : p[t] = s}
        cutn  == {t \in UNION {e \in gr.uw : \E a, b \in e : p[a] # p[b]} : p[t] = s}
        dang  == {t \in gr.dangling : DanglingSide(gr)[t] = s}
    IN  [nodes |-> UNION inner \cup cutn \cup dang,
         uw |-> inner, dw |-> <<>>,
         dangling |-> (cutn \ UNION inner) \cup dang]

\* The depth of the first queue item: static_cast<uint32_t>(log2(npart)) - 1.
\* For npart = 1 the subtraction wraps to 2^32 - 1, which exceeds TLC's
\* integers; DepthWrap stands for it: a depth no bounded run counts down.
Log2(n) == CHOOSE k \in 0..n : 2^k = n
DepthWrap == 2147483647
StartDepth == IF Log2(NPart) = 0 THEN DepthWrap ELSE Log2(NPart) - 1

\* npart & (npart - 1) is zero: npart is a power of two (or zero).
IsPowerOf2(n) == n = 0 \/ \E k \in 0..n : n = 2^k

-----------------------------------------------------------------------------
(***************************************************************************)
(* GraphTopoSort::setup: for each pair of partitions i < j, the directed   *)
(* weight from i to j minus the weight from j to i; a nonzero result adds  *)
(* one topology edge in the direction of the larger weight.  The topology  *)
(* graph numbers partitions in the order the loop first adds them.         *)
(***************************************************************************)
DirCutWeight(gr, p, i, j) ==
    LET fwd == {e \in DOMAIN gr.dw : p[e[1]] = i /\ p[e[2]] = j}
        bwd == {e \in DOMAIN gr.dw : p[e[1]] = j /\ p[e[2]] = i}
    IN  FoldSet(LAMBDA e, acc : acc + gr.dw[e], 0, fwd)
          - FoldSet(LAMBDA e, acc : acc + gr.dw[e], 0, bwd)

Nid(lut, x) == CHOOSE k \in DOMAIN lut : lut[k] = x

LutGet(lut, x) == IF \E k \in DOMAIN lut : lut[k] = x THEN lut ELSE Append(lut, x)

AddTopoEdge(t, a, b, w) ==
    LET lut == LutGet(LutGet(t.lut, a), b)
    IN  [lut |-> lut, dw |-> AddWeight(t.dw, <<Nid(lut, a) - 1, Nid(lut, b) - 1>>, w)]

SetupNoNegate(gr, p) ==
    LET n == p.parts
        order == Ascending({i * n + j : i, j \in 0..n - 1})
        step(t, k) ==
            LET w == DirCutWeight(gr, p.map, k \div n, k % n)
            IN  IF k \div n >= k % n \/ w = 0 THEN t
                ELSE IF w < 0 THEN AddTopoEdge(t, k % n, k \div n, w)
                ELSE AddTopoEdge(t, k \div n, k % n, w)
    IN  FoldLeft(step, [lut |-> <<>>, dw |-> <<>>], order)

Setup(gr, p) ==
    LET n == p.parts
        order == Ascending({i * n + j : i, j \in 0..n - 1})
        step(t, k) ==
            LET i == k \div n
                j == k % n
                w == DirCutWeight(gr, p.map, i, j)
            IN  IF i >= j \/ w = 0 THEN t
                ELSE IF w < 0 THEN AddTopoEdge(t, j, i, -w)
                ELSE AddTopoEdge(t, i, j, w)
    IN  FoldLeft(step, [lut |-> <<>>, dw |-> <<>>], order)

(***************************************************************************)
(* GraphTopoSort::tsort: Kahn's algorithm over node ids 0 .. N-1.  The     *)
(* queue starts with the nodes of in-degree 0 in id order; a node whose    *)
(* in-degree drops to 0 is pushed when its predecessor is popped.  The     *)
(* adjacency lists follow the unordered_map's order; the model pushes the  *)
(* successors of one node in id order.                                     *)
(***************************************************************************)
Succ(dw, u) == {e[2] : e \in {d \in DOMAIN dw : d[1] = u}}

RECURSIVE KahnEarly(_, _, _, _)
KahnEarly(dw, indeg, q, out) ==
    IF q = <<>> THEN out
    ELSE LET u == Head(q)
             dec == [v \in DOMAIN indeg |-> IF v \in Succ(dw, u) THEN indeg[v] - 1 ELSE indeg[v]]
         IN  KahnEarly(dw, dec, Tail(q) \o Ascending({v \in Succ(dw, u) : dec[v] <= 1}),
                       Append(out, u))

RECURSIVE Kahn(_, _, _, _)
Kahn(dw, indeg, q, out) ==
    IF q = <<>> THEN out
    ELSE LET u == Head(q)
             dec == [v \in DOMAIN indeg |-> IF v \in Succ(dw, u) THEN indeg[v] - 1 ELSE indeg[v]]
         IN  Kahn(dw, dec, Tail(q) \o Ascending({v \in Succ(dw, u) : dec[v] = 0}),
                  Append(out, u))

TSort(t) ==
    LET N == Len(t.lut)
        indeg == [v \in 0..N - 1 |-> Cardinality({d \in DOMAIN t.dw : d[2] = v})]
    IN  Kahn(t.dw, indeg, Ascending({v \in 0..N - 1 : indeg[v] = 0}), <<>>)

(***************************************************************************)
(* compute_layout, last loop: for each tuple of the partitioning, stage =  *)
(* pid and idx = reg_fill[stage]++; a stage >= STAGES or idx >= REG_SIZE   *)
(* throws after the tuples before it were placed.  The model loops in      *)
(* ascending tuple id, one order of the unordered_map.                     *)
(***************************************************************************)
AssignSlotsNoFill(map) ==
    LET step(st, t) ==
            IF st.err # "none" THEN st
            ELSE IF ~(map[t] < STAGES) THEN [st EXCEPT !.err = "stage"]
            ELSE [st EXCEPT !.loc = @ @@ (t :> [stage |-> map[t], idx |-> 0])]
    IN  FoldLeft(step, [fill |-> <<>>, loc |-> <<>>, err |-> "none"], Ascending(DOMAIN map))

AssignSlots(map) ==
    LET step(st, t) ==
            LET stage == map[t]
                idx == IF stage \in DOMAIN st.fill THEN st.fill[stage] ELSE 0
            IN  IF st.err # "none" THEN st
                ELSE IF ~(stage < STAGES) THEN [st EXCEPT !.err = "stage"]
                ELSE IF ~(idx < REG_SIZE) THEN [st EXCEPT !.err = "reg_size"]
                ELSE [fill |-> AddWeight(st.fill, stage, 1),
                      loc  |-> st.loc @@ (t :> [stage |-> stage, idx |-> idx]),
                      err  |-> "none"]
    IN  FoldLeft(step, [fill |-> <<>>, loc |-> <<>>, err |-> "none"], Ascending(DOMAIN map))

-----------------------------------------------------------------------------
Init ==
    /\ g = EmptyGraph
    /\ samples = 0
    /\ phase = "sample"
    /\ queue = <<>>
    /\ parts = <<>>
    /\ part = NewPartitioning(0)
    /\ cut1 = <<>>
    /\ topo = [lut |-> <<>>, dw |-> <<>>]
    /\ top_order = <<>>
    /\ loc = <<>>
    /\ err = "none"
    /\ sampled = <<>>
    /\ pid0 = <<>>
    /\ passHist = <<>>
    /\ violated = <<>>

Fail(e) == /\ phase' = "failed"
           /\ err' = e

\* DeclusteredLayout::add_sample
AddSample(txn) ==
    /\ phase = "sample"
    /\ samples < MaxSamples
    /\ g' = AddSampleGraph(g, txn)
    /\ samples' = samples + 1
    /\ sampled' = Append(sampled, txn)
    /\ UNCHANGED <<phase, queue, parts, part, cut1, topo, top_order, loc, err,
                   pid0, passHist, violated>>

\* compute_layout calls GraphMaxCut::part(g, algo, PARTITIONS).
PartStart ==
    /\ phase = "sample"
    /\ IF ~IsPowerOf2(NPart)
         THEN /\ Fail("npart")
              /\ UNCHANGED queue
         ELSE /\ queue' = <<[g |-> g, depth |-> StartDepth]>>
              /\ phase' = "part"
              /\ UNCHANGED err
    /\ UNCHANGED <<g, samples, parts, part, cut1, topo, top_order, loc, simVars>>

(***************************************************************************)
(* One iteration of the while loop in GraphMaxCut::part: the solver cuts   *)
(* the front graph; at depth 0 the cut is a leaf partitioning, otherwise   *)
(* split pushes both sides one level down.                                 *)
(***************************************************************************)
PartStep(spins) ==
    LET it == Head(queue)
        r == PartitionResult(it.g, spins)
    IN
    /\ phase = "part"
    /\ queue # <<>>
    /\ IF PartitionDup(it.g, spins)
         THEN /\ Fail("dup")
              /\ UNCHANGED <<queue, parts, cut1>>
         ELSE /\ cut1' = IF cut1 = <<>> THEN r.map ELSE cut1
              /\ IF it.depth = 0
                   THEN /\ parts' = Append(parts, r)
                        /\ queue' = Tail(queue)
                   ELSE /\ queue' = Tail(queue) \o
                                      <<[g |-> Side(it.g, r.map, 0), depth |-> it.depth - 1],
                                        [g |-> Side(it.g, r.map, 1), depth |-> it.depth - 1]>>
                        /\ UNCHANGED parts
              /\ UNCHANGED <<phase, err>>
    /\ UNCHANGED <<g, samples, part, topo, top_order, loc, simVars>>

\* The end of GraphMaxCut::part: part = parts[0]; part += parts[i] ...
PartCombine ==
    LET p == FoldLeft(Combine, parts[1], Tail(parts))
        overlap == \E i, j \in DOMAIN parts :
                      i < j /\ DOMAIN parts[i].map \cap DOMAIN parts[j].map # {}
    IN
    /\ phase = "part"
    /\ queue = <<>>
    /\ CASE overlap          -> Fail("dup") /\ UNCHANGED part
         [] p.parts # NPart  -> Fail("partitioning failed") /\ UNCHANGED part
         [] OTHER            -> part' = p /\ phase' = "setup" /\ UNCHANGED err
    /\ UNCHANGED <<g, samples, queue, parts, cut1, topo, top_order, loc, simVars>>

\* GraphTopoSort::setup; part.get throws for a tuple with no partition.
TopoSetup ==
    /\ phase = "setup"
    /\ IF \E e \in DOMAIN g.dw : ~({e[1], e[2]} \subseteq DOMAIN part.map)
         THEN Fail("out_of_range") /\ UNCHANGED topo
         ELSE /\ topo' = Setup(g, part)
              /\ phase' = IF TopoSort THEN "topo" ELSE "assign"
              /\ UNCHANGED err
    /\ UNCHANGED <<g, samples, queue, parts, part, cut1, top_order, loc, simVars>>

(***************************************************************************)
(* topo_sort(TIGHT): tightCutWeighted names edges to delete, each removed  *)
(* with remove_directed_edge, then tsort.  tsort throws if the remaining   *)
(* graph keeps a cycle; otherwise it writes ordering[rev(n)] = i into a    *)
(* vector of top_order.size() entries, out of bounds for a partition id    *)
(* beyond the nodes of the topology graph.                                 *)
(***************************************************************************)
TopoTight(removed) ==
    LET t == [topo EXCEPT !.dw = [e \in DOMAIN topo.dw \ removed |-> topo.dw[e]]]
        out == TSort(t)
    IN
    /\ phase = "topo"
    /\ topo' = t
    /\ IF Len(out) # Len(t.lut)
         THEN Fail("cycle") /\ UNCHANGED top_order
         ELSE /\ top_order' = out
              /\ phase' = IF \E i \in DOMAIN out : t.lut[out[i] + 1] >= Len(out)
                            THEN "ub" ELSE "remap"
              /\ UNCHANGED err
    /\ UNCHANGED <<g, samples, queue, parts, part, cut1, loc, simVars>>

\* ordering[p]: the position in top_order of the node of partition p.
Ordering(p) == CHOOSE i \in DOMAIN top_order : topo.lut[top_order[i] + 1] = p

\* Mutant: compute_layout without the remapping: stage = pid.
RemapSkipped ==
    /\ phase = "remap"
    /\ phase' = "assign"
    /\ pid0' = part.map
    /\ UNCHANGED <<g, samples, queue, parts, part, cut1, topo, top_order, loc, err,
                   sampled, passHist, violated>>

\* compute_layout: pid = ordering[pid] for every tuple; out of bounds when
\* pid >= ordering.size().
Remap ==
    /\ phase = "remap"
    /\ IF \E t \in DOMAIN part.map : part.map[t] >= Len(top_order)
         THEN phase' = "ub" /\ UNCHANGED part
         ELSE /\ part' = [part EXCEPT !.map = [t \in DOMAIN @ |-> Ordering(@[t]) - 1]]
              /\ phase' = "assign"
    /\ pid0' = part.map
    /\ UNCHANGED <<g, samples, queue, parts, cut1, topo, top_order, loc, err,
                   sampled, passHist, violated>>

Assign ==
    LET r == AssignSlots(part.map)
    IN
    /\ phase = "assign"
    /\ loc' = r.loc
    /\ IF r.err # "none" THEN Fail(r.err) ELSE phase' = "done" /\ UNCHANGED err
    /\ UNCHANGED <<g, samples, queue, parts, part, cut1, topo, top_order, simVars>>

(***************************************************************************)
(* SwitchSimulator::process, as the layout test runs it on the sampled     *)
(* transactions after compute_layout (include_deps set).  Per transaction: *)
(* it throws for more than MAX_ACCESSES accesses, looks every access and   *)
(* dependency up with get_location (switch_tuples.at, which throws for a   *)
(* tuple outside the layout), counts the accesses per stage, takes the     *)
(* busiest stage's count as the passes, counts a dependency as violated    *)
(* when its first tuple's stage is not below its second's, and adds the    *)
(* repeats to pass_hist[passes - 1].  An empty transaction has 0 passes,   *)
(* and pass_hist[-1] is out of bounds.  The crop and the printed           *)
(* distribution are output only.                                           *)
(***************************************************************************)
StageOf(t) == loc[t].stage

RegHist(txn) ==
    [s \in 0..STAGES - 1 |-> Cardinality({i \in DOMAIN txn.acc : StageOf(txn.acc[i]) = s})]

SimPasses(txn) == Max(Range(RegHist(txn)))

SimViolated(txn) ==
    {j \in DOMAIN txn.deps : StageOf(txn.deps[j][1]) >= StageOf(txn.deps[j][2])}

SimStep(st, txn) ==
    LET looked == Range(txn.acc) \cup UNION {{d[1], d[2]} : d \in Range(txn.deps)}
    IN  IF st.err # "none" THEN st
        ELSE IF Len(txn.acc) > MAX_ACCESSES THEN [st EXCEPT !.err = "accesses"]
        ELSE IF ~(looked \subseteq DOMAIN loc) THEN [st EXCEPT !.err = "out_of_range"]
        ELSE IF Len(txn.acc) = 0 THEN [st EXCEPT !.err = "ub"]
        ELSE [st EXCEPT !.hist = AddWeight(@, SimPasses(txn), txn.rep),
                        !.violated = Append(@, SimViolated(txn))]

Simulate ==
    LET r == FoldLeft(SimStep, [hist |-> <<>>, violated |-> <<>>, err |-> "none"], sampled)
    IN
    /\ phase = "done"
    /\ passHist' = r.hist
    /\ violated' = r.violated
    /\ CASE r.err = "none" -> phase' = "simulated" /\ UNCHANGED err
         [] r.err = "ub"   -> phase' = "sim_ub" /\ UNCHANGED err
         [] OTHER          -> Fail(r.err)
    /\ UNCHANGED <<g, samples, queue, parts, part, cut1, topo, top_order, loc,
                   sampled, pid0>>

Next ==
    \/ \E txn \in Txns : AddSample(txn)
    \/ PartStart
    \/ phase = "part" /\ queue # <<>> /\
         \E spins \in [SolverNodes(Head(queue).g) -> 0..1] : PartStep(spins)
    \/ PartCombine
    \/ TopoSetup
    \/ \E removed \in SUBSET DOMAIN topo.dw : TopoTight(removed)
    \/ Remap
    \/ Assign
    \/ Simulate

Spec == Init /\ [][Next]_vars

-----------------------------------------------------------------------------
Gr == INSTANCE Graphs

Phases == {"sample", "part", "setup", "topo", "remap", "assign", "done", "failed", "ub",
           "simulated", "sim_ub"}
Errors == {"none", "npart", "dup", "partitioning failed", "out_of_range", "cycle",
           "stage", "reg_size", "accesses"}

TypeOK ==
    /\ phase \in Phases
    /\ err \in Errors
    /\ samples \in 0..MaxSamples
    /\ part.parts \in Nat
    /\ \A e \in DOMAIN topo.dw : topo.dw[e] \in Nat \ {0}
    /\ top_order \in Seq(Nat)
    /\ \A t \in DOMAIN loc : loc[t] \in [stage : Nat, idx : Nat]
    /\ sampled \in Seq(Txns)
    /\ Len(violated) <= Len(sampled)

\* The phases after GraphMaxCut::part has returned, before the remapping.
Partitioned == phase \in {"setup", "topo", "remap"}

(***************************************************************************)
(* GraphMaxCut::part never throws on a graph built by add_sample, and what *)
(* it returns puts every sampled tuple in one of the NPart partitions:     *)
(* split hands every tuple of a graph to exactly one side, and the leaves  *)
(* are shifted by operator+= into disjoint pid ranges.                     *)
(***************************************************************************)
PartitionSucceeds ==
    /\ err \notin {"dup", "partitioning failed", "out_of_range"}
    /\ Partitioned =>
         /\ part.parts = NPart
         /\ DOMAIN part.map = g.nodes
         /\ \A t \in g.nodes : part.map[t] \in 0..NPart - 1

(***************************************************************************)
(* The bisection is hierarchical: the queue is breadth first and the       *)
(* leaves are combined in queue order, so every tuple on side 0 of the     *)
(* first cut ends in the lower half of the pids and every tuple on side 1  *)
(* in the upper half.  A side mixed up in split (an edge, a cut endpoint   *)
(* or a dangling node sent to the wrong graph) breaks this.                *)
(***************************************************************************)
HierarchicalBisection ==
    Partitioned =>
        \A t \in DOMAIN part.map :
            t \in DOMAIN cut1 => ((part.map[t] < NPart \div 2) <=> (cut1[t] = 0))

(***************************************************************************)
(* tsort agrees with the reference definition of a topological order: it  *)
(* reports a cycle only when the topology graph left by the edge removal   *)
(* has one, and otherwise lists every node once, each before all of its   *)
(* successors.                                                             *)
(***************************************************************************)
TopoGraph == [node |-> 0..Len(topo.lut) - 1, edge |-> DOMAIN topo.dw]

Pos(seq, x) == CHOOSE i \in DOMAIN seq : seq[i] = x

TsortMatchesReference ==
    /\ err = "cycle" => ~Gr!IsDag(TopoGraph)
    /\ top_order # <<>> =>
         /\ Len(top_order) = Cardinality(TopoGraph.node)
         /\ Range(top_order) = TopoGraph.node
         /\ \A e \in TopoGraph.edge : Pos(top_order, e[1]) < Pos(top_order, e[2])

(***************************************************************************)
(* compute_layout gives every tuple its own register slot: no two tuples   *)
(* share a stage and index, and the index fits the register array.         *)
(***************************************************************************)
SlotsDistinct ==
    phase = "done" =>
        /\ DOMAIN loc = DOMAIN part.map
        /\ \A t \in DOMAIN loc : loc[t].idx < REG_SIZE /\ loc[t].stage < STAGES
        /\ \A t1, t2 \in DOMAIN loc : t1 # t2 => loc[t1] # loc[t2]

(***************************************************************************)
(* The switch simulator counts a dependency as violated only where the     *)
(* layout could not honour it: both tuples in one partition, or no         *)
(* topology edge from the first tuple's partition to the second's (the     *)
(* net directed weight points the other way, or tightCutWeighted removed   *)
(* the edge).  Every dependency along a kept topology edge lands on a      *)
(* strictly later stage: setup's edge direction, tsort's order and         *)
(* compute_layout's pid = ordering[pid] must all agree for this.           *)
(***************************************************************************)
KeptEdge(a, b) ==
    \E e \in DOMAIN topo.dw : topo.lut[e[1] + 1] = a /\ topo.lut[e[2] + 1] = b

ViolatedOnlyAgainstTopology ==
    phase = "simulated" /\ TopoSort =>
        \A i \in DOMAIN violated : \A j \in violated[i] :
            LET d == sampled[i].deps[j]
            IN  pid0[d[1]] # pid0[d[2]] => ~KeptEdge(pid0[d[1]], pid0[d[2]])

(***************************************************************************)
(* The comment at the end of tsort says the ordering "defines which        *)
(* partition should map to which": a permutation of the partition ids that *)
(* compute_layout applies with pid = ordering[pid].  Stated: neither tsort *)
(* nor the remapping ever indexes the ordering out of bounds.              *)
(***************************************************************************)
OrderingInBounds == phase # "ub"

=============================================================================
