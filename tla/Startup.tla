------------------------------- MODULE Startup -------------------------------
(***************************************************************************)
(* How the nodes of a cluster find each other and keep in step: the Init   *)
(* handshake (comm/handlers/init.cpp) that the Database constructor runs,  *)
(* and the message-counting BarrierHandler (comm/handlers/barrier.cpp)     *)
(* that a benchmark run (ycsb(), smallbank(), tpcc()) passes three times:  *)
(* wait_nodes() after loading, wait_workers() when every worker thread is  *)
(* ready, and wait_nodes() after the workers are joined.                   *)
(*                                                                         *)
(* Nodes are started one by one by the operator.  A datagram sent to a     *)
(* node whose socket is not bound yet is lost (UDP on an unconnected       *)
(* socket reports no error); once every node is up, delivery is reliable   *)
(* and unordered.  Each node has a MessageHandler thread that consumes     *)
(* Init and Barrier messages, a main thread and Worker threads.            *)
(***************************************************************************)
EXTENDS Integers, FiniteSets

CONSTANTS
    Node,       \* the cluster's nodes (Config::num_nodes)
    Worker      \* worker thread ids of one node (Config::num_txn_workers)

N == Cardinality(Node)
W == Cardinality(Worker)

VARIABLES
    up,         \* up[n]: n's socket is bound (UDPCommunicator::setup)
    mpc,        \* mpc[n]: where n's main thread is
    heard,      \* heard[n]: InitHandler::nodes, the senders seen so far
    imsg,       \* Init datagrams in flight, as <<sender, target>>
    bmsg,       \* bmsg[n]: Barrier datagrams in flight to n
    received,   \* received[n]: BarrierHandler::received
    local,      \* local[n]: BarrierHandler::local
    wpc,        \* wpc[n][w]: where worker w of node n is
    mywait,     \* mywait[n][w]: the value local.fetch_add gave worker w
    arrive1,    \* arrive1[n]: threads arrived at the first pthread barrier
    arrive2,    \* arrive2[n]: threads arrived at the second one
    entered,    \* entered[n]: node barriers n has sent its messages for
    left        \* left[n]: node barriers n has passed

vars == <<up, mpc, heard, imsg, bmsg, received, local, wpc, mywait,
          arrive1, arrive2, entered, left>>

Init ==
    /\ up = [n \in Node |-> FALSE]
    /\ mpc = [n \in Node |-> "down"]
    /\ heard = [n \in Node |-> {}]
    /\ imsg = {}
    /\ bmsg = [n \in Node |-> 0]
    /\ received = [n \in Node |-> 0]
    /\ local = [n \in Node |-> 0]
    /\ wpc = [n \in Node |-> [w \in Worker |-> "none"]]
    /\ mywait = [n \in Node |-> [w \in Worker |-> 0]]
    /\ arrive1 = [n \in Node |-> 0]
    /\ arrive2 = [n \in Node |-> 0]
    /\ entered = [n \in Node |-> 0]
    /\ left = [n \in Node |-> 0]

-----------------------------------------------------------------------------
(* Main thread                                                              *)

\* The process starts: UDPCommunicator binds its socket, MessageHandler
\* starts the receiver thread, and the Database constructor enters
\* init.wait().
Start(n) ==
    /\ mpc[n] = "down"
    /\ up' = [up EXCEPT ![n] = TRUE]
    /\ mpc' = [mpc EXCEPT ![n] = "init"]
    /\ UNCHANGED <<heard, imsg, bmsg, received, local, wpc, mywait, arrive1,
                   arrive2, entered, left>>

\* UDPCommunicator::send of one datagram per node: sendto succeeds whether
\* or not the target's socket is bound; an unbound target drops it.
Reached(targets) == {d \in targets : up[d]}

\* Mutant: a node that was done leaves without the last round of Inits.
InitRoundNoFinal(n) ==
    /\ mpc[n] = "init"
    /\ imsg' = IF heard[n] = Node THEN imsg
              ELSE imsg \cup {<<n, d>> : d \in Reached(Node)}
    /\ mpc' = [mpc EXCEPT ![n] = IF heard[n] = Node THEN "send1" ELSE "init"]
    /\ UNCHANGED <<up, heard, bmsg, received, local, wpc, mywait, arrive1,
                   arrive2, entered, left>>

\* Mutant: a node is taken to be done when it has heard from all but one.
InitRoundEarly(n) ==
    /\ mpc[n] = "init"
    /\ imsg' = imsg \cup {<<n, d>> : d \in Reached(Node)}
    /\ mpc' = [mpc EXCEPT ![n] = IF Cardinality(heard[n]) >= N - 1
                                 THEN "send1" ELSE "init"]
    /\ UNCHANGED <<up, heard, bmsg, received, local, wpc, mywait, arrive1,
                   arrive2, entered, left>>

\* One pass of InitHandler::wait: done is read first, then an Init goes to
\* every node (itself included) "one more time, even after we received
\* all"; a node that was done leaves, the others sleep 100 ms and loop.
InitRound(n) ==
    /\ mpc[n] = "init"
    /\ imsg' = imsg \cup {<<n, d>> : d \in Reached(Node)}
    /\ mpc' = [mpc EXCEPT ![n] = IF heard[n] = Node THEN "send1" ELSE "init"]
    /\ UNCHANGED <<up, heard, bmsg, received, local, wpc, mywait, arrive1,
                   arrive2, entered, left>>

\* BarrierHandler::wait, first half: a Barrier message to every node.
BarrierSend(n) ==
    /\ bmsg' = [d \in Node |-> IF d \in Reached(Node) THEN bmsg[d] + 1 ELSE bmsg[d]]
    /\ entered' = [entered EXCEPT ![n] = @ + 1]

\* Mutant: the spin stops one message early.
BarrierWaitEarly(n) ==
    /\ received[n] >= N - 1
    /\ received' = [received EXCEPT ![n] = @ - N]
    /\ local' = [local EXCEPT ![n] = 0]
    /\ left' = [left EXCEPT ![n] = @ + 1]

\* BarrierHandler::wait, second half: spin until received reaches
\* num_nodes, then local.store(0) and received.fetch_sub(num_nodes).
BarrierWait(n) ==
    /\ received[n] >= N
    /\ received' = [received EXCEPT ![n] = @ - N]
    /\ local' = [local EXCEPT ![n] = 0]
    /\ left' = [left EXCEPT ![n] = @ + 1]

\* wait_nodes() from the main thread: after loading, and after the join.
MainBarrierSend(n) ==
    /\ mpc[n] \in {"send1", "send3"}
    /\ BarrierSend(n)
    /\ mpc' = [mpc EXCEPT ![n] = IF @ = "send1" THEN "wait1" ELSE "wait3"]
    /\ UNCHANGED <<up, heard, imsg, received, local, wpc, mywait, arrive1,
                   arrive2, left>>

MainBarrierWait(n) ==
    /\ mpc[n] \in {"wait1", "wait3"}
    /\ BarrierWait(n)
    /\ mpc' = [mpc EXCEPT ![n] = IF @ = "wait1" THEN "spawn" ELSE "done"]
    /\ UNCHANGED <<up, heard, imsg, bmsg, wpc, mywait, arrive1, arrive2,
                   entered>>

\* The worker threads are created, then joined.
Spawn(n) ==
    /\ mpc[n] = "spawn"
    /\ wpc' = [wpc EXCEPT ![n] = [w \in Worker |-> "add"]]
    /\ mpc' = [mpc EXCEPT ![n] = "join"]
    /\ UNCHANGED <<up, heard, imsg, bmsg, received, local, mywait, arrive1,
                   arrive2, entered, left>>

Join(n) ==
    /\ mpc[n] = "join"
    /\ \A w \in Worker : wpc[n][w] = "exit"
    /\ mpc' = [mpc EXCEPT ![n] = "send3"]
    /\ UNCHANGED <<up, heard, imsg, bmsg, received, local, wpc, mywait,
                   arrive1, arrive2, entered, left>>

-----------------------------------------------------------------------------
(* Worker threads: BarrierHandler::wait_workers                            *)

SetW(n, w, p) == [wpc EXCEPT ![n][w] = p]

\* my_wait = local.fetch_add(1).
WorkerAdd(n, w) ==
    /\ wpc[n][w] = "add"
    /\ mywait' = [mywait EXCEPT ![n][w] = local[n]]
    /\ local' = [local EXCEPT ![n] = @ + 1]
    /\ wpc' = SetW(n, w, "arrive1")
    /\ UNCHANGED <<up, mpc, heard, imsg, bmsg, received, arrive1, arrive2,
                   entered, left>>

\* pthread_barrier_wait(&local_barrier): arrive, then leave once all
\* num_txn_workers threads have arrived.
PthreadArrive(n, w) ==
    /\ wpc[n][w] \in {"arrive1", "arrive2"}
    /\ IF wpc[n][w] = "arrive1"
       THEN /\ arrive1' = [arrive1 EXCEPT ![n] = @ + 1]
            /\ wpc' = SetW(n, w, "pass1")
            /\ UNCHANGED arrive2
       ELSE /\ arrive2' = [arrive2 EXCEPT ![n] = @ + 1]
            /\ wpc' = SetW(n, w, "pass2")
            /\ UNCHANGED arrive1
    /\ UNCHANGED <<up, mpc, heard, imsg, bmsg, received, local, mywait,
                   entered, left>>

\* Mutant: the second pthread_barrier_wait is left out, so the threads
\* that did not run the node barrier start at once.
PthreadPassNoSecond(n, w) ==
    /\ \/ wpc[n][w] = "pass1" /\ arrive1[n] = W
          /\ wpc' = SetW(n, w, IF mywait[n][w] = 0 THEN "send2" ELSE "run")
       \/ wpc[n][w] = "pass2" /\ arrive2[n] = W
          /\ wpc' = SetW(n, w, "run")
    /\ UNCHANGED <<up, mpc, heard, imsg, bmsg, received, local, mywait,
                   arrive1, arrive2, entered, left>>

\* Mutant: the my_wait == 0 test is lost and every worker runs the node
\* barrier.
PthreadPassAllLead(n, w) ==
    /\ \/ wpc[n][w] = "pass1" /\ arrive1[n] = W
          /\ wpc' = SetW(n, w, "send2")
       \/ wpc[n][w] = "pass2" /\ arrive2[n] = W
          /\ wpc' = SetW(n, w, "run")
    /\ UNCHANGED <<up, mpc, heard, imsg, bmsg, received, local, mywait,
                   arrive1, arrive2, entered, left>>

\* Leaving the first barrier, only the thread whose my_wait is 0 runs the
\* node barrier; leaving the second, every worker starts its transactions.
PthreadPass(n, w) ==
    /\ \/ wpc[n][w] = "pass1" /\ arrive1[n] = W
          /\ wpc' = SetW(n, w, IF mywait[n][w] = 0 THEN "send2" ELSE "arrive2")
       \/ wpc[n][w] = "pass2" /\ arrive2[n] = W
          /\ wpc' = SetW(n, w, "run")
    /\ UNCHANGED <<up, mpc, heard, imsg, bmsg, received, local, mywait,
                   arrive1, arrive2, entered, left>>

WorkerBarrierSend(n, w) ==
    /\ wpc[n][w] = "send2"
    /\ BarrierSend(n)
    /\ wpc' = SetW(n, w, "wait2")
    /\ UNCHANGED <<up, mpc, heard, imsg, received, local, mywait, arrive1,
                   arrive2, left>>

WorkerBarrierWait(n, w) ==
    /\ wpc[n][w] = "wait2"
    /\ BarrierWait(n)
    /\ wpc' = SetW(n, w, "arrive2")
    /\ UNCHANGED <<up, mpc, heard, imsg, bmsg, mywait, arrive1, arrive2,
                   entered>>

\* txn_executor runs the worker's transactions and the thread returns.
Execute(n, w) ==
    /\ wpc[n][w] = "run"
    /\ wpc' = SetW(n, w, "exit")
    /\ UNCHANGED <<up, mpc, heard, imsg, bmsg, received, local, mywait,
                   arrive1, arrive2, entered, left>>

-----------------------------------------------------------------------------
(* MessageHandler thread: handle(Init) and handle(Barrier)                 *)

\* InitHandler::handle: nodes.at(sender) = true.
HandleInit(n, s) ==
    /\ <<s, n>> \in imsg
    /\ imsg' = imsg \ {<<s, n>>}
    /\ heard' = [heard EXCEPT ![n] = @ \cup {s}]
    /\ UNCHANGED <<up, mpc, bmsg, received, local, wpc, mywait, arrive1,
                   arrive2, entered, left>>

\* BarrierHandler::handle: received.fetch_add(1).
HandleBarrier(n) ==
    /\ bmsg[n] > 0
    /\ bmsg' = [bmsg EXCEPT ![n] = @ - 1]
    /\ received' = [received EXCEPT ![n] = @ + 1]
    /\ UNCHANGED <<up, mpc, heard, imsg, local, wpc, mywait, arrive1,
                   arrive2, entered, left>>

-----------------------------------------------------------------------------
MainStep(n) ==
    \/ Start(n) \/ InitRound(n) \/ MainBarrierSend(n) \/ MainBarrierWait(n)
    \/ Spawn(n) \/ Join(n)

WorkerStep(n, w) ==
    \/ WorkerAdd(n, w) \/ PthreadArrive(n, w) \/ PthreadPass(n, w)
    \/ WorkerBarrierSend(n, w) \/ WorkerBarrierWait(n, w) \/ Execute(n, w)

\* The receiver thread polls the socket (MSG_DONTWAIT) and handles what
\* it gets; it runs from Start on.
HandlerStep(n) == up[n] /\ (\E s \in Node : HandleInit(n, s) \/ HandleBarrier(n))

Done == \A n \in Node : mpc[n] = "done"

\* Every process has returned from its benchmark: it may stop.
Terminated == Done /\ UNCHANGED vars

Next ==
    \/ \E n \in Node : MainStep(n) \/ HandlerStep(n)
    \/ \E n \in Node, w \in Worker : WorkerStep(n, w)
    \/ Terminated

\* The operator eventually starts every process, and every thread is an
\* OS thread that sleeps or spins while it waits and keeps being
\* scheduled, so each step that stays enabled is eventually taken.  The
\* socket hands datagrams to recv() in arrival order, so a pending Init is
\* received however often others are resent: fairness is per message.
Fairness ==
    /\ \A n \in Node : WF_vars(MainStep(n))
    /\ \A n, s \in Node : WF_vars(up[n] /\ HandleInit(n, s))
    /\ \A n \in Node : WF_vars(up[n] /\ HandleBarrier(n))
    /\ \A n \in Node, w \in Worker : WF_vars(WorkerStep(n, w))

Spec == Init /\ [][Next]_vars
FairSpec == Spec /\ Fairness

-----------------------------------------------------------------------------
(* Properties                                                               *)

MainPhases == {"down", "init", "send1", "wait1", "spawn", "join", "send3",
               "wait3", "done"}
WorkerPhases == {"none", "add", "arrive1", "pass1", "send2", "wait2",
                 "arrive2", "pass2", "run", "exit"}

TypeOK ==
    /\ mpc \in [Node -> MainPhases]
    /\ wpc \in [Node -> [Worker -> WorkerPhases]]
    /\ heard \in [Node -> SUBSET Node]
    /\ imsg \subseteq Node \X Node
    /\ bmsg \in [Node -> Nat]
    /\ received \in [Node -> Nat]
    /\ left \in [Node -> 0..3] /\ entered \in [Node -> 0..3]

\* A node leaves InitHandler::wait only when every node of the cluster has
\* bound its socket, so no Barrier or tuple message it sends from then on
\* can be dropped, although the Inits of nodes started late were lost.
InitSound ==
    \A n \in Node : mpc[n] \notin {"down", "init"} => \A m \in Node : up[m]

\* The counting barrier is a barrier: no node passes its k-th
\* BarrierHandler::wait before every node has entered its k-th, although
\* received is one counter for all rounds and a fast node's next-round
\* message can be counted in the current round.
BarrierSafe == \A n, m \in Node : left[n] <= entered[m]

\* wait_workers starts the workload together: no worker thread of any
\* node runs its transactions before every worker of every node has
\* reached wait_workers (its transactions are generated).
WorkersStartTogether ==
    \A n, m \in Node, w, v \in Worker :
        wpc[n][w] \in {"run", "exit"} => wpc[m][v] \notin {"none", "add"}

\* Whatever order the processes are started in, and however many Inits
\* are lost to nodes that are not up yet, every node eventually gets
\* through init, all three barriers and its workload.
Termination == <>Done
=============================================================================
