# TLA+ models of the p4db execution engine

These modules model the transactional core of p4db (`src/src/`). That core consists of:

- worker threads that run transactions;
- one message-handler thread per node;
- the per-row lock disciplines NO_WAIT and WAIT_DIE;
- the undo log that releases locks at commit and rollback;
- the request/response protocol that locks rows held by other nodes;
- the Init handshake and the counting barrier that start and pace a run;
- the memory pool behind the lock lists;
- the declustered layout that places hot tuples on the switch, and its simulator;
- the switch transactions of YCSB, SmallBank and TPC-C.

Every module is translated from the C++ source. `PROJECT.json` maps each definition to the lines it models.

## The system and how its parts interact

| Part | Source | State it keeps | Operations |
|---|---|---|---|
| Row lock | `table/concurrency_control/{no_wait,wait_die}.hpp`, `datastructures/linked_list.hpp` | `lock_type`, `owner_cnt`; for WAIT_DIE also the owners list (ascending ts) and the waiters list (descending ts). Each row has its own `std::mutex`. | `local_lock`, `remote_lock`, `local_unlock`, `remote_unlock` |
| Table | `table/table.hpp` | An array of rows; the atomic `size`. | `get`, `put`, `remote_get`, `remote_put`, `insert` |
| Partitioning | `table/partition.hpp` | None. | `location(key)` gives the owning node. |
| Transaction | `db/transaction.hpp` | `ts`, the undo log, a per-transaction arena. | `execute`, `read`, `write`, `insert`, `atomic`, `commit`, `rollback`, and `txn_executor` (runs a list of transactions with no retry). |
| Timestamps | `db/ts_factory.hpp` | The worker's start time. | `get() = (ns << 16) \| (node << 8 \| tid)` |
| Undo log | `db/undolog.{hpp,cpp}` | The actions, in issue order. | `clear`: local actions unlock in place; remote actions send a TuplePutReq and count it; then wait until every TuplePutRes is back. |
| Switch bridge | `db/transaction.hpp` (`atomic`), `benchmarks/*/txn/switch.cpp`, `benchmarks/*/switch.hpp` | Per worker, a `*SwitchInfo` with its layout. | `make_txn` encodes a transaction as an instruction program for the switch; `parse_txn` decodes the reply. |
| Init and Barrier | `comm/handlers/{init,barrier}.{cpp,hpp}`, `db/database.hpp`, `benchmarks/ycsb/ycsb.cpp` | `InitHandler::nodes`; `BarrierHandler::received` and `local`; one pthread barrier per node, passed twice. | `InitHandler::wait` (send an Init to every node each round, and one more round after all are heard), `BarrierHandler::wait_nodes`/`wait_workers`, both `handle`s. |
| Message handler | `comm/msg_handler.cpp`, `comm/handlers/tuple_put_res.cpp`, `db/future.hpp` | `next_id` (64-bit); `open_futures` (a StupidHashMap from msg id to future); per-worker put-response counters. | `handle` for TupleGetReq/Res, TuplePutReq/Res and SwitchTxn; the `TupleFuture::get` spin. |

### How the parts interact

A worker's `read` or `write` goes one of two ways:

- **Local key:** it takes the row lock directly, under the row mutex.
- **Remote key:** it registers a future under a fresh msg id, sends a TupleGetReq to the owning node, and spins.

The owning node's handler thread runs `remote_lock` on the row. It answers at once with a TupleGetRes, which carries the tuple, or carries mode INVALID when the request fails. Under WAIT_DIE it may instead park the request in the waiter list.

A later `local_unlock` drains the waiters. That unlock may run on a worker thread (local commit) or on a handler thread (a TuplePutReq). For each drained waiter it either sets the waiting local future or sends the parked request back as its TupleGetRes.

A failed access makes the transaction body return `rollback()` (the `check` macro). Commit and rollback both run `Undolog::clear`.

A hot transaction with `on_switch` set does not lock rows on the host. `atomic()` encodes it with `make_txn` into one SwitchTxn packet, registers a future, and sends the packet to the switch. The switch runs the program against its registers and sends the packet back. `get()` decodes the reply with `parse_txn`.

### What is hard

- Local and remote requests interleave on one row.
- Grants are made from whichever thread unlocks.
- Transactions on different nodes can form wait cycles.
- Replies arrive in any order.
- Clear must not finish before every remote unlock has been acknowledged.
- Several races sit outside any lock: NO_WAIT's early-abort test and `StructTable::insert`.

`PROJECT.json` lists the hazards at their source lines.

## Modules

| Module | Models | Role |
|---|---|---|
| `RowLock` | `no_wait.hpp`, `wait_die.hpp`, `linked_list.hpp` | Pure operators on a row record `[lock_type, owner_cnt, owners, waiters]`. Each row method is one atomic step, because it runs under the row mutex. |
| `RWLock` | the spec's row-lock promise | Abstract lock: each client holds NONE, READ or WRITE; a writer is alone. Engine instantiates it once per row (`RWK(k)`) and checks its refinement. |
| `WaitDieRow` | one WAIT_DIE row | Requesters (identified with their timestamps) call lock and unlock in every order; used to check the waiter order against the spec. |
| `Engine` | transaction, undo log, message handler, table get/put, timestamps | The composition of workers, handlers, rows, registry and network. Parameterised by `Node`, `Worker`, `NodeOf`, `Key`, `Home`, `Program`, `WorkerId`, `MaxClock` and `CCs` (the `CC_SCHEME` builds to check: `NO_WAIT`, `WAIT_DIE`, `NONE`). |
| `MC_Engine` | — | The instance for TLC: two nodes, a row at each, three workers. |
| `Startup` | `comm/handlers/{init,barrier}.{cpp,hpp}`, `db/database.hpp`, `benchmarks/ycsb/ycsb.cpp`, `comm/udp.cpp`, `comm/msg_handler.cpp` | Nodes started in any order, the Init rounds over a socket that drops datagrams to unbound ports, the three barriers of a run and the worker threads between them. |
| `MC_Startup` | — | Two nodes of two workers. |
| `TableInsert` | `StructTable::insert` | Concurrent inserts into one table. |
| `Mempool` | `db/mempools.hpp` (`FixedThreadsafeMempool`, `Cache`) | The pool behind every `LinkedList` (the WAIT_DIE owner and waiter lists): the shared `free` vector, one cache per thread, and the nodes in use. |
| `MC_Mempool` | — | Two threads, eight nodes, caches of two (`CACHE_SIZE` scaled down from 64). |
| `DeclusteredLayout` | `declustered_layout/*.cpp` | The layout pipeline that decides which hot tuples go to which switch stage: `add_sample`, `GraphMaxCut::part` with `split`, `Partitioning`, `GraphTopoSort::setup` and `tsort`, and `compute_layout`. |
| `MC_DeclusteredLayout` | — | Four tuples and three sampled chain transactions (two of them point in opposite directions, so cycles are possible), 4 partitions, `REG_SIZE` 2. |
| `SwitchTxn` | `benchmarks/{ycsb,smallbank,tpcc}/txn/switch.cpp`, `benchmarks/{ycsb,smallbank,tpcc}/switch.hpp`, `atomic` in `db/transaction.hpp`, `ycsb/txn/multi.cpp`, `smallbank/txn/*.cpp`, `tpcc/txn/{new_order,payment}.cpp`, `tpcc/tpcc.cpp` | The switch path of YCSB multi-op, SmallBank and TPC-C transactions: the generators, the multi-pass planning of YCSB and NewOrder, the YCSB packet bytes and `parse_txn`, SmallBank's six encoders and host bodies, TPC-C's two encoders, its initial rows and the host-path updates the switch replaces, and the switch (from the spec and the encoders' comments). |
| `MC_SwitchTxn` | — | Two workers. YCSB: three ops per transaction over hot ids 0..2, two register stages (`NUM_OPS` 8 and `NUM_REGS` 20 scaled down). SmallBank: customers 0 and 1, every account at 500. TPC-C: warehouses 0 and 1 of one district, items 0..2, two stock stages, hot stock rows (0,0), (0,2) and (1,0), NewOrders of one or two lines of quantity 5 on stock that starts at 15, payments of 100. Registry: two buckets of four slots. |

### Engine's state and actions

**Worker state.** Each worker has a program counter `pc`, which is one of:

- `idle`: between transactions;
- `exec`: at an access;
- `wait`: spinning in `TupleFuture::get`;
- `clear`: in `Undolog::clear`.

It also has `txn`/`step` (its position in `Program`), `ts`, `log` (the undo log), `cl` (the next action `clear` handles) and `fut` (the future it waits on).

**Node state.**

- `open_futures[n]` and `next_id[n]` are the handler's registry and counter.
- `putcnt[w]` is `TuplePutResHandler::counts[tid]`.
- `rows[k]` is the row lock of key `k`.
- `net` is the set of packets in flight: reliable and unordered, each delivered once.
- `fault` collects the fatal exceptions the code throws: `tuple not set`, `UndoException`, `Key not found`.
- `held[w]` counts the TupleGetRes packets that `w`'s futures keep. `handle(TupleGetRes)` leaves the packet in the future "to be cleaned up in undo-log"; `Remote::clear` turns it into the TuplePutReq.
- `cc` is the `CC_SCHEME` the build was compiled with, chosen once from `CCs`. `LockOutcome`, `LockGrant` and `RowUnlock` dispatch on it to NO_WAIT's or WAIT_DIE's row operators in `RowLock`, or to `Row<NONE>`, which grants everything and never changes. `AddToLog` is the `if constexpr (CC_SCHEME != NONE)` around every `log.add_*`: the NONE build keeps no undo log.

**Worker actions.** They follow `TransactionBase`:

- `Begin` (`execute`)
- `LocalGrant`, `LocalWait` and `LocalDie` (the local path of `read`/`write`)
- `RemoteRequest`, `Resume` and `ResumeFailed` (the remote path and `TupleFuture::get`)
- `ClearLocal`, `ClearRemote` and `ClearRemoteFailed` (`Write`/`Read`/`Remote::clear`)
- `Commit` and `Rollback` (`commit()` and `rollback()`, inside the access step that ends the body)
- `Finish` (the end of `Undolog::clear`; `txn_executor` moves on to the next transaction whether it committed or rolled back)
- `Spin` (a worker busy-waiting; it changes nothing)

**Handler actions.** `HandleGetReq`, `HandleGetRes`, `HandlePutReq` and `HandlePutRes` are the four `MessageHandler::handle` overloads. Each does the whole of its handler, including the row call and the reply it sends. `HandleGetReq` goes through `RemoteGet` (`StructTable::remote_get`) to the scheme's `remote_lock` (`NWRemoteLock`, `WDRemoteLock`, or `Row<NONE>`'s), and `HandlePutReq` through `RemotePut` (`remote_put` and `remote_unlock`).

**Abstractions.**

- Tuples and values are not modelled; only locks are.
- A program is a sequence of transactions. Each transaction is a sequence of `[key, mode]` accesses, checked one at a time, as in `ycsb/txn/multi.cpp`.
- A timestamp is `clock * |Worker| + WorkerId[w]`, with the clock any value in `1..MaxClock`. This keeps what the code guarantees: timestamps are unique across workers, but their order across workers is arbitrary. `high_resolution_clock` is `system_clock` in libstdc++ and may step back, so the model does not assume a worker's timestamps increase.
- NO_WAIT's test of `lock_type` outside the mutex may read a stale value. `LocalDie` may therefore abort a NO_WAIT request that the row would grant.

### Mempool's state and actions

`free` is the shared vector (its back is the last element), `cache[t]` is thread `t`'s `Cache` (its top is the last element), and `used` holds the nodes the lists hold. `AllocateCached`, `AllocateRefill` and `Deallocate` are the branches of `allocate` and `deallocate`. Each is one step: a cache is touched only by its own thread, and `free` only under the SpinLock. `AllocateUnderflow` is the refill when `free` holds at most `CACHE_SIZE` nodes. The code does not check for this case; it reads and pops an empty vector, which is undefined behaviour, so the model stops there. A node freed on another thread than the one that allocated it moves between caches, as list nodes do when another thread unlocks the row.

### DeclusteredLayout's state and actions

The pipeline runs once: `phase` goes from `sample` through `part`, `setup`, `topo`, `remap` and `assign` to `done`. It ends in `failed` when the code throws (`err` names the exception), and in `ub` when it indexes a vector out of bounds.

- `g` is the sampled graph: undirected edges as sets of two tuples, directed weights, and dangling tuples.
- `queue` and `parts` are `graph_queue` and the leaf partitionings of `GraphMaxCut::part`.
- `part` is the combined `Partitioning`.
- `topo` and `top_order` are the topology graph and the order `tsort` returns.
- `loc` holds the register slots.
- `cut1` records the first cut; it is history only, read by `HierarchicalBisection`.

The external solvers are programs whose output the code reads back: `rmaxcut` and MQLib for the max cut, and `tightCutWeighted` for the edges to delete. The model lets each of them return any answer of the right shape:

- `PartStep` takes any spin per solver node;
- `TopoTight` removes any subset of the topology edges.

So every property is checked for every cut the solvers could print.

After a layout is `done`, `Simulate` runs `SwitchSimulator::process` over the sampled transactions (`sampled`, in sample order). For each it counts the accesses per stage (`RegHist`), records the busiest stage's count as the number of passes (`SimPasses`), and collects the dependencies whose source stage is not below their target's (`SimViolated`). It throws on more than `MAX_ACCESSES` accesses or an id outside the layout, and an empty transaction is undefined behaviour (`sim_ub`). `pid0` keeps the partition of each tuple before the remap, so the simulator's verdict can be compared with the topology graph. The unordered containers are iterated in ascending tuple id (`Ascending`), which is one of the orders the code can see.

### Startup's state and actions

Each node has a main thread (`mpc`), worker threads (`wpc`) and a handler thread.

- `Start(n)` binds the socket (`up`) and enters `InitHandler::wait`. The operator starts nodes in any order.
- `InitRound(n)` is one pass of the wait loop. It reads `done` first, sends an Init to every node, and leaves if `done` was true. Datagrams to a node that is not up are lost (`Reached`); UDP reports no error.
- `MainBarrierSend`/`MainBarrierWait` are the two `wait_nodes()` of the main thread, after loading and after the join. `Spawn` and `Join` create and join the workers.
- Workers run `wait_workers`: `WorkerAdd` (`local.fetch_add`), `PthreadArrive`/`PthreadPass` (the pthread barrier, twice), and, for the worker whose `my_wait` was 0, `WorkerBarrierSend`/`WorkerBarrierWait`. `Execute` is the workload.
- `HandleInit` and `HandleBarrier` are the handler cases. `received` is one counter for all three barrier rounds, and `wait` subtracts `num_nodes` from it on the way out.
- `entered` and `left` count the node barriers each node has entered and passed; they are history only.

### SwitchTxn's state and actions

Each worker is `idle`, `sent`/`sb_sent`/`tp_sent` (its YCSB, SmallBank or TPC-C packet is at the switch), `replied`/`sb_replied`/`tp_replied` (the switch has answered; the worker still spins in `get_pkt`), or `crashed` (`insert` threw `Bucket full`). A worker runs a transaction of any of the workloads. A node runs one workload at a time, but the workloads share nothing on the switch.

The node's future registry is shared by all workloads:

- `next_id` is `MessageHandler::next_id`. `ht[b][i]` is slot `i` of bucket `b` of `open_futures`: `NUM_FUTURES` buckets of `NUM_SLOTS` entries `[k, v]`, where `v` names the worker whose future the slot holds, or `NoFuture` (nullptr). `myid[w]` is the msg_id of `w`'s packet, `wire` holds the switch's replies not yet handled, and `got[w]` is the owner of the packet `set_pkt` gave `w`'s future.
- Every `*Atomic` action ends in `SetNewId`, the tail of `atomic()`: `set_new_id` (`NextId`), `add_future`'s `insert` into the first free slot of the id's bucket (`FreeSlots`; none free throws `Bucket full` and sets `fault`), and the send. Every `*SwitchRun` adds the reply to `wire` (`Reply`).
- `HandleSwitchTxn` is `MessageHandler::handle(SwitchTxn)`: `Erase` takes the first slot of the bucket whose `k` is the reply's id and exchanges its `v` with nullptr; the future gets the packet. A missing id (`Key not found`, rethrown) or a null `v` sets `fault`.
- Every commit action starts with `FutureGet`, `SwitchFuture::get`: it waits until its future has a packet.

YCSB:

- `Atomic(w)` draws a transaction from `Args`: `NUM_OPS` distinct hot ids, each a READ or a WRITE. It stores `MakeTxn` of it in `req[w]`.
- `MakeTxn` follows `make_txn(MultiOp)` step by step:
  - `UniqInstr` numbers each access by its occurrence in its stage (`cntr[stage]++`);
  - `Accesses` sorts by (occurrence, stage);
  - `IsConflict` sets the stop bit when a stage is not above the previous one;
  - the header gets `multipass` and the lock bits only when there is a conflict.
- `SwitchRun(w)` is the switch. The P4 program is not in the repository, so the spec's description is modelled: the switch applies the packet in one step, instruction by instruction. A READ puts the register's value in the data field; a WRITE stores the data field. The ghost `kv` keeps the last value written per tuple, and `seen[w]` keeps `kv` as the switch found it.
- `GetAndCommit(w)` runs `parse_txn` over the bytes of the packet its future got (`Bytes(reply[got[w]])`) and commits. `Bytes` is the packed big-endian layout of `info_t`, the `instr_t`s and the closing STOP, so a read at the wrong offset returns the bytes the code would see.

SmallBank:

- `SBAtomic(w)` draws a hot transaction from `SBArgs` (the generator's six types and amounts; the two customers of Amalgamate and SendPayment differ) and stores `SBMakeTxn` of it in `sbReq[w]`.
- `SBMakeTxn` is the six `make_txn` overloads. `SBLoc` is `get_location`. It returns a reference to the layout's member `tl`, and Amalgamate and SendPayment bind two such references with `auto&`. `SBLocRefs` models that: every reference holds the location of the last call.
- `SBSwitchRun(w)` applies the packet to `sbReg` (an account per register slot) with `SBApply`. The switch's SmallBank instructions are taken from the comments in `smallbank/switch.hpp`, `txn/switch.cpp` and `switch_src/03_tests/smallbank.cpp`. The ghost `sbAbs` applies the transaction's host body (`SBHost`: `amalgamate.cpp`, `send_payment.cpp`, ...) to the customers' balances in the same order.
- `SBGetAndCommit(w)` commits, or rolls back a SendPayment whose reply starts with ABORT; the switch path has no undo to run.

TPC-C:

- `TPNewOrderAtomic(w)` draws a NewOrder from `TPNewOrderArgs`, as `tpcc_worker` builds it. It has one or more lines, each with a distinct (item, supply warehouse) pair, sorted by item. The action stores `TPMakeNewOrder` of it in `tpReq[w]`. That is YCSB's planner over `Stock::pk(supply_w, i_id)`. Each line becomes a `NO_STOCK(stage)` with the uint16 slot, the quantity and `is_remote` = 1, and `NEW_ORDER` with the district key comes last.
- `TPPaymentAtomic(w)` draws a Payment and stores `TPMakePayment` of it. That is one `PAYMENT` with the uint16 warehouse and district keys and `get_h_amount`, the low 32 bits of the int64 amount (`TPLow32`).
- `TPSwitchRun(w)` applies the packet to `tpReg`, following the register comment at the top of `tpcc/txn/switch.cpp`:
  - stock slots get `s_ytd`, the TPC-C `s_quantity` rule, `s_order_cnt` and `s_remote_cnt += is_remote`;
  - districts get `d_next_o_id` + 1 and `d_ytd`;
  - warehouses get `w_ytd`.
  The ghost `tpAbs` applies the host path of the same transaction (`TPHost`: `new_order.cpp` 108-134 with `on_switch` false, `payment.cpp` 104-105). It keeps rows by (warehouse, item) and (warehouse, district).
- `TPNewOrderCommit(w)` and `TPPaymentCommit(w)` are the rest of each body after `get()`. Payment's history insert is kept in `tpHist` with the full amount, as the history table keeps it; conditions 8 and 9 sum the history.

## Runs

| Run | Config | Expect | What it shows |
|---|---|---|---|
| `engine` | `MC_Engine.cfg` | pass | Three workers (w1 and w3 on n1, w2 on n2) over k1@n1 and k2@n2, for the NO_WAIT and the WAIT_DIE build (`CCs`). w1 reads k1 then writes k2 while w2 reads k2 then writes k1: a cross-node wait cycle that only failing (NO_WAIT) or dying (WAIT_DIE) breaks.<br>• `NoFault`: no `tuple not set`, `UndoException` or `Key not found` is thrown.<br>• `LeakFree`: when every worker is done, every row is empty and no packet, future, put response or held reply packet is left.<br>• `FutureSingleResolution`: every open future belongs to a worker spinning on it, and exactly one request or reply with its msg id is under way, in the network or parked in a waiter list.<br>• `WaitDieOrder` and `NoStrandedWaiter`: `Row::invariant()` holds on every row, and no waiter sits behind a row with no owner.<br>• `RowLockRefinement`: each row, seen through the undo logs of the transactions that got their tuple, refines `RWLock` (`INSTANCE RWLock WITH holder <- HolderOf(k)`).<br>• `Termination`: every worker runs through its program. |
| `engine_none_leak` | `MC_Engine_None.cfg` | violation | `LeakFree` fails for the NONE build. `read`/`write` do not log remote accesses (`transaction.hpp:151`, `208`), so the TupleGetRes packet a future keeps is never freed or sent back, and a remote write never reaches its owner. |
| `waitdie_order` | `WaitDieRowOrder.cfg` | violation | `OldestWaiterServedFirst`, taken from spec §4.1, fails. The code keeps waiters youngest first (`Waiter::operator<` is `ts > other.ts`) and grants from the head. |
| `table_insert_race` | `TableInsert.cfg` | violation | `InsertWithinCapacity` fails: two threads pass `size >= max_size` with one slot left, and one of them gets index `max_size`. |
| `mempool` | `MC_Mempool.cfg` | pass | • `NodeConservation`: across `free`, the caches and the lists, every node is in exactly one place, while nodes migrate between threads.<br>• `UnderflowOnlyAtSizingBound`: `allocate` can only run `free` dry once the lists hold at least `|Node| - |Thread| * CACHE_SIZE` nodes. This is the sizing rule the pool needs. |
| `mempool_exhaust` | `MC_MempoolExhaust.cfg` | violation | `ExhaustedOnlyWhenAllUsed` fails: t1 allocates four nodes over two refills and keeps two more in its cache, then t2 pops an empty `free` with 4 of 8 nodes in use, two in t1's cache and two in `free` (`mempools.hpp:100`). That is the earliest underflow `UnderflowOnlyAtSizingBound` allows: 8 - 2 threads x `CACHE_SIZE` 2. |
| `layout` | `MC_DeclusteredLayout.cfg` | pass | For every cut the solver may print:<br>• `PartitionSucceeds`: `part` puts every tuple in one of the 4 partitions.<br>• `HierarchicalBisection`: side 0 of the first cut ends in the lower half of the pids.<br>• `TsortMatchesReference`: `tsort` agrees with `Graphs!IsDag` and with the definition of a topological order.<br>• `SlotsDistinct`: a completed layout gives every tuple its own register slot.<br>• `ViolatedOnlyAgainstTopology`: when `tsort` succeeded, `SwitchSimulator` counts a cross-partition dependency as violated only where the tight cut deleted its topology edge, so no kept edge is ordered backwards by the remap. |
| `layout_ordering` | `MC_DeclusteredLayoutOrdering.cfg` | violation | `OrderingInBounds` fails. A partition with no cross-partition dependency is not a node of the topology graph. `tsort` sizes `ordering` by the number of topology nodes but indexes it by partition id (`graph_toposort.cpp:240`), and `compute_layout` reads `ordering[pid]`. |
| `layout_mqlib` | `MC_DeclusteredLayoutMQLib.cfg` | violation | `PartitionSucceeds` fails under the MQLIB solver. `part_mqlib` gets a spin for every node, dangling ones included, and then inserts the dangling nodes again, so `Partitioning::insert` throws. The bug is latent in the shipped build: `compute_layout` hardcodes RMAXCUT (`declustered_layout.cpp:29-30`), so `part_mqlib` is reached only if that line is changed. |
| `switch_txn` | `MC_SwitchTxn.cfg` | pass | • `MinimalPasses`: the number of passes equals the number of accesses to the busiest stage.<br>• `SwitchReadsLatest`: every READ the switch answers returns the latest value written to that tuple, so no two hot ids share a register slot.<br>• `TPCCStockAgreesWithHost`: for every hot stock row, the switch's `s_ytd`, `s_quantity` and `s_order_cnt` are what the host path would have computed, and every district's `d_next_o_id` counts its NewOrders. `s_remote_cnt` is excluded; see the `is_remote` hazard.<br>• `RepliesReachTheirFutures`: no thread dies on the registry, and every future gets the reply to its own worker's packet: `set_new_id`, `add_future` and the send of two workers of one node, and the handler's `erase` and `set_pkt`, pair each reply with the one future registered under its id.<br>• `SBTransfersConserveMoney` (action property): each SmallBank packet the switch runs leaves the total over all accounts unchanged for Amalgamate, SendPayment (aborted or not) and Balance, adds the amount for DepositChecking and TransactSaving, and takes V or V + 1 for WriteCheck. |
| `switch_smallbank` | `MC_SwitchTxnSmallBank.cfg` | violation | `SBSwitchAgreesWithHost` fails after one Amalgamate(0, 1). `get_location` returns a reference to its member `tl`, so `make_txn(Amalgamate)`'s `tl0` and `tl1` both hold customer 1's location (`smallbank/txn/switch.cpp:26-27`). The switch empties customer 1 and refills its checking balance; customer 0 keeps its balances. The host body would have emptied customer 0 into customer 1. `make_txn(SendPayment)` has the same defect (lines 60-61). |
| `startup` | `MC_Startup.cfg` | pass | Nodes started in any order, with the Inits sent to nodes that are not up lost.<br>• `InitSound`: no node leaves `InitHandler::wait` before every node's socket is bound.<br>• `BarrierSafe`: no node passes its k-th node barrier before every node has entered it, although `received` is shared by all rounds.<br>• `WorkersStartTogether`: no worker of any node runs transactions before every worker of every node has reached `wait_workers`.<br>• `Termination`: every node gets through init, the three barriers and its workload. |

### Bounds and why they are enough

- **Engine runs** use 2 nodes, 2 keys (one at each node), 3 workers, one transaction of two accesses per worker, and `MaxClock = 3`. `engine` checks the NO_WAIT and WAIT_DIE builds in one run; `engine_none_leak` the NONE build.
- **Why these bounds:**
  - Three clock values let every relative order of three workers' timestamps occur.
  - The programs make every path happen: local and remote grant, local and remote wait, local die, remote die, grants drained by both worker and handler threads, shared readers on one row, and a cross-node read-then-write cycle.
  - Coverage shows every action firing.
- **WaitDieRow:** three timestamps give an owner with an older and a younger waiter, the smallest case in which the waiter order matters.
- **TableInsert:** capacity 2 with 1 row already used and two threads is the smallest case that shows the race.
- **Mempool:** with two threads and caches of two, each thread can hoard a full cache. Eight nodes leave room for two refills and migration in both directions. `MaxUsed` lets the lists hold one node more than the sizing bound, so the underflow case is reached.
- **DeclusteredLayout:**
  - Why four partitions: two levels of bisection, so `split` and its dangling tuples matter.
  - Why three transactions: the chains 1→2→3, 4→3→2 and 3→4→1 give dependencies in both directions between partitions, and cycles in the topology graph.
  - Why `REG_SIZE` is 2: it scales the 42-slot registers down so that the overflow throw is reachable.
  - The shipped constants (`PARTITIONS` = 42) are not a power of two, so `part` throws at once. This is listed as a hazard; the constants are marked "Intel confidential" and are likely placeholders.
- **DeclusteredLayout's simulator:** `MAX_ACCESSES` is 10 so that no sampled transaction of three accesses throws; the three chains give both kept and deleted topology edges.
- **Startup:** two nodes of two workers. Either node can start first and lose the other's Inits, a node can enter the next barrier while the other is still in the current one, and one worker of each node runs the node barrier while the other waits at the pthread barrier. Three nodes give the same cases but more than four million states.
- **SwitchTxn:** with two stages and three ops, a packet takes one, two or three passes, so both the sort and the stop rule matter. Hot ids 0..2 put two ids in stage 0, so a packet of all three needs a second pass. One write value and register value 0 are enough to tell a stale or aliased read from the latest one. Two workers let two packets wait at the switch together, and the switch runs them in either order. Each worker runs one transaction, and every packet shape occurs in its first transaction. For SmallBank, two customers are enough for every type on either order of the pair. Every account starts at 500, one payment (500) from empty. The code starts balances at 1,000,000 to 5,000,000, and WriteCheck lowers them without limit; the start of 500 stands for an account after enough checks. From it a WriteCheck empties a checking account, and a later SendPayment from it aborts on both paths. For TPC-C, two warehouses give remote lines. With three items over two stages, the hot rows (0,0) and (0,2) share stage 0, so a NewOrder of both needs a second pass. Row (1,1) is cold and also in stage 0. Stock at 15 with quantity 5 takes both branches of the `s_quantity` rule within two orders. Two workers let two NewOrders hit the same hot row, or run a Payment while the other worker runs. The registry has two buckets of four slots (`NUM_SLOTS` as in the code). The node draws ids 0 and 1, so they land in different buckets: the run checks the pairing of ids with futures across interleaved workers and handler, not bucket collisions (see Not modelled).

### Fairness

Engine's `FairSpec` assumes weak fairness for each worker's steps and for each node's handler steps.

- Workers and handlers are OS threads that spin rather than block. An enabled step of one of them is therefore eventually taken.
- `Spin` is a stuttering step, so it does not count as progress. A worker that is blocked forever makes `Termination` fail; the model does not report it as a deadlock.
- `Terminated` lets the system stop once every worker has run its program.

No fairness is assumed about which of several enabled packets a handler takes. WF on the whole handler step only requires that the handler keeps handling.

Startup's `FairSpec` adds weak fairness per Init message (`up[n] /\ HandleInit(n, s)`) and for the barrier messages of each node. The socket hands datagrams to `recv()` in arrival order, so a pending Init is received however often other nodes resend theirs; WF on the whole handler step would not say so. The operator eventually starts every process, which is the weak fairness on `MainStep`.

## Findings

`PROJECT.json` records seven: the WAIT_DIE waiter order against spec §4.1 (`waitdie_order`), the `StructTable::insert` race (`table_insert_race`), the mempool underflow (`mempool_exhaust`), the `ordering` index out of bounds (`layout_ordering`), the MQLIB double insert (`layout_mqlib`, latent while `compute_layout` hardcodes RMAXCUT), SmallBank's aliased locations (`switch_smallbank`), and the NONE build's leaked reply packets and lost remote writes (`engine_none_leak`).

Two more disagreements are recorded without a run of their own:

- **TPC-C conditions 8 and 9 on the switch path.** With `on_switch`, Payment's host updates of `w_ytd` and `d_ytd` are commented out (`payment.cpp:34-35`), and the amounts go to the switch registers. `tpcc()`'s consistency check (`tpcc.cpp` 474-500) still compares the history rows with the host columns, so it reports both conditions violated after any switch Payment. The project checks no YTD property: one stated on the switch registers would pass and hide this. `PROJECT.json` lists it as a hazard.
- **Wait-die direction.** `Row::invariant()` (`wait_die.hpp:53-65`) throws when a waiter is younger than an owner, and `can_wait` (line 89) and spec scenarios 2 and 3 agree with it. `WaitDieOrder` checks that executable form. The comment at line 58 ("waiter can wait if w.ts > o") and the Wait-Die ordering property of spec section 8 state the inverse.

## Not modelled

1. **Open-futures registry (StupidHashMap).** Engine keeps the registry of tuple gets and puts as a set. SwitchTxn models it slot by slot, but takes `insert`'s CAS and its store of `k` as one step, and draws fewer ids than buckets. The id-0 mismatch needs those two as separate steps and a second id of bucket 0 drawn while id 0 is still being inserted. `Bucket full` needs five outstanding ids of one bucket. Both would need runs of their own, and the project uses the twelve runs it has. `PROJECT.json` records both as hazards.
2. **Switch encoders and the switch.**
   - `parse_txn`'s `d_next_o_id` is not used: what the switch returns (the value before or after the increment) is not in the repository.
   - `make_txn(NewOrder)` sends `is_remote` = 1 on every line, which the code comment and the host path contradict. This is a hazard, not a run.
   - Stock keys wider than 16 bits collide in `reg_array_idx`, and the 32-bit `w_ytd` register can wrap. Both are hazards, out of the model's small key and integer range.
   - micro_recirc writes fixed instruction layouts.
   - The switch's lock halves (`info_t::locks`) and the `LM_ON_SWITCH` lock manager (off in `defs.hpp`): the P4 program is not in the repository, and the model runs each packet atomically.
   - `parse_txn(MultiOp)` does not skip `info_t`, so YCSB's decoded values are shifted by seven bytes. The values are only passed to `do_not_optimize`, so this is a hazard without a property.
   - The single read/write YCSB encoders are never reached, because `MULTI_OP_PERCENTAGE` is 100.
3. **Transport.** The DPDK device, queues, mbuf pools and statistics are configuration and I/O. The UDP handler thread's `pin_worker` dereferences a `WorkerContext` that handler threads never set (`db/util.cpp:9`); this is a crash at start-up, not a protocol state.
4. **Pure output or unused code:** statistics, configuration and `main`; the `util.hpp` size formatting; `StackPool` (its only behaviour is the overflow throw) and the unused `FixedMempool` and `HugePages(size_t)`; `Undolog::clear_last_n`; `topo_sort(FAS)` and `RANDOM` (commented out in `compute_layout`), `has_cycle` and the DOT writer; `GraphMaxCut::part` with `npart` 0 or 1.
5. **Switch control plane and tests** (`switch_src/`): Barefoot SDK calls and packet test programs.
6. **Weak memory.** The relaxed loads in `TupleFuture::wait` and `BarrierHandler::wait` are not modelled; TLC explores sequentially consistent interleavings only.
7. **Starvation under unbounded load.** In WAIT_DIE a request conflicts with the waiters only when it is older than the youngest waiter (`wait_die.hpp:74`), so a younger compatible reader is granted past an older waiting writer. Every model runs a bounded number of transactions, so the stream of readers ends and `Termination` holds; writer starvation needs an unbounded stream and is recorded as a hazard.

Most of the repository's lines are in these parts (I/O, configuration, the benchmark loaders and the switch SDK), so the map covers about 19% of the implementation.
