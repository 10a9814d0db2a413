------------------------------- MODULE Engine -------------------------------
(***************************************************************************)
(* The transactional execution core across nodes: worker threads running  *)
(* TransactionBase (db/transaction.hpp) with its Undolog (db/undolog.hpp/.cpp), *)
(* one MessageHandler thread per node (comm/msg_handler.cpp) with its       *)
(* open-futures registry and per-worker put-response counters, and the     *)
(* rows of a range-partitioned StructTable (table/table.hpp) locked with    *)
(* NO_WAIT or WAIT_DIE (RowLock), or not locked at all (NONE).            *)
(*                                                                         *)
(* A worker runs the transactions of Program[w] in order (txn_executor).   *)
(* A transaction is a sequence of read/write accesses, each checked at     *)
(* once: a failed access rolls back (the check(x) macro).  A key whose     *)
(* Home is the worker's node takes the local path (StructTable::get under  *)
(* the row mutex); any other key sends a TupleGetReq and spins in          *)
(* TupleFuture::get() until the handler publishes the TupleGetRes.  Commit *)
(* and rollback both run Undolog::clear: local actions unlock in place,    *)
(* remote ones send a TuplePutReq and count it; clear returns once every   *)
(* TuplePutRes has come back.                                              *)
(*                                                                         *)
(* The network is reliable and unordered: a packet is delivered once, in  *)
(* any order relative to others (UDP/DPDK without loss; the code has no    *)
(* retransmission and a lost packet stalls its sender forever).            *)
(***************************************************************************)
EXTENDS Integers, Sequences, FiniteSets, SequencesExt, RowLock

CONSTANTS
    Node,       \* database nodes (Config::num_nodes)
    Worker,     \* transaction worker threads of all nodes
    NodeOf,     \* NodeOf[w]: the node worker w runs on
    Key,        \* rows of the one partitioned table
    Home,       \* Home[k]: PartitionInfo<RANGE>::location(k).target
    Program,    \* Program[w]: sequence of transactions, each a sequence
                \*   of accesses [key |-> k, mode |-> "READ" | "WRITE"]
    WorkerId,   \* WorkerId[w]: the (node_id << 8 | tid) low bits of its ts
    MaxClock,   \* bound on the clock part (ns since the worker started)
    CCs         \* the CC_SCHEME builds to check (defs.hpp)

ASSUME CCs \subseteq {"NO_WAIT", "WAIT_DIE", "NONE"}
ASSUME WorkerId \in [Worker -> 0..(Cardinality(Worker) - 1)]
       /\ \A v, w \in Worker : WorkerId[v] = WorkerId[w] => v = w

VARIABLES
    rows,         \* rows[k]: Row lock state of key k (at node Home[k])
    net,          \* packets in flight
    open_futures, \* open_futures[n]: registered [id, w] (StupidHashMap)
    next_id,      \* next_id[n]: MessageHandler::next_id
    putcnt,       \* putcnt[w]: TuplePutResHandler::counts[tid]
    pc,           \* worker control point
    txn,          \* index of the worker's current transaction
    step,         \* index of the current access in that transaction
    ts,           \* TransactionBase::ts
    log,          \* Undolog::actions: [key, mode, remote, node, id, ok]
    cl,           \* next action Undolog::clear will clear
    fut,          \* state of the future the worker waits on
    fault,        \* fatal exceptions raised so far
    held,         \* held[w]: TupleGetRes packets kept by w's futures
    cc            \* the CC_SCHEME this build was compiled with

vars == <<rows, net, open_futures, next_id, putcnt, pc, txn, step, ts,
          log, cl, fut, fault, held, cc>>

Msg(type, src, dst, id, k, m, t, w) ==
    [type |-> type, src |-> src, dst |-> dst, id |-> id,
     key |-> k, mode |-> m, ts |-> t, w |-> w]

Access(w) == Program[w][txn[w]][step[w]]

-----------------------------------------------------------------------------
(* The configured Row<Tuple_t, CC_SCHEME>.                                  *)

\* Row<Tuple_t, NONE>: local_lock hands out the tuple, remote_lock always
\* answers with it, and both unlocks succeed; the row itself never changes.
NoneOutcome == "GRANT"
NoneUnlock(row) == [row |-> row, granted |-> <<>>, rc |-> "SUCCESS"]

\* Outcome of local_lock / remote_lock; NO_WAIT fails on any conflict.
LockOutcome(row, m, t) ==
    CASE cc = "NO_WAIT"  -> IF IsCompatible(row, m) THEN "GRANT" ELSE "DIE"
      [] cc = "WAIT_DIE" -> WDOutcome(row, m, t)
      [] cc = "NONE"     -> NoneOutcome

LockGrant(row, m, t) ==
    CASE cc = "NO_WAIT"  -> NWGrant(row, m)
      [] cc = "WAIT_DIE" -> WDGrant(row, m, t)
      [] cc = "NONE"     -> row

RowUnlock(row, m, t) ==
    CASE cc = "NO_WAIT"  -> LET r == NWUnlock(row, m)
                            IN  [row |-> r.row, granted |-> <<>>, rc |-> r.rc]
      [] cc = "WAIT_DIE" -> WDUnlock(row, m, t)
      [] cc = "NONE"     -> NoneUnlock(row)

\* `if constexpr (CC_SCHEME != NONE) log.add_*(...)`: the NONE build keeps
\* no undo log, so commit and rollback have nothing to clear.
AddToLog(w, e) ==
    IF cc = "NONE" THEN log ELSE [log EXCEPT ![w] = Append(@, e)]

\* The futures of local waiters drained by an unlock are set in place ...
GrantFutures(f, G) ==
    [w \in Worker |->
        IF \E i \in 1..Len(G) : ~G[i].remote /\ G[i].who = w THEN "ok" ELSE f[w]]

\* Mutant: a drained remote waiter's packet is never turned into a reply.
GrantPacketsLocalOnly(G, k) == {}

\* ... and each remote waiter's parked TupleGetReq becomes its TupleGetRes.
GrantPackets(G, k) ==
    {Msg("GET_RES", Home[k], G[i].node, G[i].id, k, G[i].mode, G[i].ts, G[i].who) :
        i \in {j \in 1..Len(G) : G[j].remote}}

\* UniqueClockTimestampFactory::get: (ns << 16) | (node_id << 8 | tid).  The
\* low bits make timestamps of different workers distinct; ns is read from
\* high_resolution_clock (system_clock in libstdc++, which may step back),
\* so the clock part is any value and its order against other workers'
\* timestamps is arbitrary.  2^16 is scaled down to the number of workers.
TSBase == Cardinality(Worker)
MakeTS(c, w) == c * TSBase + WorkerId[w]

-----------------------------------------------------------------------------
Init ==
    /\ rows = [k \in Key |-> EmptyRow]
    /\ net = {}
    /\ open_futures = [n \in Node |-> {}]
    /\ next_id = [n \in Node |-> 0]
    /\ putcnt = [w \in Worker |-> 0]
    /\ pc = [w \in Worker |-> "idle"]
    /\ txn = [w \in Worker |-> 1]
    /\ step = [w \in Worker |-> 1]
    /\ ts = [w \in Worker |-> MakeTS(0, w)]
    /\ log = [w \in Worker |-> <<>>]
    /\ cl = [w \in Worker |-> 1]
    /\ fut = [w \in Worker |-> "none"]
    /\ fault = {}
    /\ held = [w \in Worker |-> 0]
    /\ cc \in CCs

\* TransactionBase::commit: log.commit(ts), that is Undolog::clear (the
\* NONE build skips it, and its log is empty), then mempool.clear().
Commit(w) ==
    /\ pc' = [pc EXCEPT ![w] = "clear"]
    /\ UNCHANGED step

\* The access just checked succeeded: move to the next access, or commit
\* (the body's return commit()).
Advance(w) ==
    IF step[w] = Len(Program[w][txn[w]])
    THEN Commit(w)
    ELSE /\ pc' = [pc EXCEPT ![w] = "exec"]
         /\ step' = [step EXCEPT ![w] = @ + 1]

\* check(x) failed: return rollback(), which clears the log the same way.
Rollback(w) ==
    /\ pc' = [pc EXCEPT ![w] = "clear"]
    /\ UNCHANGED step

\* TransactionBase::execute: a fresh timestamp, then the body.
Begin(w) ==
    /\ pc[w] = "idle"
    /\ txn[w] <= Len(Program[w])
    /\ \E c \in 1..MaxClock : ts' = [ts EXCEPT ![w] = MakeTS(c, w)]
    /\ pc' = [pc EXCEPT ![w] = "exec"]
    /\ step' = [step EXCEPT ![w] = 1]
    /\ UNCHANGED <<rows, net, open_futures, next_id, putcnt, txn, log, cl,
                   fut, fault, held>>

IsLocal(w) == Home[Access(w).key] = NodeOf[w]

\* read()/write(), local key, lock granted: log.add_read/add_write, then
\* future->get() returns the tuple at once.
LocalGrant(w) ==
    /\ pc[w] = "exec" /\ IsLocal(w)
    /\ LET a == Access(w) IN
       /\ LockOutcome(rows[a.key], a.mode, ts[w]) = "GRANT"
       /\ rows' = [rows EXCEPT ![a.key] = LockGrant(@, a.mode, ts[w])]
       /\ log' = AddToLog(w, [key |-> a.key, mode |-> a.mode, remote |-> FALSE,
                              node |-> NodeOf[w], id |-> 0, ok |-> TRUE])
    /\ Advance(w)
    /\ UNCHANGED <<net, open_futures, next_id, putcnt, txn, ts, cl, fut, fault,
                   held>>

\* WAIT_DIE local_lock queued the request: the action is logged and the
\* worker spins in future->get() until an unlock grants it.
LocalWait(w) ==
    /\ pc[w] = "exec" /\ IsLocal(w)
    /\ LET a == Access(w) IN
       /\ LockOutcome(rows[a.key], a.mode, ts[w]) = "WAIT"
       /\ rows' = [rows EXCEPT ![a.key] = WDEnqueue(@,
                     [mode |-> a.mode, ts |-> ts[w], who |-> w, remote |-> FALSE,
                      node |-> NodeOf[w], id |-> 0])]
       /\ log' = [log EXCEPT ![w] = Append(@, [key |-> a.key, mode |-> a.mode,
                     remote |-> FALSE, node |-> NodeOf[w], id |-> 0, ok |-> FALSE])]
    /\ pc' = [pc EXCEPT ![w] = "wait"]
    /\ fut' = [fut EXCEPT ![w] = "pending"]
    /\ UNCHANGED <<net, open_futures, next_id, putcnt, txn, step, ts, cl, fault,
                   held>>

\* local_lock failed (NO_WAIT conflict, WAIT_DIE die): table->get returns
\* an error, read()/write() return nullptr before logging, check rolls back.
LocalDie(w) ==
    /\ pc[w] = "exec" /\ IsLocal(w)
    /\ \/ LockOutcome(rows[Access(w).key], Access(w).mode, ts[w]) = "DIE"
       \* NO_WAIT's early-abort test reads lock_type before taking the
       \* mutex: a stale value can fail a request the row would grant.
       \/ cc = "NO_WAIT"
    /\ Rollback(w)
    /\ UNCHANGED <<rows, net, open_futures, next_id, putcnt, txn, ts, log, cl,
                   fut, fault, held>>

\* Mutant: set_new_id's increment is lost (a plain read-modify-write of
\* next_id racing another worker), so two requests share a msg id.
RemoteRequestSameId(w) ==
    /\ pc[w] = "exec" /\ ~IsLocal(w)
    /\ LET a == Access(w)
           n == NodeOf[w]
           id == next_id[n]
       IN  /\ open_futures' = [open_futures EXCEPT ![n] = @ \cup {[id |-> id, w |-> w]}]
           /\ net' = net \cup {Msg("GET_REQ", n, Home[a.key], id, a.key, a.mode, ts[w], w)}
           /\ log' = AddToLog(w, [key |-> a.key, mode |-> a.mode, remote |-> TRUE,
                                  node |-> Home[a.key], id |-> id, ok |-> FALSE])
    /\ pc' = [pc EXCEPT ![w] = "wait"]
    /\ fut' = [fut EXCEPT ![w] = "pending"]
    /\ UNCHANGED <<rows, next_id, putcnt, txn, step, ts, cl, fault, held>>

\* read()/write(), remote key: TupleGetReq with a fresh msg id registered in
\* open_futures, sent to the owner, logged as a remote action, then
\* future->get() spins.
RemoteRequest(w) ==
    /\ pc[w] = "exec" /\ ~IsLocal(w)
    /\ LET a == Access(w)
           n == NodeOf[w]
           id == next_id[n]
       IN  /\ next_id' = [next_id EXCEPT ![n] = @ + 1]
           /\ open_futures' = [open_futures EXCEPT ![n] = @ \cup {[id |-> id, w |-> w]}]
           /\ net' = net \cup {Msg("GET_REQ", n, Home[a.key], id, a.key, a.mode, ts[w], w)}
           /\ log' = AddToLog(w, [key |-> a.key, mode |-> a.mode, remote |-> TRUE,
                                  node |-> Home[a.key], id |-> id, ok |-> FALSE])
    /\ pc' = [pc EXCEPT ![w] = "wait"]
    /\ fut' = [fut EXCEPT ![w] = "pending"]
    /\ UNCHANGED <<rows, putcnt, txn, step, ts, cl, fault, held>>

\* future->get() returns a tuple: the logged action now holds its lock.  A
\* remote tuple points into the TupleGetRes packet, which the future keeps.
Resume(w) ==
    /\ pc[w] = "wait" /\ fut[w] = "ok"
    /\ log' = IF cc = "NONE" THEN log
              ELSE [log EXCEPT ![w][Len(log[w])].ok = TRUE]
    /\ fut' = [fut EXCEPT ![w] = "none"]
    /\ Advance(w)
    /\ UNCHANGED <<rows, net, open_futures, next_id, putcnt, txn, ts, cl, fault,
                   held>>

\* future->get() sees mode INVALID in the TupleGetRes: EXCEPTION, nullptr,
\* rollback.  wait() frees the packet; the remote action stays in the log
\* with its failed future.
ResumeFailed(w) ==
    /\ pc[w] = "wait" /\ fut[w] = "failed"
    /\ held' = [held EXCEPT ![w] = @ - 1]
    /\ Rollback(w)
    /\ UNCHANGED <<rows, net, open_futures, next_id, putcnt, txn, ts, log, cl,
                   fut, fault>>

-----------------------------------------------------------------------------
(* Undolog::clear (commit and rollback alike)                               *)

\* Mutant: Read::clear unlocks with AccessMode::WRITE (copied from Write).
ClearLocalAsWrite(w) ==
    /\ pc[w] = "clear" /\ cl[w] <= Len(log[w])
    /\ ~log[w][cl[w]].remote
    /\ LET e == log[w][cl[w]]
           r == RowUnlock(rows[e.key], "WRITE", ts[w])
       IN  /\ rows' = [rows EXCEPT ![e.key] = r.row]
           /\ fut' = GrantFutures(fut, r.granted)
           /\ net' = net \cup GrantPackets(r.granted, e.key)
           /\ fault' = fault \cup
                  (IF e.ok THEN {} ELSE {"tuple not set in undolog clear"}) \cup
                  (IF r.rc = "SUCCESS" THEN {} ELSE {"UndoException"})
    /\ cl' = [cl EXCEPT ![w] = @ + 1]
    /\ UNCHANGED <<open_futures, next_id, putcnt, pc, txn, step, ts, log, held>>

\* Write::clear / Read::clear: table->put -> local_unlock.  A future that
\* was never set throws "tuple not set", a failed unlock UndoException.
\* The drained waiters are granted from this worker thread.
ClearLocal(w) ==
    /\ pc[w] = "clear" /\ cl[w] <= Len(log[w])
    /\ ~log[w][cl[w]].remote
    /\ LET e == log[w][cl[w]]
           r == RowUnlock(rows[e.key], e.mode, ts[w])
       IN  /\ rows' = [rows EXCEPT ![e.key] = r.row]
           /\ fut' = GrantFutures(fut, r.granted)
           /\ net' = net \cup GrantPackets(r.granted, e.key)
           /\ fault' = fault \cup
                  (IF e.ok THEN {} ELSE {"tuple not set in undolog clear"}) \cup
                  (IF r.rc = "SUCCESS" THEN {} ELSE {"UndoException"})
    /\ cl' = [cl EXCEPT ![w] = @ + 1]
    /\ UNCHANGED <<open_futures, next_id, putcnt, pc, txn, step, ts, log, held>>

\* Remote::clear whose TupleGetReq failed: future->get() is nullptr, the
\* packet was already freed, nothing to release.
ClearRemoteFailed(w) ==
    /\ pc[w] = "clear" /\ cl[w] <= Len(log[w])
    /\ log[w][cl[w]].remote /\ ~log[w][cl[w]].ok
    /\ cl' = [cl EXCEPT ![w] = @ + 1]
    /\ UNCHANGED <<rows, net, open_futures, next_id, putcnt, pc, txn, step,
                   ts, log, fut, fault, held>>

\* Mutant: putresponses.add(tid) is skipped before the send.
ClearRemoteNoAdd(w) ==
    /\ pc[w] = "clear" /\ cl[w] <= Len(log[w])
    /\ log[w][cl[w]].remote /\ log[w][cl[w]].ok
    /\ LET e == log[w][cl[w]]
       IN  net' = net \cup {Msg("PUT_REQ", NodeOf[w], e.node, e.id, e.key,
                                e.mode, ts[w], w)}
    /\ held' = [held EXCEPT ![w] = @ - 1]
    /\ cl' = [cl EXCEPT ![w] = @ + 1]
    /\ UNCHANGED <<rows, open_futures, next_id, putcnt, pc, txn, step, ts, log,
                   fut, fault>>

\* Mutant: only a remote WRITE is given back; a remote READ is dropped.
ClearRemoteWriteOnly(w) ==
    /\ pc[w] = "clear" /\ cl[w] <= Len(log[w])
    /\ log[w][cl[w]].remote /\ log[w][cl[w]].ok
    /\ LET e == log[w][cl[w]]
       IN  IF e.mode = "WRITE"
           THEN /\ net' = net \cup {Msg("PUT_REQ", NodeOf[w], e.node, e.id,
                                         e.key, e.mode, ts[w], w)}
                /\ putcnt' = [putcnt EXCEPT ![w] = @ + 1]
           ELSE UNCHANGED <<net, putcnt>>
    /\ held' = [held EXCEPT ![w] = @ - 1]
    /\ cl' = [cl EXCEPT ![w] = @ + 1]
    /\ UNCHANGED <<rows, open_futures, next_id, pc, txn, step, ts, log, fut,
                   fault>>

\* Remote::clear: the held TupleGetRes becomes a TuplePutReq (carrying the
\* tuple when WRITE) from (node, tid); putresponses.add(tid) then send.
ClearRemote(w) ==
    /\ pc[w] = "clear" /\ cl[w] <= Len(log[w])
    /\ log[w][cl[w]].remote /\ log[w][cl[w]].ok
    /\ LET e == log[w][cl[w]]
       IN  net' = net \cup {Msg("PUT_REQ", NodeOf[w], e.node, e.id, e.key,
                                e.mode, ts[w], w)}
    /\ putcnt' = [putcnt EXCEPT ![w] = @ + 1]
    /\ held' = [held EXCEPT ![w] = @ - 1]
    /\ cl' = [cl EXCEPT ![w] = @ + 1]
    /\ UNCHANGED <<rows, open_futures, next_id, pc, txn, step, ts, log, fut, fault>>

\* End of Undolog::clear: putresponses.wait(tid) spins until every
\* TuplePutRes is back; then mempool.clear() and the next execute().
Finish(w) ==
    /\ pc[w] = "clear" /\ cl[w] > Len(log[w])
    /\ putcnt[w] = 0
    /\ pc' = [pc EXCEPT ![w] = "idle"]
    /\ txn' = [txn EXCEPT ![w] = @ + 1]
    /\ log' = [log EXCEPT ![w] = <<>>]
    /\ cl' = [cl EXCEPT ![w] = 1]
    /\ fut' = [fut EXCEPT ![w] = "none"]
    /\ UNCHANGED <<rows, net, open_futures, next_id, putcnt, step, ts,
                   fault, held>>

-----------------------------------------------------------------------------
(* MessageHandler::handle on the handler thread of node m.dst               *)

\* Row<NO_WAIT>::remote_lock, under the row mutex: an incompatible request
\* is answered at once with mode INVALID; otherwise the requester joins the
\* owners and the reply carries the tuple.  Result: the row and the mode of
\* the TupleGetRes sent back.
NWRemoteLock(row, m) ==
    IF IsCompatible(row, m.mode)
    THEN [row |-> NWGrant(row, m.mode), res |-> m.mode]
    ELSE [row |-> row, res |-> "INVALID"]

\* Row<WAIT_DIE>::remote_lock: the conflict and can_wait tests of
\* local_lock; a request that may wait parks its packet in the waiter list
\* and gets no reply yet (res "NONE").
WDRemoteLock(row, m) ==
    LET o == WDOutcome(row, m.mode, m.ts)
    IN  CASE o = "GRANT" -> [row |-> WDGrant(row, m.mode, m.ts), res |-> m.mode]
          [] o = "DIE"   -> [row |-> row, res |-> "INVALID"]
          [] o = "WAIT"  ->
               [row |-> WDEnqueue(row, [mode |-> m.mode, ts |-> m.ts, who |-> m.w,
                                        remote |-> TRUE, node |-> m.src, id |-> m.id]),
                res |-> "NONE"]

\* StructTable::remote_get: the row of req->rid, then the configured
\* Row::remote_lock (Row<NONE> always answers with the tuple).
RemoteGet(row, m) ==
    CASE cc = "NO_WAIT"  -> NWRemoteLock(row, m)
      [] cc = "WAIT_DIE" -> WDRemoteLock(row, m)
      [] cc = "NONE"     -> [row |-> row, res |-> m.mode]

\* StructTable::remote_put: the row of req->rid, then Row::remote_unlock,
\* which copies a written tuple back and calls local_unlock (the same in
\* every scheme).
RemotePut(row, m) == RowUnlock(row, m.mode, m.ts)

\* handle(TupleGetReq) -> table->remote_get; the reply, if any, goes from
\* the handler back to the requester.
HandleGetReq(m) ==
    /\ m.type = "GET_REQ"
    /\ LET r == RemoteGet(rows[m.key], m)
       IN  /\ rows' = [rows EXCEPT ![m.key] = r.row]
           /\ net' = (net \ {m})
                     \cup IF r.res = "NONE" THEN {}
                          ELSE {Msg("GET_RES", m.dst, m.src, m.id, m.key, r.res, m.ts, m.w)}
    /\ UNCHANGED <<open_futures, next_id, putcnt, pc, txn, step, ts, log, cl,
                   fut, fault, held>>

\* Mutant: a failed TupleGetRes erases the future but never publishes it.
HandleGetResDropsInvalid(m) ==
    /\ m.type = "GET_RES"
    /\ LET n == m.dst
           reg == {e \in open_futures[n] : e.id = m.id}
       IN  IF reg # {}
           THEN LET e == CHOOSE x \in reg : TRUE
                IN  /\ open_futures' = [open_futures EXCEPT ![n] = @ \ {e}]
                    /\ fut' = [fut EXCEPT ![e.w] =
                                  IF m.mode = "INVALID" THEN @ ELSE "ok"]
                    /\ held' = [held EXCEPT ![e.w] = @ + 1]
                    /\ UNCHANGED fault
           ELSE /\ fault' = fault \cup {"Key not found"}
                /\ UNCHANGED <<open_futures, fut, held>>
    /\ net' = net \ {m}
    /\ UNCHANGED <<rows, next_id, putcnt, pc, txn, step, ts, log, cl>>

\* TupleGetRes: open_futures.erase(msg_id) then future->set_pkt(pkt); an id
\* without a future throws "Key not found".
HandleGetRes(m) ==
    /\ m.type = "GET_RES"
    /\ LET n == m.dst
           reg == {e \in open_futures[n] : e.id = m.id}
       IN  IF reg # {}
           THEN LET e == CHOOSE x \in reg : TRUE
                IN  /\ open_futures' = [open_futures EXCEPT ![n] = @ \ {e}]
                    /\ fut' = [fut EXCEPT ![e.w] =
                                  IF m.mode = "INVALID" THEN "failed" ELSE "ok"]
                    /\ held' = [held EXCEPT ![e.w] = @ + 1]
                    /\ UNCHANGED fault
           ELSE /\ fault' = fault \cup {"Key not found"}
                /\ UNCHANGED <<open_futures, fut, held>>
    /\ net' = net \ {m}
    /\ UNCHANGED <<rows, next_id, putcnt, pc, txn, step, ts, log, cl>>

\* handle(TuplePutReq) -> table->remote_put (the unlock's return code is
\* discarded), then the packet goes back as TuplePutRes to the sender.
HandlePutReq(m) ==
    /\ m.type = "PUT_REQ"
    /\ LET r == RemotePut(rows[m.key], m)
       IN  /\ rows' = [rows EXCEPT ![m.key] = r.row]
           /\ fut' = GrantFutures(fut, r.granted)
           /\ net' = (net \ {m})
                     \cup {Msg("PUT_RES", m.dst, m.src, m.id, m.key, m.mode, m.ts, m.w)}
                     \cup GrantPackets(r.granted, m.key)
    /\ UNCHANGED <<open_futures, next_id, putcnt, pc, txn, step, ts, log, cl, fault,
                   held>>

\* TuplePutRes: putresponses.handle(sender) decrements counts[tid].
HandlePutRes(m) ==
    /\ m.type = "PUT_RES"
    /\ putcnt' = [putcnt EXCEPT ![m.w] = @ - 1]
    /\ net' = net \ {m}
    /\ UNCHANGED <<rows, open_futures, next_id, pc, txn, step, ts, log, cl,
                   fut, fault, held>>

\* A worker spinning in TupleFuture::get() (future not yet set) or in
\* putresponses.wait() (counter not yet zero) burns cycles without changing
\* state; the step keeps a blocked worker from being mistaken for a stop.
Spin(w) ==
    /\ \/ pc[w] = "wait" /\ fut[w] = "pending"
       \/ pc[w] = "clear" /\ cl[w] > Len(log[w]) /\ putcnt[w] # 0
    /\ UNCHANGED vars

-----------------------------------------------------------------------------
\* TransactionBase::read: the location decides the local path (the row
\* lock, under which the tuple is handed out or the request queued or
\* failed) or the remote one (a TupleGetReq to the owner).
ReadAccess(w) ==
    /\ pc[w] = "exec" /\ Access(w).mode = "READ"
    /\ \/ LocalGrant(w) \/ LocalWait(w) \/ LocalDie(w) \/ RemoteRequest(w)

\* TransactionBase::write: the same two paths with AccessMode::WRITE.
WriteAccess(w) ==
    /\ pc[w] = "exec" /\ Access(w).mode = "WRITE"
    /\ \/ LocalGrant(w) \/ LocalWait(w) \/ LocalDie(w) \/ RemoteRequest(w)

WorkerStep(w) ==
    /\ \/ Begin(w) \/ ReadAccess(w) \/ WriteAccess(w)
       \/ Resume(w) \/ ResumeFailed(w)
       \/ ClearLocal(w) \/ ClearRemoteFailed(w) \/ ClearRemote(w) \/ Finish(w)
       \/ Spin(w)
    /\ UNCHANGED cc

HandlerStep(n) ==
    /\ \E m \in net :
          /\ m.dst = n
          /\ \/ HandleGetReq(m) \/ HandleGetRes(m)
             \/ HandlePutReq(m) \/ HandlePutRes(m)
    /\ UNCHANGED cc

Done == \A w \in Worker : pc[w] = "idle" /\ txn[w] > Len(Program[w])

\* Every worker has run its whole argument list: the process may stop.
Terminated == Done /\ UNCHANGED vars

Next ==
    \/ \E w \in Worker : WorkerStep(w)
    \/ \E n \in Node : HandlerStep(n)
    \/ Terminated

\* Worker threads and handler threads are OS threads that spin while they
\* wait; each keeps getting scheduled, so every step that stays enabled is
\* eventually taken.
Fairness ==
    /\ \A w \in Worker : WF_vars(WorkerStep(w))
    /\ \A n \in Node : WF_vars(HandlerStep(n))

Spec == Init /\ [][Next]_vars
FairSpec == Spec /\ Fairness

-----------------------------------------------------------------------------
(* Properties                                                               *)

Phases == {"idle", "exec", "wait", "clear"}
Entry == [key : Key, mode : Modes, remote : BOOLEAN, node : Node,
          id : Nat, ok : BOOLEAN]

TypeOK ==
    /\ pc \in [Worker -> Phases]
    /\ fut \in [Worker -> {"none", "pending", "ok", "failed"}]
    /\ log \in [Worker -> Seq(Entry)]
    /\ putcnt \in [Worker -> Nat]
    /\ \A n \in Node : open_futures[n] \subseteq [id : Nat, w : Worker]
    /\ \A k \in Key : rows[k].lock_type \in {"INVALID"} \cup Modes
    /\ fault \subseteq {"tuple not set in undolog clear", "UndoException",
                        "Key not found"}
    /\ held \in [Worker -> Nat]
    /\ cc \in CCs

\* Worker w holds key k in mode m: an action of its undo log that
\* Undolog::clear has not released yet and whose future returned a tuple.
Holds(w, k, m) ==
    \E i \in cl[w]..Len(log[w]) :
        log[w][i].ok /\ log[w][i].key = k /\ log[w][i].mode = m

\* The mode in which worker w holds row k, as its undo log says.
HolderOf(k) ==
    [w \in Worker |-> IF Holds(w, k, "WRITE") THEN "WRITE"
                     ELSE IF Holds(w, k, "READ") THEN "READ" ELSE "NONE"]

RWK(k) == INSTANCE RWLock WITH Client <- Worker, holder <- HolderOf(k)

\* Every row, as seen by the transactions that got their tuple from
\* read()/write(), behaves as the abstract read/write lock: one writer or
\* readers only at any time, whichever mix of local locking, remote
\* TupleGetReq/Res and deferred grants from unlocks got them there, and no
\* holder's mode changes until Undolog::clear releases it.
\* (The conjunction over rows of RWK(k)!Spec, written with one [] for TLC.)
RowLockRefinement ==
    /\ \A k \in Key : RWK(k)!Init
    /\ [][\A k \in Key : RWK(k)!Step \/ UNCHANGED HolderOf(k)]_vars

\* Row::invariant() on every row under the interleavings of workers and
\* handlers: waits only go from older to younger transactions.
WaitDieOrder == \A k \in Key : WDInvariant(rows[k])

\* No lost wake-up on any row: a queued local future or parked remote
\* TupleGetReq always sits behind an owner whose unlock will drain it.
NoStrandedWaiter == \A k \in Key : rows[k].waiters # <<>> => rows[k].owner_cnt > 0

\* None of the fatal exceptions is ever thrown: Undolog::clear never finds
\* an unset future or a failed unlock (UndoException), and no TupleGetRes
\* arrives for a msg_id without an open future ("Key not found").
NoFault == fault = {}

\* When every worker has finished its transactions nothing is left behind:
\* every row is unlocked with no waiters, no packet is in flight, no future
\* is open, no put response is outstanding and no TupleGetRes packet is
\* still held by a future (Undolog::clear released every lock, local and
\* remote, exactly once, and handed every packet back to the transport).
LeakFree ==
    Done => /\ \A k \in Key : rows[k] = EmptyRow
            /\ net = {}
            /\ \A n \in Node : open_futures[n] = {}
            /\ \A w \in Worker : putcnt[w] = 0
            /\ \A w \in Worker : held[w] = 0

\* Requests in flight of node n with msg id i: the TupleGetReq on its way,
\* parked in a row's waiter list, or its TupleGetRes on the way back.
InFlight(n, i) ==
    Cardinality({m \in net : m.type = "GET_REQ" /\ m.src = n /\ m.id = i})
    + Cardinality({m \in net : m.type = "GET_RES" /\ m.dst = n /\ m.id = i})
    + Cardinality(UNION {{<<k, j>> : j \in {x \in DOMAIN rows[k].waiters :
                              /\ rows[k].waiters[x].remote
                              /\ rows[k].waiters[x].node = n
                              /\ rows[k].waiters[x].id = i}} : k \in Key})

\* Each open future is resolved exactly once, by the answer to its own
\* request: every entry of open_futures belongs to a worker of that node
\* spinning in future->get(), exactly one request or reply with its msg id
\* is under way, and every request or reply under way has its entry.
FutureSingleResolution ==
    /\ \A n \in Node : \A e \in open_futures[n] :
          /\ NodeOf[e.w] = n /\ pc[e.w] = "wait" /\ fut[e.w] = "pending"
          /\ InFlight(n, e.id) = 1
    /\ \A m \in net :
          /\ m.type = "GET_REQ" => [id |-> m.id, w |-> m.w] \in open_futures[m.src]
          /\ m.type = "GET_RES" => [id |-> m.id, w |-> m.w] \in open_futures[m.dst]

\* Every worker eventually runs through all of its transactions: no
\* future->get() or putresponses.wait() spins forever (no deadlock between
\* waiting transactions, no lost grant, no lost TuplePutRes).
Termination == <>Done
=============================================================================
