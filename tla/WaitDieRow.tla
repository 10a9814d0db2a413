----------------------------- MODULE WaitDieRow -----------------------------
(***************************************************************************)
(* One Row<Tuple_t, WAIT_DIE> (wait_die.hpp) exercised by a set of local   *)
(* requesters.  A requester is identified with its transaction timestamp, *)
(* so Txn is a set of distinct integers and their order is the age order  *)
(* (smaller = older).  Each requester holds or awaits at most one grant on *)
(* the row at a time, and may come back after releasing or dying, which    *)
(* explores every order of local_lock / local_unlock calls the row can see.*)
(***************************************************************************)
EXTENDS Integers, Sequences, FiniteSets, SequencesExt, RowLock

CONSTANT Txn            \* distinct timestamps of the requesters

VARIABLES
    row,                \* the Row's lock state (RowLock record)
    st                  \* st[t] = [phase, mode]: the requester's view

vars == <<row, st>>

Phases == {"idle", "waiting", "owner", "died"}

Waiter(t, m) == [mode |-> m, ts |-> t, who |-> t, remote |-> FALSE,
                 node |-> "local", id |-> 0]

Init ==
    /\ row = EmptyRow
    /\ st = [t \in Txn |-> [phase |-> "idle", mode |-> "READ"]]

CanRequest(t) == st[t].phase \in {"idle", "died"}

\* local_lock, no conflict: the future is set and SUCCESS returned.
LockGrant(t, m) ==
    /\ CanRequest(t)
    /\ WDOutcome(row, m, t) = "GRANT"
    /\ row' = WDGrant(row, m, t)
    /\ st' = [st EXCEPT ![t] = [phase |-> "owner", mode |-> m]]

\* local_lock, conflict but older than every owner: queued, SUCCESS
\* returned, the future stays unset until an unlock grants it.
LockWait(t, m) ==
    /\ CanRequest(t)
    /\ WDOutcome(row, m, t) = "WAIT"
    /\ row' = WDEnqueue(row, Waiter(t, m))
    /\ st' = [st EXCEPT ![t] = [phase |-> "waiting", mode |-> m]]

\* local_lock, conflict with an older owner: READ/WRITE_LOCK_FAILED.
LockDie(t, m) ==
    /\ st[t].phase = "idle"
    /\ WDOutcome(row, m, t) = "DIE"
    /\ st' = [st EXCEPT ![t] = [phase |-> "died", mode |-> m]]
    /\ UNCHANGED row

\* local_unlock by an owner; the waiters it drains become owners.
Unlock(t) ==
    /\ st[t].phase = "owner"
    /\ LET r == WDUnlock(row, st[t].mode, t)
           woken == {r.granted[i].who : i \in 1..Len(r.granted)}
       IN  /\ row' = r.row
           /\ st' = [u \in Txn |->
                       IF u = t THEN [phase |-> "idle", mode |-> st[t].mode]
                       ELSE IF u \in woken
                            THEN [phase |-> "owner", mode |-> st[u].mode]
                            ELSE st[u]]

Next ==
    \E t \in Txn :
        \/ \E m \in Modes : LockGrant(t, m) \/ LockWait(t, m) \/ LockDie(t, m)
        \/ Unlock(t)

Spec == Init /\ [][Next]_vars

-----------------------------------------------------------------------------
TypeOK ==
    /\ row.lock_type \in {"INVALID"} \cup Modes
    /\ row.owner_cnt \in 0..Cardinality(Txn)
    /\ st \in [Txn -> [phase : Phases, mode : Modes]]

\* Spec section 4.1 says the waiter list is ordered so that the oldest
\* waiter is served first: when an unlock grants queued requests, no older
\* request stays queued behind a granted one.
OldestWaiterServedFirst ==
    [][\A g, w \in Txn :
         (st[g].phase = "waiting" /\ st'[g].phase = "owner"
          /\ st'[w].phase = "waiting") => ~(w < g)]_vars
=============================================================================
