------------------------------ MODULE RowLock ------------------------------
(***************************************************************************)
(* The per-row concurrency control of src/table/concurrency_control/:      *)
(* Row<Tuple_t, NO_WAIT> and Row<Tuple_t, WAIT_DIE>.  A row is a record    *)
(*                                                                         *)
(*   lock_type : "INVALID" | "READ" | "WRITE"      (AccessMode lock_type)   *)
(*   owner_cnt : number of granted requests         (uint32_t owner_cnt)    *)
(*   owners    : timestamps of the owners, ascending (LinkedList<Owner>)    *)
(*   waiters   : queued requests, descending ts      (LinkedList<Waiter>)   *)
(*                                                                         *)
(* Every method runs under the row's std::mutex, so each operator below is *)
(* one atomic step of whichever thread calls it.  The operators are pure:  *)
(* WaitDieRow and Engine apply them to their own variables.  A waiter is a *)
(* record [mode, ts, who, remote, node, id]: "who" is the worker whose     *)
(* TupleFuture is parked (local) or who sent the TupleGetReq (remote);     *)
(* node and id address the TupleGetRes a remote waiter is owed.            *)
(***************************************************************************)
EXTENDS Integers, Sequences, SequencesExt

Modes == {"READ", "WRITE"}

EmptyRow == [lock_type |-> "INVALID", owner_cnt |-> 0,
             owners |-> <<>>, waiters |-> <<>>]

\* Mutant: a reader is admitted next to a writer (the lock_type test dropped).
IsCompatibleIgnoresWriter(row, mode) ==
    row.lock_type = "INVALID" \/ mode # "WRITE"

\* Row::is_compatible: shared with shared, nothing with a writer.
IsCompatible(row, mode) ==
    \/ row.lock_type = "INVALID"
    \/ row.lock_type # "WRITE" /\ mode # "WRITE"

\* Owner::operator< is ts < other.ts (owners ascending, head = oldest);
\* Waiter::operator< is ts > other.ts (waiters descending, head = youngest).
OwnerLess(a, b)  == a < b
WaiterLess(a, b) == a.ts > b.ts

\* LinkedList::add_sorted: walk past every node n with n < new and insert
\* there (pos 0: past the end); ties go in front of the equal element.
InsertBefore(seq, pos, e) ==
    IF pos = 0 THEN Append(seq, e) ELSE InsertAt(seq, pos, e)
AddOwner(seq, ts) ==
    InsertBefore(seq, SelectInSeq(seq, LAMBDA x : ~OwnerLess(x, ts)), ts)
AddWaiter(seq, w) ==
    InsertBefore(seq, SelectInSeq(seq, LAMBDA x : ~WaiterLess(x, w)), w)

-----------------------------------------------------------------------------
(* NO_WAIT (no_wait.hpp)                                                    *)

\* local_lock / remote_lock, success branch: ++owner_cnt; lock_type = mode.
NWGrant(row, mode) ==
    [row EXCEPT !.owner_cnt = @ + 1, !.lock_type = mode]

\* local_unlock: a mode other than lock_type returns INVALID_ACCESS_MODE and
\* changes nothing; otherwise --owner_cnt and clear the mode at zero.
NWUnlock(row, mode) ==
    IF row.lock_type # mode
    THEN [row |-> row, rc |-> "INVALID_ACCESS_MODE"]
    ELSE [row |-> [row EXCEPT !.owner_cnt = @ - 1,
                              !.lock_type = IF row.owner_cnt = 1
                                            THEN "INVALID" ELSE @],
          rc  |-> "SUCCESS"]

-----------------------------------------------------------------------------
(* WAIT_DIE (wait_die.hpp)                                                  *)

\* local_lock / remote_lock: a compatible request still conflicts when it is
\* older than the head of the waiter list.
WDConflict(row, mode, ts) ==
    \/ ~IsCompatible(row, mode)
    \/ row.waiters # <<>> /\ ts < Head(row.waiters).ts

\* Mutant: compared with the tail of owners (the youngest) instead of the head.
WDCanWaitLastOwner(row, ts) ==
    row.owners = <<>> \/ Last(row.owners) > ts

\* Mutant: every conflicting request waits (the die branch dropped).
WDCanWaitAlways(row, ts) == TRUE

\* can_wait: the request is older than the oldest owner (head of owners).
WDCanWait(row, ts) ==
    row.owners = <<>> \/ Head(row.owners) > ts

\* No conflict: ++owner_cnt; lock_type = mode; owners.add_sorted(Owner{ts}).
WDGrant(row, mode, ts) ==
    [row EXCEPT !.owner_cnt = @ + 1, !.lock_type = mode,
                !.owners = AddOwner(@, ts)]

\* waiters.add_sorted(entry)
WDEnqueue(row, waiter) ==
    [row EXCEPT !.waiters = AddWaiter(@, waiter)]

\* The outcome of local_lock / remote_lock: "GRANT", "WAIT" or "DIE".
WDOutcome(row, mode, ts) ==
    IF ~WDConflict(row, mode, ts) THEN "GRANT"
    ELSE IF WDCanWait(row, ts) THEN "WAIT" ELSE "DIE"

\* waiters.remove_until(...): grant waiters from the head while each is
\* compatible with the evolving lock mode; returns the row and the granted
\* waiters in grant order.
RECURSIVE WDDrain(_, _)
WDDrain(row, granted) ==
    IF row.waiters = <<>> \/ ~IsCompatible(row, Head(row.waiters).mode)
    THEN [row |-> row, granted |-> granted]
    ELSE LET h == Head(row.waiters)
         IN  WDDrain([row EXCEPT !.owner_cnt = @ + 1, !.lock_type = h.mode,
                                 !.owners = AddOwner(@, h.ts),
                                 !.waiters = Tail(@)],
                     Append(granted, h))

\* Mutant: the last unlock clears the mode but never drains the waiters.
WDUnlockNoDrain(row, mode, ts) ==
    IF row.lock_type # mode
    THEN [row |-> row, granted |-> <<>>, rc |-> "INVALID_ACCESS_MODE"]
    ELSE LET r1 == [row EXCEPT !.owners = RemoveFirst(@, ts),
                               !.owner_cnt = @ - 1]
         IN  [row |-> IF r1.owner_cnt > 0 THEN r1
                      ELSE [r1 EXCEPT !.lock_type = "INVALID"],
              granted |-> <<>>, rc |-> "SUCCESS"]

\* local_unlock (also reached from remote_unlock): mode mismatch returns
\* INVALID_ACCESS_MODE untouched; else owners.remove_if_one(ts == ts),
\* --owner_cnt, and when it reaches zero clear the mode and drain waiters.
WDUnlock(row, mode, ts) ==
    IF row.lock_type # mode
    THEN [row |-> row, granted |-> <<>>, rc |-> "INVALID_ACCESS_MODE"]
    ELSE LET r1 == [row EXCEPT !.owners = RemoveFirst(@, ts),
                               !.owner_cnt = @ - 1]
         IN  IF r1.owner_cnt > 0
             THEN [row |-> r1, granted |-> <<>>, rc |-> "SUCCESS"]
             ELSE LET d == WDDrain([r1 EXCEPT !.lock_type = "INVALID"], <<>>)
                  IN  [row |-> d.row, granted |-> d.granted, rc |-> "SUCCESS"]

\* Row::invariant(): no waiter is younger than an owner.
WDInvariant(row) ==
    \A i \in 1..Len(row.owners), j \in 1..Len(row.waiters) :
        ~(row.waiters[j].ts > row.owners[i])

\* Row::check(): the row is fully unlocked.
WDCheck(row) ==
    row.waiters = <<>> /\ row.owners = <<>> /\ row.lock_type = "INVALID"
=============================================================================
