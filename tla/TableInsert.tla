---------------------------- MODULE TableInsert ----------------------------
(***************************************************************************)
(* StructTable::insert (table/table.hpp) called concurrently by worker     *)
(* threads (TransactionBase::insert, e.g. TPC-C new_order inserting order, *)
(* new_order and order_line rows).  size is a std::atomic, but the         *)
(* capacity test and the increment are two separate atomic operations:     *)
(*                                                                         *)
(*     if (size >= max_size) throw error::TableFull();                     *)
(*     index = p4db::key_t{size++};                                        *)
(*     return data[index].tuple;                                           *)
(***************************************************************************)
EXTENDS Naturals

CONSTANTS
    Thread,     \* worker threads inserting into the same table
    MaxSize,    \* StructTable::max_size (capacity of data[])
    InitSize    \* rows already inserted when the threads start

ASSUME InitSize \in 0..MaxSize

VARIABLES
    size,       \* StructTable::size (std::atomic<uint64_t>)
    pc,         \* "start", "checked", "done" or "full"
    index       \* index[t]: the slot handed to thread t (0 before)

vars == <<size, pc, index>>

Init ==
    /\ size = InitSize
    /\ pc = [t \in Thread |-> "start"]
    /\ index = [t \in Thread |-> 0]

\* if (size >= max_size) throw error::TableFull(); -- the load of size.
Check(t) ==
    /\ pc[t] = "start"
    /\ pc' = [pc EXCEPT ![t] = IF size >= MaxSize THEN "full" ELSE "checked"]
    /\ UNCHANGED <<size, index>>

\* index = size++ (fetch_add), then data[index] is handed out.
Claim(t) ==
    /\ pc[t] = "checked"
    /\ index' = [index EXCEPT ![t] = size]
    /\ size' = size + 1
    /\ pc' = [pc EXCEPT ![t] = "done"]

Done == \A t \in Thread : pc[t] \in {"done", "full"}

Next ==
    \/ \E t \in Thread : Check(t) \/ Claim(t)
    \/ Done /\ UNCHANGED vars

Spec == Init /\ [][Next]_vars

\* Spec section 4 (Table): insert appends at the next free slot and fails
\* with TableFull once capacity is exhausted, so every slot insert hands
\* out lies inside data[0 .. max_size-1].
InsertWithinCapacity ==
    \A t \in Thread : pc[t] = "done" => index[t] < MaxSize
=============================================================================
