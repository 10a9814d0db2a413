------------------------------ MODULE Mempool ------------------------------
(***************************************************************************)
(* FixedThreadsafeMempool<T> (db/mempools.hpp) with its thread_local       *)
(* Cache<T>, as used by LinkedList<T>::pool (datastructures/linked_list.hpp)*)
(* for the owner and waiter lists of every WAIT_DIE row.                   *)
(*                                                                         *)
(* The pool owns a fixed array of nodes.  Free nodes sit either in the     *)
(* shared vector `free` (guarded by a SpinLock) or in the cache of one     *)
(* thread.  A node taken by add_sorted is in use until remove_if or        *)
(* remove_if_one gives it back, possibly on another thread: a list node    *)
(* added by a worker is removed by whichever thread unlocks the row.       *)
(*                                                                         *)
(* A thread's cache is only touched by that thread, and the shared part    *)
(* runs under the lock, so allocate and deallocate are each one step.     *)
(***************************************************************************)
EXTENDS Naturals, Sequences, SequencesExt, FiniteSets

CONSTANTS
    Thread,      \* the threads that lock or unlock rows
    Data,        \* data[]: the nodes in index order (the pool size is Len(Data))
    CacheSize,   \* CACHE_SIZE (64 in the code)
    MaxUsed      \* bound on the nodes the lists hold at once

ASSUME CacheSize \in Nat \ {0} /\ MaxUsed \in Nat /\ IsInjective(Data)

Node == Range(Data)

VARIABLES
    free,        \* the vector `free`; its back is the last element
    cache,       \* cache[t]: thread t's Cache; cache[t][fill] is the top
    used,        \* nodes handed out and held by some list
    underflow    \* TRUE once back()/pop_back() ran on an empty `free`

vars == <<free, cache, used, underflow>>

(***************************************************************************)
(* Cache<T>::allocate / deallocate: a stack of at most CacheSize pointers. *)
(***************************************************************************)
CacheHit(c) == Len(c) > 0
CacheFull(c) == Len(c) = CacheSize

(***************************************************************************)
(* The constructor pushes &data[0] .. &data[size-1] onto `free`.          *)
(***************************************************************************)
Init ==
    /\ free = Data
    /\ cache = [t \in Thread |-> <<>>]
    /\ used = {}
    /\ underflow = FALSE

(***************************************************************************)
(* allocate(), first branch: the thread's cache has a node.                *)
(***************************************************************************)
AllocateCached(t) ==
    /\ ~underflow
    /\ Cardinality(used) < MaxUsed
    /\ CacheHit(cache[t])
    /\ used' = used \cup {Last(cache[t])}
    /\ cache' = [cache EXCEPT ![t] = Front(cache[t])]
    /\ UNCHANGED <<free, underflow>>

(***************************************************************************)
(* allocate(), second branch: under the lock, pop from the back of `free`  *)
(* into the cache until it holds CacheSize nodes, then pop one more node   *)
(* and return it.  The first popped node lands at the bottom of the cache. *)
(***************************************************************************)
AllocateRefill(t) ==
    LET L == Len(free) IN
    /\ ~underflow
    /\ Cardinality(used) < MaxUsed
    /\ ~CacheHit(cache[t])
    /\ L > CacheSize
    /\ cache' = [cache EXCEPT ![t] = Reverse(SubSeq(free, L - CacheSize + 1, L))]
    /\ used' = used \cup {free[L - CacheSize]}
    /\ free' = SubSeq(free, 1, L - CacheSize - 1)
    /\ UNCHANGED underflow

(***************************************************************************)
(* allocate(), second branch with at most CacheSize nodes in `free`: the   *)
(* loop or the final free.back()/pop_back() runs on an empty vector.  The  *)
(* code has no check; what follows is undefined, so the model stops here.  *)
(***************************************************************************)
AllocateUnderflowEarly(t) ==
    /\ ~underflow
    /\ Cardinality(used) < MaxUsed
    /\ ~CacheHit(cache[t])
    /\ Len(free) <= CacheSize + 1
    /\ underflow' = TRUE
    /\ UNCHANGED <<free, cache, used>>

AllocateUnderflow(t) ==
    /\ ~underflow
    /\ Cardinality(used) < MaxUsed
    /\ ~CacheHit(cache[t])
    /\ Len(free) <= CacheSize
    /\ underflow' = TRUE
    /\ UNCHANGED <<free, cache, used>>

(***************************************************************************)
(* deallocate(node): keep the node in the cache if it has room; otherwise, *)
(* under the lock, push it onto `free`.  The loop `while (cache.fill >     *)
(* CACHE_SIZE)` before the push never runs: fill never exceeds CacheSize.  *)
(***************************************************************************)
DeallocateNoReturn(t, n) ==
    /\ ~underflow
    /\ n \in used
    /\ used' = used \ {n}
    /\ IF CacheFull(cache[t])
         THEN /\ free' = Append(free, n)
              /\ UNCHANGED cache
         ELSE /\ cache' = [cache EXCEPT ![t] = Append(cache[t], n)]
              /\ free' = Append(free, n)
    /\ UNCHANGED underflow

DeallocateCacheUnbounded(t, n) ==
    /\ ~underflow
    /\ n \in used
    /\ used' = used \ {n}
    /\ cache' = [cache EXCEPT ![t] = Append(cache[t], n)]
    /\ UNCHANGED <<free, underflow>>

Deallocate(t, n) ==
    /\ ~underflow
    /\ n \in used
    /\ used' = used \ {n}
    /\ IF CacheFull(cache[t])
         THEN /\ free' = Append(free, n)
              /\ UNCHANGED cache
         ELSE /\ cache' = [cache EXCEPT ![t] = Append(cache[t], n)]
              /\ UNCHANGED free
    /\ UNCHANGED underflow

Next ==
    \E t \in Thread :
        \/ AllocateCached(t)
        \/ AllocateRefill(t)
        \/ AllocateUnderflow(t)
        \/ \E n \in used : Deallocate(t, n)

Spec == Init /\ [][Next]_vars

-----------------------------------------------------------------------------
TypeOK ==
    /\ free \in Seq(Node)
    /\ cache \in [Thread -> Seq(Node)]
    /\ \A t \in Thread : Len(cache[t]) <= CacheSize   \* std::array<T*, N>
    /\ used \subseteq Node
    /\ underflow \in BOOLEAN

(***************************************************************************)
(* No node is handed out twice and none is lost: across the free vector,   *)
(* the thread caches and the lists, every node of the pool appears exactly *)
(* once.  This is what keeps two rows' lists from sharing a node while     *)
(* nodes migrate from the allocating thread to the unlocking one.          *)
(***************************************************************************)
HeldBy(n) ==
    LET slots == UNION {{t} \X DOMAIN cache[t] : t \in Thread}
    IN  Cardinality({i \in DOMAIN free : free[i] = n})
          + Cardinality({<<t, i>> \in slots : cache[t][i] = n})
          + (IF n \in used THEN 1 ELSE 0)

NodeConservation == \A n \in Node : HeldBy(n) = 1

(***************************************************************************)
(* The sizing rule of the pool: allocate() pops an empty `free` only when  *)
(* the lists hold at least |Node| - |Thread| * CacheSize nodes.  Each      *)
(* cache hoards at most CacheSize free nodes and a refill needs            *)
(* CacheSize + 1, so keeping the lists below that bound makes allocate()   *)
(* safe whatever way nodes migrate between threads.                        *)
(***************************************************************************)
UnderflowOnlyAtSizingBound ==
    underflow => Cardinality(used) >= Len(Data) - Cardinality(Thread) * CacheSize

(***************************************************************************)
(* The spec's failure taxonomy treats exhaustion of a fixed capacity as a  *)
(* fatal error raised when the capacity is used up.  Stated for the pool:  *)
(* allocate() fails only when no node is free anywhere.                    *)
(***************************************************************************)
ExhaustedOnlyWhenAllUsed == underflow => used = Node
=============================================================================
