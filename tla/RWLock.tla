------------------------------ MODULE RWLock -------------------------------
(***************************************************************************)
(* What a row lock of this system promises its callers, independent of the *)
(* discipline (None aside): at any time the clients holding a row are one  *)
(* writer or any number of readers, and a holder keeps the mode it was     *)
(* granted until it releases.  Acquires and releases may happen together  *)
(* in one step (an unlock that hands the row to queued waiters).           *)
(***************************************************************************)
CONSTANT Client

VARIABLE holder        \* holder[c] \in {"NONE", "READ", "WRITE"}

LockModes == {"NONE", "READ", "WRITE"}

\* One writer alone, or readers only.
Exclusive(h) ==
    \A c, d \in Client :
        c # d /\ h[c] = "WRITE" => h[d] = "NONE"

Init == holder = [c \in Client |-> "NONE"]

\* Each client either keeps its mode, acquires from NONE, or releases to NONE.
Step ==
    /\ holder' \in [Client -> LockModes]
    /\ Exclusive(holder')
    /\ \A c \in Client :
          \/ holder'[c] = holder[c]
          \/ holder[c] = "NONE"
          \/ holder'[c] = "NONE"

Spec == Init /\ [][Step]_holder
=============================================================================
