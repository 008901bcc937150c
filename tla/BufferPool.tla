------------------------------ MODULE BufferPool ------------------------------
(***************************************************************************)
(* What the buffer management of FreeRTOS+TCP promises its users           *)
(* (include/NetworkBufferManagement.h): a descriptor that is handed out    *)
(* belongs to one user until that user gives it back, and so does every    *)
(* block of memory, whether it hangs on a descriptor or was asked for on   *)
(* its own.  Each call is one step here.                                   *)
(***************************************************************************)
CONSTANTS
  Users,        \* tasks and hardware queues that hold descriptors and blocks
  Descriptors,
  Blocks,       \* memory for one frame
  NULL

VARIABLES
  held,     \* descriptors of each user
  raw,      \* blocks of each user that hang on no descriptor
  storage   \* block of each descriptor that is handed out, NULL if none

poolVars == <<held, raw, storage>>

Free == Descriptors \ UNION {held[u] : u \in Users}

Unused == Blocks \ ({storage[d] : d \in Descriptors} \cup UNION {raw[u] : u \in Users})

Init ==
  /\ held = [u \in Users |-> {}]
  /\ raw = [u \in Users |-> {}]
  /\ storage = [d \in Descriptors |-> NULL]

\* A descriptor with memory for a frame.
Get(u) ==
  \E d \in Free, b \in Unused :
    /\ held' = [held EXCEPT ![u] = @ \cup {d}]
    /\ storage' = [storage EXCEPT ![d] = b]
    /\ UNCHANGED raw

\* The descriptor and the memory on it go back.
Release(u) ==
  \E d \in held[u] :
    /\ held' = [held EXCEPT ![u] = @ \ {d}]
    /\ storage' = [storage EXCEPT ![d] = NULL]
    /\ UNCHANGED raw

GetBlock(u) ==
  \E b \in Unused :
    /\ raw' = [raw EXCEPT ![u] = @ \cup {b}]
    /\ UNCHANGED <<held, storage>>

ReleaseBlock(u) ==
  \E b \in raw[u] :
    /\ raw' = [raw EXCEPT ![u] = @ \ {b}]
    /\ UNCHANGED <<held, storage>>

\* Other memory for a descriptor; the old one is given back.
Resize(u) ==
  \E d \in held[u], b \in Unused :
    /\ storage' = [storage EXCEPT ![d] = b]
    /\ UNCHANGED <<held, raw>>

-----------------------------------------------------------------------------
(* What users do with what they hold.                                      *)

Detach(u) ==
  \E d \in held[u] :
    /\ storage[d] # NULL
    /\ raw' = [raw EXCEPT ![u] = @ \cup {storage[d]}]
    /\ storage' = [storage EXCEPT ![d] = NULL]
    /\ UNCHANGED held

Exchange(u) ==
  \E d \in held[u], b \in raw[u] :
    /\ storage[d] # NULL
    /\ raw' = [raw EXCEPT ![u] = (@ \ {b}) \cup {storage[d]}]
    /\ storage' = [storage EXCEPT ![d] = b]
    /\ UNCHANGED held

Pass(u, v) ==
  \E d \in held[u] :
    /\ held' = [held EXCEPT ![u] = @ \ {d}, ![v] = @ \cup {d}]
    /\ UNCHANGED <<raw, storage>>

Next ==
  \/ \E u \in Users :
       \/ Get(u) \/ Release(u)
       \/ GetBlock(u) \/ ReleaseBlock(u)
       \/ Resize(u) \/ Detach(u) \/ Exchange(u)
  \/ \E u, v \in Users : u # v /\ Pass(u, v)

Spec == Init /\ [][Next]_poolVars
=============================================================================
