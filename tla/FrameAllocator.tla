--------------------------- MODULE FrameAllocator ---------------------------
(***************************************************************************)
(* What the physical memory manager promises its callers, whatever it      *)
(* keeps inside (project/include/kernel/pmm.h): after a start that fixes   *)
(* the pool, a frame is either free or held by exactly one caller, an      *)
(* allocation hands out a frame nobody holds, and the answer 0 means that  *)
(* nothing is left.  Which free frame is handed out is left open; Pmm      *)
(* refines it.                                                             *)
(***************************************************************************)
EXTENDS Integers

Frames == Nat \ {0}     \* the frame numbers an allocation may return

VARIABLES
    state,      \* "down" before the start, "up", "stopped" after a fatal error
    free,       \* frames that may be handed out
    held,       \* frames handed out and not yet returned
    ret         \* what the last call returned: a frame, 0, or -1 for no value

vars == <<state, free, held, ret>>

Exhausted == 0
NoResult == -1

Init ==
    /\ state = "down"
    /\ free = {}
    /\ held = {}
    /\ ret = NoResult

(* The pool is whatever the machine's memory map leaves. *)
Start ==
    /\ state = "down"
    /\ state' = "up"
    /\ free' \in SUBSET Frames
    /\ UNCHANGED <<held, ret>>

Alloc ==
    /\ state = "up"
    /\ \E f \in free :
          /\ free' = free \ {f}
          /\ held' = held \cup {f}
          /\ ret' = f
    /\ UNCHANGED state

AllocFails ==
    /\ state = "up"
    /\ free = {}
    /\ ret' = Exhausted
    /\ UNCHANGED <<state, free, held>>

Free ==
    /\ state = "up"
    /\ \E f \in held :
          /\ free' = free \cup {f}
          /\ held' = held \ {f}
    /\ ret' = NoResult
    /\ UNCHANGED state

(* A fatal error: the machine halts and no frame can be obtained any more. *)
Stop ==
    /\ state # "stopped"
    /\ state' = "stopped"
    /\ free' = {}
    /\ UNCHANGED <<held, ret>>

Next == Start \/ Alloc \/ AllocFails \/ Free \/ Stop

Spec == Init /\ [][Next]_vars

=============================================================================
