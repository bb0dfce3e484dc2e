---------------------------- MODULE KernelLoading ----------------------------
(***************************************************************************)
(* What elf_load_kernel (project/boot/elf.c) promises efi_main, whatever   *)
(* the file holds and the firmware answers: it holds one pool allocation,  *)
(* the program header table, and only while it works; it takes pages for   *)
(* segments and never gives one back; it succeeds with every segment in    *)
(* place, at least one, or fails; and after it has returned nothing of     *)
(* this changes.  ElfLoader and BootLoader each implement it.              *)
(***************************************************************************)
EXTENDS Naturals

VARIABLES
    wanted,     \* the PT_LOAD segments of the file
    table,      \* is the program header table allocated?
    taken,      \* pages taken for segments
    done,       \* segments in place
    result      \* "none" before the return, then "success" or "error"

loading == <<wanted, table, taken, done, result>>

Init ==
    /\ wanted \in Nat
    /\ table = FALSE
    /\ taken = {}
    /\ done = 0
    /\ result = "none"

(* Before anything else is taken, and once. *)
TakeTable ==
    /\ result = "none"
    /\ ~ table
    /\ table' = TRUE
    /\ UNCHANGED <<wanted, taken, done, result>>

Working == result = "none" /\ table

TakePages ==
    /\ Working
    /\ taken \subseteq taken'
    /\ UNCHANGED <<wanted, table, done, result>>

FinishSegment ==
    /\ Working
    /\ taken \subseteq taken'
    /\ done' = done + 1
    /\ done' <= wanted
    /\ UNCHANGED <<wanted, table, result>>

(* The table goes back in the same breath; the pages of a success and of a
   failure alike stay taken. *)
Succeed ==
    /\ Working
    /\ done = wanted /\ wanted > 0
    /\ table' = FALSE
    /\ result' = "success"
    /\ UNCHANGED <<wanted, taken, done>>

Fail ==
    /\ result = "none"
    /\ table' = FALSE
    /\ result' = "error"
    /\ UNCHANGED <<wanted, taken, done>>

Next == TakeTable \/ TakePages \/ FinishSegment \/ Succeed \/ Fail

Spec == Init /\ [][Next]_loading

=============================================================================
