------------------------------ MODULE Firmware ------------------------------
(***************************************************************************)
(* The UEFI boot services the bootloader uses for memory, seen from        *)
(* project/boot/main.c and project/boot/elf.c: page and pool allocation,   *)
(* the memory map with its key, and ExitBootServices.  While they live the *)
(* firmware's own timers and drivers also allocate, at moments the         *)
(* bootloader does not choose, and every change of the map makes the key   *)
(* of an earlier GetMemoryMap stale.                                       *)
(***************************************************************************)
EXTENDS MemoryMap

CONSTANTS
    InitialTypes,   \* the layouts the firmware may start the bootloader with
    Served,         \* the pages it serves requests at any address from
    MaxNoise        \* its events hold fewer pages than this when they take one

PageTypes == {"conventional", "bsCode", "bsData", "loaderCode", "loaderData",
              "other", "hole"}

(* The pages of a machine are counted from 0. *)
Machine(t) ==
    /\ IsFiniteSet(DOMAIN t)
    /\ DOMAIN t = 0 .. Cardinality(DOMAIN t) - 1
    /\ t \in [DOMAIN t -> PageTypes]

(* No request is answered with page 0, whose address is NULL. *)
ASSUME MachineAssumption ==
    /\ \A t \in InitialTypes : Machine(t)
    /\ Served \subseteq Nat \ {0}
    /\ MaxNoise \in Nat

VARIABLES
    types,      \* the type of every page
    pool,       \* live pool allocations in every page
    noise,      \* pages that events hold or may give back
    keyFresh,   \* does the key of the last GetMemoryMap still match?
    bs          \* are boot services alive?

firmware == <<types, pool, noise, keyFresh, bs>>

FirmwareInit ==
    /\ types \in InitialTypes
    /\ pool = [p \in DOMAIN types |-> 0]
    /\ noise = {p \in DOMAIN types : types[p] = "bsData"}
    /\ keyFresh = FALSE
    /\ bs = TRUE

FreePages == {p \in DOMAIN types : types[p] = "conventional"}

MapNow == MapOf(types)

AnyPage == Served \cap FreePages

SetType(pages, type) ==
    /\ types' = [p \in DOMAIN types |-> IF p \in pages THEN type ELSE types[p]]
    /\ keyFresh' = FALSE

(* AllocatePages(AllocateAddress): exactly these pages or nothing. *)
AllocatePages(pages) ==
    /\ bs
    /\ pages \subseteq FreePages
    /\ SetType(pages, "loaderData")
    /\ UNCHANGED <<pool, noise, bs>>

(* AllocatePool: a page of its own, or room left in a page of the pool. *)
AllocatePool(page) ==
    /\ bs
    /\ \/ page \in AnyPage /\ SetType({page}, "loaderData")
       \/ pool[page] > 0 /\ SetType({}, "loaderData")
    /\ pool' = [pool EXCEPT ![page] = @ + 1]
    /\ UNCHANGED <<noise, bs>>

(* FreePool: the page goes back with its last allocation. *)
FreePool(page) ==
    /\ bs
    /\ SetType(IF pool[page] = 1 THEN {page} ELSE {}, "conventional")
    /\ pool' = [pool EXCEPT ![page] = @ - 1]
    /\ UNCHANGED <<noise, bs>>

GetMemoryMap ==
    /\ bs
    /\ keyFresh' = TRUE
    /\ UNCHANGED <<types, pool, noise, bs>>

ExitBootServices ==
    /\ bs
    /\ keyFresh
    /\ bs' = FALSE
    /\ UNCHANGED <<types, pool, noise, keyFresh>>

(* An event handler takes a page for boot-services data, or returns one. *)
EventAllocates ==
    /\ bs
    /\ Cardinality(noise) < MaxNoise
    /\ \E p \in AnyPage :
          SetType({p}, "bsData") /\ noise' = noise \cup {p}
    /\ UNCHANGED <<pool, bs>>

EventFrees ==
    /\ bs
    /\ \E p \in noise :
          SetType({p}, "conventional") /\ noise' = noise \ {p}
    /\ UNCHANGED <<pool, bs>>

Event == EventAllocates \/ EventFrees

=============================================================================
