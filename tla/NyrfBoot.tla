------------------------------ MODULE NyrfBoot ------------------------------
(***************************************************************************)
(* The whole boot: the bootloader hands a memory map to the kernel, and    *)
(* kernel_main gives it to pmm_init and pmm_self_test (project/kernel/     *)
(* main.c), after which the kernel allocates and frees pages.  What each   *)
(* half relies on is kept by the other: the physical memory manager trusts *)
(* the map enough to write a bitmap wherever it says there is free memory. *)
(***************************************************************************)
EXTENDS BootLoader

CONSTANTS WordBits, WordSize, PageSize, LowMemoryLimit, KernelStart, KernelEnd,
          SelfTestPages

VARIABLES map, phase, why, page_count, bitmap, used, free_pages, next_word,
          tested, before, held, ret, writes

P == INSTANCE Pmm WITH Maps <- {}

(* The constants of pmm.h, and the image link.ld makes. *)
ASSUME KernelAssumption ==
    /\ {WordBits, WordSize, PageSize, LowMemoryLimit} \subseteq Nat \ {0}
    /\ {KernelStart, KernelEnd, SelfTestPages} \subseteq Nat
    /\ KernelStart <= KernelEnd

(* link.ld: __kernel_start and __kernel_end lie in what the loader loads. *)
ASSUME LinkAssumption == P!KernelPages \subseteq KernelImage

pmm == <<map, phase, why, page_count, bitmap, used, free_pages, next_word,
         tested, before, held, ret, writes>>
bootVars == <<loaderVars, pmm>>

BootInit ==
    /\ LoaderInit
    /\ map = <<>>
    /\ phase = "off"
    /\ why = "none"
    /\ page_count = 0
    /\ bitmap = 0
    /\ used = {}
    /\ free_pages = 0
    /\ next_word = 0
    /\ tested = <<>>
    /\ before = 0
    /\ held = {}
    /\ ret = P!NoResult
    /\ writes = {}

Loading == LoaderNext /\ pc # "kernel" /\ UNCHANGED pmm

(* kernel_main, once the magic of BootInfo is right, calls pmm_init(bi). *)
EnterPmm ==
    /\ pc = "kernel"
    /\ phase = "off"
    /\ map' = Inherited
    /\ phase' = "size"
    /\ UNCHANGED <<loaderVars, why, page_count, bitmap, used, free_pages,
                   next_word, tested, before, held, ret, writes>>

KernelRuns == P!Next /\ UNCHANGED loaderVars

BootNext == Loading \/ EnterPmm \/ KernelRuns

BootSpec ==
    /\ BootInit /\ [][BootNext]_bootVars
    /\ WF_bootVars(LoaderStep /\ UNCHANGED pmm)
    /\ WF_bootVars(EnterPmm)
    /\ WF_bootVars(P!Boot /\ UNCHANGED <<map, loaderVars>>)

-----------------------------------------------------------------------------
(* Properties. *)

(* Memory the kernel lives in or still reads: its image, BootInfo, the map
   (pass 3 reads it after the bitmap was filled), what boot services left
   behind: the page tables the processor walks, ACPI tables, MMIO, and the low
   megabyte, however free the map calls it (pmm.h, pmm.c:224). *)
Precious ==
    KernelImage \cup {bi_page, mm.page} \cup P!LowPages
        \cup {p \in DOMAIN types : types[p] # "conventional"}

(* The two halves together: no store of the manager and no page it gives out
   is memory that is still in use (main.c:146-148, pmm.c:134-141). *)
MemoryIntact == (writes \cup held) \cap Precious = {}

(* Every page the manager may give out is one the machine had free when boot
   services ended, and it misses none: the map lost nothing on its way. *)
FramesComplete ==
    phase = "built" => P!FreeFrames =
        {p \in FreePages : p \notin P!LowPages \cup P!BitmapPages}

(* From the first GetMemoryMap to a working allocator, or to a message. *)
BootEnds == <>(pc = "fatal" \/ phase \in {"ready", "halted"})

=============================================================================
