----------------------------- MODULE BootLoader -----------------------------
(***************************************************************************)
(* The bootloader, project/boot/main.c: efi_main from the first            *)
(* GetMemoryMap to the jump into the kernel, with get_memory_map and the   *)
(* memory side of elf_load_kernel (project/boot/elf.c).  Its hard part is  *)
(* the handoff: the map the kernel inherits must be the map at the instant *)
(* boot services end, and reading it, allocating for it and leaving are    *)
(* separate calls between which the firmware runs.                         *)
(***************************************************************************)
EXTENDS Firmware

CONSTANTS
    Segments,       \* the PT_LOAD segments of kernel.elf: <<[start, pages], ...>>
    Slack,          \* descriptors of room beyond the probe (8)
    MaxAttempts     \* tries at ExitBootServices (3)

ASSUME LoaderAssumption ==
    /\ Segments \in Seq([start : Nat \ {0}, pages : Nat \ {0}])
    /\ Slack \in Nat
    /\ MaxAttempts \in Nat \ {0}

VARIABLES
    pc,         \* the statement efi_main is at
    fault,      \* the message of fatal(), "none" while running
    mm,         \* memory_map_t: page of the buffer (0: NULL), capacity, size
    buffer,     \* what the last GetMemoryMap wrote into the buffer
    phdrs,      \* elf_load_kernel: page of the program headers, 0 when freed
    loaded,     \* elf_load_kernel: segments loaded so far
    bi_page,    \* page of BootInfo, 0 before it is allocated
    bi,         \* BootInfo's map fields: mmap_ptr and mmap_size / desc_size
    attempt,    \* the loop counter of stage 5
    raced,      \* (ghost) has an event run since the map was last read?
    probed      \* (ghost) the machine and the pages of events at the probe

loader == <<pc, fault, mm, buffer, phdrs, loaded, bi_page, bi, attempt>>
ghosts == <<raced, probed>>
loaderVars == <<firmware, loader, ghosts>>

SegmentPages(s) == s.start .. s.start + s.pages - 1
LoadedPages == UNION {SegmentPages(Segments[i]) : i \in 1 .. loaded}
KernelImage == UNION {SegmentPages(Segments[i]) : i \in DOMAIN Segments}

LoaderInit ==
    /\ FirmwareInit
    /\ pc = "probe"
    /\ fault = "none"
    /\ mm = [page |-> 0, capacity |-> 0, size |-> 0]
    /\ buffer = <<>>
    /\ phdrs = 0
    /\ loaded = 0
    /\ bi_page = 0
    /\ bi = [ptr |-> 0, count |-> 0]
    /\ attempt = 1
    /\ raced = FALSE
    /\ probed = [types |-> types, noise |-> noise]

Goto(label) == pc' = label /\ UNCHANGED fault
fatal(what) == pc' = "fatal" /\ fault' = what

-----------------------------------------------------------------------------
(* get_memory_map. *)

(* Mutant: the buffer is as large as the probe said. *)
ProbeMap_without_slack ==
    /\ pc = "probe"
    /\ mm' = [mm EXCEPT !.capacity = MapLength(types)]
    /\ probed' = [types |-> types, noise |-> noise]
    /\ Goto("pool")
    /\ UNCHANGED <<firmware, buffer, phdrs, loaded, bi_page, bi, attempt, raced>>

(* First call only: ask how much room the map needs, then take more. *)
ProbeMap ==
    /\ pc = "probe"
    /\ mm' = [mm EXCEPT !.capacity = MapLength(types) + Slack]
    /\ probed' = [types |-> types, noise |-> noise]
    /\ Goto("pool")
    /\ UNCHANGED <<firmware, buffer, phdrs, loaded, bi_page, bi, attempt, raced>>

(* Any answer but EFI_BUFFER_TOO_SMALL is handed back (main.c:238-240). *)
ProbeFails ==
    /\ pc = "probe"
    /\ fatal("GetMemoryMap")
    /\ UNCHANGED <<firmware, mm, buffer, phdrs, loaded, bi_page, bi, attempt, ghosts>>

AllocateBuffer ==
    /\ pc = "pool"
    /\ \E page \in DOMAIN types :
          AllocatePool(page) /\ mm' = [mm EXCEPT !.page = page]
    /\ Goto("read")
    /\ UNCHANGED <<buffer, phdrs, loaded, bi_page, bi, attempt, ghosts>>

(* Every call: read the map into the buffer, offering all its room. *)
MapFits == MapLength(types) <= mm.capacity

ReadMap ==
    /\ MapFits
    /\ GetMemoryMap
    /\ buffer' = MapNow
    /\ mm' = [mm EXCEPT !.size = MapLength(types)]
    /\ raced' = FALSE
    /\ UNCHANGED <<phdrs, loaded, bi_page, bi, attempt, probed>>

FirstRead == pc = "read" /\ ReadMap /\ Goto("open")

RefreshMap == pc = "refresh" /\ ReadMap /\ Goto("publish")

MapTooSmall ==
    /\ pc \in {"read", "refresh"}
    /\ ~ MapFits
    /\ fatal(IF pc = "read" THEN "GetMemoryMap" ELSE "GetMemoryMap before exit")
    /\ mm' = [mm EXCEPT !.size = MapLength(types)]
    /\ UNCHANGED <<firmware, buffer, phdrs, loaded, bi_page, bi, attempt, ghosts>>

-----------------------------------------------------------------------------
(* The kernel and BootInfo. *)

(* The messages of open_kernel, one for each question it asks. *)
OpenFaults ==
    {"HandleProtocol(LoadedImage)", "HandleProtocol(SimpleFileSystem)", "OpenVolume",
     "kernel.elf not found on the ESP"}

(* open_kernel, and the first steps of elf_load_kernel, the read and the check
   of the ELF header: either may fail, the one with a message of its own. *)
OpenKernel ==
    /\ pc = "open"
    /\ \/ Goto("phdrs")
       \/ \E what \in OpenFaults : fatal(what)
       \/ fatal("could not load kernel.elf")
    /\ UNCHANGED <<firmware, mm, buffer, phdrs, loaded, bi_page, bi, attempt, ghosts>>

AllocateHeaders ==
    /\ pc = "phdrs"
    /\ \E page \in DOMAIN types : AllocatePool(page) /\ phdrs' = page
    /\ Goto("segments")
    /\ UNCHANGED <<mm, buffer, loaded, bi_page, bi, attempt, ghosts>>

LoadSegment ==
    /\ pc = "segments"
    /\ loaded < Len(Segments)
    /\ AllocatePages(SegmentPages(Segments[loaded + 1]))
    /\ loaded' = loaded + 1
    /\ UNCHANGED <<pc, fault, mm, buffer, phdrs, bi_page, bi, attempt, ghosts>>

(* Mutant: the header table is forgotten on this path. *)
LoadFails_leaking ==
    /\ pc = "segments"
    /\ fatal("could not load kernel.elf")
    /\ UNCHANGED <<firmware, mm, buffer, phdrs, loaded, bi_page, bi, attempt, ghosts>>

(* The address is taken, or a read of the file failed: the headers are freed
   on this path too. *)
LoadFails ==
    /\ pc = "segments"
    /\ FreePool(phdrs)
    /\ phdrs' = 0
    /\ fatal("could not load kernel.elf")
    /\ UNCHANGED <<mm, buffer, loaded, bi_page, bi, attempt, ghosts>>

FreeHeaders ==
    /\ pc = "segments"
    /\ loaded = Len(Segments)
    /\ FreePool(phdrs)
    /\ phdrs' = 0
    /\ IF loaded = 0 THEN fatal("could not load kernel.elf") ELSE Goto("bootinfo")
    /\ UNCHANGED <<mm, buffer, loaded, bi_page, bi, attempt, ghosts>>

(* Mutant: BootInfo is put where nothing was allocated for it. *)
AllocateBootInfo_unallocated ==
    /\ pc = "bootinfo"
    /\ \E page \in AnyPage : bi_page' = page
    /\ Goto("refresh")
    /\ UNCHANGED <<firmware, mm, buffer, phdrs, loaded, bi, attempt, ghosts>>

AllocateBootInfo ==
    /\ pc = "bootinfo"
    /\ \E page \in AnyPage : AllocatePages({page}) /\ bi_page' = page
    /\ Goto("refresh")
    /\ UNCHANGED <<mm, buffer, phdrs, loaded, bi, attempt, ghosts>>

NoMemory ==
    /\ pc \in {"pool", "phdrs", "bootinfo"}
    /\ AnyPage = {}
    /\ fatal(CASE pc = "pool"     -> "GetMemoryMap"
               [] pc = "phdrs"    -> "could not load kernel.elf"
               [] pc = "bootinfo" -> "AllocatePages(BootInfo)")
    /\ UNCHANGED <<firmware, mm, buffer, phdrs, loaded, bi_page, bi, attempt, ghosts>>

-----------------------------------------------------------------------------
(* Leaving boot services. *)

(* Mutants: BootInfo is filled on the first attempt only; something between
   the read and the exit allocates. *)
PublishMap_once ==
    /\ pc = "publish"
    /\ bi' = IF attempt = 1 THEN [ptr |-> mm.page, count |-> mm.size] ELSE bi
    /\ Goto("exit")
    /\ UNCHANGED <<firmware, mm, buffer, phdrs, loaded, bi_page, attempt, ghosts>>

PublishMap_allocating ==
    /\ pc = "publish"
    /\ AllocatePool(mm.page)
    /\ bi' = [ptr |-> mm.page, count |-> mm.size]
    /\ Goto("exit")
    /\ UNCHANGED <<mm, buffer, phdrs, loaded, bi_page, attempt, ghosts>>

PublishMap ==
    /\ pc = "publish"
    /\ bi' = [ptr |-> mm.page, count |-> mm.size]
    /\ Goto("exit")
    /\ UNCHANGED <<firmware, mm, buffer, phdrs, loaded, bi_page, attempt, ghosts>>

ExitSucceeds ==
    /\ pc = "exit"
    /\ ExitBootServices
    /\ Goto("kernel")
    /\ UNCHANGED <<mm, buffer, phdrs, loaded, bi_page, bi, attempt, ghosts>>

(* Mutant: the attempts are not counted. *)
ExitFails_uncounted ==
    /\ pc = "exit"
    /\ ~ keyFresh
    /\ Goto("refresh")
    /\ UNCHANGED <<firmware, mm, buffer, phdrs, loaded, bi_page, bi, attempt, ghosts>>

(* A stale key: read the map again, three times at most. *)
ExitFails ==
    /\ pc = "exit"
    /\ ~ keyFresh
    /\ attempt' = attempt + 1
    /\ IF attempt = MaxAttempts THEN fatal("ExitBootServices failed three times")
                                ELSE Goto("refresh")
    /\ UNCHANGED <<firmware, mm, buffer, phdrs, loaded, bi_page, bi, ghosts>>

LoaderStep ==
    \/ ProbeMap \/ ProbeFails \/ AllocateBuffer \/ FirstRead \/ RefreshMap
    \/ MapTooSmall \/ OpenKernel \/ AllocateHeaders \/ LoadSegment \/ LoadFails
    \/ FreeHeaders \/ AllocateBootInfo \/ NoMemory \/ PublishMap \/ ExitSucceeds \/ ExitFails

(* The firmware's events run between any two statements of the bootloader.  One
   before the probe would have made another machine to begin with. *)
FirmwareEvent ==
    /\ pc \notin {"probe", "fatal"}
    /\ Event
    /\ raced' = TRUE
    /\ UNCHANGED <<loader, probed>>

(* fatal()'s hlt loop; the kernel once it has been entered. *)
Stopped == pc \in {"fatal", "kernel"} /\ UNCHANGED loaderVars

LoaderNext == LoaderStep \/ FirmwareEvent \/ Stopped

(* The processor keeps executing the bootloader; events need not come. *)
LoaderSpec ==
    LoaderInit /\ [][LoaderNext]_loaderVars /\ WF_loaderVars(LoaderStep)

-----------------------------------------------------------------------------
(* Properties. *)

Statements == {"probe", "pool", "read", "open", "phdrs", "segments", "bootinfo",
               "refresh", "publish", "exit", "kernel", "fatal"}

LoaderTypeOK ==
    /\ Machine(types)
    /\ pool \in [DOMAIN types -> Nat]
    /\ noise \subseteq DOMAIN types
    /\ keyFresh \in BOOLEAN /\ bs \in BOOLEAN /\ raced \in BOOLEAN
    /\ pc \in Statements
    /\ mm \in [page : DOMAIN types \cup {0}, capacity : Nat, size : Nat]
    /\ phdrs \in DOMAIN types \cup {0}
    /\ loaded \in 0 .. Len(Segments)
    /\ bi_page \in DOMAIN types \cup {0}
    /\ attempt \in 1 .. MaxAttempts + 1

(* What the kernel reads through BootInfo: as many descriptors as it was told
   of, from the buffer it was pointed to. *)
Inherited ==
    IF bi.ptr = mm.page /\ bi.count <= Len(buffer)
    THEN SubSeq(buffer, 1, bi.count) ELSE <<>>

(* The map the kernel inherits is the map of the machine at the moment boot
   services ended, whatever events ran in between (main.c:494-504). *)
InheritedMapTrue == pc = "kernel" => Inherited = MapNow

(* Nothing the kernel still needs is memory it may hand out: its image,
   BootInfo and the map itself are separate pages, none of them reported
   as free now or reclaimable later (main.c:280-284, bootinfo.h:73-74). *)
HandoffProtected ==
    pc = "kernel" =>
        /\ bi_page \notin KernelImage \cup {mm.page}
        /\ mm.page \notin KernelImage
        /\ \A p \in KernelImage \cup {bi_page, mm.page} :
              \E i \in DOMAIN Inherited :
                  /\ p \in SegmentPages(Inherited[i])
                  /\ Inherited[i].type = "loaderData"

(* The bootloader never makes its own key stale: ExitBootServices refuses the
   key only when an event ran after the map was read (main.c:497-501). *)
OnlyEventsRace == pc = "exit" /\ ~ keyFresh => raced

(* What each statement leaves for the next ones. *)
Stages ==
    /\ bs <=> pc # "kernel"
    /\ pc # "fatal" => fault = "none"
    /\ pc \in {"probe", "pool"} => mm.page = 0
    /\ pc \notin {"probe", "pool", "fatal"} => mm.page # 0
    /\ phdrs # 0 <=> pc = "segments"
    /\ pc \in {"probe", "pool", "read", "open", "phdrs"} => loaded = 0
    /\ pc \in {"bootinfo", "refresh", "publish", "exit", "kernel"} =>
          loaded = Len(Segments)
    /\ pc \in {"probe", "pool", "read", "open", "phdrs", "segments", "bootinfo"} =>
          bi_page = 0
    /\ pc \in {"refresh", "publish", "exit", "kernel"} => bi_page # 0
    /\ pc \in {"exit", "kernel"} => bi = [ptr |-> mm.page, count |-> mm.size]
    /\ pc # "fatal" => attempt <= MaxAttempts

(* The map in the buffer is out of date only when an event made it so. *)
MapCurrent ==
    /\ pc \in {"publish", "exit"} => keyFresh \/ raced
    /\ pc = "kernel" => keyFresh
    /\ pc \in {"publish", "exit", "kernel"} /\ keyFresh =>
          buffer = MapNow /\ mm.size = MapLength(types)

(* Who owns which page: the map, the program headers, BootInfo, the segments
   and the events of the firmware, each apart from the others, save that two
   pool allocations may share one. *)
PoolUses(p) == (IF p = mm.page THEN 1 ELSE 0) + (IF p = phdrs THEN 1 ELSE 0)

Kept == ({mm.page, phdrs, bi_page} \ {0}) \cup LoadedPages

Owners ==
    /\ \A p \in DOMAIN types : pool[p] = IF p = 0 THEN 0 ELSE PoolUses(p)
    /\ \A p \in Kept : p \in DOMAIN types /\ types[p] = "loaderData"
    /\ \A p \in noise : types[p] = "bsData"
    /\ {mm.page, phdrs} \cap LoadedPages = {}
    /\ bi_page # 0 => bi_page \notin {mm.page, phdrs} \cup LoadedPages

(* How many runs of pages some pages can begin, each at one of them or right
   after one of them, if they are all of one type. *)
Borders(pages) ==
    Cardinality({p \in pages : p - 1 \notin pages})
    + Cardinality({p \in pages : p + 1 \notin pages})

(* The pages events took or gave back between the probe and now, on balance. *)
EventPages == (noise \ probed.noise) \cup (probed.noise \ noise)

(* The buffer is sized before the allocations it has to survive, its own among
   them.  It is outgrown only if the pages the bootloader keeps, with those
   that events have taken or given back since the probe, have more borders
   than the slack allows for: a page that has been freed, or that was taken
   next to another, costs nothing (main.c:242-245). *)
SlackSuffices ==
    mm.page # 0 /\ fault \in {"GetMemoryMap", "GetMemoryMap before exit"} =>
        Borders(Kept) + 2 * Cardinality(EventPages) > Slack

(* The inductive invariant behind the handoff. *)
LInv == LoaderTypeOK /\ Stages /\ MapCurrent /\ Owners

(* What elf_load_kernel has returned to efi_main by now, if it was called. *)
LoadResult ==
    IF fault = "could not load kernel.elf" THEN "error"
    ELSE IF \/ pc \in {"probe", "pool", "read", "open", "phdrs", "segments"}
            \/ fault \in {"GetMemoryMap"} \cup OpenFaults
         THEN "none" ELSE "success"

Contract == INSTANCE KernelLoading
    WITH wanted <- Len(Segments), table <- phdrs # 0, taken <- LoadedPages,
         done <- loaded, result <- LoadResult

(* efi_main goes on with a kernel that elf_load_kernel has put in place
   whole, or stops with its message, and holds nothing for it by then
   (main.c:452-461): the view of the loader here keeps the contract that the
   one of ElfLoader keeps. *)
KeepsContract == Contract!Spec

(* The kernel is entered or a reason is given, however often events race. *)
HandoffEnds == <>(pc \in {"kernel", "fatal"})

=============================================================================
