------------------------------ MODULE ElfLoader ------------------------------
(***************************************************************************)
(* The ELF loader, project/boot/elf.c: elf_load_kernel reads the header,   *)
(* then the program headers, then every PT_LOAD segment into the pages it  *)
(* takes at the segment's own address, and zeroes what the file does not   *)
(* hold.  The firmware may answer any read with fewer bytes than asked,    *)
(* and any call may fail half way through.                                 *)
(*                                                                         *)
(* A byte of memory holds the file offset it was copied from, Zero, or Old *)
(* while the loader has not touched it.                                    *)
(***************************************************************************)
EXTENDS Integers, Sequences, FiniteSets

CONSTANTS
    EFI_PAGE_SIZE,  \* bytes of a page                     (4096)
    EhdrSize,       \* bytes of the ELF header               (64)
    PhdrSize,       \* bytes of a program header             (56)
    MemoryPages,    \* pages of the machine
    Files,          \* the kernel.elf files to load
    FreeSets        \* the sets of pages that may be free beforehand

Zero == -1
Old == -2

PT_LOAD == 1

ASSUME SizesAssumption ==
    /\ EFI_PAGE_SIZE \in Nat \ {0}
    /\ EhdrSize \in Nat \ {0}
    /\ PhdrSize \in Nat \ {0}
    /\ MemoryPages \in Nat \ {0}

(* What the fields of the file's headers can hold; the table an ELF header
   announces is as long as it says, though the file may end before it. *)
Ehdr == [magic : BOOLEAN, class64 : BOOLEAN, exec : BOOLEAN, x86_64 : BOOLEAN,
         phnum : Nat, phentsize : Nat, phoff : Nat, entry : Nat]
Phdr == [type : Nat, offset : Nat, paddr : Nat, filesz : Nat, memsz : Nat]

ASSUME FilesAssumption ==
    \A f \in Files :
        /\ f \in [length : Nat, eh : Ehdr, phdrs : Seq(Phdr)]
        /\ f.eh.phnum <= Len(f.phdrs)

ASSUME FreeSetsAssumption ==
    \A pages \in FreeSets : pages \subseteq 0 .. MemoryPages - 1

VARIABLES
    file,       \* kernel.elf: [length, eh, phdrs]
    free,       \* the pages AllocatePages may still give
    mem,        \* the content of every byte of memory
    pc,         \* the statement elf_load_kernel is at
    io,         \* read_at: [what, offset, size, dest, done]
    pool,       \* is the program header table allocated?
    i,          \* the program header the loop is at
    loaded,     \* PT_LOAD segments in place
    taken,      \* (ghost) the pages AllocatePages gave
    status,     \* EFI_STATUS the function returns, "none" before it does
    entry       \* *entry, 0 until it is set

vars == <<file, free, mem, pc, io, pool, i, loaded, taken, status, entry>>

Addresses == 0 .. MemoryPages * EFI_PAGE_SIZE - 1
NoRead == [what |-> "none", offset |-> 0, size |-> 0, dest |-> 0, done |-> 0]

Pages(address, count) ==
    address \div EFI_PAGE_SIZE .. address \div EFI_PAGE_SIZE + count - 1

(* Mutant: the size in pages is rounded down. *)
PagesFor_rounded_down(ph) == ph.memsz \div EFI_PAGE_SIZE

PagesFor(ph) == (ph.memsz + EFI_PAGE_SIZE - 1) \div EFI_PAGE_SIZE

Ph == file.phdrs[i]

Init ==
    /\ file \in Files
    /\ free \in FreeSets
    /\ mem = [a \in Addresses |-> Old]
    /\ pc = "header"
    /\ io = NoRead
    /\ pool = FALSE
    /\ i = 1
    /\ loaded = 0
    /\ taken = {}
    /\ status = "none"
    /\ entry = 0

Return(result) == pc' = "returned" /\ status' = result

-----------------------------------------------------------------------------
(* read_at: seek, then read until everything is there. *)

Seek(what, offset, size, dest) ==
    /\ io' = [what |-> what, offset |-> offset, size |-> size,
              dest |-> dest, done |-> 0]
    /\ pc' = "reading"

(* Mutant: each chunk goes to the start of the buffer. *)
ReadChunk_to_the_start ==
    /\ pc = "reading"
    /\ \E chunk \in 1 .. io.size - io.done :
          /\ io.offset + io.done + chunk <= file.length
          /\ io' = [io EXCEPT !.done = @ + chunk]
          /\ mem' = IF io.what # "segment" THEN mem
                    ELSE [a \in Addresses |->
                            IF a - io.dest \in 0 .. chunk - 1
                            THEN io.offset + io.done + (a - io.dest) ELSE mem[a]]
    /\ UNCHANGED <<file, free, pc, pool, i, loaded, taken, status, entry>>

(* One Read of the firmware: at least one byte, at most what was asked for
   and what is left of the file. *)
ReadChunk ==
    /\ pc = "reading"
    /\ \E chunk \in 1 .. io.size - io.done :
          /\ io.offset + io.done + chunk <= file.length
          /\ io' = [io EXCEPT !.done = @ + chunk]
          /\ mem' = IF io.what # "segment" THEN mem
                    ELSE [a \in Addresses |->
                            IF a - io.dest \in io.done .. io.done + chunk - 1
                            THEN io.offset + (a - io.dest) ELSE mem[a]]
    /\ UNCHANGED <<file, free, pc, pool, i, loaded, taken, status, entry>>

(* Mutant: a read that returns nothing is tried again. *)
ReadFails_retrying ==
    /\ pc = "reading"
    /\ io.done < io.size
    /\ UNCHANGED vars

(* The end of the file before everything was read, or an error of the seek or
   of any read: the headers are given back, the segments are not. *)
ReadFails ==
    /\ pc = "reading"
    /\ io.done < io.size
    /\ pool' = FALSE
    /\ Return("error")
    /\ UNCHANGED <<file, free, mem, io, i, loaded, taken, entry>>

(* Mutant: a short read counts as a complete one. *)
ReadDone_when_short(what, next) ==
    /\ pc = "reading"
    /\ io.what = what
    /\ io.done > 0
    /\ pc' = next

ReadDone(what, next) ==
    /\ pc = "reading"
    /\ io.what = what
    /\ io.done = io.size
    /\ pc' = next

-----------------------------------------------------------------------------
(* elf_load_kernel. *)

ReadHeader ==
    /\ pc = "header"
    /\ Seek("header", 0, EhdrSize, 0)
    /\ UNCHANGED <<file, free, mem, pool, i, loaded, taken, status, entry>>

header_is_valid(eh) ==
    /\ eh.magic
    /\ eh.class64
    /\ eh.exec
    /\ eh.x86_64
    /\ eh.phnum # 0 /\ eh.phentsize = PhdrSize

CheckHeader ==
    /\ \/ /\ header_is_valid(file.eh)
          /\ ReadDone("header", "pool")
          /\ UNCHANGED status
       \/ /\ ~ header_is_valid(file.eh)
          /\ ReadDone("header", "returned")
          /\ status' = "error"
    /\ UNCHANGED <<file, free, mem, io, pool, i, loaded, taken, entry>>

AllocateTable ==
    /\ pc = "pool"
    /\ \/ /\ pool' = TRUE
          /\ Seek("table", file.eh.phoff, file.eh.phnum * PhdrSize, 0)
          /\ UNCHANGED status
       \/ Return("error") /\ UNCHANGED <<io, pool>>
    /\ UNCHANGED <<file, free, mem, i, loaded, taken, entry>>

TableRead ==
    /\ ReadDone("table", "loop")
    /\ UNCHANGED <<file, free, mem, io, pool, i, loaded, taken, status, entry>>

SkipOther ==
    /\ pc = "loop"
    /\ i <= file.eh.phnum
    /\ Ph.type # PT_LOAD
    /\ i' = i + 1
    /\ UNCHANGED <<file, free, mem, pc, io, pool, loaded, taken, status, entry>>

(* AllocatePages(AllocateAddress): an aligned address and free pages. *)
MayAllocate(ph) ==
    /\ ph.paddr % EFI_PAGE_SIZE = 0
    /\ Pages(ph.paddr, PagesFor(ph)) \subseteq free

AllocateSegment ==
    /\ pc = "loop"
    /\ i <= file.eh.phnum
    /\ Ph.type = PT_LOAD
    /\ MayAllocate(Ph)
    /\ free' = free \ Pages(Ph.paddr, PagesFor(Ph))
    /\ taken' = taken \cup Pages(Ph.paddr, PagesFor(Ph))
    /\ IF Ph.filesz > 0 THEN Seek("segment", Ph.offset, Ph.filesz, Ph.paddr)
                        ELSE pc' = "zero" /\ UNCHANGED io
    /\ UNCHANGED <<file, mem, pool, i, loaded, status, entry>>

(* Mutant: this path forgets the program header table. *)
AllocateFails_leaking ==
    /\ pc = "loop"
    /\ i <= file.eh.phnum
    /\ Ph.type = PT_LOAD
    /\ ~ MayAllocate(Ph)
    /\ Return("error")
    /\ UNCHANGED <<file, free, mem, io, pool, i, loaded, taken, entry>>

AllocateFails ==
    /\ pc = "loop"
    /\ i <= file.eh.phnum
    /\ Ph.type = PT_LOAD
    /\ ~ MayAllocate(Ph)
    /\ pool' = FALSE
    /\ Return("error")
    /\ UNCHANGED <<file, free, mem, io, i, loaded, taken, entry>>

SegmentRead ==
    /\ ReadDone("segment", "zero")
    /\ UNCHANGED <<file, free, mem, io, pool, i, loaded, taken, status, entry>>

ZeroBss ==
    /\ pc = "zero"
    /\ mem' = [a \in Addresses |->
                 IF a - Ph.paddr \in Ph.filesz .. Ph.memsz - 1 THEN Zero ELSE mem[a]]
    /\ loaded' = loaded + 1
    /\ i' = i + 1
    /\ pc' = "loop"
    /\ UNCHANGED <<file, free, io, pool, taken, status, entry>>

Finish ==
    /\ pc = "loop"
    /\ i > file.eh.phnum
    /\ pool' = FALSE
    /\ \/ loaded = 0 /\ Return("error") /\ UNCHANGED entry
       \/ loaded # 0 /\ Return("success") /\ entry' = file.eh.entry
    /\ UNCHANGED <<file, free, mem, io, i, loaded, taken>>

Load ==
    \/ ReadHeader \/ ReadChunk \/ ReadFails \/ CheckHeader \/ AllocateTable
    \/ TableRead \/ SkipOther \/ AllocateSegment \/ AllocateFails
    \/ SegmentRead \/ ZeroBss \/ Finish

Returned == pc = "returned" /\ UNCHANGED vars

Next == Load \/ Returned

Spec == Init /\ [][Next]_vars /\ WF_vars(Load)

-----------------------------------------------------------------------------
(* Properties. *)

Contents == {Zero, Old} \cup Nat

TypeOK ==
    /\ free \subseteq 0 .. MemoryPages - 1
    /\ mem \in [Addresses -> Contents]
    /\ pc \in {"header", "reading", "pool", "loop", "zero", "returned"}
    /\ io \in [what : {"none", "header", "table", "segment"}, offset : Nat,
               size : Nat, dest : Nat, done : Nat]
    /\ io.done <= io.size
    /\ pool \in BOOLEAN
    /\ i \in 1 .. file.eh.phnum + 1
    /\ loaded \in 0 .. file.eh.phnum
    /\ taken \subseteq 0 .. MemoryPages - 1
    /\ status \in {"none", "success", "error"}
    /\ entry \in Nat

PageOf(a) == a \div EFI_PAGE_SIZE

PtLoads == {n \in 1 .. file.eh.phnum : file.phdrs[n].type = PT_LOAD}
Loads == {file.phdrs[n] : n \in PtLoads}

(* What a linker promises of a segment: its file part fits its memory part. *)
WellFormed == \A ph \in Loads : ph.filesz <= ph.memsz

(* The program header table says what the memory must hold at address a. *)
ImageOf(ph, a) ==
    IF a - ph.paddr < ph.filesz THEN ph.offset + (a - ph.paddr) ELSE Zero

(* When the loader reports success every segment is in memory, byte for byte:
   the file's part first, then zeros ("a kernel whose globals start out as
   whatever the firmware last left", elf.c:68-72), however the firmware cut the
   reads and whatever the segments loaded after it. *)
ImageExact ==
    status = "success" /\ WellFormed =>
        \A ph \in Loads : \A a \in ph.paddr .. ph.paddr + ph.memsz - 1 :
            mem[a] = ImageOf(ph, a)

(* The loader writes only to pages the firmware gave it, also when it gives up
   half way. *)
StoresInside ==
    WellFormed => \A a \in Addresses : mem[a] # Old => PageOf(a) \in taken

Contract == INSTANCE KernelLoading
    WITH wanted <- Cardinality(PtLoads), table <- pool, done <- loaded,
         result <- status

(* The contract of elf_load_kernel: on every path out the header table is
   given back, and it reports success only with every segment of the file in
   place, however many reads and allocations failed (elf.c:163-276). *)
KeepsContract == Contract!Spec

(* A byte of the image came from inside the file: a truncated file is refused
   and never loaded in part as if it were whole (elf.c:109-114). *)
TruncatedRefused ==
    status = "success" =>
        /\ file.eh.phoff + file.eh.phnum * PhdrSize <= file.length
        /\ \A ph \in Loads : ph.filesz > 0 => ph.offset + ph.filesz <= file.length
        /\ Loads # {}

(* However short the reads are, the loader returns. *)
LoadEnds == <>(pc = "returned")

(* "Feeding the bootloader a corrupt kernel.elf has to produce a named failure
   here rather than a jump to a garbage address" (elf.c:125-127): on success
   the entry point lies in a segment that was loaded. *)
EntryLoaded ==
    status = "success" =>
        \E ph \in Loads : entry \in ph.paddr .. ph.paddr + ph.memsz - 1

=============================================================================
