# nyrf OS in TLA+

nyrf OS is a small x86_64 system in two programs: a UEFI bootloader
(`project/boot`) and an ELF kernel (`project/kernel`). They meet once, in a
single call that carries a pointer to `boot_info_t`. This directory models the
parts of both programs that keep state and have something to get wrong, checks
them with TLC on small machines, and proves with TLAPS what the checks show for
machines, files and screens of every size: the handoff of memory by the
bootloader, the physical memory manager, the two together, the ELF loader, the
exceptions, the serial log and the screen.

Paths below are relative to the repository, in `project/` unless they say
`poc1/`. `poc1/` is a frozen earlier version of the boot path. Its
`boot/main.c`, `boot/elf.c` and `boot/serial.c` differ from those of `project/`
in comments and `#include` lines only, so what is said of those files holds of
both; its kernel has no descriptor tables and no allocator.

## The system

| Component | Code | State | Operations |
| --- | --- | --- | --- |
| Bootloader | `boot/main.c` | `memory_map_t mm`, the BootInfo page, the attempt counter | `get_memory_map`, `open_kernel`, `efi_main` |
| ELF loader | `boot/elf.c` | position in the file, the program header table, memory | `read_at`, `header_is_valid`, `elf_load_kernel` |
| UEFI firmware | external, `include/uefi.h` | types of pages, the map key, whether boot services live | `AllocatePages`, `AllocatePool`, `FreePool`, `GetMemoryMap`, `ExitBootServices`, its own events |
| Physical memory manager | `kernel/mm/pmm.c` | `bitmap`, `page_count`, `free_pages`, `next_word` | `pmm_init`, `pmm_self_test`, `pmm_alloc_page`, `pmm_free_page` |
| Descriptor tables, exceptions | `kernel/arch/x86_64/{gdt,tss,idt}.c`, `gdt_flush.asm`, `isr.asm` | `gdt`, `tss`, `idt`, the registers that point at them, the frames on the stack | `gdt_init`, `tss_init`, `idt_init`, the stubs, `exception_dispatch` |
| Serial log | `kernel/dev/serial.c` | the UART: divisor latch, FIFO, shift register | `serial_init`, `serial_putc`, `serial_printf` and its conversions |
| `kernel_main` | `kernel/main.c`, `entry.asm` | none of its own | calls the others in order, draws, halts |
| Graphics and test pattern | `boot/main.c`, `kernel/main.c` | the framebuffer | `locate_gop`, `normalise_pixel_format`, `pack`, the drawing loop |
| ACPI root pointer, console mirror | `find_rsdp`, `con_print` of `boot/main.c` | a fallback, a buffer of 128 units | a search, a copy |
| Freestanding runtime | `kernel/lib/string.c` | none | `memset`, `memcpy`, which nothing calls |
| Build | `Makefile`, CI | none | two toolchains, image, QEMU runs |

How they interact: the bootloader calls the firmware for memory and the file,
and the ELF loader calls it for pages at fixed addresses. While boot services
live, the firmware's events run between any two statements of the bootloader,
and every allocation changes the map and its key. The map goes to the kernel
through `bi->mmap_ptr`, `mmap_size` and `desc_size`; `pmm_init` trusts it enough
to write a bitmap wherever it says there is free memory. The kernel runs with
interrupts masked on one processor: after the handoff the only things that
happen on their own are exceptions and the UART's sending. Both programs drive
the same UART, each with its own `serial_init`.

The hard behaviours, and what has to hold in each component:

- *Bootloader.* Reading the map, allocating for it and leaving boot services
  are separate calls between which events run. The map the kernel inherits has
  to be the map of the moment boot services end; the loop has to end; nothing
  the kernel still reads may be of a type that becomes free.
- *ELF loader.* Short reads, end of file in the middle, failures after some
  segments are in place. On success memory is the image, byte for byte; on
  every path the header table is given back; nothing is stored outside the
  pages the firmware gave.
- *Memory manager.* A count, a cursor and a bitmap that must agree after any
  sequence of calls; a bitmap that lives in the memory it describes. No frame
  is lost or given twice, 0 means exhausted, and the manager's own stores stay
  in free memory.
- *Exceptions.* They strike at any statement, on a broken stack, and inside each
  other. Until `lidt` none of them has a report and any may reset the machine;
  from then on each is reported, and truthfully.
- *Serial log.* Two registers share an address, the UART sends at its own
  pace, and an exception may cut a line anywhere and print over the same UART.
  The log is in order and complete, but for what a second `serial_init` throws
  away and what an exception cuts off, and the UART has its speed and format
  whatever state it was in.
- *Screen.* The geometry and the byte order come from the firmware, are reduced
  in one program and used in the other. The picture the kernel draws has to be
  the intended one on the screen the firmware described, and no store may land
  outside the framebuffer unless the log has warned of it.

## Modules

| Module | Models | Runs |
| --- | --- | --- |
| `FrameAllocator` | what `pmm.h` promises, whatever the implementation | refined by `Pmm` |
| `Pmm` | `kernel/mm/pmm.c` | `pmm_contract`, `pmm_any`, `pmm_kernel`, `pmm_zero` |
| `PmmProofs`, `PmmContractProofs` | proofs about `Pmm` | |
| `MemoryMap` | descriptors, and the array `GetMemoryMap` makes of a machine | used by `Firmware` and `MCPmm` |
| `Firmware` | boot services for memory, and events (external) | used by `BootLoader` |
| `BootLoader` | `boot/main.c` with the memory side of `boot/elf.c` | `boot_loader` |
| `BootLoaderProofs` | proofs about `BootLoader` | |
| `NyrfBootProofs`, `ElfLoaderProofs`, `ExceptionsProofs`, `SerialProofs` | proofs about `NyrfBoot`, `ElfLoader`, `Exceptions`, `Serial` | |
| `Poc1Proofs` | proofs about `Screen` as `Poc1` runs it | |
| `KernelLoading` | what `elf_load_kernel` promises `efi_main` | refined by `ElfLoader` and `BootLoader` |
| `Screen` | the console, the framebuffer and the RSDP in `boot/main.c`, the drawing in `kernel/main.c` | used by `Poc1` |
| `Poc1` | POC 1 from start to halt: `BootLoader` and `Screen` | `poc1` |
| `NyrfBoot` | `BootLoader`, then `Pmm` on the map it hands over | `nyrf_boot` |
| `ElfLoader` | `boot/elf.c` with the content of memory | `elf_loader`, `elf_entry` |
| `Serial` | `kernel/dev/serial.c` over a 16550, cut by `exception_dispatch` | `serial`, `serial_loss` |
| `Exceptions` | `gdt.c`, `gdt_flush.asm`, `tss.c`, `idt.c`, `isr.asm` over the processor | `exceptions` |
| `MC...` | the small instances | |

Names are the source's wherever TLA+ allows it. `PROJECT.json` maps every
definition to the lines it stands for.

**Pmm.** An address is its page number, with an offset where the code looks at
one. The bitmap is the set `used` of bits that are 1; a bit operation works on a
set of pages, and the set form of `mark_used` and `mark_free` counts only the
bits that change, which is what the code's loop over single pages amounts to.
`pmm_init` is one action per pass (`SizeBitmap`, `PlaceBitmap` or
`NoRoomForBitmap`, `CarveFree`, `ReserveRanges`), because what is stored between
the passes is what the hazards are about. `pmm_self_test` has an action for each
allocation, check, verification and free. The constants are the word and page
sizes, the low-memory limit, the kernel's symbols, the number of pages the test
takes and the set of possible maps. Three specifications differ in the callers:
`Spec` returns only what it holds (the contract of `pmm.h:44-47`),
`SpecUnchecked` also returns the failure value, `SpecAny` returns anything.
`held`, `ret` and `writes` are history variables: who holds what, the last
result, and every page the manager has stored to.

**Firmware and BootLoader.** A machine is a function from pages to types; the
map is computed from it when it is asked for, one descriptor per maximal run of
a type. A pool allocation takes a page or shares one. Every allocation or
release makes the key stale. The firmware starts with some pages of boot-
services data, which its events may give back at any time, as they may take
others. `BootLoader` has one action per call or statement of `efi_main` that
touches this state. It begins at the probe of the map; an event before that
would only have made another machine to begin with. `raced` remembers whether an
event ran since the map was last read, `probed` what the machine was at the
probe. `elf_load_kernel` appears here by the calls it makes (`AllocateHeaders`,
`LoadSegment`, `LoadFails`, `FreeHeaders`), its reads by their failure; each call
that can fail has its message (`ProbeFails`, `OpenFaults`);
`ElfLoader` models the same function by what it copies. Both are shown to
implement `KernelLoading`: one table, held only while the function works; pages
taken and never given back; success with every segment in place or failure; and
nothing after the return. That is what entitles `BootLoader` to leave the bytes
out.

**Screen and Poc1.** A mode is the geometry, the size and the pixel format the
firmware reports; a framebuffer word is its four bytes, lowest first. `con_print`
advances one character at a time, `find_rsdp` one table at a time, the drawing
loop one row at a time, in two steps because the frame is drawn over the bars.
`EnterKernel` and what follows use `info`, the fields of BootInfo, and nothing
the bootloader knew besides; the properties compare the result with `gop`, what
the firmware said. `Poc1` interleaves `Screen` with `BootLoader` where `efi_main`
does: screen before the first map, RSDP after it, BootInfo's fields when its page
has been allocated, drawing after the exit.

**NyrfBoot.** `EnterPmm` is `kernel_main` passing `bi` to `pmm_init`: the map
`Pmm` starts from is exactly what the buffer held when boot services ended. The
state of `Pmm` is that of its own `Init`, with the extra phase "off" before it.

**ElfLoader.** A byte of memory is the file offset it came from, `Zero`, or
`Old` if the loader never wrote it. A read is a state of its own (`io`), each
chunk a step of any size the firmware likes. An error of a read is possible at
every step, so that every error path is taken.

**Exceptions.** Each statement of the boot that changes what the processor sees
is an action. A gate and the TSS descriptor hold the address cut into the fields
of the code, and the processor's side puts them together again. The frame is the
sequence of words pushed by the processor, the stub and `isr_common`, read
through the order of the members of `exception_frame_t`. What the interrupted
code was doing is left open: its stack may be good or not, aligned or not.
Access bytes, limits and flags are reduced to the kind of the row. Before `lidt`
an exception goes to the firmware (`DeliverByFirmware`): the machine may reset,
as `idt.h:9-14` says, or a handler of the firmware's may take it as long as the
selector in its gates is still that of code.

**Serial.** A byte of the log is its index among all bytes sent, so that a lost,
repeated or displaced byte shows. The registers that share an address do so
here: the data register and the divisor's low byte, the interrupt mask and its
high byte, the latch and the word format in the line control register. The mask
itself is left out, nothing takes an interrupt of the UART. A byte on its way
when the format changes is sent whole, as QEMU's 16550 does; on a real line a
byte still being sent when the kernel's `serial_init` runs could arrive garbled.
A character is a letter or a name; numbers are
converted as the code converts them, digit by digit, through a buffer of the
length of `serial_put_dec`'s: a digit stored past it shows as "overrun".
`Convert` is one turn of `serial_printf`'s loop: how far the turn goes in the
format (`Width`), how many arguments it takes (`Takes`) and what it hands to
`serial_putc` (`Handed`). Each call of the constants carries the text it is to
print. Once the calls that follow `idt_init` are reached, `ExceptionStrikes` may
replace the program by the report at any step; `cut` remembers how much had been
sent. One exception is enough here: what a second one does to a report is in
`Exceptions`.

## Runs

Every run starts in the states the code can start in and checks deadlock.

| Run | Distinct states | What it shows |
| --- | --- | --- |
| `pmm_contract` | 33,352 | `TypeOK`, `ZeroMeansExhausted`, `Conservation`, `WritesSafe`, `CarveInBounds`, `SelfTestVerdict`, `AllocLowest` and the refinement of `FrameAllocator` |
| `pmm_any` | 357,230 | `BitmapSound`: count, tail and cursor are right whatever the callers free |
| `boot_loader` | 53,597 | the handoff: `InheritedMapTrue`, `HandoffProtected`, `OnlyEventsRace`, `SlackSuffices`, `KeepsContract`, and that it ends (`HandoffEnds`) |
| `nyrf_boot` | 60,388 | both halves: `MemoryIntact`, `FramesComplete`, and that the boot ends (`BootEnds`) |
| `elf_loader` | 24,521 | `ImageExact`, `StoresInside`, `TruncatedRefused`, `KeepsContract`, `LoadEnds` |
| `poc1` | 23,020 | `ConsoleRight`, `BootInfoTrue`, `StoresInFramebuffer`, `PictureExact`, `PocEnds` |
| `serial` | 18,892 | `Configured`, `InOrder`, `LossBounded`, `LogRight`, `LogReachesWire` |
| `exceptions` | 20,755 | `TypeOK`, `ReportedOnceLoaded`, `FrameTrue`, `CallAligned`, `EvidenceKept`, `Cr2True`, `ReportEnds` |

Four runs have a counterexample, each against a sentence of the repository:

- `pmm_kernel`. The comment at `pmm.c:219-222` says that reserving the kernel's
  pages "survives a bootloader change that forgets to" exclude them. It does not:
  the bitmap is placed and filled first, and with such a map the kernel's own
  region is the first candidate.
- `pmm_zero`. `pmm.h:40-41` says page 0 is never handed out. A caller that frees
  the failure value 0 passes every check of `pmm_free_page`, and the next
  allocation returns page 0, which reads as "exhausted".
- `elf_entry`. `elf.c:125-127` says a corrupt file must not end in a jump to a
  garbage address. `e_entry` is not compared with anything.
- `serial_loss`. `serial.h:27-30` says a line is on the wire before the next
  statement runs. The last byte is only in the UART, and the kernel's
  `serial_init` clears the FIFO it may still be in. `LossBounded` says that this
  is all: one byte, the last before the call.

Where else a comment and the code differ, without a run of its own: the search
is called next-fit (`pmm.c:66-69`, `pmm.c:237`) and is first-fit, which
`AllocLowest` says and TLAPS proves; `kernel/main.c:231-234` still says there is
no IDT and `kernel/main.c:3-6` that there are no tables and no allocator; the
slack of eight descriptors (`main.c:242-245`) "removes a whole class of retry",
but a map that outgrows it is fatal rather than retried, which takes two pages
of events on any machine (`EightDescriptorsDo`) and no more than two on the one of
`boot_loader`; `kernel/main.c:182-186` says that the
last bar absorbs the columns left over when the width is not a multiple of three,
which is true of their colour, but their brightness starts again at the dark end
(`PictureExact` states that as what the code does), where `kernel/main.c:8-9`
promises a dark-to-bright ramp: with a width of 3n + 2, such as 800 or 1280, one
such column is visible inside the frame; `boot/main.c:180-185` accepts "the two
masks that happen to match our two layouts" and compares the red one only;
`idt.h:9-14` says that until `idt_init` the first fault resets the machine in
silence "either way", also before `gdt_init`, where it is up to the firmware's
handler: the model allows both there and claims neither.

### Bounds

- `MCPmm`: eleven pages, words of two bits, a word a quarter of a page. Regions
  begin and end inside words, some are too small for the bitmap, and the kernel
  ends inside a page. All 2,187 layouts of the upper seven pages are tried, in
  ascending and descending descriptor order. The self-test takes 3 pages as in
  the code; machines with fewer exist among the layouts. `pmm_any` has fewer
  layouts, because its callers free any address, aligned or not.
- `MCBootLoader`: thirteen pages. A request at any address may get one of five
  pages, of which one is the kernel's (so loading can fail) and the others each
  split a region. Two pages of events at once are enough to outgrow a slack of
  eight descriptors, the value in the code. The firmware starts with no page
  in use; with three adjacent pages of data, of which events may give back the
  middle one first and so split a run of their own; or with code on two of the
  five, where a request can find no page left. Attempts are three.
- `MCNyrfBoot`: ten pages, one page of events, two attempts, a self-test of two
  pages; no page of boot-services data or one, on a page that is asked for or on
  another; a hole or runtime memory at the top. It
  is smaller than the two machines it composes, because it is about what one
  hands to the other.
- `MCElfLoader`: files of at most eight bytes, two program headers of seven
  kinds each, nine headers (one broken in each way `header_is_valid` names), four
  lengths, so that a file can end inside the header, the table or a segment.
- `MCSerial`: numbers of two hexadecimal digits for sixteen and a buffer of four
  decimal ones for 21, in both cases one more than the largest number needs; one
  boot's worth of calls with every specifier, 0, the largest
  value of the width, an unknown specifier and a trailing `%`, and a report of
  three lines that may begin at any step of the last three calls. The texts are
  written out by hand; that `Expansion` makes them of the formats is part of
  `TextsAssumption`, which TLC evaluates.
- `MCPoc1`: ten geometries, up to eight by five pixels: narrower than three
  columns, 0, 1 and 2 columns left over, one row, padded rows, a row start above
  `U32` (1024 here), a framebuffer too small; all four kinds of format, masks
  known and unknown; four arrays of configuration tables; every text of up to
  five characters for a buffer of six units. The loader's part is five pages and
  two attempts, because `boot_loader` has the larger machine.
- `MCExceptions`: all 32 vectors and one above, two levels of nesting. Two is
  what it takes for one report to meet another. A byte of an address has four
  values, which keeps numbers small and every field non-trivial.

### Fairness

`LoaderSpec` is fair to the bootloader and not to the firmware's events: the
processor keeps executing statements, and events may come forever or never. In
`BootSpec` the same holds of `pmm_init` and the self-test; the kernel's later
calls are not fair, nobody promises that they happen. `ElfLoader` is fair to
`Load` as a whole: each `Read` returns. `Serial` is fair to the software and to
the UART, which sends whatever it has. `Exceptions` is fair to the boot code and
to the report, never to an exception. `PocSpec` is fair to the two programs and
not to the events, like `LoaderSpec`. There is no fairness on any choice: which
page is served or how long a read is stays open.

## Proofs

About the manager, `PmmProofs` and `PmmContractProofs` hold
for every word size, page size, kernel position and set of memory maps. They
assume `ConstantsAssumption` and `MapsAssumption` of `Pmm`: sizes are positive,
the kernel does not end before it starts, and a map is a sequence of descriptors
with at least one page each. Nothing is assumed about the order of descriptors
or whether they overlap.

About the handoff, `BootLoaderProofs` holds for every machine, kernel file,
slack, number of attempts and sequence of events. It assumes `LoaderAssumption`
of `BootLoader` (every segment has pages, none of them page 0; there is at least
one attempt) and `MachineAssumption` of `Firmware` (the machine has finitely many
pages, each of one of the types of the model; no request is answered with
page 0, whose address is `NULL`).

About both, `NyrfBootProofs` assumes what they do (`KernelAssumption` is the
first of them, for the constants of `pmm.h`) and `LinkAssumption`: the image
`link.ld` marks out lies in what the loader loads.

About the ELF loader, `ElfLoaderProofs` holds for every file, every memory and
every choice of free pages. `SizesAssumption`, `FilesAssumption` and
`FreeSetsAssumption` say that sizes are positive, that the fields of the headers
are unsigned numbers, and that free pages are pages of memory. A file may end
anywhere, and headers may overlap each other, the file or nothing at all.

About the exceptions, `ExceptionsProofs` holds for every depth of nesting, every
vector, any width of a byte and all addresses of the handlers. It assumes
`VectorsAssumption` (8 is a vector), `AddressesAssumption` (addresses are as wide
as the fields they are cut into, and no two stubs share one) and
`StacksAssumption`: a stack the kernel may be on is apart from the double-fault
stack by what the reports take. `double_fault_stack` is 4,096 bytes, that is room
for 21 reports of at most 24 words. What a frame says, and where frames lie, is
proved under `ErrorCodesAgree`: the processor pushes an error code exactly for
the vectors `isr.asm` declares with `ISR_ERRCODE`. It holds of the instance TLC
checks; on a processor that pushes one for vectors 29 or 30 too the frames of
those are wrong, which is among the hazards.

About the serial log, `SerialProofs` holds for every sequence of calls, every
report and everything the firmware may have left in the UART. `ProgramAssumption`
says that the log begins with `serial_init`, that none comes after `idt_init`, and
that a report only prints; `LeftoversAssumption`, that what the FIFO holds at the
start is not of the log. The order of the log needs nothing about the formats.
`BufferAssumption` says that the largest number fits the buffer of
`serial_put_dec`, as 16^16 <= 10^21 does.
Its text needs `TextsAssumption`: each call is one of the two functions, its
arguments are of the kinds its format asks for, as the comment at
`serial.c:168-174` demands of the callers, and its text is what the table of
`serial.h:36-44` makes of the format (`Expansion`).

About the screen, `Poc1Proofs` holds for every mode, text and array of
configuration tables. It assumes `ModesAssumption`, `WordAssumption`,
`ConsoleAssumption` (the buffer of `con_print` has two units more than its
limit) and `TablesAssumption`. The geometry of the picture, its frame included,
is proved of every pixel format; the colours of the bars of the two layouts
`pack` has code for (`KnownFormat`). `PictureIsExact` alone needs
`NarrowScreens`: a third of the width times 223 fits in 32 bits, as it does
under 57 million columns. On a wider screen the product of `main.c` would wrap
and the bars would not rise.

| Theorem | States |
| --- | --- |
| `AnyCallerInvariant` | `SpecAny => []BitmapSound` |
| `ContractInvariant`, `TypeCorrect` | `Spec => []IInv`, `Spec => []TypeOK` |
| `FramesConserved` | `Spec => []Conservation` |
| `ZeroIsExhaustion` | `Spec => []ZeroMeansExhausted` |
| `AllocationIsLowest` | `Spec => AllocLowest` |
| `StoresAreSafe` | `KernelExcluded` implies `Spec => []WritesSafe` |
| `PmmImplementsFrameAllocator` | `Spec => Refinement` |
| `CarvedPagesHaveBits` | `Spec => []CarveInBounds` |
| `SelfTestIsExact` | `Spec => []SelfTestVerdict` |
| `LoaderInvariant` | `LoaderSpec => []LInv` |
| `HandoffMapTrue` | `LoaderSpec => []InheritedMapTrue` |
| `HandoffIsProtected` | `LoaderSpec => []HandoffProtected` |
| `RefusalMeansEvent` | `LoaderSpec => []OnlyEventsRace` |
| `SlackInvariant`, `OnlyBordersOutgrow` | `LoaderSpec => [](LInv /\ SlackInv)`, `LoaderSpec => []SlackSuffices` |
| `EightDescriptorsDo` | `Slack >= 8 /\ OneBlock` implies `LoaderSpec => []EightSuffice` |
| `LoaderKeepsContract` | `LoaderSpec => KeepsContract` |
| `BootInvariant` | `BootSpec => []BInv` |
| `MemoryStaysIntact` | `BootSpec => []MemoryIntact` |
| `NoFrameIsMissed` | `BootSpec => []FramesComplete` |
| `LoadInvariant`, `LoaderTyped` | `Spec => []FInv`, `Spec => []TypeOK` of `ElfLoader` |
| `StoresAreInside` | `Spec => []StoresInside` |
| `ImageIsExact` | `Spec => []ImageExact` |
| `TruncatedIsRefused` | `Spec => []TruncatedRefused` |
| `ElfKeepsContract` | `Spec => KeepsContract` of `ElfLoader` |
| `ExceptionInvariant`, `TypeCorrect` | `Spec => []EInv`, `Spec => []TypeOK` of `Exceptions` |
| `NoSilentReset` | `Spec => []ReportedOnceLoaded` |
| `Cr2InTheLog` | `Spec => []Cr2True` |
| `FramesTrue`, `FramesNest` | `ErrorCodesAgree` implies `Spec => []FrameTrue`, `Spec => []Layout` |
| `CallsAligned` | `ErrorCodesAgree` implies `Spec => []CallAligned` |
| `EvidenceIsKept` | `ErrorCodesAgree` implies `Spec => []EvidenceKept` |
| `SerialInvariant`, `TypeCorrect` | `Spec => []SerialInv`, `Spec => []TypeOK` of `Serial` |
| `UartIsConfigured` | `Spec => []Configured` |
| `LogStaysInOrder` | `Spec => []InOrder` |
| `OnlyTheLastByteIsLost` | `Spec => LossIsLast` |
| `TextInvariant`, `LogIsRight` | `Spec => []TextInv`, `Spec => []LogRight` |
| `LossIsBounded` | `Spec => []LossBounded` |
| `ScreenInvariant` | `PocSpec => []SInv` |
| `ConsoleShowsText` | `PocSpec => []ConsoleRight` |
| `BootInfoIsTrue` | `PocSpec => []BootInfoTrue` |
| `StoresAreInside` of `Poc1Proofs` | `PocSpec => []StoresInFramebuffer` |
| `PictureIsExact` | `NarrowScreens` implies `PocSpec => []PictureExact` |

*The manager.* `CountExact` alone is not inductive: the count changes by the
number of bits that change, which is right only if they are bits of the bitmap,
and that needs the pages carved free to lie below the end pass 1 found
(`Sized`), and the stage each pass leaves for the next (`Stages`). `CursorLow`
is what makes a search from the cursor see every word that matters, and
`SearchFindsLowest` derives from it that the first word that is not full holds
the lowest clear bit of the whole bitmap. Together these are `IInv`, which holds
whoever calls.

Under the contract, `CInv` adds who holds what. `HeldStages` ties the pages the
self-test is in the middle of giving back to `held`, so that its frees are never
refused. `Conservation` is then kept because an allocation moves one page across
and a free moves it back. `WritesSafe` follows from `Conservation` for the
self-test's tags, and for the bitmap from `HoldsBitmap` and
`BitmapInsideRegion`, which says that the pages the bitmap covers are pages of
the region it was put in; only this step needs that the map keeps the kernel out
of free memory. Refinement maps the passes of `pmm_init` to a stutter until
`ReserveRanges`, which is the abstract start.

*The self-test.* That its last comparison of counts can never fail needs to know
what the first count was. `TestOwns` says that it was the number of frames there
are, and that the pages the test has taken are all that anyone holds; with
`Conservation` and `CountExact` the count at the end is the count at the start
(`CountIsAllocatable`), an allocation that answers 0 means the machine has no
more frames than the test had already taken (`DistinctCount`), and the address
check cannot fail.

*The handoff.* `LInv` has four parts: the types; what each statement leaves for
the next (`Stages`); that the buffer is the map of the machine unless an event
ran since it was read, and that it is when the key was accepted (`MapCurrent`);
and who owns which page (`Owners`). The last is there because two pool
allocations may share a page: giving back the program headers frees the page
under the map as well unless the count of its uses is right. `InheritedMapTrue`
is then `MapCurrent` at the moment the key is accepted. `HandoffProtected` also
needs a fact about maps: every page that is not in a hole lies in a descriptor
with its type (`MapCovers`), because going down from the page the first page of
another type bounds a run (`RunOfPage`), going up another one does
(`RunEndFacts`), and the runs are numbered without gaps (`NthFacts`).
`KeepsContract` follows action by action: those of `efi_main` that load nothing
are stutters of `KernelLoading`.

*The slack.* `SlackSuffices` compares the map that did not fit with the one the
buffer was sized for, many steps earlier. `SinceProbe` says what may differ
between the two machines: a page that is in use, by the bootloader or by an
event, was free at the probe unless an event held it then, and every other page
is what it was, with the same exception. Each allocation takes pages that are
free and each release makes them free again, so that one lemma
(`SinceProbeMoves`) covers all of them; a page under two pool allocations stays
where it is. The rest is about maps: a run that begins now and did not at the
probe begins at a page that has changed or right after one, and inside a block
of pages of one type none begins (`NewStarts`), which counted gives `MapGrowth`.
With the map, BootInfo and a kernel in one block there are three borders on each
side (`BlockBorders`): six descriptors, so that of eight two are left for one
page of an event (`EightDescriptorsDo`). That the segments of the kernel are one
block (`OneBlock`) is what `link.ld:39-74` makes of them, each section beginning
on the page boundary after the one before.

*The whole boot.* The manager's proofs are about a map that keeps the kernel out
of free memory, and the bootloader's say that the map handed over is that of the
machine, where the kernel's pages are of a loader's type. `BInv` puts the two
together: up to `EnterPmm` it is `LInv`, at `EnterPmm` the map is one of
`GoodMaps`, and from there on `IInv` and `CInv` hold of the manager's variables
while those of the bootloader stand still. `Pmm` occurs twice, once as
`NyrfBoot` runs it, once as `PmmContractProofs` proves it for `GoodMaps`; a step
of the one is a step of the other (`SameNext`). The free pages of the map are
those of the machine (`MapShowsFreePages`), because it covers every page and
each descriptor has the type of its pages.

*The ELF loader.* That a segment is exact when its bytes are copied is not
enough: a later segment must not undo it. `FInv` says that the pages of the
segments before the current one are the loader's own and apart from the current
one's, which `AllocatePages` gives because it hands out free pages only
(`free` and `taken` are disjoint), and how many bytes of the current one are in
place. `Placed` counts the segments in place by position in the table, so that
`loaded` is their number and nothing has to be summed. That a read takes no byte
past the end of the file is `ReadsFile`. `KeepsContract` maps the loop to the
steps of `KernelLoading` by the segments done.

*The exceptions.* `EInv` says what the tables hold at each statement. Its
arithmetic is `GateNamesHandler`: the three fields of a gate, put together by
the processor, are the address that was cut, for any width of a byte. From that,
every exception after `lidt` finds its stub, also when its delivery fails at
first, so that a reset needs the firmware's table. `Cr2Kept` ties each line
printed to the fault it is about. `Layout` gives every frame its place: below
the top of its stack, at most 24 words for each frame before it, and the
double-fault stack is entered once and never left. Alignment and `EvidenceKept`
are read off it.

*The serial log.* `Configured` needs to know how far `serial_init` has got
(`SetUp`): each half of the divisor and the format are right from the write that
sets them on, and `Latched` is why those writes and no others reach the divisor.
`InOrder` is not inductive alone: a byte written with the
divisor latch on would go to the divisor, and one written into a FIFO that is not
empty could be discarded along with others. `SerialInv` says that the latch is on
only inside `serial_init` or before the first one (`Latched`), that `serial_putc`
is never at work there (`Sending`, `SetUpFirst`), and that the FIFO holds nothing
of the log, or its last byte (`AtRisk`), which is what polling is for. A written
byte then has an index above all others (`AppendKeepsOrder`), and clearing the
FIFO takes at most the last one away (`FrontInOrder`).

`LogRight` speaks of the moments between calls. `TextInv` says at every step what
has been sent: what was there when the exception struck, the texts of the calls
that have returned, and of the current call a part. The part is tied to the
expansion of its format by a mark (`Printed`): the mark a number of turns of the
loop have reached, with the text of these turns less what still waits in `todo`,
the CR of a pending LF counted as sent once it is. A step of `PutByte` moves one
character from the one side to the other, a turn of `Convert` moves on to the
next mark, and a format ends when its marks stand still (`MarksGrow`), which is
why as many turns as it has characters are enough. `Joined` and `Expansion` are
recursive functions; that they have their equations at every position is shown
with sets, by the least number at which one would fail (`UpTo`). At the cut the
part is a prefix of the text of its call, so the log is a prefix of the whole.
`LossIsBounded` follows: the byte at risk is the last one of what the calls
before `serial_init` have printed, and `TextInv` says how much that is.

*The screen.* `Known` carries the firmware's mode through to BootInfo. `Printing`
says that the units written are the first `con.read` characters, expanded, and
leave room for two more. `Expand` is a recursive function; that a function
with its equation exists is shown by the least number of characters for which
there is none (`LeastNumber`, from the well-foundedness of the numbers), which
gives its equation at every position (`ExpandSteps`). `Searching` says what the
tables seen so far come to. `Painting` says that the rows above the one being
drawn are finished and that nothing else is written; a row's words lie below the
start of the next one because rows are no longer than the stride (`RowsBelow`).
`PictureExact` is then about one row: a white word is white in any byte order, the
column's third names its colour (`PixelShows`, by the two layouts of
`KnownLayouts`), and within a third the brightness rises because the offset does
(`LevelsRise`).

What is model-checked and not proved is liveness, which is out of the prover's
reach: `HandoffEnds`, `BootEnds`, `LoadEnds`, `PocEnds`, `LogReachesWire`,
`ReportEnds`. Every invariant and every action property of a passing run is also
proved, under the assumptions named above.

## Not modelled

- `memset` and `memcpy` in both programs: nothing calls them by name.
- Structure layouts, which `_Static_assert` fixes at compile time, with the
  exception of `exception_frame_t`.
- 64-bit overflow of addresses: a map whose regions end near 2^64, or an ELF
  whose sizes wrap, is not among the inputs.
- An ELF segment with more bytes in the file than in memory: the run contains
  one, the properties about its memory do not cover it.
- A screen mode of width 0, and one whose rows are shorter than they are wide:
  `ModesAssumption` of `Screen` excludes both.
- What a failed `ExitBootServices` leaves of the firmware: `Firmware` takes the
  comment at `boot/main.c:543-547` at its word, that it is intact.
- `report_memory_map`, which only prints, the watchdog, and the file handles of
  `open_kernel`.
- The build, the image and the QEMU runs.

## Plan

Done: `Pmm` with its abstraction and proofs, the self-test included; the
firmware and the bootloader, and the proofs about the handoff and about the room
for the map; their composition with `Pmm`, proved; the ELF loader, and the
contract that both views of it keep, proved; the screen from `locate_gop` to the
last pixel, and POC 1 as a whole, proved; the exceptions, proved; the serial
log, cut by an exception, its order, its text and its losses proved.

What is still outside the model is under "Not modelled", each with its reason.
