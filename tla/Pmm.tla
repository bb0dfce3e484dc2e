-------------------------------- MODULE Pmm --------------------------------
(***************************************************************************)
(* The physical memory manager, project/kernel/mm/pmm.c: pmm_init builds a *)
(* bitmap of pages from the UEFI memory map, pmm_self_test exercises it on *)
(* every boot, then pmm_alloc_page and pmm_free_page serve the kernel.     *)
(*                                                                         *)
(* An address is its page number (and, where the code looks at it, an      *)
(* offset inside the page); the bitmap is the set of its bits that are 1.  *)
(***************************************************************************)
EXTENDS Integers, Sequences, FiniteSets, Functions

CONSTANTS
    WordBits,        \* bits of a bitmap word                          (64)
    WordSize,        \* bytes of a bitmap word                          (8)
    PageSize,        \* PMM_PAGE_SIZE, in bytes                      (4096)
    LowMemoryLimit,  \* LOW_MEMORY_LIMIT, in bytes                  (1 MiB)
    KernelStart,     \* __kernel_start, in bytes
    KernelEnd,       \* __kernel_end, in bytes
    SelfTestPages,   \* SELF_TEST_PAGES                                 (3)
    Maps             \* the memory maps the bootloader may hand over

(* The types of uefi.h that the manager tells apart; "other" stands for the
   ACPI, runtime-services and MMIO types. *)
MemTypes == {"conventional", "bsCode", "bsData", "loaderCode", "loaderData",
             "other"}

Descriptors == [type : MemTypes, start : Nat, pages : Nat \ {0}]

ASSUME ConstantsAssumption ==
    /\ WordBits \in Nat \ {0}
    /\ WordSize \in Nat \ {0}
    /\ PageSize \in Nat \ {0}
    /\ LowMemoryLimit \in Nat \ {0}
    /\ KernelStart \in Nat
    /\ KernelEnd \in Nat
    /\ SelfTestPages \in Nat
    /\ KernelStart <= KernelEnd

ASSUME MapsAssumption == Maps \subseteq Seq(Descriptors)

VARIABLES
    map,          \* the memory map in BootInfo: a sequence of descriptors
    phase,        \* what the boot processor is executing
    why,          \* the reason pmm_fatal gave, "none" while running
    page_count,   \* pages the bitmap covers, from page 0
    bitmap,       \* first page of the bitmap, 0 for NULL
    used,         \* the bits of the bitmap that are 1
    free_pages,   \* the running count of clear bits
    next_word,    \* the word the next search starts from
    tested,       \* pmm_self_test: pages[0 .. i-1]
    before,       \* pmm_self_test: the free count on entry
    held,         \* (ghost) pages handed out and not yet returned
    ret,          \* (ghost) what the last call returned, NoResult if nothing
    writes        \* (ghost) the pages the manager has stored to

bits == <<used, free_pages, next_word>>
test == <<tested, before>>
ghost == <<held, ret, writes>>
vars == <<map, phase, why, page_count, bitmap, bits, test, ghost>>

NoResult == -1

-----------------------------------------------------------------------------
(* Geometry of the bitmap and of the map. *)

CeilDiv(a, b) == (a + b - 1) \div b

BitmapWords == CeilDiv(page_count, WordBits)
BitmapBytes == BitmapWords * WordSize
Bits == 0 .. BitmapWords * WordBits - 1
Word(w) == w * WordBits .. w * WordBits + WordBits - 1

PagesOf(d) == d.start .. d.start + d.pages - 1
Conventional(m) ==
    UNION {PagesOf(d) : d \in {e \in Range(m) : e.type = "conventional"}}

may_become_free(type) ==
    type \in {"conventional", "bsCode", "bsData", "loaderCode"}

(* The pages of [base, base + size), rounded outwards. *)
PagesCovering(base, size) ==
    base \div PageSize .. CeilDiv(base + size, PageSize) - 1

LowPages == PagesCovering(0, LowMemoryLimit)
KernelPages == PagesCovering(KernelStart, KernelEnd - KernelStart)
BitmapPagesAt(page) == PagesCovering(page * PageSize, BitmapBytes)
BitmapPages == BitmapPagesAt(bitmap)

-----------------------------------------------------------------------------
(* Bit operations.  Each looks at the old value, so that a page already in
   the wanted state does not move the count. *)

page_is_used(page) == page \in used

(* Mutants of mark_used: one counts a page that was already used, one counts
   the page and forgets its bit. *)
mark_used_always_counts(pages) ==
    /\ used' = used \cup pages
    /\ free_pages' = free_pages - Cardinality(pages)

mark_used_without_bit(pages) ==
    /\ used' = used
    /\ free_pages' = free_pages - Cardinality(pages \ used)

mark_used(pages) ==
    /\ used' = used \cup pages
    /\ free_pages' = free_pages - Cardinality(pages \ used)

mark_free(pages) ==
    /\ used' = used \ pages
    /\ free_pages' = free_pages + Cardinality(pages \cap used)

reserve_range(pages) == mark_used(pages \cap (0 .. page_count - 1))

pmm_fatal(reason) ==
    /\ phase' = "halted"
    /\ why' = reason

-----------------------------------------------------------------------------
(* pmm_init, one action per pass over the map. *)

Init ==
    /\ map \in Maps
    /\ phase = "size"
    /\ why = "none"
    /\ page_count = 0
    /\ bitmap = 0
    /\ used = {}
    /\ free_pages = 0
    /\ next_word = 0
    /\ tested = <<>>
    /\ before = 0
    /\ held = {}
    /\ ret = NoResult
    /\ writes = {}

(* Mutant: a region ends at its last page, not after it. *)
Ends_at_last_page ==
    {0} \cup {d.start + d.pages - 1 : d \in {e \in Range(map) : may_become_free(e.type)}}

Ends == {0} \cup {d.start + d.pages : d \in {e \in Range(map) : may_become_free(e.type)}}

SizeBitmap ==
    /\ phase = "size"
    /\ \E top \in Ends :
          /\ \A end \in Ends : end <= top
          /\ page_count' = top
    /\ phase' = "place"
    /\ UNCHANGED <<why, bitmap, bits, test, ghost>>

(* Mutant: the type of the region is not looked at. *)
HoldsBitmap_of_any_type(d) ==
    /\ d.start * PageSize >= LowMemoryLimit
    /\ d.pages * PageSize >= BitmapBytes

HoldsBitmap(d) ==
    /\ d.type = "conventional"
    /\ d.start * PageSize >= LowMemoryLimit
    /\ d.pages * PageSize >= BitmapBytes

(* The bitmap goes to the first region that can hold it, all of it ones. *)
PlaceBitmap ==
    /\ phase = "place"
    /\ \E i \in DOMAIN map :
          /\ HoldsBitmap(map[i])
          /\ \A j \in 1 .. i - 1 : ~ HoldsBitmap(map[j])
          /\ bitmap' = map[i].start
          /\ writes' = writes \cup BitmapPagesAt(map[i].start)
    /\ used' = Bits
    /\ free_pages' = 0
    /\ phase' = "carve"
    /\ UNCHANGED <<why, page_count, next_word, test, held, ret>>

NoRoomForBitmap ==
    /\ phase = "place"
    /\ \A i \in DOMAIN map : ~ HoldsBitmap(map[i])
    /\ pmm_fatal("no region")
    /\ UNCHANGED <<page_count, bitmap, bits, test, ghost>>

CarveFree ==
    /\ phase = "carve"
    /\ mark_free(Conventional(map))
    /\ phase' = "reserve"
    /\ UNCHANGED <<why, page_count, bitmap, next_word, test, ghost>>

(* Mutant: the bitmap's own pages are not reserved. *)
ReserveRanges_without_bitmap ==
    /\ phase = "reserve"
    /\ reserve_range(LowPages \cup KernelPages)
    /\ next_word' = 0
    /\ phase' = "built"
    /\ UNCHANGED <<why, page_count, bitmap, test, ghost>>

ReserveRanges ==
    /\ phase = "reserve"
    /\ reserve_range(LowPages \cup KernelPages \cup BitmapPages)
    /\ next_word' = 0
    /\ phase' = "built"
    /\ UNCHANGED <<why, page_count, bitmap, test, ghost>>

-----------------------------------------------------------------------------
(* The two operations. *)

(* The n-th word the search looks at. *)
Probe(n) ==
    IF next_word + n >= BitmapWords THEN next_word + n - BitmapWords
                                    ELSE next_word + n

(* Mutant: a word is skipped when any of its pages is used. *)
Full_if_any_used(w) == Word(w) \cap used # {}

Full(w) == Word(w) \subseteq used

FirstNotFull(n) ==
    /\ ~ Full(Probe(n))
    /\ \A k \in 0 .. n - 1 : Full(Probe(k))

LowestClear(w, page) ==
    /\ page \in Word(w) \ used
    /\ \A other \in Word(w) \ used : page <= other

(* A call of pmm_alloc_page that returns page, 0 standing for failure. *)
pmm_alloc_page(page) ==
    \/ \E n \in 0 .. BitmapWords - 1 :
          /\ FirstNotFull(n)
          /\ LowestClear(Probe(n), page)
          /\ mark_used({page})
          /\ next_word' = Probe(n)
          /\ held' = held \cup ({page} \ {0})
          /\ ret' = page
    \/ /\ \A n \in 0 .. BitmapWords - 1 : Full(Probe(n))
       /\ page = 0
       /\ ret' = 0
       /\ UNCHANGED <<bits, held>>

(* Mutant: the bound of the bitmap is taken as inclusive. *)
FreeRefused_off_by_one(page, offset) ==
    \/ offset # 0
    \/ page > page_count
    \/ ~ page_is_used(page)

FreeRefused(page, offset) ==
    \/ offset # 0
    \/ page >= page_count
    \/ ~ page_is_used(page)

(* Mutant: the cursor stays where it is when a page below it is freed. *)
FreeAccepted_without_pull_back(page) ==
    /\ mark_free({page})
    /\ next_word' = next_word
    /\ held' = held \ {page}
    /\ ret' = NoResult

FreeAccepted(page) ==
    /\ mark_free({page})
    /\ next_word' = IF page \div WordBits < next_word
                      THEN page \div WordBits ELSE next_word
    /\ held' = held \ {page}
    /\ ret' = NoResult

-----------------------------------------------------------------------------
(* pmm_self_test. *)

(* Mutant: the count on entry is not remembered. *)
SelfTestBegin_without_count ==
    /\ phase = "built"
    /\ phase' = "test"
    /\ UNCHANGED <<why, page_count, bitmap, bits, test, ghost>>

SelfTestBegin ==
    /\ phase = "built"
    /\ phase' = "test"
    /\ before' = free_pages
    /\ UNCHANGED <<why, page_count, bitmap, bits, tested, ghost>>

SelfTestPageOk(page) ==
    /\ page # 0
    /\ page * PageSize >= LowMemoryLimit
    /\ page \notin Range(tested)

(* One turn of the first loop: allocate a page, then check it and tag it. *)
SelfTestAlloc ==
    /\ phase = "test"
    /\ Len(tested) < SelfTestPages
    /\ \E page \in Bits \cup {0} : pmm_alloc_page(page)
    /\ phase' = "check"
    /\ UNCHANGED <<why, page_count, bitmap, test, writes>>

SelfTestCheck ==
    /\ phase = "check"
    /\ IF SelfTestPageOk(ret)
         THEN /\ tested' = Append(tested, ret)
              /\ writes' = writes \cup {ret}
              /\ phase' = "test"
              /\ UNCHANGED why
         ELSE /\ pmm_fatal(IF ret = 0 THEN "out of memory" ELSE "bad page")
              /\ UNCHANGED <<tested, writes>>
    /\ UNCHANGED <<page_count, bitmap, bits, before, held, ret>>

(* The memory either kept the tags or, being broken, did not. *)
SelfTestVerify ==
    /\ phase = "test"
    /\ Len(tested) = SelfTestPages
    /\ \/ phase' = "release" /\ UNCHANGED why
       \/ tested # <<>> /\ pmm_fatal("bad RAM")
    /\ UNCHANGED <<page_count, bitmap, bits, test, ghost>>

(* The second loop frees the pages in the order they came. *)
SelfTestRelease ==
    /\ phase = "release"
    /\ tested # <<>>
    /\ tested' = Tail(tested)
    /\ IF FreeRefused(Head(tested), 0)
         THEN pmm_fatal("bad free") /\ UNCHANGED <<bits, held, ret>>
         ELSE FreeAccepted(Head(tested)) /\ UNCHANGED <<phase, why>>
    /\ UNCHANGED <<page_count, bitmap, before, writes>>

SelfTestEnd ==
    /\ phase = "release"
    /\ tested = <<>>
    /\ IF free_pages # before THEN pmm_fatal("count")
                              ELSE phase' = "ready" /\ UNCHANGED why
    /\ UNCHANGED <<page_count, bitmap, bits, test, ghost>>

-----------------------------------------------------------------------------
(* The calls of the rest of the kernel, and the specifications: they differ
   in what a caller may pass to pmm_free_page. *)

Alloc ==
    /\ phase = "ready"
    /\ \E page \in Bits \cup {0} : pmm_alloc_page(page)
    /\ UNCHANGED <<phase, why, page_count, bitmap, test, writes>>

Free(page, offset) ==
    /\ phase = "ready"
    /\ IF FreeRefused(page, offset)
         THEN pmm_fatal("bad free") /\ UNCHANGED <<bits, held, ret>>
         ELSE FreeAccepted(page) /\ UNCHANGED <<phase, why>>
    /\ UNCHANGED <<page_count, bitmap, test, writes>>

(* pmm_fatal's endless cli; hlt. *)
Halted == phase = "halted" /\ UNCHANGED vars

Boot ==
    \/ SizeBitmap \/ PlaceBitmap \/ NoRoomForBitmap \/ CarveFree \/ ReserveRanges
    \/ SelfTestBegin \/ SelfTestAlloc \/ SelfTestCheck \/ SelfTestVerify
    \/ SelfTestRelease \/ SelfTestEnd
    \/ Halted

(* The contract of pmm.h: only what pmm_alloc_page gave is returned. *)
FreeHeld == \E page \in held : Free(page, 0)

Next == (Boot \/ Alloc \/ FreeHeld) /\ UNCHANGED map

Spec == Init /\ [][Next]_vars

(* A caller that does not look at the result frees the failure value too. *)
FreeUnchecked == ret = 0 /\ Free(0, 0)

SpecUnchecked ==
    Init /\ [][(Boot \/ Alloc \/ FreeHeld \/ FreeUnchecked) /\ UNCHANGED map]_vars

(* A caller with a stray pointer frees any page, aligned or not. *)
FreeAnything ==
    \E page \in 0 .. page_count, offset \in 0 .. PageSize - 1 : Free(page, offset)

NextAny == (Boot \/ Alloc \/ FreeAnything) /\ UNCHANGED map

SpecAny == Init /\ [][NextAny]_vars

-----------------------------------------------------------------------------
(* Properties. *)

Halts == {"none", "no region", "out of memory", "bad RAM", "bad page", "bad free", "count"}
Phases == {"size", "place", "carve", "reserve", "built", "test", "check",
           "release", "ready", "halted"}

(* The type invariant.  free_pages \in Nat says in particular that the count,
   unsigned in the code, never wraps below 0. *)
TypeOK ==
    /\ map \in Seq(Descriptors)
    /\ phase \in Phases
    /\ why \in Halts
    /\ page_count \in Nat
    /\ bitmap \in Nat
    /\ free_pages \in Nat
    /\ next_word \in Nat
    /\ before \in Nat
    /\ used \subseteq Bits
    /\ tested \in Seq(Nat)
    /\ held \subseteq Nat
    /\ ret \in Nat \cup {NoResult}
    /\ writes \subseteq Nat

(* The bitmap exists and holds what its readers expect. *)
Built == bitmap # 0 /\ phase \notin {"size", "place"}
Serving == Built /\ phase \notin {"carve", "reserve"}

FreeFrames == (0 .. page_count - 1) \ used

(* The pages pmm_init leaves for allocation. *)
Allocatable == Conventional(map) \ (LowPages \cup KernelPages \cup BitmapPages)

(* The running count is the number of clear bits, after every batch of
   mark_used and mark_free, whoever calls: "the count cannot drift"
   (pmm.c:83-85). *)
CountExact == Built => free_pages = Cardinality(Bits \ used)

(* The bits past page_count in the last word stay set, which is why
   pmm_alloc_page needs no bounds check ("cannot exceed page_count",
   pmm.c:259-260). *)
TailUsed == Built => page_count .. BitmapWords * WordBits - 1 \subseteq used

(* No clear bit lies below the cursor: what pulling it back in pmm_free_page
   keeps true, so that a search from next_word misses nothing. *)
CursorLow ==
    /\ next_word < BitmapWords \/ next_word = 0
    /\ Serving => \A p \in Bits \ used : p \div WordBits >= next_word

(* The three together: what the bitmap code alone guarantees, whatever
   addresses its callers free, unaligned, reserved or past the end. *)
BitmapSound == CountExact /\ TailUsed /\ CursorLow

(* An allocation always takes the lowest free page of the machine
   (pmm.c:283-285, "keeps allocations packed low"). *)
AllocLowest ==
    [][\A p \in held' \ held : \A q \in FreeFrames : p <= q]_vars

(* The answer 0 means that memory is exhausted, and nothing else
   (pmm.h:37-41). *)
ZeroMeansExhausted == ret = 0 => FreeFrames = {}

(* Nothing is lost and nothing is given twice: at every moment after pmm_init
   the free pages and the held ones partition the conventional memory left
   when the low megabyte, the kernel and the bitmap are taken out. *)
Conservation ==
    Serving => /\ held \cap FreeFrames = {}
               /\ held \cup FreeFrames = Allocatable

(* No store of the manager, neither the bitmap's fill nor a self-test tag,
   lands outside conventional memory, in the low megabyte or on the kernel. *)
WritesSafe ==
    writes \subseteq Conventional(map) \ (LowPages \cup KernelPages)

(* Every page pass 3 will clear has a bit in the bitmap pass 1 sized. *)
CarveInBounds == phase = "carve" => Conventional(map) \subseteq Bits

(* The boot stops in the self-test exactly when the machine has fewer frames
   than the test takes, or RAM that does not hold what is written to it. *)
SelfTestVerdict ==
    /\ why \notin {"bad page", "bad free", "count"}
    /\ why = "out of memory" => Cardinality(Allocatable) < SelfTestPages
    /\ phase = "ready" => /\ Cardinality(Allocatable) >= SelfTestPages
                          /\ Serving

(* The comment at pmm.c:219-222: the kernel's pages survive even a map that
   does not exclude them. *)
KernelSurvives == writes \cap KernelPages = {}

(* What each pass leaves for the next one. *)
Stages ==
    /\ phase \in {"size", "place"} => bitmap = 0 /\ used = {}
    /\ phase \notin {"size", "place", "halted"} => bitmap # 0
    /\ ~ Serving => next_word = 0
    /\ phase = "carve" => used = Bits
    /\ phase = "reserve" => used = Bits \ Conventional(map)
    /\ phase = "check" => ret \in Nat

Sized == phase # "size" => Conventional(map) \subseteq 0 .. page_count - 1

(* The inductive invariant behind CountExact, TailUsed, CursorLow and
   AllocLowest, whatever the callers free. *)
IInv ==
    /\ TypeOK
    /\ map \in Maps
    /\ Stages
    /\ Sized
    /\ CountExact
    /\ TailUsed
    /\ CursorLow

(* What the contract adds: who holds what, at every stage. *)
HeldStages ==
    /\ ~ Serving => held = {}
    /\ phase \in {"size", "place", "carve", "reserve", "built"} =>
          held = {} /\ tested = <<>>
    /\ phase \in {"test", "check", "release"} =>
          /\ Range(tested) \subseteq held
          /\ \A i, j \in DOMAIN tested : tested[i] = tested[j] => i = j
    /\ phase = "check" /\ ret # 0 => ret \in held \ Range(tested)

(* The inductive invariant of the callers that keep the contract. *)
CInv ==
    /\ IInv
    /\ HeldStages
    /\ Conservation
    /\ Serving => ZeroMeansExhausted
    /\ ret = 0 => Serving

(* What pmm_self_test knows of the machine: while it runs nobody else holds a
   frame, and its count on entry is the number of frames there are. *)
TestOwns ==
    /\ phase # "halted" => why = "none"
    /\ phase \in {"test", "check", "release"} => before = Cardinality(Allocatable)
    /\ phase \in {"test", "release"} => held = Range(tested)
    /\ phase = "check" => held = Range(tested) \cup ({ret} \ {0})
    /\ phase = "test" => Len(tested) <= SelfTestPages
    /\ phase = "check" => Len(tested) < SelfTestPages
    /\ phase = "release" => Cardinality(Allocatable) >= SelfTestPages

(* The inductive invariant behind SelfTestVerdict. *)
TInv == CInv /\ TestOwns /\ SelfTestVerdict

(* The bootloader's part of the bargain: the kernel is not free memory. *)
KernelExcluded == \A m \in Maps : Conventional(m) \cap KernelPages = {}

(* Pmm implements the frame allocator of pmm.h. *)
Up == phase \in {"built", "test", "check", "release", "ready"}

Abstract == INSTANCE FrameAllocator WITH
    state <- IF phase = "halted" THEN "stopped" ELSE IF Up THEN "up" ELSE "down",
    free <- IF Up THEN FreeFrames ELSE {}

Refinement == Abstract!Spec

=============================================================================
