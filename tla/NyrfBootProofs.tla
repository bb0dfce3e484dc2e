--------------------------- MODULE NyrfBootProofs ---------------------------
(***************************************************************************)
(* Proofs about the boot as a whole, for every machine, every kernel file, *)
(* any number of attempts and any events of the firmware: the map that     *)
(* BootLoaderProofs shows to be true is one that PmmContractProofs can     *)
(* start from, so that no store of the manager and no page it gives out is *)
(* memory still in use, and no free page of the machine is missed.         *)
(***************************************************************************)
EXTENDS NyrfBoot, BootLoaderProofs

(* The maps the manager is proved for: the kernel is not free memory. *)
GoodMaps == {m \in Seq(P!Descriptors) : P!Conventional(m) \cap P!KernelPages = {}}

PP == INSTANCE PmmContractProofs WITH Maps <- GoodMaps

-----------------------------------------------------------------------------
(* What the manager's proofs assume. *)

LEMMA SameGeometry ==
    /\ P!LowPages = PP!LowPages
    /\ P!KernelPages = PP!KernelPages
    /\ P!BitmapPages = PP!BitmapPages
    /\ P!FreeFrames = PP!FreeFrames
    /\ P!NoResult = PP!NoResult
    /\ P!Descriptors = PP!Descriptors
    /\ \A m : P!Conventional(m) = PP!Conventional(m)
  BY DEF P!LowPages, PP!LowPages, P!KernelPages, PP!KernelPages, P!BitmapPages,
         PP!BitmapPages, P!FreeFrames, PP!FreeFrames, P!NoResult, PP!NoResult,
         P!Descriptors, PP!Descriptors, P!MemTypes, PP!MemTypes,
         P!PagesCovering, PP!PagesCovering, P!CeilDiv, PP!CeilDiv,
         P!BitmapPagesAt, PP!BitmapPagesAt, P!BitmapBytes, PP!BitmapBytes,
         P!BitmapWords, PP!BitmapWords, P!Conventional, PP!Conventional,
         P!PagesOf, PP!PagesOf, P!Range, PP!Range

LEMMA ManagerAssumptions == PP!ConstantsAssumption /\ PP!MapsAssumption /\ PP!KernelExcluded
  BY KernelAssumption, SameGeometry
  DEF PP!ConstantsAssumption, PP!MapsAssumption, PP!KernelExcluded, GoodMaps

(* Bit operations. *)
LEMMA SameBitOperations ==
    /\ \A pages : P!mark_used(pages) <=> PP!mark_used(pages)
    /\ \A pages : P!mark_free(pages) <=> PP!mark_free(pages)
    /\ \A pages : P!reserve_range(pages) <=> PP!reserve_range(pages)
    /\ \A reason : P!pmm_fatal(reason) <=> PP!pmm_fatal(reason)
  <1>0. \A S : P!Cardinality(S) = PP!Cardinality(S)
    BY Zenon DEF P!Cardinality, PP!Cardinality
  <1>1. \A pages : P!mark_used(pages) <=> PP!mark_used(pages)
    BY <1>0 DEF P!mark_used, PP!mark_used
  <1>2. \A pages : P!mark_free(pages) <=> PP!mark_free(pages)
    BY <1>0 DEF P!mark_free, PP!mark_free
  <1>3. \A pages : P!reserve_range(pages) <=> PP!reserve_range(pages)
    BY <1>1 DEF P!reserve_range, PP!reserve_range
  <1>4. \A reason : P!pmm_fatal(reason) <=> PP!pmm_fatal(reason)
    BY DEF P!pmm_fatal, PP!pmm_fatal
  <1> QED BY <1>1, <1>2, <1>3, <1>4

LEMMA SameSearch == \A page : P!pmm_alloc_page(page) <=> PP!pmm_alloc_page(page)
  <1> TAKE page
  <1>1. /\ P!BitmapWords = PP!BitmapWords /\ P!bits = PP!bits
        /\ \A w : P!Word(w) = PP!Word(w)
        /\ \A w : P!Full(w) <=> PP!Full(w)
        /\ \A n : P!Probe(n) = PP!Probe(n)
    BY DEF P!BitmapWords, PP!BitmapWords, P!CeilDiv, PP!CeilDiv, P!bits, PP!bits,
        P!Word, PP!Word, P!Full, PP!Full, P!Probe, PP!Probe
  <1>2. \A n : P!FirstNotFull(n) <=> PP!FirstNotFull(n)
    BY <1>1 DEF P!FirstNotFull, PP!FirstNotFull
  <1>3. \A w : P!LowestClear(w, page) <=> PP!LowestClear(w, page)
    BY <1>1 DEF P!LowestClear, PP!LowestClear
  <1>4. (\E n \in 0 .. P!BitmapWords - 1 :
            /\ P!FirstNotFull(n) /\ P!LowestClear(P!Probe(n), page)
            /\ P!mark_used({page}) /\ next_word' = P!Probe(n)
            /\ held' = held \cup ({page} \ {0}) /\ ret' = page)
        <=> (\E n \in 0 .. PP!BitmapWords - 1 :
            /\ PP!FirstNotFull(n) /\ PP!LowestClear(PP!Probe(n), page)
            /\ PP!mark_used({page}) /\ next_word' = PP!Probe(n)
            /\ held' = held \cup ({page} \ {0}) /\ ret' = page)
    BY <1>1, <1>2, <1>3, SameBitOperations
  <1>5. (\A n \in 0 .. P!BitmapWords - 1 : P!Full(P!Probe(n)))
        <=> (\A n \in 0 .. PP!BitmapWords - 1 : PP!Full(PP!Probe(n)))
    BY <1>1
  <1> QED BY <1>4, <1>5, Zenon DEF P!pmm_alloc_page, PP!pmm_alloc_page, P!bits, PP!bits

LEMMA SameFree ==
    /\ \A page, offset : P!FreeRefused(page, offset) <=> PP!FreeRefused(page, offset)
    /\ \A page : P!FreeAccepted(page) <=> PP!FreeAccepted(page)
    /\ \A page, offset : P!Free(page, offset) <=> PP!Free(page, offset)
  <1>1. \A page, offset : P!FreeRefused(page, offset) <=> PP!FreeRefused(page, offset)
    BY DEF P!FreeRefused, PP!FreeRefused, P!page_is_used, PP!page_is_used
  <1>2. \A page : P!FreeAccepted(page) <=> PP!FreeAccepted(page)
    BY SameBitOperations, SameGeometry DEF P!FreeAccepted, PP!FreeAccepted
  <1>3. \A page, offset : P!Free(page, offset) <=> PP!Free(page, offset)
    BY <1>1, <1>2, SameBitOperations, Zenon DEF P!Free, PP!Free, P!bits, PP!bits, P!test, PP!test
  <1> QED BY <1>1, <1>2, <1>3

LEMMA SameNext == P!Next <=> PP!Next
  <1>1. P!SizeBitmap <=> PP!SizeBitmap
    BY SameGeometry, SameBitOperations, SameSearch, SameFree, Zenon
    DEF P!SizeBitmap, PP!SizeBitmap, P!Ends, PP!Ends, P!may_become_free,
        PP!may_become_free, P!Range, PP!Range, P!bits, PP!bits, P!test,
        PP!test, P!ghost, PP!ghost
  <1>2. P!PlaceBitmap <=> PP!PlaceBitmap
    BY SameGeometry, SameBitOperations, SameSearch, SameFree, Zenon
    DEF P!PlaceBitmap, PP!PlaceBitmap, P!HoldsBitmap, PP!HoldsBitmap,
        P!BitmapBytes, PP!BitmapBytes, P!BitmapWords, PP!BitmapWords,
        P!CeilDiv, PP!CeilDiv, P!BitmapPagesAt, PP!BitmapPagesAt,
        P!PagesCovering, PP!PagesCovering, P!Bits, PP!Bits, P!test, PP!test
  <1>3. P!NoRoomForBitmap <=> PP!NoRoomForBitmap
    BY SameGeometry, SameBitOperations, SameSearch, SameFree, Zenon
    DEF P!NoRoomForBitmap, PP!NoRoomForBitmap, P!HoldsBitmap, PP!HoldsBitmap,
        P!BitmapBytes, PP!BitmapBytes, P!BitmapWords, PP!BitmapWords,
        P!CeilDiv, PP!CeilDiv, P!bits, PP!bits, P!test, PP!test, P!ghost,
        PP!ghost
  <1>4. P!CarveFree <=> PP!CarveFree
    BY SameGeometry, SameBitOperations, SameSearch, SameFree, Zenon
    DEF P!CarveFree, PP!CarveFree, P!test, PP!test, P!ghost, PP!ghost
  <1>5. P!ReserveRanges <=> PP!ReserveRanges
    BY SameGeometry, SameBitOperations, SameSearch, SameFree, Zenon
    DEF P!ReserveRanges, PP!ReserveRanges, P!test, PP!test, P!ghost, PP!ghost
  <1>6. P!SelfTestBegin <=> PP!SelfTestBegin
    BY SameGeometry, SameBitOperations, SameSearch, SameFree, Zenon
    DEF P!SelfTestBegin, PP!SelfTestBegin, P!bits, PP!bits, P!ghost, PP!ghost
  <1>7. P!SelfTestAlloc <=> PP!SelfTestAlloc
    BY SameGeometry, SameBitOperations, SameSearch, SameFree, Zenon
    DEF P!SelfTestAlloc, PP!SelfTestAlloc, P!Bits, PP!Bits, P!BitmapWords,
        PP!BitmapWords, P!CeilDiv, PP!CeilDiv, P!test, PP!test
  <1>8. P!SelfTestCheck <=> PP!SelfTestCheck
    BY SameGeometry, SameBitOperations, SameSearch, SameFree, Zenon
    DEF P!SelfTestCheck, PP!SelfTestCheck, P!SelfTestPageOk, PP!SelfTestPageOk,
        P!Range, PP!Range, P!bits, PP!bits
  <1>9. P!SelfTestVerify <=> PP!SelfTestVerify
    BY SameGeometry, SameBitOperations, SameSearch, SameFree, Zenon
    DEF P!SelfTestVerify, PP!SelfTestVerify, P!bits, PP!bits, P!test, PP!test,
        P!ghost, PP!ghost
  <1>10. P!SelfTestRelease <=> PP!SelfTestRelease
    BY SameGeometry, SameBitOperations, SameSearch, SameFree, Zenon
    DEF P!SelfTestRelease, PP!SelfTestRelease, P!bits, PP!bits
  <1>11. P!SelfTestEnd <=> PP!SelfTestEnd
    BY SameGeometry, SameBitOperations, SameSearch, SameFree, Zenon
    DEF P!SelfTestEnd, PP!SelfTestEnd, P!bits, PP!bits, P!test, PP!test,
        P!ghost, PP!ghost
  <1>12. P!Halted <=> PP!Halted
    BY SameGeometry, SameBitOperations, SameSearch, SameFree, Zenon
    DEF P!Halted, PP!Halted, P!vars, PP!vars, P!bits, PP!bits, P!test, PP!test,
        P!ghost, PP!ghost
  <1>13. P!Alloc <=> PP!Alloc
    BY SameGeometry, SameBitOperations, SameSearch, SameFree, Zenon
    DEF P!Alloc, PP!Alloc, P!Bits, PP!Bits, P!BitmapWords, PP!BitmapWords,
        P!CeilDiv, PP!CeilDiv, P!test, PP!test
  <1>14. P!FreeHeld <=> PP!FreeHeld
    BY SameGeometry, SameBitOperations, SameSearch, SameFree, Zenon
    DEF P!FreeHeld, PP!FreeHeld
  <1> QED BY <1>1, <1>2, <1>3, <1>4, <1>5, <1>6, <1>7, <1>8, <1>9, <1>10, <1>11, <1>12, <1>13, <1>14
      DEF P!Next, PP!Next, P!Boot, PP!Boot

-----------------------------------------------------------------------------
(* The map the kernel inherits. *)

(* Every index names a page of S: Nth counts through all of them. *)
LEMMA NthIsOneOf ==
    ASSUME NEW S, S \subseteq Nat, IsFiniteSet(S), NEW i \in 1 .. Cardinality(S)
    PROVE  Nth(S, i) \in S
  <1> DEFINE n == Cardinality(S)
             Rank == [p \in S |-> Cardinality({q \in S : q <= p})]
  <1>1. n \in Nat
    BY FS_CardinalityType
  <1>2. \A p \in S : Rank[p] \in 1 .. n /\ Nth(S, Rank[p]) = p
    BY NthFacts
  <1>3. Rank \in Injection(S, 1 .. n)
    <2>1. Rank \in [S -> 1 .. n]
      BY <1>2
    <2>2. \A p, q \in S : Rank[p] = Rank[q] => p = q
      BY <1>2
    <2> HIDE DEF Rank
    <2> QED BY <2>1, <2>2 DEF Injection, IsInjective
  <1>4. IsFiniteSet(1 .. n) /\ Cardinality(1 .. n) = n
    BY <1>1, FS_Interval
  <1> HIDE DEF Rank
  <1>5. Rank \in Surjection(S, 1 .. n)
    BY <1>3, <1>4, FS_Injection
  <1>6. PICK p \in S : Rank[p] = i
    BY <1>5 DEF Surjection
  <1> QED BY <1>2, <1>6

(* A descriptor of the map is a run of pages of one type. *)
LEMMA DescriptorFacts ==
    ASSUME NEW t, Machine(t), NEW i \in 1 .. MapLength(t)
    PROVE  /\ MapOf(t)[i] \in P!Descriptors
           /\ \A p \in P!PagesOf(MapOf(t)[i]) : p \in DOMAIN t /\ t[p] = MapOf(t)[i].type
  <1> DEFINE first == Nth(RunStarts(t), i)
             last == RunEnd(t, first)
             Top == Cardinality(DOMAIN t) - 1
  <1>1. DOMAIN t = 0 .. Top /\ Top \in Int /\ IsFiniteSet(DOMAIN t)
    BY FS_CardinalityType DEF Machine
  <1> HIDE DEF Top
  <1>2. RunStarts(t) \subseteq Nat /\ IsFiniteSet(RunStarts(t))
    <2>1. RunStarts(t) \in SUBSET DOMAIN t
      BY DEF RunStarts
    <2> QED BY <1>1, <2>1, FS_Subset
  <1>3. first \in RunStarts(t)
    BY <1>2, NthIsOneOf DEF MapLength
  <1>4. /\ first \in DOMAIN t /\ first \in Nat /\ t[first] # "hole"
        /\ t[first] \in PageTypes /\ \A q \in first .. first : t[q] = t[first]
    BY <1>1, <1>3 DEF RunStarts, Machine
  <1>5. last \in Int /\ first <= last /\ last \in RunEnds(t)
    BY <1>3, <1>4, RunEndFacts
  <1>6. \A p \in first .. last : t[p] = t[first]
    BY <1>3, <1>4, RunEndFacts
  <1>7. MapOf(t)[i] = [type |-> t[first], start |-> first, pages |-> last - first + 1]
    BY Zenon DEF MapOf, Descriptor
  <1> HIDE DEF first, last
  <1>8. /\ MapOf(t)[i].type = t[first] /\ MapOf(t)[i].start = first
        /\ MapOf(t)[i].pages = last - first + 1
    BY <1>7
  <1>9. last - first + 1 \in Nat \ {0}
    BY <1>4, <1>5
  <1>10. MapOf(t)[i] \in P!Descriptors
    BY <1>4, <1>7, <1>9 DEF P!Descriptors, P!MemTypes, PageTypes
  <1>11. P!PagesOf(MapOf(t)[i]) = first .. last
    BY <1>4, <1>5, <1>8 DEF P!PagesOf
  <1>12. first .. last \subseteq DOMAIN t
    BY <1>1, <1>4, <1>5 DEF RunEnds
  <1> QED BY <1>6, <1>8, <1>10, <1>11, <1>12

(* The free pages of the machine are those its map calls conventional. *)
LEMMA MapShowsFreePages ==
    ASSUME NEW t, Machine(t)
    PROVE  /\ MapOf(t) \in Seq(P!Descriptors)
           /\ P!Conventional(MapOf(t)) = {p \in DOMAIN t : t[p] = "conventional"}
  <1> DEFINE m == MapOf(t)
  <1>1. DOMAIN m = 1 .. MapLength(t) /\ MapLength(t) \in Nat
    BY MapIsSequence, MapLengthNat
  <1>2. m \in Seq(P!Descriptors)
    <2>1. m = [i \in 1 .. MapLength(t) |-> m[i]]
      BY DEF MapOf
    <2>2. \A i \in 1 .. MapLength(t) : m[i] \in P!Descriptors
      BY DescriptorFacts
    <2> HIDE DEF m
    <2>3. m \in [1 .. MapLength(t) -> P!Descriptors]
      BY <2>1, <2>2
    <2> QED BY <1>1, <2>3, SeqDef
  <1>3. P!Range(m) = {m[i] : i \in 1 .. MapLength(t)}
    BY <1>1, Zenon DEF P!Range
  <1>4. ASSUME NEW p \in P!Conventional(m)
        PROVE  p \in DOMAIN t /\ t[p] = "conventional"
    <2>1. PICK i \in 1 .. MapLength(t) : m[i].type = "conventional" /\ p \in P!PagesOf(m[i])
      BY <1>3, <1>4, Zenon DEF P!Conventional
    <2> QED BY <2>1, DescriptorFacts
  <1>5. ASSUME NEW p \in DOMAIN t, t[p] = "conventional"
        PROVE  p \in P!Conventional(m)
    <2>1. PICK i \in 1 .. MapLength(t) :
              p \in SegmentPages(m[i]) /\ m[i].type = "conventional"
      BY <1>5, MapCovers
    <2>2. p \in P!PagesOf(m[i])
      BY <2>1, Zenon DEF P!PagesOf, SegmentPages
    <2> QED BY <1>3, <2>1, <2>2, Zenon DEF P!Conventional
  <1> HIDE DEF m
  <1>6. P!Conventional(m) = {p \in DOMAIN t : t[p] = "conventional"}
    BY <1>4, <1>5
  <1> QED BY <1>2, <1>6 DEF m

-----------------------------------------------------------------------------
(* The inductive invariant: that of the bootloader throughout, nothing of    *)
(* the manager before the kernel runs, and that of the manager afterwards,   *)
(* over the map of a machine that no longer changes.                         *)

ManagerOff ==
    /\ phase = "off"
    /\ why = "none"
    /\ page_count = 0 /\ bitmap = 0 /\ free_pages = 0 /\ next_word = 0
    /\ before = 0 /\ tested = <<>>
    /\ used = {} /\ held = {} /\ writes = {}
    /\ ret = PP!NoResult

ManagerRuns ==
    /\ pc = "kernel"
    /\ map = MapNow
    /\ phase # "off"
    /\ PP!CInv
    /\ PP!WritesSafe

BInv == LInv /\ (ManagerOff \/ ManagerRuns)

LEMMA InitBInv == BootInit => BInv
  BY InitLInv, SameGeometry DEF BootInit, BInv, ManagerOff

LEMMA LoadingBInv ==
    ASSUME BInv, Loading
    PROVE  BInv'
  <1>1. LInv'
    BY StepLInv DEF BInv, Loading
  <1>2. ManagerOff
    BY DEF BInv, Loading, ManagerRuns
  <1>3. ManagerOff'
    BY <1>2 DEF Loading, pmm, ManagerOff, PP!NoResult
  <1> QED BY <1>1, <1>3 DEF BInv

(* The map handed over is one the manager can start from. *)
LEMMA HandedMapIsGood ==
    ASSUME LInv, pc = "kernel"
    PROVE  /\ Inherited = MapNow
           /\ MapNow \in GoodMaps
           /\ P!Conventional(MapNow) = FreePages
  <1>1. Machine(types) /\ MapNow = MapOf(types)
    BY DEF LInv, LoaderTypeOK, MapNow
  <1>2. P!Conventional(MapNow) = FreePages /\ MapNow \in Seq(P!Descriptors)
    BY <1>1, MapShowsFreePages DEF FreePages
  <1>3. ASSUME NEW p \in P!KernelPages PROVE p \notin FreePages
    BY <1>3, LinkAssumption, KernelIsLoaders DEF FreePages
  <1> QED BY <1>2, <1>3, KernelSeesMap DEF GoodMaps

LEMMA EnterPmmBInv ==
    ASSUME BInv, EnterPmm
    PROVE  BInv'
  <1>1. LInv' /\ UNCHANGED loaderVars
    BY StepLInv DEF BInv, EnterPmm
  <1>2. ManagerOff /\ pc = "kernel"
    BY DEF BInv, EnterPmm, ManagerRuns
  <1>3. map' = MapNow /\ map' \in GoodMaps
    BY <1>2, HandedMapIsGood DEF BInv, EnterPmm
  <1>4. PP!Init'
    BY <1>2, <1>3 DEF EnterPmm, ManagerOff, PP!Init, PP!NoResult
  <1>5. PP!CInv'
    BY <1>4, PP!InitCInv, ManagerAssumptions, PTL
  <1>6. PP!WritesSafe'
    BY <1>4 DEF PP!Init, PP!WritesSafe
  <1>7. pc' = "kernel" /\ MapNow' = MapNow
    BY <1>1, <1>2 DEF loaderVars, firmware, loader, MapNow
  <1> QED BY <1>1, <1>3, <1>4, <1>5, <1>6, <1>7 DEF BInv, ManagerRuns, PP!Init

(* Before the kernel calls pmm_init nothing of the manager runs. *)
LEMMA ManagerStepRuns ==
    ASSUME P!Next
    PROVE  phase # "off" /\ phase' # "off" /\ map' = map
  BY DEF P!Next, P!Boot, P!SizeBitmap, P!PlaceBitmap, P!NoRoomForBitmap, P!CarveFree,
         P!ReserveRanges, P!SelfTestBegin, P!SelfTestAlloc, P!SelfTestCheck,
         P!SelfTestVerify, P!SelfTestRelease, P!SelfTestEnd, P!Halted, P!Alloc,
         P!FreeHeld, P!Free, P!pmm_fatal, P!vars

LEMMA KernelRunsBInv ==
    ASSUME BInv, KernelRuns
    PROVE  BInv'
  <1>1. LInv' /\ UNCHANGED loaderVars
    BY StepLInv DEF BInv, KernelRuns
  <1>2. P!Next /\ phase # "off" /\ phase' # "off" /\ map' = map
    BY ManagerStepRuns DEF KernelRuns
  <1>3. ManagerRuns
    BY <1>2 DEF BInv, ManagerOff
  <1>4. PP!Next
    BY <1>2, SameNext
  <1>5. PP!CInv'
    BY <1>3, <1>4, PP!NextCInv, ManagerAssumptions DEF ManagerRuns
  <1>6. PP!WritesSafe'
    BY <1>3, <1>4, PP!NextWritesSafe, ManagerAssumptions DEF ManagerRuns
  <1>7. pc' = "kernel" /\ MapNow' = MapNow
    BY <1>1, <1>3 DEF loaderVars, firmware, loader, MapNow, ManagerRuns
  <1> QED BY <1>1, <1>2, <1>3, <1>5, <1>6, <1>7 DEF BInv, ManagerRuns

LEMMA StutterBInv ==
    ASSUME BInv, UNCHANGED bootVars
    PROVE  BInv'
  <1>1. LInv' /\ UNCHANGED loaderVars /\ UNCHANGED pmm
    BY StepLInv DEF BInv, bootVars
  <1>2. CASE ManagerOff
    BY <1>1, <1>2 DEF BInv, ManagerOff, pmm, PP!NoResult
  <1>3. CASE ManagerRuns
    <2>1. UNCHANGED PP!vars
      BY <1>1 DEF pmm, PP!vars, PP!bits, PP!test, PP!ghost
    <2>2. PP!CInv' /\ PP!WritesSafe'
      BY <1>3, <2>1, PP!NextCInv, PP!NextWritesSafe, ManagerAssumptions DEF ManagerRuns
    <2>3. pc' = pc /\ map' = map /\ phase' = phase /\ MapNow' = MapNow
      BY <1>1 DEF loaderVars, firmware, loader, pmm, MapNow
    <2> QED BY <1>1, <1>3, <2>2, <2>3 DEF BInv, ManagerRuns
  <1> QED BY <1>2, <1>3 DEF BInv

(* What the bootloader leaves and what the manager keeps, in one boot: from
   the first GetMemoryMap to the last page freed, the map the manager works on
   is the one the machine has (main.c:146-148). *)
THEOREM BootInvariant == BootSpec => []BInv
  <1>1. BInv /\ [BootNext]_bootVars => BInv'
    BY LoadingBInv, EnterPmmBInv, KernelRunsBInv, StutterBInv DEF BootNext
  <1> QED BY <1>1, InitBInv, PTL DEF BootSpec

-----------------------------------------------------------------------------
(* What the boot as a whole promises. *)

(* Once pmm_init runs, what the manager holds or writes is a free page, and
   none of the low megabyte. *)
LEMMA ManagerUsesFreePages ==
    ASSUME LInv, ManagerRuns
    PROVE  /\ PP!Conventional(map) = FreePages
           /\ writes \cup held \subseteq FreePages
           /\ (writes \cup held) \cap P!LowPages = {}
  <1>1. PP!Conventional(map) = FreePages
    BY HandedMapIsGood, SameGeometry DEF ManagerRuns
  <1>2. writes \subseteq FreePages
    BY <1>1 DEF ManagerRuns, PP!WritesSafe
  <1>3. held \subseteq FreePages
    BY <1>1 DEF ManagerRuns, PP!CInv, PP!HeldStages, PP!Conservation, PP!Allocatable
  <1>4. writes \cap PP!LowPages = {}
    BY DEF ManagerRuns, PP!WritesSafe
  <1>5. held \cap PP!LowPages = {}
    BY DEF ManagerRuns, PP!CInv, PP!HeldStages, PP!Conservation, PP!Allocatable
  <1> QED BY <1>1, <1>2, <1>3, <1>4, <1>5, SameGeometry

(* No store of the manager and no page it gives out is memory still in use:
   the kernel, BootInfo, the map, the firmware's tables, the page tables the
   processor walks (main.c:146-148, pmm.c:134-141); nor is it a page of the
   low megabyte (pmm.h:37-41). *)
THEOREM MemoryStaysIntact == BootSpec => []MemoryIntact
  <1>1. BInv => MemoryIntact
    <2> SUFFICES ASSUME BInv PROVE MemoryIntact
      OBVIOUS
    <2>1. CASE ManagerOff
      BY <2>1 DEF ManagerOff, MemoryIntact
    <2>2. CASE ManagerRuns
      <3>1. /\ writes \cup held \subseteq FreePages
            /\ (writes \cup held) \cap P!LowPages = {}
        BY <2>2, ManagerUsesFreePages DEF BInv
      <3>2. \A p \in Precious : p \notin FreePages \/ p \in P!LowPages
        BY <2>2, KernelIsLoaders DEF BInv, ManagerRuns, Precious, FreePages
      <3> QED BY <3>1, <3>2 DEF MemoryIntact
    <2> QED BY <2>1, <2>2 DEF BInv
  <1> QED BY <1>1, BootInvariant, PTL

(* pmm_init leaves for allocation every page the machine had free when boot
   services ended, but the low megabyte and the bitmap: neither half of the
   boot loses one. *)
THEOREM NoFrameIsMissed == BootSpec => []FramesComplete
  <1>1. BInv => FramesComplete
    <2> SUFFICES ASSUME BInv, phase = "built"
                 PROVE  P!FreeFrames =
                            {p \in FreePages : p \notin P!LowPages \cup P!BitmapPages}
      BY DEF FramesComplete
    <2>1. ManagerRuns
      BY DEF BInv, ManagerOff
    <2>2. PP!Conventional(map) = FreePages
      BY <2>1, ManagerUsesFreePages DEF BInv
    <2>3. held = {} /\ PP!FreeFrames = PP!Allocatable
      BY <2>1 DEF ManagerRuns, PP!CInv, PP!HeldStages, PP!Conservation, PP!Serving,
                  PP!Built, PP!IInv, PP!Stages
    <2>4. FreePages \cap PP!KernelPages = {}
      BY <2>1, <2>2, HandedMapIsGood, SameGeometry DEF BInv, ManagerRuns, GoodMaps
    <2>5. PP!FreeFrames = {p \in FreePages : p \notin PP!LowPages \cup PP!BitmapPages}
      BY <2>2, <2>3, <2>4 DEF PP!Allocatable
    <2> QED BY <2>5, SameGeometry, Zenon
  <1> QED BY <1>1, BootInvariant, PTL

=============================================================================
