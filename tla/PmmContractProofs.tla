------------------------- MODULE PmmContractProofs -------------------------
(***************************************************************************)
(* Proofs about the physical memory manager when its callers keep the      *)
(* contract of pmm.h, returning only what pmm_alloc_page gave them (Spec): *)
(* no frame is lost or given twice, 0 means exhausted, the manager's own   *)
(* stores stay in free memory, and it implements FrameAllocator; and the   *)
(* verdict of the self-test is right on every machine.                     *)
(***************************************************************************)
EXTENDS PmmProofs

-----------------------------------------------------------------------------
(* Page geometry. *)

(* The low pages are those that start below the limit; page 0 is one. *)
LEMMA LowPagesAre ==
    /\ 0 \in LowPages
    /\ \A p \in Nat : p \in LowPages <=> p * PageSize < LowMemoryLimit
  <1> DEFINE c == CeilDiv(LowMemoryLimit, PageSize)
  <1>1. LowMemoryLimit \in Nat \ {0} /\ PageSize \in Nat \ {0}
    BY ConstantsAssumption
  <1>2. c \in Nat /\ LowMemoryLimit <= c * PageSize /\ c * PageSize < LowMemoryLimit + PageSize
    BY <1>1, CeilDivFacts
  <1>3. LowPages = 0 .. c - 1
    <2>1. 0 \div PageSize = 0
      BY <1>1
    <2>2. 0 + LowMemoryLimit = LowMemoryLimit
      BY <1>1
    <2> QED BY <2>1, <2>2 DEF LowPages, PagesCovering
  <1> HIDE DEF c
  <1>4. ASSUME NEW p \in Nat PROVE p < c <=> p * PageSize < LowMemoryLimit
    <2>1. ASSUME p < c PROVE p * PageSize < LowMemoryLimit
      <3>1. p * PageSize + PageSize <= c * PageSize
        BY <1>1, <1>2, <2>1
      <3>2. p * PageSize \in Nat /\ c * PageSize \in Nat
        BY <1>1, <1>2
      <3> QED BY <1>1, <1>2, <3>1, <3>2
    <2>2. ASSUME p >= c PROVE p * PageSize >= LowMemoryLimit
      <3>1. p * PageSize >= c * PageSize
        BY <1>1, <1>2, <2>2
      <3>2. p * PageSize \in Nat /\ c * PageSize \in Nat
        BY <1>1, <1>2
      <3> QED BY <1>1, <1>2, <3>1, <3>2
    <2>3. p * PageSize \in Nat
      BY <1>1
    <2> QED BY <1>1, <1>2, <2>1, <2>2, <2>3
  <1>5. 0 < c
    BY <1>1, <1>4
  <1> QED BY <1>2, <1>3, <1>4, <1>5

(* The bitmap fits inside the region chosen for it. *)
LEMMA BitmapInsideRegion ==
    ASSUME page_count \in Nat, NEW d \in Descriptors, HoldsBitmap(d)
    PROVE  /\ BitmapPagesAt(d.start) \subseteq PagesOf(d)
           /\ BitmapPagesAt(d.start) \cap LowPages = {}
  <1> DEFINE x == d.start * PageSize + BitmapBytes
             c == CeilDiv(x, PageSize)
  <1>1. PageSize \in Nat \ {0} /\ d.start \in Nat /\ d.pages \in Nat
    BY ConstantsAssumption DEF Descriptors
  <1>2. BitmapBytes \in Nat
    BY BitmapCovers, ConstantsAssumption DEF BitmapBytes
  <1>3. /\ d.start * PageSize \in Nat /\ d.pages * PageSize \in Nat
        /\ (d.start + d.pages) * PageSize = d.start * PageSize + d.pages * PageSize
        /\ (d.start * PageSize) \div PageSize = d.start
    BY <1>1
  <1>4. x \in Nat /\ x <= (d.start + d.pages) * PageSize
    BY <1>1, <1>2, <1>3 DEF HoldsBitmap
  <1>5. BitmapPagesAt(d.start) = d.start .. c - 1
    BY <1>3 DEF BitmapPagesAt, PagesCovering
  <1>6. c \in Nat /\ c * PageSize < x + PageSize
    BY <1>1, <1>4, CeilDivFacts
  <1> HIDE DEF x, c
  <1>7. c <= d.start + d.pages
    <2> DEFINE e == d.start + d.pages
    <2>1. e \in Nat /\ e * PageSize \in Nat /\ c * PageSize \in Nat
      BY <1>1, <1>6
    <2>2. c * PageSize < e * PageSize + PageSize
      BY <1>1, <1>4, <1>6, <2>1
    <2> HIDE DEF e
    <2>3. c <= e
      <3>1. SUFFICES ASSUME c >= e + 1 PROVE FALSE
        BY <1>6, <2>1
      <3>2. c * PageSize >= (e + 1) * PageSize
        BY <3>1, <1>1, <1>6, <2>1
      <3>3. (e + 1) * PageSize = e * PageSize + PageSize
        BY <1>1, <2>1
      <3> QED BY <2>1, <2>2, <3>2, <3>3, <1>1
    <2> QED BY <2>3 DEF e
  <1>8. BitmapPagesAt(d.start) \subseteq PagesOf(d)
    BY <1>1, <1>5, <1>6, <1>7 DEF PagesOf
  <1>9. ASSUME NEW p \in d.start .. c - 1 PROVE p \notin LowPages
    <2>1. p \in Nat /\ p >= d.start
      BY <1>1, <1>6
    <2>2. p * PageSize \in Nat /\ p * PageSize >= d.start * PageSize
      BY <1>1, <2>1
    <2>3. d.start * PageSize >= LowMemoryLimit
      BY DEF HoldsBitmap
    <2> QED BY <2>1, <2>2, <2>3, <1>3, LowPagesAre, ConstantsAssumption
  <1> QED BY <1>5, <1>8, <1>9

-----------------------------------------------------------------------------
(* Who holds what. *)

LEMMA FreeFramesAre ==
    ASSUME Core, page_count \in Nat
    PROVE  FreeFrames = Bits \ used /\ FreeFrames \subseteq Nat
  BY BitmapCovers DEF Core, FreeFrames, Bits

LEMMA AllocatableFacts ==
    ASSUME map \in Maps
    PROVE  Allocatable \subseteq Nat \ {0}
  BY MapFacts, LowPagesAre DEF Allocatable

(* The part of CInv that is about frames, while the manager serves. *)
Shares ==
    /\ held \cap FreeFrames = {}
    /\ held \cup FreeFrames = Allocatable
    /\ ZeroMeansExhausted

LEMMA AllocKeepsShares ==
    ASSUME IInv, Serving, Shares, NEW page, pmm_alloc_page(page),
           UNCHANGED <<map, page_count, bitmap>>
    PROVE  /\ Shares'
           /\ \/ /\ page \in FreeFrames /\ page # 0
                 /\ FreeFrames' = FreeFrames \ {page}
                 /\ held' = held \cup {page}
                 /\ ret' = page
                 /\ \A q \in FreeFrames : page <= q
              \/ /\ FreeFrames = {} /\ FreeFrames' = {}
                 /\ held' = held
                 /\ ret' = 0
  <1>1. Core /\ page_count \in Nat /\ map \in Maps
    BY ServingCore DEF IInv, TypeOK
  <1>2. FreeFrames = Bits \ used
    BY <1>1, FreeFramesAre
  <1>3. Allocatable' = Allocatable
    BY DEF Allocatable, BitmapPages, BitmapPagesAt, BitmapBytes, BitmapWords,
           LowPages, KernelPages
  <1>4. 0 \notin FreeFrames
    BY <1>1, AllocatableFacts DEF Shares
  <1>5. CASE /\ page \in Bits \ used
             /\ \A q \in Bits \ used : page <= q
             /\ used' = used \cup {page}
             /\ held' = held \cup ({page} \ {0})
             /\ ret' = page
    <2>1. page \in FreeFrames /\ page # 0 /\ ret' # 0 /\ held' = held \cup {page}
      BY <1>2, <1>4, <1>5
    <2>2. FreeFrames' = FreeFrames \ {page}
      BY <1>5 DEF FreeFrames
    <2>3. Shares'
      BY <2>1, <2>2, <1>3 DEF Shares, ZeroMeansExhausted
    <2> QED BY <1>2, <1>5, <2>1, <2>2, <2>3
  <1>6. CASE /\ Bits \ used = {}
             /\ used' = used
             /\ held' = held
             /\ ret' = 0
    <2>1. FreeFrames = {} /\ FreeFrames' = FreeFrames
      BY <1>2, <1>6 DEF FreeFrames
    <2> QED BY <1>3, <1>6, <2>1 DEF Shares, ZeroMeansExhausted
  <1> QED BY <1>1, <1>5, <1>6, AllocKeepsCore

LEMMA FreeKeepsShares ==
    ASSUME IInv, Serving, Shares, NEW page \in held, NEW offset,
           ~ FreeRefused(page, offset), FreeAccepted(page),
           UNCHANGED <<map, page_count, bitmap>>
    PROVE  /\ Shares'
           /\ FreeFrames' = FreeFrames \cup {page}
           /\ held' = held \ {page}
           /\ ret' = NoResult
  <1>1. Core /\ page_count \in Nat /\ page \in Nat
    BY ServingCore DEF IInv, TypeOK
  <1>2. page \in 0 .. page_count - 1 /\ page \in used /\ used' = used \ {page}
    BY <1>1, FreeKeepsCore
  <1>3. Allocatable' = Allocatable
    BY DEF Allocatable, BitmapPages, BitmapPagesAt, BitmapBytes, BitmapWords,
           LowPages, KernelPages
  <1>4. FreeFrames' = FreeFrames \cup {page}
    BY <1>2 DEF FreeFrames
  <1>5. held' = held \ {page} /\ ret' = NoResult /\ NoResult # 0
    BY DEF FreeAccepted, NoResult
  <1> QED BY <1>3, <1>4, <1>5 DEF Shares, ZeroMeansExhausted

(* A held frame is never refused: the halt in pmm_free_page only meets
   callers that break the contract. *)
LEMMA HeldNotRefused ==
    ASSUME IInv, Serving, Shares, NEW page \in held
    PROVE  ~ FreeRefused(page, 0)
  <1>1. page \in Allocatable /\ page \notin FreeFrames /\ page \in Nat
    BY DEF Shares, IInv, TypeOK
  <1>2. page \in 0 .. page_count - 1
    <2>1. phase # "size"
      BY DEF Serving, Built
    <2> QED BY <1>1, <2>1 DEF Allocatable, IInv, Sized
  <1>3. page \in used
    BY <1>1, <1>2 DEF FreeFrames
  <1>4. page_count \in Nat
    BY DEF IInv, TypeOK
  <1> QED BY <1>2, <1>3, <1>4 DEF FreeRefused, page_is_used

LEMMA SharesKept ==
    ASSUME Shares, UNCHANGED <<map, page_count, bitmap, used, held, ret>>
    PROVE  Shares' /\ FreeFrames' = FreeFrames
  BY DEF Shares, Allocatable, BitmapPages, BitmapPagesAt, BitmapBytes,
         BitmapWords, LowPages, KernelPages, FreeFrames, ZeroMeansExhausted

(* After the last pass of pmm_init the free frames are the allocatable ones. *)
LEMMA ReserveLeavesAllocatable ==
    ASSUME IInv, ReserveRanges, map' = map
    PROVE  FreeFrames' = Allocatable /\ Allocatable' = Allocatable
  <1>1. /\ phase = "reserve" /\ used = Bits \ Conventional(map)
        /\ page_count' = page_count /\ bitmap' = bitmap
        /\ Conventional(map) \subseteq 0 .. page_count - 1
        /\ page_count \in Nat
    BY DEF ReserveRanges, IInv, Stages, Sized, TypeOK
  <1>2. used' = used \cup ((LowPages \cup KernelPages \cup BitmapPages)
                               \cap (0 .. page_count - 1))
    BY DEF ReserveRanges, reserve_range, mark_used
  <1>3. 0 .. page_count - 1 \subseteq Bits
    BY <1>1, BitmapCovers DEF Bits
  <1>4. FreeFrames' = Allocatable
    BY <1>1, <1>2, <1>3 DEF FreeFrames, Allocatable
  <1>5. Allocatable' = Allocatable
    BY <1>1 DEF Allocatable, BitmapPages, BitmapPagesAt, BitmapBytes, BitmapWords,
           LowPages, KernelPages
  <1> QED BY <1>4, <1>5

-----------------------------------------------------------------------------
(* The contract invariant, action by action. *)

LEMMA CInvShares == CInv /\ Serving => Shares
  BY DEF CInv, Conservation, Shares

LEMMA InitCInv == Init => CInv
  <1> SUFFICES ASSUME Init PROVE CInv
    OBVIOUS
  <1>1. ~ Serving /\ phase = "size" /\ held = {} /\ tested = <<>>
    BY DEF Init, Serving, Built
  <1>2. ret # 0
    <2>1. ret = NoResult
      BY DEF Init
    <2> QED BY <2>1 DEF NoResult
  <1> QED BY <1>1, <1>2, InitIInv DEF CInv, HeldStages, Conservation

(* Steps before the manager serves. *)
LEMMA EarlyCInv ==
    ASSUME CInv, map' = map,
           SizeBitmap \/ PlaceBitmap \/ NoRoomForBitmap \/ CarveFree
    PROVE  CInv'
  <1>1. IInv'
    BY SizeBitmapIInv, PlaceBitmapIInv, NoRoomIInv, CarveFreeIInv DEF CInv
  <1>2. /\ phase \in {"size", "place", "carve"}
        /\ phase' \in {"place", "carve", "reserve", "halted"}
        /\ phase' = "halted" => bitmap' = bitmap /\ phase = "place"
        /\ UNCHANGED <<held, ret, tested>>
    BY DEF SizeBitmap, PlaceBitmap, NoRoomForBitmap, CarveFree, pmm_fatal, test, ghost
  <1>3. ~ Serving /\ ~ Serving'
    BY <1>2 DEF Serving, Built, CInv, IInv, Stages
  <1> QED BY <1>1, <1>2, <1>3 DEF CInv, HeldStages, Conservation

LEMMA ReserveRangesCInv ==
    ASSUME CInv, ReserveRanges, map' = map
    PROVE  CInv'
  <1>1. IInv'
    BY ReserveRangesIInv DEF CInv
  <1>2. phase = "reserve" /\ phase' = "built" /\ UNCHANGED <<held, ret, tested>>
    BY DEF ReserveRanges, test, ghost
  <1>3. held = {} /\ tested = <<>> /\ ~ Serving /\ ret # 0
    BY <1>2 DEF CInv, HeldStages, Serving
  <1>4. FreeFrames' = Allocatable'
    BY ReserveLeavesAllocatable DEF CInv
  <1> QED BY <1>1, <1>2, <1>3, <1>4 DEF CInv, HeldStages, Conservation, ZeroMeansExhausted

(* Steps that touch neither the bitmap nor what is held. *)
LEMMA QuietCInv ==
    ASSUME CInv, IInv', Serving, Serving', HeldStages',
           UNCHANGED <<map, page_count, bitmap, used, held, ret>>
    PROVE  CInv'
  <1>1. Shares'
    BY CInvShares, SharesKept
  <1> QED BY <1>1 DEF CInv, Shares, Conservation

LEMMA SelfTestAllocCInv ==
    ASSUME CInv, SelfTestAlloc, map' = map
    PROVE  CInv'
  <1>1. IInv'
    BY BootIInv DEF CInv, Boot
  <1>2. /\ phase = "test" /\ phase' = "check" /\ tested' = tested
        /\ UNCHANGED <<map, page_count, bitmap>>
    BY DEF SelfTestAlloc, test
  <1>3. IInv /\ Serving /\ Serving' /\ Shares
    BY <1>1, <1>2, CInvShares DEF CInv, IInv, Stages, Serving, Built
  <1>4. PICK page : pmm_alloc_page(page)
    BY DEF SelfTestAlloc
  <1>5. Shares'
    BY <1>2, <1>3, <1>4, AllocKeepsShares
  <1>6. \/ held' = held \cup {ret'} /\ ret' \in FreeFrames
        \/ held' = held /\ ret' = 0
    BY <1>2, <1>3, <1>4, AllocKeepsShares
  <1>7. Range(tested) \subseteq held /\ Range(tested') = Range(tested)
    BY <1>2 DEF CInv, HeldStages
  <1>8. HeldStages'
    <2>1. held \cap FreeFrames = {}
      BY <1>3 DEF Shares
    <2> QED BY <1>2, <1>3, <1>6, <1>7, <2>1 DEF CInv, HeldStages
  <1> QED BY <1>1, <1>3, <1>5, <1>8 DEF CInv, Shares, Conservation

LEMMA SelfTestCheckCInv ==
    ASSUME CInv, SelfTestCheck, map' = map
    PROVE  CInv'
  <1>1. IInv'
    BY BootIInv DEF CInv, Boot
  <1>2. /\ phase = "check" /\ phase' \in {"test", "halted"}
        /\ UNCHANGED <<map, page_count, bitmap, used, held, ret>>
    BY DEF SelfTestCheck, pmm_fatal, bits
  <1>3. Serving /\ Serving' /\ tested \in Seq(Nat) /\ ret \in Nat
    BY <1>2 DEF CInv, IInv, TypeOK, Stages, Serving, Built
  <1>4. HeldStages'
    <2>1. CASE phase' = "halted"
      BY <1>3, <2>1 DEF HeldStages
    <2>2. CASE phase' = "test"
      <3>1. SelfTestPageOk(ret) /\ tested' = Append(tested, ret)
        BY <2>2 DEF SelfTestCheck, pmm_fatal
      <3>2. ret \in held \ Range(tested)
        BY <1>2, <3>1 DEF SelfTestPageOk, CInv, HeldStages
      <3>3. /\ Len(tested') = Len(tested) + 1
            /\ DOMAIN tested' = 1 .. Len(tested) + 1
            /\ DOMAIN tested = 1 .. Len(tested)
            /\ tested'[Len(tested) + 1] = ret
            /\ \A i \in 1 .. Len(tested) : tested'[i] = tested[i]
            /\ Len(tested) \in Nat
        BY <1>3, <3>1
      <3>4. /\ Range(tested) \subseteq held
            /\ \A i, j \in DOMAIN tested : tested[i] = tested[j] => i = j
        BY <1>2 DEF CInv, HeldStages
      <3>5. \A i \in 1 .. Len(tested) : tested[i] \in Range(tested)
        BY <3>3 DEF Range
      <3>6. Range(tested') \subseteq held'
        BY <1>2, <3>2, <3>3, <3>4, <3>5 DEF Range
      <3>7. \A i, j \in DOMAIN tested' : tested'[i] = tested'[j] => i = j
        BY <3>2, <3>3, <3>4, <3>5
      <3> QED BY <1>3, <2>2, <3>6, <3>7 DEF HeldStages
    <2> QED BY <1>2, <2>1, <2>2
  <1> QED BY <1>1, <1>2, <1>3, <1>4, QuietCInv

LEMMA SelfTestReleaseCInv ==
    ASSUME CInv, SelfTestRelease, map' = map
    PROVE  CInv' /\ FreeAccepted(Head(tested)) /\ Head(tested) \in held
  <1>1. IInv'
    BY SelfTestReleaseIInv DEF CInv
  <1>2. /\ phase = "release" /\ tested # <<>> /\ tested' = Tail(tested)
        /\ UNCHANGED <<map, page_count, bitmap>>
    BY DEF SelfTestRelease
  <1>3. IInv /\ Serving /\ Shares /\ tested \in Seq(Nat)
    BY <1>2, CInvShares DEF CInv, IInv, TypeOK, Stages, Serving, Built
  <1>4. /\ Len(tested') = Len(tested) - 1
        /\ DOMAIN tested = 1 .. Len(tested)
        /\ DOMAIN tested' = 1 .. Len(tested) - 1
        /\ Len(tested) \in Nat \ {0}
        /\ Head(tested) = tested[1]
        /\ \A i \in 1 .. Len(tested) - 1 : tested'[i] = tested[i + 1]
    BY <1>2, <1>3, HeadTailProperties
  <1>5. /\ Range(tested) \subseteq held
        /\ \A i, j \in DOMAIN tested : tested[i] = tested[j] => i = j
    BY <1>2 DEF CInv, HeldStages
  <1>6. Head(tested) \in held
    BY <1>4, <1>5 DEF Range
  <1>7. FreeAccepted(Head(tested)) /\ phase' = phase
    BY <1>3, <1>6, HeldNotRefused DEF SelfTestRelease
  <1>8. Shares' /\ held' = held \ {Head(tested)} /\ ret' = NoResult
    BY <1>2, <1>3, <1>6, <1>7, HeldNotRefused, FreeKeepsShares
  <1>9. Range(tested') \subseteq held'
    <2> SUFFICES ASSUME NEW i \in DOMAIN tested' PROVE tested'[i] \in held'
      BY DEF Range
    <2>1. i + 1 \in DOMAIN tested /\ 1 \in DOMAIN tested /\ i + 1 # 1
      BY <1>4
    <2>2. tested'[i] = tested[i + 1]
      BY <1>4
    <2>3. tested[i + 1] \in held /\ tested[i + 1] # tested[1]
      BY <1>5, <2>1 DEF Range
    <2> QED BY <1>4, <1>8, <2>2, <2>3
  <1>10. \A i, j \in DOMAIN tested' : tested'[i] = tested'[j] => i = j
    BY <1>4, <1>5
  <1>11. Serving' /\ NoResult # 0
    BY <1>2, <1>3, <1>7 DEF Serving, Built, NoResult
  <1>12. HeldStages'
    BY <1>2, <1>7, <1>9, <1>10, <1>11 DEF HeldStages
  <1> QED BY <1>1, <1>6, <1>7, <1>8, <1>11, <1>12 DEF CInv, Shares, Conservation

LEMMA SelfTestOtherCInv ==
    ASSUME CInv, map' = map, SelfTestBegin \/ SelfTestVerify \/ SelfTestEnd \/ Halted
    PROVE  CInv'
  <1>1. IInv'
    BY BootIInv DEF CInv, Boot
  <1>2. CASE Halted
    BY <1>1, <1>2 DEF Halted, vars, bits, test, ghost, CInv, HeldStages, Conservation, Serving,
        Built, ZeroMeansExhausted, FreeFrames, Allocatable, BitmapPages,
        BitmapPagesAt, BitmapBytes, BitmapWords, LowPages, KernelPages
  <1>3. CASE SelfTestBegin \/ SelfTestVerify \/ SelfTestEnd
    <2>1. /\ phase \in {"built", "test", "release"}
          /\ phase = "built" => phase' = "test"
          /\ phase # "built" => phase' \in {"release", "ready", "halted"}
          /\ UNCHANGED <<map, page_count, bitmap, used, held, ret, tested>>
      BY <1>3 DEF SelfTestBegin, SelfTestVerify, SelfTestEnd, pmm_fatal, bits,
                  test, ghost
    <2>2. Serving /\ Serving'
      BY <2>1 DEF CInv, IInv, Stages, Serving, Built
    <2>3. Range(<<>>) = {}
      BY DEF Range
    <2>4. HeldStages'
      <3>1. CASE phase = "built"
        BY <2>1, <2>2, <2>3, <3>1 DEF CInv, HeldStages
      <3>2. CASE phase # "built"
        BY <2>1, <2>2, <3>2 DEF CInv, HeldStages
      <3> QED BY <3>1, <3>2
    <2> QED BY <1>1, <2>1, <2>2, <2>4, QuietCInv
  <1> QED BY <1>2, <1>3

LEMMA AllocCInv ==
    ASSUME CInv, Alloc, map' = map
    PROVE  CInv'
  <1>1. IInv'
    BY AllocStepIInv DEF CInv
  <1>2. phase = "ready" /\ phase' = "ready" /\ UNCHANGED <<map, page_count, bitmap>>
    BY DEF Alloc
  <1>3. IInv /\ Serving /\ Serving' /\ Shares
    BY <1>1, <1>2, CInvShares DEF CInv, IInv, Stages, Serving, Built
  <1>4. Shares'
    BY <1>2, <1>3, AllocKeepsShares DEF Alloc
  <1> QED BY <1>1, <1>2, <1>3, <1>4 DEF CInv, HeldStages, Shares, Conservation

LEMMA FreeHeldCInv ==
    ASSUME CInv, FreeHeld, map' = map
    PROVE  CInv' /\ \E page \in held : FreeAccepted(page) /\ phase' = phase
  <1>1. PICK page \in held : Free(page, 0)
    BY DEF FreeHeld
  <1>2. IInv'
    BY <1>1, FreeIInv DEF CInv, IInv, TypeOK
  <1>3. phase = "ready" /\ UNCHANGED <<map, page_count, bitmap>>
    BY <1>1 DEF Free
  <1>4. IInv /\ Serving /\ Shares
    BY <1>3, CInvShares DEF CInv, IInv, Stages, Serving, Built
  <1>5. FreeAccepted(page) /\ phase' = phase
    BY <1>1, <1>4, HeldNotRefused DEF Free
  <1>6. Shares' /\ Serving'
    BY <1>3, <1>4, <1>5, HeldNotRefused, FreeKeepsShares DEF Serving, Built
  <1> QED BY <1>2, <1>3, <1>5, <1>6 DEF CInv, HeldStages, Shares, Conservation

LEMMA StutterCInv == CInv /\ UNCHANGED vars => CInv'
  <1> SUFFICES ASSUME CInv, UNCHANGED vars PROVE CInv'
    OBVIOUS
  <1>1. IInv'
    BY StutterIInv DEF CInv
  <1> QED BY <1>1 DEF vars, bits, test, ghost, CInv, HeldStages, Conservation,
        Serving, Built, ZeroMeansExhausted, FreeFrames, Allocatable, BitmapPages,
        BitmapPagesAt, BitmapBytes, BitmapWords, LowPages, KernelPages

LEMMA NextCInv == CInv /\ [Next]_vars => CInv'
  BY EarlyCInv, ReserveRangesCInv, SelfTestAllocCInv, SelfTestCheckCInv,
     SelfTestReleaseCInv, SelfTestOtherCInv, AllocCInv, FreeHeldCInv, StutterCInv
  DEF Next, Boot

LEMMA SpecCInv == Spec => []CInv
  BY InitCInv, NextCInv, PTL DEF Spec

(* From the end of pmm_init on, the free pages and the held ones partition
   the allocatable memory: none is lost and none is given twice. *)
THEOREM FramesConserved == Spec => []Conservation
  <1>1. CInv => Conservation
    BY DEF CInv
  <1> QED BY <1>1, SpecCInv, PTL

(* pmm_alloc_page answers 0 only when no frame is left. *)
THEOREM ZeroIsExhaustion == Spec => []ZeroMeansExhausted
  <1>1. CInv => ZeroMeansExhausted
    BY DEF CInv, ZeroMeansExhausted
  <1> QED BY <1>1, SpecCInv, PTL

-----------------------------------------------------------------------------
(* Where frames come from, and where the manager writes. *)

(* Steps other than allocations hand nothing out. *)
LEMMA OnlyAllocGives ==
    ASSUME CInv, Next, ~ SelfTestAlloc, ~ Alloc
    PROVE  held' \subseteq held
  <1>1. CASE SelfTestRelease
    BY <1>1, SelfTestReleaseCInv DEF FreeAccepted, Next
  <1>2. CASE FreeHeld
    BY <1>2, FreeHeldCInv DEF FreeAccepted, Next
  <1> QED BY <1>1, <1>2
          DEF Next, Boot, SizeBitmap, PlaceBitmap, NoRoomForBitmap, CarveFree,
              ReserveRanges, SelfTestBegin, SelfTestCheck, SelfTestVerify,
              SelfTestEnd, Halted, vars, test, ghost

(* Every allocation takes the lowest free page of the machine, whatever the
   history of allocations and frees and wherever the cursor is: the next-fit
   search with its cursor pulled back is first-fit. *)
THEOREM AllocationIsLowest == Spec => AllocLowest
  <1>1. CInv /\ [Next]_vars
          => [\A p \in held' \ held : \A q \in FreeFrames : p <= q]_vars
    <2> SUFFICES ASSUME CInv, Next, NEW p \in held' \ held, NEW q \in FreeFrames
                 PROVE  p <= q
      OBVIOUS
    <2>1. CASE SelfTestAlloc \/ Alloc
      <3>1. phase \in {"test", "ready"} /\ UNCHANGED <<map, page_count, bitmap>>
        BY <2>1 DEF SelfTestAlloc, Alloc, Next
      <3>2. IInv /\ Serving /\ Shares
        BY <3>1, CInvShares DEF CInv, IInv, Stages, Serving, Built
      <3>3. PICK page : pmm_alloc_page(page)
        BY <2>1 DEF SelfTestAlloc, Alloc
      <3> QED BY <3>1, <3>2, <3>3, AllocKeepsShares
    <2> QED BY <2>1, OnlyAllocGives
  <1> QED BY <1>1, SpecCInv, PTL DEF Spec, AllocLowest

LEMMA PlaceWritesSafe ==
    ASSUME KernelExcluded, CInv, PlaceBitmap, map' = map
    PROVE  writes' \ writes \subseteq Conventional(map) \ (LowPages \cup KernelPages)
  <1>1. PICK i \in DOMAIN map :
            HoldsBitmap(map[i]) /\ writes' = writes \cup BitmapPagesAt(map[i].start)
    BY DEF PlaceBitmap
  <1>2. map \in Maps /\ map[i] \in Descriptors /\ page_count \in Nat
    BY MapFacts DEF CInv, IInv, TypeOK
  <1>3. /\ BitmapPagesAt(map[i].start) \subseteq PagesOf(map[i])
        /\ BitmapPagesAt(map[i].start) \cap LowPages = {}
    BY <1>1, <1>2, BitmapInsideRegion
  <1>4. PagesOf(map[i]) \subseteq Conventional(map)
    BY <1>1 DEF HoldsBitmap, Conventional, Range
  <1> QED BY <1>1, <1>2, <1>3, <1>4 DEF KernelExcluded

LEMMA NextWritesSafe ==
    ASSUME KernelExcluded
    PROVE  CInv /\ WritesSafe /\ [Next]_vars => WritesSafe'
  <1> DEFINE Safe == Conventional(map) \ (LowPages \cup KernelPages)
  <1> SUFFICES ASSUME CInv, WritesSafe, [Next]_vars PROVE WritesSafe'
    OBVIOUS
  <1>1. map' = map /\ Safe' = Safe
    BY DEF Next, vars, LowPages, KernelPages
  <1>2. CASE PlaceBitmap
    <2>1. writes' \ writes \subseteq Safe
      BY <1>1, <1>2, PlaceWritesSafe
    <2> QED BY <1>1, <2>1 DEF WritesSafe
  <1>3. CASE SelfTestCheck
    <2>1. writes' = writes \/ (writes' = writes \cup {ret} /\ SelfTestPageOk(ret))
      BY <1>3 DEF SelfTestCheck
    <2>2. SelfTestPageOk(ret) => ret \in held
      BY <1>3 DEF SelfTestCheck, SelfTestPageOk, CInv, HeldStages
    <2>3. Shares
      BY <1>3, CInvShares DEF SelfTestCheck, CInv, IInv, Stages, Serving, Built
    <2>4. held \subseteq Safe
      BY <2>3 DEF Shares, Allocatable
    <2> QED BY <1>1, <2>1, <2>2, <2>4 DEF WritesSafe
  <1>4. CASE ~ PlaceBitmap /\ ~ SelfTestCheck
    <2>1. writes' = writes
      BY <1>4 DEF Next, Boot, SizeBitmap, NoRoomForBitmap, CarveFree,
            ReserveRanges, SelfTestBegin, SelfTestAlloc, SelfTestVerify,
            SelfTestRelease, SelfTestEnd, Halted, Alloc, FreeHeld, Free, vars,
            test, ghost
    <2> QED BY <1>1, <2>1 DEF WritesSafe
  <1> QED BY <1>2, <1>3, <1>4

(* When the bootloader keeps the kernel out of the free memory it reports,
   every store of the manager - the fill of the bitmap and the tags of the
   self-test - lands in free memory above the low megabyte. *)
THEOREM StoresAreSafe == ASSUME KernelExcluded PROVE Spec => []WritesSafe
  <1>1. Init => WritesSafe
    BY DEF Init, WritesSafe
  <1>2. CInv /\ WritesSafe /\ [Next]_vars => WritesSafe'
    BY NextWritesSafe
  <1> QED BY <1>1, <1>2, SpecCInv, PTL DEF Spec

-----------------------------------------------------------------------------
(* Pmm implements FrameAllocator. *)

AbsState == IF phase = "halted" THEN "stopped" ELSE IF Up THEN "up" ELSE "down"
AbsFree == IF Up THEN FreeFrames ELSE {}

(* A step that halts is the abstract Stop. *)
LEMMA HaltIsStop ==
    ASSUME phase # "halted", phase' = "halted", UNCHANGED <<held, ret>>
    PROVE  Abstract!Stop
  BY DEF Abstract!Stop, Up

LEMMA AllocIsAbstract ==
    ASSUME CInv, NEW page, pmm_alloc_page(page),
           phase \in {"test", "ready"}, phase' \in {"check", "ready"},
           UNCHANGED <<map, page_count, bitmap>>
    PROVE  Abstract!Next
  <1>1. IInv /\ Serving /\ Shares
    BY CInvShares DEF CInv, IInv, Stages, Serving, Built
  <1>2. AbsState = "up" /\ AbsState' = "up" /\ AbsFree = FreeFrames /\ AbsFree' = FreeFrames'
    BY DEF AbsState, AbsFree, Up
  <1>3. CASE /\ page \in FreeFrames
             /\ FreeFrames' = FreeFrames \ {page}
             /\ held' = held \cup {page}
             /\ ret' = page
    <2>1. Abstract!Alloc
      BY <1>2, <1>3 DEF Abstract!Alloc, AbsState, AbsFree
    <2> QED BY <2>1 DEF Abstract!Next
  <1>4. CASE FreeFrames = {} /\ FreeFrames' = {} /\ held' = held /\ ret' = 0
    <2>1. Abstract!AllocFails
      BY <1>2, <1>4 DEF Abstract!AllocFails, Abstract!Exhausted, AbsState, AbsFree
    <2> QED BY <2>1 DEF Abstract!Next
  <1> QED BY <1>1, <1>3, <1>4, AllocKeepsShares

LEMMA FreeIsAbstract ==
    ASSUME CInv, NEW page \in held, FreeAccepted(page),
           phase \in {"release", "ready"}, phase' = phase,
           UNCHANGED <<map, page_count, bitmap>>
    PROVE  Abstract!Next
  <1>1. IInv /\ Serving /\ Shares
    BY CInvShares DEF CInv, IInv, Stages, Serving, Built
  <1>2. AbsState = "up" /\ AbsState' = "up" /\ AbsFree = FreeFrames /\ AbsFree' = FreeFrames'
    BY DEF AbsState, AbsFree, Up
  <1>3. /\ FreeFrames' = FreeFrames \cup {page}
        /\ held' = held \ {page}
        /\ ret' = NoResult
    BY <1>1, HeldNotRefused, FreeKeepsShares
  <1>4. Abstract!Free
    BY <1>2, <1>3 DEF Abstract!Free, Abstract!NoResult, NoResult, AbsState, AbsFree
  <1> QED BY <1>4 DEF Abstract!Next

LEMMA StepIsAbstract ==
    ASSUME CInv, CInv', Next
    PROVE  Abstract!Next \/ UNCHANGED Abstract!vars
  <1>1. CASE SizeBitmap \/ (PlaceBitmap /\ map' = map) \/ CarveFree
    BY <1>1 DEF SizeBitmap, PlaceBitmap, CarveFree, Abstract!vars, Up, test, ghost
  <1>2. CASE NoRoomForBitmap
    <2>1. phase # "halted" /\ phase' = "halted" /\ UNCHANGED <<held, ret>>
      BY <1>2 DEF NoRoomForBitmap, pmm_fatal, ghost
    <2> QED BY <2>1, HaltIsStop DEF Abstract!Next
  <1>3. CASE ReserveRanges
    <2>1. phase = "reserve" /\ phase' = "built" /\ UNCHANGED <<held, ret>>
      BY <1>3 DEF ReserveRanges, ghost
    <2>2. FreeFrames' \subseteq Nat \ {0}
      BY <1>3, ReserveLeavesAllocatable, AllocatableFacts DEF CInv, IInv, Next
    <2>3. Abstract!Start
      BY <2>1, <2>2 DEF Abstract!Start, Abstract!Frames, Up
    <2> QED BY <2>3 DEF Abstract!Next
  <1>4. CASE SelfTestAlloc
    <2>1. UNCHANGED <<map, page_count, bitmap>> /\ phase = "test" /\ phase' = "check"
      BY <1>4 DEF SelfTestAlloc, Next
    <2>2. PICK page : pmm_alloc_page(page)
      BY <1>4 DEF SelfTestAlloc
    <2> QED BY <2>1, <2>2, AllocIsAbstract
  <1>5. CASE Alloc
    <2>1. UNCHANGED <<map, page_count, bitmap>> /\ phase = "ready" /\ phase' = "ready"
      BY <1>5 DEF Alloc, Next
    <2>2. PICK page : pmm_alloc_page(page)
      BY <1>5 DEF Alloc
    <2> QED BY <2>1, <2>2, AllocIsAbstract
  <1>6. CASE SelfTestRelease
    <2>1. FreeAccepted(Head(tested)) /\ Head(tested) \in held /\ map' = map
      BY <1>6, SelfTestReleaseCInv DEF Next
    <2>2. phase = "release" /\ UNCHANGED <<page_count, bitmap>>
      BY <1>6 DEF SelfTestRelease
    <2>3. phase' = phase
      <3>1. IInv /\ Serving /\ Shares
        BY <2>2, CInvShares DEF CInv, IInv, Stages, Serving, Built
      <3> QED BY <1>6, <2>1, <3>1, HeldNotRefused DEF SelfTestRelease
    <2> QED BY <2>1, <2>2, <2>3, FreeIsAbstract
  <1>7. CASE FreeHeld
    <2>1. PICK page \in held : FreeAccepted(page) /\ phase' = phase
      BY <1>7, FreeHeldCInv DEF Next
    <2>2. phase = "ready" /\ UNCHANGED <<map, page_count, bitmap>>
      BY <1>7 DEF FreeHeld, Free, Next
    <2> QED BY <2>1, <2>2, FreeIsAbstract
  <1>8. CASE SelfTestBegin \/ SelfTestCheck \/ SelfTestVerify \/ SelfTestEnd
    <2>1. UNCHANGED <<page_count, used, held, ret>>
      BY <1>8 DEF SelfTestBegin, SelfTestCheck, SelfTestVerify, SelfTestEnd, bits, ghost
    <2>2. /\ phase \in {"built", "check", "test", "release"}
          /\ phase' \in {"test", "release", "ready", "halted"}
      BY <1>8 DEF SelfTestBegin, SelfTestCheck, SelfTestVerify, SelfTestEnd, pmm_fatal
    <2>3. CASE phase' = "halted"
      BY <2>1, <2>2, <2>3, HaltIsStop DEF Abstract!Next
    <2>4. CASE phase' # "halted"
      BY <2>1, <2>2, <2>4 DEF Abstract!vars, Up, FreeFrames
    <2> QED BY <2>3, <2>4
  <1>9. CASE Halted
    BY <1>9 DEF Halted, vars, bits, ghost, Abstract!vars, Up, FreeFrames
  <1> QED BY <1>1, <1>2, <1>3, <1>4, <1>5, <1>6, <1>7, <1>8, <1>9 DEF Next, Boot

(* The bitmap, its cursor and the self-test implement the allocator that pmm.h
   describes: every step is a start, an allocation of a free frame, an honest
   failure, the return of a held frame, a stop, or invisible. *)
THEOREM PmmImplementsFrameAllocator == Spec => Refinement
  <1>1. Init => Abstract!Init
    BY DEF Init, Abstract!Init, Up, NoResult, Abstract!NoResult
  <1>2. CInv /\ CInv' /\ [Next]_vars => [Abstract!Next]_(Abstract!vars)
    <2> SUFFICES ASSUME CInv, CInv', [Next]_vars
                 PROVE  Abstract!Next \/ UNCHANGED Abstract!vars
      OBVIOUS
    <2>1. CASE UNCHANGED vars
      BY <2>1 DEF vars, bits, ghost, Abstract!vars, Up, FreeFrames
    <2> QED BY <2>1, StepIsAbstract
  <1> QED BY <1>1, <1>2, SpecCInv, PTL DEF Spec, Refinement, Abstract!Spec

-----------------------------------------------------------------------------
(* What pmm_init relies on and what pmm_self_test finds out: pass 3 clears bits
   that exist, and the boot stops in the self-test exactly when there are too
   few frames or RAM is broken. *)


(* Every page pass 3 clears has a bit in the bitmap that pass 1 sized
   (pmm.c:206-217). *)
THEOREM CarvedPagesHaveBits == Spec => []CarveInBounds
  <1>1. CInv => CarveInBounds
    <2> SUFFICES ASSUME CInv, phase = "carve" PROVE Conventional(map) \subseteq Bits
      BY DEF CarveInBounds
    <2>1. page_count \in Nat /\ Conventional(map) \subseteq 0 .. page_count - 1
      BY DEF CInv, IInv, TypeOK, Sized
    <2> QED BY <2>1, BitmapCovers DEF Bits
  <1> QED BY <1>1, SpecCInv, PTL

-----------------------------------------------------------------------------
(* Counting frames. *)

(* A sequence without repetitions has as many elements as it is long. *)
LEMMA DistinctCount ==
    ASSUME NEW s \in Seq(Nat), \A i, j \in DOMAIN s : s[i] = s[j] => i = j
    PROVE  IsFiniteSet(Range(s)) /\ Cardinality(Range(s)) = Len(s)
  <1>1. Len(s) \in Nat /\ s \in [1 .. Len(s) -> Nat] /\ DOMAIN s = 1 .. Len(s)
    BY LenProperties
  <1>2. s \in Bijection(1 .. Len(s), Range(s))
    BY <1>1 DEF Bijection, Injection, IsInjective, Surjection, Range
  <1>3. ExistsBijection(1 .. Len(s), Range(s))
    BY <1>2 DEF ExistsBijection
  <1> QED BY <1>1, <1>3, FS_Bijection, FS_CountingElements, FS_Interval

LEMMA AllocatableFinite ==
    ASSUME CInv, Serving
    PROVE  IsFiniteSet(Allocatable) /\ Cardinality(Allocatable) \in Nat
  <1>1. page_count \in Nat /\ Conventional(map) \subseteq 0 .. page_count - 1
    BY DEF CInv, IInv, TypeOK, Sized, Serving, Built
  <1>2. Allocatable \in SUBSET (0 .. page_count - 1)
    BY <1>1 DEF Allocatable
  <1>3. IsFiniteSet(0 .. page_count - 1)
    BY <1>1, FS_Interval
  <1>4. IsFiniteSet(Allocatable)
    BY <1>2, <1>3, FS_Subset
  <1> QED BY <1>4, FS_CardinalityType

(* When nobody holds a frame, the count is the number of frames. *)
LEMMA CountIsAllocatable ==
    ASSUME CInv, Serving, held = {}
    PROVE  free_pages = Cardinality(Allocatable)
  <1>1. FreeFrames = Bits \ used
    BY FreeFramesAre, ServingCore DEF CInv, IInv, TypeOK
  <1>2. FreeFrames = Allocatable
    BY DEF CInv, Conservation
  <1> QED BY <1>1, <1>2 DEF CInv, IInv, CountExact, Serving

LEMMA AllocatableSame ==
    UNCHANGED <<map, page_count, bitmap>> => Allocatable' = Allocatable
  BY DEF Allocatable, BitmapPages, BitmapPagesAt, BitmapBytes, BitmapWords,
         LowPages, KernelPages

-----------------------------------------------------------------------------
(* The inductive invariant. *)

LEMMA InitTInv == Init => TInv
  <1> SUFFICES ASSUME Init PROVE TInv
    OBVIOUS
  <1>1. phase = "size" /\ why = "none"
    BY DEF Init
  <1> QED BY <1>1, InitCInv DEF TInv, TestOwns, SelfTestVerdict

LEMMA EarlyTInv ==
    ASSUME TInv, CInv', map' = map,
           SizeBitmap \/ PlaceBitmap \/ NoRoomForBitmap \/ CarveFree \/ ReserveRanges
    PROVE  TInv'
  <1>1. /\ phase \in {"size", "place", "carve", "reserve"}
        /\ \/ phase' \in {"place", "carve", "reserve", "built"} /\ why' = why
           \/ phase' = "halted" /\ why' = "no region"
    BY DEF SizeBitmap, PlaceBitmap, NoRoomForBitmap, CarveFree, ReserveRanges, pmm_fatal
  <1>2. why = "none"
    BY <1>1 DEF TInv, TestOwns
  <1> QED BY <1>1, <1>2 DEF TInv, TestOwns, SelfTestVerdict

LEMMA BeginTInv ==
    ASSUME TInv, CInv', map' = map, SelfTestBegin
    PROVE  TInv'
  <1>1. /\ phase = "built" /\ phase' = "test" /\ before' = free_pages
        /\ UNCHANGED <<why, page_count, bitmap, held, tested>>
    BY DEF SelfTestBegin, bits, ghost
  <1>2. CInv /\ Serving /\ held = {} /\ tested = <<>> /\ why = "none"
    BY <1>1 DEF TInv, TestOwns, CInv, IInv, Stages, Serving, Built, HeldStages
  <1>3. before' = Cardinality(Allocatable) /\ Allocatable' = Allocatable
    BY <1>1, <1>2, CountIsAllocatable, AllocatableSame
  <1>4. Range(<<>>) = {} /\ Len(<<>>) <= SelfTestPages
    BY ConstantsAssumption DEF Range
  <1> QED BY <1>1, <1>2, <1>3, <1>4 DEF TInv, TestOwns, SelfTestVerdict

LEMMA AllocTInv ==
    ASSUME TInv, CInv', map' = map, SelfTestAlloc
    PROVE  TInv'
  <1>1. /\ phase = "test" /\ phase' = "check" /\ Len(tested) < SelfTestPages
        /\ UNCHANGED <<map, why, page_count, bitmap, before, tested>>
    BY DEF SelfTestAlloc, test
  <1>2. IInv /\ Serving /\ Shares
    BY <1>1, CInvShares DEF TInv, CInv, IInv, Stages, Serving, Built
  <1>3. PICK page : pmm_alloc_page(page)
    BY DEF SelfTestAlloc
  <1>4. held' = held \cup ({ret'} \ {0})
    <2>1. \/ page # 0 /\ held' = held \cup {page} /\ ret' = page
          \/ held' = held /\ ret' = 0
      BY <1>1, <1>2, <1>3, AllocKeepsShares
    <2> QED BY <2>1
  <1>5. held = Range(tested) /\ why = "none" /\ before = Cardinality(Allocatable)
    BY <1>1 DEF TInv, TestOwns
  <1> QED BY <1>1, <1>4, <1>5, AllocatableSame DEF TInv, TestOwns, SelfTestVerdict

LEMMA CheckTInv ==
    ASSUME TInv, CInv', map' = map, SelfTestCheck
    PROVE  TInv'
  <1>1. /\ phase = "check"
        /\ UNCHANGED <<map, page_count, bitmap, before, held, ret>>
    BY DEF SelfTestCheck
  <1>2. /\ CInv /\ Serving /\ Shares /\ tested \in Seq(Nat) /\ ret \in Nat
        /\ Allocatable' = Allocatable
    BY <1>1, CInvShares, AllocatableSame
       DEF TInv, CInv, IInv, TypeOK, Stages, Serving, Built
  <1>3. /\ held = Range(tested) \cup ({ret} \ {0}) /\ Len(tested) < SelfTestPages
        /\ before = Cardinality(Allocatable) /\ why = "none"
    BY <1>1 DEF TInv, TestOwns
  <1>4. CASE ret = 0
    <2>1. phase' = "halted" /\ why' = "out of memory"
      BY <1>4 DEF SelfTestCheck, SelfTestPageOk, pmm_fatal
    <2>2. Allocatable = Range(tested)
      BY <1>2, <1>3, <1>4 DEF Shares, ZeroMeansExhausted
    <2>3. Cardinality(Range(tested)) = Len(tested)
      BY <1>1, <1>2, DistinctCount DEF CInv, HeldStages
    <2> QED BY <1>2, <1>3, <2>1, <2>2, <2>3 DEF TInv, TestOwns, SelfTestVerdict
  <1>5. CASE ret # 0
    <2>1. ret \notin Range(tested) /\ ret \in held
      BY <1>1, <1>5 DEF TInv, CInv, HeldStages
    <2>2. ret * PageSize >= LowMemoryLimit
      <3>1. ret \notin LowPages
        BY <1>2, <2>1 DEF Shares, Allocatable
      <3>2. ret * PageSize \in Nat /\ LowMemoryLimit \in Nat
        BY <1>2, ConstantsAssumption
      <3> QED BY <1>2, <3>1, <3>2, LowPagesAre
    <2>3. SelfTestPageOk(ret)
      BY <1>5, <2>1, <2>2 DEF SelfTestPageOk
    <2>4. phase' = "test" /\ why' = why /\ tested' = Append(tested, ret)
      BY <2>3 DEF SelfTestCheck
    <2>5. /\ Len(tested) \in Nat /\ Len(tested') = Len(tested) + 1
          /\ DOMAIN tested' = 1 .. Len(tested) + 1 /\ DOMAIN tested = 1 .. Len(tested)
          /\ tested'[Len(tested) + 1] = ret
          /\ \A i \in 1 .. Len(tested) : tested'[i] = tested[i]
      BY <1>2, <2>4
    <2>6. Range(tested') = Range(tested) \cup {ret}
      BY <2>5 DEF Range
    <2>7. held' = Range(tested')
      BY <1>1, <1>3, <1>5, <2>6
    <2>8. Len(tested') <= SelfTestPages
      BY <1>3, <2>5, ConstantsAssumption
    <2> QED BY <1>1, <1>2, <1>3, <2>4, <2>7, <2>8 DEF TInv, TestOwns, SelfTestVerdict
  <1> QED BY <1>4, <1>5

LEMMA VerifyTInv ==
    ASSUME TInv, CInv', map' = map, SelfTestVerify
    PROVE  TInv'
  <1>1. /\ phase = "test" /\ Len(tested) = SelfTestPages
        /\ UNCHANGED <<map, page_count, bitmap, before, held, tested>>
        /\ \/ phase' = "release" /\ why' = why
           \/ phase' = "halted" /\ why' = "bad RAM"
    BY DEF SelfTestVerify, pmm_fatal, test, ghost
  <1>2. /\ CInv /\ Serving /\ Shares /\ tested \in Seq(Nat)
        /\ Allocatable' = Allocatable
    BY <1>1, CInvShares, AllocatableSame
       DEF TInv, CInv, IInv, TypeOK, Stages, Serving, Built
  <1>3. /\ held = Range(tested) /\ before = Cardinality(Allocatable) /\ why = "none"
    BY <1>1 DEF TInv, TestOwns
  <1>4. Cardinality(Allocatable) >= SelfTestPages
    <2>1. Range(tested) \in SUBSET Allocatable
      BY <1>2, <1>3 DEF Shares
    <2>2. Cardinality(Range(tested)) = Len(tested)
      BY <1>1, <1>2, DistinctCount DEF CInv, HeldStages
    <2>3. Cardinality(Range(tested)) <= Cardinality(Allocatable)
      BY <1>2, <2>1, AllocatableFinite, FS_Subset
    <2> QED BY <1>1, <2>2, <2>3
  <1> QED BY <1>1, <1>2, <1>3, <1>4 DEF TInv, TestOwns, SelfTestVerdict

LEMMA ReleaseTInv ==
    ASSUME TInv, CInv', map' = map, SelfTestRelease
    PROVE  TInv'
  <1>1. /\ phase = "release" /\ tested # <<>> /\ tested' = Tail(tested)
        /\ UNCHANGED <<map, page_count, bitmap, before>>
    BY DEF SelfTestRelease
  <1>2. /\ CInv /\ IInv /\ Serving /\ Shares /\ tested \in Seq(Nat)
        /\ Allocatable' = Allocatable
    BY <1>1, CInvShares, AllocatableSame
       DEF TInv, CInv, IInv, TypeOK, Stages, Serving, Built
  <1>3. /\ held = Range(tested) /\ before = Cardinality(Allocatable) /\ why = "none"
        /\ Cardinality(Allocatable) >= SelfTestPages
    BY <1>1 DEF TInv, TestOwns
  <1>4. FreeAccepted(Head(tested)) /\ Head(tested) \in held
    BY <1>2, SelfTestReleaseCInv
  <1>5. phase' = phase /\ why' = why
    BY <1>2, <1>4, HeldNotRefused DEF SelfTestRelease
  <1>6. held' = held \ {Head(tested)}
    BY <1>4 DEF FreeAccepted
  <1>7. /\ DOMAIN tested = 1 .. Len(tested) /\ Len(tested) \in Nat \ {0}
        /\ DOMAIN tested' = 1 .. Len(tested) - 1
        /\ Head(tested) = tested[1]
        /\ \A i \in 1 .. Len(tested) - 1 : tested'[i] = tested[i + 1]
    BY <1>1, <1>2, HeadTailProperties
  <1>8. \A i, j \in DOMAIN tested : tested[i] = tested[j] => i = j
    BY <1>1, <1>2 DEF CInv, HeldStages
  <1>9. Range(tested') = Range(tested) \ {Head(tested)}
    <2>1. ASSUME NEW i \in DOMAIN tested'
          PROVE  tested'[i] \in Range(tested) \ {Head(tested)}
      <3>1. i + 1 \in DOMAIN tested /\ 1 \in DOMAIN tested /\ i + 1 # 1
        BY <1>7
      <3> QED BY <1>7, <1>8, <3>1 DEF Range
    <2>2. ASSUME NEW i \in DOMAIN tested, tested[i] # Head(tested)
          PROVE  tested[i] \in Range(tested')
      <3>1. i - 1 \in DOMAIN tested' /\ (i - 1) + 1 = i
        BY <1>7, <2>2
      <3>2. tested'[i - 1] = tested[i]
        BY <1>7, <3>1
      <3> QED BY <3>1, <3>2 DEF Range
    <2> QED BY <2>1, <2>2 DEF Range
  <1> QED BY <1>1, <1>2, <1>3, <1>5, <1>6, <1>9 DEF TInv, TestOwns, SelfTestVerdict

LEMMA EndTInv ==
    ASSUME TInv, CInv', map' = map, SelfTestEnd
    PROVE  TInv'
  <1>1. /\ phase = "release" /\ tested = <<>>
        /\ UNCHANGED <<map, page_count, bitmap>>
    BY DEF SelfTestEnd
  <1>2. CInv /\ Serving /\ Allocatable' = Allocatable
    BY <1>1, AllocatableSame DEF TInv, CInv, IInv, Stages, Serving, Built
  <1>3. /\ held = Range(tested) /\ before = Cardinality(Allocatable) /\ why = "none"
        /\ Cardinality(Allocatable) >= SelfTestPages
    BY <1>1 DEF TInv, TestOwns
  <1>4. held = {}
    BY <1>1, <1>3 DEF Range
  <1>5. free_pages = before
    BY <1>2, <1>3, <1>4, CountIsAllocatable
  <1>6. phase' = "ready" /\ why' = why
    BY <1>5 DEF SelfTestEnd
  <1>7. Serving'
    BY <1>1, <1>2, <1>6 DEF Serving, Built
  <1> QED BY <1>2, <1>3, <1>6, <1>7 DEF TInv, TestOwns, SelfTestVerdict

(* Calls of the rest of the kernel, and the states that stay. *)
LEMMA LaterTInv ==
    ASSUME TInv, CInv', map' = map, Alloc \/ FreeHeld \/ Halted
    PROVE  TInv'
  <1>1. CASE Alloc \/ FreeHeld
    <2>1. phase = "ready" /\ UNCHANGED <<phase, why, map, page_count, bitmap>>
      <3>1. CASE Alloc
        BY <3>1 DEF Alloc
      <3>2. CASE FreeHeld
        <4>1. phase' = phase
          BY <3>2, FreeHeldCInv DEF TInv
        <4>2. phase = "ready"
          BY <3>2 DEF FreeHeld, Free
        <4>3. why' = why /\ UNCHANGED <<map, page_count, bitmap>>
          BY <3>2, <4>1, <4>2 DEF FreeHeld, Free, pmm_fatal
        <4> QED BY <4>1, <4>2, <4>3
      <3> QED BY <1>1, <3>1, <3>2
    <2>2. Allocatable' = Allocatable /\ Serving' = Serving /\ why = "none"
      BY <2>1, AllocatableSame DEF Serving, Built, TInv, TestOwns
    <2> QED BY <2>1, <2>2 DEF TInv, TestOwns, SelfTestVerdict
  <1>2. CASE Halted
    <2>1. phase = "halted" /\ UNCHANGED <<phase, why, map, page_count, bitmap>>
      BY <1>2 DEF Halted, vars
    <2>2. Allocatable' = Allocatable
      BY <2>1, AllocatableSame
    <2> QED BY <2>1, <2>2 DEF TInv, TestOwns, SelfTestVerdict
  <1> QED BY <1>1, <1>2

LEMMA StutterTInv == TInv /\ CInv' /\ UNCHANGED vars => TInv'
  <1> SUFFICES ASSUME TInv, CInv', UNCHANGED vars PROVE TInv'
    OBVIOUS
  <1>1. UNCHANGED <<map, phase, why, page_count, bitmap, tested, before, held, ret>>
    BY DEF vars, test, ghost
  <1>2. Allocatable' = Allocatable /\ Serving' = Serving
    BY <1>1, AllocatableSame DEF Serving, Built
  <1> QED BY <1>1, <1>2 DEF TInv, TestOwns, SelfTestVerdict

LEMMA NextTInv == TInv /\ [Next]_vars => TInv'
  <1> SUFFICES ASSUME TInv, [Next]_vars PROVE TInv'
    OBVIOUS
  <1>1. CInv'
    BY NextCInv DEF TInv
  <1> QED BY <1>1, EarlyTInv, BeginTInv, AllocTInv, CheckTInv, VerifyTInv,
             ReleaseTInv, EndTInv, LaterTInv, StutterTInv DEF Next, Boot

(* The self-test stops the boot exactly when there are fewer frames than it
   takes or a page does not hold its tag; its other three complaints are
   never made (pmm.c:312-353). *)
THEOREM SelfTestIsExact == Spec => []SelfTestVerdict
  <1>1. TInv => SelfTestVerdict
    BY DEF TInv
  <1> QED BY <1>1, InitTInv, NextTInv, PTL DEF Spec

=============================================================================
