----------------------------- MODULE PmmProofs -----------------------------
(***************************************************************************)
(* Proofs about the physical memory manager, for every word and page size, *)
(* every kernel position and every set of memory maps.                     *)
(*                                                                         *)
(* IInv is the inductive invariant that holds whatever callers pass to     *)
(* pmm_free_page (SpecAny).                                                *)
(***************************************************************************)
EXTENDS Pmm, FiniteSetTheorems, SequenceTheorems, TLAPS

-----------------------------------------------------------------------------
(* Arithmetic of words and pages. *)

(* Rounding up covers what is rounded. *)
LEMMA CeilDivFacts ==
    ASSUME NEW a \in Nat, NEW b \in Nat \ {0}
    PROVE  /\ CeilDiv(a, b) \in Nat
           /\ a <= CeilDiv(a, b) * b
           /\ CeilDiv(a, b) * b < a + b
  <1>1. a + b - 1 \in Nat
    OBVIOUS
  <1> QED BY <1>1 DEF CeilDiv

(* The words of the bitmap hold a bit for every tracked page. *)
LEMMA BitmapCovers ==
    ASSUME page_count \in Nat
    PROVE  /\ BitmapWords \in Nat
           /\ BitmapWords * WordBits \in Nat
           /\ page_count <= BitmapWords * WordBits
           /\ IsFiniteSet(Bits)
  <1>1. BitmapWords \in Nat /\ page_count <= BitmapWords * WordBits
    BY CeilDivFacts, ConstantsAssumption DEF BitmapWords
  <1>2. BitmapWords * WordBits \in Nat
    BY <1>1, ConstantsAssumption
  <1> QED BY <1>1, <1>2, FS_Interval DEF Bits

(* A bit belongs to the word its number divided by the word size names,
   and to no other. *)
LEMMA WordOfBit ==
    ASSUME NEW p \in Nat, page_count \in Nat
    PROVE  /\ p \div WordBits \in Nat
           /\ p \in Word(p \div WordBits)
           /\ (p \div WordBits) * WordBits <= p
           /\ p \in Bits => p \div WordBits < BitmapWords
  <1>1. /\ p \div WordBits \in Nat
        /\ p \in Word(p \div WordBits)
        /\ (p \div WordBits) * WordBits <= p
    BY ConstantsAssumption DEF Word
  <1>2. ASSUME p \in Bits PROVE p \div WordBits < BitmapWords
    <2>1. p < BitmapWords * WordBits
      BY <1>2, BitmapCovers DEF Bits
    <2> QED BY <2>1, <1>1, BitmapCovers, ConstantsAssumption
  <1> QED BY <1>1, <1>2

LEMMA WordUnique ==
    ASSUME NEW p \in Nat, NEW w \in Nat, p \in Word(w)
    PROVE  p \div WordBits = w
  BY ConstantsAssumption DEF Word

LEMMA WordInBits ==
    ASSUME page_count \in Nat, NEW w \in 0 .. BitmapWords - 1
    PROVE  Word(w) \subseteq Bits
  <1> DEFINE a == w * WordBits
             b == BitmapWords * WordBits
  <1>1. a \in Nat /\ b \in Nat /\ a + WordBits <= b
    BY BitmapCovers, ConstantsAssumption
  <1>2. Word(w) = a .. a + WordBits - 1 /\ Bits = 0 .. b - 1
    BY DEF Word, Bits
  <1> HIDE DEF a, b
  <1> QED BY <1>1, <1>2, ConstantsAssumption

-----------------------------------------------------------------------------
(* The bit operations keep the count exact. *)

LEMMA MarkFreeCounts ==
    ASSUME page_count \in Nat, page_count' = page_count,
           used \subseteq Bits, free_pages = Cardinality(Bits \ used),
           NEW S, S \subseteq Bits, mark_free(S)
    PROVE  /\ used' \subseteq Bits
           /\ free_pages' = Cardinality(Bits \ used')
           /\ free_pages' \in Nat
  <1>1. IsFiniteSet(Bits) /\ IsFiniteSet(Bits \ used) /\ IsFiniteSet(S \cap used)
    BY BitmapCovers, FS_Subset, FS_Difference
  <1>2. Bits \ used' = (Bits \ used) \cup (S \cap used)
    BY DEF mark_free
  <1>3. (Bits \ used) \cap (S \cap used) = {}
    OBVIOUS
  <1>4. Cardinality(Bits \ used')
           = Cardinality(Bits \ used) + Cardinality(S \cap used) - 0
    BY <1>1, <1>2, <1>3, FS_Union, FS_EmptySet
  <1>5. Cardinality(Bits \ used) \in Nat /\ Cardinality(S \cap used) \in Nat
    BY <1>1, FS_CardinalityType
  <1> QED BY <1>4, <1>5 DEF mark_free

LEMMA MarkUsedCounts ==
    ASSUME page_count \in Nat, page_count' = page_count,
           used \subseteq Bits, free_pages = Cardinality(Bits \ used),
           NEW S, S \subseteq Bits, mark_used(S)
    PROVE  /\ used' \subseteq Bits
           /\ free_pages' = Cardinality(Bits \ used')
           /\ free_pages' \in Nat
  <1>1. IsFiniteSet(Bits) /\ IsFiniteSet(Bits \ used)
    BY BitmapCovers, FS_Difference
  <1>2. /\ Bits \ used' = (Bits \ used) \ (S \ used)
        /\ (Bits \ used) \cap (S \ used) = S \ used
    BY DEF mark_used
  <1>3. Cardinality((Bits \ used) \ (S \ used))
          = Cardinality(Bits \ used) - Cardinality((Bits \ used) \cap (S \ used))
    BY <1>1, FS_Difference
  <1>4. Cardinality(Bits \ used') \in Nat
    BY <1>1, FS_Difference, FS_CardinalityType, BitmapCovers
  <1> QED BY <1>2, <1>3, <1>4 DEF mark_used

-----------------------------------------------------------------------------
(* What the two operations preserve. *)

(* The bitmap while the manager serves calls. *)
Core ==
    /\ used \subseteq Bits
    /\ free_pages \in Nat
    /\ free_pages = Cardinality(Bits \ used)
    /\ page_count .. BitmapWords * WordBits - 1 \subseteq used
    /\ next_word \in Nat
    /\ next_word < BitmapWords \/ next_word = 0
    /\ \A p \in Bits \ used : p \div WordBits >= next_word

(* The search starts at the cursor and, since nothing is free below it, ends
   before it wraps: it finds the lowest free page. *)
LEMMA SearchFindsLowest ==
    ASSUME Core, page_count \in Nat,
           NEW n \in 0 .. BitmapWords - 1, FirstNotFull(n),
           NEW page, LowestClear(Probe(n), page)
    PROVE  /\ Probe(n) = next_word + n
           /\ Probe(n) \in 0 .. BitmapWords - 1
           /\ page \in Bits \ used
           /\ \A q \in Bits \ used : page <= q
           /\ \A q \in Bits \ used : q \div WordBits >= Probe(n)
  <1>1. BitmapWords \in Nat
    BY BitmapCovers
  <1>2. Probe(n) \in 0 .. BitmapWords - 1
    BY <1>1 DEF Probe, Core
  <1>3. page \in Bits \ used
    BY <1>2, WordInBits DEF LowestClear
  <1>4. Bits \subseteq Nat
    BY DEF Bits
  <1>5. ASSUME NEW q \in Bits \ used
        PROVE  q \div WordBits >= next_word + n
    <2> DEFINE w == q \div WordBits
    <2>1. w \in Nat /\ q \in Word(w) /\ w < BitmapWords /\ w >= next_word
      BY <1>4, WordOfBit DEF Core
    <2>2. SUFFICES ASSUME w < next_word + n PROVE FALSE
      BY <2>1, <1>1 DEF Core
    <2>3. w - next_word \in 0 .. n - 1
      BY <2>1, <2>2 DEF Core
    <2>4. Probe(w - next_word) = w
      BY <2>1, <2>3, <1>1 DEF Probe, Core
    <2>5. Full(w)
      BY <2>3, <2>4 DEF FirstNotFull
    <2> QED BY <2>1, <2>5 DEF Full
  <1>6. Probe(n) = next_word + n
    <2>1. page \div WordBits = Probe(n)
      BY <1>2, <1>3, <1>4, WordUnique DEF LowestClear
    <2> QED BY <2>1, <1>1, <1>2, <1>3, <1>5 DEF Probe, Core
  <1>7. ASSUME NEW q \in Bits \ used PROVE page <= q
    <2>1. q \div WordBits \in Nat /\ q \in Word(q \div WordBits)
      BY <1>4, WordOfBit
    <2>2. CASE q \div WordBits = Probe(n)
      BY <2>1, <2>2 DEF LowestClear
    <2>3. CASE q \div WordBits > Probe(n)
      <3>1. page < Probe(n) * WordBits + WordBits
        BY <1>2, <1>3, ConstantsAssumption DEF LowestClear, Word
      <3>2. (q \div WordBits) * WordBits <= q
        BY <1>4, WordOfBit
      <3>3. Probe(n) * WordBits + WordBits <= (q \div WordBits) * WordBits
        BY <2>1, <2>3, <1>2, ConstantsAssumption
      <3> QED BY <3>1, <3>2, <3>3, <1>2, <1>3, <1>4, <2>1, ConstantsAssumption
    <2> QED BY <2>1, <2>2, <2>3, <1>2, <1>5, <1>6
  <1> QED BY <1>2, <1>3, <1>5, <1>6, <1>7

LEMMA AllocKeepsCore ==
    ASSUME Core, page_count \in Nat, page_count' = page_count,
           NEW page, pmm_alloc_page(page)
    PROVE  /\ Core'
           /\ \A p \in Bits \ used : p \notin used' => p # page
           /\ \/ /\ page \in Bits \ used
                 /\ \A q \in Bits \ used : page <= q
                 /\ used' = used \cup {page}
                 /\ held' = held \cup ({page} \ {0})
                 /\ ret' = page
              \/ /\ Bits \ used = {}
                 /\ used' = used
                 /\ held' = held
                 /\ ret' = 0
  <1>1. Bits' = Bits /\ BitmapWords' = BitmapWords
    BY DEF Bits, BitmapWords
  <1>2. CASE \E n \in 0 .. BitmapWords - 1 :
                /\ FirstNotFull(n)
                /\ LowestClear(Probe(n), page)
                /\ mark_used({page})
                /\ next_word' = Probe(n)
                /\ held' = held \cup ({page} \ {0})
                /\ ret' = page
    <2>1. PICK n \in 0 .. BitmapWords - 1 :
                /\ FirstNotFull(n)
                /\ LowestClear(Probe(n), page)
                /\ mark_used({page})
                /\ next_word' = Probe(n)
                /\ held' = held \cup ({page} \ {0})
                /\ ret' = page
      BY <1>2
    <2>2. /\ Probe(n) \in 0 .. BitmapWords - 1
          /\ page \in Bits \ used
          /\ \A q \in Bits \ used : page <= q
          /\ \A q \in Bits \ used : q \div WordBits >= Probe(n)
      BY <2>1, SearchFindsLowest
    <2>3. /\ used' \subseteq Bits
          /\ free_pages' = Cardinality(Bits \ used')
          /\ free_pages' \in Nat
      BY <2>1, <2>2, MarkUsedCounts DEF Core
    <2>4. used' = used \cup {page}
      BY <2>1 DEF mark_used
    <2>5. Core'
      BY <1>1, <2>1, <2>2, <2>3, <2>4, BitmapCovers DEF Core
    <2> QED BY <2>1, <2>2, <2>4, <2>5
  <1>3. CASE /\ \A n \in 0 .. BitmapWords - 1 : Full(Probe(n))
             /\ page = 0
             /\ ret' = 0
             /\ UNCHANGED <<bits, held>>
    <2>1. ASSUME NEW q \in Bits \ used PROVE FALSE
      <3> DEFINE w == q \div WordBits
      <3>1. q \in Nat
        BY DEF Bits
      <3>2. w \in Nat /\ q \in Word(w) /\ w < BitmapWords /\ w >= next_word
        BY <3>1, WordOfBit DEF Core
      <3>3. w - next_word \in 0 .. BitmapWords - 1 /\ Probe(w - next_word) = w
        BY <3>2, BitmapCovers DEF Probe, Core
      <3> QED BY <1>3, <3>2, <3>3 DEF Full
    <2>2. Core'
      BY <1>1, <1>3 DEF Core, bits
    <2> QED BY <1>3, <2>1, <2>2 DEF bits
  <1> QED BY <1>2, <1>3 DEF pmm_alloc_page

LEMMA FreeKeepsCore ==
    ASSUME Core, page_count \in Nat, page_count' = page_count,
           NEW page \in Nat, NEW offset,
           ~ FreeRefused(page, offset), FreeAccepted(page)
    PROVE  /\ Core'
           /\ page \in 0 .. page_count - 1
           /\ page \in used
           /\ used' = used \ {page}
  <1>1. Bits' = Bits /\ BitmapWords' = BitmapWords
    BY DEF Bits, BitmapWords
  <1>2. page \in 0 .. page_count - 1 /\ page \in used
    BY DEF FreeRefused, page_is_used
  <1>3. page \in Bits
    BY <1>2, BitmapCovers DEF Bits
  <1>4. mark_free({page})
    BY DEF FreeAccepted
  <1>5. /\ used' \subseteq Bits
        /\ free_pages' = Cardinality(Bits \ used')
        /\ free_pages' \in Nat
    BY <1>3, <1>4, MarkFreeCounts DEF Core
  <1>6. used' = used \ {page}
    BY <1>4 DEF mark_free
  <1>7. page_count .. BitmapWords * WordBits - 1 \subseteq used'
    BY <1>2, <1>6, BitmapCovers DEF Core
  <1>8. page \div WordBits \in Nat /\ page \div WordBits < BitmapWords
    BY <1>3, WordOfBit
  <1>9. /\ next_word' \in Nat
        /\ next_word' < BitmapWords
        /\ next_word' <= next_word
        /\ next_word' <= page \div WordBits
    BY <1>8, BitmapCovers DEF FreeAccepted, Core
  <1>10. \A p \in Bits \ used' : p \div WordBits >= next_word'
    <2> SUFFICES ASSUME NEW p \in Bits \ used'
                 PROVE  p \div WordBits >= next_word'
      OBVIOUS
    <2>1. p \in Nat /\ p \div WordBits \in Nat
      BY WordOfBit DEF Bits
    <2>2. CASE p = page
      BY <2>2, <1>9
    <2>3. CASE p # page
      BY <2>1, <2>3, <1>6, <1>9 DEF Core
    <2> QED BY <2>2, <2>3
  <1> QED BY <1>1, <1>2, <1>5, <1>6, <1>7, <1>9, <1>10 DEF Core

-----------------------------------------------------------------------------
(* The invariant, action by action. *)

LEMMA MapFacts ==
    ASSUME map \in Maps
    PROVE  /\ map \in Seq(Descriptors)
           /\ Range(map) \subseteq Descriptors
           /\ Ends \subseteq Nat
           /\ Conventional(map) \subseteq Nat
  <1>1. map \in Seq(Descriptors)
    BY MapsAssumption
  <1>2. Range(map) \subseteq Descriptors
    BY <1>1 DEF Range
  <1>3. Ends \subseteq Nat
    BY <1>2 DEF Ends, Descriptors
  <1>4. Conventional(map) \subseteq Nat
    BY <1>2 DEF Conventional, PagesOf, Descriptors
  <1> QED BY <1>1, <1>2, <1>3, <1>4

(* Conventional memory ends below the top that pass 1 computes. *)
LEMMA ConventionalBelowTop ==
    ASSUME map \in Maps, NEW top \in Ends, \A end \in Ends : end <= top
    PROVE  Conventional(map) \subseteq 0 .. top - 1
  <1> SUFFICES ASSUME NEW d \in Range(map), d.type = "conventional",
                      NEW p \in PagesOf(d)
               PROVE  p \in 0 .. top - 1
    BY DEF Conventional
  <1>1. d \in Descriptors /\ top \in Nat
    BY MapFacts
  <1>2. d.start + d.pages \in Ends
    BY DEF Ends, may_become_free
  <1> QED BY <1>1, <1>2 DEF PagesOf, Descriptors

LEMMA InitIInv == Init => IInv
  <1> SUFFICES ASSUME Init PROVE IInv
    OBVIOUS
  <1>1. map \in Seq(Descriptors)
    BY MapFacts DEF Init
  <1>2. CeilDiv(0, WordBits) \in Nat
    BY CeilDivFacts, ConstantsAssumption
  <1>3. BitmapWords \in Nat
    BY <1>2 DEF Init, BitmapWords
  <1>4. <<>> \in Seq(Nat)
    OBVIOUS
  <1>5. TypeOK
    BY <1>1, <1>4 DEF Init, TypeOK, Phases, Halts, NoResult
  <1> QED BY <1>3, <1>5 DEF Init, IInv, Stages, Sized, CountExact, TailUsed,
             CursorLow, Built, Serving

(* While the manager serves, the invariant is Core and some types. *)
LEMMA ServingCore ==
    ASSUME IInv, Serving
    PROVE  Core
  BY DEF IInv, TypeOK, CountExact, TailUsed, CursorLow, Core, Serving

LEMMA CoreServing ==
    ASSUME TypeOK, map \in Maps, Core, Sized, bitmap # 0,
           phase \notin {"size", "place", "carve", "reserve"},
           phase = "check" => ret \in Nat
    PROVE  IInv
  BY DEF IInv, CountExact, TailUsed, CursorLow, Core, Serving, Built, Stages

(* Steps that leave the bitmap and its geometry alone. *)
LEMMA BitsKept ==
    ASSUME IInv, Serving, TypeOK', map' = map,
           UNCHANGED <<page_count, bitmap, bits>>,
           phase' \notin {"size", "place", "carve", "reserve"},
           phase' = "check" => ret' \in Nat
    PROVE  IInv'
  <1>1. Core
    BY ServingCore
  <1>2. Bits' = Bits /\ BitmapWords' = BitmapWords
    BY DEF Bits, BitmapWords
  <1>3. Core'
    BY <1>1, <1>2 DEF Core, bits
  <1>4. Sized'
    BY DEF IInv, Sized, Serving, Built
  <1>5. bitmap' # 0 /\ map' \in Maps
    BY DEF IInv, Serving, Built
  <1> QED BY <1>3, <1>4, <1>5, CoreServing DEF IInv, CountExact, TailUsed, CursorLow, Core, Serving, Built, Stages

LEMMA SizeBitmapIInv ==
    ASSUME IInv, SizeBitmap, map' = map
    PROVE  IInv'
  <1>1. PICK top \in Ends : (\A end \in Ends : end <= top) /\ page_count' = top
    BY DEF SizeBitmap
  <1>2. page_count' \in Nat /\ map \in Maps
    BY <1>1, MapFacts DEF IInv
  <1>3. Conventional(map') \subseteq 0 .. page_count' - 1
    BY <1>1, <1>2, ConventionalBelowTop
  <1>4. TypeOK'
    BY <1>2 DEF IInv, TypeOK, SizeBitmap, Stages, bits, test, ghost, Phases
  <1> QED BY <1>2, <1>3, <1>4
          DEF IInv, SizeBitmap, Stages, Sized, CountExact, TailUsed, CursorLow,
              Built, Serving, bits, test, ghost

LEMMA PagesCoveringNat ==
    ASSUME NEW base \in Nat, NEW size \in Nat
    PROVE  PagesCovering(base, size) \subseteq Nat
  <1>1. base \div PageSize \in Nat
    BY ConstantsAssumption
  <1>2. base + size \in Nat /\ PageSize \in Nat \ {0}
    BY ConstantsAssumption
  <1>3. CeilDiv(base + size, PageSize) \in Nat
    BY <1>2, CeilDivFacts
  <1> QED BY <1>1, <1>3 DEF PagesCovering

LEMMA PlaceBitmapIInv ==
    ASSUME IInv, PlaceBitmap, map' = map
    PROVE  IInv'
  <1>1. PICK i \in DOMAIN map :
            /\ HoldsBitmap(map[i])
            /\ bitmap' = map[i].start
            /\ writes' = writes \cup BitmapPagesAt(map[i].start)
    BY DEF PlaceBitmap
  <1>2. map[i] \in Descriptors
    BY MapFacts DEF IInv
  <1>3. map[i].start \in Nat \ {0}
    BY <1>1, <1>2, ConstantsAssumption DEF HoldsBitmap, Descriptors
  <1>4. BitmapWords \in Nat /\ page_count \in Nat
    BY BitmapCovers DEF IInv, TypeOK
  <1>5. BitmapPagesAt(map[i].start) \subseteq Nat
    <2>1. map[i].start * PageSize \in Nat /\ BitmapBytes \in Nat
      BY <1>3, <1>4, ConstantsAssumption DEF BitmapBytes
    <2> QED BY <2>1, PagesCoveringNat DEF BitmapPagesAt
  <1>6. Bits' = Bits /\ BitmapWords' = BitmapWords
    BY DEF PlaceBitmap, Bits, BitmapWords
  <1>7. /\ phase = "place" /\ phase' = "carve" /\ why' = why /\ page_count' = page_count
        /\ used' = Bits /\ free_pages' = 0 /\ next_word' = next_word
        /\ tested' = tested /\ before' = before /\ held' = held /\ ret' = ret
    BY DEF PlaceBitmap, test
  <1>8. TypeOK'
    BY <1>1, <1>3, <1>5, <1>6, <1>7 DEF IInv, TypeOK, Phases
  <1>9. Cardinality(Bits' \ used') = 0
    BY <1>6, <1>7, FS_EmptySet
  <1>10. page_count .. BitmapWords * WordBits - 1 \subseteq Bits
    BY <1>4, BitmapCovers DEF Bits
  <1>11. next_word = 0
    BY <1>7 DEF IInv, Stages, Serving, Built
  <1> QED BY <1>1, <1>3, <1>6, <1>7, <1>8, <1>9, <1>10, <1>11
          DEF IInv, Stages, Sized, CountExact, TailUsed, CursorLow, Built, Serving

LEMMA NoRoomIInv ==
    ASSUME IInv, NoRoomForBitmap, map' = map
    PROVE  IInv'
  <1>1. TypeOK'
    BY DEF IInv, TypeOK, NoRoomForBitmap, pmm_fatal, bits, test, ghost, Phases,
           Halts, Bits, BitmapWords
  <1>2. /\ phase = "place" /\ phase' = "halted"
        /\ UNCHANGED <<bitmap, used, free_pages, next_word, page_count>>
    BY DEF NoRoomForBitmap, pmm_fatal, bits
  <1> QED BY <1>1, <1>2
          DEF IInv, Stages, Sized, CountExact, TailUsed, CursorLow, Built,
              Serving, BitmapWords

LEMMA CarveFreeIInv ==
    ASSUME IInv, CarveFree, map' = map
    PROVE  IInv'
  <1>1. /\ phase = "carve" /\ phase' = "reserve"
        /\ mark_free(Conventional(map))
        /\ UNCHANGED <<why, page_count, bitmap, next_word, tested, before, held,
                       ret, writes>>
    BY DEF CarveFree, test, ghost
  <1>2. used = Bits /\ free_pages = Cardinality(Bits \ used) /\ next_word = 0
    BY <1>1 DEF IInv, Stages, CountExact, Built, Serving
  <1>3. page_count \in Nat /\ Bits' = Bits /\ BitmapWords' = BitmapWords
    BY <1>1 DEF IInv, TypeOK, Bits, BitmapWords
  <1>4. Conventional(map) \subseteq 0 .. page_count - 1
    BY <1>1 DEF IInv, Sized
  <1>5. Conventional(map) \subseteq Bits
    BY <1>3, <1>4, BitmapCovers DEF Bits
  <1>6. /\ used' = Bits \ Conventional(map)
        /\ free_pages' \in Nat /\ free_pages' = Cardinality(Bits \ used')
    BY <1>1, <1>2, <1>3, <1>5, MarkFreeCounts DEF mark_free
  <1>7. TypeOK'
    BY <1>1, <1>3, <1>6 DEF IInv, TypeOK, Phases
  <1>8. page_count .. BitmapWords * WordBits - 1 \subseteq used'
    BY <1>3, <1>4, <1>6, BitmapCovers DEF Bits
  <1> QED BY <1>1, <1>2, <1>3, <1>4, <1>6, <1>7, <1>8
          DEF IInv, Stages, Sized, CountExact, TailUsed, CursorLow, Built, Serving

LEMMA ReserveRangesIInv ==
    ASSUME IInv, ReserveRanges, map' = map
    PROVE  IInv'
  <1> DEFINE S == (LowPages \cup KernelPages \cup BitmapPages) \cap (0 .. page_count - 1)
  <1>1. /\ phase = "reserve" /\ phase' = "built"
        /\ mark_used(S) /\ next_word' = 0
        /\ UNCHANGED <<why, page_count, bitmap, tested, before, held, ret, writes>>
    BY DEF ReserveRanges, reserve_range, test, ghost
  <1>2. /\ used \subseteq Bits
        /\ free_pages = Cardinality(Bits \ used)
        /\ bitmap # 0
        /\ page_count .. BitmapWords * WordBits - 1 \subseteq used
    BY <1>1 DEF IInv, TypeOK, Stages, CountExact, TailUsed, Built
  <1>3. page_count \in Nat /\ Bits' = Bits /\ BitmapWords' = BitmapWords
    BY <1>1 DEF IInv, TypeOK, Bits, BitmapWords
  <1>4. S \subseteq Bits
    BY <1>3, BitmapCovers DEF Bits
  <1>5. /\ used' \subseteq Bits /\ used' = used \cup S
        /\ free_pages' \in Nat /\ free_pages' = Cardinality(Bits \ used')
    <2> HIDE DEF S
    <2> QED BY <1>1, <1>2, <1>3, <1>4, MarkUsedCounts DEF mark_used
  <1>6. TypeOK'
    BY <1>1, <1>3, <1>5 DEF IInv, TypeOK, Phases
  <1>7. Core'
    <2>1. ASSUME NEW p \in Bits \ used' PROVE p \div WordBits >= 0
      BY <1>3, WordOfBit DEF Bits
    <2> QED BY <1>1, <1>2, <1>3, <1>5, <2>1 DEF Core
  <1>8. Sized' /\ map' \in Maps /\ bitmap' # 0
    BY <1>1, <1>2 DEF IInv, Sized
  <1> QED BY <1>1, <1>2, <1>5, <1>6, <1>7, <1>8
          DEF IInv, Core, CountExact, TailUsed, CursorLow, Serving, Built, Stages

(* A call of pmm_alloc_page, followed by what its caller does with the phase. *)
LEMMA AllocIInv ==
    ASSUME IInv, Serving, map' = map, NEW page, pmm_alloc_page(page),
           UNCHANGED <<why, page_count, bitmap, test, writes>>,
           phase' \in {"check", "ready"}
    PROVE  IInv'
  <1>1. Core /\ page_count \in Nat /\ page_count' = page_count /\ bitmap # 0
    BY ServingCore DEF IInv, TypeOK, Serving, Built
  <1>2. Core'
    BY <1>1, AllocKeepsCore
  <1>3. ret' \in Nat /\ held' \subseteq Nat
    <2>1. Bits \subseteq Nat /\ held \subseteq Nat
      BY DEF Bits, IInv, TypeOK
    <2>2. \/ page \in Bits /\ ret' = page /\ held' = held \cup ({page} \ {0})
          \/ ret' = 0 /\ held' = held
      BY <1>1, AllocKeepsCore
    <2>3. CASE page \in Bits /\ ret' = page /\ held' = held \cup ({page} \ {0})
      <3>1. page \in Nat
        BY <2>1, <2>3
      <3> QED BY <2>1, <2>3, <3>1
    <2>4. CASE ret' = 0 /\ held' = held
      BY <2>1, <2>4
    <2> QED BY <2>2, <2>3, <2>4
  <1>4. TypeOK'
    BY <1>1, <1>2, <1>3 DEF IInv, TypeOK, Core, Phases, test
  <1>5. Sized' /\ map' \in Maps
    BY DEF IInv, Sized, Serving, Built
  <1> QED BY <1>1, <1>2, <1>3, <1>4, <1>5
          DEF IInv, Core, CountExact, TailUsed, CursorLow, Serving, Built, Stages

(* An accepted pmm_free_page in the serving phases. *)
LEMMA FreeAcceptedIInv ==
    ASSUME IInv, Serving, map' = map, phase \in {"release", "ready"},
           NEW page \in Nat, NEW offset,
           ~ FreeRefused(page, offset), FreeAccepted(page),
           UNCHANGED <<phase, why, page_count, bitmap, before, writes>>,
           tested' \in Seq(Nat)
    PROVE  IInv'
  <1>1. Core /\ page_count \in Nat /\ page_count' = page_count /\ bitmap # 0
    BY ServingCore DEF IInv, TypeOK, Serving, Built
  <1>2. Core'
    BY <1>1, FreeKeepsCore
  <1>3. TypeOK'
    BY <1>1, <1>2 DEF IInv, TypeOK, Core, Phases, FreeAccepted
  <1>4. Sized' /\ map' \in Maps
    BY DEF IInv, Sized, Serving, Built
  <1> QED BY <1>1, <1>2, <1>3, <1>4
          DEF IInv, Core, CountExact, TailUsed, CursorLow, Serving, Built, Stages

LEMMA FreeIInv ==
    ASSUME IInv, map' = map, NEW page \in Nat, NEW offset, Free(page, offset)
    PROVE  IInv'
  <1>1. phase = "ready" /\ Serving
    BY DEF Free, IInv, Stages, Serving, Built
  <1>2. CASE FreeRefused(page, offset)
    <2>1. TypeOK'
      BY <1>2 DEF Free, IInv, TypeOK, pmm_fatal, Phases, Halts, bits, test,
                  Bits, BitmapWords
    <2> QED BY <1>1, <1>2, <2>1, BitsKept DEF Free, pmm_fatal
  <1>3. CASE ~ FreeRefused(page, offset)
    BY <1>1, <1>3, FreeAcceptedIInv DEF Free, IInv, TypeOK, test
  <1> QED BY <1>2, <1>3

LEMMA SelfTestReleaseIInv ==
    ASSUME IInv, SelfTestRelease, map' = map
    PROVE  IInv'
  <1>1. phase = "release" /\ Serving
    BY DEF SelfTestRelease, IInv, Stages, Serving, Built
  <1>2. Head(tested) \in Nat /\ Tail(tested) \in Seq(Nat) /\ tested' = Tail(tested)
    BY HeadTailProperties DEF SelfTestRelease, IInv, TypeOK
  <1>3. CASE FreeRefused(Head(tested), 0)
    <2>1. TypeOK'
      BY <1>2, <1>3 DEF SelfTestRelease, IInv, TypeOK, pmm_fatal, Phases, Halts,
                        bits, test, Bits, BitmapWords
    <2> QED BY <1>1, <1>3, <2>1, BitsKept DEF SelfTestRelease, pmm_fatal
  <1>4. CASE ~ FreeRefused(Head(tested), 0)
    BY <1>1, <1>2, <1>4, FreeAcceptedIInv DEF SelfTestRelease
  <1> QED BY <1>3, <1>4

LEMMA BootIInv ==
    ASSUME IInv, Boot, map' = map
    PROVE  IInv'
  <1>1. CASE SelfTestBegin
    <2>1. Serving
      BY <1>1 DEF SelfTestBegin, IInv, Stages, Serving, Built
    <2>2. TypeOK'
      BY <1>1 DEF SelfTestBegin, IInv, TypeOK, Phases, bits, ghost, Bits, BitmapWords
    <2> QED BY <1>1, <2>1, <2>2, BitsKept DEF SelfTestBegin
  <1>2. CASE SelfTestAlloc
    <2>1. Serving
      BY <1>2 DEF SelfTestAlloc, IInv, Stages, Serving, Built
    <2> QED BY <1>2, <2>1, AllocIInv DEF SelfTestAlloc
  <1>3. CASE SelfTestCheck
    <2>1. Serving /\ ret \in Nat
      BY <1>3 DEF SelfTestCheck, IInv, Stages, Serving, Built
    <2>2. TypeOK'
      <3>1. Append(tested, ret) \in Seq(Nat)
        BY <2>1 DEF IInv, TypeOK
      <3> QED BY <1>3, <2>1, <3>1 DEF SelfTestCheck, IInv, TypeOK, Phases, Halts,
                 pmm_fatal, bits, Bits, BitmapWords
    <2> QED BY <1>3, <2>1, <2>2, BitsKept DEF SelfTestCheck, pmm_fatal
  <1>4. CASE SelfTestVerify
    <2>1. Serving
      BY <1>4 DEF SelfTestVerify, IInv, Stages, Serving, Built
    <2>2. TypeOK'
      BY <1>4 DEF SelfTestVerify, IInv, TypeOK, Phases, Halts, pmm_fatal, bits,
                  test, ghost, Bits, BitmapWords
    <2> QED BY <1>4, <2>1, <2>2, BitsKept DEF SelfTestVerify, pmm_fatal
  <1>5. CASE SelfTestEnd
    <2>1. Serving
      BY <1>5 DEF SelfTestEnd, IInv, Stages, Serving, Built
    <2>2. TypeOK'
      BY <1>5 DEF SelfTestEnd, IInv, TypeOK, Phases, Halts, pmm_fatal, bits,
                  test, ghost, Bits, BitmapWords
    <2> QED BY <1>5, <2>1, <2>2, BitsKept DEF SelfTestEnd, pmm_fatal
  <1>6. CASE Halted
    BY <1>6 DEF Halted, vars, bits, test, ghost, IInv, TypeOK, Stages, Sized,
                CountExact, TailUsed, CursorLow, Built, Serving, Bits, BitmapWords
  <1> QED BY <1>1, <1>2, <1>3, <1>4, <1>5, <1>6, SizeBitmapIInv, PlaceBitmapIInv,
             NoRoomIInv, CarveFreeIInv, ReserveRangesIInv, SelfTestReleaseIInv
          DEF Boot

LEMMA AllocStepIInv ==
    ASSUME IInv, Alloc, map' = map
    PROVE  IInv'
  <1>1. Serving
    BY DEF Alloc, IInv, Stages, Serving, Built
  <1> QED BY <1>1, AllocIInv DEF Alloc

LEMMA StutterIInv == IInv /\ UNCHANGED vars => IInv'
  BY DEF vars, bits, test, ghost, IInv, TypeOK, Stages, Sized, CountExact,
         TailUsed, CursorLow, Built, Serving, Bits, BitmapWords

(* Whatever page and offset callers pass to pmm_free_page, the count of free
   pages stays exact, the tail bits stay set and nothing free lies below the
   cursor. *)
THEOREM AnyCallerInvariant == SpecAny => []BitmapSound
  <1>1. Init => IInv
    BY InitIInv
  <1>2. IInv /\ [NextAny]_vars => IInv'
    <2> SUFFICES ASSUME IInv, NextAny PROVE IInv'
      BY StutterIInv
    <2>1. CASE FreeAnything /\ map' = map
      <3>1. PICK page \in 0 .. page_count, offset \in 0 .. PageSize - 1 :
                Free(page, offset)
        BY <2>1 DEF FreeAnything
      <3> QED BY <2>1, <3>1, FreeIInv DEF IInv, TypeOK
    <2> QED BY <2>1, BootIInv, AllocStepIInv DEF NextAny
  <1>3. IInv => BitmapSound
    BY DEF IInv, BitmapSound
  <1> QED BY <1>1, <1>2, <1>3, PTL DEF SpecAny

(* The invariant holds in particular for the callers of the contract. *)
THEOREM ContractInvariant == Spec => []IInv
  <1>1. Init => IInv
    BY InitIInv
  <1>2. IInv /\ [Next]_vars => IInv'
    <2> SUFFICES ASSUME IInv, Next PROVE IInv'
      BY StutterIInv
    <2>1. CASE FreeHeld /\ map' = map
      BY <2>1, FreeIInv DEF FreeHeld, IInv, TypeOK
    <2> QED BY <2>1, BootIInv, AllocStepIInv DEF Next
  <1> QED BY <1>1, <1>2, PTL DEF Spec

THEOREM TypeCorrect == Spec => []TypeOK
  <1>1. IInv => TypeOK
    BY DEF IInv
  <1> QED BY <1>1, ContractInvariant, PTL

=============================================================================
