-------------------------- MODULE ElfLoaderProofs --------------------------
(***************************************************************************)
(* Proofs about elf_load_kernel, for every file, every machine and every   *)
(* way the firmware may cut its reads or fail: whatever it stores lands in *)
(* pages it was given, success means the whole image is in place and came  *)
(* from inside the file, and the contract efi_main relies on is kept.      *)
(*                                                                         *)
(* FInv is the inductive invariant. What it has to carry is that the pages *)
(* of the segments are apart, so that no segment undoes an earlier one,    *)
(* and how far the copy of the current one has come.                       *)
(***************************************************************************)
EXTENDS ElfLoader, FiniteSetTheorems, SequenceTheorems, TLAPS

-----------------------------------------------------------------------------
(* The inductive invariant. *)

SegmentPages(ph) == Pages(ph.paddr, PagesFor(ph))

(* What was checked, or read to its end, before a statement is reached. *)
TableKnown ==
    /\ file.eh.phnum # 0
    /\ file.eh.phoff + file.eh.phnum * PhdrSize <= file.length

Reading(what) == pc = "reading" /\ io.what = what

InLoop == pc \in {"loop", "zero"} \/ Reading("segment")

InSegment == pc = "zero" \/ Reading("segment")

Stages ==
    /\ status = "none" <=> pc # "returned"
    /\ pc = "reading" => io.what # "none"
    /\ pool <=> InLoop \/ Reading("table")
    /\ pc = "pool" \/ Reading("table") => file.eh.phnum # 0
    /\ pc \in {"header", "pool"} \/ Reading("header") \/ Reading("table") =>
          i = 1 /\ loaded = 0 /\ taken = {}
    /\ InLoop => TableKnown
    /\ status = "success" => TableKnown /\ i = file.eh.phnum + 1 /\ loaded # 0

(* What read_at was asked for, and that what it has came from the file. *)
ReadsFile ==
    pc = "reading" =>
        /\ io.done > 0 => io.offset + io.done <= file.length
        /\ io.what = "table" =>
              io.offset = file.eh.phoff /\ io.size = file.eh.phnum * PhdrSize
        /\ io.what = "segment" =>
              /\ io.offset = Ph.offset /\ io.size = Ph.filesz
              /\ io.dest = Ph.paddr /\ Ph.filesz > 0

(* The pages of a segment are the loader's. *)
Owned(ph) == ph.paddr % EFI_PAGE_SIZE = 0 /\ SegmentPages(ph) \subseteq taken

FromFile(ph) == ph.filesz > 0 => ph.offset + ph.filesz <= file.length

ImageIn(ph) == \A a \in ph.paddr .. ph.paddr + ph.memsz - 1 : mem[a] = ImageOf(ph, a)

(* The segments before the one the loop is at are in place. *)
DoneBefore == {n \in PtLoads : n < i}

Placed ==
    /\ loaded = Cardinality(DoneBefore)
    /\ \A n \in DoneBefore :
          /\ Owned(file.phdrs[n])
          /\ FromFile(file.phdrs[n])
          /\ WellFormed => ImageIn(file.phdrs[n])

(* The current one has pages of its own, and so many of its bytes. *)
Copied == IF pc = "zero" THEN Ph.filesz ELSE io.done

Copying ==
    InSegment =>
        /\ i \in PtLoads
        /\ Owned(Ph)
        /\ \A n \in DoneBefore : SegmentPages(file.phdrs[n]) \cap SegmentPages(Ph) = {}
        /\ pc = "zero" => FromFile(Ph)
        /\ WellFormed => \A k \in 0 .. Copied - 1 : mem[Ph.paddr + k] = Ph.offset + k

FInv ==
    /\ TypeOK
    /\ file \in Files
    /\ free \cap taken = {}
    /\ Stages
    /\ ReadsFile
    /\ Placed
    /\ Copying
    /\ StoresInside

-----------------------------------------------------------------------------
(* Bytes and pages. *)

LEMMA DivFacts ==
    ASSUME NEW a \in Nat, NEW b \in Nat \ {0}
    PROVE  /\ a \div b \in Nat
           /\ (a \div b) * b \in Nat
           /\ (a \div b) * b <= a /\ a < (a \div b) * b + b
           /\ a % b = 0 => (a \div b) * b = a
  <1>1. a \div b \in Nat /\ a % b \in 0 .. b - 1 /\ a = b * (a \div b) + (a % b)
    OBVIOUS
  <1> DEFINE q == a \div b
             r == a % b
  <1> HIDE DEF q, r
  <1>2. q \in Nat /\ r \in 0 .. b - 1 /\ a = b * q + r
    BY <1>1 DEF q, r
  <1>3. q * b \in Nat /\ b * q = q * b
    BY <1>2
  <1>4. q * b <= a /\ a < q * b + b /\ (r = 0 => q * b = a)
    BY <1>2, <1>3
  <1> QED BY <1>2, <1>3, <1>4 DEF q, r

(* A page below another ends before it begins. *)
LEMMA PagesOrdered ==
    ASSUME NEW p \in Int, NEW q \in Int, NEW b \in Nat \ {0}
    PROVE  /\ p * b \in Int /\ q * b \in Int
           /\ p < q => p * b + b <= q * b
           /\ p <= q => p * b <= q * b
  <1>1. p * b \in Int /\ q * b \in Int
    OBVIOUS
  <1>2. (q - p) * b = q * b - p * b
    OBVIOUS
  <1>3. q - p >= 1 => (q - p) * b >= b
    OBVIOUS
  <1>4. q - p >= 0 => (q - p) * b >= 0
    OBVIOUS
  <1> QED BY <1>1, <1>2, <1>3, <1>4

(* A byte whose page is among the count pages from address on. *)
LEMMA PageInPages ==
    ASSUME NEW address \in Nat, address % EFI_PAGE_SIZE = 0, NEW size \in Nat,
           NEW a \in address .. address + size - 1
    PROVE  PageOf(a) \in Pages(address, (size + EFI_PAGE_SIZE - 1) \div EFI_PAGE_SIZE)
  <1> DEFINE b == EFI_PAGE_SIZE
             q == address \div b
             c == (size + b - 1) \div b
             p == a \div b
  <1>1. b \in Nat \ {0} /\ size + b - 1 \in Nat /\ a \in Nat
    BY SizesAssumption
  <1>2. q \in Nat /\ q * b = address
    BY <1>1, DivFacts
  <1>3. c \in Nat /\ c * b \in Nat /\ size + b - 1 < c * b + b
    BY <1>1, DivFacts
  <1>4. p \in Nat /\ p * b \in Nat /\ p * b <= a /\ a < p * b + b
    BY <1>1, DivFacts
  <1> HIDE DEF b, q, c, p
  <1>5. q <= p
    <2>1. p < q => p * b + b <= q * b
      BY <1>1, <1>2, <1>4, PagesOrdered
    <2> QED BY <1>1, <1>2, <1>4, <2>1
  <1>6. p < q + c
    <2>1. (q + c) * b = q * b + c * b
      BY <1>1, <1>2, <1>3
    <2>2. q + c <= p => (q + c) * b <= p * b
      BY <1>1, <1>2, <1>3, <1>4, PagesOrdered
    <2> QED BY <1>1, <1>2, <1>3, <1>4, <2>1, <2>2
  <1> QED BY <1>2, <1>3, <1>4, <1>5, <1>6 DEF PageOf, Pages, b, q, c, p

LEMMA PagesAreAddresses ==
    ASSUME NEW a \in Nat, PageOf(a) \in 0 .. MemoryPages - 1
    PROVE  a \in Addresses
  <1> DEFINE b == EFI_PAGE_SIZE
             p == a \div b
  <1>1. b \in Nat \ {0} /\ MemoryPages \in Nat \ {0}
    BY SizesAssumption
  <1>2. p \in Nat /\ p * b \in Nat /\ a < p * b + b /\ p < MemoryPages
    BY <1>1, DivFacts DEF PageOf
  <1> HIDE DEF b, p
  <1>3. p * b + b <= MemoryPages * b
    BY <1>1, <1>2, PagesOrdered
  <1> QED BY <1>1, <1>2, <1>3 DEF Addresses, b

-----------------------------------------------------------------------------
(* The file. *)

LEMMA FileFacts ==
    ASSUME file \in Files
    PROVE  /\ file.length \in Nat /\ file.eh.phnum \in Nat /\ file.eh.phoff \in Nat
           /\ file.eh.entry \in Nat
           /\ \A n \in 1 .. file.eh.phnum :
                 /\ file.phdrs[n] \in Phdr
                 /\ file.phdrs[n].type \in Nat /\ file.phdrs[n].offset \in Nat
                 /\ file.phdrs[n].paddr \in Nat /\ file.phdrs[n].filesz \in Nat
                 /\ file.phdrs[n].memsz \in Nat
  <1>1. file \in [length : Nat, eh : Ehdr, phdrs : Seq(Phdr)]
        /\ file.eh.phnum <= Len(file.phdrs)
    BY FilesAssumption
  <1>2. file.length \in Nat /\ file.eh \in Ehdr /\ file.phdrs \in Seq(Phdr)
    BY <1>1
  <1>3. file.eh.phnum \in Nat /\ file.eh.phoff \in Nat /\ file.eh.entry \in Nat
    BY <1>2 DEF Ehdr
  <1>4. \A n \in 1 .. file.eh.phnum : file.phdrs[n] \in Phdr
    BY <1>1, <1>2, <1>3
  <1> QED BY <1>2, <1>3, <1>4 DEF Phdr

LEMMA PtLoadsFacts ==
    ASSUME file \in Files, i \in Nat
    PROVE  /\ PtLoads \subseteq 1 .. file.eh.phnum /\ IsFiniteSet(PtLoads)
           /\ Cardinality(PtLoads) \in Nat /\ Cardinality(PtLoads) <= file.eh.phnum
           /\ DoneBefore \subseteq PtLoads /\ IsFiniteSet(DoneBefore)
           /\ Cardinality(DoneBefore) \in Nat
           /\ Cardinality(DoneBefore) <= Cardinality(PtLoads)
           /\ i > file.eh.phnum => DoneBefore = PtLoads
           /\ \A n \in PtLoads : file.phdrs[n] \in Loads
  <1> DEFINE count == file.eh.phnum
  <1>1. count \in Nat
    BY FileFacts
  <1>2. /\ PtLoads \in SUBSET (1 .. count) /\ DoneBefore \in SUBSET PtLoads
        /\ \A n \in PtLoads : file.phdrs[n] \in Loads
    BY DEF PtLoads, DoneBefore, Loads
  <1> HIDE DEF count
  <1>3. IsFiniteSet(1 .. count) /\ Cardinality(1 .. count) = count
    BY <1>1, FS_Interval
  <1>4. IsFiniteSet(PtLoads) /\ Cardinality(PtLoads) <= count
    BY <1>2, <1>3, FS_Subset
  <1>5. IsFiniteSet(DoneBefore) /\ Cardinality(DoneBefore) <= Cardinality(PtLoads)
    BY <1>2, <1>4, FS_Subset
  <1>6. ASSUME i > count PROVE DoneBefore = PtLoads
    <2>1. \A n \in PtLoads : n < i
      BY <1>1, <1>2, <1>6
    <2> QED BY <2>1, Zenon DEF DoneBefore
  <1> QED BY <1>2, <1>4, <1>5, <1>6, FS_CardinalityType DEF count

(* The bytes of a segment that owns its pages are addresses of the machine,
   in pages the loader has. *)
LEMMA OwnedBytes ==
    ASSUME TypeOK, NEW ph \in Phdr, Owned(ph),
           NEW a \in ph.paddr .. ph.paddr + ph.memsz - 1
    PROVE  /\ a \in Addresses
           /\ PageOf(a) \in SegmentPages(ph) /\ PageOf(a) \in taken
  <1>1. ph.paddr \in Nat /\ ph.memsz \in Nat /\ ph.paddr % EFI_PAGE_SIZE = 0
    BY DEF Phdr, Owned
  <1>2. PageOf(a) \in SegmentPages(ph)
    BY <1>1, PageInPages DEF SegmentPages, PagesFor
  <1>3. a \in Nat
    BY <1>1
  <1>4. PageOf(a) \in taken
    BY <1>2 DEF Owned
  <1>5. PageOf(a) \in 0 .. MemoryPages - 1
    BY <1>4 DEF TypeOK
  <1> QED BY <1>2, <1>3, <1>4, <1>5, PagesAreAddresses

-----------------------------------------------------------------------------
(* FInv, action by action: first the statements that write no memory. *)

LEMMA FieldFacts ==
    ASSUME TypeOK
    PROVE  /\ io.what \in {"none", "header", "table", "segment"}
           /\ io.offset \in Nat /\ io.size \in Nat /\ io.dest \in Nat
           /\ io.done \in Nat /\ io.done <= io.size
  BY DEF TypeOK

LEMMA InitFInv == Init => FInv
  <1> SUFFICES ASSUME Init PROVE FInv
    OBVIOUS
  <1>1. /\ file \in Files /\ free \in FreeSets /\ pc = "header" /\ io = NoRead
        /\ pool = FALSE /\ i = 1 /\ loaded = 0 /\ taken = {} /\ status = "none"
        /\ entry = 0 /\ mem = [a \in Addresses |-> Old]
    BY DEF Init
  <1>2. file.eh.phnum \in Nat
    BY <1>1, FileFacts
  <1>3. free \subseteq 0 .. MemoryPages - 1
    BY <1>1, FreeSetsAssumption
  <1>4. mem \in [Addresses -> Contents]
    BY <1>1 DEF Contents
  <1>5. TypeOK
    <2>1. /\ io.done <= io.size
          /\ io \in [what : {"none", "header", "table", "segment"}, offset : Nat,
                     size : Nat, dest : Nat, done : Nat]
      BY <1>1 DEF NoRead
    <2>2. i \in 1 .. file.eh.phnum + 1 /\ loaded \in 0 .. file.eh.phnum
      BY <1>1, <1>2
    <2>3. /\ pc \in {"header", "reading", "pool", "loop", "zero", "returned"}
          /\ pool \in BOOLEAN /\ taken \subseteq 0 .. MemoryPages - 1
          /\ status \in {"none", "success", "error"} /\ entry \in Nat
      BY <1>1
    <2> QED BY <1>3, <1>4, <2>1, <2>2, <2>3, Zenon DEF TypeOK
  <1>6. Stages /\ ReadsFile /\ Copying
    BY <1>1 DEF Stages, ReadsFile, Copying, InSegment, InLoop, Reading
  <1>7. DoneBefore = {}
    BY <1>1, <1>2 DEF DoneBefore, PtLoads
  <1>8. Placed
    BY <1>1, <1>7, FS_EmptySet DEF Placed
  <1>9. StoresInside
    BY <1>1 DEF StoresInside
  <1> QED BY <1>1, <1>5, <1>6, <1>8, <1>9 DEF FInv

LEMMA SameFile ==
    ASSUME UNCHANGED file
    PROVE  PtLoads' = PtLoads /\ Loads' = Loads /\ WellFormed' = WellFormed
  BY DEF PtLoads, Loads, WellFormed

LEMMA SameMemory ==
    ASSUME FInv, UNCHANGED <<file, mem, i, loaded, taken>>
    PROVE  Placed' /\ StoresInside' /\ DoneBefore' = DoneBefore
  BY SameFile DEF FInv, Placed, DoneBefore, Owned, FromFile, ImageIn, StoresInside

(* A statement outside the handling of a segment. *)
LEMMA OutsideFInv ==
    ASSUME FInv, UNCHANGED <<file, free, mem, i, loaded, taken>>,
           TypeOK', Stages', ReadsFile', ~ InSegment'
    PROVE  FInv'
  BY SameMemory DEF FInv, Copying

LEMMA ReadHeaderFInv == FInv /\ ReadHeader => FInv'
  <1> SUFFICES ASSUME FInv, ReadHeader PROVE FInv'
    OBVIOUS
  <1>1. /\ pc = "header" /\ pc' = "reading"
        /\ io' = [what |-> "header", offset |-> 0, size |-> EhdrSize, dest |-> 0, done |-> 0]
        /\ UNCHANGED <<file, free, mem, pool, i, loaded, taken, status, entry>>
    BY DEF ReadHeader, Seek
  <1>2. /\ io'.what = "header" /\ io'.done = 0 /\ io'.size = EhdrSize
        /\ io' \in [what : {"none", "header", "table", "segment"}, offset : Nat,
                    size : Nat, dest : Nat, done : Nat]
    BY <1>1, SizesAssumption
  <1>3. TypeOK'
    BY <1>1, <1>2, SizesAssumption DEF FInv, TypeOK, Addresses
  <1>4. Stages'
    BY <1>1, <1>2 DEF FInv, Stages, InLoop, Reading, TableKnown
  <1>5. ReadsFile' /\ ~ InSegment'
    BY <1>1, <1>2 DEF ReadsFile, InSegment, Reading
  <1> QED BY <1>1, <1>3, <1>4, <1>5, OutsideFInv

LEMMA ReadFailsFInv == FInv /\ ReadFails => FInv'
  <1> SUFFICES ASSUME FInv, ReadFails PROVE FInv'
    OBVIOUS
  <1>1. /\ pc = "reading" /\ pc' = "returned" /\ status' = "error" /\ pool' = FALSE
        /\ UNCHANGED <<file, free, mem, io, i, loaded, taken, entry>>
    BY DEF ReadFails, Return
  <1>2. TypeOK'
    BY <1>1 DEF FInv, TypeOK, Addresses
  <1>3. Stages' /\ ReadsFile' /\ ~ InSegment'
    BY <1>1 DEF Stages, InLoop, Reading, TableKnown, ReadsFile, InSegment
  <1> QED BY <1>1, <1>2, <1>3, OutsideFInv

LEMMA CheckHeaderFInv == FInv /\ CheckHeader => FInv'
  <1> SUFFICES ASSUME FInv, CheckHeader PROVE FInv'
    OBVIOUS
  <1>1. /\ pc = "reading" /\ io.what = "header"
        /\ \/ pc' = "pool" /\ status' = status /\ file.eh.phnum # 0
           \/ pc' = "returned" /\ status' = "error"
        /\ UNCHANGED <<file, free, mem, io, pool, i, loaded, taken, entry>>
    BY DEF CheckHeader, ReadDone, header_is_valid
  <1>2. TypeOK'
    BY <1>1 DEF FInv, TypeOK, Addresses
  <1>3. Stages'
    BY <1>1 DEF FInv, Stages, InLoop, Reading, TableKnown
  <1>4. ReadsFile' /\ ~ InSegment'
    BY <1>1 DEF ReadsFile, InSegment, Reading
  <1> QED BY <1>1, <1>2, <1>3, <1>4, OutsideFInv

LEMMA AllocateTableFInv == FInv /\ AllocateTable => FInv'
  <1> SUFFICES ASSUME FInv, AllocateTable PROVE FInv'
    OBVIOUS
  <1>1. pc = "pool" /\ UNCHANGED <<file, free, mem, i, loaded, taken, entry>>
    BY DEF AllocateTable
  <1>2. CASE pc' = "returned" /\ status' = "error" /\ UNCHANGED <<io, pool>>
    <2>1. TypeOK'
      BY <1>1, <1>2 DEF FInv, TypeOK, Addresses
    <2>2. Stages'
      BY <1>1, <1>2 DEF FInv, Stages, InLoop, Reading, TableKnown
    <2>3. ReadsFile' /\ ~ InSegment'
      BY <1>2 DEF ReadsFile, InSegment, Reading
    <2> QED BY <1>1, <2>1, <2>2, <2>3, OutsideFInv
  <1>3. CASE /\ pool' = TRUE /\ pc' = "reading" /\ status' = status
             /\ io' = [what |-> "table", offset |-> file.eh.phoff,
                       size |-> file.eh.phnum * PhdrSize, dest |-> 0, done |-> 0]
    <2> DEFINE size == file.eh.phnum * PhdrSize
    <2>1. size \in Nat /\ file.eh.phoff \in Nat
      BY FileFacts, SizesAssumption DEF FInv
    <2>2. io' = [what |-> "table", offset |-> file.eh.phoff, size |-> size,
                 dest |-> 0, done |-> 0]
      BY <1>3
    <2> HIDE DEF size
    <2>3. /\ io'.what = "table" /\ io'.done = 0 /\ io'.offset = file.eh.phoff
          /\ io'.size = size
          /\ io' \in [what : {"none", "header", "table", "segment"}, offset : Nat,
                      size : Nat, dest : Nat, done : Nat]
      BY <2>1, <2>2
    <2>4. TypeOK'
      BY <1>1, <1>3, <2>1, <2>3 DEF FInv, TypeOK, Addresses
    <2>5. Stages'
      BY <1>1, <1>3, <2>3 DEF FInv, Stages, InLoop, Reading, TableKnown
    <2>6. ReadsFile' /\ ~ InSegment'
      BY <1>1, <1>3, <2>3 DEF ReadsFile, InSegment, Reading, size
    <2> QED BY <1>1, <2>4, <2>5, <2>6, OutsideFInv
  <1> QED BY <1>2, <1>3 DEF AllocateTable, Return, Seek

LEMMA TableReadFInv == FInv /\ TableRead => FInv'
  <1> SUFFICES ASSUME FInv, TableRead PROVE FInv'
    OBVIOUS
  <1>1. /\ pc = "reading" /\ pc' = "loop" /\ io.what = "table" /\ io.done = io.size
        /\ UNCHANGED <<file, free, mem, io, pool, i, loaded, taken, status, entry>>
    BY DEF TableRead, ReadDone
  <1>2. TypeOK'
    BY <1>1 DEF FInv, TypeOK, Addresses
  <1>3. TableKnown
    <2> DEFINE size == file.eh.phnum * PhdrSize
    <2>1. file.eh.phnum # 0 /\ io.offset = file.eh.phoff /\ io.size = size
      BY <1>1 DEF FInv, Stages, ReadsFile, Reading
    <2>2. size > 0
      BY <2>1, FileFacts, SizesAssumption DEF FInv
    <2> HIDE DEF size
    <2>3. file.eh.phoff + size <= file.length
      BY <1>1, <2>1, <2>2 DEF FInv, ReadsFile
    <2> QED BY <2>1, <2>3 DEF TableKnown, size
  <1>4. Stages'
    BY <1>1, <1>3 DEF FInv, Stages, InLoop, Reading, TableKnown
  <1>5. ReadsFile' /\ ~ InSegment'
    BY <1>1 DEF ReadsFile, InSegment, Reading
  <1> QED BY <1>1, <1>2, <1>4, <1>5, OutsideFInv

LEMMA AllocateFailsFInv == FInv /\ AllocateFails => FInv'
  <1> SUFFICES ASSUME FInv, AllocateFails PROVE FInv'
    OBVIOUS
  <1>1. /\ pc = "loop" /\ pc' = "returned" /\ status' = "error" /\ pool' = FALSE
        /\ UNCHANGED <<file, free, mem, io, i, loaded, taken, entry>>
    BY DEF AllocateFails, Return
  <1>2. TypeOK'
    BY <1>1 DEF FInv, TypeOK, Addresses
  <1>3. Stages' /\ ReadsFile' /\ ~ InSegment'
    BY <1>1 DEF Stages, InLoop, Reading, TableKnown, ReadsFile, InSegment
  <1> QED BY <1>1, <1>2, <1>3, OutsideFInv

LEMMA FinishFInv == FInv /\ Finish => FInv'
  <1> SUFFICES ASSUME FInv, Finish PROVE FInv'
    OBVIOUS
  <1>1. /\ pc = "loop" /\ i > file.eh.phnum /\ pc' = "returned" /\ pool' = FALSE
        /\ \/ status' = "error" /\ entry' = entry
           \/ status' = "success" /\ loaded # 0 /\ entry' = file.eh.entry
        /\ UNCHANGED <<file, free, mem, io, i, loaded, taken>>
    BY DEF Finish, Return
  <1>2. i \in 1 .. file.eh.phnum + 1 /\ file.eh.phnum \in Nat /\ file.eh.entry \in Nat
    BY FileFacts DEF FInv, TypeOK
  <1>3. i = file.eh.phnum + 1
    BY <1>1, <1>2
  <1>4. TypeOK'
    BY <1>1, <1>2 DEF FInv, TypeOK, Addresses
  <1>5. Stages'
    BY <1>1, <1>3 DEF FInv, Stages, InLoop, Reading, TableKnown
  <1>6. ReadsFile' /\ ~ InSegment'
    BY <1>1 DEF ReadsFile, InSegment, Reading
  <1> QED BY <1>1, <1>4, <1>5, <1>6, OutsideFInv

LEMMA SkipOtherFInv == FInv /\ SkipOther => FInv'
  <1> SUFFICES ASSUME FInv, SkipOther PROVE FInv'
    OBVIOUS
  <1>1. /\ pc = "loop" /\ i <= file.eh.phnum /\ Ph.type # PT_LOAD /\ i' = i + 1
        /\ UNCHANGED <<file, free, mem, pc, io, pool, loaded, taken, status, entry>>
    BY DEF SkipOther
  <1>2. i \in 1 .. file.eh.phnum + 1 /\ file.eh.phnum \in Nat
    BY FileFacts DEF FInv, TypeOK
  <1>3. DoneBefore' = DoneBefore
    <2>1. i \notin PtLoads /\ PtLoads' = PtLoads
      BY <1>1, SameFile DEF PtLoads, Ph
    <2>2. \A n \in PtLoads : n < i + 1 <=> n < i
      BY <1>2, <2>1 DEF PtLoads
    <2> QED BY <1>1, <2>1, <2>2 DEF DoneBefore
  <1>4. TypeOK'
    BY <1>1, <1>2 DEF FInv, TypeOK, Addresses
  <1>5. Stages'
    BY <1>1 DEF FInv, Stages, InLoop, Reading, TableKnown
  <1>6. ReadsFile' /\ Copying'
    BY <1>1 DEF ReadsFile, Copying, InSegment, Reading
  <1>7. Placed' /\ StoresInside'
    BY <1>1, <1>3, SameFile
    DEF FInv, Placed, Owned, FromFile, ImageIn, StoresInside
  <1> QED BY <1>1, <1>4, <1>5, <1>6, <1>7 DEF FInv

-----------------------------------------------------------------------------
(* The statements that bring a segment in. *)

(* The current segment and those before it. *)
LEMMA SegmentFacts ==
    ASSUME FInv, i <= file.eh.phnum
    PROVE  /\ i \in 1 .. file.eh.phnum /\ i \in Nat /\ Ph \in Phdr
           /\ Ph.offset \in Nat /\ Ph.paddr \in Nat
           /\ Ph.filesz \in Nat /\ Ph.memsz \in Nat
           /\ (WellFormed /\ i \in PtLoads => Ph.filesz <= Ph.memsz)
           /\ \A n \in DoneBefore :
                 /\ n \in PtLoads /\ n \in 1 .. file.eh.phnum
                 /\ file.phdrs[n] \in Phdr /\ file.phdrs[n] \in Loads
  <1>1. i \in 1 .. file.eh.phnum /\ i \in Nat
    BY FileFacts DEF FInv, TypeOK
  <1>2. \A n \in PtLoads : file.phdrs[n] \in Loads /\ n \in 1 .. file.eh.phnum
    BY <1>1, PtLoadsFacts DEF FInv
  <1>3. \A n \in DoneBefore : n \in PtLoads
    BY DEF DoneBefore
  <1>4. WellFormed /\ i \in PtLoads => Ph.filesz <= Ph.memsz
    BY <1>2 DEF WellFormed, Ph
  <1> QED BY <1>1, <1>2, <1>3, <1>4, FileFacts DEF FInv, Ph

LEMMA AllocateSegmentFInv == FInv /\ AllocateSegment => FInv'
  <1> SUFFICES ASSUME FInv, AllocateSegment PROVE FInv'
    OBVIOUS
  <1> DEFINE New == SegmentPages(Ph)
  <1>1. /\ pc = "loop" /\ i <= file.eh.phnum /\ Ph.type = PT_LOAD
        /\ Ph.paddr % EFI_PAGE_SIZE = 0 /\ New \subseteq free
        /\ free' = free \ New /\ taken' = taken \cup New
        /\ UNCHANGED <<file, mem, pool, i, loaded, status, entry>>
    BY DEF AllocateSegment, MayAllocate, SegmentPages
  <1>2. /\ i \in PtLoads /\ PtLoads' = PtLoads /\ WellFormed' = WellFormed
        /\ DoneBefore' = DoneBefore /\ Ph' = Ph
    BY <1>1, SegmentFacts, SameFile DEF PtLoads, DoneBefore, Ph
  <1>3. Ph.filesz \in Nat /\ Ph.offset \in Nat /\ Ph.paddr \in Nat
    BY <1>1, SegmentFacts
  <1>4. \/ /\ Ph.filesz > 0 /\ pc' = "reading"
           /\ io' = [what |-> "segment", offset |-> Ph.offset, size |-> Ph.filesz,
                     dest |-> Ph.paddr, done |-> 0]
        \/ Ph.filesz = 0 /\ pc' = "zero" /\ io' = io
    BY <1>3 DEF AllocateSegment, Seek
  <1>5. /\ Ph.filesz > 0 =>
              /\ pc' = "reading" /\ io'.what = "segment" /\ io'.offset = Ph.offset
              /\ io'.size = Ph.filesz /\ io'.dest = Ph.paddr /\ io'.done = 0
        /\ Ph.filesz = 0 => pc' = "zero"
        /\ pc' \in {"reading", "zero"}
        /\ io' \in [what : {"none", "header", "table", "segment"}, offset : Nat,
                    size : Nat, dest : Nat, done : Nat]
        /\ io'.done <= io'.size
    BY <1>3, <1>4 DEF FInv, TypeOK
  <1> HIDE DEF New
  <1>6. free' \subseteq 0 .. MemoryPages - 1 /\ taken' \subseteq 0 .. MemoryPages - 1
        /\ free' \cap taken' = {} /\ taken \subseteq taken'
    BY <1>1 DEF FInv, TypeOK
  <1>7. TypeOK'
    BY <1>1, <1>5, <1>6 DEF FInv, TypeOK, Addresses
  <1>8. Stages'
    BY <1>1, <1>3, <1>5 DEF FInv, Stages, InLoop, Reading, TableKnown
  <1>9. ReadsFile'
    BY <1>2, <1>3, <1>5 DEF ReadsFile
  <1>10. Placed'
    BY <1>1, <1>2, <1>6 DEF FInv, Placed, Owned, FromFile, ImageIn
  <1>11. Copying'
    <2>1. Owned(Ph)'
      BY <1>1, <1>2 DEF Owned, New
    <2>2. \A n \in DoneBefore : SegmentPages(file.phdrs[n]) \cap New = {}
      BY <1>1 DEF FInv, Placed, Owned
    <2>3. Copied' = 0 /\ (pc' = "zero" => Ph.filesz = 0)
      BY <1>2, <1>3, <1>5 DEF Copied
    <2> QED BY <1>1, <1>2, <2>1, <2>2, <2>3 DEF Copying, FromFile, New
  <1>12. StoresInside'
    BY <1>1, <1>2, <1>6 DEF FInv, StoresInside
  <1> QED BY <1>1, <1>6, <1>7, <1>8, <1>9, <1>10, <1>11, <1>12 DEF FInv

LEMMA SegmentReadFInv == FInv /\ SegmentRead => FInv'
  <1> SUFFICES ASSUME FInv, SegmentRead PROVE FInv'
    OBVIOUS
  <1>1. /\ pc = "reading" /\ pc' = "zero" /\ io.what = "segment" /\ io.done = io.size
        /\ UNCHANGED <<file, free, mem, io, pool, i, loaded, taken, status, entry>>
    BY DEF SegmentRead, ReadDone
  <1>2. TypeOK'
    BY <1>1 DEF FInv, TypeOK, Addresses
  <1>3. Stages' /\ ReadsFile'
    BY <1>1 DEF FInv, Stages, InLoop, Reading, TableKnown, ReadsFile
  <1>4. Placed' /\ StoresInside' /\ DoneBefore' = DoneBefore /\ Ph' = Ph
        /\ PtLoads' = PtLoads /\ WellFormed' = WellFormed
    BY <1>1, SameMemory, SameFile DEF Ph
  <1>5. Copied = Ph.filesz /\ Copied' = Ph.filesz /\ FromFile(Ph)
    BY <1>1, <1>4 DEF FInv, ReadsFile, Copied, FromFile
  <1>6. Copying'
    BY <1>1, <1>4, <1>5 DEF FInv, Copying, InSegment, Reading, Owned, FromFile
  <1> QED BY <1>1, <1>2, <1>3, <1>4, <1>6 DEF FInv

(* A store to bytes lo to hi of the current segment leaves the segments before
   it as they are, and stays in pages the loader has. *)
LEMMA StoresApart ==
    ASSUME FInv, InSegment, WellFormed, NEW lo \in Nat, NEW hi \in Int, hi < Ph.memsz,
           \A a \in Addresses : a - Ph.paddr \notin lo .. hi => mem'[a] = mem[a]
    PROVE  /\ \A n \in DoneBefore :
                 \A a \in file.phdrs[n].paddr ..
                              file.phdrs[n].paddr + file.phdrs[n].memsz - 1 :
                    mem'[a] = ImageOf(file.phdrs[n], a)
           /\ \A a \in Addresses : mem'[a] # Old => PageOf(a) \in taken
  <1>1. i \in PtLoads /\ Owned(Ph) /\ TypeOK /\ i <= file.eh.phnum
    <2>1. i \in PtLoads /\ Owned(Ph) /\ TypeOK
      BY DEF FInv, Copying
    <2> QED BY <2>1, FileFacts DEF FInv, PtLoads
  <1>2. Ph \in Phdr /\ Ph.paddr \in Nat /\ Ph.memsz \in Nat
    BY <1>1, SegmentFacts
  <1>3. ASSUME NEW a \in Int, a - Ph.paddr \in lo .. hi
        PROVE  PageOf(a) \in SegmentPages(Ph) /\ PageOf(a) \in taken
    <2>1. a \in Ph.paddr .. Ph.paddr + Ph.memsz - 1
      BY <1>2, <1>3
    <2> QED BY <1>1, <1>2, <2>1, OwnedBytes
  <1>4. ASSUME NEW n \in DoneBefore,
               NEW a \in file.phdrs[n].paddr ..
                             file.phdrs[n].paddr + file.phdrs[n].memsz - 1
        PROVE  mem'[a] = ImageOf(file.phdrs[n], a)
    <2>1. /\ file.phdrs[n] \in Phdr /\ Owned(file.phdrs[n])
          /\ mem[a] = ImageOf(file.phdrs[n], a)
      BY <1>1, SegmentFacts DEF FInv, Placed, ImageIn
    <2>2. a \in Addresses /\ PageOf(a) \in SegmentPages(file.phdrs[n])
      BY <1>1, <2>1, OwnedBytes
    <2>3. PageOf(a) \notin SegmentPages(Ph)
      BY <2>2 DEF FInv, Copying
    <2>4. a \in Int
      BY <2>1 DEF Phdr
    <2>5. a - Ph.paddr \notin lo .. hi
      BY <1>3, <2>3, <2>4
    <2> QED BY <2>1, <2>2, <2>5
  <1>5. ASSUME NEW a \in Addresses, mem'[a] # Old
        PROVE  PageOf(a) \in taken
    <2>1. a \in Int
      BY <1>5, SizesAssumption DEF Addresses
    <2>2. CASE a - Ph.paddr \in lo .. hi
      BY <1>3, <2>1, <2>2
    <2>3. CASE a - Ph.paddr \notin lo .. hi
      BY <1>5, <2>3 DEF FInv, StoresInside
    <2> QED BY <2>2, <2>3
  <1> QED BY <1>4, <1>5

LEMMA ReadChunkFInv == FInv /\ ReadChunk => FInv'
  <1> SUFFICES ASSUME FInv, ReadChunk PROVE FInv'
    OBVIOUS
  <1>1. PICK chunk \in 1 .. io.size - io.done :
          /\ io.offset + io.done + chunk <= file.length
          /\ io' = [io EXCEPT !.done = @ + chunk]
          /\ mem' = IF io.what # "segment" THEN mem
                    ELSE [a \in Addresses |->
                            IF a - io.dest \in io.done .. io.done + chunk - 1
                            THEN io.offset + (a - io.dest) ELSE mem[a]]
    BY Zenon DEF ReadChunk
  <1>2. pc = "reading" /\ UNCHANGED <<file, free, pc, pool, i, loaded, taken, status, entry>>
    BY DEF ReadChunk
  <1>3. /\ io.offset \in Nat /\ io.size \in Nat /\ io.dest \in Nat /\ io.done \in Nat
        /\ chunk \in Nat \ {0} /\ io.done + chunk \in Nat /\ io.done + chunk <= io.size
    <2>1. io.offset \in Nat /\ io.size \in Nat /\ io.dest \in Nat /\ io.done \in Nat
      BY FieldFacts DEF FInv
    <2> QED BY <2>1
  <1>4. /\ io'.what = io.what /\ io'.offset = io.offset /\ io'.size = io.size
        /\ io'.dest = io.dest /\ io'.done = io.done + chunk
        /\ io' \in [what : {"none", "header", "table", "segment"}, offset : Nat,
                    size : Nat, dest : Nat, done : Nat]
    <2>1. io \in [what : {"none", "header", "table", "segment"}, offset : Nat,
                  size : Nat, dest : Nat, done : Nat]
      BY DEF FInv, TypeOK
    <2> QED BY <1>1, <1>3, <2>1
  <1>5. mem' \in [Addresses -> Contents] => TypeOK'
    BY <1>2, <1>3, <1>4 DEF FInv, TypeOK, Addresses
  <1>6. Stages'
    BY <1>2, <1>4 DEF FInv, Stages, InLoop, Reading, TableKnown
  <1>7. ReadsFile'
    <2>1. io.offset + (io.done + chunk) <= file.length
      BY <1>1, <1>3, FileFacts DEF FInv
    <2> QED BY <1>2, <1>4, <2>1 DEF FInv, ReadsFile, Ph
  <1>8. CASE io.what # "segment"
    <2>1. mem' = mem
      BY <1>1, <1>8
    <2>2. TypeOK' /\ ~ InSegment'
      BY <1>2, <1>4, <1>5, <1>8, <2>1 DEF FInv, TypeOK, InSegment, Reading
    <2> QED BY <1>2, <1>6, <1>7, <2>1, <2>2, OutsideFInv
  <1>9. CASE io.what = "segment"
    <2> DEFINE lo == io.done
               hi == io.done + chunk - 1
    <2>1. InSegment /\ i \in PtLoads /\ Owned(Ph)
      BY <1>2, <1>9 DEF FInv, Copying, InSegment, Reading
    <2>2. /\ io.offset = Ph.offset /\ io.size = Ph.filesz /\ io.dest = Ph.paddr
          /\ i <= file.eh.phnum
      BY <1>2, <1>9, <2>1, FileFacts DEF FInv, ReadsFile, PtLoads
    <2>3. /\ Ph \in Phdr /\ Ph.paddr \in Nat /\ Ph.offset \in Nat /\ Ph.memsz \in Nat
          /\ WellFormed => Ph.filesz <= Ph.memsz
      BY <2>1, <2>2, SegmentFacts
    <2>4. lo \in Nat /\ hi \in Int /\ (WellFormed => hi < Ph.memsz)
      BY <1>3, <2>2, <2>3
    <2>5. mem' = [a \in Addresses |-> IF a - Ph.paddr \in lo .. hi
                                      THEN Ph.offset + (a - Ph.paddr) ELSE mem[a]]
      BY <1>1, <1>9, <2>2
    <2>6. PtLoads' = PtLoads /\ WellFormed' = WellFormed /\ DoneBefore' = DoneBefore
          /\ Ph' = Ph
      BY <1>2, SameFile DEF DoneBefore, Ph
    <2> HIDE DEF lo, hi
    <2>7. \A a \in Addresses : a - Ph.paddr \notin lo .. hi => mem'[a] = mem[a]
      BY <2>5
    <2>8. mem' \in [Addresses -> Contents]
      <3>1. \A a \in Addresses : mem[a] \in Contents
        BY DEF FInv, TypeOK
      <3>2. \A a \in Addresses : a \in Int
        BY SizesAssumption DEF Addresses
      <3>3. \A a \in Addresses : a - Ph.paddr \in lo .. hi =>
                Ph.offset + (a - Ph.paddr) \in Contents
        BY <2>3, <2>4, <3>2 DEF Contents
      <3> QED BY <2>5, <3>1, <3>3
    <2>9. Placed'
      <3>1. WellFormed => \A n \in DoneBefore : ImageIn(file.phdrs[n])'
        BY <1>2, <2>1, <2>4, <2>7, StoresApart DEF ImageIn
      <3> QED BY <1>2, <2>6, <3>1 DEF FInv, Placed, Owned, FromFile
    <2>10. StoresInside'
      BY <1>2, <2>1, <2>4, <2>6, <2>7, StoresApart DEF StoresInside
    <2>11. Copied' = io.done + chunk
      BY <1>2, <1>4 DEF Copied
    <2>12. WellFormed => \A k \in 0 .. Copied' - 1 : mem'[Ph.paddr + k] = Ph.offset + k
      <3> SUFFICES ASSUME WellFormed, NEW k \in 0 .. Copied' - 1
                   PROVE  mem'[Ph.paddr + k] = Ph.offset + k
        OBVIOUS
      <3>1. k \in Nat /\ k < Ph.memsz /\ (Ph.paddr + k) - Ph.paddr = k
        BY <1>3, <2>2, <2>3, <2>11
      <3>2. Ph.paddr + k \in Ph.paddr .. Ph.paddr + Ph.memsz - 1
        BY <2>3, <3>1
      <3>3. Ph.paddr + k \in Addresses
        BY <2>1, <2>3, <3>2, OwnedBytes DEF FInv
      <3>4. CASE k \in lo .. hi
        BY <2>5, <3>1, <3>3, <3>4
      <3>5. CASE k \notin lo .. hi
        <4>1. k \in 0 .. Copied - 1
          BY <1>2, <1>3, <2>11, <3>5 DEF Copied, lo, hi
        <4>2. mem[Ph.paddr + k] = Ph.offset + k
          BY <2>1, <2>11, <4>1 DEF FInv, Copying
        <4> QED BY <2>7, <3>1, <3>3, <3>5, <4>2
      <3> QED BY <3>4, <3>5
    <2>13. Copying'
      <3>1. Owned(Ph)' /\ i' \in PtLoads' /\ pc' # "zero"
        BY <1>2, <2>1, <2>6 DEF Owned
      <3>2. (\A n \in DoneBefore : SegmentPages(file.phdrs[n]) \cap SegmentPages(Ph) = {})'
        BY <1>2, <2>1, <2>6 DEF FInv, Copying
      <3>3. (WellFormed => \A k \in 0 .. Copied - 1 : mem[Ph.paddr + k] = Ph.offset + k)'
        BY <2>6, <2>12
      <3> QED BY <3>1, <3>2, <3>3 DEF Copying
    <2> QED BY <1>2, <1>5, <1>6, <1>7, <2>8, <2>9, <2>10, <2>13 DEF FInv
  <1> QED BY <1>8, <1>9

LEMMA ZeroBssFInv == FInv /\ ZeroBss => FInv'
  <1> SUFFICES ASSUME FInv, ZeroBss PROVE FInv'
    OBVIOUS
  <1>1. /\ pc = "zero" /\ pc' = "loop" /\ loaded' = loaded + 1 /\ i' = i + 1
        /\ mem' = [a \in Addresses |->
                     IF a - Ph.paddr \in Ph.filesz .. Ph.memsz - 1 THEN Zero ELSE mem[a]]
        /\ UNCHANGED <<file, free, io, pool, taken, status, entry>>
    BY DEF ZeroBss
  <1>2. InSegment /\ i \in PtLoads /\ Owned(Ph) /\ FromFile(Ph) /\ Copied = Ph.filesz
    BY <1>1 DEF FInv, Copying, InSegment, Copied
  <1>3. i <= file.eh.phnum /\ file.eh.phnum \in Nat
    BY <1>2, FileFacts DEF FInv, PtLoads
  <1>4. /\ i \in Nat /\ i \in 1 .. file.eh.phnum /\ Ph \in Phdr
        /\ Ph.paddr \in Nat /\ Ph.offset \in Nat
        /\ Ph.filesz \in Nat /\ Ph.memsz \in Nat
    BY <1>3, SegmentFacts
  <1>5. PtLoads' = PtLoads /\ WellFormed' = WellFormed
    BY <1>1, SameFile
  <1>6. \A a \in Addresses : a - Ph.paddr \notin Ph.filesz .. Ph.memsz - 1 =>
            mem'[a] = mem[a]
    BY <1>1
  <1>7. mem' \in [Addresses -> Contents]
    <2>1. \A a \in Addresses : mem[a] \in Contents
      BY DEF FInv, TypeOK
    <2> QED BY <1>1, <2>1 DEF Contents
  <1>8. DoneBefore' = DoneBefore \cup {i} /\ i \notin DoneBefore
    <2>1. \A n \in PtLoads : n < i + 1 <=> n < i \/ n = i
      BY <1>4 DEF PtLoads
    <2>2. \A n \in DoneBefore : n # i
      BY <1>4 DEF DoneBefore
    <2> QED BY <1>1, <1>2, <1>5, <2>1, <2>2 DEF DoneBefore
  <1>9. loaded' = Cardinality(DoneBefore') /\ loaded' \in 0 .. file.eh.phnum
    <2>1. /\ IsFiniteSet(DoneBefore) /\ DoneBefore \subseteq PtLoads /\ IsFiniteSet(PtLoads)
          /\ Cardinality(DoneBefore) \in Nat /\ Cardinality(PtLoads) \in Nat
          /\ Cardinality(PtLoads) <= file.eh.phnum
      BY <1>4, PtLoadsFacts DEF FInv
    <2>2. Cardinality(DoneBefore \cup {i}) = Cardinality(DoneBefore) + 1
      BY <1>8, <2>1, FS_AddElement
    <2>3. Cardinality(DoneBefore \cup {i}) <= Cardinality(PtLoads)
      <3>1. DoneBefore \cup {i} \in SUBSET PtLoads
        BY <1>2, <2>1
      <3> QED BY <2>1, <3>1, FS_Subset
    <2>4. loaded = Cardinality(DoneBefore)
      BY DEF FInv, Placed
    <2> QED BY <1>1, <1>3, <1>8, <2>1, <2>2, <2>3, <2>4
  <1>10. TypeOK'
    <2>1. /\ free' \subseteq 0 .. MemoryPages - 1 /\ taken' \subseteq 0 .. MemoryPages - 1
          /\ io' \in [what : {"none", "header", "table", "segment"}, offset : Nat,
                      size : Nat, dest : Nat, done : Nat]
          /\ io'.done <= io'.size /\ pool' \in BOOLEAN
          /\ status' \in {"none", "success", "error"} /\ entry' \in Nat
      BY <1>1, Zenon DEF FInv, TypeOK
    <2>2. pc' \in {"header", "reading", "pool", "loop", "zero", "returned"}
      BY <1>1
    <2>3. i' \in 1 .. file'.eh.phnum + 1
      BY <1>1, <1>3, <1>4
    <2>4. loaded' \in 0 .. file'.eh.phnum
      BY <1>1, <1>9
    <2>5. mem' \in [Addresses' -> Contents']
      BY <1>7 DEF Addresses, Contents, Zero, Old
    <2> QED BY <2>1, <2>2, <2>3, <2>4, <2>5, Zenon DEF TypeOK
  <1>11. Stages'
    BY <1>1 DEF FInv, Stages, InLoop, Reading, TableKnown
  <1>12. ReadsFile' /\ Copying'
    BY <1>1 DEF ReadsFile, Copying, InSegment, Reading
  <1>13. ASSUME WellFormed, NEW a \in Ph.paddr .. Ph.paddr + Ph.memsz - 1
         PROVE  mem'[a] = ImageOf(Ph, a)
    <2>1. a \in Addresses
      BY <1>2, <1>4, OwnedBytes DEF FInv
    <2>2. a \in Int /\ a - Ph.paddr \in 0 .. Ph.memsz - 1
          /\ Ph.paddr + (a - Ph.paddr) = a
      BY <1>4
    <2>3. CASE a - Ph.paddr < Ph.filesz
      <3> DEFINE k == a - Ph.paddr
      <3>1. k \in 0 .. Copied - 1 /\ Ph.paddr + k = a
        BY <1>2, <1>4, <2>2, <2>3
      <3>2. mem[Ph.paddr + k] = Ph.offset + k
        <4> HIDE DEF k
        <4> QED BY <1>2, <1>13, <3>1 DEF FInv, Copying
      <3>3. a - Ph.paddr \notin Ph.filesz .. Ph.memsz - 1
        BY <1>4, <2>2, <2>3
      <3> QED BY <1>6, <2>1, <2>3, <3>1, <3>2, <3>3 DEF ImageOf
    <2>4. CASE ~ (a - Ph.paddr < Ph.filesz)
      <3>1. a - Ph.paddr \in Ph.filesz .. Ph.memsz - 1
        BY <1>4, <2>2, <2>4
      <3> QED BY <1>1, <2>1, <2>4, <3>1 DEF ImageOf
    <2> QED BY <2>3, <2>4
  <1>14. Placed'
    <2>1. Ph.memsz - 1 \in Int /\ Ph.memsz - 1 < Ph.memsz
      BY <1>4
    <2>2. ASSUME NEW n \in DoneBefore'
          PROVE  /\ Owned(file.phdrs[n])' /\ FromFile(file.phdrs[n])'
                 /\ (WellFormed => ImageIn(file.phdrs[n]))'
      <3>1. CASE n = i
        <4>1. file.phdrs[n] = Ph
          BY <3>1 DEF Ph
        <4> QED BY <1>1, <1>2, <1>5, <1>13, <4>1 DEF Owned, FromFile, ImageIn
      <3>2. CASE n \in DoneBefore
        <4>1. Owned(file.phdrs[n]) /\ FromFile(file.phdrs[n])
          BY <3>2 DEF FInv, Placed
        <4>2. WellFormed => ImageIn(file.phdrs[n])'
          BY <1>1, <1>2, <1>4, <1>6, <2>1, <3>2, StoresApart DEF ImageIn
        <4> QED BY <1>1, <1>5, <4>1, <4>2 DEF Owned, FromFile
      <3> QED BY <1>8, <2>2, <3>1, <3>2
    <2> QED BY <1>9, <2>2 DEF Placed
  <1>15. StoresInside'
    <2>1. Ph.memsz - 1 \in Int /\ Ph.memsz - 1 < Ph.memsz
      BY <1>4
    <2> QED BY <1>1, <1>2, <1>4, <1>5, <1>6, <2>1, StoresApart DEF StoresInside
  <1> QED BY <1>1, <1>10, <1>11, <1>12, <1>14, <1>15 DEF FInv

LEMMA StutterFInv == FInv /\ UNCHANGED vars => FInv'
  <1> SUFFICES ASSUME FInv, UNCHANGED vars PROVE FInv'
    OBVIOUS
  <1>1. UNCHANGED <<file, free, mem, pc, io, pool, i, loaded, taken, status, entry>>
    BY DEF vars
  <1>2. TypeOK' /\ Stages' /\ ReadsFile'
    BY <1>1 DEF FInv, TypeOK, Addresses, Stages, InLoop, Reading, TableKnown,
          ReadsFile, Ph
  <1>3. Placed' /\ StoresInside' /\ DoneBefore' = DoneBefore
    BY <1>1, SameMemory
  <1>4. PtLoads' = PtLoads /\ WellFormed' = WellFormed /\ Ph' = Ph
    BY <1>1, SameFile DEF Ph
  <1>5. Copying'
    BY <1>1, <1>3, <1>4 DEF FInv, Copying, InSegment, Reading, Owned, FromFile, Copied
  <1> QED BY <1>1, <1>2, <1>3, <1>5 DEF FInv

LEMMA NextFInv == FInv /\ [Next]_vars => FInv'
  BY ReadHeaderFInv, ReadChunkFInv, ReadFailsFInv, CheckHeaderFInv,
     AllocateTableFInv, TableReadFInv, SkipOtherFInv, AllocateSegmentFInv,
     AllocateFailsFInv, SegmentReadFInv, ZeroBssFInv, FinishFInv, StutterFInv, Zenon
  DEF Next, Load, Returned

(* The inductive invariant holds in every state elf_load_kernel reaches. *)
THEOREM LoadInvariant == Spec => []FInv
  BY InitFInv, NextFInv, PTL DEF Spec

-----------------------------------------------------------------------------
(* What elf_load_kernel promises. *)

(* Every variable stays in its type: no byte of memory is anything but zero,
   untouched or a byte of the file, no read runs past what was asked for. *)
THEOREM LoaderTyped == Spec => []TypeOK
  <1>1. FInv => TypeOK
    BY DEF FInv
  <1> QED BY <1>1, LoadInvariant, PTL

(* The loader stores only to pages the firmware gave it, for every file whose
   segments fit what they ask for, also when it gives up half way. *)
THEOREM StoresAreInside == Spec => []StoresInside
  <1>1. FInv => StoresInside
    BY DEF FInv
  <1> QED BY <1>1, LoadInvariant, PTL

LEMMA SuccessPlaced ==
    ASSUME FInv, status = "success"
    PROVE  /\ TableKnown /\ DoneBefore = PtLoads /\ loaded = Cardinality(PtLoads)
           /\ loaded # 0 /\ PtLoads # {}
           /\ \A n \in PtLoads :
                 /\ FromFile(file.phdrs[n])
                 /\ WellFormed => ImageIn(file.phdrs[n])
  <1>1. TableKnown /\ i = file.eh.phnum + 1 /\ loaded # 0
    BY DEF FInv, Stages
  <1>2. file.eh.phnum \in Nat
    BY FileFacts DEF FInv
  <1>3. i \in Nat /\ i > file.eh.phnum
    BY <1>1, <1>2
  <1>4. DoneBefore = PtLoads
    BY <1>3, PtLoadsFacts DEF FInv
  <1>5. loaded = Cardinality(PtLoads)
    BY <1>4 DEF FInv, Placed
  <1>6. PtLoads # {}
    BY <1>1, <1>5, FS_EmptySet
  <1> QED BY <1>1, <1>4, <1>5, <1>6 DEF FInv, Placed

(* On success every segment is in memory byte for byte, its file part and then
   zeros (elf.c:68-72), however the firmware cut the reads and whatever was
   loaded after it. *)
THEOREM ImageIsExact == Spec => []ImageExact
  <1>1. FInv => ImageExact
    <2> SUFFICES ASSUME FInv, status = "success", WellFormed, NEW ph \in Loads,
                        NEW a \in ph.paddr .. ph.paddr + ph.memsz - 1
                 PROVE  mem[a] = ImageOf(ph, a)
      BY DEF ImageExact
    <2>1. PICK n \in PtLoads : ph = file.phdrs[n]
      BY DEF Loads
    <2> QED BY <2>1, SuccessPlaced DEF ImageIn
  <1> QED BY <1>1, LoadInvariant, PTL

(* On success the table and every segment's bytes came from inside the file: a
   truncated one is refused (elf.c:109-114). *)
THEOREM TruncatedIsRefused == Spec => []TruncatedRefused
  <1>1. FInv => TruncatedRefused
    <2> SUFFICES ASSUME FInv, status = "success" PROVE TruncatedRefused
      BY DEF TruncatedRefused
    <2>1. \A ph \in Loads : FromFile(ph)
      BY SuccessPlaced DEF Loads
    <2>2. Loads # {}
      BY SuccessPlaced DEF Loads
    <2> QED BY <2>1, <2>2, SuccessPlaced DEF TruncatedRefused, TableKnown, FromFile
  <1> QED BY <1>1, LoadInvariant, PTL

-----------------------------------------------------------------------------
(* The contract of elf_load_kernel, step by step. *)

LEMMA LoadedAtMost == FInv => loaded <= Cardinality(PtLoads)
  <1> SUFFICES ASSUME FInv PROVE loaded <= Cardinality(PtLoads)
    OBVIOUS
  <1>1. i \in Nat
    BY FileFacts DEF FInv, TypeOK
  <1> QED BY <1>1, PtLoadsFacts DEF FInv, Placed

LEMMA SuccessWhole ==
    FInv => (status = "success" =>
                 loaded = Cardinality(PtLoads) /\ loaded # 0 /\ loaded \in Nat)
  BY SuccessPlaced, FileFacts DEF FInv, TypeOK

LEMMA StepIsContract ==
    ASSUME FInv, FInv', [Next]_vars
    PROVE  Contract!Next \/ UNCHANGED Contract!loading
  <1> DEFINE wanted == Cardinality(PtLoads)
  <1>1. wanted' = wanted
    <2>1. file' = file
      BY DEF Next, Load, ReadHeader, ReadChunk, ReadFails, CheckHeader, AllocateTable,
             TableRead, SkipOther, AllocateSegment, AllocateFails, SegmentRead,
             ZeroBss, Finish, Returned, vars
    <2> QED BY <2>1, SameFile
  <1> HIDE DEF wanted
  <1>2. CASE ReadHeader \/ ReadChunk \/ TableRead \/ SkipOther \/ SegmentRead \/ Returned
             \/ UNCHANGED vars
    <2>1. UNCHANGED <<pool, taken, loaded, status>>
      BY <1>2 DEF ReadHeader, ReadChunk, TableRead, SkipOther, SegmentRead, Returned, vars
    <2> QED BY <1>1, <2>1 DEF Contract!loading, wanted
  <1>3. CASE ReadFails \/ AllocateFails
    <2>1. /\ status = "none" /\ pool' = FALSE /\ status' = "error"
          /\ UNCHANGED <<taken, loaded>>
      BY <1>3 DEF ReadFails, AllocateFails, Return, FInv, Stages
    <2>2. Contract!Fail
      BY <1>1, <2>1 DEF Contract!Fail, wanted
    <2> QED BY <2>2 DEF Contract!Next
  <1>4. CASE CheckHeader
    <2>1. /\ status = "none" /\ pool = FALSE /\ UNCHANGED <<pool, taken, loaded>>
          /\ status' = status \/ status' = "error"
      BY <1>4 DEF CheckHeader, ReadDone, FInv, Stages, InLoop, Reading, TypeOK
    <2>2. CASE status' = status
      BY <1>1, <2>1, <2>2 DEF Contract!loading, wanted
    <2>3. CASE status' = "error"
      <3>1. Contract!Fail
        BY <1>1, <2>1, <2>3 DEF Contract!Fail, wanted
      <3> QED BY <3>1 DEF Contract!Next
    <2> QED BY <2>1, <2>2, <2>3
  <1>5. CASE AllocateTable
    <2>1. /\ status = "none" /\ pool = FALSE /\ UNCHANGED <<taken, loaded>>
          /\ \/ pool' = TRUE /\ status' = status
             \/ pool' = pool /\ status' = "error"
      BY <1>5 DEF AllocateTable, Return, FInv, Stages, InLoop, Reading, TypeOK
    <2>2. Contract!TakeTable \/ Contract!Fail
      BY <1>1, <2>1 DEF Contract!TakeTable, Contract!Fail, wanted
    <2> QED BY <2>2 DEF Contract!Next
  <1>6. CASE AllocateSegment
    <2>1. /\ status = "none" /\ pool = TRUE /\ UNCHANGED <<pool, loaded, status>>
          /\ taken \subseteq taken'
      BY <1>6 DEF AllocateSegment, FInv, Stages, InLoop, TypeOK
    <2>2. Contract!TakePages
      BY <1>1, <2>1 DEF Contract!TakePages, Contract!Working, wanted
    <2> QED BY <2>2 DEF Contract!Next
  <1>7. CASE ZeroBss
    <2>1. /\ status = "none" /\ pool = TRUE /\ UNCHANGED <<pool, taken, status>>
          /\ loaded' = loaded + 1
      BY <1>7 DEF ZeroBss, FInv, Stages, InLoop, TypeOK
    <2>2. loaded' <= wanted
      <3>1. (loaded <= Cardinality(PtLoads))'
        BY LoadedAtMost, PTL
      <3> QED BY <1>1, <3>1 DEF wanted
    <2>3. Contract!FinishSegment
      BY <1>1, <2>1, <2>2 DEF Contract!FinishSegment, Contract!Working, wanted
    <2> QED BY <2>3 DEF Contract!Next
  <1>8. CASE Finish
    <2>1. /\ status = "none" /\ pool = TRUE /\ pool' = FALSE
          /\ UNCHANGED <<taken, loaded>>
          /\ status' = "error" \/ status' = "success"
      BY <1>8 DEF Finish, Return, FInv, Stages, InLoop, TypeOK
    <2>2. CASE status' = "error"
      <3>1. Contract!Fail
        BY <1>1, <2>1, <2>2 DEF Contract!Fail, wanted
      <3> QED BY <3>1 DEF Contract!Next
    <2>3. CASE status' = "success"
      <3>1. (status = "success" =>
                 loaded = Cardinality(PtLoads) /\ loaded # 0 /\ loaded \in Nat)'
        BY SuccessWhole, PTL
      <3>2. loaded = wanted /\ wanted > 0
        BY <1>1, <2>1, <2>3, <3>1 DEF wanted
      <3>3. Contract!Succeed
        BY <1>1, <2>1, <2>3, <3>2 DEF Contract!Succeed, Contract!Working, wanted
      <3> QED BY <3>3 DEF Contract!Next
    <2> QED BY <2>1, <2>2, <2>3
  <1> QED BY <1>2, <1>3, <1>4, <1>5, <1>6, <1>7, <1>8 DEF Next, Load

(* The header table is given back on every path out, and success is reported
   only with every segment of the file in place (elf.c:163-276). *)
THEOREM ElfKeepsContract == Spec => KeepsContract
  <1>1. Init => Contract!Init
    <2> SUFFICES ASSUME Init PROVE Contract!Init
      OBVIOUS
    <2>1. file \in Files /\ i \in Nat
      BY DEF Init
    <2> QED BY <2>1, PtLoadsFacts DEF Init, Contract!Init
  <1>2. FInv /\ FInv' /\ [Next]_vars => [Contract!Next]_(Contract!loading)
    BY StepIsContract
  <1> QED BY <1>1, <1>2, LoadInvariant, PTL DEF Spec, KeepsContract, Contract!Spec

=============================================================================
