-------------------------- MODULE BootLoaderProofs --------------------------
(***************************************************************************)
(* Proofs about the handoff, for every machine, every kernel file, any     *)
(* number of attempts and any events of the firmware.                      *)
(*                                                                         *)
(* LInv is the inductive invariant. What it has to carry is whose pages    *)
(* are whose, because two pool allocations may share one, and how old the  *)
(* map in the buffer is.  SlackInv adds what has changed on the machine    *)
(* since the buffer for the map was sized.                                 *)
(***************************************************************************)
EXTENDS BootLoader, FiniteSetTheorems, SequenceTheorems, WellFoundedInduction, TLAPS

-----------------------------------------------------------------------------
(* The firmware and the pages of the kernel. *)

LEMMA MapLengthNat ==
    ASSUME NEW t, Machine(t)
    PROVE  MapLength(t) \in Nat
  <1>1. RunStarts(t) \in SUBSET DOMAIN t /\ IsFiniteSet(DOMAIN t)
    BY DEF RunStarts, Machine
  <1>2. IsFiniteSet(RunStarts(t))
    BY <1>1, FS_Subset
  <1> QED BY <1>2, FS_CardinalityType DEF MapLength

LEMMA SlackAndAttempts == Slack \in Nat /\ MaxAttempts \in Nat \ {0}
  BY LoaderAssumption

(* A change of type touches the pages it names, and makes the key stale. *)
LEMMA SetTypeFacts ==
    ASSUME Machine(types), NEW pages, NEW type \in PageTypes, SetType(pages, type)
    PROVE  /\ Machine(types')
           /\ DOMAIN types' = DOMAIN types
           /\ \A p \in DOMAIN types :
                 types'[p] = IF p \in pages THEN type ELSE types[p]
           /\ keyFresh' = FALSE
  BY DEF SetType, Machine

LEMMA SegmentFacts ==
    /\ Len(Segments) \in Nat
    /\ DOMAIN Segments = 1 .. Len(Segments)
    /\ \A i \in DOMAIN Segments : Segments[i].start \in Nat \ {0}
    /\ \A i \in DOMAIN Segments : Segments[i].pages \in Nat \ {0}
  <1> DEFINE Segment == [start : Nat \ {0}, pages : Nat \ {0}]
  <1>1. Segments \in Seq(Segment)
    BY LoaderAssumption
  <1>2. Len(Segments) \in Nat /\ DOMAIN Segments = 1 .. Len(Segments)
    <2> HIDE DEF Segment
    <2> QED BY <1>1, LenProperties
  <1>3. ASSUME NEW i \in DOMAIN Segments PROVE Segments[i] \in Segment
    <2> HIDE DEF Segment
    <2> QED BY <1>1, <1>2, ElementOfSeq
  <1> QED BY <1>2, <1>3

(* No segment lies at address 0. *)
LEMMA LoadedPositive ==
    ASSUME loaded \in 0 .. Len(Segments)
    PROVE  0 \notin LoadedPages
  <1>1. ASSUME NEW i \in 1 .. loaded PROVE 0 \notin SegmentPages(Segments[i])
    <2>1. Segments[i].start \in Nat \ {0}
      BY SegmentFacts
    <2> QED BY <2>1 DEF SegmentPages
  <1> QED BY <1>1 DEF LoadedPages

(* The pages taken so far depend on nothing but how many segments are. *)
LEMMA LoadedSame == loaded' = loaded => LoadedPages' = LoadedPages
  BY DEF LoadedPages

-----------------------------------------------------------------------------
(* The inductive invariant holds at the start. *)

LEMMA InitLInv == LoaderInit => LInv
  <1> SUFFICES ASSUME LoaderInit PROVE LInv
    OBVIOUS
  <1>1. /\ types \in InitialTypes /\ pool = [p \in DOMAIN types |-> 0]
        /\ noise = {p \in DOMAIN types : types[p] = "bsData"}
    BY DEF LoaderInit, FirmwareInit
  <1>0. bs = TRUE /\ keyFresh = FALSE /\ raced = FALSE
    BY DEF LoaderInit, FirmwareInit
  <1>2. /\ pc = "probe" /\ fault = "none" /\ phdrs = 0 /\ loaded = 0 /\ bi_page = 0
        /\ attempt = 1
    BY DEF LoaderInit
  <1>3. mm = [page |-> 0, capacity |-> 0, size |-> 0]
    BY DEF LoaderInit
  <1>4. mm.page = 0 /\ mm \in [page : DOMAIN types \cup {0}, capacity : Nat, size : Nat]
    BY <1>3
  <1> HIDE DEF LoaderInit
  <1>5. LoadedPages = {}
    <2>1. 1 .. 0 = {}
      OBVIOUS
    <2> QED BY <1>2, <2>1, Zenon DEF LoadedPages
  <1>6. Machine(types)
    BY <1>1, MachineAssumption
  <1>7. LoaderTypeOK
    <2>1. pool \in [DOMAIN types -> Nat]
      BY <1>1
    <2>2. attempt \in 1 .. MaxAttempts + 1
      BY <1>2, SlackAndAttempts
    <2>3. loaded \in 0 .. Len(Segments)
      BY <1>2, SegmentFacts
    <2>4. noise \subseteq DOMAIN types /\ bi_page \in DOMAIN types \cup {0} /\ phdrs \in DOMAIN types \cup {0}
      BY <1>1, <1>2
    <2>5. keyFresh \in BOOLEAN /\ bs \in BOOLEAN /\ raced \in BOOLEAN
      BY <1>0
    <2>6. pc \in Statements
      BY <1>2 DEF Statements
    <2> QED BY <1>4, <1>6, <2>1, <2>2, <2>3, <2>4, <2>5, <2>6 DEF LoaderTypeOK
  <1>8. Stages
    <2>1. attempt <= MaxAttempts
      BY <1>2, SlackAndAttempts
    <2> QED BY <1>0, <1>2, <1>4, <2>1, Zenon DEF Stages
  <1>9. MapCurrent
    BY <1>2 DEF MapCurrent
  <1>10. Owners
    <2>1. Kept = {}
      BY <1>2, <1>4, <1>5 DEF Kept
    <2>2. \A p \in DOMAIN types : pool[p] = IF p = 0 THEN 0 ELSE PoolUses(p)
      <3> SUFFICES ASSUME NEW p \in DOMAIN types
                   PROVE  pool[p] = IF p = 0 THEN 0 ELSE PoolUses(p)
        OBVIOUS
      <3>1. pool[p] = 0
        BY <1>1
      <3>2. CASE p = 0
        BY <3>1, <3>2
      <3>3. CASE p # 0
        BY <3>1, <3>3, <1>2, <1>4 DEF PoolUses
      <3> QED BY <3>2, <3>3
    <2> QED BY <1>1, <1>2, <1>5, <2>1, <2>2 DEF Owners
  <1> QED BY <1>7, <1>8, <1>9, <1>10 DEF LInv

-----------------------------------------------------------------------------
(* Owners, through the steps that allocate and free. *)

(* Statements that allocate nothing. *)
LEMMA OwnersFrame ==
    ASSUME Owners, UNCHANGED <<types, pool, noise, phdrs, bi_page, loaded>>,
           mm'.page = mm.page
    PROVE  Owners'
  BY LoadedSame DEF Owners, Kept, PoolUses

LEMMA ProbeLInv == LInv /\ ProbeMap => LInv'
  <1> SUFFICES ASSUME LInv, ProbeMap PROVE LInv'
    OBVIOUS
  <1>1. MapLength(types) + Slack \in Nat
    BY MapLengthNat, SlackAndAttempts DEF LInv, LoaderTypeOK
  <1>2. /\ pc = "probe" /\ pc' = "pool" /\ fault' = fault
        /\ mm' = [mm EXCEPT !.capacity = MapLength(types) + Slack]
        /\ UNCHANGED <<types, pool, noise, keyFresh, bs, buffer, phdrs, loaded,
                       bi_page, bi, attempt, raced>>
    BY DEF ProbeMap, Goto, firmware
  <1>3. /\ mm'.page = mm.page
        /\ mm' \in [page : DOMAIN types \cup {0}, capacity : Nat, size : Nat]
    BY <1>1, <1>2, Zenon DEF LInv, LoaderTypeOK
  <1>4. LoaderTypeOK'
    BY <1>2, <1>3, Zenon DEF LInv, LoaderTypeOK, Statements
  <1>5. Stages'
    BY <1>2, <1>3 DEF LInv, Stages
  <1>6. MapCurrent'
    BY <1>2 DEF MapCurrent
  <1>7. Owners'
    BY <1>2, <1>3, OwnersFrame DEF LInv
  <1> QED BY <1>4, <1>5, <1>6, <1>7 DEF LInv

LEMMA ReadFacts ==
    ASSUME LInv, ReadMap
    PROVE  /\ mm'.page = mm.page /\ mm'.size = MapLength(types)
           /\ mm' \in [page : DOMAIN types \cup {0}, capacity : Nat, size : Nat]
           /\ buffer' = MapNow /\ keyFresh' = TRUE /\ raced' = FALSE
           /\ UNCHANGED <<types, pool, noise, bs, phdrs, loaded, bi_page, bi, attempt>>
  <1>1. MapLength(types) \in Nat
    BY MapLengthNat DEF LInv, LoaderTypeOK
  <1>2. mm' = [mm EXCEPT !.size = MapLength(types)]
    BY DEF ReadMap
  <1>3. /\ mm'.page = mm.page /\ mm'.size = MapLength(types)
        /\ mm' \in [page : DOMAIN types \cup {0}, capacity : Nat, size : Nat]
    BY <1>1, <1>2, Zenon DEF LInv, LoaderTypeOK
  <1> QED BY <1>3, Zenon DEF ReadMap, GetMemoryMap

LEMMA FirstReadLInv == LInv /\ FirstRead => LInv'
  <1> SUFFICES ASSUME LInv, FirstRead PROVE LInv'
    OBVIOUS
  <1>1. ReadMap /\ pc = "read" /\ pc' = "open" /\ fault' = fault
    BY DEF FirstRead, Goto
  <1>2. LoaderTypeOK'
    BY <1>1, ReadFacts, Zenon DEF LInv, LoaderTypeOK, Statements
  <1>3. Stages'
    BY <1>1, ReadFacts DEF LInv, Stages
  <1>4. MapCurrent'
    BY <1>1 DEF MapCurrent
  <1>5. Owners'
    BY <1>1, ReadFacts, OwnersFrame DEF LInv
  <1> QED BY <1>2, <1>3, <1>4, <1>5 DEF LInv

LEMMA RefreshLInv == LInv /\ RefreshMap => LInv'
  <1> SUFFICES ASSUME LInv, RefreshMap PROVE LInv'
    OBVIOUS
  <1>1. ReadMap /\ pc = "refresh" /\ pc' = "publish" /\ fault' = fault
    BY DEF RefreshMap, Goto
  <1>2. LoaderTypeOK'
    BY <1>1, ReadFacts, Zenon DEF LInv, LoaderTypeOK, Statements
  <1>3. Stages'
    BY <1>1, ReadFacts DEF LInv, Stages
  <1>4. MapCurrent'
    BY <1>1, ReadFacts, Zenon DEF MapCurrent, MapNow
  <1>5. Owners'
    BY <1>1, ReadFacts, OwnersFrame DEF LInv
  <1> QED BY <1>2, <1>3, <1>4, <1>5 DEF LInv

(* efi_main stops: what it holds stays as it is. *)
LEMMA StopLInv ==
    ASSUME LInv, pc \notin {"kernel", "fatal"}, pc' = "fatal",
           phdrs = 0, mm'.page = mm.page,
           mm' \in [page : DOMAIN types \cup {0}, capacity : Nat, size : Nat],
           UNCHANGED <<types, pool, noise, bs, keyFresh, raced, phdrs, loaded,
                       bi_page, attempt>>
    PROVE  LInv'
  <1>1. LoaderTypeOK'
    BY Zenon DEF LInv, LoaderTypeOK, Statements
  <1>2. Stages'
    BY DEF LInv, Stages
  <1>3. MapCurrent'
    BY DEF MapCurrent
  <1>4. Owners'
    BY OwnersFrame DEF LInv
  <1> QED BY <1>1, <1>2, <1>3, <1>4 DEF LInv

LEMMA ProbeFailsLInv == LInv /\ ProbeFails => LInv'
  <1> SUFFICES ASSUME LInv, ProbeFails PROVE LInv'
    OBVIOUS
  <1>1. /\ pc = "probe" /\ pc' = "fatal"
        /\ UNCHANGED <<types, pool, noise, bs, keyFresh, raced, mm, phdrs, loaded,
                       bi_page, attempt>>
    BY DEF ProbeFails, fatal, firmware, ghosts
  <1>2. mm \in [page : DOMAIN types \cup {0}, capacity : Nat, size : Nat]
    BY DEF LInv, LoaderTypeOK
  <1>3. phdrs = 0 /\ pc \notin {"kernel", "fatal"}
    BY <1>1 DEF LInv, Stages
  <1> QED BY <1>1, <1>2, <1>3, StopLInv

LEMMA MapTooSmallLInv == LInv /\ MapTooSmall => LInv'
  <1> SUFFICES ASSUME LInv, MapTooSmall PROVE LInv'
    OBVIOUS
  <1>1. /\ pc \in {"read", "refresh"} /\ pc' = "fatal"
        /\ mm' = [mm EXCEPT !.size = MapLength(types)]
        /\ UNCHANGED <<types, pool, noise, bs, keyFresh, raced, phdrs, loaded,
                       bi_page, attempt>>
    BY DEF MapTooSmall, fatal, firmware, ghosts
  <1>2. MapLength(types) \in Nat
    BY MapLengthNat DEF LInv, LoaderTypeOK
  <1>3. /\ mm'.page = mm.page
        /\ mm' \in [page : DOMAIN types \cup {0}, capacity : Nat, size : Nat]
    BY <1>1, <1>2, Zenon DEF LInv, LoaderTypeOK
  <1>4. phdrs = 0 /\ pc \notin {"kernel", "fatal"}
    BY <1>1 DEF LInv, Stages
  <1> QED BY <1>1, <1>3, <1>4, StopLInv

LEMMA OpenKernelLInv == LInv /\ OpenKernel => LInv'
  <1> SUFFICES ASSUME LInv, OpenKernel PROVE LInv'
    OBVIOUS
  <1>1. /\ pc = "open"
        /\ UNCHANGED <<types, pool, noise, bs, keyFresh, raced, mm, phdrs, loaded,
                       bi_page, bi, attempt>>
    BY DEF OpenKernel, firmware, ghosts
  <1>2. mm \in [page : DOMAIN types \cup {0}, capacity : Nat, size : Nat]
    BY DEF LInv, LoaderTypeOK
  <1>3. CASE pc' = "phdrs" /\ fault' = fault
    <2>1. LoaderTypeOK'
      BY <1>1, <1>3, Zenon DEF LInv, LoaderTypeOK, Statements
    <2>2. Stages'
      BY <1>1, <1>3 DEF LInv, Stages
    <2>3. MapCurrent'
      BY <1>3 DEF MapCurrent
    <2>4. Owners'
      BY <1>1, OwnersFrame DEF LInv
    <2> QED BY <2>1, <2>2, <2>3, <2>4 DEF LInv
  <1>4. CASE pc' = "fatal"
    <2>1. phdrs = 0 /\ pc \notin {"kernel", "fatal"}
      BY <1>1 DEF LInv, Stages
    <2> QED BY <1>1, <1>2, <1>4, <2>1, StopLInv
  <1> QED BY <1>3, <1>4 DEF OpenKernel, Goto, fatal

LEMMA NoMemoryLInv == LInv /\ NoMemory => LInv'
  <1> SUFFICES ASSUME LInv, NoMemory PROVE LInv'
    OBVIOUS
  <1>1. /\ pc \in {"pool", "phdrs", "bootinfo"} /\ pc' = "fatal"
        /\ UNCHANGED <<types, pool, noise, bs, keyFresh, raced, mm, phdrs, loaded,
                       bi_page, attempt>>
    BY DEF NoMemory, fatal, firmware, ghosts
  <1>2. phdrs = 0 /\ pc \notin {"kernel", "fatal"}
    BY <1>1 DEF LInv, Stages
  <1>3. mm \in [page : DOMAIN types \cup {0}, capacity : Nat, size : Nat]
    BY DEF LInv, LoaderTypeOK
  <1> QED BY <1>1, <1>2, <1>3, StopLInv

LEMMA PublishLInv == LInv /\ PublishMap => LInv'
  <1> SUFFICES ASSUME LInv, PublishMap PROVE LInv'
    OBVIOUS
  <1>1. /\ pc = "publish" /\ pc' = "exit" /\ fault' = fault
        /\ bi' = [ptr |-> mm.page, count |-> mm.size]
        /\ UNCHANGED <<types, pool, noise, bs, keyFresh, raced, mm, buffer, phdrs,
                       loaded, bi_page, attempt>>
    BY DEF PublishMap, Goto, firmware, ghosts
  <1>2. LoaderTypeOK'
    BY <1>1, Zenon DEF LInv, LoaderTypeOK, Statements
  <1>3. Stages'
    BY <1>1 DEF LInv, Stages
  <1>4. MapCurrent'
    BY <1>1, Zenon DEF LInv, MapCurrent, MapNow
  <1>5. Owners'
    BY <1>1, OwnersFrame DEF LInv
  <1> QED BY <1>2, <1>3, <1>4, <1>5 DEF LInv

LEMMA ExitSucceedsLInv == LInv /\ ExitSucceeds => LInv'
  <1> SUFFICES ASSUME LInv, ExitSucceeds PROVE LInv'
    OBVIOUS
  <1>1. /\ pc = "exit" /\ pc' = "kernel" /\ fault' = fault
        /\ keyFresh /\ ~ bs'
        /\ UNCHANGED <<types, pool, noise, keyFresh, raced, mm, buffer, phdrs,
                       loaded, bi_page, bi, attempt>>
    BY DEF ExitSucceeds, ExitBootServices, Goto, ghosts
  <1>2. LoaderTypeOK'
    <2>1. bs' \in BOOLEAN
      BY DEF ExitSucceeds, ExitBootServices
    <2> QED BY <1>1, <2>1, Zenon DEF LInv, LoaderTypeOK, Statements
  <1>3. Stages'
    BY <1>1 DEF LInv, Stages
  <1>4. MapCurrent'
    BY <1>1, Zenon DEF LInv, MapCurrent, MapNow
  <1>5. Owners'
    BY <1>1, OwnersFrame DEF LInv
  <1> QED BY <1>2, <1>3, <1>4, <1>5 DEF LInv

LEMMA ExitFailsLInv == LInv /\ ExitFails => LInv'
  <1> SUFFICES ASSUME LInv, ExitFails PROVE LInv'
    OBVIOUS
  <1>1. /\ pc = "exit" /\ attempt' = attempt + 1
        /\ UNCHANGED <<types, pool, noise, bs, keyFresh, raced, mm, buffer, phdrs,
                       loaded, bi_page, bi>>
    BY DEF ExitFails, firmware, ghosts
  <1>2. \/ pc' = "fatal" /\ attempt = MaxAttempts
        \/ pc' = "refresh" /\ fault' = fault /\ attempt # MaxAttempts
    BY DEF ExitFails, Goto, fatal
  <1>3. attempt \in 1 .. MaxAttempts
    BY <1>1, SlackAndAttempts DEF LInv, LoaderTypeOK, Stages
  <1>4. attempt' \in 1 .. MaxAttempts + 1
    BY <1>1, <1>3, SlackAndAttempts
  <1>5. LoaderTypeOK'
    BY <1>1, <1>2, <1>4, Zenon DEF LInv, LoaderTypeOK, Statements
  <1>6. Stages'
    <2>1. pc' # "fatal" => attempt' <= MaxAttempts
      BY <1>1, <1>2, <1>3, SlackAndAttempts
    <2> QED BY <1>1, <1>2, <2>1 DEF LInv, Stages
  <1>7. MapCurrent'
    BY <1>2 DEF MapCurrent
  <1>8. Owners'
    BY <1>1, OwnersFrame DEF LInv
  <1> QED BY <1>5, <1>6, <1>7, <1>8 DEF LInv

-----------------------------------------------------------------------------
(* The steps that allocate and free. *)

(* What is kept is neither free nor held by an event. *)
LEMMA KeptFacts ==
    ASSUME Owners, NEW p \in Kept
    PROVE  p \in DOMAIN types /\ p \notin FreePages /\ p \notin noise
  BY DEF Owners, FreePages

LEMMA AllocatePagesFacts ==
    ASSUME LInv, NEW pages, AllocatePages(pages)
    PROVE  /\ Machine(types') /\ DOMAIN types' = DOMAIN types /\ keyFresh' = FALSE
           /\ pages \subseteq DOMAIN types
           /\ \A p \in pages : p \notin Kept /\ p \notin noise /\ types'[p] = "loaderData"
           /\ \A p \in DOMAIN types : p \notin pages => types'[p] = types[p]
           /\ UNCHANGED <<pool, noise, bs>>
  <1>1. /\ SetType(pages, "loaderData") /\ pages \subseteq FreePages
        /\ UNCHANGED <<pool, noise, bs>>
    BY DEF AllocatePages
  <1>2. "loaderData" \in PageTypes /\ Machine(types)
    BY DEF PageTypes, LInv, LoaderTypeOK
  <1>3. /\ Machine(types') /\ DOMAIN types' = DOMAIN types /\ keyFresh' = FALSE
        /\ \A p \in DOMAIN types :
              types'[p] = IF p \in pages THEN "loaderData" ELSE types[p]
    BY <1>1, <1>2, SetTypeFacts
  <1>4. pages \subseteq DOMAIN types
    BY <1>1 DEF FreePages
  <1>5. \A p \in pages : p \notin Kept /\ p \notin noise
    BY <1>1 DEF LInv, Owners, FreePages
  <1> QED BY <1>1, <1>3, <1>4, <1>5

(* A pool allocation comes from a free page or shares one with another. *)
LEMMA AllocatePoolFacts ==
    ASSUME LInv, NEW page \in DOMAIN types, AllocatePool(page)
    PROVE  /\ Machine(types') /\ DOMAIN types' = DOMAIN types /\ keyFresh' = FALSE
           /\ pool' \in [DOMAIN types -> Nat]
           /\ pool' = [pool EXCEPT ![page] = @ + 1]
           /\ page # 0 /\ page # bi_page /\ page \notin LoadedPages
           /\ page \notin noise
           /\ types'[page] = "loaderData"
           /\ \A p \in DOMAIN types : p # page => types'[p] = types[p]
           /\ UNCHANGED <<noise, bs>>
  <1>1. pool' = [pool EXCEPT ![page] = @ + 1] /\ UNCHANGED <<noise, bs>>
    BY DEF AllocatePool
  <1>2. pool' \in [DOMAIN types -> Nat]
    BY <1>1 DEF LInv, LoaderTypeOK
  <1>3. "loaderData" \in PageTypes /\ Machine(types)
    BY DEF PageTypes, LInv, LoaderTypeOK
  <1>4. CASE page \in AnyPage /\ SetType({page}, "loaderData")
    <2>1. page # 0
      BY <1>4, MachineAssumption DEF AnyPage
    <2>2. types[page] = "conventional"
      BY <1>4 DEF AnyPage, FreePages
    <2>3. page \notin Kept /\ page \notin noise
      BY <2>2 DEF LInv, Owners
    <2>4. page # bi_page /\ page \notin LoadedPages
      BY <2>1, <2>3 DEF Kept
    <2> QED BY <1>1, <1>2, <1>3, <1>4, <2>1, <2>3, <2>4, SetTypeFacts
  <1>5. CASE pool[page] > 0 /\ SetType({}, "loaderData")
    <2>1. page # 0 /\ page \in {mm.page, phdrs}
      BY <1>5 DEF LInv, Owners, PoolUses
    <2>2. page \in Kept
      BY <2>1 DEF Kept
    <2>3. types[page] = "loaderData" /\ page \notin noise
      BY <2>2 DEF LInv, Owners
    <2>4. page # bi_page /\ page \notin LoadedPages
      BY <2>1 DEF LInv, Owners
    <2> QED BY <1>1, <1>2, <1>3, <1>5, <2>1, <2>3, <2>4, SetTypeFacts
  <1> QED BY <1>4, <1>5 DEF AllocatePool

(* The program headers go back, and their page with them unless the map is
   in it too. *)
LEMMA FreePoolFacts ==
    ASSUME LInv, pc = "segments", FreePool(phdrs)
    PROVE  /\ Machine(types') /\ DOMAIN types' = DOMAIN types /\ keyFresh' = FALSE
           /\ phdrs \in DOMAIN types /\ phdrs # 0
           /\ pool' \in [DOMAIN types -> Nat]
           /\ pool' = [pool EXCEPT ![phdrs] = @ - 1]
           /\ \A p \in DOMAIN types :
                 p # phdrs \/ p = mm.page => types'[p] = types[p]
           /\ phdrs # mm.page => types'[phdrs] = "conventional"
           /\ UNCHANGED <<noise, bs>>
  <1>1. pool' = [pool EXCEPT ![phdrs] = @ - 1] /\ UNCHANGED <<noise, bs>>
    BY DEF FreePool
  <1>2. phdrs \in DOMAIN types /\ phdrs # 0
    BY DEF LInv, LoaderTypeOK, Stages
  <1>3. pool[phdrs] = IF phdrs = mm.page THEN 2 ELSE 1
    BY <1>2 DEF LInv, Owners, PoolUses
  <1>4. pool' \in [DOMAIN types -> Nat]
    BY <1>1, <1>2, <1>3 DEF LInv, LoaderTypeOK
  <1>5. "conventional" \in PageTypes /\ Machine(types)
    BY DEF PageTypes, LInv, LoaderTypeOK
  <1> DEFINE gone == IF pool[phdrs] = 1 THEN {phdrs} ELSE {}
  <1>6. \A p : p \in gone <=> p = phdrs /\ p # mm.page
    BY <1>3
  <1>7. SetType(gone, "conventional")
    BY DEF FreePool
  <1> HIDE DEF gone
  <1>8. /\ Machine(types') /\ DOMAIN types' = DOMAIN types /\ keyFresh' = FALSE
        /\ \A p \in DOMAIN types :
              types'[p] = IF p \in gone THEN "conventional" ELSE types[p]
    BY <1>5, <1>7, SetTypeFacts
  <1> QED BY <1>1, <1>2, <1>4, <1>6, <1>8

LEMMA AllocateBufferLInv == LInv /\ AllocateBuffer => LInv'
  <1> SUFFICES ASSUME LInv, AllocateBuffer PROVE LInv'
    OBVIOUS
  <1>1. PICK page \in DOMAIN types :
              AllocatePool(page) /\ mm' = [mm EXCEPT !.page = page]
    BY DEF AllocateBuffer
  <1>2. /\ pc = "pool" /\ pc' = "read" /\ fault' = fault
        /\ UNCHANGED <<raced, buffer, phdrs, loaded, bi_page, bi, attempt>>
    BY DEF AllocateBuffer, Goto, ghosts
  <1>3. /\ mm'.page = page
        /\ mm' \in [page : DOMAIN types \cup {0}, capacity : Nat, size : Nat]
    BY <1>1, Zenon DEF LInv, LoaderTypeOK
  <1>4. page # 0 /\ DOMAIN types' = DOMAIN types /\ UNCHANGED <<noise, bs>>
    BY <1>1, AllocatePoolFacts
  <1>5. mm.page = 0 /\ phdrs = 0 /\ bi_page = 0 /\ loaded = 0
    BY <1>2 DEF LInv, Stages
  <1>6. LoadedPages = {} /\ LoadedPages' = {}
    <2>1. 1 .. 0 = {}
      OBVIOUS
    <2> QED BY <1>2, <1>5, <2>1, Zenon DEF LoadedPages
  <1>7. LoaderTypeOK'
    BY <1>1, <1>2, <1>3, AllocatePoolFacts, Zenon DEF LInv, LoaderTypeOK, Statements
  <1>8. Stages'
    BY <1>2, <1>3, <1>4 DEF LInv, Stages
  <1>9. MapCurrent'
    BY <1>2 DEF MapCurrent
  <1>10. Owners'
    <2>1. ASSUME NEW p \in DOMAIN types
          PROVE  pool'[p] = IF p = 0 THEN 0 ELSE PoolUses(p)'
      <3>1. pool' = [pool EXCEPT ![page] = @ + 1] /\ pool \in [DOMAIN types -> Nat]
        BY <1>1, AllocatePoolFacts DEF LInv, LoaderTypeOK
      <3>2. pool[p] = IF p = 0 THEN 0 ELSE PoolUses(p)
        BY DEF LInv, Owners
      <3> QED BY <1>2, <1>3, <1>4, <1>5, <3>1, <3>2 DEF PoolUses
    <2>2. Kept' = {page}
      BY <1>2, <1>3, <1>4, <1>5, <1>6 DEF Kept
    <2>3. page \in DOMAIN types' /\ types'[page] = "loaderData"
      BY <1>1, AllocatePoolFacts
    <2>4. \A p \in noise' : types'[p] = "bsData"
      BY <1>1, <1>4, AllocatePoolFacts DEF LInv, LoaderTypeOK, Owners
    <2> QED BY <1>2, <1>4, <1>5, <1>6, <2>1, <2>2, <2>3, <2>4 DEF Owners
  <1> QED BY <1>7, <1>8, <1>9, <1>10 DEF LInv

LEMMA AllocateHeadersLInv == LInv /\ AllocateHeaders => LInv'
  <1> SUFFICES ASSUME LInv, AllocateHeaders PROVE LInv'
    OBVIOUS
  <1>1. PICK page \in DOMAIN types : AllocatePool(page) /\ phdrs' = page
    BY DEF AllocateHeaders
  <1>2. /\ pc = "phdrs" /\ pc' = "segments" /\ fault' = fault
        /\ UNCHANGED <<raced, mm, buffer, loaded, bi_page, bi, attempt>>
    BY DEF AllocateHeaders, Goto, ghosts
  <1>3. page # 0 /\ DOMAIN types' = DOMAIN types /\ UNCHANGED <<noise, bs>>
    BY <1>1, AllocatePoolFacts
  <1>4. phdrs = 0 /\ bi_page = 0 /\ loaded = 0 /\ mm.page # 0
    BY <1>2 DEF LInv, Stages
  <1>5. LoadedPages = {} /\ LoadedPages' = {}
    <2>1. 1 .. 0 = {}
      OBVIOUS
    <2> QED BY <1>2, <1>4, <2>1, Zenon DEF LoadedPages
  <1>6. LoaderTypeOK'
    <2>1. phdrs' \in DOMAIN types \cup {0}
      BY <1>1
    <2> QED BY <1>1, <1>2, <2>1, AllocatePoolFacts, Zenon
        DEF LInv, LoaderTypeOK, Statements
  <1>7. Stages'
    BY <1>1, <1>2, <1>3 DEF LInv, Stages
  <1>8. MapCurrent'
    BY <1>2 DEF MapCurrent
  <1>9. Owners'
    <2>1. ASSUME NEW p \in DOMAIN types
          PROVE  pool'[p] = IF p = 0 THEN 0 ELSE PoolUses(p)'
      <3>1. pool' = [pool EXCEPT ![page] = @ + 1] /\ pool \in [DOMAIN types -> Nat]
        BY <1>1, AllocatePoolFacts DEF LInv, LoaderTypeOK
      <3>2. pool[p] = IF p = 0 THEN 0 ELSE PoolUses(p)
        BY DEF LInv, Owners
      <3> QED BY <1>1, <1>2, <1>3, <1>4, <3>1, <3>2 DEF PoolUses
    <2>2. Kept' = {page, mm.page}
      BY <1>1, <1>2, <1>3, <1>4, <1>5 DEF Kept
    <2>3. mm.page \in DOMAIN types /\ types[mm.page] = "loaderData"
      BY <1>4 DEF LInv, Owners, Kept
    <2>4. \A p \in Kept' : p \in DOMAIN types' /\ types'[p] = "loaderData"
      BY <1>1, <2>2, <2>3, AllocatePoolFacts
    <2>5. \A p \in noise' : types'[p] = "bsData"
      BY <1>1, <1>3, AllocatePoolFacts DEF LInv, LoaderTypeOK, Owners
    <2> QED BY <1>2, <1>3, <1>4, <1>5, <2>1, <2>4, <2>5 DEF Owners
  <1> QED BY <1>6, <1>7, <1>8, <1>9 DEF LInv

LEMMA LoadSegmentLInv == LInv /\ LoadSegment => LInv'
  <1> SUFFICES ASSUME LInv, LoadSegment PROVE LInv'
    OBVIOUS
  <1> DEFINE pages == SegmentPages(Segments[loaded + 1])
  <1>1. /\ pc = "segments" /\ loaded < Len(Segments) /\ AllocatePages(pages)
        /\ loaded' = loaded + 1
        /\ UNCHANGED <<pc, fault, raced, mm, buffer, phdrs, bi_page, bi, attempt>>
    BY DEF LoadSegment, ghosts
  <1>2. LoadedPages' = LoadedPages \cup pages
    <2>1. loaded \in Nat
      BY SegmentFacts DEF LInv, LoaderTypeOK
    <2>2. 1 .. loaded' = (1 .. loaded) \cup {loaded + 1}
      BY <1>1, <2>1
    <2> QED BY <2>2, Zenon DEF LoadedPages
  <1> HIDE DEF pages
  <1>3. bi_page = 0 /\ phdrs # 0 /\ mm.page # 0
    BY <1>1 DEF LInv, Stages
  <1>4. LoaderTypeOK'
    <2>1. loaded' \in 0 .. Len(Segments)
      BY <1>1, SegmentFacts DEF LInv, LoaderTypeOK
    <2> QED BY <1>1, <2>1, AllocatePagesFacts, Zenon DEF LInv, LoaderTypeOK
  <1>5. Stages'
    <2>1. UNCHANGED bs
      BY <1>1, AllocatePagesFacts
    <2> QED BY <1>1, <2>1 DEF LInv, Stages
  <1>6. MapCurrent'
    BY <1>1 DEF MapCurrent
  <1>7. Owners'
    <2>1. \A p \in DOMAIN types' : pool'[p] = IF p = 0 THEN 0 ELSE PoolUses(p)'
      BY <1>1, AllocatePagesFacts DEF LInv, Owners, PoolUses
    <2>2. Kept' = Kept \cup pages
      BY <1>1, <1>2 DEF Kept
    <2>3. \A p \in Kept' : p \in DOMAIN types' /\ types'[p] = "loaderData"
      BY <1>1, <2>2, AllocatePagesFacts DEF LInv, Owners
    <2>4. \A p \in noise' : types'[p] = "bsData"
      BY <1>1, AllocatePagesFacts DEF LInv, LoaderTypeOK, Owners
    <2>5. {mm.page, phdrs} \cap pages = {}
      <3>1. \A p \in pages : p \notin Kept
        BY <1>1, AllocatePagesFacts, Zenon
      <3>2. mm.page \in Kept /\ phdrs \in Kept
        BY <1>3 DEF Kept
      <3> QED BY <3>1, <3>2
    <2>6. {mm.page, phdrs}' \cap LoadedPages' = {}
      BY <1>1, <1>2, <2>5 DEF LInv, Owners
    <2> QED BY <1>1, <1>3, <2>1, <2>3, <2>4, <2>6 DEF Owners
  <1> QED BY <1>4, <1>5, <1>6, <1>7 DEF LInv

(* The header table is given back, and efi_main stops or goes on. *)
LEMMA HeadersGoLInv ==
    ASSUME LInv, pc = "segments", FreePool(phdrs), phdrs' = 0,
           \/ pc' = "fatal"
           \/ pc' = "bootinfo" /\ fault' = fault /\ loaded = Len(Segments),
           UNCHANGED <<raced, mm, buffer, loaded, bi_page, bi, attempt>>
    PROVE  LInv'
  <1>1. /\ bi_page = 0 /\ mm.page # 0 /\ phdrs \in DOMAIN types /\ phdrs # 0
        /\ phdrs \notin LoadedPages /\ LoadedPages' = LoadedPages
    BY FreePoolFacts, LoadedSame DEF LInv, Stages, Owners
  <1>2. DOMAIN types' = DOMAIN types /\ UNCHANGED <<noise, bs>>
    BY FreePoolFacts
  <1>3. LoaderTypeOK'
    <2>1. phdrs' \in DOMAIN types \cup {0} /\ pc' \in Statements
      BY DEF Statements
    <2> QED BY <2>1, FreePoolFacts, Zenon DEF LInv, LoaderTypeOK
  <1>4. Stages'
    BY <1>1, <1>2 DEF LInv, Stages
  <1>5. MapCurrent'
    BY DEF MapCurrent
  <1>6. Owners'
    <2>1. ASSUME NEW p \in DOMAIN types
          PROVE  pool'[p] = IF p = 0 THEN 0 ELSE PoolUses(p)'
      <3>1. pool' = [pool EXCEPT ![phdrs] = @ - 1] /\ pool \in [DOMAIN types -> Nat]
        BY FreePoolFacts DEF LInv, LoaderTypeOK
      <3>2. pool[p] = IF p = 0 THEN 0 ELSE PoolUses(p)
        BY DEF LInv, Owners
      <3> QED BY <1>1, <3>1, <3>2 DEF PoolUses
    <2>2. Kept' = LoadedPages \cup {mm.page}
      BY <1>1 DEF Kept
    <2>3. \A p \in Kept' : p \in DOMAIN types /\ types[p] = "loaderData"
      BY <1>1, <2>2 DEF LInv, Owners, Kept
    <2>4. \A p \in Kept' : p \in DOMAIN types' /\ types'[p] = "loaderData"
      BY <1>1, <2>2, <2>3, FreePoolFacts
    <2>5. \A p \in noise' : types'[p] = "bsData"
      <3>1. \A p \in noise : p \in DOMAIN types /\ types[p] = "bsData"
        BY DEF LInv, LoaderTypeOK, Owners
      <3>2. types[phdrs] = "loaderData"
        BY <1>1 DEF LInv, Owners, Kept
      <3> QED BY <1>2, <3>1, <3>2, FreePoolFacts
    <2>6. 0 \notin LoadedPages
      BY LoadedPositive DEF LInv, LoaderTypeOK
    <2>7. mm.page \notin LoadedPages
      BY DEF LInv, Owners
    <2> QED BY <1>1, <1>2, <2>1, <2>4, <2>5, <2>6, <2>7 DEF Owners
  <1> QED BY <1>3, <1>4, <1>5, <1>6 DEF LInv

LEMMA LoadFailsLInv == LInv /\ LoadFails => LInv'
  BY HeadersGoLInv DEF LoadFails, fatal, ghosts

LEMMA FreeHeadersLInv == LInv /\ FreeHeaders => LInv'
  BY HeadersGoLInv DEF FreeHeaders, fatal, Goto, ghosts

LEMMA AllocateBootInfoLInv == LInv /\ AllocateBootInfo => LInv'
  <1> SUFFICES ASSUME LInv, AllocateBootInfo PROVE LInv'
    OBVIOUS
  <1>1. PICK page \in AnyPage : AllocatePages({page}) /\ bi_page' = page
    BY DEF AllocateBootInfo
  <1>2. /\ pc = "bootinfo" /\ pc' = "refresh" /\ fault' = fault
        /\ UNCHANGED <<raced, mm, buffer, phdrs, loaded, bi, attempt>>
    BY DEF AllocateBootInfo, Goto, ghosts
  <1>3. page \in DOMAIN types /\ page # 0
    BY MachineAssumption DEF AnyPage, FreePages
  <1>4. phdrs = 0 /\ bi_page = 0 /\ mm.page # 0 /\ LoadedPages' = LoadedPages
    BY <1>2, LoadedSame DEF LInv, Stages
  <1>5. /\ Machine(types') /\ DOMAIN types' = DOMAIN types /\ keyFresh' = FALSE
        /\ page \notin Kept /\ page \notin noise /\ types'[page] = "loaderData"
        /\ \A p \in DOMAIN types : p # page => types'[p] = types[p]
        /\ UNCHANGED <<pool, noise, bs>>
    <2> DEFINE pages == {page}
    <2>1. AllocatePages(pages) /\ page \in pages /\ \A p : p # page => p \notin pages
      BY <1>1
    <2> HIDE DEF pages
    <2> QED BY <2>1, AllocatePagesFacts
  <1>6. LoaderTypeOK'
    <2>1. bi_page' \in DOMAIN types \cup {0} /\ pc' \in Statements
      BY <1>1, <1>2, <1>3 DEF Statements
    <2> QED BY <1>2, <1>5, <2>1, Zenon DEF LInv, LoaderTypeOK
  <1>7. Stages'
    <2>1. bi_page' # 0 /\ UNCHANGED bs
      BY <1>1, <1>3, <1>5
    <2> QED BY <1>2, <2>1 DEF LInv, Stages
  <1>8. MapCurrent'
    BY <1>2 DEF MapCurrent
  <1>9. Owners'
    <2>1. \A p \in DOMAIN types' : pool'[p] = IF p = 0 THEN 0 ELSE PoolUses(p)'
      BY <1>2, <1>5 DEF LInv, Owners, PoolUses
    <2>2. Kept' = Kept \cup {page}
      BY <1>1, <1>2, <1>3, <1>4 DEF Kept
    <2>3. \A p \in Kept' : p \in DOMAIN types' /\ types'[p] = "loaderData"
      BY <1>3, <1>5, <2>2 DEF LInv, Owners
    <2>4. \A p \in noise' : types'[p] = "bsData"
      BY <1>5 DEF LInv, LoaderTypeOK, Owners
    <2>5. page \notin {mm.page, phdrs} \cup LoadedPages
      BY <1>3, <1>4, <1>5 DEF Kept
    <2>6. {mm.page, phdrs} \cap LoadedPages = {}
      BY DEF LInv, Owners
    <2> QED BY <1>1, <1>2, <1>4, <2>1, <2>3, <2>4, <2>5, <2>6 DEF Owners
  <1> QED BY <1>6, <1>7, <1>8, <1>9 DEF LInv

-----------------------------------------------------------------------------
(* The events of the firmware, wherever efi_main is. *)

LEMMA EventLInv == LInv /\ FirmwareEvent => LInv'
  <1> SUFFICES ASSUME LInv, FirmwareEvent PROVE LInv'
    OBVIOUS
  <1>1. /\ raced' = TRUE
        /\ UNCHANGED <<pc, fault, mm, buffer, phdrs, loaded, bi_page, bi, attempt>>
    BY DEF FirmwareEvent, loader
  <1>2. bs /\ UNCHANGED <<pool, bs>>
    BY DEF FirmwareEvent, Event, EventAllocates, EventFrees
  <1>3. PICK p \in DOMAIN types, type \in {"bsData", "conventional"} :
           /\ SetType({p}, type)
           /\ p \notin Kept
           /\ \/ type = "bsData" /\ noise' = noise \cup {p}
              \/ type = "conventional" /\ noise' = noise \ {p}
    <2>1. CASE EventAllocates
      <3>1. PICK p \in AnyPage : SetType({p}, "bsData") /\ noise' = noise \cup {p}
        BY <2>1 DEF EventAllocates
      <3>2. p \in DOMAIN types /\ p \notin Kept
        BY DEF AnyPage, FreePages, LInv, Owners
      <3> QED BY <3>1, <3>2
    <2>2. CASE EventFrees
      <3>1. PICK p \in noise : SetType({p}, "conventional") /\ noise' = noise \ {p}
        BY <2>2 DEF EventFrees
      <3>2. p \in DOMAIN types /\ p \notin Kept
        BY DEF LInv, LoaderTypeOK, Owners
      <3> QED BY <3>1, <3>2
    <2> QED BY <2>1, <2>2 DEF FirmwareEvent, Event
  <1>4. /\ Machine(types') /\ DOMAIN types' = DOMAIN types /\ keyFresh' = FALSE
        /\ types'[p] = type
        /\ \A q \in DOMAIN types : q # p => types'[q] = types[q]
    <2> DEFINE pages == {p}
    <2>1. SetType(pages, type) /\ \A q : q \in pages <=> q = p
      BY <1>3
    <2>2. type \in PageTypes /\ Machine(types)
      BY DEF PageTypes, LInv, LoaderTypeOK
    <2> HIDE DEF pages
    <2> QED BY <2>1, <2>2, SetTypeFacts
  <1>5. LoaderTypeOK'
    <2>1. noise' \subseteq DOMAIN types
      BY <1>3 DEF LInv, LoaderTypeOK
    <2> QED BY <1>1, <1>2, <1>4, <2>1, Zenon DEF LInv, LoaderTypeOK
  <1>6. Stages'
    BY <1>1, <1>2 DEF LInv, Stages
  <1>7. MapCurrent'
    <2>1. pc # "kernel"
      BY <1>2 DEF LInv, Stages
    <2> QED BY <1>1, <1>4, <2>1, Zenon DEF MapCurrent
  <1>8. Owners'
    <2>1. Kept' = Kept /\ LoadedPages' = LoadedPages
      BY <1>1 DEF Kept, LoadedPages
    <2>2. \A q \in DOMAIN types' : pool'[q] = IF q = 0 THEN 0 ELSE PoolUses(q)'
      BY <1>1, <1>2, <1>4 DEF LInv, Owners, PoolUses
    <2>3. \A q \in Kept' : q \in DOMAIN types' /\ types'[q] = "loaderData"
      BY <1>3, <1>4, <2>1 DEF LInv, Owners
    <2>4. \A q \in noise' : types'[q] = "bsData"
      BY <1>3, <1>4 DEF LInv, LoaderTypeOK, Owners
    <2> QED BY <1>1, <2>1, <2>2, <2>3, <2>4 DEF LInv, Owners
  <1> QED BY <1>5, <1>6, <1>7, <1>8 DEF LInv

LEMMA StutterLInv == LInv /\ UNCHANGED loaderVars => LInv'
  <1> SUFFICES ASSUME LInv, UNCHANGED loaderVars PROVE LInv'
    OBVIOUS
  <1>1. UNCHANGED <<types, pool, noise, keyFresh, bs, pc, fault, mm, buffer,
                    phdrs, loaded, bi_page, bi, attempt, raced>>
    BY DEF loaderVars, firmware, loader, ghosts
  <1>2. LoaderTypeOK'
    BY <1>1, Zenon DEF LInv, LoaderTypeOK
  <1>3. Stages'
    BY <1>1, Zenon DEF LInv, Stages
  <1>4. MapCurrent'
    BY <1>1, Zenon DEF LInv, MapCurrent, MapNow
  <1>5. Owners'
    BY <1>1, OwnersFrame DEF LInv
  <1> QED BY <1>2, <1>3, <1>4, <1>5 DEF LInv

LEMMA StepLInv == LInv /\ [LoaderNext]_loaderVars => LInv'
  BY ProbeLInv, AllocateBufferLInv, FirstReadLInv, RefreshLInv, MapTooSmallLInv,
     OpenKernelLInv, AllocateHeadersLInv, LoadSegmentLInv, LoadFailsLInv,
     FreeHeadersLInv, AllocateBootInfoLInv, NoMemoryLInv, PublishLInv,
     ProbeFailsLInv, ExitSucceedsLInv, ExitFailsLInv, EventLInv, StutterLInv, Zenon
  DEF LoaderNext, LoaderStep, Stopped

(* The inductive invariant holds in every state the bootloader reaches. *)
THEOREM LoaderInvariant == LoaderSpec => []LInv
  BY InitLInv, StepLInv, PTL DEF LoaderSpec

-----------------------------------------------------------------------------
(* The memory map: every page that is not in a hole is in one descriptor,
   and the descriptor has its type. *)

(* A set of page numbers has a least one, and if it is bounded a greatest. *)
LEMMA LeastPage ==
    ASSUME NEW S, S \subseteq Nat, S # {}
    PROVE  \E n \in S : \A m \in S : n <= m
  <1>1. PICK n \in S : \A m \in S : <<m, n>> \notin OpToRel(<, Nat)
    BY NatLessThanWellFounded, WFMin, Zenon
  <1>2. ASSUME NEW m \in S PROVE n <= m
    <2>1. <<m, n>> \in Nat \X Nat
      OBVIOUS
    <2>2. ~ (m < n)
      BY <1>1, <2>1 DEF OpToRel
    <2> QED BY <2>2
  <1> QED BY <1>2

(* The pages around p that have its type begin at a run start. *)
LEMMA RunOfPage ==
    ASSUME NEW t, Machine(t), NEW p \in DOMAIN t, t[p] # "hole"
    PROVE  \E first \in RunStarts(t) :
              first <= p /\ \A q \in first .. p : t[q] = t[p]
  <1> DEFINE Last == Cardinality(DOMAIN t) - 1
             Below == {a \in 0 .. p : \A q \in a .. p : t[q] = t[p]}
  <1>1. DOMAIN t = 0 .. Last /\ Last \in Int
    BY FS_CardinalityType DEF Machine
  <1> HIDE DEF Last
  <1>2. p \in Nat /\ p <= Last
    BY <1>1
  <1>3. Below \subseteq Nat /\ p \in Below
    BY <1>2
  <1>4. PICK first \in Below : \A a \in Below : first <= a
    <2> HIDE DEF Below
    <2> QED BY <1>3, LeastPage
  <1>5. first \in 0 .. p /\ \A q \in first .. p : t[q] = t[p]
    OBVIOUS
  <1>6. first \in DOMAIN t /\ t[first] = t[p]
    BY <1>1, <1>2, <1>5
  <1>7. ASSUME first - 1 \in DOMAIN t, t[first - 1] = t[first]
        PROVE  FALSE
    <2>1. first - 1 \in 0 .. p
      BY <1>1, <1>2, <1>5, <1>7
    <2>2. \A q \in first - 1 .. p : q = first - 1 \/ q \in first .. p
      BY <1>2, <1>5
    <2>3. first - 1 \in Below
      BY <1>5, <1>6, <1>7, <2>1, <2>2
    <2> QED BY <1>4, <1>5, <2>3
  <1> QED BY <1>5, <1>6, <1>7 DEF RunStarts

(* A run that begins has an end, and holds every page of its type that can
   be reached from its beginning. *)
LEMMA RunEndFacts ==
    ASSUME NEW t, Machine(t), NEW first \in RunStarts(t),
           NEW p \in DOMAIN t, first <= p, \A q \in first .. p : t[q] = t[first]
    PROVE  /\ RunEnd(t, first) \in Int /\ p <= RunEnd(t, first)
           /\ RunEnd(t, first) \in RunEnds(t)
           /\ \A q \in first .. RunEnd(t, first) : t[q] = t[first]
  <1> DEFINE Last == Cardinality(DOMAIN t) - 1
             Ends(last) == /\ first <= last
                           /\ \A q \in first .. last : t[q] = t[first]
             Beyond == {b \in first .. Last : ~ Ends(b + 1)}
  <1>1. DOMAIN t = 0 .. Last /\ Last \in Int
    BY FS_CardinalityType DEF Machine
  <1> HIDE DEF Last
  <1>2. first \in DOMAIN t /\ first \in Nat /\ first <= Last /\ t[first] # "hole"
    BY <1>1 DEF RunStarts
  <1>3. PICK last \in RunEnds(t) : Ends(last)
    <2> DEFINE After == {b \in first .. Last : b + 1 \notin DOMAIN t \/ t[b + 1] # t[first]}
    <2>1. Last \in After
      BY <1>1, <1>2
    <2>2. After \subseteq Nat
      BY <1>1, <1>2
    <2>3. PICK b \in After : \A c \in After : b <= c
      <3> HIDE DEF After
      <3> QED BY <2>1, <2>2, LeastPage
    <2>4. b \in first .. Last /\ (b + 1 \notin DOMAIN t \/ t[b + 1] # t[first])
      OBVIOUS
    <2>5. ASSUME NEW q \in first .. b PROVE t[q] = t[first]
      <3>1. CASE q = first
        BY <3>1
      <3>2. CASE q # first
        <4>1. q - 1 \in first .. Last /\ q - 1 < b
          BY <1>1, <1>2, <2>4, <2>5, <3>2
        <4>2. q - 1 \notin After
          BY <2>3, <2>4, <4>1, <1>1, <1>2
        <4>3. (q - 1) + 1 = q
          BY <1>2, <2>5
        <4> QED BY <4>1, <4>2, <4>3
      <3> QED BY <3>1, <3>2
    <2>6. b \in DOMAIN t /\ t[b] = t[first]
      BY <1>1, <1>2, <2>4, <2>5
    <2>7. b \in RunEnds(t)
      BY <1>2, <2>4, <2>6 DEF RunEnds
    <2> QED BY <2>4, <2>5, <2>7
  <1>4. RunEnd(t, first) \in RunEnds(t) /\ Ends(RunEnd(t, first))
    BY <1>3, Zenon DEF RunEnd
  <1>5. RunEnd(t, first) \in DOMAIN t /\ RunEnd(t, first) \in Nat
    BY <1>1, <1>4 DEF RunEnds
  <1>6. ASSUME RunEnd(t, first) < p PROVE FALSE
    <2> DEFINE e == RunEnd(t, first)
    <2>1. e + 1 \in DOMAIN t /\ e + 1 \in first .. p /\ e \in first .. p
      BY <1>1, <1>2, <1>4, <1>5, <1>6
    <2>2. t[e + 1] = t[e]
      BY <2>1
    <2>3. t[e + 1] # t[e]
      BY <1>4, <2>1 DEF RunEnds
    <2> QED BY <2>2, <2>3
  <1> QED BY <1>1, <1>4, <1>5, <1>6

(* The page that has as many pages of S up to it as p has is p. *)
LEMMA NthFacts ==
    ASSUME NEW S, S \subseteq Nat, IsFiniteSet(S), NEW p \in S
    PROVE  /\ Cardinality({q \in S : q <= p}) \in 1 .. Cardinality(S)
           /\ Nth(S, Cardinality({q \in S : q <= p})) = p
  <1> DEFINE Upto(x) == {q \in S : q <= x}
  <1>1. \A x : Upto(x) \in SUBSET S
    OBVIOUS
  <1>2. \A x : /\ IsFiniteSet(Upto(x)) /\ Cardinality(Upto(x)) \in Nat
               /\ Cardinality(Upto(x)) <= Cardinality(S)
    BY <1>1, FS_Subset, FS_CardinalityType
  <1>3. Cardinality(Upto(p)) # 0 /\ Cardinality(S) \in Nat
    <2>1. p \in Upto(p)
      OBVIOUS
    <2> HIDE DEF Upto
    <2> QED BY <1>2, <2>1, FS_EmptySet, FS_CardinalityType
  <1>4. ASSUME NEW a \in S, NEW b \in S, a < b
        PROVE  Cardinality(Upto(a)) # Cardinality(Upto(b))
    <2>0. \A q \in S : q <= a => q <= b
      BY <1>4
    <2>1. Upto(a) \in SUBSET Upto(b)
      BY <2>0
    <2>2. b \in Upto(b)
      BY <1>4
    <2>3. b \notin Upto(a)
      BY <1>4
    <2> HIDE DEF Upto
    <2> QED BY <1>2, <2>1, <2>2, <2>3, FS_Subset
  <1>5. ASSUME NEW q \in S, Cardinality(Upto(q)) = Cardinality(Upto(p))
        PROVE  q = p
    <2>1. ~ (q < p) /\ ~ (p < q)
      <3> HIDE DEF Upto
      <3> QED BY <1>4, <1>5
    <2> QED BY <2>1
  <1>6. Nth(S, Cardinality(Upto(p))) = p
    <2> DEFINE i == Cardinality(Upto(p))
    <2>1. \A q \in S : Cardinality({x \in S : x <= q}) = i <=> q = p
      BY <1>5
    <2> HIDE DEF i
    <2> QED BY <2>1, Zenon DEF Nth
  <1> QED BY <1>2, <1>3, <1>6

LEMMA MapCovers ==
    ASSUME NEW t, Machine(t), NEW p \in DOMAIN t, t[p] # "hole"
    PROVE  \E i \in 1 .. MapLength(t) :
              /\ p \in SegmentPages(MapOf(t)[i])
              /\ MapOf(t)[i].type = t[p]
  <1>1. RunStarts(t) \subseteq Nat /\ IsFiniteSet(RunStarts(t)) /\ p \in Nat
    <2>1. RunStarts(t) \in SUBSET DOMAIN t
      BY DEF RunStarts
    <2> QED BY <2>1, FS_Subset, FS_CardinalityType DEF Machine
  <1>2. PICK first \in RunStarts(t) : first <= p /\ \A q \in first .. p : t[q] = t[p]
    BY RunOfPage
  <1>3. t[first] = t[p]
    BY <1>1, <1>2
  <1>4. RunEnd(t, first) \in Int /\ p <= RunEnd(t, first)
    BY <1>2, <1>3, RunEndFacts
  <1> DEFINE i == Cardinality({q \in RunStarts(t) : q <= first})
  <1>5. i \in 1 .. MapLength(t) /\ Nth(RunStarts(t), i) = first
    BY <1>1, NthFacts DEF MapLength
  <1> HIDE DEF i
  <1>6. MapOf(t)[i] = [type |-> t[first], start |-> first,
                       pages |-> RunEnd(t, first) - first + 1]
    BY <1>5, Zenon DEF MapOf, Descriptor
  <1>7. /\ MapOf(t)[i].type = t[first] /\ MapOf(t)[i].start = first
        /\ MapOf(t)[i].pages = RunEnd(t, first) - first + 1
    BY <1>6
  <1>8. p \in SegmentPages(MapOf(t)[i])
    BY <1>1, <1>2, <1>4, <1>7 DEF SegmentPages
  <1> QED BY <1>3, <1>5, <1>7, <1>8

LEMMA MapIsSequence ==
    ASSUME NEW t, Machine(t)
    PROVE  /\ DOMAIN MapOf(t) = 1 .. MapLength(t)
           /\ Len(MapOf(t)) = MapLength(t)
           /\ SubSeq(MapOf(t), 1, MapLength(t)) = MapOf(t)
  <1> DEFINE m == MapOf(t)
             Entries == {m[i] : i \in 1 .. MapLength(t)}
  <1>1. MapLength(t) \in Nat
    BY MapLengthNat
  <1>2. m \in [1 .. MapLength(t) -> Entries]
    <2>1. m = [i \in 1 .. MapLength(t) |-> m[i]]
      BY DEF MapOf
    <2> HIDE DEF m
    <2> QED BY <2>1
  <1> HIDE DEF m, Entries
  <1>3. m \in Seq(Entries)
    BY <1>1, <1>2, SeqDef
  <1>4. DOMAIN m = 1 .. Len(m) /\ Len(m) \in Nat
    BY <1>3, LenProperties
  <1>5. DOMAIN m = 1 .. MapLength(t)
    BY <1>2
  <1>6. Len(m) = MapLength(t)
    BY <1>1, <1>4, <1>5
  <1>7. SubSeq(m, 1, MapLength(t)) = m
    BY <1>3, <1>6, SubSeqFull
  <1> QED BY <1>5, <1>6, <1>7 DEF m

-----------------------------------------------------------------------------
(* The handoff. *)

LEMMA KernelSeesMap ==
    ASSUME LInv, pc = "kernel"
    PROVE  Inherited = MapNow
  <1>1. buffer = MapOf(types) /\ mm.size = MapLength(types) /\ Machine(types)
    BY Zenon DEF LInv, LoaderTypeOK, MapCurrent, MapNow
  <1>2. bi.ptr = mm.page /\ bi.count = mm.size
    BY DEF LInv, Stages
  <1>3. bi.count <= Len(buffer)
    BY <1>1, <1>2, MapLengthNat, MapIsSequence
  <1>4. Inherited = SubSeq(MapOf(types), 1, MapLength(types))
    BY <1>1, <1>2, <1>3, Zenon DEF Inherited
  <1> QED BY <1>1, <1>4, MapIsSequence DEF MapNow

(* The pages the kernel lives in or was handed are the loader's. *)
LEMMA KernelIsLoaders ==
    ASSUME LInv, pc = "kernel", NEW p \in KernelImage \cup {bi_page, mm.page}
    PROVE  p \in Kept /\ p \in DOMAIN types /\ types[p] = "loaderData"
  <1>1. loaded = Len(Segments) /\ mm.page # 0 /\ bi_page # 0
    BY DEF LInv, Stages
  <1>2. KernelImage = LoadedPages
    BY <1>1, SegmentFacts, Zenon DEF KernelImage, LoadedPages
  <1>3. p \in Kept
    BY <1>1, <1>2 DEF Kept
  <1> QED BY <1>3 DEF LInv, Owners

LEMMA KernelIsProtected ==
    ASSUME LInv, pc = "kernel"
    PROVE  /\ bi_page \notin KernelImage \cup {mm.page}
           /\ mm.page \notin KernelImage
           /\ \A p \in KernelImage \cup {bi_page, mm.page} :
                 \E i \in DOMAIN Inherited :
                     /\ p \in SegmentPages(Inherited[i])
                     /\ Inherited[i].type = "loaderData"
  <1>1. /\ loaded = Len(Segments) /\ mm.page # 0 /\ bi_page # 0
        /\ Machine(types) /\ Inherited = MapOf(types)
    BY KernelSeesMap DEF LInv, LoaderTypeOK, Stages, MapNow
  <1>2. KernelImage = LoadedPages
    BY <1>1, SegmentFacts, Zenon DEF KernelImage, LoadedPages
  <1>3. ASSUME NEW p \in KernelImage \cup {bi_page, mm.page}
        PROVE  \E i \in DOMAIN Inherited :
                  /\ p \in SegmentPages(Inherited[i])
                  /\ Inherited[i].type = "loaderData"
    <2>1. p \in DOMAIN types /\ types[p] = "loaderData" /\ types[p] # "hole"
      BY KernelIsLoaders
    <2>2. PICK i \in 1 .. MapLength(types) :
              p \in SegmentPages(MapOf(types)[i]) /\ MapOf(types)[i].type = "loaderData"
      BY <1>1, <2>1, MapCovers
    <2>3. i \in DOMAIN MapOf(types)
      BY <1>1, MapIsSequence
    <2> QED BY <1>1, <2>2, <2>3, Zenon
  <1> QED BY <1>1, <1>2, <1>3 DEF LInv, Owners

(* BootInfo leads the kernel to the map of the machine as it is when boot
   services end (main.c:492-513): for every machine, every kernel file, any
   slack and any number of attempts, whatever the firmware's events do. *)
THEOREM HandoffMapTrue == LoaderSpec => []InheritedMapTrue
  <1>1. LInv => InheritedMapTrue
    BY KernelSeesMap DEF InheritedMapTrue
  <1> QED BY <1>1, LoaderInvariant, PTL

(* The kernel's image, BootInfo and the map are apart and in descriptors of
   LoaderData, which the kernel must not reclaim (main.c:280-284). *)
THEOREM HandoffIsProtected == LoaderSpec => []HandoffProtected
  <1>1. LInv => HandoffProtected
    BY KernelIsProtected DEF HandoffProtected
  <1> QED BY <1>1, LoaderInvariant, PTL

(* A refused key is never the bootloader's own doing (main.c:497-501). *)
THEOREM RefusalMeansEvent == LoaderSpec => []OnlyEventsRace
  <1>1. LInv => OnlyEventsRace
    BY Zenon DEF LInv, MapCurrent, OnlyEventsRace
  <1> QED BY <1>1, LoaderInvariant, PTL

-----------------------------------------------------------------------------
(* The loader as efi_main sees it keeps the contract of elf_load_kernel. *)

Before == {"probe", "pool", "read", "open", "phdrs", "segments"}

LEMMA ResultBefore == LInv /\ pc \in Before => LoadResult = "none"
  BY DEF LInv, Stages, LoadResult, Before

LEMMA ResultAfter ==
    LInv /\ pc \in {"bootinfo", "refresh", "publish", "exit", "kernel"}
        => LoadResult = "success"
  BY DEF LInv, Stages, LoadResult, OpenFaults

(* A statement that neither ends nor furthers the loading. *)
LEMMA ContractFrame ==
    ASSUME UNCHANGED <<phdrs, loaded>>, LoadResult' = LoadResult
    PROVE  UNCHANGED Contract!loading
  BY LoadedSame DEF Contract!loading

LEMMA FailKeepsContract ==
    ASSUME LInv, pc \in Before, phdrs' = 0, loaded' = loaded,
           pc' = "fatal", fault' = "could not load kernel.elf"
    PROVE  Contract!Fail
  <1>1. LoadResult = "none" /\ LoadResult' = "error"
    BY ResultBefore DEF LoadResult
  <1> QED BY <1>1, LoadedSame DEF Contract!Fail

LEMMA StepKeepsContract ==
    ASSUME LInv, LInv', LoaderNext
    PROVE  Contract!Next \/ UNCHANGED Contract!loading
  <1>1. CASE ProbeMap \/ AllocateBuffer \/ FirstRead
    <2>1. pc \in Before /\ pc' \in Before /\ UNCHANGED <<phdrs, loaded>>
      BY <1>1 DEF ProbeMap, AllocateBuffer, FirstRead, ReadMap, Goto, Before
    <2>2. LoadResult' = LoadResult
      BY <2>1, ResultBefore DEF LoadResult, OpenFaults, LInv, Stages, Before
    <2> QED BY <2>1, <2>2, ContractFrame
  <1>2. CASE RefreshMap \/ AllocateBootInfo \/ PublishMap \/ ExitSucceeds
    <2>1. /\ pc \in {"bootinfo", "refresh", "publish", "exit"}
          /\ pc' \in {"refresh", "publish", "exit", "kernel"}
          /\ UNCHANGED <<phdrs, loaded, fault>>
      BY <1>2 DEF RefreshMap, AllocateBootInfo, PublishMap, ExitSucceeds, ReadMap, Goto
    <2>2. LoadResult' = LoadResult
      BY <2>1 DEF LoadResult, OpenFaults, LInv, Stages
    <2> QED BY <2>1, <2>2, ContractFrame
  <1>3. CASE ExitFails
    <2>1. /\ pc = "exit" /\ UNCHANGED <<phdrs, loaded>>
          /\ \/ pc' = "refresh" /\ fault' = fault
             \/ pc' = "fatal" /\ fault' = "ExitBootServices failed three times"
      BY <1>3 DEF ExitFails, Goto, fatal
    <2>2. LoadResult' = LoadResult
      BY <2>1 DEF LoadResult, OpenFaults, LInv, Stages
    <2> QED BY <2>1, <2>2, ContractFrame
  <1>4. CASE MapTooSmall
    <2>1. /\ UNCHANGED <<phdrs, loaded>> /\ pc' = "fatal"
          /\ \/ pc = "read" /\ fault' = "GetMemoryMap"
             \/ pc = "refresh" /\ fault' = "GetMemoryMap before exit"
      BY <1>4 DEF MapTooSmall, fatal
    <2>2. LoadResult' = LoadResult
      BY <2>1 DEF LoadResult, OpenFaults, LInv, Stages
    <2> QED BY <2>1, <2>2, ContractFrame
  <1>5. CASE OpenKernel
    <2>1. pc = "open" /\ phdrs = 0 /\ UNCHANGED <<phdrs, loaded>>
      BY <1>5 DEF OpenKernel, LInv, Stages
    <2>2. CASE pc' = "phdrs" /\ fault' = fault
      <3>1. LoadResult' = LoadResult
        BY <2>1, <2>2 DEF LoadResult, OpenFaults, LInv, Stages
      <3> QED BY <2>1, <3>1, ContractFrame
    <2>3. CASE pc' = "fatal" /\ fault' = "could not load kernel.elf"
      <3>1. Contract!Fail
        BY <2>1, <2>3, FailKeepsContract DEF Before
      <3> QED BY <3>1 DEF Contract!Next
    <2>4. CASE pc' = "fatal" /\ fault' \in OpenFaults
      <3>1. LoadResult = "none"
        BY <2>1, ResultBefore DEF Before
      <3>2. LoadResult' = "none"
        BY <2>4 DEF LoadResult, OpenFaults
      <3> QED BY <2>1, <3>1, <3>2, ContractFrame
    <2> QED BY <1>5, <2>2, <2>3, <2>4 DEF OpenKernel, Goto, fatal
  <1>6. CASE AllocateHeaders
    <2>1. pc = "phdrs" /\ pc' = "segments" /\ loaded' = loaded
      BY <1>6 DEF AllocateHeaders, Goto
    <2>2. phdrs = 0 /\ phdrs' # 0 /\ LoadResult = "none" /\ LoadResult' = "none"
      BY <2>1 DEF LoadResult, OpenFaults, LInv, Stages
    <2>3. Contract!TakeTable
      BY <2>1, <2>2, LoadedSame DEF Contract!TakeTable
    <2> QED BY <2>3 DEF Contract!Next
  <1>7. CASE LoadSegment
    <2>1. /\ pc = "segments" /\ loaded < Len(Segments) /\ loaded' = loaded + 1
          /\ UNCHANGED <<pc, fault, phdrs>>
      BY <1>7 DEF LoadSegment
    <2>2. phdrs # 0 /\ LoadResult = "none" /\ LoadResult' = "none"
      BY <2>1 DEF LoadResult, OpenFaults, LInv, Stages
    <2>3. loaded' <= Len(Segments) /\ (1 .. loaded) \subseteq 1 .. loaded'
      BY <2>1, SegmentFacts DEF LInv, LoaderTypeOK
    <2>4. LoadedPages \subseteq LoadedPages'
      BY <2>3, Zenon DEF LoadedPages
    <2>5. Contract!FinishSegment
      BY <2>1, <2>2, <2>3, <2>4 DEF Contract!FinishSegment, Contract!Working
    <2> QED BY <2>5 DEF Contract!Next
  <1>8. CASE LoadFails
    <2>1. Contract!Fail
      BY <1>8, FailKeepsContract DEF LoadFails, fatal, Before
    <2> QED BY <2>1 DEF Contract!Next
  <1>9. CASE FreeHeaders
    <2>1. /\ pc = "segments" /\ phdrs' = 0 /\ loaded = Len(Segments) /\ loaded' = loaded
      BY <1>9 DEF FreeHeaders
    <2>2. CASE pc' = "fatal" /\ fault' = "could not load kernel.elf"
      <3>1. Contract!Fail
        BY <2>1, <2>2, FailKeepsContract DEF Before
      <3> QED BY <3>1 DEF Contract!Next
    <2>3. CASE loaded # 0 /\ pc' = "bootinfo" /\ fault' = fault
      <3>1. phdrs # 0 /\ LoadResult = "none" /\ LoadResult' = "success"
        BY <2>1, <2>3 DEF LoadResult, OpenFaults, LInv, Stages
      <3>2. Len(Segments) > 0
        BY <2>1, <2>3, SegmentFacts
      <3>3. Contract!Succeed
        BY <2>1, <3>1, <3>2, LoadedSame DEF Contract!Succeed, Contract!Working
      <3> QED BY <3>3 DEF Contract!Next
    <2> QED BY <1>9, <2>2, <2>3 DEF FreeHeaders, Goto, fatal
  <1>10. CASE NoMemory
    <2>1. /\ UNCHANGED <<phdrs, loaded>> /\ pc' = "fatal"
          /\ \/ pc = "pool" /\ fault' = "GetMemoryMap"
             \/ pc = "phdrs" /\ fault' = "could not load kernel.elf"
             \/ pc = "bootinfo" /\ fault' = "AllocatePages(BootInfo)"
      BY <1>10, Zenon DEF NoMemory, fatal
    <2>2. CASE pc = "phdrs" /\ fault' = "could not load kernel.elf"
      <3>1. phdrs = 0
        BY <2>2 DEF LInv, Stages
      <3>2. Contract!Fail
        BY <2>1, <2>2, <3>1, FailKeepsContract DEF Before
      <3> QED BY <3>2 DEF Contract!Next
    <2>3. CASE pc # "phdrs"
      <3>1. LoadResult' = LoadResult
        BY <2>1, <2>3 DEF LoadResult, OpenFaults, LInv, Stages
      <3> QED BY <2>1, <3>1, ContractFrame
    <2> QED BY <2>1, <2>2, <2>3
  <1>11. CASE ProbeFails
    <2>1. /\ UNCHANGED <<phdrs, loaded>>
          /\ pc = "probe" /\ fault' = "GetMemoryMap"
      BY <1>11 DEF ProbeFails, fatal
    <2>2. LoadResult' = LoadResult
      BY <2>1, ResultBefore DEF LoadResult, Before
    <2> QED BY <2>1, <2>2, ContractFrame
  <1>12. CASE FirmwareEvent \/ Stopped
    <2>1. UNCHANGED <<pc, fault, phdrs, loaded>>
      BY <1>12 DEF FirmwareEvent, Stopped, loader, loaderVars
    <2>2. LoadResult' = LoadResult
      BY <2>1 DEF LoadResult
    <2> QED BY <2>1, <2>2, ContractFrame
  <1> QED BY <1>1, <1>2, <1>3, <1>4, <1>5, <1>6, <1>7, <1>8, <1>9, <1>10, <1>11,
         <1>12
      DEF LoaderNext, LoaderStep

(* efi_main sees a kernel loaded whole or an error, and the header table gone
   with either (main.c:452-461), as elf_load_kernel promises. *)
THEOREM LoaderKeepsContract == LoaderSpec => KeepsContract
  <1>1. LoaderInit => Contract!Init
    <2> SUFFICES ASSUME LoaderInit PROVE Contract!Init
      OBVIOUS
    <2>1. pc = "probe" /\ fault = "none" /\ phdrs = 0 /\ loaded = 0
      BY DEF LoaderInit
    <2>2. LoadedPages = {}
      <3>1. 1 .. 0 = {}
        OBVIOUS
      <3> QED BY <2>1, <3>1, Zenon DEF LoadedPages
    <2>3. LoadResult = "none"
      BY <2>1 DEF LoadResult
    <2> QED BY <2>1, <2>2, <2>3, SegmentFacts DEF Contract!Init
  <1>2. LInv /\ LInv' /\ [LoaderNext]_loaderVars => [Contract!Next]_(Contract!loading)
    <2> SUFFICES ASSUME LInv, LInv', [LoaderNext]_loaderVars
                 PROVE  Contract!Next \/ UNCHANGED Contract!loading
      OBVIOUS
    <2>1. CASE UNCHANGED loaderVars
      <3>1. UNCHANGED <<pc, fault, phdrs, loaded>>
        BY <2>1 DEF loaderVars, loader
      <3>2. LoadResult' = LoadResult
        BY <3>1 DEF LoadResult
      <3> QED BY <3>1, <3>2, ContractFrame
    <2> QED BY <2>1, StepKeepsContract
  <1> QED BY <1>1, <1>2, LoaderInvariant, PTL DEF LoaderSpec, KeepsContract, Contract!Spec

-----------------------------------------------------------------------------
(* The size of the map.  A run that begins now and did not at the probe begins
   at a page that has changed since, or right after one. *)

FirstsOf(pages) == {p \in pages : p - 1 \notin pages}
LastsOf(pages) == {p \in pages : p + 1 \notin pages}
After(pages) == {p + 1 : p \in pages}

(* Two maps of one machine that agree but for the pages in changed and for
   those in kept, which are now of one type. *)
LEMMA NewStarts ==
    ASSUME NEW t, NEW u, NEW kept, NEW changed, NEW type,
           Machine(t), Machine(u), DOMAIN u = DOMAIN t,
           kept \subseteq DOMAIN t,
           \A p \in kept : u[p] = type,
           \A p \in DOMAIN t : p \notin kept \cup changed => u[p] = t[p]
    PROVE  RunStarts(u) \subseteq
              RunStarts(t) \cup FirstsOf(kept) \cup After(LastsOf(kept))
              \cup changed \cup After(changed)
  <1> SUFFICES ASSUME NEW p \in RunStarts(u),
                      p \notin FirstsOf(kept), p \notin After(LastsOf(kept)),
                      p \notin changed, p \notin After(changed)
               PROVE  p \in RunStarts(t)
    OBVIOUS
  <1>1. p \in DOMAIN t /\ u[p] # "hole" /\ (p - 1 \in DOMAIN t => u[p - 1] # u[p])
    BY DEF RunStarts
  <1>2. p \in Nat
    BY <1>1, FS_CardinalityType DEF Machine
  <1>3. \A q : q = p - 1 => p = q + 1
    BY <1>2
  <1>4. p - 1 \notin changed
    BY <1>3 DEF After
  <1>5. p \notin kept
    <2> SUFFICES ASSUME p \in kept PROVE FALSE
      OBVIOUS
    <2>1. p - 1 \in kept
      BY DEF FirstsOf
    <2> QED BY <1>1, <2>1
  <1>6. p - 1 \notin kept
    <2> SUFFICES ASSUME p - 1 \in kept PROVE FALSE
      OBVIOUS
    <2>1. (p - 1) + 1 = p
      BY <1>2
    <2>2. p - 1 \in LastsOf(kept)
      BY <1>5, <2>1 DEF LastsOf
    <2> QED BY <1>3, <2>2 DEF After
  <1>7. u[p] = t[p] /\ (p - 1 \in DOMAIN t => u[p - 1] = t[p - 1])
    BY <1>1, <1>4, <1>5, <1>6
  <1> QED BY <1>1, <1>7 DEF RunStarts

(* As many pages follow some pages as there are. *)
LEMMA AfterCount ==
    ASSUME NEW S, IsFiniteSet(S)
    PROVE  IsFiniteSet(After(S)) /\ Cardinality(After(S)) <= Cardinality(S)
  <1> DEFINE next == [p \in S |-> p + 1]
  <1>1. next \in [S -> After(S)]
    BY DEF After
  <1>2. \A q \in After(S) : \E p \in S : next[p] = q
    BY DEF After
  <1>3. next \in Surjection(S, After(S))
    BY <1>1, <1>2 DEF Surjection
  <1> HIDE DEF next
  <1> QED BY <1>3, FS_Surjection

LEMMA UnionCount ==
    ASSUME NEW S, NEW T, IsFiniteSet(S), IsFiniteSet(T)
    PROVE  /\ IsFiniteSet(S \cup T)
           /\ Cardinality(S \cup T) \in Nat
           /\ Cardinality(S) \in Nat /\ Cardinality(T) \in Nat
           /\ Cardinality(S \cup T) <= Cardinality(S) + Cardinality(T)
  <1>1. IsFiniteSet(S \cup T) /\ IsFiniteSet(S \cap T)
    BY FS_Union, FS_Intersection
  <1>2. /\ Cardinality(S) \in Nat /\ Cardinality(T) \in Nat
        /\ Cardinality(S \cap T) \in Nat /\ Cardinality(S \cup T) \in Nat
    BY <1>1, FS_CardinalityType
  <1>3. Cardinality(S \cup T) = Cardinality(S) + Cardinality(T) - Cardinality(S \cap T)
    BY FS_Union
  <1> QED BY <1>1, <1>2, <1>3

(* So the map grows by the borders of the pages kept and by two descriptors
   for each other page that changed, at most. *)
LEMMA MapGrowth ==
    ASSUME NEW t, NEW u, NEW kept, NEW changed, NEW type,
           Machine(t), Machine(u), DOMAIN u = DOMAIN t,
           kept \subseteq DOMAIN t, changed \subseteq DOMAIN t,
           \A p \in kept : u[p] = type,
           \A p \in DOMAIN t : p \notin kept \cup changed => u[p] = t[p]
    PROVE  /\ MapLength(u) <= MapLength(t) + (Borders(kept) + 2 * Cardinality(changed))
           /\ Borders(kept) \in Nat /\ Cardinality(changed) \in Nat
  <1> DEFINE F == FirstsOf(kept)
             L == LastsOf(kept)
             A == RunStarts(t) \cup F
             B == A \cup After(L)
             C == B \cup changed
             D == C \cup After(changed)
  <1>1. IsFiniteSet(DOMAIN t)
    BY DEF Machine
  <1>2. IsFiniteSet(RunStarts(t))
    BY <1>1, FS_Subset DEF RunStarts
  <1>3. IsFiniteSet(kept) /\ IsFiniteSet(changed)
    BY <1>1, FS_Subset
  <1>4. IsFiniteSet(F) /\ IsFiniteSet(L)
    BY <1>3, FS_Subset DEF FirstsOf, LastsOf
  <1>5. RunStarts(u) \subseteq D
    BY NewStarts
  <1>6. /\ IsFiniteSet(After(L)) /\ Cardinality(After(L)) <= Cardinality(L)
        /\ IsFiniteSet(After(changed)) /\ Cardinality(After(changed)) <= Cardinality(changed)
    BY <1>3, <1>4, AfterCount
  <1>7. Borders(kept) = Cardinality(F) + Cardinality(L)
    BY DEF Borders, FirstsOf, LastsOf
  <1> HIDE DEF F, L
  <1>8. /\ IsFiniteSet(A) /\ Cardinality(A) \in Nat
        /\ Cardinality(A) <= Cardinality(RunStarts(t)) + Cardinality(F)
        /\ Cardinality(RunStarts(t)) \in Nat /\ Cardinality(F) \in Nat
    BY <1>2, <1>4, UnionCount
  <1> HIDE DEF A
  <1>9. /\ IsFiniteSet(B) /\ Cardinality(B) \in Nat /\ Cardinality(After(L)) \in Nat
        /\ Cardinality(B) <= Cardinality(A) + Cardinality(After(L))
    BY <1>6, <1>8, UnionCount
  <1> HIDE DEF B
  <1>10. /\ IsFiniteSet(C) /\ Cardinality(C) \in Nat /\ Cardinality(changed) \in Nat
         /\ Cardinality(C) <= Cardinality(B) + Cardinality(changed)
    BY <1>3, <1>9, UnionCount
  <1> HIDE DEF C
  <1>11. /\ IsFiniteSet(D) /\ Cardinality(D) \in Nat /\ Cardinality(After(changed)) \in Nat
         /\ Cardinality(D) <= Cardinality(C) + Cardinality(After(changed))
    BY <1>6, <1>10, UnionCount
  <1> HIDE DEF D
  <1>12. Cardinality(RunStarts(u)) \in Nat /\ Cardinality(RunStarts(u)) <= Cardinality(D)
    BY <1>5, <1>11, FS_Subset, FS_CardinalityType
  <1>13. Cardinality(L) \in Nat
    BY <1>4, FS_CardinalityType
  <1>14. Cardinality(RunStarts(u)) <= Cardinality(RunStarts(t))
              + (Borders(kept) + 2 * Cardinality(changed))
    BY <1>6, <1>7, <1>8, <1>9, <1>10, <1>11, <1>12, <1>13
  <1>15. Borders(kept) \in Nat
    BY <1>7, <1>8, <1>13
  <1> QED BY <1>10, <1>14, <1>15 DEF MapLength

-----------------------------------------------------------------------------
(* What has changed since the probe. *)

InUse == Kept \cup noise

(* Every page that is in use was free at the probe, unless an event held it
   then; every other page is what it was, with the same exception. *)
SinceProbe ==
    /\ Machine(probed.types) /\ DOMAIN probed.types = DOMAIN types
    /\ \A p \in probed.noise : p \in DOMAIN types /\ probed.types[p] = "bsData"
    /\ \A p \in DOMAIN types : p \notin probed.noise =>
          probed.types[p] = IF p \in InUse THEN "conventional" ELSE types[p]

(* The buffer has the room the probe asked for and the slack, and only a map
   that is larger is fatal. *)
SlackInv ==
    /\ SinceProbe
    /\ pc \notin {"probe", "fatal"} \/ mm.page # 0 =>
          mm.capacity = MapLength(probed.types) + Slack
    /\ mm.page # 0 /\ fault \in {"GetMemoryMap", "GetMemoryMap before exit"} => ~ MapFits

(* A page is taken when it is free and free when it is given back. *)
LEMMA SinceProbeMoves ==
    ASSUME SinceProbe, UNCHANGED probed, Machine(types'), DOMAIN types' = DOMAIN types,
           \A p \in DOMAIN types :
              \/ types'[p] = types[p] /\ (p \in InUse' <=> p \in InUse)
              \/ p \notin InUse /\ p \in InUse' /\ types[p] = "conventional"
              \/ p \in InUse /\ p \notin InUse' /\ types'[p] = "conventional"
    PROVE  SinceProbe'
  <1>1. ASSUME NEW p \in DOMAIN types, p \notin probed.noise
        PROVE  probed.types[p] = IF p \in InUse' THEN "conventional" ELSE types'[p]
    BY <1>1 DEF SinceProbe
  <1> QED BY <1>1 DEF SinceProbe

(* Pages are taken: free ones, or a page that another pool allocation has. *)
LEMMA TakesPages ==
    ASSUME LInv, SinceProbe, UNCHANGED <<probed, noise>>,
           NEW pages, Machine(types'), DOMAIN types' = DOMAIN types,
           Kept' = Kept \cup pages,
           \A p \in pages : /\ types'[p] = "loaderData"
                            /\ p \in Kept \/ types[p] = "conventional",
           \A p \in DOMAIN types : p \notin pages => types'[p] = types[p]
    PROVE  SinceProbe'
  <1>1. \A p \in Kept : types[p] = "loaderData"
    BY DEF LInv, Owners
  <1>2. \A p \in noise : types[p] = "bsData"
    BY DEF LInv, Owners
  <1>3. \A p : p \in InUse' <=> p \in InUse \/ p \in pages
    BY DEF InUse
  <1>4. ASSUME NEW p \in DOMAIN types
        PROVE  \/ types'[p] = types[p] /\ (p \in InUse' <=> p \in InUse)
               \/ p \notin InUse /\ p \in InUse' /\ types[p] = "conventional"
    <2>1. CASE p \notin pages
      BY <2>1, <1>3
    <2>2. CASE p \in pages /\ p \in Kept
      BY <2>2, <1>1, <1>3 DEF InUse
    <2>3. CASE p \in pages /\ types[p] = "conventional"
      <3>1. p \notin InUse
        BY <2>3, <1>1, <1>2 DEF InUse
      <3> QED BY <2>3, <3>1, <1>3
    <2> QED BY <2>1, <2>2, <2>3
  <1> QED BY <1>4, SinceProbeMoves

LEMMA PoolTakes ==
    ASSUME LInv, SinceProbe, NEW page \in DOMAIN types, AllocatePool(page),
           Kept' = Kept \cup {page}, UNCHANGED probed
    PROVE  SinceProbe'
  <1>1. page \in Kept \/ types[page] = "conventional"
    <2>1. CASE page \in AnyPage
      BY <2>1 DEF AnyPage, FreePages
    <2>2. CASE pool[page] > 0
      <3>1. pool[page] = IF page = 0 THEN 0 ELSE PoolUses(page)
        BY DEF LInv, Owners
      <3>2. page # 0 /\ page \in {mm.page, phdrs}
        BY <2>2, <3>1 DEF PoolUses
      <3> QED BY <3>2 DEF Kept
    <2> QED BY <2>1, <2>2 DEF AllocatePool
  <1> DEFINE pages == {page}
  <1>2. \A p : p \in pages <=> p = page
    OBVIOUS
  <1>3. Kept' = Kept \cup pages
    OBVIOUS
  <1> HIDE DEF pages
  <1>4. /\ Machine(types') /\ DOMAIN types' = DOMAIN types /\ noise' = noise
        /\ \A p \in pages : /\ types'[p] = "loaderData"
                            /\ p \in Kept \/ types[p] = "conventional"
        /\ \A p \in DOMAIN types : p \notin pages => types'[p] = types[p]
    BY <1>1, <1>2, AllocatePoolFacts
  <1> QED BY <1>3, <1>4, TakesPages

LEMMA PagesTaken ==
    ASSUME LInv, SinceProbe, NEW pages, AllocatePages(pages),
           Kept' = Kept \cup pages, UNCHANGED probed
    PROVE  SinceProbe'
  <1>1. \A p \in pages : types[p] = "conventional"
    BY DEF AllocatePages, FreePages
  <1>2. /\ Machine(types') /\ DOMAIN types' = DOMAIN types /\ noise' = noise
        /\ \A p \in pages : types'[p] = "loaderData"
        /\ \A p \in DOMAIN types : p \notin pages => types'[p] = types[p]
    BY AllocatePagesFacts
  <1> QED BY <1>1, <1>2, TakesPages

(* What the steps that leave the probe behind have in common. *)
LEMMA SlackKept ==
    ASSUME SlackInv, SinceProbe', UNCHANGED probed, pc \notin {"probe", "fatal"},
           mm'.capacity = mm.capacity,
           \/ fault' \notin {"GetMemoryMap", "GetMemoryMap before exit"}
           \/ mm'.page = 0
           \/ ~ MapFits'
    PROVE  SlackInv'
  BY DEF SlackInv

LEMMA SlackFrame ==
    ASSUME SlackInv, UNCHANGED <<types, noise, phdrs, bi_page, loaded, probed>>,
           mm'.page = mm.page, mm'.capacity = mm.capacity, pc \notin {"probe", "fatal"},
           \/ fault' = fault
           \/ fault' \notin {"GetMemoryMap", "GetMemoryMap before exit"}
           \/ mm.page = 0
           \/ ~ MapFits
    PROVE  SlackInv'
  <1>1. Kept' = Kept /\ InUse' = InUse
    BY LoadedSame DEF Kept, InUse
  <1>2. SinceProbe'
    BY <1>1, Zenon DEF SlackInv, SinceProbe
  <1>3. MapFits' <=> MapFits
    BY Zenon DEF MapFits
  <1> QED BY <1>2, <1>3, SlackKept DEF SlackInv

LEMMA NotYetFault ==
    ASSUME LInv, pc # "fatal"
    PROVE  fault = "none"
  BY DEF LInv, Stages

LEMMA ProbeSlack == LInv /\ SlackInv /\ ProbeMap => SlackInv'
  <1> SUFFICES ASSUME LInv, SlackInv, ProbeMap PROVE SlackInv'
    OBVIOUS
  <1>1. /\ pc = "probe" /\ pc' = "pool" /\ fault' = fault
        /\ mm' = [mm EXCEPT !.capacity = MapLength(types) + Slack]
        /\ probed' = [types |-> types, noise |-> noise]
        /\ UNCHANGED <<types, noise, phdrs, loaded, bi_page>>
    BY DEF ProbeMap, Goto, firmware
  <1>2. mm.page = 0 /\ phdrs = 0 /\ loaded = 0 /\ bi_page = 0 /\ fault = "none"
    BY <1>1 DEF LInv, Stages
  <1>3. mm'.page = mm.page /\ mm'.capacity = MapLength(types) + Slack
    BY <1>1 DEF LInv, LoaderTypeOK
  <1>4. Kept' = {}
    <2>1. 1 .. 0 = {}
      OBVIOUS
    <2>2. LoadedPages' = {}
      BY <1>1, <1>2, <2>1, Zenon DEF LoadedPages
    <2> QED BY <1>1, <1>2, <1>3, <2>2 DEF Kept
  <1>5. probed'.types = types /\ probed'.noise = noise
    BY <1>1
  <1>6. SinceProbe'
    <2>1. Machine(types) /\ \A p \in noise : p \in DOMAIN types /\ types[p] = "bsData"
      BY DEF LInv, LoaderTypeOK, Owners
    <2>2. InUse' = noise
      BY <1>1, <1>4 DEF InUse
    <2> QED BY <1>1, <1>5, <2>1, <2>2 DEF SinceProbe
  <1> QED BY <1>1, <1>2, <1>3, <1>5, <1>6 DEF SlackInv

LEMMA ProbeFailsSlack == LInv /\ SlackInv /\ ProbeFails => SlackInv'
  <1> SUFFICES ASSUME LInv, SlackInv, ProbeFails PROVE SlackInv'
    OBVIOUS
  <1>1. /\ pc = "probe" /\ pc' = "fatal"
        /\ UNCHANGED <<types, noise, mm, phdrs, loaded, bi_page, probed>>
    BY DEF ProbeFails, fatal, firmware, ghosts
  <1>2. mm.page = 0
    BY <1>1 DEF LInv, Stages
  <1>3. Kept' = Kept /\ InUse' = InUse
    BY <1>1, LoadedSame DEF Kept, InUse
  <1>4. SinceProbe'
    BY <1>1, <1>3, Zenon DEF SlackInv, SinceProbe
  <1> QED BY <1>1, <1>2, <1>4 DEF SlackInv

LEMMA AllocateBufferSlack == LInv /\ SlackInv /\ AllocateBuffer => SlackInv'
  <1> SUFFICES ASSUME LInv, SlackInv, AllocateBuffer PROVE SlackInv'
    OBVIOUS
  <1>1. PICK page \in DOMAIN types :
              AllocatePool(page) /\ mm' = [mm EXCEPT !.page = page]
    BY DEF AllocateBuffer
  <1>2. /\ pc = "pool" /\ fault' = fault
        /\ UNCHANGED <<phdrs, loaded, bi_page, probed>>
    BY DEF AllocateBuffer, Goto, ghosts
  <1>3. mm.page = 0 /\ fault = "none"
    BY <1>2 DEF LInv, Stages
  <1>4. mm'.page = page /\ mm'.capacity = mm.capacity /\ page # 0
    BY <1>1, AllocatePoolFacts DEF LInv, LoaderTypeOK
  <1>5. Kept' = Kept \cup {page}
    BY <1>2, <1>3, <1>4, LoadedSame DEF Kept
  <1>6. SinceProbe'
    BY <1>1, <1>2, <1>5, PoolTakes DEF SlackInv
  <1> QED BY <1>2, <1>3, <1>4, <1>6, SlackKept

LEMMA AllocateHeadersSlack == LInv /\ SlackInv /\ AllocateHeaders => SlackInv'
  <1> SUFFICES ASSUME LInv, SlackInv, AllocateHeaders PROVE SlackInv'
    OBVIOUS
  <1>1. PICK page \in DOMAIN types : AllocatePool(page) /\ phdrs' = page
    BY DEF AllocateHeaders
  <1>2. /\ pc = "phdrs" /\ fault' = fault
        /\ UNCHANGED <<mm, loaded, bi_page, probed>>
    BY DEF AllocateHeaders, Goto, ghosts
  <1>3. phdrs = 0 /\ fault = "none"
    BY <1>2 DEF LInv, Stages
  <1>4. page # 0
    BY <1>1, AllocatePoolFacts
  <1>5. Kept' = Kept \cup {page}
    BY <1>1, <1>2, <1>3, <1>4, LoadedSame DEF Kept
  <1>6. SinceProbe'
    BY <1>1, <1>2, <1>5, PoolTakes DEF SlackInv
  <1> QED BY <1>2, <1>3, <1>6, SlackKept

LEMMA LoadSegmentSlack == LInv /\ SlackInv /\ LoadSegment => SlackInv'
  <1> SUFFICES ASSUME LInv, SlackInv, LoadSegment PROVE SlackInv'
    OBVIOUS
  <1> DEFINE pages == SegmentPages(Segments[loaded + 1])
  <1>1. /\ pc = "segments" /\ AllocatePages(pages)
        /\ loaded < Len(Segments) /\ loaded' = loaded + 1
        /\ UNCHANGED <<pc, fault, mm, phdrs, bi_page, probed>>
    BY DEF LoadSegment, ghosts
  <1>2. LoadedPages' = LoadedPages \cup pages
    <2>1. loaded \in Nat
      BY SegmentFacts DEF LInv, LoaderTypeOK
    <2>2. 1 .. loaded' = (1 .. loaded) \cup {loaded + 1}
      BY <1>1, <2>1
    <2> QED BY <2>2, Zenon DEF LoadedPages
  <1>3. 0 \notin pages
    <2>1. loaded + 1 \in DOMAIN Segments
      BY <1>1, SegmentFacts DEF LInv, LoaderTypeOK
    <2>2. Segments[loaded + 1].start \in Nat \ {0}
      BY <2>1, SegmentFacts
    <2> QED BY <2>2 DEF SegmentPages
  <1> HIDE DEF pages
  <1>4. Kept' = Kept \cup pages
    BY <1>1, <1>2 DEF Kept
  <1>5. SinceProbe'
    BY <1>1, <1>4, PagesTaken DEF SlackInv
  <1>6. fault = "none"
    BY <1>1, NotYetFault
  <1> QED BY <1>1, <1>5, <1>6, SlackKept

LEMMA AllocateBootInfoSlack == LInv /\ SlackInv /\ AllocateBootInfo => SlackInv'
  <1> SUFFICES ASSUME LInv, SlackInv, AllocateBootInfo PROVE SlackInv'
    OBVIOUS
  <1>1. PICK page \in AnyPage : AllocatePages({page}) /\ bi_page' = page
    BY DEF AllocateBootInfo
  <1>2. /\ pc = "bootinfo" /\ fault' = fault
        /\ UNCHANGED <<mm, phdrs, loaded, probed>>
    BY DEF AllocateBootInfo, Goto, ghosts
  <1>3. bi_page = 0 /\ fault = "none"
    BY <1>2 DEF LInv, Stages
  <1>4. page # 0
    BY MachineAssumption DEF AnyPage
  <1> DEFINE pages == {page}
  <1>5. Kept' = Kept \cup pages
    BY <1>1, <1>2, <1>3, <1>4, LoadedSame DEF Kept
  <1>6. AllocatePages(pages)
    BY <1>1
  <1> HIDE DEF pages
  <1>7. SinceProbe'
    BY <1>2, <1>5, <1>6, PagesTaken DEF SlackInv
  <1> QED BY <1>2, <1>3, <1>7, SlackKept

(* The headers go back: their page is free again unless the map is in it. *)
LEMMA HeadersGoSlack ==
    ASSUME LInv, SlackInv, pc = "segments", FreePool(phdrs), phdrs' = 0,
           fault' = fault \/ fault' = "could not load kernel.elf",
           UNCHANGED <<mm, loaded, bi_page, probed>>
    PROVE  SlackInv'
  <1>1. /\ bi_page = 0 /\ mm.page # 0 /\ fault = "none"
        /\ phdrs \notin LoadedPages /\ LoadedPages' = LoadedPages
    BY LoadedSame DEF LInv, Stages, Owners
  <1>2. /\ Machine(types') /\ DOMAIN types' = DOMAIN types
        /\ phdrs \in DOMAIN types /\ phdrs # 0
        /\ \A p \in DOMAIN types : p # phdrs \/ p = mm.page => types'[p] = types[p]
        /\ phdrs # mm.page => types'[phdrs] = "conventional"
        /\ noise' = noise
    BY FreePoolFacts
  <1>3. Kept = LoadedPages \cup {mm.page, phdrs} /\ Kept' = LoadedPages \cup {mm.page}
    <2>1. 0 \notin LoadedPages
      BY LoadedPositive DEF LInv, LoaderTypeOK
    <2> QED BY <1>1, <1>2, <2>1 DEF Kept
  <1>4. phdrs \notin noise
    BY <1>3, KeptFacts DEF LInv
  <1>5. SinceProbe'
    <2>1. ASSUME NEW p \in DOMAIN types
          PROVE  \/ types'[p] = types[p] /\ (p \in InUse' <=> p \in InUse)
                 \/ p \in InUse /\ p \notin InUse' /\ types'[p] = "conventional"
      <3>1. CASE p # phdrs \/ p = mm.page
        BY <1>2, <1>3, <3>1 DEF InUse
      <3>2. CASE p = phdrs /\ p # mm.page
        BY <1>1, <1>2, <1>3, <1>4, <3>2 DEF InUse
      <3> QED BY <3>1, <3>2
    <2> QED BY <1>2, <2>1, SinceProbeMoves DEF SlackInv
  <1> QED BY <1>1, <1>5, SlackKept

LEMMA LoadFailsSlack == LInv /\ SlackInv /\ LoadFails => SlackInv'
  BY HeadersGoSlack DEF LoadFails, fatal, ghosts

LEMMA FreeHeadersSlack == LInv /\ SlackInv /\ FreeHeaders => SlackInv'
  BY HeadersGoSlack DEF FreeHeaders, fatal, Goto, ghosts

LEMMA EventSlack == LInv /\ SlackInv /\ FirmwareEvent => SlackInv'
  <1> SUFFICES ASSUME LInv, SlackInv, FirmwareEvent PROVE SlackInv'
    OBVIOUS
  <1>1. /\ pc \notin {"probe", "fatal"}
        /\ UNCHANGED <<pc, fault, mm, phdrs, loaded, bi_page, probed>>
    BY DEF FirmwareEvent, loader
  <1>2. Machine(types') /\ DOMAIN types' = DOMAIN types
    <2>1. LInv'
      BY EventLInv
    <2>2. DOMAIN types' = DOMAIN types
      BY DEF FirmwareEvent, Event, EventAllocates, EventFrees, SetType
    <2> QED BY <2>1, <2>2 DEF LInv, LoaderTypeOK
  <1>3. Kept' = Kept
    BY <1>1, LoadedSame DEF Kept
  <1>4. \A p \in Kept : types[p] = "loaderData"
    BY DEF LInv, Owners
  <1>5. \A p \in noise : p \in DOMAIN types /\ types[p] = "bsData"
    BY DEF LInv, LoaderTypeOK, Owners
  <1>6. SinceProbe'
    <2>1. CASE EventAllocates
      <3>1. PICK p \in AnyPage : SetType({p}, "bsData") /\ noise' = noise \cup {p}
        BY <2>1 DEF EventAllocates
      <3>2. /\ p \in DOMAIN types /\ types[p] = "conventional"
            /\ \A q \in DOMAIN types : q # p => types'[q] = types[q]
        BY <3>1 DEF AnyPage, FreePages, SetType
      <3>3. /\ p \notin InUse /\ p \in InUse'
            /\ \A q : q # p => (q \in InUse' <=> q \in InUse)
        BY <1>3, <1>4, <1>5, <3>1, <3>2 DEF InUse
      <3> QED BY <1>1, <1>2, <3>2, <3>3, SinceProbeMoves DEF SlackInv
    <2>2. CASE EventFrees
      <3>1. PICK p \in noise : SetType({p}, "conventional") /\ noise' = noise \ {p}
        BY <2>2 DEF EventFrees
      <3>2. /\ p \in DOMAIN types /\ types'[p] = "conventional" /\ p \notin Kept
            /\ \A q \in DOMAIN types : q # p => types'[q] = types[q]
        BY <1>4, <1>5, <3>1 DEF SetType
      <3>3. /\ p \in InUse /\ p \notin InUse'
            /\ \A q : q # p => (q \in InUse' <=> q \in InUse)
        BY <1>3, <3>1, <3>2 DEF InUse
      <3> QED BY <1>1, <1>2, <3>2, <3>3, SinceProbeMoves DEF SlackInv
    <2> QED BY <2>1, <2>2 DEF FirmwareEvent, Event
  <1>7. fault = "none"
    BY <1>1, NotYetFault
  <1> QED BY <1>1, <1>6, <1>7, SlackKept

LEMMA QuietSlack ==
    ASSUME LInv, SlackInv,
           FirstRead \/ RefreshMap \/ MapTooSmall \/ OpenKernel \/ NoMemory
           \/ PublishMap \/ ExitSucceeds \/ ExitFails
    PROVE  SlackInv'
  <1>1. CASE FirstRead \/ RefreshMap \/ MapTooSmall
    <2>1. /\ pc \notin {"probe", "fatal"} /\ mm' = [mm EXCEPT !.size = MapLength(types)]
          /\ fault' = fault \/ ~ MapFits
          /\ UNCHANGED <<types, noise, phdrs, bi_page, loaded, probed>>
      BY <1>1, Zenon DEF FirstRead, RefreshMap, MapTooSmall, ReadMap, GetMemoryMap, Goto, fatal,
                  firmware, ghosts
    <2>2. mm'.page = mm.page /\ mm'.capacity = mm.capacity
      BY <2>1 DEF LInv, LoaderTypeOK
    <2> QED BY <2>1, <2>2, SlackFrame
  <1>2. CASE NoMemory
    <2>1. /\ pc \notin {"probe", "fatal"} /\ UNCHANGED <<types, noise, phdrs, bi_page, loaded, probed, mm>>
          /\ pc = "pool" \/ fault' \notin {"GetMemoryMap", "GetMemoryMap before exit"}
      BY <1>2 DEF NoMemory, fatal, firmware, ghosts
    <2>2. pc = "pool" => mm.page = 0
      BY DEF LInv, Stages
    <2> QED BY <2>1, <2>2, SlackFrame
  <1>3. CASE OpenKernel \/ PublishMap \/ ExitSucceeds \/ ExitFails
    <2>1. /\ pc \notin {"probe", "fatal"} /\ UNCHANGED <<types, noise, phdrs, bi_page, loaded, probed, mm>>
          /\ fault' = fault \/ fault' \notin {"GetMemoryMap", "GetMemoryMap before exit"}
      BY <1>3 DEF OpenKernel, OpenFaults, PublishMap, ExitSucceeds, ExitFails,
                  ExitBootServices, Goto, fatal, firmware, ghosts
    <2> QED BY <2>1, SlackFrame
  <1> QED BY <1>1, <1>2, <1>3

LEMMA StutterSlack == LInv /\ SlackInv /\ UNCHANGED loaderVars => SlackInv'
  <1> SUFFICES ASSUME LInv, SlackInv, UNCHANGED loaderVars PROVE SlackInv'
    OBVIOUS
  <1>1. UNCHANGED <<types, noise, pc, fault, mm, phdrs, loaded, bi_page, probed>>
    BY DEF loaderVars, firmware, loader, ghosts
  <1>2. Kept' = Kept /\ InUse' = InUse
    BY <1>1, LoadedSame DEF Kept, InUse
  <1> QED BY <1>1, <1>2, Zenon DEF SlackInv, SinceProbe, MapFits

LEMMA StepSlack == LInv /\ SlackInv /\ [LoaderNext]_loaderVars => SlackInv'
  BY ProbeSlack, ProbeFailsSlack, AllocateBufferSlack, AllocateHeadersSlack, LoadSegmentSlack,
     LoadFailsSlack, FreeHeadersSlack, AllocateBootInfoSlack, EventSlack, QuietSlack,
     StutterSlack, Zenon
  DEF LoaderNext, LoaderStep, Stopped

LEMMA InitSlack == LoaderInit => SlackInv
  <1> SUFFICES ASSUME LoaderInit PROVE SlackInv
    OBVIOUS
  <1>1. /\ pc = "probe" /\ fault = "none" /\ mm.page = 0 /\ phdrs = 0 /\ loaded = 0
        /\ bi_page = 0 /\ probed = [types |-> types, noise |-> noise]
        /\ noise = {p \in DOMAIN types : types[p] = "bsData"}
    BY DEF LoaderInit, FirmwareInit
  <1>2. Machine(types)
    BY InitLInv DEF LInv, LoaderTypeOK
  <1>3. Kept = {}
    <2>1. 1 .. 0 = {}
      OBVIOUS
    <2>2. LoadedPages = {}
      BY <1>1, <2>1, Zenon DEF LoadedPages
    <2> QED BY <1>1, <2>2 DEF Kept
  <1> QED BY <1>1, <1>2, <1>3 DEF SlackInv, SinceProbe, InUse

(* The buffer has the room its probe asked for and the slack, whatever has
   happened since, and what has is what the pages in use say. *)
THEOREM SlackInvariant == LoaderSpec => [](LInv /\ SlackInv)
  BY InitLInv, InitSlack, StepLInv, StepSlack, PTL DEF LoaderSpec

LEMMA Outgrown ==
    ASSUME NEW now \in Nat, NEW before \in Nat, NEW room \in Nat, NEW slack \in Nat,
           NEW borders \in Nat, NEW events \in Nat,
           ~ (now <= room), room = before + slack, now <= before + (borders + 2 * events)
    PROVE  borders + 2 * events > slack
  OBVIOUS

LEMMA OutgrownByBorders ==
    ASSUME LInv, SlackInv
    PROVE  SlackSuffices
  <1> SUFFICES ASSUME mm.page # 0, fault \in {"GetMemoryMap", "GetMemoryMap before exit"}
               PROVE  Borders(Kept) + 2 * Cardinality(EventPages) > Slack
    BY DEF SlackSuffices
  <1>1. Machine(probed.types) /\ Machine(types) /\ DOMAIN types = DOMAIN probed.types
    BY DEF LInv, LoaderTypeOK, SlackInv, SinceProbe
  <1>2. ~ MapFits /\ mm.capacity = MapLength(probed.types) + Slack
    BY DEF SlackInv, LInv, Stages
  <1>3. Kept \subseteq DOMAIN types /\ \A p \in Kept : types[p] = "loaderData"
    BY DEF LInv, Owners
  <1>4. EventPages \subseteq DOMAIN types
    BY DEF EventPages, LInv, LoaderTypeOK, SlackInv, SinceProbe
  <1>5. ASSUME NEW p \in DOMAIN types, p \notin Kept \cup EventPages
        PROVE  types[p] = probed.types[p]
    <2>1. CASE p \in noise
      BY <1>5, <2>1 DEF EventPages, LInv, Owners, SlackInv, SinceProbe
    <2>2. CASE p \notin noise
      BY <1>5, <2>2 DEF EventPages, InUse, SlackInv, SinceProbe
    <2> QED BY <2>1, <2>2
  <1>6. /\ MapLength(types) <= MapLength(probed.types)
                                 + (Borders(Kept) + 2 * Cardinality(EventPages))
        /\ Borders(Kept) \in Nat /\ Cardinality(EventPages) \in Nat
    BY <1>1, <1>3, <1>4, <1>5, MapGrowth
  <1>7. /\ MapLength(types) \in Nat /\ MapLength(probed.types) \in Nat
        /\ mm.capacity \in Nat /\ Slack \in Nat
    BY <1>1, MapLengthNat, SlackAndAttempts DEF LInv, LoaderTypeOK
  <1>8. ~ (MapLength(types) <= mm.capacity)
    BY <1>2, Zenon DEF MapFits
  <1> QED BY <1>2, <1>6, <1>7, <1>8, Outgrown, Zenon

(* The map outgrows its buffer only if what the bootloader keeps, and events
   took or gave back since the probe, has more borders than the slack allows
   for (main.c:242-245). *)
THEOREM OnlyBordersOutgrow == LoaderSpec => []SlackSuffices
  BY SlackInvariant, OutgrownByBorders, PTL

(* The kernel of link.ld: each segment begins on the page after the last of
   the one before it. *)
OneBlock ==
    \A n \in 0 .. Len(Segments) :
        \E a, b \in Int : UNION {SegmentPages(Segments[i]) : i \in 1 .. n} = a .. b

LEMMA ThreePages ==
    ASSUME NEW x, NEW y, NEW z, NEW S, S \subseteq {x, y, z}
    PROVE  Cardinality(S) \in Nat /\ Cardinality(S) <= 3
  <1>1. /\ IsFiniteSet({x}) /\ IsFiniteSet({y}) /\ IsFiniteSet({z})
        /\ Cardinality({x}) = 1 /\ Cardinality({y}) = 1 /\ Cardinality({z}) = 1
    BY FS_Singleton
  <1> DEFINE two == {x} \cup {y}
             three == two \cup {z}
  <1>2. /\ IsFiniteSet(two) /\ Cardinality(two) \in Nat
        /\ Cardinality(two) <= Cardinality({x}) + Cardinality({y})
    BY <1>1, UnionCount
  <1> HIDE DEF two
  <1>3. /\ IsFiniteSet(three) /\ Cardinality(three) \in Nat
        /\ Cardinality(three) <= Cardinality(two) + Cardinality({z})
    BY <1>1, <1>2, UnionCount
  <1>4. three = {x, y, z}
    BY DEF two
  <1> HIDE DEF three
  <1>5. S \in SUBSET three
    BY <1>4
  <1>6. Cardinality(S) \in Nat /\ Cardinality(S) <= Cardinality(three)
    BY <1>3, <1>5, FS_Subset, FS_CardinalityType
  <1>7. Cardinality(three) <= 3
    BY <1>1, <1>2, <1>3
  <1> QED BY <1>3, <1>6, <1>7

(* An interval and two more pages have three borders on each side. *)
LEMMA BlockBorders ==
    ASSUME NEW a \in Int, NEW b \in Int, NEW x, NEW y, NEW more,
           more \subseteq {x, y}
    PROVE  Borders(more \cup (a .. b)) \in Nat /\ Borders(more \cup (a .. b)) <= 6
  <1> DEFINE pages == more \cup (a .. b)
             F == FirstsOf(pages)
             L == LastsOf(pages)
  <1>1. F \subseteq {x, y, a}
    <2> SUFFICES ASSUME NEW p \in pages, p - 1 \notin pages, p \notin {x, y}, p # a
                 PROVE  FALSE
      BY DEF FirstsOf
    <2>1. p \in a .. b
      OBVIOUS
    <2>2. p - 1 \in a .. b
      BY <2>1
    <2> QED BY <2>2
  <1>2. L \subseteq {x, y, b}
    <2> SUFFICES ASSUME NEW p \in pages, p + 1 \notin pages, p \notin {x, y}, p # b
                 PROVE  FALSE
      BY DEF LastsOf
    <2>1. p \in a .. b
      OBVIOUS
    <2>2. p + 1 \in a .. b
      BY <2>1
    <2> QED BY <2>2
  <1>3. Borders(pages) = Cardinality(F) + Cardinality(L)
    BY DEF Borders, FirstsOf, LastsOf
  <1> HIDE DEF F, L, pages
  <1>4. /\ Cardinality(F) \in Nat /\ Cardinality(F) <= 3
        /\ Cardinality(L) \in Nat /\ Cardinality(L) <= 3
    BY <1>1, <1>2, ThreePages
  <1>5. Borders(pages) \in Nat /\ Borders(pages) <= 6
    BY <1>3, <1>4
  <1> QED BY <1>5 DEF pages

LEMMA AtMostOneEvent ==
    ASSUME NEW slack \in Nat, NEW borders \in Nat, NEW events \in Nat,
           slack >= 8, borders <= 6, borders + 2 * events > slack
    PROVE  ~ (events <= 1)
  OBVIOUS

(* The map does not outgrow its buffer as long as events have taken or given
   back one page at most since the probe. *)
EightSuffice ==
    mm.page # 0 /\ Cardinality(EventPages) <= 1 =>
        fault \notin {"GetMemoryMap", "GetMemoryMap before exit"}

(* The code's eight descriptors are enough for the map, BootInfo and a kernel
   in one block, wherever the firmware puts them, and for a page that an event
   takes or gives back between the probe and the last read (main.c:242-245). *)
THEOREM EightDescriptorsDo ==
    Slack >= 8 /\ OneBlock => (LoaderSpec => []EightSuffice)
  <1> SUFFICES ASSUME Slack >= 8 /\ OneBlock PROVE LoaderSpec => []EightSuffice
    OBVIOUS
  <1>1. LInv /\ SlackInv => EightSuffice
    <2> SUFFICES ASSUME LInv, SlackInv, mm.page # 0,
                        fault \in {"GetMemoryMap", "GetMemoryMap before exit"}
                 PROVE  ~ (Cardinality(EventPages) <= 1)
      BY DEF EightSuffice
    <2>1. Borders(Kept) + 2 * Cardinality(EventPages) > Slack
      BY OutgrownByBorders DEF SlackSuffices
    <2>2. phdrs = 0 /\ loaded \in 0 .. Len(Segments)
      BY DEF LInv, LoaderTypeOK, Stages
    <2>3. PICK a \in Int, b \in Int : LoadedPages = a .. b
      BY <2>2 DEF OneBlock, LoadedPages
    <2> DEFINE more == {mm.page, phdrs, bi_page} \ {0}
    <2>4. more \subseteq {mm.page, bi_page}
      BY <2>2
    <2>5. Kept = more \cup (a .. b)
      BY <2>3, Zenon DEF Kept
    <2> HIDE DEF more
    <2>6. Borders(Kept) \in Nat /\ Borders(Kept) <= 6
      BY <2>4, <2>5, BlockBorders
    <2>7. Cardinality(EventPages) \in Nat
      <3>1. EventPages \subseteq DOMAIN types /\ IsFiniteSet(DOMAIN types)
        BY DEF EventPages, LInv, LoaderTypeOK, SlackInv, SinceProbe, Machine
      <3> QED BY <3>1, FS_Subset, FS_CardinalityType
    <2> QED BY <2>1, <2>6, <2>7, SlackAndAttempts, AtMostOneEvent, Zenon
  <1> QED BY <1>1, SlackInvariant, PTL

=============================================================================
