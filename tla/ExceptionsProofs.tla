-------------------------- MODULE ExceptionsProofs --------------------------
(***************************************************************************)
(* Proofs about the descriptor tables and the exception path, for any      *)
(* addresses of the stubs and of the stacks and any depth of nesting.      *)
(***************************************************************************)
EXTENDS Exceptions, SequenceTheorems, TLAPS

-----------------------------------------------------------------------------
(* An address that was cut into fields is put together again. *)

LEMMA DivMod ==
    ASSUME NEW x \in Nat, NEW m \in Nat \ {0}
    PROVE  /\ x \div m \in Nat
           /\ x % m \in 0 .. m - 1
           /\ x = m * (x \div m) + (x % m)
  OBVIOUS

LEMMA DivModUnique ==
    ASSUME NEW x \in Nat, NEW m \in Nat \ {0}, NEW q \in Nat, NEW r \in 0 .. m - 1,
           x = m * q + r
    PROVE  x \div m = q /\ x % m = r
  OBVIOUS

(* The next n values above the first m. *)
LEMMA Slice ==
    ASSUME NEW x \in Nat, NEW m \in Nat \ {0}, NEW n \in Nat \ {0}
    PROVE  x % (m * n) = (x % m) + m * ((x \div m) % n)
  <1> DEFINE q == x \div m
             r == x % m
             p == q \div n
             s == q % n
  <1>1. q \in Nat /\ r \in 0 .. m - 1 /\ x = m * q + r
    BY DivMod
  <1>2. p \in Nat /\ s \in 0 .. n - 1 /\ q = n * p + s
    BY <1>1, DivMod
  <1> HIDE DEF q, r, p, s
  <1>3. m * s \in Nat /\ m * s <= m * (n - 1) /\ m * (n - 1) = m * n - m
    BY <1>2
  <1>4. m * n \in Nat \ {0}
    OBVIOUS
  <1>5. r + m * s \in 0 .. m * n - 1
    BY <1>1, <1>3, <1>4
  <1>6. m * q = m * (n * p) + m * s
    BY <1>1, <1>2
  <1>7. m * (n * p) = (m * n) * p
    BY <1>2
  <1>8. x = (m * n) * p + (r + m * s)
    BY <1>1, <1>2, <1>3, <1>4, <1>6, <1>7
  <1>9. x % (m * n) = r + m * s
    BY <1>2, <1>4, <1>5, <1>8, DivModUnique
  <1> QED BY <1>9 DEF q, r, p, s

LEMMA WidthFacts ==
    /\ Width(0) = 1 /\ Width(1) = Byte /\ Width(2) = Byte * Byte
    /\ Width(3) = Width(2) * Byte /\ Width(4) = Width(3) * Byte
    /\ Width(4) = Width(2) * Width(2)
    /\ \A n \in 0 .. 4 : Width(n) \in Nat \ {0}
  <1>1. Byte \in Nat \ {0}
    BY AddressesAssumption
  <1>2. Width(0) = 1 /\ Width(1) = Byte /\ Width(2) = Byte * Byte
        /\ Width(3) = Byte * Byte * Byte /\ Width(4) = Byte * Byte * Byte * Byte
    BY DEF Width
  <1>3. Byte * Byte \in Nat \ {0}
    BY <1>1
  <1>4. Byte * Byte * Byte \in Nat \ {0}
    BY <1>1, <1>3
  <1>5. Byte * Byte * Byte * Byte \in Nat \ {0}
    BY <1>1, <1>4
  <1>6. (Byte * Byte) * (Byte * Byte) = Byte * Byte * Byte * Byte
    BY <1>1
  <1> QED BY <1>1, <1>2, <1>3, <1>4, <1>5, <1>6

LEMMA BytesNat ==
    ASSUME NEW x \in Nat, NEW first \in 0 .. 4, NEW count \in 0 .. 4
    PROVE  BytesOf(x, first, count) \in Nat
  <1> DEFINE a == Width(first)
             b == Width(count)
  <1>1. a \in Nat \ {0} /\ b \in Nat \ {0}
    BY WidthFacts
  <1> HIDE DEF a, b
  <1>2. (x \div a) % b \in Nat
    BY <1>1
  <1> QED BY <1>2 DEF BytesOf, a, b

(* The upper half of an address is its bytes from the fourth. *)
LEMMA Halves ==
    ASSUME NEW a \in Uintptr
    PROVE  /\ a \in Nat
           /\ a = (a % Width(4)) + BytesOf(a, 4, 4) * Width(4)
  <1> DEFINE w == Width(4)
             q == a \div w
             r == a % w
  <1>1. w \in Nat \ {0} /\ a \in 0 .. w * w - 1
    BY WidthFacts DEF Uintptr
  <1>2. a \in Nat /\ a < w * w
    BY <1>1
  <1>3. q \in Nat /\ r \in 0 .. w - 1 /\ a = w * q + r
    BY <1>1, <1>2, DivMod
  <1>4. BytesOf(a, 4, 4) = q % w
    BY DEF BytesOf
  <1> HIDE DEF q, w, r
  <1>5. w * q \in Nat /\ w * w \in Nat /\ w * q = q * w
    BY <1>1, <1>3
  <1>6. w * q <= a
    BY <1>3, <1>5
  <1>7. q < w
    <2>1. ASSUME q >= w PROVE FALSE
      <3>1. w * q >= w * w
        BY <1>1, <1>3, <2>1
      <3> QED BY <1>2, <1>5, <1>6, <3>1
    <2> QED BY <1>1, <1>3, <2>1
  <1>8. q % w = q
    <2>1. q = w * 0 + q /\ q \in 0 .. w - 1
      BY <1>1, <1>3, <1>7
    <2> QED BY <1>1, <1>3, <2>1, DivModUnique
  <1>9. a = r + q * w
    BY <1>1, <1>3, <1>5
  <1> QED BY <1>2, <1>4, <1>8, <1>9 DEF w, r

(* The TSS descriptor names the TSS it was made for, and a gate its handler. *)
LEMMA TssBaseIsAddress ==
    ASSUME NEW base \in Uintptr
    PROVE  TssBase(TssRow(base), TssUpperRow(base)) = base
  <1> DEFINE w2 == Width(2)
             w3 == Width(3)
             w4 == Width(4)
             f2 == BytesOf(base, 2, 1)
             f3 == BytesOf(base, 3, 1)
             f4 == BytesOf(base, 4, 4)
  <1>1. base \in Nat /\ base = (base % w4) + f4 * w4
    BY Halves
  <1>2. /\ w2 \in Nat \ {0} /\ w3 \in Nat \ {0} /\ w4 \in Nat \ {0} /\ Byte \in Nat \ {0}
        /\ w3 = w2 * Byte /\ w4 = w3 * Byte
    BY WidthFacts
  <1>3. base % w3 = (base % w2) + w2 * f2
    <2>1. base % (w2 * Byte) = (base % w2) + w2 * ((base \div w2) % Byte)
      BY <1>1, <1>2, Slice
    <2> QED BY <1>2, <2>1, WidthFacts DEF BytesOf
  <1>4. base % w4 = (base % w3) + w3 * f3
    <2>1. base % (w3 * Byte) = (base % w3) + w3 * ((base \div w3) % Byte)
      BY <1>1, <1>2, Slice
    <2> QED BY <1>2, <2>1, WidthFacts DEF BytesOf
  <1>5. BytesOf(base, 0, 2) = base % w2
    <2>1. base \div 1 = base
      BY <1>1
    <2> QED BY <2>1, WidthFacts DEF BytesOf
  <1>6. TssBase(TssRow(base), TssUpperRow(base))
            = At(base % w2, 0) + At(f2, 2) + At(f3, 3) + At(f4, 4)
    BY <1>5 DEF TssBase, TssRow, TssUpperRow
  <1>7. /\ At(base % w2, 0) = base % w2 /\ At(f2, 2) = w2 * f2
        /\ At(f3, 3) = w3 * f3 /\ At(f4, 4) = f4 * w4
        /\ base % w2 \in Nat /\ w2 * f2 \in Nat /\ w3 * f3 \in Nat /\ f4 * w4 \in Nat
    <2>1. f2 \in Nat /\ f3 \in Nat /\ f4 \in Nat
      BY <1>1, BytesNat
    <2>2. /\ At(base % w2, 0) = (base % w2) * 1 /\ At(f2, 2) = f2 * w2
          /\ At(f3, 3) = f3 * w3 /\ At(f4, 4) = f4 * w4
      BY WidthFacts DEF At
    <2> HIDE DEF w2, w3, w4, f2, f3, f4
    <2>3. base % w2 \in Nat
      BY <1>1, <1>2
    <2> QED BY <1>2, <2>1, <2>2, <2>3
  <1> HIDE DEF w2, w3, w4, f2, f3, f4
  <1> QED BY <1>1, <1>2, <1>3, <1>4, <1>6, <1>7

LEMMA GateNamesHandler ==
    ASSUME NEW handler \in Uintptr, NEW ist \in {0, 1}
    PROVE  /\ GateOffset(idt_set_gate(handler, ist)) = handler
           /\ idt_set_gate(handler, ist).present = TRUE
           /\ idt_set_gate(handler, ist).selector = GDT_SEL_KERNEL_CODE
           /\ idt_set_gate(handler, ist).ist = ist
  <1> DEFINE w2 == Width(2)
             w4 == Width(4)
             f2 == BytesOf(handler, 2, 2)
             f4 == BytesOf(handler, 4, 4)
  <1>1. handler \in Nat /\ handler = (handler % w4) + f4 * w4
    BY Halves
  <1>2. w2 \in Nat \ {0} /\ w4 \in Nat \ {0} /\ w4 = w2 * w2
    BY WidthFacts
  <1>3. handler % w4 = (handler % w2) + w2 * f2
    <2>1. f2 = (handler \div w2) % w2
      BY Zenon DEF BytesOf
    <2>2. handler % (w2 * w2) = (handler % w2) + w2 * ((handler \div w2) % w2)
      BY <1>1, <1>2, Slice, Zenon
    <2> QED BY <1>2, <2>1, <2>2, Zenon
  <1>4. BytesOf(handler, 0, 2) = handler % w2
    <2>1. handler \div 1 = handler
      BY <1>1
    <2> QED BY <2>1, WidthFacts DEF BytesOf
  <1>5. GateOffset(idt_set_gate(handler, ist))
            = At(handler % w2, 0) + At(f2, 2) + At(f4, 4)
    BY <1>4 DEF GateOffset, idt_set_gate
  <1>6. /\ At(handler % w2, 0) = handler % w2 /\ At(f2, 2) = w2 * f2
        /\ At(f4, 4) = f4 * w4
        /\ handler % w2 \in Nat /\ w2 * f2 \in Nat /\ f4 * w4 \in Nat
    <2>1. f2 \in Nat /\ f4 \in Nat
      BY <1>1, BytesNat
    <2>2. /\ At(handler % w2, 0) = (handler % w2) * 1 /\ At(f2, 2) = f2 * w2
          /\ At(f4, 4) = f4 * w4
      BY WidthFacts DEF At
    <2> HIDE DEF w2, w4, f2, f4
    <2>3. handler % w2 \in Nat
      BY <1>1, <1>2
    <2> QED BY <1>2, <2>1, <2>2, <2>3
  <1>7. ist % 8 = ist
    OBVIOUS
  <1>8. GateOffset(idt_set_gate(handler, ist)) = handler
    <2> HIDE DEF w2, w4, f2, f4
    <2> QED BY <1>1, <1>2, <1>3, <1>5, <1>6
  <1> QED BY <1>7, <1>8 DEF idt_set_gate

-----------------------------------------------------------------------------
(* The inductive invariants. *)

(* The gate of a vector once idt_init is through. *)
GateOf(v) ==
    idt_set_gate(IF v < 32 THEN isr_stub[v] ELSE isr_unhandled,
                 IF v = DoubleFault THEN TSS_IST_DOUBLE_FAULT ELSE 0)

(* What each statement of gdt_init, tss_init and idt_init leaves. *)
BootStages ==
    /\ pc # "gdt" => gdt[1] = gdt_set("code") /\ gdt[2] = gdt_set("data")
    /\ gdtr = "firmware" <=> pc \in {"gdt", "lgdt"}
    /\ pc \notin {"gdt", "lgdt", "data", "retfq", "tss"} => tss[1] = IstTop
    /\ pc \in {"ltr", "shared", "stubs", "double", "lidt", "run"} =>
          gdt[3] = TssRow(TssAddress) /\ gdt[4] = TssUpperRow(TssAddress)
    /\ pc \in {"shared", "stubs", "double", "lidt", "run"} => tr = TssAddress
    /\ pc = "double" =>
          \A v \in Vectors :
             idt[v] = idt_set_gate(IF v < 32 THEN isr_stub[v] ELSE isr_unhandled, 0)
    /\ pc = "stubs" => \A v \in Vectors : idt[v] = idt_set_gate(isr_unhandled, 0)
    /\ pc \in {"lidt", "run"} => \A v \in Vectors : idt[v] = GateOf(v)
    /\ idtr = "kernel" <=> pc = "run"
    /\ frames # <<>> => pc = "run"

Steps == {"banner", "cr2", "registers", "halted"}

Frames ==
    [raised : Vectors, address : Addresses \cup {0},
     words : {StackAfter(v, GateOf(v)) : v \in Vectors}, top : Int,
     ist : {0, TSS_IST_DOUBLE_FAULT}, step : Steps]

(* A frame is what the processor and the stub of its vector push. *)
FramesTyped ==
    /\ frames \in Seq(Frames)
    /\ \A k \in DOMAIN frames :
          /\ frames[k].words = StackAfter(frames[k].raised, GateOf(frames[k].raised))
          /\ frames[k].ist = GateOf(frames[k].raised).ist

(* Every CR2 that was printed is the one of its exception, and CR2 is still
   that of the innermost one. *)
Cr2Kept ==
    /\ cr2 \in Addresses \cup {0}
    /\ frames # <<>> => frames[Len(frames)].address = cr2
    /\ printed \in Seq(Nat \X (Addresses \cup {0}))
    /\ \A k \in DOMAIN printed :
          /\ printed[k][1] \in DOMAIN frames
          /\ frames[printed[k][1]].address = printed[k][2]

EInv == TypeOK /\ BootStages /\ ReportedOnceLoaded /\ FramesTyped /\ Cr2Kept

(* The stack the k-th frame is on: the double fault's from the first double
   fault on. *)
IstAt(k) == \E m \in 1 .. k : frames[m].ist # 0

(* Frames are stacked, at most 24 words each, below the top of their stack. *)
Layout ==
    /\ \A k \in DOMAIN frames :
          /\ frames[k].top % 2 = 0
          /\ IF IstAt(k)
             THEN IstTop - 24 * k <= Bottom(frames[k]) /\ frames[k].top <= IstTop
             ELSE \E top \in StackTops :
                     top - 24 * k <= Bottom(frames[k]) /\ frames[k].top <= top
    /\ \A j, k \in DOMAIN frames :
          j < k /\ (IstAt(j) <=> IstAt(k)) => frames[k].top <= Bottom(frames[j])

(* The processor pushes an error code for the vectors isr.asm thinks of. *)
ErrorCodesAgree == CpuErrorCode = ISR_ERRCODE

-----------------------------------------------------------------------------
(* The boot keeps EInv. *)

LEMMA InitEInv == Init => EInv
  <1> SUFFICES ASSUME Init PROVE EInv
    OBVIOUS
  <1>1. TypeOK
    BY StacksAssumption DEF Init, TypeOK, GDT_ENTRIES
  <1>2. BootStages
    BY DEF Init, BootStages
  <1>3. ReportedOnceLoaded /\ FramesTyped /\ Cr2Kept
    BY DEF Init, ReportedOnceLoaded, FramesTyped, Cr2Kept
  <1> QED BY <1>1, <1>2, <1>3 DEF EInv

(* The boot code runs while there is nothing to report. *)
LEMMA StatementKeeps ==
    ASSUME EInv, NEW from, NEW to, Statement(from, to)
    PROVE  /\ FramesTyped' /\ Cr2Kept' /\ ReportedOnceLoaded'
           /\ frames = <<>> /\ frames' = <<>>
  BY DEF Statement, EInv, FramesTyped, Cr2Kept, ReportedOnceLoaded

LEMMA GdtEInv ==
    ASSUME EInv, BuildGdt \/ LoadGdt \/ ReloadData \/ FarReturn
    PROVE  EInv'
  <1>1. FramesTyped' /\ Cr2Kept' /\ ReportedOnceLoaded' /\ frames' = <<>>
    BY StatementKeeps DEF BuildGdt, LoadGdt, ReloadData, FarReturn
  <1>2. TypeOK'
    BY DEF EInv, TypeOK, BuildGdt, LoadGdt, ReloadData, FarReturn, Statement,
           tables, registers
  <1>3. BootStages'
    <2>1. CASE BuildGdt
      BY <1>1, <2>1 DEF EInv, TypeOK, BootStages, BuildGdt, Statement, registers, GDT_ENTRIES
    <2>2. CASE LoadGdt \/ ReloadData \/ FarReturn
      BY <1>1, <2>2 DEF EInv, TypeOK, BootStages, LoadGdt, ReloadData, FarReturn,
                        Statement, tables
    <2> QED BY <2>1, <2>2
  <1> QED BY <1>1, <1>2, <1>3 DEF EInv

LEMMA TssEInv ==
    ASSUME EInv, FillTss \/ gdt_set_tss \/ LoadTaskRegister
    PROVE  EInv'
  <1>1. FramesTyped' /\ Cr2Kept' /\ ReportedOnceLoaded' /\ frames' = <<>>
    BY StatementKeeps DEF FillTss, gdt_set_tss, LoadTaskRegister
  <1>2. CASE FillTss
    BY <1>1, <1>2 DEF EInv, TypeOK, BootStages, FillTss, Statement, registers,
                      TSS_IST_DOUBLE_FAULT
  <1>3. CASE gdt_set_tss
    BY <1>1, <1>3 DEF EInv, TypeOK, BootStages, gdt_set_tss, Statement, registers,
                      GDT_ENTRIES, GDT_INDEX_TSS
  <1>4. CASE LoadTaskRegister
    <2>1. tr' = TssAddress
      <3>1. gdt[3] = TssRow(TssAddress) /\ gdt[4] = TssUpperRow(TssAddress)
        BY <1>4 DEF EInv, BootStages, LoadTaskRegister, Statement
      <3>2. tr' = TssBase(gdt[3], gdt[4])
        BY <1>4 DEF LoadTaskRegister, GDT_INDEX_TSS
      <3> QED BY <3>1, <3>2, TssBaseIsAddress, AddressesAssumption
    <2> QED BY <1>1, <1>4, <2>1 DEF EInv, TypeOK, BootStages, LoadTaskRegister,
                                    Statement, tables
  <1> QED BY <1>2, <1>3, <1>4

LEMMA IdtEInv ==
    ASSUME EInv, FillShared \/ FillStubs \/ FillDoubleFault \/ LoadIdt
    PROVE  EInv'
  <1>1. FramesTyped' /\ Cr2Kept' /\ ReportedOnceLoaded' /\ frames' = <<>>
    BY StatementKeeps DEF FillShared, FillStubs, FillDoubleFault, LoadIdt
  <1>2. TypeOK'
    BY DEF EInv, TypeOK, FillShared, FillStubs, FillDoubleFault, LoadIdt, Statement,
           tables, registers
  <1>3. CASE FillShared
    BY <1>1, <1>2, <1>3 DEF EInv, BootStages, FillShared, Statement, registers
  <1>4. CASE FillStubs
    BY <1>1, <1>2, <1>4 DEF EInv, BootStages, FillStubs, Statement, registers
  <1>5. CASE FillDoubleFault
    <2>1. \A v \in Vectors : idt'[v] = GateOf(v)
      BY <1>5, VectorsAssumption
      DEF EInv, TypeOK, BootStages, FillDoubleFault, Statement, GateOf, DoubleFault
    <2> QED BY <1>1, <1>2, <1>5, <2>1
            DEF EInv, BootStages, FillDoubleFault, Statement, registers
  <1>6. CASE LoadIdt
    BY <1>1, <1>2, <1>6 DEF EInv, TypeOK, BootStages, LoadIdt, Statement, tables
  <1> QED BY <1>3, <1>4, <1>5, <1>6

LEMMA BootEInv == EInv /\ Boot => EInv'
  BY GdtEInv, TssEInv, IdtEInv DEF Boot

-----------------------------------------------------------------------------
(* An exception, with the kernel's table loaded. *)

LEMMA GateFacts ==
    ASSUME NEW v \in Vectors
    PROVE  /\ GateOf(v).present = TRUE
           /\ GateOf(v).selector = GDT_SEL_KERNEL_CODE
           /\ GateOf(v).ist = IF v = DoubleFault THEN TSS_IST_DOUBLE_FAULT ELSE 0
           /\ GateOffset(GateOf(v)) = IF v < 32 THEN isr_stub[v] ELSE isr_unhandled
  <1> DEFINE h == IF v < 32 THEN isr_stub[v] ELSE isr_unhandled
             s == IF v = DoubleFault THEN TSS_IST_DOUBLE_FAULT ELSE 0
  <1>1. h \in Uintptr
    BY AddressesAssumption, VectorsAssumption
  <1>2. s \in {0, 1}
    BY DEF TSS_IST_DOUBLE_FAULT
  <1>3. GateOf(v) = idt_set_gate(h, s)
    BY DEF GateOf
  <1> HIDE DEF h, s
  <1>4. /\ GateOffset(GateOf(v)) = h /\ GateOf(v).present = TRUE
        /\ GateOf(v).selector = GDT_SEL_KERNEL_CODE /\ GateOf(v).ist = s
    BY <1>1, <1>2, <1>3, GateNamesHandler
  <1> QED BY <1>4 DEF h, s

(* With its table loaded the kernel takes every vector but the double fault on
   a stack that works, and the double fault on any stack. *)
LEMMA WhatIsDeliverable ==
    ASSUME EInv, idtr = "kernel", NEW v \in Vectors, NEW usable \in BOOLEAN
    PROVE  /\ idt[v] = GateOf(v)
           /\ Deliverable(idt[v], usable) <=> (v = DoubleFault \/ usable)
           /\ v = DoubleFault => IstSlot(idt[v]) = IstTop
  <1>1. pc = "run" /\ idt[v] = GateOf(v) /\ tr = TssAddress /\ tss[1] = IstTop
        /\ gdt[1] = gdt_set("code") /\ DOMAIN gdt = 0 .. GDT_ENTRIES - 1
    BY DEF EInv, TypeOK, BootStages
  <1>2. RowKind(GDT_SEL_KERNEL_CODE) = "code"
    <2>1. GDT_SEL_KERNEL_CODE \div 8 = 1
      BY DEF GDT_SEL_KERNEL_CODE
    <2> QED BY <1>1, <2>1 DEF RowKind, gdt_set, GDT_ENTRIES
  <1>3. v = DoubleFault => IstSlot(GateOf(v)) = IstTop
    BY <1>1, GateFacts DEF IstSlot, TSS_IST_DOUBLE_FAULT
  <1>4. v = DoubleFault <=> GateOf(v).ist # 0
    <2>1. GateOf(v).ist = IF v = DoubleFault THEN TSS_IST_DOUBLE_FAULT ELSE 0
      BY GateFacts
    <2>2. TSS_IST_DOUBLE_FAULT # 0
      BY DEF TSS_IST_DOUBLE_FAULT
    <2> QED BY <2>1, <2>2
  <1>5. IstTop # 0
    BY StacksAssumption
  <1> QED BY <1>1, <1>2, <1>3, <1>4, <1>5, GateFacts DEF Deliverable

(* So an exception becomes a frame: its own, or on a stack that does not work
   the double fault's. *)
LEMMA KernelDelivers ==
    ASSUME EInv, idtr = "kernel", NEW v \in Vectors, v # DoubleFault,
           NEW address, NEW rsp, NEW usable \in BOOLEAN,
           DeliverByKernel(v, address, rsp, usable)
    PROVE  /\ status' = status
           /\ \/ /\ usable
                 /\ frames' = Append(frames, Frame(v, address, rsp - (rsp % 2), GateOf(v)))
              \/ /\ ~ usable
                 /\ frames' = Append(frames, Frame(DoubleFault, address, IstTop,
                                                   GateOf(DoubleFault)))
  <1>1. DoubleFault \in Vectors
    BY VectorsAssumption DEF DoubleFault
  <1>2. Deliverable(idt[v], usable) <=> usable
    BY WhatIsDeliverable
  <1>3. Deliverable(idt[DoubleFault], usable)
    BY <1>1, WhatIsDeliverable
  <1>4. idt[v] = GateOf(v) /\ GateOf(v).ist = 0
    BY WhatIsDeliverable, GateFacts
  <1>5. /\ idt[DoubleFault] = GateOf(DoubleFault) /\ GateOf(DoubleFault).ist # 0
        /\ IstSlot(GateOf(DoubleFault)) = IstTop
    <2>1. GateOf(DoubleFault).ist = TSS_IST_DOUBLE_FAULT
      BY <1>1, GateFacts
    <2>2. TSS_IST_DOUBLE_FAULT # 0
      BY DEF TSS_IST_DOUBLE_FAULT
    <2> QED BY <1>1, <2>1, <2>2, WhatIsDeliverable
  <1>6. CASE usable /\ Enter(v, address, rsp)
    BY <1>4, <1>6 DEF Enter, StackTopOf
  <1>7. CASE ~ usable /\ Enter(DoubleFault, address, rsp)
    BY <1>5, <1>7 DEF Enter, StackTopOf
  <1> QED BY <1>2, <1>3, <1>6, <1>7 DEF DeliverByKernel

(* A new frame leaves those below it as they are. *)
LEMMA AppendFrame ==
    ASSUME EInv, NEW f \in Frames, frames' = Append(frames, f)
    PROVE  /\ frames' \in Seq(Frames)
           /\ Len(frames) \in Nat /\ Len(frames') = Len(frames) + 1
           /\ DOMAIN frames = 1 .. Len(frames)
           /\ DOMAIN frames' = 1 .. Len(frames) + 1
           /\ frames'[Len(frames) + 1] = f
           /\ \A k \in DOMAIN frames : frames'[k] = frames[k]
           /\ frames' # <<>>
  <1>1. frames \in Seq(Frames)
    BY DEF EInv, FramesTyped
  <1>2. /\ frames' \in Seq(Frames) /\ Len(frames') = Len(frames) + 1
        /\ \A k \in 1 .. Len(frames) : frames'[k] = frames[k]
        /\ frames'[Len(frames) + 1] = f
    BY <1>1, AppendProperties
  <1>3. /\ DOMAIN frames = 1 .. Len(frames) /\ Len(frames) \in Nat
        /\ DOMAIN frames' = 1 .. Len(frames')
    BY <1>1, <1>2, LenProperties
  <1>4. frames' # <<>>
    BY <1>2, <1>3
  <1> QED BY <1>2, <1>3, <1>4

LEMMA EnterEInv ==
    ASSUME EInv, idtr = "kernel", Len(frames) < MaxNested,
           NEW v \in Vectors, NEW address \in Addresses \cup {0}, NEW top \in Int,
           frames' = Append(frames, Frame(v, address, top, GateOf(v))),
           cr2' = address,
           UNCHANGED <<pc, tables, registers, printed, status>>
    PROVE  EInv'
  <1> DEFINE f == Frame(v, address, top, GateOf(v))
  <1>1. f \in Frames /\ f.raised = v /\ f.words = StackAfter(v, GateOf(v))
        /\ f.ist = GateOf(v).ist /\ f.address = address
    BY GateFacts DEF Frame, Frames, Steps
  <1> HIDE DEF f
  <1>2. /\ frames' \in Seq(Frames)
        /\ Len(frames) \in Nat /\ Len(frames') = Len(frames) + 1
        /\ DOMAIN frames = 1 .. Len(frames)
        /\ DOMAIN frames' = 1 .. Len(frames) + 1
        /\ frames'[Len(frames) + 1] = f
        /\ \A k \in DOMAIN frames : frames'[k] = frames[k]
        /\ frames' # <<>>
    BY <1>1, AppendFrame DEF f
  <1>3. FramesTyped'
    BY <1>1, <1>2 DEF EInv, FramesTyped
  <1>4. Cr2Kept'
    BY <1>1, <1>2 DEF EInv, Cr2Kept
  <1>5. TypeOK'
    BY <1>2, StacksAssumption DEF EInv, TypeOK, tables, registers
  <1>6. BootStages' /\ ReportedOnceLoaded'
    BY DEF EInv, BootStages, ReportedOnceLoaded, tables, registers
  <1> QED BY <1>3, <1>4, <1>5, <1>6 DEF EInv

-----------------------------------------------------------------------------
(* The words of a frame. *)

(* exception_frame_t has 22 members, of which one is the vector and one the
   error code. *)

LEMMA MembersOfTheFrame ==
    /\ Len(exception_frame_t) = 22
    /\ DOMAIN exception_frame_t = 1 .. 22
    /\ \A n \in 1 .. 22 :
          /\ exception_frame_t[n] = "vector" <=> n = 16
          /\ exception_frame_t[n] = "error_code" <=> n = 17
  <1>1. Len(exception_frame_t) = 22
        /\ DOMAIN exception_frame_t = 1 .. 22
    BY DEF exception_frame_t
  <1>2. \A n \in 1 .. 22 :
          /\ exception_frame_t[n] = "vector" <=> n = 16
          /\ exception_frame_t[n] = "error_code" <=> n = 17
    BY DEF exception_frame_t
  <1> QED BY <1>1, <1>2

PushedWords ==
    {CpuFrame[k] : k \in 1 .. 5} \cup {isr_common[k] : k \in 1 .. 15}
        \cup {Pushed(what, n) : what \in {"error_code", "vector"}, n \in Nat}

(* What the processor and isr_common push, from the top of the stack down, are
   the members of exception_frame_t from the last up. *)
LEMMA CpuFrameIs ==
    /\ CpuFrame \in Seq(PushedWords) /\ Len(CpuFrame) = 5
    /\ \A k \in 1 .. 5 : CpuFrame[k].what = exception_frame_t[23 - k]
  <1>1. Len(CpuFrame) = 5 /\ DOMAIN CpuFrame = 1 .. 5
    BY DEF CpuFrame, Push, Pushed
  <1>2. CpuFrame = [k \in 1 .. 5 |-> CpuFrame[k]]
    BY <1>1 DEF CpuFrame, Push
  <1>3. CpuFrame \in Seq(PushedWords)
    BY <1>2 DEF PushedWords
  <1>4. \A k \in 1 .. 5 : CpuFrame[k].what = exception_frame_t[23 - k]
    <2>1. /\ CpuFrame[1].what = "ss" /\ CpuFrame[2].what = "rsp"
          /\ CpuFrame[3].what = "rflags" /\ CpuFrame[4].what = "cs"
          /\ CpuFrame[5].what = "rip"
      BY DEF CpuFrame, Push, Pushed
    <2>2. /\ exception_frame_t[22] = "ss" /\ exception_frame_t[21] = "rsp"
          /\ exception_frame_t[20] = "rflags" /\ exception_frame_t[19] = "cs"
          /\ exception_frame_t[18] = "rip"
      BY DEF exception_frame_t
    <2> QED BY <2>1, <2>2
  <1> QED BY <1>1, <1>3, <1>4

LEMMA IsrCommonIs ==
    /\ isr_common \in Seq(PushedWords) /\ Len(isr_common) = 15
    /\ \A k \in 1 .. 15 : isr_common[k].what = exception_frame_t[16 - k]
  <1>1. Len(isr_common) = 15 /\ DOMAIN isr_common = 1 .. 15
    BY DEF isr_common, Push, Pushed
  <1>2. isr_common = [k \in 1 .. 15 |-> isr_common[k]]
    BY <1>1 DEF isr_common, Push
  <1>3. isr_common \in Seq(PushedWords)
    BY <1>2 DEF PushedWords
  <1>4. \A k \in 1 .. 15 : isr_common[k].what = exception_frame_t[16 - k]
    <2>1. /\ isr_common[1].what = "rax" /\ isr_common[2].what = "rbx"
          /\ isr_common[3].what = "rcx" /\ isr_common[4].what = "rdx"
          /\ isr_common[5].what = "rsi" /\ isr_common[6].what = "rdi"
          /\ isr_common[7].what = "rbp" /\ isr_common[8].what = "r8"
          /\ isr_common[9].what = "r9" /\ isr_common[10].what = "r10"
          /\ isr_common[11].what = "r11" /\ isr_common[12].what = "r12"
          /\ isr_common[13].what = "r13" /\ isr_common[14].what = "r14"
          /\ isr_common[15].what = "r15"
      BY DEF isr_common, Push, Pushed
    <2>2. /\ exception_frame_t[15] = "rax" /\ exception_frame_t[14] = "rbx"
          /\ exception_frame_t[13] = "rcx" /\ exception_frame_t[12] = "rdx"
          /\ exception_frame_t[11] = "rsi" /\ exception_frame_t[10] = "rdi"
          /\ exception_frame_t[9] = "rbp" /\ exception_frame_t[8] = "r8"
          /\ exception_frame_t[7] = "r9" /\ exception_frame_t[6] = "r10"
          /\ exception_frame_t[5] = "r11" /\ exception_frame_t[4] = "r12"
          /\ exception_frame_t[3] = "r13" /\ exception_frame_t[2] = "r14"
          /\ exception_frame_t[1] = "r15"
      BY DEF exception_frame_t
    <2> QED BY <2>1, <2>2
  <1> QED BY <1>1, <1>3, <1>4


LEMMA Concat ==
    ASSUME NEW S, NEW s \in Seq(S), NEW t \in Seq(S), NEW r, r = s \o t
    PROVE  /\ r \in Seq(S) /\ Len(r) = Len(s) + Len(t)
           /\ Len(s) \in Nat /\ Len(t) \in Nat
           /\ \A k \in 1 .. Len(s) : r[k] = s[k]
           /\ \A k \in 1 .. Len(t) : r[Len(s) + k] = t[k]
  <1>1. /\ s \o t \in Seq(S) /\ Len(s \o t) = Len(s) + Len(t)
        /\ \A k \in 1 .. Len(s) + Len(t) :
              (s \o t)[k] = IF k <= Len(s) THEN s[k] ELSE t[k - Len(s)]
    BY ConcatProperties
  <1>2. Len(s) \in Nat /\ Len(t) \in Nat
    BY LenProperties
  <1> QED BY <1>1, <1>2

LEMMA TwoWords ==
    ASSUME NEW S, NEW a \in S, NEW b \in S
    PROVE  <<a>> \o <<b>> = <<a, b>>
  <1> DEFINE s == <<a>>
             t == <<b>>
             r == s \o t
  <1>1. s \in Seq(S) /\ t \in Seq(S)
    OBVIOUS
  <1>2. Len(s) = 1 /\ Len(t) = 1 /\ s[1] = a /\ t[1] = b
    OBVIOUS
  <1>3. r = s \o t
    OBVIOUS
  <1> HIDE DEF s, t, r
  <1>4. /\ r \in Seq(S) /\ Len(r) = Len(s) + Len(t)
        /\ \A k \in 1 .. Len(s) : r[k] = s[k]
        /\ \A k \in 1 .. Len(t) : r[Len(s) + k] = t[k]
    BY <1>1, <1>3, Concat
  <1>5. Len(r) = 2 /\ r[1] = a /\ r[2] = b
    BY <1>2, <1>4
  <1>6. r = <<a, b>>
    <2>1. r \in Seq(S)
      BY <1>4
    <2> QED BY <1>5, <2>1, SeqEqual
  <1> QED BY <1>6 DEF r, s, t

LEMMA StubIs ==
    ASSUME NEW v \in Vectors
    PROVE  Stub(GateOffset(GateOf(v))) =
             IF v < 32
             THEN (IF v \in ISR_ERRCODE THEN <<>> ELSE <<Pushed("error_code", 0)>>)
                    \o <<Pushed("vector", v)>>
             ELSE <<Pushed("error_code", 0), Pushed("vector", Unknown)>>
  <1>1. GateOffset(GateOf(v)) = IF v < 32 THEN isr_stub[v] ELSE isr_unhandled
    BY GateFacts
  <1>2. CASE v < 32
    <2>1. v \in 0 .. 31 /\ isr_stub[v] # isr_unhandled /\ DOMAIN isr_stub = 0 .. 31
      BY <1>2, VectorsAssumption, AddressesAssumption
    <2> DEFINE a == isr_stub[v]
    <2>2. (CHOOSE u \in DOMAIN isr_stub : isr_stub[u] = a) = v
      BY <2>1, AddressesAssumption
    <2>3. a # isr_unhandled /\ GateOffset(GateOf(v)) = a
      BY <1>1, <1>2, <2>1
    <2> HIDE DEF a
    <2>4. Stub(a) = (IF v \in ISR_ERRCODE THEN <<>> ELSE <<Pushed("error_code", 0)>>)
                      \o <<Pushed("vector", v)>>
      BY <2>2, <2>3, Zenon DEF Stub
    <2> QED BY <1>2, <2>3, <2>4
  <1>3. CASE ~ (v < 32)
    BY <1>1, <1>3 DEF Stub
  <1> QED BY <1>2, <1>3

LEMMA StubLength ==
    ASSUME NEW v \in Vectors
    PROVE  /\ Stub(GateOffset(GateOf(v))) \in Seq(PushedWords)
           /\ Len(Stub(GateOffset(GateOf(v)))) =
                 IF v \in ISR_ERRCODE THEN 1 ELSE 2
           /\ v \in ISR_ERRCODE =>
                 Stub(GateOffset(GateOf(v)))[1] = Pushed("vector", v)
           /\ v \notin ISR_ERRCODE =>
                 /\ Stub(GateOffset(GateOf(v)))[1] = Pushed("error_code", 0)
                 /\ Stub(GateOffset(GateOf(v)))[2] =
                       Pushed("vector", IF v < 32 THEN v ELSE Unknown)
  <1> DEFINE code == Pushed("error_code", 0)
             own == Pushed("vector", v)
             other == Pushed("vector", Unknown)
  <1>1. v \in Nat
    BY VectorsAssumption
  <1>2. code \in PushedWords /\ own \in PushedWords /\ other \in PushedWords
    BY <1>1 DEF PushedWords, Unknown
  <1>3. Stub(GateOffset(GateOf(v))) =
             IF v < 32 THEN (IF v \in ISR_ERRCODE THEN <<>> ELSE <<code>>) \o <<own>>
             ELSE <<code, other>>
    BY StubIs
  <1> HIDE DEF code, own, other
  <1>4. CASE v \in ISR_ERRCODE
    <2>1. v < 32
      BY <1>4 DEF ISR_ERRCODE
    <2>2. Stub(GateOffset(GateOf(v))) = <<own>>
      BY <1>3, <1>4, <2>1
    <2> QED BY <1>2, <1>4, <2>2 DEF own
  <1>5. CASE v \notin ISR_ERRCODE
    <2>1. <<code>> \o <<own>> = <<code, own>>
      BY <1>2, TwoWords
    <2>2. CASE v < 32
      <3>1. Stub(GateOffset(GateOf(v))) = <<code, own>>
        BY <1>3, <1>5, <2>1, <2>2
      <3> QED BY <1>2, <1>5, <2>2, <3>1 DEF own, code
    <2>3. CASE ~ (v < 32)
      <3>1. Stub(GateOffset(GateOf(v))) = <<code, other>>
        BY <1>3, <2>3
      <3> QED BY <1>2, <1>5, <2>3, <3>1 DEF other, code
    <2> QED BY <2>2, <2>3
  <1> QED BY <1>4, <1>5

(* The words below the processor's five, down to the stub's. *)
Errors(v) == IF v \in CpuErrorCode THEN <<Pushed("error_code", v)>> ELSE <<>>

(* The stack of an exception, whatever its error code: 21 to 23 words. *)
LEMMA StackShape ==
    ASSUME NEW v \in Vectors
    PROVE  LET stub == Stub(GateOffset(GateOf(v)))
               words == StackAfter(v, GateOf(v))
           IN  /\ words \in Seq(PushedWords)
               /\ Len(words) = 20 + Len(Errors(v)) + Len(stub)
               /\ \A k \in 1 .. 5 : words[k] = CpuFrame[k]
               /\ \A k \in 1 .. Len(Errors(v)) : words[5 + k] = Errors(v)[k]
               /\ \A k \in 1 .. Len(stub) : words[5 + Len(Errors(v)) + k] = stub[k]
               /\ \A k \in 1 .. 15 :
                     words[5 + Len(Errors(v)) + Len(stub) + k] = isr_common[k]
  <1> DEFINE stub == Stub(GateOffset(GateOf(v)))
             words == StackAfter(v, GateOf(v))
             a == CpuFrame \o Errors(v)
             b == a \o stub
  <1>1. Errors(v) \in Seq(PushedWords)
    <2>1. Pushed("error_code", v) \in PushedWords
      BY VectorsAssumption DEF PushedWords
    <2> QED BY <2>1 DEF Errors
  <1>2. stub \in Seq(PushedWords)
    BY StubLength
  <1>3. CpuFrame \in Seq(PushedWords) /\ Len(CpuFrame) = 5
    BY CpuFrameIs
  <1>4. isr_common \in Seq(PushedWords) /\ Len(isr_common) = 15
    BY IsrCommonIs
  <1>5. /\ a = CpuFrame \o Errors(v) /\ b = a \o stub /\ words = b \o isr_common
    BY DEF StackAfter, Errors
  <1> HIDE DEF a, b, stub, words
  <1>6. /\ a \in Seq(PushedWords) /\ Len(a) = Len(CpuFrame) + Len(Errors(v))
        /\ \A k \in 1 .. Len(CpuFrame) : a[k] = CpuFrame[k]
        /\ \A k \in 1 .. Len(Errors(v)) : a[Len(CpuFrame) + k] = Errors(v)[k]
    <2>1. CpuFrame \in Seq(PushedWords)
      BY <1>3
    <2> QED BY <1>1, <1>5, <2>1, Concat
  <1>7. /\ b \in Seq(PushedWords) /\ Len(b) = Len(a) + Len(stub)
        /\ \A k \in 1 .. Len(a) : b[k] = a[k]
        /\ \A k \in 1 .. Len(stub) : b[Len(a) + k] = stub[k]
    <2>1. a \in Seq(PushedWords)
      BY <1>6
    <2> QED BY <1>2, <1>5, <2>1, Concat
  <1>8. /\ words \in Seq(PushedWords) /\ Len(words) = Len(b) + Len(isr_common)
        /\ \A k \in 1 .. Len(b) : words[k] = b[k]
        /\ \A k \in 1 .. Len(isr_common) : words[Len(b) + k] = isr_common[k]
    <2>1. b \in Seq(PushedWords)
      BY <1>7
    <2>2. isr_common \in Seq(PushedWords)
      BY <1>4
    <2> QED BY <1>5, <2>1, <2>2, Concat
  <1>9. Len(Errors(v)) \in Nat /\ Len(stub) \in Nat
    BY <1>1, <1>2, LenProperties
  <1>10. /\ Len(a) = 5 + Len(Errors(v))
         /\ \A k \in 1 .. 5 : a[k] = CpuFrame[k]
         /\ \A k \in 1 .. Len(Errors(v)) : a[5 + k] = Errors(v)[k]
    BY <1>3, <1>6
  <1> DEFINE e == Len(Errors(v))
             n == Len(stub)
  <1>11. /\ e \in Nat /\ n \in Nat /\ Len(a) = 5 + e /\ Len(b) = 5 + e + n
         /\ Len(words) = 20 + e + n
    BY <1>4, <1>7, <1>8, <1>9, <1>10
  <1> HIDE DEF e, n
  <1>12. \A k \in 1 .. 5 + e : b[k] = a[k] /\ words[k] = a[k]
    <2>1. \A k \in 1 .. 5 + e : k \in 1 .. Len(a) /\ k \in 1 .. Len(b)
      BY <1>11
    <2> QED BY <1>7, <1>8, <2>1
  <1>13. /\ \A k \in 1 .. 5 : words[k] = CpuFrame[k]
         /\ \A k \in 1 .. e : words[5 + k] = Errors(v)[k]
    <2>1. \A k \in 1 .. 5 : k \in 1 .. 5 + e
      BY <1>11
    <2>2. \A k \in 1 .. e : 5 + k \in 1 .. 5 + e
      BY <1>11
    <2> QED BY <1>10, <1>12, <2>1, <2>2 DEF e
  <1>14. \A k \in 1 .. n : words[5 + e + k] = stub[k]
    <2> TAKE k \in 1 .. n
    <2>1. b[Len(a) + k] = stub[k]
      BY <1>7 DEF n
    <2>2. Len(a) + k = 5 + e + k /\ 5 + e + k \in 1 .. Len(b)
      BY <1>11
    <2>3. words[5 + e + k] = b[5 + e + k]
      BY <1>8, <2>2
    <2> QED BY <2>1, <2>2, <2>3
  <1>15. \A k \in 1 .. 15 : words[5 + e + n + k] = isr_common[k]
    <2> TAKE k \in 1 .. 15
    <2>1. words[Len(b) + k] = isr_common[k]
      BY <1>4, <1>8
    <2> QED BY <1>11, <2>1
  <1> QED BY <1>8, <1>11, <1>13, <1>14, <1>15 DEF words, stub, e, n

LEMMA StackLength ==
    ASSUME NEW v \in Vectors
    PROVE  /\ Len(StackAfter(v, GateOf(v))) \in Nat
           /\ Len(StackAfter(v, GateOf(v))) =
                20 + (IF v \in CpuErrorCode THEN 1 ELSE 0)
                   + (IF v \in ISR_ERRCODE THEN 1 ELSE 2)
  <1>1. Len(Errors(v)) = IF v \in CpuErrorCode THEN 1 ELSE 0
    BY DEF Errors
  <1>2. Len(Stub(GateOffset(GateOf(v)))) = IF v \in ISR_ERRCODE THEN 1 ELSE 2
    BY StubLength
  <1>3. Len(StackAfter(v, GateOf(v)))
            = 20 + Len(Errors(v)) + Len(Stub(GateOffset(GateOf(v))))
    BY StackShape
  <1> QED BY <1>1, <1>2, <1>3

(* Where an exception strikes: somewhere on the stack of the code, or of the
   handler, that it interrupts. *)
LEMMA InterruptedRspInt ==
    ASSUME EInv, NEW rsp \in InterruptedRsp
    PROVE  rsp \in Int /\ rsp - (rsp % 2) \in Int
  <1>1. ASSUME NEW f \in Frames PROVE Bottom(f) \in Int
    <2>1. PICK v \in Vectors : f.words = StackAfter(v, GateOf(v))
      BY <1>1 DEF Frames
    <2>2. Len(StackAfter(v, GateOf(v))) \in Int
      BY StackLength
    <2> QED BY <1>1, <2>1, <2>2 DEF Frames, Bottom
  <1>2. CASE frames = <<>>
    BY <1>2, StacksAssumption DEF InterruptedRsp
  <1>3. CASE frames # <<>>
    <2>1. frames[Len(frames)] \in Frames
      BY <1>3 DEF EInv, FramesTyped
    <2> QED BY <1>1, <1>3, <2>1 DEF InterruptedRsp
  <1> QED BY <1>2, <1>3

LEMMA ExceptionEInv ==
    ASSUME EInv, NEW v \in Vectors, Exception(v)
    PROVE  EInv'
  <1>1. PICK rsp \in InterruptedRsp, usable \in {TRUE, OnIst},
             address \in (IF v = PageFault THEN Addresses ELSE {cr2}) :
             /\ cr2' = address
             /\ IF idtr = "kernel" THEN DeliverByKernel(v, address, rsp, usable)
                                   ELSE DeliverByFirmware
    BY DEF Exception
  <1>2. /\ status = "running" /\ v # DoubleFault /\ Len(frames) < MaxNested
        /\ UNCHANGED <<pc, tables, registers, printed>>
    BY DEF Exception
  <1>3. address \in Addresses \cup {0}
    BY <1>1 DEF EInv, Cr2Kept
  <1>4. CASE idtr = "kernel"
    <2>1. usable \in BOOLEAN
      BY <1>1 DEF OnIst
    <2>2. DoubleFault \in Vectors /\ IstTop \in Int
      BY VectorsAssumption, StacksAssumption DEF DoubleFault
    <2>3. rsp - (rsp % 2) \in Int
      BY InterruptedRspInt
    <2>4. status' = status
      BY <1>1, <1>2, <1>4, <2>1, KernelDelivers
    <2>5. CASE frames' = Append(frames, Frame(v, address, rsp - (rsp % 2), GateOf(v)))
      BY <1>1, <1>2, <1>3, <1>4, <2>3, <2>4, <2>5, EnterEInv
    <2>6. CASE frames' = Append(frames, Frame(DoubleFault, address, IstTop,
                                              GateOf(DoubleFault)))
      BY <1>1, <1>2, <1>3, <1>4, <2>2, <2>4, <2>6, EnterEInv
    <2> QED BY <1>1, <1>2, <1>4, <2>1, <2>5, <2>6, KernelDelivers
  <1>5. CASE idtr # "kernel"
    <2>1. frames = <<>> /\ frames' = <<>> /\ pc # "run" /\ idtr = "firmware"
      BY <1>1, <1>5 DEF EInv, TypeOK, BootStages, DeliverByFirmware
    <2>2. status' \in {"firmware", "reset"}
      BY <1>1, <1>5 DEF EInv, TypeOK, DeliverByFirmware
    <2>3. TypeOK' /\ BootStages' /\ ReportedOnceLoaded'
      BY <1>2, <2>1, <2>2 DEF EInv, TypeOK, BootStages, ReportedOnceLoaded, tables, registers
    <2>4. FramesTyped' /\ Cr2Kept'
      BY <1>1, <1>2, <1>3, <2>1 DEF EInv, FramesTyped, Cr2Kept
    <2> QED BY <2>3, <2>4 DEF EInv
  <1> QED BY <1>4, <1>5

-----------------------------------------------------------------------------
(* The report. *)

(* A step of the report moves the innermost frame on and nothing else of it. *)
LEMMA DispatchKeeps ==
    ASSUME EInv, NEW from, NEW to \in Steps, Dispatch(from, to)
    PROVE  /\ frames # <<>>
           /\ Innermost \in DOMAIN frames
           /\ frames' \in Seq(Frames)
           /\ Len(frames') = Len(frames)
           /\ DOMAIN frames' = DOMAIN frames
           /\ \A k \in DOMAIN frames :
                 /\ frames'[k].raised = frames[k].raised
                 /\ frames'[k].address = frames[k].address
                 /\ frames'[k].words = frames[k].words
                 /\ frames'[k].top = frames[k].top
                 /\ frames'[k].ist = frames[k].ist
  <1>1. frames \in Seq(Frames) /\ frames # <<>>
        /\ frames' = [frames EXCEPT ![Innermost].step = to]
    BY DEF EInv, FramesTyped, Dispatch
  <1>2. Innermost \in 1 .. Len(frames) /\ DOMAIN frames = 1 .. Len(frames)
    BY <1>1 DEF Innermost
  <1>3. [frames[Innermost] EXCEPT !.step = to] \in Frames
    <2>1. frames[Innermost] \in Frames
      BY <1>1, <1>2
    <2> QED BY <2>1 DEF Frames
  <1>4. frames' = [frames EXCEPT ![Innermost] = [frames[Innermost] EXCEPT !.step = to]]
    BY <1>1
  <1>5. frames' \in Seq(Frames) /\ Len(frames') = Len(frames)
        /\ DOMAIN frames' = DOMAIN frames
    BY <1>1, <1>2, <1>3, <1>4, ExceptSeq
  <1>6. ASSUME NEW k \in DOMAIN frames
        PROVE  /\ frames'[k].raised = frames[k].raised
               /\ frames'[k].address = frames[k].address
               /\ frames'[k].words = frames[k].words
               /\ frames'[k].top = frames[k].top
               /\ frames'[k].ist = frames[k].ist
    <2>1. frames[k] \in Frames
      BY <1>1, <1>2
    <2>2. CASE k = Innermost
      <3>1. frames'[k] = [frames[k] EXCEPT !.step = to]
        BY <1>2, <1>4, <2>2
      <3> QED BY <2>1, <3>1 DEF Frames
    <2>3. CASE k # Innermost
      BY <1>4, <2>3
    <2> QED BY <2>2, <2>3
  <1> QED BY <1>1, <1>2, <1>5, <1>6

LEMMA ReportEInv == EInv /\ Report => EInv'
  <1> SUFFICES ASSUME EInv, Report PROVE EInv'
    OBVIOUS
  <1>1. PICK from, to \in Steps : Dispatch(from, to)
    BY DEF Report, Banner, PrintCr2, PrintRegisters, Steps
  <1>2. /\ frames # <<>>
        /\ Innermost \in DOMAIN frames
        /\ frames' \in Seq(Frames)
        /\ Len(frames') = Len(frames)
        /\ DOMAIN frames' = DOMAIN frames
        /\ \A k \in DOMAIN frames :
              /\ frames'[k].raised = frames[k].raised
              /\ frames'[k].address = frames[k].address
              /\ frames'[k].words = frames[k].words
              /\ frames'[k].ist = frames[k].ist
    BY <1>1, DispatchKeeps
  <1>3. UNCHANGED <<pc, tables, registers, cr2, status>>
    BY <1>1 DEF Dispatch
  <1>4. FramesTyped'
    BY <1>2 DEF EInv, FramesTyped
  <1>5. TypeOK' /\ BootStages' /\ ReportedOnceLoaded'
    BY <1>2, <1>3 DEF EInv, TypeOK, BootStages, ReportedOnceLoaded, tables, registers
  <1>6. printed' \in {printed, Append(printed, <<Innermost, cr2>>)}
    BY DEF Report, Banner, PrintCr2, PrintRegisters
  <1>7. Cr2Kept'
    <2>1. /\ printed \in Seq(Nat \X (Addresses \cup {0})) /\ cr2 \in Addresses \cup {0}
          /\ frames[Len(frames)].address = cr2
          /\ Innermost = Len(frames) /\ Innermost \in Nat
      BY <1>2 DEF EInv, Cr2Kept, FramesTyped, Innermost
    <2>2. cr2' = cr2 /\ frames' # <<>> /\ frames'[Len(frames')].address = cr2
      <3>1. frames' # <<>>
        BY <1>2
      <3> QED BY <1>2, <1>3, <2>1, <3>1
    <2>3. CASE printed' = printed
      BY <1>2, <2>1, <2>2, <2>3 DEF EInv, Cr2Kept
    <2>4. CASE printed' = Append(printed, <<Innermost, cr2>>)
      <3>1. /\ printed' \in Seq(Nat \X (Addresses \cup {0}))
            /\ Len(printed') = Len(printed) + 1 /\ Len(printed) \in Nat
            /\ \A k \in 1 .. Len(printed) : printed'[k] = printed[k]
            /\ printed'[Len(printed) + 1] = <<Innermost, cr2>>
        <4>1. <<Innermost, cr2>> \in Nat \X (Addresses \cup {0})
          BY <2>1
        <4> QED BY <2>1, <2>4, <4>1, AppendProperties, LenProperties
      <3>2. DOMAIN printed = 1 .. Len(printed) /\ DOMAIN printed' = 1 .. Len(printed) + 1
        BY <2>1, <3>1, LenProperties
      <3>3. ASSUME NEW k \in 1 .. Len(printed)
            PROVE  /\ printed'[k][1] \in DOMAIN frames'
                   /\ frames'[printed'[k][1]].address = printed'[k][2]
        <4>1. printed'[k] = printed[k] /\ k \in DOMAIN printed
          BY <3>1, <3>2
        <4>2. printed[k][1] \in DOMAIN frames
              /\ frames[printed[k][1]].address = printed[k][2]
          BY <4>1 DEF EInv, Cr2Kept
        <4> QED BY <1>2, <4>1, <4>2
      <3>4. /\ printed'[Len(printed) + 1][1] \in DOMAIN frames'
            /\ frames'[printed'[Len(printed) + 1][1]].address = printed'[Len(printed) + 1][2]
        BY <1>2, <2>1, <3>1
      <3>5. ASSUME NEW k \in DOMAIN printed'
            PROVE  /\ printed'[k][1] \in DOMAIN frames'
                   /\ frames'[printed'[k][1]].address = printed'[k][2]
        <4>1. k \in 1 .. Len(printed) \/ k = Len(printed) + 1
          BY <3>1, <3>2
        <4> QED BY <3>3, <3>4, <4>1
      <3> QED BY <2>1, <2>2, <3>1, <3>5 DEF Cr2Kept
    <2> QED BY <1>6, <2>3, <2>4
  <1> QED BY <1>4, <1>5, <1>7 DEF EInv

LEMMA NextEInv == EInv /\ [Next]_vars => EInv'
  <1> SUFFICES ASSUME EInv, [Next]_vars PROVE EInv'
    OBVIOUS
  <1>1. CASE UNCHANGED vars
    BY <1>1 DEF EInv, TypeOK, BootStages, ReportedOnceLoaded, FramesTyped, Cr2Kept,
                vars, tables, registers
  <1>2. CASE Next
    BY <1>1, <1>2, BootEInv, ExceptionEInv, ReportEInv DEF Next, Idle
  <1> QED BY <1>1, <1>2

(* The tables hold what gdt_init, tss_init and idt_init write, statement by
   statement, and every frame is what the stub of its vector pushes. *)
THEOREM ExceptionInvariant == Spec => []EInv
  <1>1. Init => EInv
    BY InitEInv
  <1>2. EInv /\ [Next]_vars => EInv'
    BY NextEInv
  <1> QED BY <1>1, <1>2, PTL DEF Spec

(* The tables keep their rows, ltr loads the TSS it was given, and no more
   than MaxNested reports are under way. *)
THEOREM TypeCorrect == Spec => []TypeOK
  <1>1. EInv => TypeOK
    BY DEF EInv
  <1> QED BY <1>1, ExceptionInvariant, PTL

(* From lidt on no exception ends in a reset or with the firmware (idt.h:13-14,
   tss.h:17-24), on any stacks and however deep exceptions nest. *)
THEOREM NoSilentReset == Spec => []ReportedOnceLoaded
  <1>1. EInv => ReportedOnceLoaded
    BY DEF EInv
  <1> QED BY <1>1, ExceptionInvariant, PTL

(* The CR2 in the log is the address that exception was about
   (idt.c:232-235). *)
THEOREM Cr2InTheLog == Spec => []Cr2True
  <1>1. EInv => Cr2True
    BY DEF EInv, Cr2Kept, Cr2True
  <1> QED BY <1>1, ExceptionInvariant, PTL

-----------------------------------------------------------------------------
(* What a frame says.  From here on isr.asm and the processor agree on the
   vectors that come with an error code. *)

LEMMA FrameWords ==
    ASSUME ErrorCodesAgree, NEW v \in Vectors
    PROVE  LET words == StackAfter(v, GateOf(v)) IN
           /\ Len(words) = 22
           /\ words[6] = Pushed("error_code", IF v \in CpuErrorCode THEN v ELSE 0)
           /\ words[7] = Pushed("vector", IF v < 32 THEN v ELSE Unknown)
           /\ \A k \in 1 .. 22 : words[23 - k].what = exception_frame_t[k]
  <1> DEFINE words == StackAfter(v, GateOf(v))
             stub == Stub(GateOffset(GateOf(v)))
             e == Len(Errors(v))
             n == Len(stub)
  <1>1. /\ Len(words) = 20 + e + n
        /\ \A k \in 1 .. 5 : words[k] = CpuFrame[k]
        /\ \A k \in 1 .. e : words[5 + k] = Errors(v)[k]
        /\ \A k \in 1 .. n : words[5 + e + k] = stub[k]
        /\ \A k \in 1 .. 15 : words[5 + e + n + k] = isr_common[k]
    BY StackShape
  <1>2. /\ n = IF v \in ISR_ERRCODE THEN 1 ELSE 2
        /\ v \in ISR_ERRCODE => stub[1] = Pushed("vector", v)
        /\ v \notin ISR_ERRCODE =>
              /\ stub[1] = Pushed("error_code", 0)
              /\ stub[2] = Pushed("vector", IF v < 32 THEN v ELSE Unknown)
    BY StubLength
  <1>3. /\ v \in ISR_ERRCODE => e = 1 /\ Errors(v)[1] = Pushed("error_code", v)
        /\ v \notin ISR_ERRCODE => e = 0
    BY DEF ErrorCodesAgree, Errors
  <1> HIDE DEF words, stub, e, n
  <1>4. e + n = 2
    BY <1>2, <1>3
  <1>5. /\ words[6] = Pushed("error_code", IF v \in CpuErrorCode THEN v ELSE 0)
        /\ words[7] = Pushed("vector", IF v < 32 THEN v ELSE Unknown)
    <2>1. CASE v \in ISR_ERRCODE
      <3>1. v < 32
        BY <2>1 DEF ISR_ERRCODE
      <3>2. words[5 + 1] = Errors(v)[1]
        BY <1>1, <1>3, <2>1
      <3>3. words[5 + 1 + 1] = stub[1]
        BY <1>1, <1>2, <1>3, <2>1
      <3> QED BY <1>2, <1>3, <2>1, <3>1, <3>2, <3>3 DEF ErrorCodesAgree
    <2>2. CASE v \notin ISR_ERRCODE
      <3>1. words[5 + 0 + 1] = stub[1] /\ words[5 + 0 + 2] = stub[2]
        BY <1>1, <1>2, <1>3, <2>2
      <3> QED BY <1>2, <2>2, <3>1 DEF ErrorCodesAgree
    <2> QED BY <2>1, <2>2
  <1>6. \A k \in 1 .. 22 : words[23 - k].what = exception_frame_t[k]
    <2> TAKE k \in 1 .. 22
    <2>1. CASE k \in 1 .. 15
      <3>1. 16 - k \in 1 .. 15 /\ 5 + 2 + (16 - k) = 23 - k /\ 16 - (16 - k) = k
        BY <2>1
      <3>2. words[5 + e + n + (16 - k)] = isr_common[16 - k]
        BY <1>1, <3>1
      <3>3. 5 + e + n + (16 - k) = 23 - k
        BY <1>2, <1>3, <1>4, <3>1
      <3>4. isr_common[16 - k].what = exception_frame_t[16 - (16 - k)]
        BY <3>1, IsrCommonIs
      <3> QED BY <3>1, <3>2, <3>3, <3>4
    <2>2. CASE k = 16
      <3>1. exception_frame_t[16] = "vector" /\ words[23 - 16] = words[7]
        BY MembersOfTheFrame
      <3> QED BY <1>5, <2>2, <3>1 DEF Pushed
    <2>3. CASE k = 17
      <3>1. exception_frame_t[17] = "error_code" /\ words[23 - 17] = words[6]
        BY MembersOfTheFrame
      <3> QED BY <1>5, <2>3, <3>1 DEF Pushed
    <2>4. CASE k \in 18 .. 22
      <3>1. 23 - k \in 1 .. 5 /\ 23 - (23 - k) = k
        BY <2>4
      <3>2. words[23 - k] = CpuFrame[23 - k]
        BY <1>1, <3>1
      <3>3. CpuFrame[23 - k].what = exception_frame_t[23 - (23 - k)]
        BY <3>1, CpuFrameIs
      <3> QED BY <3>1, <3>2, <3>3
    <2> QED BY <2>1, <2>2, <2>3, <2>4
  <1>7. Len(words) = 22
    BY <1>1, <1>2, <1>3
  <1> QED BY <1>5, <1>6, <1>7 DEF words

(* The k-th member of the structure is the k-th word from the bottom. *)
LEMMA MemberIs ==
    ASSUME ErrorCodesAgree, NEW v \in Vectors, NEW f,
           f.words = StackAfter(v, GateOf(v)), NEW k \in 1 .. 22,
           \A m \in 1 .. 22 : exception_frame_t[m] = exception_frame_t[k] => m = k
    PROVE  Member(f, exception_frame_t[k]) = f.words[23 - k]
  <1> DEFINE w == f.words
             name == exception_frame_t[k]
             place == CHOOSE m \in DOMAIN exception_frame_t : exception_frame_t[m] = name
  <1>1. place = k
    BY MembersOfTheFrame
  <1>2. Len(w) = 22
    BY FrameWords
  <1>3. Member(f, name) = Reverse(w)[place]
    BY DEF Member
  <1> HIDE DEF w, place
  <1>4. Reverse(w)[k] = w[23 - k]
    BY <1>2 DEF Reverse
  <1> QED BY <1>1, <1>3, <1>4 DEF w

LEMMA MemberNamed ==
    ASSUME ErrorCodesAgree, NEW v \in Vectors, NEW f,
           f.words = StackAfter(v, GateOf(v)), NEW k \in 1 .. 22
    PROVE  Member(f, exception_frame_t[k]).what = exception_frame_t[k]
  <1> DEFINE w == f.words
             name == exception_frame_t[k]
             place == CHOOSE m \in DOMAIN exception_frame_t : exception_frame_t[m] = name
  <1>1. place \in 1 .. 22 /\ exception_frame_t[place] = name
    BY MembersOfTheFrame
  <1>2. Len(w) = 22 /\ \A m \in 1 .. 22 : w[23 - m].what = exception_frame_t[m]
    BY FrameWords
  <1>3. Member(f, name) = Reverse(w)[place]
    BY DEF Member
  <1> HIDE DEF w, place, name
  <1>4. Reverse(w)[place] = w[23 - place]
    BY <1>1, <1>2 DEF Reverse
  <1>5. Member(f, name).what = name
    BY <1>1, <1>2, <1>3, <1>4
  <1> QED BY <1>5 DEF name

LEMMA FramesAreTrue == ErrorCodesAgree /\ EInv => FrameTrue
  <1> SUFFICES ASSUME ErrorCodesAgree, EInv, NEW j \in DOMAIN frames
               PROVE  LET f == frames[j] IN
                      /\ Len(f.words) = Len(exception_frame_t)
                      /\ \A name \in {exception_frame_t[n] : n \in DOMAIN exception_frame_t} :
                            Member(f, name).what = name
                      /\ Vector(f) = IF f.raised < 32 THEN f.raised ELSE Unknown
                      /\ Member(f, "error_code").n =
                            IF f.raised \in CpuErrorCode THEN f.raised ELSE 0
    BY DEF FrameTrue
  <1> DEFINE f == frames[j]
             v == f.raised
  <1>1. f \in Frames /\ v \in Vectors /\ f.words = StackAfter(v, GateOf(v))
    <2>1. frames \in Seq(Frames) /\ f.words = StackAfter(v, GateOf(v))
      BY DEF EInv, FramesTyped
    <2>2. f \in Frames
      BY <2>1
    <2> HIDE DEF f
    <2>3. f.raised \in Vectors
      BY <2>2 DEF Frames
    <2> QED BY <2>1, <2>2, <2>3
  <1>2. Len(exception_frame_t) = 22 /\ DOMAIN exception_frame_t = 1 .. 22
    BY MembersOfTheFrame
  <1> HIDE DEF f, v
  <1>3. Len(f.words) = 22 /\ f.words[6].n = (IF v \in CpuErrorCode THEN v ELSE 0)
        /\ f.words[7].n = (IF v < 32 THEN v ELSE Unknown)
    <2>1. /\ Len(f.words) = 22
          /\ f.words[6] = Pushed("error_code", IF v \in CpuErrorCode THEN v ELSE 0)
          /\ f.words[7] = Pushed("vector", IF v < 32 THEN v ELSE Unknown)
      BY <1>1, FrameWords
    <2> QED BY <2>1 DEF Pushed
  <1>4. \A n \in 1 .. 22 : Member(f, exception_frame_t[n]).what = exception_frame_t[n]
    BY <1>1, MemberNamed
  <1>5. Member(f, exception_frame_t[16]) = f.words[23 - 16]
        /\ exception_frame_t[16] = "vector"
    BY <1>1, MemberIs, MembersOfTheFrame
  <1>6. Member(f, exception_frame_t[17]) = f.words[23 - 17]
        /\ exception_frame_t[17] = "error_code"
    BY <1>1, MemberIs, MembersOfTheFrame
  <1> QED BY <1>2, <1>3, <1>4, <1>5, <1>6 DEF Vector, f, v

(* exception_dispatch reads the exception that happened: every member of
   exception_frame_t holds what its name says (idt.h:37-46), if the processor
   pushes an error code for the vectors isr.asm expects one for. *)
THEOREM FramesTrue ==
    ASSUME ErrorCodesAgree
    PROVE  Spec => []FrameTrue
  <1>1. EInv => FrameTrue
    BY FramesAreTrue
  <1> QED BY <1>1, ExceptionInvariant, PTL

-----------------------------------------------------------------------------
(* Where the frames are. *)

(* A frame is 22 words, as long as error codes agree. *)
LEMMA FrameSize ==
    ASSUME ErrorCodesAgree, EInv, NEW k \in DOMAIN frames
    PROVE  /\ frames[k].top \in Int /\ frames[k].ist \in {0, 1}
           /\ Bottom(frames[k]) = frames[k].top - 22
  <1>1. frames \in Seq(Frames)
        /\ frames[k].words = StackAfter(frames[k].raised, GateOf(frames[k].raised))
    BY DEF EInv, FramesTyped
  <1>2. frames[k] \in Frames
    BY <1>1
  <1>3. frames[k].top \in Int /\ frames[k].ist \in {0, 1} /\ frames[k].raised \in Vectors
    BY <1>2 DEF Frames, TSS_IST_DOUBLE_FAULT
  <1>4. Len(frames[k].words) = 22
    BY <1>1, <1>3, FrameWords
  <1> QED BY <1>3, <1>4 DEF Bottom

LEMMA InitLayout == Init => Layout
  BY DEF Init, Layout

(* A step that moves no frame. *)
LEMMA SameLayout ==
    ASSUME Layout, DOMAIN frames' = DOMAIN frames,
           DOMAIN frames = 1 .. Len(frames), Len(frames) \in Nat,
           \A k \in DOMAIN frames :
              /\ frames'[k].words = frames[k].words
              /\ frames'[k].top = frames[k].top
              /\ frames'[k].ist = frames[k].ist
    PROVE  Layout'
  <1>1. \A k \in DOMAIN frames : IstAt(k)' <=> IstAt(k)
    BY DEF IstAt
  <1>2. \A k \in DOMAIN frames : Bottom(frames[k])' = Bottom(frames[k])
    BY DEF Bottom
  <1> QED BY <1>1, <1>2 DEF Layout

(* One frame more: its own stack is the one of the frame it is stacked on, or
   it is the first on the double fault's. *)
LEMMA OneMore ==
    ASSUME ErrorCodesAgree, EInv, EInv', Layout,
           NEW f, frames' = Append(frames, f),
           f.top % 2 = 0,
           NEW n \in Nat, n = Len(frames) + 1,
           IF f.ist # 0 \/ (n > 1 /\ IstAt(n - 1))
           THEN IstTop - 24 * n <= f.top - 22 /\ f.top <= IstTop
           ELSE \E top \in StackTops : top - 24 * n <= f.top - 22 /\ f.top <= top,
           \A j \in DOMAIN frames :
              (IstAt(j) <=> f.ist # 0 \/ (n > 1 /\ IstAt(n - 1))) =>
                 f.top <= Bottom(frames[j])
    PROVE  Layout'
  <1>1. /\ frames \in Seq(Frames) /\ frames' \in Seq(Frames)
    BY DEF EInv, FramesTyped
  <1>2. /\ Len(frames) \in Nat /\ DOMAIN frames = 1 .. Len(frames)
        /\ DOMAIN frames' = 1 .. n
        /\ frames'[n] = f /\ \A k \in DOMAIN frames : frames'[k] = frames[k]
    BY <1>1
  <1>3. \A k \in DOMAIN frames : IstAt(k)' <=> IstAt(k)
    BY <1>2 DEF IstAt
  <1>4. IstAt(n)' <=> f.ist # 0 \/ (n > 1 /\ IstAt(n - 1))
    <2>1. IstAt(n)' <=> \E m \in 1 .. n : frames'[m].ist # 0
      BY DEF IstAt
    <2>2. (\E m \in 1 .. n : frames'[m].ist # 0)
             <=> f.ist # 0 \/ \E m \in 1 .. n - 1 : frames[m].ist # 0
      BY <1>2
    <2>3. (\E m \in 1 .. n - 1 : frames[m].ist # 0) <=> n > 1 /\ IstAt(n - 1)
      BY <1>2 DEF IstAt
    <2> QED BY <2>1, <2>2, <2>3
  <1>5. \A k \in DOMAIN frames : Bottom(frames[k])' = Bottom(frames[k])
    BY <1>2 DEF Bottom
  <1>6. Bottom(frames'[n]) = f.top - 22 /\ Bottom(frames[n])' = f.top - 22
        /\ f.top \in Int
    <2>1. /\ frames'[n] \in Frames
          /\ frames'[n].words = StackAfter(frames'[n].raised, GateOf(frames'[n].raised))
      BY <1>1, <1>2 DEF EInv, FramesTyped
    <2>2. frames'[n].raised \in Vectors /\ frames'[n].top \in Int
      BY <2>1 DEF Frames
    <2>3. Len(frames'[n].words) = 22
      BY <2>1, <2>2, FrameWords
    <2> QED BY <1>2, <2>2, <2>3 DEF Bottom
  <1>7. \A k \in DOMAIN frames' :
          /\ frames'[k].top % 2 = 0
          /\ IF IstAt(k)'
             THEN IstTop - 24 * k <= Bottom(frames[k])' /\ frames'[k].top <= IstTop
             ELSE \E top \in StackTops :
                     top - 24 * k <= Bottom(frames[k])' /\ frames'[k].top <= top
    <2> TAKE k \in DOMAIN frames'
    <2>1. CASE k \in DOMAIN frames
      BY <1>2, <1>3, <1>5, <2>1 DEF Layout
    <2>2. CASE k = n
      BY <1>2, <1>4, <1>6, <2>2
    <2> QED BY <1>2, <2>1, <2>2
  <1>8. \A j, k \in DOMAIN frames' :
          j < k /\ (IstAt(j)' <=> IstAt(k)') => frames'[k].top <= Bottom(frames[j])'
    <2> TAKE j, k \in DOMAIN frames'
    <2> SUFFICES ASSUME j < k, IstAt(j)' <=> IstAt(k)'
                 PROVE  frames'[k].top <= Bottom(frames[j])'
      OBVIOUS
    <2>1. j \in DOMAIN frames
      BY <1>2
    <2>2. CASE k \in DOMAIN frames
      BY <1>2, <1>3, <1>5, <2>1, <2>2 DEF Layout
    <2>3. CASE k = n
      BY <1>2, <1>3, <1>4, <1>5, <2>1, <2>3
    <2> QED BY <1>2, <2>2, <2>3
  <1> QED BY <1>7, <1>8 DEF Layout

(* The first frame starts on the stack of the code it interrupts. *)
LEMMA FirstFrame ==
    ASSUME ErrorCodesAgree, EInv, EInv', Layout, frames = <<>>,
           NEW v \in Vectors, v # DoubleFault, NEW address, NEW rsp \in StackTops,
           frames' = Append(frames, Frame(v, address, rsp - (rsp % 2), GateOf(v)))
    PROVE  Layout'
  <1> DEFINE f == Frame(v, address, rsp - (rsp % 2), GateOf(v))
  <1>1. f.top = rsp - (rsp % 2) /\ f.ist = 0
    BY GateFacts DEF Frame
  <1>2. rsp \in Nat
    BY StacksAssumption
  <1> HIDE DEF f
  <1>3. f.top % 2 = 0 /\ f.top <= rsp /\ rsp - 24 <= f.top - 22
    BY <1>1, <1>2
  <1>4. DOMAIN frames = {} /\ Len(frames) = 0
    OBVIOUS
  <1> QED BY <1>1, <1>3, <1>4, OneMore DEF f

LEMMA EvenBelow ==
    ASSUME NEW b \in Int, b % 2 = 0
    PROVE  /\ (b - 1) - ((b - 1) % 2) = b - 2
           /\ (b - 2) - ((b - 2) % 2) = b - 2
  OBVIOUS

(* A nested one starts below the frame of the handler it interrupts, under the
   return address of its call. *)
LEMMA NestedFrame ==
    ASSUME ErrorCodesAgree, EInv, EInv', Layout, frames # <<>>,
           NEW v \in Vectors, v # DoubleFault, NEW address,
           NEW words \in {1, 2}, NEW rsp, rsp = Bottom(frames[Len(frames)]) - words,
           frames' = Append(frames, Frame(v, address, rsp - (rsp % 2), GateOf(v)))
    PROVE  Layout'
  <1> DEFINE f == Frame(v, address, rsp - (rsp % 2), GateOf(v))
             b == Bottom(frames[Len(frames)])
             t == frames[Len(frames)].top
  <1>1. PICK m \in Nat : m = Len(frames) /\ m > 0 /\ DOMAIN frames = 1 .. m
    <2>1. frames \in Seq(Frames)
      BY DEF EInv, FramesTyped
    <2> QED BY <2>1
  <1>2. f.top = rsp - (rsp % 2) /\ f.ist = 0
    BY GateFacts DEF Frame
  <1>3. m \in DOMAIN frames
    BY <1>1
  <1>4. t \in Int /\ b = t - 22 /\ t % 2 = 0
    BY <1>1, <1>3, FrameSize DEF Layout
  <1>5. f.top = b - 2
    <2> HIDE DEF f, b, t
    <2>1. b \in Int /\ b % 2 = 0
      BY <1>4
    <2>2. rsp = b - 1 \/ rsp = b - 2
      BY DEF b
    <2>3. rsp - (rsp % 2) = b - 2
      BY <2>1, <2>2, EvenBelow
    <2> QED BY <1>2, <2>3
  <1> HIDE DEF f
  <1>6. f.top % 2 = 0 /\ f.top = t - 24 /\ f.top - 22 = b - 24
    <2> HIDE DEF b, t
    <2> QED BY <1>4, <1>5
  <1>7. IF IstAt(m) THEN IstTop - 24 * (m + 1) <= f.top - 22 /\ f.top <= IstTop
        ELSE \E top \in StackTops : top - 24 * (m + 1) <= f.top - 22 /\ f.top <= top
    <2>1. CASE IstAt(m)
      <3>1. IstTop - 24 * m <= b /\ t <= IstTop
        BY <1>1, <1>3, <2>1 DEF Layout
      <3> HIDE DEF b, t
      <3> QED BY <1>1, <1>4, <1>6, <2>1, <3>1, StacksAssumption
    <2>2. CASE ~ IstAt(m)
      <3>1. PICK top \in StackTops : top - 24 * m <= b /\ t <= top
        BY <1>1, <1>3, <2>2 DEF Layout
      <3>2. top \in Nat
        BY StacksAssumption
      <3> HIDE DEF b, t
      <3>3. top - 24 * (m + 1) <= f.top - 22 /\ f.top <= top
        BY <1>1, <1>4, <1>6, <3>1, <3>2
      <3> QED BY <2>2, <3>3
    <2> QED BY <2>1, <2>2
  <1>8. ASSUME NEW j \in DOMAIN frames, IstAt(j) <=> IstAt(m)
        PROVE  f.top <= Bottom(frames[j])
    <2>1. CASE j = m
      BY <1>1, <1>4, <1>5, <2>1
    <2>2. CASE j # m
      <3>1. j < m
        BY <1>1, <2>2
      <3>2. t <= Bottom(frames[j])
        BY <1>1, <1>3, <1>8, <3>1 DEF Layout
      <3>3. Bottom(frames[j]) \in Int
        BY FrameSize
      <3> HIDE DEF b, t
      <3> QED BY <1>4, <1>6, <3>2, <3>3
    <2> QED BY <2>1, <2>2
  <1>9. PICK n \in Nat : n = m + 1 /\ n > 1 /\ n - 1 = m /\ n = Len(frames) + 1
    BY <1>1
  <1>10. frames' = Append(frames, f)
    BY DEF f
  <1> QED BY <1>2, <1>6, <1>7, <1>8, <1>9, <1>10, OneMore

(* The double fault's frame goes to the top of its own stack, which no frame
   has been on. *)
LEMMA FirstOnIst ==
    ASSUME ErrorCodesAgree, EInv, EInv', Layout, ~ OnIst, NEW address,
           frames' = Append(frames, Frame(DoubleFault, address, IstTop, GateOf(DoubleFault)))
    PROVE  Layout'
  <1> DEFINE f == Frame(DoubleFault, address, IstTop, GateOf(DoubleFault))
  <1>1. f.top = IstTop /\ f.ist # 0
    <2>1. DoubleFault \in Vectors
      BY VectorsAssumption DEF DoubleFault
    <2>2. GateOf(DoubleFault).ist = TSS_IST_DOUBLE_FAULT
      BY <2>1, GateFacts
    <2>3. f.ist = GateOf(DoubleFault).ist /\ f.top = IstTop
      BY DEF Frame
    <2> QED BY <2>2, <2>3 DEF TSS_IST_DOUBLE_FAULT
  <1>2. IstTop \in Nat /\ IstTop % 2 = 0
    BY StacksAssumption
  <1> HIDE DEF f
  <1>3. PICK n \in Nat : n = Len(frames) + 1 /\ DOMAIN frames = 1 .. n - 1 /\ n > 0
    <2>1. frames \in Seq(Frames)
      BY DEF EInv, FramesTyped
    <2> QED BY <2>1
  <1>4. \A j \in DOMAIN frames : ~ IstAt(j)
    <2>1. \A k \in DOMAIN frames : frames[k].ist = 0
      BY DEF OnIst
    <2> QED BY <1>3, <2>1 DEF IstAt
  <1>5. IstTop - 24 * n <= f.top - 22 /\ f.top <= IstTop /\ f.top % 2 = 0
    BY <1>1, <1>2, <1>3
  <1> QED BY <1>1, <1>3, <1>4, <1>5, OneMore DEF f

LEMMA NextLayout ==
    ErrorCodesAgree /\ EInv /\ EInv' /\ Layout /\ [Next]_vars => Layout'
  <1> SUFFICES ASSUME ErrorCodesAgree, EInv, EInv', Layout, [Next]_vars
               PROVE  Layout'
    OBVIOUS
  <1>1. frames \in Seq(Frames) /\ DOMAIN frames = 1 .. Len(frames) /\ Len(frames) \in Nat
    BY DEF EInv, FramesTyped
  <1>2. CASE UNCHANGED frames
    BY <1>1, <1>2, SameLayout
  <1>3. CASE Report
    <2>1. PICK from, to \in Steps : Dispatch(from, to)
      BY <1>3 DEF Report, Banner, PrintCr2, PrintRegisters, Steps
    <2>2. /\ DOMAIN frames' = DOMAIN frames
          /\ \A k \in DOMAIN frames :
                /\ frames'[k].words = frames[k].words
                /\ frames'[k].top = frames[k].top
                /\ frames'[k].ist = frames[k].ist
      BY <2>1, DispatchKeeps
    <2> QED BY <1>1, <2>2, SameLayout
  <1>4. ASSUME NEW v \in Vectors, Exception(v) PROVE Layout'
    <2>1. PICK rsp \in InterruptedRsp, usable \in {TRUE, OnIst},
               address \in (IF v = PageFault THEN Addresses ELSE {cr2}) :
               IF idtr = "kernel" THEN DeliverByKernel(v, address, rsp, usable)
                                  ELSE DeliverByFirmware
      BY <1>4 DEF Exception
    <2>2. v # DoubleFault
      BY <1>4 DEF Exception
    <2>3. CASE idtr # "kernel"
      BY <1>2, <2>1, <2>3 DEF DeliverByFirmware
    <2>4. CASE idtr = "kernel"
      <3>1. usable \in BOOLEAN
        BY <2>1 DEF OnIst
      <3>2. \/ /\ usable
               /\ frames' = Append(frames, Frame(v, address, rsp - (rsp % 2), GateOf(v)))
            \/ /\ ~ usable
               /\ frames' = Append(frames, Frame(DoubleFault, address, IstTop,
                                                 GateOf(DoubleFault)))
        BY <2>1, <2>2, <2>4, <3>1, KernelDelivers
      <3>3. CASE frames' = Append(frames, Frame(v, address, rsp - (rsp % 2), GateOf(v)))
        <4>1. CASE frames = <<>>
          BY <2>2, <3>3, <4>1, FirstFrame DEF InterruptedRsp
        <4>2. CASE frames # <<>>
          <5>1. PICK words \in {1, 2} : rsp = Bottom(frames[Len(frames)]) - words
            BY <4>2 DEF InterruptedRsp
          <5> QED BY <2>2, <3>3, <4>2, <5>1, NestedFrame
        <4> QED BY <4>1, <4>2
      <3>4. CASE ~ usable /\ frames' = Append(frames, Frame(DoubleFault, address, IstTop,
                                                            GateOf(DoubleFault)))
        <4>1. ~ OnIst
          BY <2>1, <3>4
        <4> QED BY <3>4, <4>1, FirstOnIst
      <3> QED BY <3>2, <3>3, <3>4
    <2> QED BY <2>3, <2>4
  <1>5. CASE Boot
    BY <1>2, <1>5 DEF Boot, Statement, BuildGdt, LoadGdt, ReloadData, FarReturn,
                      FillTss, gdt_set_tss, LoadTaskRegister, FillShared, FillStubs,
                      FillDoubleFault, LoadIdt
  <1>6. CASE Idle
    BY <1>2, <1>6 DEF Idle, vars
  <1> QED BY <1>2, <1>3, <1>4, <1>5, <1>6 DEF Next, vars

LEMMA LayoutAligns == ErrorCodesAgree /\ EInv /\ Layout => CallAligned
  <1> SUFFICES ASSUME ErrorCodesAgree, EInv, Layout, NEW k \in DOMAIN frames
               PROVE  Bottom(frames[k]) % 2 = 0
    BY DEF CallAligned
  <1>1. frames[k].top \in Int /\ frames[k].top % 2 = 0
    BY FrameSize DEF Layout
  <1>2. Bottom(frames[k]) = frames[k].top - 22
    BY FrameSize
  <1> QED BY <1>1, <1>2

LEMMA LayoutKeepsApart ==
    ASSUME ErrorCodesAgree, EInv, Layout,
           NEW j \in DOMAIN frames, NEW k \in DOMAIN frames, j < k
    PROVE  Words(frames[j]) \cap Words(frames[k]) = {}
  <1> DEFINE bj == Bottom(frames[j])
             bk == Bottom(frames[k])
             tj == frames[j].top
             tk == frames[k].top
  <1>1. /\ tj \in Int /\ bj = tj - 22 /\ tk \in Int /\ bk = tk - 22
    BY FrameSize
  <1>2. j \in Nat /\ k \in Nat /\ k <= MaxNested /\ MaxNested \in Nat
    <2>1. frames \in Seq(Frames) /\ Len(frames) <= MaxNested
      BY DEF EInv, FramesTyped, TypeOK
    <2>2. j \in 1 .. Len(frames) /\ k \in 1 .. Len(frames) /\ Len(frames) \in Nat
      BY <2>1
    <2> QED BY <2>1, <2>2, StacksAssumption
  <1>3. CASE IstAt(j) <=> IstAt(k)
    <2>1. tk <= bj
      BY <1>3 DEF Layout
    <2> HIDE DEF bj, bk, tj, tk
    <2>2. (bj .. tj - 1) \cap (bk .. tk - 1) = {}
      BY <1>1, <2>1
    <2> QED BY <2>2 DEF Words, bj, bk, tj, tk
  <1>4. CASE ~ (IstAt(j) <=> IstAt(k))
    <2>1. ~ IstAt(j) /\ IstAt(k)
      BY <1>2, <1>4 DEF IstAt
    <2>2. IstTop - 24 * k <= bk /\ tk <= IstTop
      BY <2>1 DEF Layout
    <2>3. PICK top \in StackTops : top - 24 * j <= bj /\ tj <= top
      BY <2>1 DEF Layout
    <2>4. /\ top \in Nat /\ IstTop \in Nat /\ IstWords \in Nat
          /\ 24 * MaxNested <= IstWords
          /\ top <= IstTop - IstWords \/ top >= IstTop + 24 * MaxNested
      BY StacksAssumption
    <2> HIDE DEF bj, bk, tj, tk
    <2>5. tj <= bk \/ tk <= bj
      BY <1>1, <1>2, <2>2, <2>3, <2>4
    <2>6. (bj .. tj - 1) \cap (bk .. tk - 1) = {}
      BY <1>1, <2>5
    <2> QED BY <2>6 DEF Words, bj, bk, tj, tk
  <1> QED BY <1>3, <1>4

LEMMA LayoutKeepsEvidence == ErrorCodesAgree /\ EInv /\ Layout => EvidenceKept
  <1> SUFFICES ASSUME ErrorCodesAgree, EInv, Layout PROVE EvidenceKept
    OBVIOUS
  <1>1. frames \in Seq(Frames) /\ Len(frames) <= MaxNested
    BY DEF EInv, FramesTyped, TypeOK
  <1>2. ASSUME NEW j \in DOMAIN frames, NEW k \in DOMAIN frames, j # k
        PROVE  Words(frames[j]) \cap Words(frames[k]) = {}
    <2>1. j < k \/ k < j
      BY <1>1, <1>2
    <2>2. CASE j < k
      BY <2>2, LayoutKeepsApart
    <2>3. CASE k < j
      <3>1. Words(frames[k]) \cap Words(frames[j]) = {}
        BY <2>3, LayoutKeepsApart
      <3> QED BY <3>1
    <2> QED BY <2>1, <2>2, <2>3
  <1>3. ASSUME NEW j \in DOMAIN frames, frames[j].ist # 0
        PROVE  Words(frames[j]) \subseteq IstTop - IstWords .. IstTop - 1
    <2> DEFINE b == Bottom(frames[j])
               t == frames[j].top
    <2>1. j \in Nat /\ j <= MaxNested /\ j \in 1 .. j
      BY <1>1, StacksAssumption
    <2>2. IstAt(j)
      BY <1>3, <2>1 DEF IstAt
    <2>3. IstTop - 24 * j <= b /\ t <= IstTop /\ t \in Int /\ b = t - 22
      BY <2>2, FrameSize DEF Layout
    <2> HIDE DEF b, t
    <2>4. (b .. t - 1) \subseteq IstTop - IstWords .. IstTop - 1
      BY <2>1, <2>3, StacksAssumption
    <2> QED BY <2>4 DEF Words, b, t
  <1> QED BY <1>2, <1>3 DEF EvidenceKept

(* Frames nest on the stack they were taken on, the double fault's among
   them, each below the one before. *)
THEOREM FramesNest ==
    ASSUME ErrorCodesAgree
    PROVE  Spec => []Layout
  <1>1. Init => Layout
    BY InitLayout
  <1>2. EInv /\ EInv' /\ Layout /\ [Next]_vars => Layout'
    BY NextLayout
  <1> QED BY <1>1, <1>2, ExceptionInvariant, PTL DEF Spec

(* RSP is 16-byte aligned at the call of exception_dispatch, whatever it was
   when the exception struck (isr.asm:109-113). *)
THEOREM CallsAligned ==
    ASSUME ErrorCodesAgree
    PROVE  Spec => []CallAligned
  <1>1. EInv /\ Layout => CallAligned
    BY LayoutAligns
  <1> QED BY <1>1, ExceptionInvariant, FramesNest, PTL

(* No exception overwrites the frame of one that is still being reported, and
   a double fault stays on its own stack (idt.c:214-216), as long as that stack
   takes the reports and the other stacks are apart from it. *)
THEOREM EvidenceIsKept ==
    ASSUME ErrorCodesAgree
    PROVE  Spec => []EvidenceKept
  <1>1. EInv /\ Layout => EvidenceKept
    BY LayoutKeepsEvidence
  <1> QED BY <1>1, ExceptionInvariant, FramesNest, PTL

=============================================================================
