----------------------------- MODULE Exceptions -----------------------------
(***************************************************************************)
(* The kernel's descriptor tables and its exception path: gdt_init and     *)
(* gdt_flush, tss_init, idt_init (project/kernel/arch/x86_64/gdt.c,        *)
(* gdt_flush.asm, tss.c, idt.c), the stubs of isr.asm and                  *)
(* exception_dispatch.  An exception may strike at any statement, on a     *)
(* stack that may be broken, and while another one is being reported.      *)
(*                                                                         *)
(* The tables are modelled with the address fields as they are split, and  *)
(* the processor reassembles them; a stack is counted in 8-byte words.     *)
(***************************************************************************)
EXTENDS Integers, Sequences, SequencesExt

CONSTANTS
    Byte,               \* values of a byte of an address               (256)
    Vectors,            \* the vectors that may fire, 8 among them
    CpuErrorCode,       \* those the processor pushes an error code for
    isr_stub,           \* the address of the stub of each vector below 32
    isr_unhandled,      \* the address of the shared stub
    TssAddress,         \* &tss
    StackTops,          \* words where the interrupted code's stack may end
    IstTop,             \* double_fault_stack + DOUBLE_FAULT_STACK_SIZE
    IstWords,           \* words of double_fault_stack                  (512)
    FirmwareSelector,   \* the code selector in the firmware's own gates
    Addresses,          \* addresses a page fault may be about
    MaxNested           \* exceptions under way at once, at most

ASSUME VectorsAssumption == Vectors \subseteq Nat /\ 8 \in Vectors

(* double_fault_stack is aligned and takes MaxNested reports, 24 words each
   with its alignment and its return address; no other stack is as close to
   it as that. *)
ASSUME StacksAssumption ==
    /\ MaxNested \in Nat
    /\ IstTop \in Nat \ {0} /\ IstTop % 2 = 0
    /\ IstWords \in Nat /\ 24 * MaxNested <= IstWords
    /\ \A top \in StackTops :
          /\ top \in Nat
          /\ top <= IstTop - IstWords \/ top >= IstTop + 24 * MaxNested

VARIABLES
    pc,         \* the statement of gdt_init or idt_init, "run" afterwards
    gdt,        \* the rows of the table
    tss,        \* the IST array, indexed from 1; 0 is unset
    idt,        \* the gates
    gdtr,       \* whose table lgdt loaded last
    idtr,       \* whose table lidt loaded last
    tr,         \* the TSS base ltr loaded, -1 for none
    cs, ss,     \* the code and the data selectors
    cr2,        \* the address of the last page fault
    frames,     \* the exceptions being reported, the innermost last
    printed,    \* (ghost) <<frame number, CR2>> for each CR2 line of the log
    status      \* "running", "firmware" (its handler took over) or "reset"

tables == <<gdt, tss, idt>>
registers == <<gdtr, idtr, tr, cs, ss>>
vars == <<pc, tables, registers, cr2, frames, printed, status>>

DoubleFault == 8
PageFault == 14

GDT_SEL_KERNEL_CODE == 8
GDT_SEL_KERNEL_DATA == 16
GDT_SEL_TSS == 24
GDT_INDEX_TSS == 3
GDT_ENTRIES == 5
TSS_IST_DOUBLE_FAULT == 1

-----------------------------------------------------------------------------
(* Fields: an address is cut into bytes when a table is written, and put
   together again when the processor reads it. *)

Width(bytes) ==
    CASE bytes = 0 -> 1
      [] bytes = 1 -> Byte
      [] bytes = 2 -> Byte * Byte
      [] bytes = 3 -> Byte * Byte * Byte
      [] bytes = 4 -> Byte * Byte * Byte * Byte

Uintptr == 0 .. Width(4) * Width(4) - 1

ASSUME AddressesAssumption ==
    /\ Byte \in Nat \ {0}
    /\ TssAddress \in Uintptr
    /\ isr_stub \in [0 .. 31 -> Uintptr]
    /\ \A u, v \in 0 .. 31 : isr_stub[u] = isr_stub[v] => u = v
    /\ isr_unhandled \in Uintptr
    /\ \A v \in 0 .. 31 : isr_stub[v] # isr_unhandled

BytesOf(address, first, count) == (address \div Width(first)) % Width(count)

At(field, byte) == field * Width(byte)

NullRow == [kind |-> "null", fields |-> <<>>]

gdt_set(kind) == [kind |-> kind, fields |-> <<>>]

(* Mutant: one field of the base is forgotten. *)
TssRow_without_bits_24_31(base) ==
    [kind |-> "tss", fields |-> <<BytesOf(base, 0, 2), BytesOf(base, 2, 1), 0>>]

(* The rows of the TSS descriptor: base 0-15, 16-23, 24-31, then 32-63. *)
TssRow(base) ==
    [kind |-> "tss",
     fields |-> <<BytesOf(base, 0, 2), BytesOf(base, 2, 1), BytesOf(base, 3, 1)>>]
TssUpperRow(base) == [kind |-> "upper", fields |-> <<BytesOf(base, 4, 4)>>]

TssBase(row, upper) ==
    At(row.fields[1], 0) + At(row.fields[2], 2) + At(row.fields[3], 3)
        + At(upper.fields[1], 4)

NoGate == [present |-> FALSE, offset |-> <<0, 0, 0>>, selector |-> 0, ist |-> 0]

idt_set_gate(handler, ist) ==
    [present |-> TRUE,
     offset |-> <<BytesOf(handler, 0, 2), BytesOf(handler, 2, 2), BytesOf(handler, 4, 4)>>,
     selector |-> GDT_SEL_KERNEL_CODE,
     ist |-> ist % 8]

GateOffset(gate) ==
    At(gate.offset[1], 0) + At(gate.offset[2], 2) + At(gate.offset[3], 4)

(* What a selector names in the kernel's table. *)
RowKind(selector) ==
    IF selector \div 8 \in DOMAIN gdt THEN gdt[selector \div 8].kind ELSE "none"

-----------------------------------------------------------------------------
Init ==
    /\ pc = "gdt"
    /\ gdt = [row \in 0 .. GDT_ENTRIES - 1 |-> NullRow]
    /\ tss = [slot \in 1 .. 7 |-> 0]
    /\ idt = [v \in Vectors |-> NoGate]
    /\ gdtr = "firmware"
    /\ idtr = "firmware"
    /\ tr = -1
    /\ cs = FirmwareSelector
    /\ ss = 0
    /\ cr2 = 0
    /\ frames = <<>>
    /\ printed = <<>>
    /\ status = "running"

(* The boot code goes from one statement to the next while nothing strikes. *)
Statement(label, next) ==
    /\ pc = label
    /\ pc' = next
    /\ status = "running"
    /\ frames = <<>>
    /\ UNCHANGED <<cr2, frames, printed, status>>

BuildGdt ==
    /\ Statement("gdt", "lgdt")
    /\ gdt' = [gdt EXCEPT ![0] = NullRow, ![1] = gdt_set("code"), ![2] = gdt_set("data")]
    /\ UNCHANGED <<tss, idt, registers>>

LoadGdt ==
    /\ Statement("lgdt", "data")
    /\ gdtr' = "kernel"
    /\ UNCHANGED <<tables, idtr, tr, cs, ss>>

(* ds, es, ss, fs and gs; a selector that names no data row would fault. *)
ReloadData ==
    /\ Statement("data", "retfq")
    /\ RowKind(GDT_SEL_KERNEL_DATA) = "data"
    /\ ss' = GDT_SEL_KERNEL_DATA
    /\ UNCHANGED <<tables, gdtr, idtr, tr, cs>>

FarReturn ==
    /\ Statement("retfq", "tss")
    /\ RowKind(GDT_SEL_KERNEL_CODE) = "code"
    /\ cs' = GDT_SEL_KERNEL_CODE
    /\ UNCHANGED <<tables, gdtr, idtr, tr, ss>>

(* tss_init. *)
FillTss ==
    /\ Statement("tss", "tssrow")
    /\ tss' = [tss EXCEPT ![TSS_IST_DOUBLE_FAULT] = IstTop]
    /\ UNCHANGED <<gdt, idt, registers>>

gdt_set_tss ==
    /\ Statement("tssrow", "ltr")
    /\ gdt' = [gdt EXCEPT ![GDT_INDEX_TSS] = TssRow(TssAddress),
                          ![GDT_INDEX_TSS + 1] = TssUpperRow(TssAddress)]
    /\ UNCHANGED <<tss, idt, registers>>

LoadTaskRegister ==
    /\ Statement("ltr", "shared")
    /\ RowKind(GDT_SEL_TSS) = "tss"
    /\ tr' = TssBase(gdt[GDT_INDEX_TSS], gdt[GDT_INDEX_TSS + 1])
    /\ UNCHANGED <<tables, gdtr, idtr, cs, ss>>

(* idt_init: every gate, then the first 32, then the double fault's again. *)
FillShared ==
    /\ Statement("shared", "stubs")
    /\ idt' = [v \in Vectors |-> idt_set_gate(isr_unhandled, 0)]
    /\ UNCHANGED <<gdt, tss, registers>>

(* Mutant: every exception is taken on the double fault's stack. *)
FillStubs_all_on_ist ==
    /\ Statement("stubs", "double")
    /\ idt' = [v \in Vectors |->
                 IF v < 32 THEN idt_set_gate(isr_stub[v], TSS_IST_DOUBLE_FAULT)
                 ELSE idt[v]]
    /\ UNCHANGED <<gdt, tss, registers>>

FillStubs ==
    /\ Statement("stubs", "double")
    /\ idt' = [v \in Vectors |->
                 IF v < 32 THEN idt_set_gate(isr_stub[v], 0) ELSE idt[v]]
    /\ UNCHANGED <<gdt, tss, registers>>

(* Mutant: the double fault stays on the stack of whatever it struck. *)
FillDoubleFault_without_ist ==
    /\ Statement("double", "lidt")
    /\ idt' = [idt EXCEPT ![DoubleFault] = idt_set_gate(isr_stub[DoubleFault], 0)]
    /\ UNCHANGED <<gdt, tss, registers>>

FillDoubleFault ==
    /\ Statement("double", "lidt")
    /\ idt' = [idt EXCEPT ![DoubleFault] =
                 idt_set_gate(isr_stub[DoubleFault], TSS_IST_DOUBLE_FAULT)]
    /\ UNCHANGED <<gdt, tss, registers>>

LoadIdt ==
    /\ Statement("lidt", "run")
    /\ idtr' = "kernel"
    /\ UNCHANGED <<tables, gdtr, tr, cs, ss>>

Boot ==
    \/ BuildGdt \/ LoadGdt \/ ReloadData \/ FarReturn
    \/ FillTss \/ gdt_set_tss \/ LoadTaskRegister
    \/ FillShared \/ FillStubs \/ FillDoubleFault \/ LoadIdt

-----------------------------------------------------------------------------
(* The stubs: what each leaves on the stack, in the order it is pushed. *)

Pushed(what, n) == [what |-> what, n |-> n]
Push(names) == [k \in DOMAIN names |-> Pushed(names[k], 0)]

CpuFrame == Push(<<"ss", "rsp", "rflags", "cs", "rip">>)

(* Mutant: the alignment check has the wrong stub shape. *)
ISR_ERRCODE_without_17 == {8, 10, 11, 12, 13, 14, 21}

(* The ISR_ERRCODE lines of isr.asm; all the others are ISR_NOERRCODE. *)
ISR_ERRCODE == {8, 10, 11, 12, 13, 14, 17, 21}

Unknown == 255

Stub(address) ==
    IF address = isr_unhandled
    THEN <<Pushed("error_code", 0), Pushed("vector", Unknown)>>
    ELSE LET v == CHOOSE u \in DOMAIN isr_stub : isr_stub[u] = address IN
         (IF v \in ISR_ERRCODE THEN <<>> ELSE <<Pushed("error_code", 0)>>)
             \o <<Pushed("vector", v)>>

(* Mutant: one register is not saved. *)
isr_common_without_r15 ==
    Push(<<"rax", "rbx", "rcx", "rdx", "rsi", "rdi", "rbp", "r8",
           "r9", "r10", "r11", "r12", "r13", "r14">>)

isr_common ==
    Push(<<"rax", "rbx", "rcx", "rdx", "rsi", "rdi", "rbp", "r8",
           "r9", "r10", "r11", "r12", "r13", "r14", "r15">>)

(* exception_frame_t, from the lowest address up. *)
exception_frame_t ==
    <<"r15", "r14", "r13", "r12", "r11", "r10", "r9", "r8", "rbp", "rdi", "rsi",
      "rdx", "rcx", "rbx", "rax", "vector", "error_code",
      "rip", "cs", "rflags", "rsp", "ss">>

StackAfter(v, gate) ==
    CpuFrame \o (IF v \in CpuErrorCode THEN <<Pushed("error_code", v)>> ELSE <<>>)
             \o Stub(GateOffset(gate)) \o isr_common

(* A frame: the exception, where its words are, and how far its report is. *)
Frame(v, address, top, gate) ==
    [raised |-> v, address |-> address, words |-> StackAfter(v, gate),
     top |-> top, ist |-> gate.ist, step |-> "banner"]

Bottom(f) == f.top - Len(f.words)
Member(f, name) ==
    Reverse(f.words)[CHOOSE k \in DOMAIN exception_frame_t : exception_frame_t[k] = name]
Vector(f) == Member(f, "vector").n

-----------------------------------------------------------------------------
(* The processor delivers an exception. *)

IstSlot(gate) == IF tr = TssAddress THEN tss[gate.ist] ELSE 0

(* A code selector, and a stack that can take the frame. *)
Deliverable(gate, usable) ==
    /\ gate.present
    /\ RowKind(gate.selector) = "code"
    /\ IF gate.ist = 0 THEN usable ELSE IstSlot(gate) # 0

StackTopOf(gate, rsp) == IF gate.ist = 0 THEN rsp - (rsp % 2) ELSE IstSlot(gate)

Enter(v, address, rsp) ==
    /\ frames' = Append(frames, Frame(v, address, StackTopOf(idt[v], rsp), idt[v]))
    /\ UNCHANGED status

(* If it cannot be delivered a double fault is tried, and then nothing. *)
DeliverByKernel(v, address, rsp, usable) ==
    \/ /\ Deliverable(idt[v], usable)
       /\ Enter(v, address, rsp)
    \/ /\ ~ Deliverable(idt[v], usable)
       /\ Deliverable(idt[DoubleFault], usable)
       /\ Enter(DoubleFault, address, rsp)
    \/ /\ ~ Deliverable(idt[v], usable)
       /\ ~ Deliverable(idt[DoubleFault], usable)
       /\ status' = "reset"
       /\ UNCHANGED frames

(* The firmware's gates.  Boot services are gone, and nobody promises that a
   handler of theirs still works: the machine may reset at once (idt.h:9-14).
   It has to when the firmware's selector is no longer code, that is when the
   table under it has been replaced. *)
DeliverByFirmware ==
    /\ \/ status' = "reset"
       \/ /\ gdtr = "firmware" \/ RowKind(FirmwareSelector) = "code"
          /\ status' = "firmware"
    /\ UNCHANGED frames

(* The stack pointer of the code that is interrupted: a handler's is below its
   frame, the return address of the call on it. *)
InterruptedRsp ==
    IF frames = <<>> THEN StackTops
    ELSE {Bottom(frames[Len(frames)]) - words : words \in {1, 2}}

(* A handler on the double fault stack has a good stack; other code may have
   been interrupted exactly because its stack is gone. *)
OnIst == frames # <<>> /\ \E k \in DOMAIN frames : frames[k].ist # 0

Exception(v) ==
    /\ status = "running"
    /\ v # DoubleFault
    /\ Len(frames) < MaxNested
    /\ \E rsp \in InterruptedRsp, usable \in {TRUE, OnIst},
          address \in (IF v = PageFault THEN Addresses ELSE {cr2}) :
          /\ cr2' = address
          /\ IF idtr = "kernel" THEN DeliverByKernel(v, address, rsp, usable)
                                ELSE DeliverByFirmware
    /\ UNCHANGED <<pc, tables, registers, printed>>

-----------------------------------------------------------------------------
(* exception_dispatch reports the innermost exception, then halts. *)

Innermost == Len(frames)

Dispatch(from, to) ==
    /\ status = "running"
    /\ frames # <<>>
    /\ frames[Innermost].step = from
    /\ frames' = [frames EXCEPT ![Innermost].step = to]
    /\ UNCHANGED <<pc, tables, registers, cr2, status>>

Banner == Dispatch("banner", "cr2") /\ UNCHANGED printed

PrintCr2 ==
    /\ Dispatch("cr2", "registers")
    /\ printed' = IF Vector(frames[Innermost]) = PageFault
                    THEN Append(printed, <<Innermost, cr2>>) ELSE printed

(* Mutants: a nested handler returns to the one it interrupted; the report
   starts again instead of halting. *)
PrintRegisters_then_return ==
    /\ status = "running"
    /\ Innermost > 1
    /\ frames[Innermost].step = "registers"
    /\ frames' = SubSeq(frames, 1, Innermost - 1)
    /\ UNCHANGED <<pc, tables, registers, cr2, printed, status>>

PrintRegisters_again == Dispatch("registers", "banner") /\ UNCHANGED printed

PrintRegisters == Dispatch("registers", "halted") /\ UNCHANGED printed

Report == Banner \/ PrintCr2 \/ PrintRegisters

(* hlt: in the pattern's loop, in the handler's, or the machine is gone. *)
Idle ==
    /\ \/ status # "running"
       \/ frames = <<>> /\ pc = "run"
       \/ frames # <<>> /\ frames[Innermost].step = "halted"
    /\ UNCHANGED vars

Next == Boot \/ (\E v \in Vectors : Exception(v)) \/ Report \/ Idle

Spec == Init /\ [][Next]_vars /\ WF_vars(Boot) /\ WF_vars(Report)

-----------------------------------------------------------------------------
(* Properties. *)

TypeOK ==
    /\ pc \in {"gdt", "lgdt", "data", "retfq", "tss", "tssrow", "ltr", "shared",
               "stubs", "double", "lidt", "run"}
    /\ DOMAIN gdt = 0 .. GDT_ENTRIES - 1
    /\ DOMAIN tss = 1 .. 7
    /\ DOMAIN idt = Vectors
    /\ gdtr \in {"firmware", "kernel"}
    /\ idtr \in {"firmware", "kernel"}
    /\ tr \in {-1, TssAddress}
    /\ Len(frames) <= MaxNested
    /\ status \in {"running", "firmware", "reset"}

(* "Installing the table turns every such fault into a register dump"
   (idt.h:13-14): from lidt on no exception resets the machine or ends in a
   handler of the firmware's, also when the stack is gone or another one is
   being reported (tss.h:17-24).  Everything a gate depends on, the segments,
   the task register and the IST slot, is there before the table is loaded. *)
ReportedOnceLoaded == status # "running" => idtr = "firmware"

(* Every member of exception_frame_t holds what its name says, with or without
   an error code of the processor's: the push order and the structure agree
   (idt.h:37-46), and so do the stub's shape and the vector. *)
FrameTrue ==
    \A k \in DOMAIN frames : LET f == frames[k] IN
        /\ Len(f.words) = Len(exception_frame_t)
        /\ \A name \in {exception_frame_t[n] : n \in DOMAIN exception_frame_t} :
              Member(f, name).what = name
        /\ Vector(f) = IF f.raised < 32 THEN f.raised ELSE Unknown
        /\ Member(f, "error_code").n = IF f.raised \in CpuErrorCode THEN f.raised ELSE 0

(* RSP is 16-byte aligned at the call of exception_dispatch, whatever it was
   when the exception struck (isr.asm:109-113). *)
CallAligned == \A k \in DOMAIN frames : Bottom(frames[k]) % 2 = 0

Words(f) == Bottom(f) .. f.top - 1

(* No exception overwrites the frame of one that is still being reported, and
   a double fault stays on its own stack ("halt before anything overwrites the
   evidence", idt.c:214-216). *)
EvidenceKept ==
    \A j, k \in DOMAIN frames :
        /\ j # k => Words(frames[j]) \cap Words(frames[k]) = {}
        /\ frames[j].ist # 0 => Words(frames[j]) \subseteq IstTop - IstWords .. IstTop - 1

(* The CR2 in the log is the address that exception was about: no nested page
   fault gets between the fault and the line that prints it (idt.c:232-235). *)
Cr2True ==
    \A k \in DOMAIN printed :
        printed[k][1] \in DOMAIN frames => frames[printed[k][1]].address = printed[k][2]

(* An exception is reported to the end, unless another one strikes. *)
ReportEnds ==
    frames # <<>> ~> (frames # <<>> /\ frames[Innermost].step = "halted")

=============================================================================
