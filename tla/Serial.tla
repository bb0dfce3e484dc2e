------------------------------- MODULE Serial -------------------------------
(***************************************************************************)
(* The serial log, project/kernel/dev/serial.c, over the 16550 it drives.  *)
(* serial_init sets the UART up through registers that share addresses;    *)
(* serial_printf expands a format and serial_putc polls until the transmit *)
(* FIFO is empty before each byte.  Both halves of the system use it: the  *)
(* bootloader, and then the kernel, which sets the UART up once more.      *)
(* From idt_init on an exception may strike at any step of this code, and  *)
(* exception_dispatch (idt.c) writes its report over the same UART.        *)
(*                                                                         *)
(* A character is a one-letter string; "nl" and "cr" are \n and \r, "%" is *)
(* the percent sign, and the end of a format is its terminator.            *)
(***************************************************************************)
EXTENDS Integers, Sequences, SequencesExt

CONSTANTS
    Program,    \* the calls of the two halves: [call, fmt, args], and the text
                \* each is to print
    Report,     \* the calls of exception_dispatch, likewise
    IdtLoaded,  \* the first call of Program made with the kernel's IDT loaded
    Characters, \* what a char may be
    HexDigits,  \* digits of serial_put_hex                  (16)
    DecBuffer,  \* the buffer of serial_put_dec              (21)
    Leftovers   \* what the firmware may have left in the UART

(* The log begins with serial_init: efi_main, boot/main.c.  The kernel's comes
   before idt_init, and exception_dispatch only prints. *)
ASSUME ProgramAssumption ==
    /\ Len(Program) \in Nat \ {0} /\ DOMAIN Program = 1 .. Len(Program)
    /\ Len(Report) \in Nat /\ DOMAIN Report = 1 .. Len(Report)
    /\ Program[1].call = "serial_init"
    /\ IdtLoaded \in Nat
    /\ \A k \in DOMAIN Program : k >= IdtLoaded => Program[k].call = "serial_printf"
    /\ \A k \in DOMAIN Report : Report[k].call = "serial_printf"

(* The longest number, in decimal, fits the buffer (serial.c:141). *)
ASSUME BufferAssumption ==
    {HexDigits, DecBuffer} \subseteq Nat /\ 16 ^ HexDigits <= 10 ^ DecBuffer

ASSUME LeftoversAssumption == Leftovers \subseteq Seq({0})

VARIABLES
    cut,        \* bytes sent when an exception struck, -1 before
    call,       \* the call of Script being executed
    step,       \* serial_init: the outb it is at; serial_printf: the index p
    arg,        \* serial_printf: the next argument of the list
    todo,       \* characters handed to serial_putc and not yet to the UART
    cr,         \* serial_putc: has the '\r' of this '\n' been written?
    dlab,       \* the divisor latch bit of the line control register
    divisor,    \* the divisor latch, its low and its high byte
    line,       \* the word format bits of the line control register
    fifo,       \* the transmit FIFO
    shift,      \* the shift register: the byte on its way out, or none
    wire,       \* what has left the UART
    sent,       \* (ghost) every byte written to the data register
    lost        \* (ghost) the indexes in sent of bytes that were discarded

software == <<cut, call, step, arg, todo, cr>>
uart == <<dlab, divisor, line, fifo, shift, wire>>
vars == <<software, uart, sent, lost>>

Struck == cut >= 0
Script == IF Struck THEN Report ELSE Program

Calls == DOMAIN Script
Current == Script[call]
Running == call \in Calls

(* A byte of the log is the index it has in sent; 0 is the firmware's. *)
Init ==
    /\ cut = -1
    /\ call = 1
    /\ step = 1
    /\ arg = 1
    /\ todo = <<>>
    /\ cr = FALSE
    /\ dlab \in BOOLEAN
    /\ divisor \in [low : {1, 12}, high : {0, 1}]
    /\ line \in {"8N1", "other"}
    /\ fifo \in Leftovers
    /\ shift = <<>>
    /\ wire = <<>>
    /\ sent = <<>>
    /\ lost = {}

ReturnFromCall ==
    /\ call' = call + 1
    /\ step' = 1
    /\ arg' = 1
    /\ UNCHANGED cut

-----------------------------------------------------------------------------
(* The registers, written with outb. *)

DataRegister(byte) ==
    IF dlab THEN divisor' = [divisor EXCEPT !.low = byte] /\ UNCHANGED fifo
            ELSE fifo' = Append(fifo, byte) /\ UNCHANGED divisor

(* With the latch off this is the interrupt mask, which nothing here reads. *)
InterruptRegister(byte) ==
    /\ divisor' = IF dlab THEN [divisor EXCEPT !.high = byte] ELSE divisor
    /\ UNCHANGED fifo

(* DLAB and the word format are one register: 0x80 clears the format, and 0x03
   the latch. *)
LineControl(register) ==
    CASE register = "dlab" -> dlab' = TRUE /\ line' = "other"
      [] register = "line" -> dlab' = FALSE /\ line' = "8N1"
      [] OTHER             -> UNCHANGED <<dlab, line>>

(* Mutants: the divisor latch stays on; its high byte is written too late. *)
InitWrites_latch_left_on == <<"int", "dlab", "low", "high", "fifo", "modem">>
InitWrites_high_too_late == <<"int", "dlab", "low", "line", "high", "fifo", "modem">>

(* serial_init: interrupts off, DLAB on, the divisor's two bytes, DLAB off
   with 8N1, FIFOs on and cleared, modem lines on. *)
InitWrites == <<"int", "dlab", "low", "high", "line", "fifo", "modem">>

SerialInit ==
    /\ Running
    /\ Current.call = "serial_init"
    /\ step <= Len(InitWrites)
    /\ LET register == InitWrites[step] IN
          /\ LineControl(register)
          /\ CASE register = "low"             -> DataRegister(1)
               [] register \in {"int", "high"} -> InterruptRegister(0)
               [] register = "fifo"            -> fifo' = <<>> /\ UNCHANGED divisor
               [] OTHER                        -> UNCHANGED <<fifo, divisor>>
          /\ lost' = IF register = "fifo"
                       THEN lost \cup {fifo[k] : k \in DOMAIN fifo} ELSE lost
    /\ step' = step + 1
    /\ UNCHANGED <<cut, call, arg, todo, cr, shift, wire, sent>>

InitReturns ==
    /\ Running
    /\ Current.call = "serial_init"
    /\ step > Len(InitWrites)
    /\ ReturnFromCall
    /\ UNCHANGED <<todo, cr, uart, sent, lost>>

(* Mutant: a byte is written as long as the FIFO has room. *)
THRE_if_room == Len(fifo) < 16

(* serial_putc: '\r' before '\n', and never before the FIFO is empty. *)
THRE == fifo = <<>>

(* Mutant: '\n' is sent as it stands. *)
ReturnDue_never == FALSE

(* The '\r' of a '\n' is still to be sent. *)
ReturnDue == Head(todo) = "nl" /\ ~ cr

PutByte ==
    /\ todo # <<>>
    /\ THRE
    /\ IF ReturnDue
         THEN sent' = Append(sent, "cr") /\ UNCHANGED todo
         ELSE sent' = Append(sent, Head(todo)) /\ todo' = Tail(todo)
    /\ cr' = ReturnDue
    /\ DataRegister(Len(sent'))
    /\ UNCHANGED <<cut, call, step, arg, dlab, line, shift, wire, lost>>

-----------------------------------------------------------------------------
(* The conversions, and serial_printf's walk over its format. *)

DigitNames == <<"0", "1", "2", "3", "4", "5", "6", "7", "8", "9",
                "A", "B", "C", "D", "E", "F">>
Digit(d) == DigitNames[d + 1]

serial_put_hex(value) ==
    <<"0", "x">> \o
    [n \in 1 .. HexDigits |-> Digit((value \div 16 ^ (HexDigits - n)) % 16)]

(* The digits serial_put_dec collects are the lowest first, then reversed; one
   stored past the end of buf is no digit any more. *)
serial_put_dec(value) ==
    LET low[v \in Nat] == IF v = 0 THEN <<>> ELSE <<v % 10>> \o low[v \div 10]
        digits == low[value]
        buf(i) == IF i < DecBuffer THEN Digit(digits[i + 1]) ELSE "overrun"
    IN  IF value = 0 THEN <<"0">>
        ELSE [n \in 1 .. Len(digits) |-> buf(Len(digits) - n)]

(* What fmt[p] is: past the end stands the terminator. *)
CharAt(c, p) == IF p <= Len(c.fmt) THEN c.fmt[p] ELSE "end"
Directive(c, p) == CharAt(c, p) = "%"

(* The loop ends at the terminator, also at one right after a '%'. *)
Ends(c, p) == CharAt(c, p) = "end" \/ (Directive(c, p) /\ CharAt(c, p + 1) = "end")

(* How far p goes in one turn, and how many arguments the turn takes. *)
Width(c, p) == IF Directive(c, p) THEN 2 ELSE 1
Takes(c, p) ==
    IF Directive(c, p) /\ CharAt(c, p + 1) \in {"s", "x", "u", "c"} THEN 1 ELSE 0

(* What the turn at p hands to serial_putc, the a-th argument being the next. *)
Handed(c, p, a) ==
    LET specifier == CharAt(c, p + 1) IN
    IF ~ Directive(c, p) THEN <<CharAt(c, p)>>
    ELSE CASE specifier = "s" -> c.args[a]
           [] specifier = "x" -> serial_put_hex(c.args[a])
           [] specifier = "u" -> serial_put_dec(c.args[a])
           [] specifier = "c" -> <<c.args[a]>>
           [] specifier = "%" -> <<"%">>
           [] OTHER -> <<"%", specifier>>

Formatting ==
    /\ Running
    /\ Current.call = "serial_printf"
    /\ todo = <<>>

Convert ==
    /\ Formatting
    /\ ~ Ends(Current, step)
    /\ todo' = Handed(Current, step, arg)
    /\ step' = step + Width(Current, step)
    /\ arg' = arg + Takes(Current, step)
    /\ UNCHANGED <<cut, call, cr, uart, sent, lost>>

PrintfReturns ==
    /\ Formatting
    /\ Ends(Current, step)
    /\ ReturnFromCall
    /\ UNCHANGED <<todo, cr, uart, sent, lost>>

Printf == Convert \/ PrintfReturns

-----------------------------------------------------------------------------
(* An exception: what was being printed is abandoned where it stands, down to
   a '\r' whose '\n' is missing, and the report begins.  It ends in a halt. *)
ExceptionStrikes ==
    /\ ~ Struck
    /\ Running
    /\ call >= IdtLoaded
    /\ cut' = Len(sent)
    /\ call' = 1
    /\ step' = 1
    /\ arg' = 1
    /\ todo' = <<>>
    /\ cr' = FALSE
    /\ UNCHANGED <<uart, sent, lost>>

-----------------------------------------------------------------------------
(* The UART sends on its own. *)

StartByte ==
    /\ shift = <<>>
    /\ fifo # <<>>
    /\ shift' = <<Head(fifo)>>
    /\ fifo' = Tail(fifo)
    /\ UNCHANGED <<software, dlab, divisor, line, wire, sent, lost>>

FinishByte ==
    /\ shift # <<>>
    /\ wire' = wire \o shift
    /\ shift' = <<>>
    /\ UNCHANGED <<software, dlab, divisor, line, fifo, sent, lost>>

Transmit == StartByte \/ FinishByte

Software == SerialInit \/ InitReturns \/ PutByte \/ Printf

Done == ~ Running /\ THRE /\ shift = <<>> /\ UNCHANGED vars

Next == Software \/ ExceptionStrikes \/ Transmit \/ Done

(* The processor runs and the UART sends; neither is ever stopped.  No
   exception need come. *)
Spec == Init /\ [][Next]_vars /\ WF_vars(Software) /\ WF_vars(Transmit)

-----------------------------------------------------------------------------
(* Properties. *)

TypeOK ==
    /\ cut \in -1 .. Len(sent)
    /\ call \in 1 .. Len(Script) + 1
    /\ step \in Nat \ {0} /\ arg \in Nat \ {0}
    /\ cr \in BOOLEAN /\ dlab \in BOOLEAN
    /\ divisor \in [low : {1, 12}, high : {0, 1}]
    /\ line \in {"8N1", "other"}
    /\ Len(shift) <= 1
    /\ lost \subseteq 0 .. Len(sent)

(* Outside serial_init the UART is at 115200 8N1 and takes bytes, not divisors,
   whatever the firmware had left in it and however often serial_init is called
   (serial.h:22, serial.c:57-59): each of its writes must find the latch as it
   needs it. *)
Configured ==
    ~ (Running /\ Current.call = "serial_init") =>
        ~ dlab /\ divisor = [low |-> 1, high |-> 0] /\ line = "8N1"

(* The first n of some texts, one after the other. *)
Joined(texts) ==
    LET upTo[n \in 0 .. Len(texts)] == IF n = 0 THEN <<>> ELSE upTo[n - 1] \o texts[n]
    IN  upTo

(* What the calls before the c-th one of a script are to print. *)
TextBefore(script, c) == Joined([k \in 1 .. Len(script) |-> script[k].text])[c - 1]

(* serial.h:36-44, read as a table: every turn of a format's loop adds the
   characters it hands out, '\n' as CR LF, until the format ends. *)
Crlf(chars) ==
    Joined([k \in 1 .. Len(chars) |->
               IF chars[k] = "nl" THEN <<"cr", "nl">> ELSE <<chars[k]>>])

Turn(c, mark) ==
    LET chars == Handed(c, mark.at, mark.arg) IN
    IF Ends(c, mark.at) THEN mark
    ELSE [at   |-> mark.at + Width(c, mark.at),
          arg  |-> mark.arg + Takes(c, mark.at),
          text |-> mark.text \o Crlf(chars)[Len(chars)]]

Expansion(c) ==
    LET after[n \in 0 .. Len(c.fmt)] ==
            IF n = 0 THEN [at |-> 1, arg |-> 1, text |-> <<>>] ELSE Turn(c, after[n - 1])
    IN  after

(* Each call is one of the two, its text what serial.h makes of its format, and
   the arguments are of the kinds the format asks for: nothing else checks them
   (serial.c:168-174). *)
Proper(c) ==
    \/ c.call = "serial_init" /\ c.text = <<>>
    \/ /\ c.call = "serial_printf"
       /\ Len(c.fmt) \in Nat
       /\ c.text = Expansion(c)[Len(c.fmt)].text
       /\ \A n \in 0 .. Len(c.fmt) :
             LET mark == Expansion(c)[n] IN
             Ends(c, mark.at) \/ Handed(c, mark.at, mark.arg) \in Seq(Characters)

ASSUME TextsAssumption ==
    /\ {"cr", "nl"} \subseteq Characters
    /\ \A k \in DOMAIN Program : Proper(Program[k])
    /\ \A k \in DOMAIN Report : Proper(Report[k])

(* Of two bytes of the log the earlier one has the smaller index. *)
Increasing(s) ==
    \A j, k \in DOMAIN s : j < k /\ s[j] # 0 /\ s[k] # 0 => s[j] < s[k]

(* On its way out the log keeps its order, no byte appears twice, and only a
   byte serial_init discarded is missing: each other byte ever given to the
   UART is on the wire, in the shift register or in the FIFO. *)
InOrder ==
    LET out == wire \o shift \o fifo IN
    /\ Increasing(out)
    /\ {out[k] : k \in DOMAIN out} \ {0} = (1 .. Len(sent)) \ lost

(* Polling for an empty FIFO keeps at most one byte of the log in it, so each
   serial_init after the first discards one byte at most, and that byte is the
   last one written before it: a log is never cut further back. *)
LossBounded ==
    /\ sent # <<>> => Len(fifo) <= 1
    /\ \A n \in lost \ {0} :
          \E c \in 2 .. Len(Program) :
             Program[c].call = "serial_init" /\ n = Len(TextBefore(Program, c))

(* After each call the log is what serial.h:36-44 says of the calls made so
   far: digits in the right order, no argument skipped or read twice, '\n' as
   CR LF, an unknown specifier verbatim, nothing after a trailing '%'.  An
   exception cuts it at any byte, never alters what is before the cut, and the
   report follows whole (idt.c:213-216). *)
LogRight ==
    todo = <<>> /\ step = 1 =>
        IF Struck
        THEN /\ IsPrefix(SubSeq(sent, 1, cut), TextBefore(Program, Len(Program) + 1))
             /\ sent = SubSeq(sent, 1, cut) \o TextBefore(Report, call)
        ELSE sent = TextBefore(Program, call)

(* The log or the report ends, and all of it that was not discarded reaches
   the wire: also the last line before the halt. *)
LogReachesWire ==
    <>[](~ Running /\ {wire[k] : k \in DOMAIN wire} \ {0} = (1 .. Len(sent)) \ lost)

(* "A line is on the wire before the next statement runs, so the log never
   loses the last thing that happened" (serial.h:28-30). *)
NothingLost == lost \subseteq {0}

=============================================================================
