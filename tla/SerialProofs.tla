---------------------------- MODULE SerialProofs ----------------------------
(***************************************************************************)
(* Proofs about the serial log.  For its order and its losses what a byte  *)
(* is does not matter, only its index: a byte that is written finds the    *)
(* divisor latch off and the transmit FIFO empty, so that serial_init can  *)
(* discard one byte at most, the last one written, and the UART keeps the  *)
(* rest in order; nothing is assumed of the formats, their arguments and   *)
(* the characters they expand to.  For its text TextInv says, at every     *)
(* step, which part of what the calls are to print has been sent.          *)
(***************************************************************************)
EXTENDS Serial, SequenceTheorems, FiniteSetTheorems, WellFoundedInduction, TLAPS

Elements(s) == {s[k] : k \in DOMAIN s}

(* A sequence, of whatever it may be. *)
IsSequence(s) == \E S : s \in Seq(S)

(* All that has been given to the UART and not been discarded. *)
Out == wire \o shift \o fifo

InCall(name) == Running /\ Current.call = name

Typed ==
    /\ TypeOK
    /\ IsSequence(sent)
    /\ wire \in Seq(Nat) /\ shift \in Seq(Nat) /\ fifo \in Seq(Nat)

(* The latch is on only inside serial_init, or before the first one. *)
Latched ==
    /\ dlab => \/ ~ Struck /\ call = 1 /\ step <= 5
               \/ InCall("serial_init") /\ step \in 3 .. 5
    /\ InCall("serial_init") /\ step \in 3 .. 5 => dlab

(* Characters wait for serial_putc only inside serial_printf. *)
Sending == todo # <<>> => InCall("serial_printf")

(* Nothing has been sent before the first serial_init returns. *)
SetUpFirst == ~ Struck /\ call = 1 => sent = <<>>

(* Once a byte of the log has been written the FIFO holds that byte or
   nothing; before that, only what the firmware left. *)
AtRisk ==
    IF sent = <<>> THEN lost \subseteq {0} /\ Elements(Out) \subseteq {0}
                   ELSE fifo = <<>> \/ fifo = <<Len(sent)>>

(* The inductive invariant. *)
SerialInv == Typed /\ Latched /\ Sending /\ SetUpFirst /\ AtRisk /\ InOrder

-----------------------------------------------------------------------------
(* Sequences, and sequences of indices. *)

LEMMA Regrouped ==
    ASSUME NEW S, NEW s \in Seq(S), NEW t \in Seq(S), NEW u \in Seq(S)
    PROVE  (s \o t) \o u = s \o (t \o u)
  BY SMTT(20)

LEMMA BytesRegrouped ==
    \A s, t, u \in Seq(Nat) : (s \o t) \o u = s \o (t \o u)
  BY SMTT(30)

LEMMA AppendIndex ==
    ASSUME NEW s \in Seq(Nat), NEW n \in Nat
    PROVE  /\ Append(s, n) \in Seq(Nat)
           /\ Elements(Append(s, n)) = Elements(s) \cup {n}
  <1> DEFINE t == Append(s, n)
  <1>1. /\ t \in Seq(Nat) /\ Len(t) = Len(s) + 1 /\ t[Len(s) + 1] = n
        /\ \A k \in 1 .. Len(s) : t[k] = s[k]
    BY AppendProperties
  <1>2. Len(s) \in Nat /\ DOMAIN s = 1 .. Len(s) /\ DOMAIN t = 1 .. Len(s) + 1
    BY <1>1, LenProperties
  <1> HIDE DEF t
  <1>3. \A k \in 1 .. Len(s) + 1 : k \in 1 .. Len(s) \/ k = Len(s) + 1
    BY <1>2
  <1>4. 1 .. Len(s) \subseteq 1 .. Len(s) + 1 /\ Len(s) + 1 \in 1 .. Len(s) + 1
    BY <1>2
  <1>5. Elements(t) = Elements(s) \cup {n}
    BY <1>1, <1>2, <1>3, <1>4, Zenon DEF Elements
  <1> QED BY <1>1, <1>5 DEF t

(* The largest index goes last, and what comes before it is in order. *)
LEMMA AppendKeepsOrder ==
    ASSUME NEW s \in Seq(Nat), NEW n \in Nat, Increasing(s),
           \A e \in Elements(s) : e < n
    PROVE  Increasing(Append(s, n))
  <1> DEFINE t == Append(s, n)
  <1>1. /\ t \in Seq(Nat) /\ Len(t) = Len(s) + 1 /\ t[Len(s) + 1] = n
        /\ \A k \in 1 .. Len(s) : t[k] = s[k]
    BY AppendProperties
  <1>2. Len(s) \in Nat /\ DOMAIN s = 1 .. Len(s) /\ DOMAIN t = 1 .. Len(s) + 1
    BY <1>1, LenProperties
  <1> HIDE DEF t
  <1>3. ASSUME NEW j \in DOMAIN t, NEW k \in DOMAIN t, j < k, t[j] # 0, t[k] # 0
        PROVE  t[j] < t[k]
    <2>1. j \in 1 .. Len(s) /\ t[j] = s[j]
      BY <1>1, <1>2, <1>3
    <2>2. CASE k = Len(s) + 1
      BY <1>1, <1>2, <2>1, <2>2 DEF Elements
    <2>3. CASE k # Len(s) + 1
      <3>1. k \in 1 .. Len(s) /\ t[k] = s[k]
        BY <1>1, <1>2, <2>3
      <3> QED BY <1>2, <1>3, <2>1, <3>1 DEF Increasing
    <2> QED BY <2>2, <2>3
  <1>4. Increasing(t)
    BY <1>3 DEF Increasing
  <1> QED BY <1>4 DEF t

LEMMA FrontKeepsOrder ==
    ASSUME NEW s \in Seq(Nat), NEW n \in Nat \ {0}, Increasing(Append(s, n))
    PROVE  /\ Increasing(s)
           /\ Elements(s) \ {0} = Elements(Append(s, n)) \ {0, n}
  <1> DEFINE t == Append(s, n)
  <1>1. /\ t \in Seq(Nat) /\ Len(t) = Len(s) + 1 /\ t[Len(s) + 1] = n
        /\ \A k \in 1 .. Len(s) : t[k] = s[k]
    BY AppendProperties
  <1>2. Len(s) \in Nat /\ DOMAIN s = 1 .. Len(s) /\ DOMAIN t = 1 .. Len(s) + 1
    BY <1>1, LenProperties
  <1>3. Elements(t) = Elements(s) \cup {n}
    BY AppendIndex
  <1>4. Increasing(t)
    OBVIOUS
  <1> HIDE DEF t
  <1>5. \A k \in DOMAIN s : k \in DOMAIN t /\ s[k] = t[k]
    BY <1>1, <1>2
  <1>6. Increasing(s)
    BY <1>4, <1>5 DEF Increasing
  <1>7. n \notin Elements(s)
    <2> SUFFICES ASSUME NEW k \in DOMAIN s, s[k] = n PROVE FALSE
      BY DEF Elements
    <2>1. k \in DOMAIN t /\ Len(s) + 1 \in DOMAIN t /\ k < Len(s) + 1 /\ t[k] = n
      BY <1>2, <1>5
    <2>2. t[k] < t[Len(s) + 1]
      BY <1>1, <1>4, <2>1 DEF Increasing
    <2> QED BY <1>1, <2>1, <2>2
  <1>8. Elements(s) \ {0} = Elements(t) \ {0, n}
    BY <1>3, <1>7, Zenon
  <1> QED BY <1>6, <1>8 DEF t

-----------------------------------------------------------------------------
(* The calls of a script, and what the UART holds. *)

LEMMA ScriptFacts ==
    /\ Len(Script) \in Nat /\ DOMAIN Script = 1 .. Len(Script)
    /\ ~ Struck /\ call = 1 => InCall("serial_init")
    /\ InCall("serial_init") => ~ Struck /\ call < IdtLoaded
  <1> USE ProgramAssumption
  <1>1. Len(Script) \in Nat /\ DOMAIN Script = 1 .. Len(Script)
    BY DEF Script
  <1>2. ASSUME ~ Struck, call = 1 PROVE InCall("serial_init")
    BY <1>2 DEF InCall, Running, Calls, Current, Script
  <1>3. ASSUME InCall("serial_init") PROVE ~ Struck /\ call < IdtLoaded
    BY <1>3 DEF InCall, Running, Calls, Current, Script
  <1> QED BY <1>1, <1>2, <1>3

LEMMA LenOfSent ==
    ASSUME IsSequence(sent)
    PROVE  Len(sent) \in Nat /\ (Len(sent) = 0 <=> sent = <<>>)
  <1>1. PICK S : sent \in Seq(S)
    BY DEF IsSequence
  <1> QED BY <1>1, EmptySeq, LenProperties

LEMMA OutFacts ==
    ASSUME Typed
    PROVE  /\ Out \in Seq(Nat)
           /\ wire \o shift \in Seq(Nat)
           /\ Out = (wire \o shift) \o fifo
           /\ \A k \in DOMAIN fifo : fifo[k] \in Elements(Out)
  <1> USE DEF Typed
  <1>1. wire \o shift \in Seq(Nat)
    BY ConcatProperties, Zenon
  <1>2. Out = (wire \o shift) \o fifo
    BY Zenon DEF Out
  <1>3. Out \in Seq(Nat)
    BY <1>1, <1>2, ConcatProperties, Zenon
  <1>4. ASSUME NEW k \in DOMAIN fifo PROVE fifo[k] \in Elements(Out)
    <2> DEFINE front == wire \o shift
    <2>1. /\ Len(front) \in Nat /\ Len(fifo) \in Nat /\ k \in 1 .. Len(fifo)
          /\ Len(Out) = Len(front) + Len(fifo)
          /\ DOMAIN Out = 1 .. Len(front) + Len(fifo)
          /\ \A j \in 1 .. Len(front) + Len(fifo) :
                Out[j] = IF j <= Len(front) THEN front[j] ELSE fifo[j - Len(front)]
      BY <1>1, <1>2, <1>3, <1>4, ConcatProperties, LenProperties
    <2> HIDE DEF front
    <2>2. /\ Len(front) + k \in DOMAIN Out /\ ~ (Len(front) + k <= Len(front))
          /\ (Len(front) + k) - Len(front) = k
      BY <2>1
    <2>3. Out[Len(front) + k] = fifo[k]
      BY <2>1, <2>2
    <2> QED BY <2>2, <2>3 DEF Elements
  <1> QED BY <1>1, <1>2, <1>3, <1>4

LEMMA InOrderIs ==
    InOrder <=> Increasing(Out) /\ Elements(Out) \ {0} = (1 .. Len(sent)) \ lost
  BY Zenon DEF InOrder, Out, Elements

(* What a step must leave alone so that the log stays as it is. *)
LEMMA LogUntouched ==
    ASSUME AtRisk, InOrder, Out' = Out, fifo' = fifo, sent' = sent, lost' = lost
    PROVE  AtRisk' /\ InOrder'
  <1>1. AtRisk'
    BY Zenon DEF AtRisk, Elements
  <1>2. InOrder'
    BY InOrderIs, Zenon DEF InOrder, Out, Elements, Increasing
  <1> QED BY <1>1, <1>2

-----------------------------------------------------------------------------
(* The actions. *)

LEMMA InitHolds == Init => SerialInv
  <1> SUFFICES ASSUME Init PROVE SerialInv
    OBVIOUS
  <1> USE DEF Init
  <1>1. fifo \in Seq({0}) /\ fifo \in Seq(Nat)
    BY LeftoversAssumption, SeqMonotonic
  <1>2. Out = fifo
    <2>1. <<>> \o fifo = fifo /\ <<>> \o <<>> = <<>>
      BY <1>1, ConcatEmptySeq, EmptySeq, Zenon
    <2> QED BY <2>1, Zenon DEF Out
  <1>3. Len(sent) = 0 /\ Len(shift) = 0
    BY EmptySeq
  <1>4. Elements(Out) \subseteq {0}
    BY <1>1, <1>2, LenProperties DEF Elements
  <1>5. Typed
    <2>1. IsSequence(sent) /\ wire \in Seq(Nat) /\ shift \in Seq(Nat)
      BY EmptySeq, Zenon DEF IsSequence
    <2>2. cut \in -1 .. Len(sent) /\ call \in 1 .. Len(Script) + 1
      BY <1>3, ScriptFacts
    <2>3. step \in Nat \ {0} /\ arg \in Nat \ {0} /\ Len(shift) <= 1 /\ lost \subseteq 0 .. Len(sent)
      BY <1>3
    <2>4. TypeOK
      BY <2>2, <2>3, Zenon DEF TypeOK
    <2> QED BY <1>1, <2>1, <2>4 DEF Typed
  <1>6. Latched /\ Sending /\ SetUpFirst /\ AtRisk
    BY <1>4 DEF Latched, Sending, SetUpFirst, AtRisk, Struck
  <1>7. InOrder
    <2>1. Increasing(Out)
      BY <1>4 DEF Increasing, Elements
    <2>2. (1 .. Len(sent)) \ lost = {}
      BY <1>3
    <2> QED BY <1>4, <2>1, <2>2, InOrderIs
  <1> QED BY <1>5, <1>6, <1>7 DEF SerialInv


LEMMA SoftwareMoves ==
    ASSUME SerialInv, UNCHANGED <<uart, sent, lost>>,
           cut' \in -1 .. Len(sent), call' \in 1 .. Len(Script') + 1,
           step' \in Nat \ {0}, arg' \in Nat \ {0}, cr' \in BOOLEAN,
           Latched', Sending', SetUpFirst'
    PROVE  SerialInv'
  <1> USE DEF SerialInv, uart
  <1>1. Typed'
    <2>1. TypeOK'
      BY Zenon DEF Typed, TypeOK
    <2> QED BY <2>1, Zenon DEF Typed, IsSequence
  <1>2. AtRisk' /\ InOrder'
    <2>1. Out' = Out
      BY DEF Out
    <2> QED BY <2>1, LogUntouched
  <1> QED BY <1>1, <1>2

(* Outside serial_init the latch is off, once the first call has been made. *)
LEMMA LatchIsOff ==
    ASSUME Latched, InCall("serial_printf")
    PROVE  ~ dlab /\ ~ InCall("serial_init") /\ ~ (~ Struck /\ call = 1)
  <1>1. ~ InCall("serial_init")
    BY DEF InCall
  <1>2. ~ (~ Struck /\ call = 1)
    BY <1>1, ScriptFacts
  <1> QED BY <1>1, <1>2, Zenon DEF Latched

LEMMA ConvertKeeps ==
    ASSUME SerialInv, Convert
    PROVE  SerialInv'
  <1> USE DEF SerialInv, Convert
  <1>1. InCall("serial_printf")
    BY DEF Formatting, InCall
  <1>2. ~ dlab /\ ~ InCall("serial_init") /\ ~ (~ Struck /\ call = 1)
    BY <1>1, LatchIsOff
  <1>3. /\ Struck' = Struck /\ Script' = Script
        /\ \A name : InCall(name)' = InCall(name)
    BY DEF Struck, Script, InCall, Running, Calls, Current
  <1>4. Latched' /\ Sending' /\ SetUpFirst'
    BY <1>1, <1>2, <1>3, Zenon DEF uart, Latched, Sending, SetUpFirst
  <1>5. cut' \in -1 .. Len(sent) /\ call' \in 1 .. Len(Script') + 1 /\ cr' \in BOOLEAN
    BY <1>3 DEF Typed, TypeOK
  <1>6. step' \in Nat \ {0} /\ arg' \in Nat \ {0}
    BY DEF Typed, TypeOK, Width, Takes
  <1> QED BY <1>4, <1>5, <1>6, SoftwareMoves

LEMMA ReturnKeeps ==
    ASSUME SerialInv, Running, todo = <<>>, ~ dlab, ReturnFromCall,
           UNCHANGED <<todo, cr, uart, sent, lost>>
    PROVE  SerialInv'
  <1> USE DEF SerialInv, ReturnFromCall
  <1>1. Struck' = Struck /\ Script' = Script
    BY DEF Struck, Script
  <1>2. call \in 1 .. Len(Script) /\ Len(Script) \in Nat
    BY ScriptFacts DEF Running, Calls
  <1>3. call' \in 1 .. Len(Script') + 1 /\ call' # 1
    BY <1>1, <1>2
  <1>4. Latched' /\ Sending' /\ SetUpFirst'
    BY <1>3 DEF uart, Latched, Sending, SetUpFirst
  <1>5. cut' \in -1 .. Len(sent) /\ step' \in Nat \ {0} /\ arg' \in Nat \ {0} /\ cr' \in BOOLEAN
    BY DEF Typed, TypeOK
  <1> QED BY <1>3, <1>4, <1>5, SoftwareMoves

LEMMA StrikeKeeps ==
    ASSUME SerialInv, ExceptionStrikes
    PROVE  SerialInv'
  <1> USE DEF SerialInv, ExceptionStrikes
  <1>1. Len(sent) \in Nat
    BY LenOfSent DEF Typed
  <1>2. Struck' /\ Script' = Report
    BY <1>1 DEF Struck, Script
  <1>3. ~ dlab
    <2>1. Current.call = "serial_printf"
      BY ProgramAssumption DEF Running, Calls, Current, Script
    <2>2. InCall("serial_printf")
      BY <2>1 DEF InCall
    <2> QED BY <2>2, LatchIsOff
  <1>4. Latched' /\ Sending' /\ SetUpFirst'
    BY <1>2, <1>3 DEF uart, Latched, Sending, SetUpFirst
  <1>5. /\ cut' \in -1 .. Len(sent) /\ call' \in 1 .. Len(Script') + 1
        /\ step' \in Nat \ {0} /\ arg' \in Nat \ {0} /\ cr' \in BOOLEAN
    <2>1. cut' \in -1 .. Len(sent) /\ step' \in Nat \ {0} /\ arg' \in Nat \ {0}
      BY <1>1
    <2>3. cr' \in BOOLEAN
      BY Zenon
    <2>2. 1 \in 1 .. Len(Report) + 1
      BY ProgramAssumption
    <2> QED BY <1>2, <2>1, <2>2, <2>3, Zenon
  <1> QED BY <1>4, <1>5, SoftwareMoves

LEMMA PrintfReturnsKeeps ==
    ASSUME SerialInv, PrintfReturns
    PROVE  SerialInv'
  <1>1. InCall("serial_printf")
    BY DEF PrintfReturns, Formatting, InCall
  <1>2. ~ dlab
    BY <1>1, LatchIsOff DEF SerialInv
  <1> QED BY <1>2, ReturnKeeps DEF PrintfReturns, Formatting

LEMMA InitReturnsKeeps ==
    ASSUME SerialInv, InitReturns
    PROVE  SerialInv'
  <1> USE DEF SerialInv, InitReturns
  <1>1. InCall("serial_init") /\ ~ InCall("serial_printf")
    BY DEF InCall
  <1>2. todo = <<>>
    BY <1>1 DEF Sending
  <1>3. step \in Nat /\ step > 7
    BY DEF Typed, TypeOK, InitWrites
  <1>4. ~ dlab
    BY <1>3 DEF Latched
  <1> QED BY <1>2, <1>4, ReturnKeeps


(* What the FIFO holds can be thrown away, and the rest is still in order. *)
LEMMA FrontInOrder ==
    ASSUME Typed, AtRisk, InOrder
    PROVE  /\ Increasing(wire \o shift)
           /\ Elements(wire \o shift) \ {0} = (1 .. Len(sent)) \ (lost \cup Elements(fifo))
           /\ sent = <<>> => /\ lost \cup Elements(fifo) \subseteq {0}
                             /\ Elements(wire \o shift) \subseteq {0}
  <1> DEFINE front == wire \o shift
  <1>1. front \in Seq(Nat) /\ Out = front \o fifo /\ Out \in Seq(Nat) /\ fifo \in Seq(Nat)
    BY OutFacts DEF Typed
  <1>2. Len(sent) \in Nat /\ (Len(sent) = 0 <=> sent = <<>>)
    BY LenOfSent DEF Typed
  <1>3. Increasing(Out) /\ Elements(Out) \ {0} = (1 .. Len(sent)) \ lost
    BY InOrderIs
  <1>4. Elements(fifo) \subseteq Elements(Out)
    BY OutFacts DEF Elements
  <1> HIDE DEF front
  <1>5. CASE sent # <<>> /\ fifo = <<Len(sent)>>
    <2>1. Out = Append(front, Len(sent))
      BY <1>1, <1>2, <1>5, AppendIsConcat
    <2>2. Elements(fifo) = {Len(sent)}
      BY <1>5 DEF Elements
    <2>3. Len(sent) \in Nat \ {0}
      BY <1>2, <1>5
    <2>4. Increasing(front) /\ Elements(front) \ {0} = Elements(Out) \ {0, Len(sent)}
      BY <1>1, <1>3, <2>1, <2>3, FrontKeepsOrder
    <2> QED BY <1>3, <1>5, <2>2, <2>4, Zenon DEF front
  <1>6. CASE fifo = <<>>
    <2>1. Out = front
      BY <1>1, <1>6, ConcatEmptySeq, Zenon
    <2>2. Elements(fifo) = {}
      BY <1>6 DEF Elements
    <2> QED BY <1>3, <2>1, <2>2, Zenon DEF front, AtRisk
  <1>7. CASE sent = <<>>
    <2>1. Elements(front) \subseteq Elements(Out)
      <3>1. \A k \in DOMAIN front : k \in DOMAIN Out /\ Out[k] = front[k]
        BY <1>1, ConcatProperties, LenProperties
      <3> QED BY <3>1, Zenon DEF Elements
    <2>2. Elements(Out) \subseteq {0} /\ lost \subseteq {0}
      BY <1>7 DEF AtRisk
    <2>3. Increasing(front)
      BY <2>1, <2>2 DEF Increasing, Elements
    <2>4. 1 .. Len(sent) = {}
      BY <1>2, <1>7
    <2> QED BY <1>4, <2>1, <2>2, <2>3, <2>4, Zenon DEF front
  <1> QED BY <1>5, <1>6, <1>7, Zenon DEF AtRisk

(* One outb of serial_init: the divisor's bytes find the latch on. *)
LEMMA OneWrite ==
    ASSUME SerialInv, SerialInit
    PROVE  /\ InCall("serial_init") /\ step \in 1 .. 7 /\ step' = step + 1
           /\ UNCHANGED <<cut, call, arg, todo, cr, shift, wire, sent>>
           /\ dlab' = (IF step = 2 THEN TRUE ELSE IF step = 5 THEN FALSE ELSE dlab)
           /\ line' = (IF step = 2 THEN "other" ELSE IF step = 5 THEN "8N1" ELSE line)
           /\ step = 3 => divisor' = [divisor EXCEPT !.low = 1]
           /\ step = 4 => divisor' = [divisor EXCEPT !.high = 0]
           /\ step > 4 => divisor' = divisor
           /\ divisor' \in {divisor, [divisor EXCEPT !.low = 1], [divisor EXCEPT !.high = 0]}
           /\ fifo' = (IF step = 6 THEN <<>> ELSE fifo)
           /\ lost' = (IF step = 6 THEN lost \cup Elements(fifo) ELSE lost)
  <1> USE DEF SerialInv
  <1> DEFINE register == InitWrites[step]
  <1>1. /\ InCall("serial_init") /\ step \in 1 .. 7 /\ step' = step + 1
        /\ UNCHANGED <<cut, call, arg, todo, cr, shift, wire, sent>>
    <2>1. Len(InitWrites) = 7
      BY DEF InitWrites
    <2>2. InCall("serial_init") /\ UNCHANGED <<cut, call, arg, todo, cr, shift, wire, sent>>
      BY Zenon DEF SerialInit, InCall
    <2>3. step \in Nat \ {0} /\ step <= Len(InitWrites) /\ step' = step + 1
      BY Zenon DEF SerialInit, Typed, TypeOK
    <2> QED BY <2>1, <2>2, <2>3
  <1>2. /\ register = "int" <=> step = 1
        /\ register = "dlab" <=> step = 2
        /\ register = "low" <=> step = 3
        /\ register = "high" <=> step = 4
        /\ register = "line" <=> step = 5
        /\ register = "fifo" <=> step = 6
    BY <1>1 DEF InitWrites
  <1>3. step = 3 \/ step = 4 => dlab
    BY <1>1 DEF Latched
  <1> HIDE DEF register
  <1>4. /\ LineControl(register)
        /\ register = "low" => DataRegister(1)
        /\ register \in {"int", "high"} => InterruptRegister(0)
        /\ register = "fifo" => fifo' = <<>> /\ divisor' = divisor
        /\ register \notin {"low", "int", "high", "fifo"} => fifo' = fifo /\ divisor' = divisor
        /\ lost' = IF register = "fifo" THEN lost \cup Elements(fifo) ELSE lost
    BY DEF SerialInit, register, Elements
  <1>5. /\ dlab' = (IF step = 2 THEN TRUE ELSE IF step = 5 THEN FALSE ELSE dlab)
        /\ line' = (IF step = 2 THEN "other" ELSE IF step = 5 THEN "8N1" ELSE line)
    <2>1. CASE step = 2
      BY <1>2, <1>4, <2>1 DEF LineControl
    <2>2. CASE step = 5
      BY <1>2, <1>4, <2>2 DEF LineControl
    <2>3. CASE step # 2 /\ step # 5
      BY <1>2, <1>4, <2>3 DEF LineControl
    <2> QED BY <2>1, <2>2, <2>3
  <1>6. /\ step = 3 => divisor' = [divisor EXCEPT !.low = 1] /\ fifo' = fifo
        /\ step = 4 => divisor' = [divisor EXCEPT !.high = 0] /\ fifo' = fifo
        /\ step = 1 => /\ divisor' \in {divisor, [divisor EXCEPT !.high = 0]}
                       /\ fifo' = fifo
    BY <1>2, <1>3, <1>4 DEF DataRegister, InterruptRegister
  <1>7. /\ step \in {2, 5, 7} => divisor' = divisor /\ fifo' = fifo
        /\ step = 6 => divisor' = divisor /\ fifo' = <<>>
    BY <1>2, <1>4
  <1>8. step \in {1, 2, 3, 4, 5, 6, 7}
    BY <1>1
  <1> QED BY <1>1, <1>2, <1>4, <1>5, <1>6, <1>7, <1>8

LEMMA DivisorTyped ==
    ASSUME NEW d \in [low : {1, 12}, high : {0, 1}]
    PROVE  /\ [d EXCEPT !.low = 1] \in [low : {1, 12}, high : {0, 1}]
           /\ [d EXCEPT !.high = 0] \in [low : {1, 12}, high : {0, 1}]
           /\ [d EXCEPT !.low = 1].low = 1 /\ [d EXCEPT !.low = 1].high = d.high
           /\ [d EXCEPT !.high = 0].high = 0 /\ [d EXCEPT !.high = 0].low = d.low
           /\ d.low = 1 /\ d.high = 0 => d = [low |-> 1, high |-> 0]
  OBVIOUS

LEMMA SerialInitKeeps ==
    ASSUME SerialInv, SerialInit
    PROVE  SerialInv'
  <1> USE DEF SerialInv
  <1>1. /\ InCall("serial_init") /\ step \in 1 .. 7 /\ step' = step + 1
        /\ UNCHANGED <<cut, call, arg, todo, cr, shift, wire, sent>>
    BY OneWrite
  <1>3. /\ dlab' = (IF step = 2 THEN TRUE ELSE IF step = 5 THEN FALSE ELSE dlab)
        /\ line' \in {"8N1", "other"}
        /\ fifo' = (IF step = 6 THEN <<>> ELSE fifo)
        /\ lost' = (IF step = 6 THEN lost \cup Elements(fifo) ELSE lost)
    BY OneWrite DEF Typed, TypeOK
  <1>4. divisor' \in [low : {1, 12}, high : {0, 1}]
    BY OneWrite, DivisorTyped DEF Typed, TypeOK
  <1>5. /\ Struck' = Struck /\ Script' = Script
        /\ \A name : InCall(name)' = InCall(name)
    BY <1>1 DEF Struck, Script, InCall, Running, Calls, Current
  <1>6. Latched'
    <2>1. dlab' => step = 2 \/ (dlab /\ step # 5)
      <3>1. CASE step = 5
        <4>1. step # 2
          BY <3>1
        <4> QED BY <1>3, <3>1, <4>1, Zenon
      <3>2. CASE step # 5 /\ step # 2
        BY <1>3, <3>2, Zenon
      <3> QED BY <3>1, <3>2, Zenon
    <2>2. dlab /\ step \notin 3 .. 5 => ~ Struck /\ call = 1 /\ step <= 5
      BY DEF Latched
    <2>3. dlab' => step' \in 3 .. 5 \/ (~ Struck /\ call = 1 /\ step' <= 5)
      <3>1. step \in 1 .. 7 /\ step' = step + 1
        BY <1>1
      <3>2. CASE step = 2
        <4>1. step' \in 3 .. 5
          BY <3>1, <3>2
        <4> QED BY <4>1, Zenon
      <3>3. CASE step \in 3 .. 4
        <4>1. step' \in 3 .. 5
          BY <3>1, <3>3
        <4> QED BY <4>1, Zenon
      <3>4. CASE dlab /\ step # 5 /\ step \notin 3 .. 5
        BY <2>2, <3>1, <3>4
      <3>5. step = 2 \/ step \in 3 .. 4 \/ step = 5 \/ step \notin 3 .. 5
        BY <3>1
      <3> QED BY <2>1, <3>2, <3>3, <3>4, <3>5, Zenon
    <2>4. step' \in 3 .. 5 => dlab'
      <3>1. step \in 3 .. 5 => dlab
        BY <1>1 DEF Latched
      <3> QED BY <1>1, <1>3, <3>1
    <2> QED BY <1>1, <1>5, <2>3, <2>4 DEF Latched
  <1>7. Sending' /\ SetUpFirst'
    BY <1>1, <1>5 DEF Sending, SetUpFirst
  <1>8. \A k \in DOMAIN fifo : fifo[k] \in 0 .. Len(sent)
    <2>1. sent = <<>> => \A k \in DOMAIN fifo : fifo[k] = 0
      BY OutFacts DEF AtRisk
    <2>2. sent # <<>> => \A k \in DOMAIN fifo : fifo[k] = Len(sent)
      BY DEF AtRisk
    <2> QED BY <2>1, <2>2, LenOfSent DEF Typed
  <1>9. Typed'
    <2>1. IsSequence(sent)' /\ wire' \in Seq(Nat) /\ shift' \in Seq(Nat)
      BY <1>1, Zenon DEF Typed, IsSequence
    <2>2. fifo' \in Seq(Nat)
      BY <1>3, EmptySeq DEF Typed
    <2>3. lost' \subseteq 0 .. Len(sent)
      BY <1>3, <1>8 DEF Typed, TypeOK, Elements
    <2>4. step' \in Nat \ {0}
      BY <1>1
    <2>5. dlab' \in BOOLEAN
      BY <1>3, Zenon DEF Typed, TypeOK
    <2>6. TypeOK'
      BY <1>1, <1>3, <1>4, <1>5, <2>3, <2>4, <2>5, Zenon DEF Typed, TypeOK
    <2> QED BY <2>1, <2>2, <2>6, Zenon DEF Typed
  <1>10. CASE step # 6
    <2>1. fifo' = fifo /\ lost' = lost /\ Out' = Out
      BY <1>1, <1>3, <1>4, <1>10 DEF Out
    <2> QED BY <1>1, <1>6, <1>7, <1>9, <2>1, LogUntouched
  <1>11. CASE step = 6
    <2> DEFINE front == wire \o shift
    <2>1. fifo' = <<>> /\ lost' = lost \cup Elements(fifo) /\ sent' = sent
      BY <1>1, <1>3, <1>4, <1>11
    <2>2. Out' = front
      <3>1. Out' = front \o <<>>
        BY <1>1, <2>1, Zenon DEF Out
      <3> QED BY <3>1, OutFacts, ConcatEmptySeq, Zenon
    <2>3. /\ Increasing(front) /\ Elements(front) \ {0} = (1 .. Len(sent)) \ lost'
          /\ sent = <<>> => lost' \subseteq {0} /\ Elements(front) \subseteq {0}
      BY <2>1, FrontInOrder
    <2> HIDE DEF front
    <2>4. AtRisk' /\ InOrder'
      <3>1. AtRisk'
        BY <2>1, <2>2, <2>3, Zenon DEF AtRisk, Elements
      <3>2. InOrder'
        BY <2>1, <2>2, <2>3, Zenon DEF InOrder, Out, Elements, Increasing
      <3> QED BY <3>1, <3>2
    <2> QED BY <1>6, <1>7, <1>9, <2>4
  <1> QED BY <1>10, <1>11


LEMMA AppendAny ==
    ASSUME IsSequence(sent), NEW c
    PROVE  /\ IsSequence(Append(sent, c))
           /\ Len(Append(sent, c)) = Len(sent) + 1
           /\ Append(sent, c) # <<>>
  <1>1. PICK S : sent \in Seq(S)
    BY DEF IsSequence
  <1> DEFINE T == S \cup {c}
  <1>2. sent \in Seq(T)
    BY <1>1, SeqMonotonic
  <1>3. c \in T
    OBVIOUS
  <1> HIDE DEF T
  <1>4. Append(sent, c) \in Seq(T) /\ Len(Append(sent, c)) = Len(sent) + 1
    BY <1>2, <1>3, AppendProperties
  <1>5. Len(sent) \in Nat
    BY <1>2, LenProperties
  <1>6. Append(sent, c) # <<>>
    BY <1>4, <1>5, EmptySeq
  <1> QED BY <1>4, <1>6, Zenon DEF IsSequence

(* A byte is written with the latch off and into an empty FIFO. *)
LEMMA PutByteKeeps ==
    ASSUME SerialInv, PutByte
    PROVE  SerialInv'
  <1> USE DEF SerialInv
  <1> DEFINE n == Len(sent')
  <1>1. /\ todo # <<>> /\ fifo = <<>> /\ DataRegister(n)
        /\ UNCHANGED <<cut, call, step, arg, dlab, line, shift, wire, lost>>
    BY DEF PutByte, THRE
  <1>2. cr' \in BOOLEAN /\ \E c : sent' = Append(sent, c)
    <2>1. cr' = ReturnDue /\ ReturnDue \in BOOLEAN
      BY Zenon DEF PutByte, ReturnDue
    <2> QED BY <2>1, Zenon DEF PutByte
  <1>3. Len(sent) \in Nat /\ (Len(sent) = 0 <=> sent = <<>>)
    BY LenOfSent DEF Typed
  <1>4. IsSequence(sent)' /\ n = Len(sent) + 1 /\ sent' # <<>>
    <2>1. PICK c : sent' = Append(sent, c)
      BY <1>2
    <2>2. IsSequence(sent')
      BY <2>1, AppendAny DEF Typed
    <2> QED BY <2>1, <2>2, AppendAny DEF Typed, IsSequence
  <1> HIDE DEF n
  <1>5. InCall("serial_printf")
    BY <1>1 DEF Sending
  <1>6. ~ dlab /\ ~ InCall("serial_init") /\ ~ (~ Struck /\ call = 1)
    BY <1>5, LatchIsOff
  <1>7. divisor' = divisor /\ fifo' = <<n>>
    <2>1. Append(<<>>, n) = <<n>>
      OBVIOUS
    <2> QED BY <1>1, <1>6, <2>1 DEF DataRegister
  <1>8. /\ Struck' = Struck /\ Script' = Script
        /\ \A name : InCall(name)' = InCall(name)
    BY <1>1 DEF Struck, Script, InCall, Running, Calls, Current
  <1>9. Latched' /\ Sending' /\ SetUpFirst'
    BY <1>1, <1>5, <1>6, <1>8, Zenon DEF Latched, Sending, SetUpFirst
  <1>10. Typed'
    <2>1. wire' \in Seq(Nat) /\ shift' \in Seq(Nat) /\ Len(shift') <= 1
      BY <1>1 DEF Typed, TypeOK
    <2>2. n \in Nat
      BY <1>3, <1>4
    <2>3. fifo' \in Seq(Nat)
      BY <1>7, <2>2
    <2>4. cut' \in -1 .. n /\ lost' \subseteq 0 .. n
      BY <1>1, <1>3, <1>4 DEF Typed, TypeOK
    <2>5. TypeOK'
      BY <1>1, <1>2, <1>7, <1>8, <2>1, <2>4, Zenon DEF Typed, TypeOK, n
    <2> QED BY <1>4, <2>1, <2>3, <2>5 DEF Typed
  <1>11. Out' = Append(Out, n)
    <2>1. Out \in Seq(Nat) /\ wire \o shift \in Seq(Nat) /\ Out = (wire \o shift) \o fifo
      BY OutFacts
    <2>2. Out = wire \o shift
      BY <1>1, <2>1, ConcatEmptySeq, Zenon
    <2>3. Out' = (wire \o shift) \o <<n>>
      BY <1>1, <1>7, Zenon DEF Out
    <2>4. n \in Nat
      BY <1>3, <1>4
    <2> QED BY <2>1, <2>2, <2>3, <2>4, AppendIsConcat, Zenon
  <1>12. AtRisk'
    BY <1>4, <1>7, Zenon DEF AtRisk, n
  <1>13. InOrder'
    <2>1. Out \in Seq(Nat) /\ n \in Nat \ {0}
      BY <1>3, <1>4, OutFacts
    <2>2. Increasing(Out) /\ Elements(Out) \ {0} = (1 .. Len(sent)) \ lost
      BY InOrderIs
    <2>3. \A e \in Elements(Out) : e < n
      <3> SUFFICES ASSUME NEW e \in Elements(Out), e # 0 PROVE e < n
        BY <2>1
      <3>1. e \in 1 .. Len(sent)
        BY <2>2
      <3> QED BY <1>3, <1>4, <3>1
    <2>4. Increasing(Out')
      BY <1>11, <2>1, <2>2, <2>3, AppendKeepsOrder
    <2>5. Elements(Out') \ {0} = (1 .. n) \ lost'
      <3>1. Elements(Out') = Elements(Out) \cup {n}
        BY <1>11, <2>1, AppendIndex
      <3>2. 1 .. n = (1 .. Len(sent)) \cup {n} /\ n \notin lost /\ n # 0
        BY <1>3, <1>4 DEF Typed, TypeOK
      <3> QED BY <1>1, <2>2, <3>1, <3>2, Zenon
    <2> QED BY <2>4, <2>5, Zenon DEF InOrder, Out, Elements, Increasing, n
  <1> QED BY <1>9, <1>10, <1>12, <1>13

(* The UART only moves what it holds. *)
LEMMA TransmitKeeps ==
    ASSUME SerialInv, Transmit
    PROVE  SerialInv'
  <1> USE DEF SerialInv
  <1>1. UNCHANGED <<software, dlab, divisor, line, sent, lost>>
    BY DEF Transmit, StartByte, FinishByte
  <1>2. /\ Struck' = Struck /\ Script' = Script
        /\ \A name : InCall(name)' = InCall(name)
    BY <1>1 DEF software, Struck, Script, InCall, Running, Calls, Current
  <1>3. Latched' /\ Sending' /\ SetUpFirst'
    BY <1>1, <1>2, Zenon DEF software, Latched, Sending, SetUpFirst
  <1>4. ASSUME wire' \in Seq(Nat), shift' \in Seq(Nat), fifo' \in Seq(Nat),
               Len(shift') <= 1
        PROVE  Typed'
    <2>1. TypeOK'
      BY <1>1, <1>2, <1>4, Zenon DEF software, Typed, TypeOK
    <2> QED BY <1>1, <1>4, <2>1, Zenon DEF Typed, IsSequence
  <1>5. ASSUME Out' = Out, sent # <<>> => fifo' = <<>> \/ fifo' = fifo
        PROVE  AtRisk' /\ InOrder'
    <2>1. AtRisk'
      BY <1>1, <1>5, Zenon DEF AtRisk, Elements
    <2>2. InOrder'
      BY <1>1, <1>5, InOrderIs, Zenon DEF InOrder, Out, Elements, Increasing
    <2> QED BY <2>1, <2>2
  <1>6. CASE StartByte
    <2>1. /\ shift = <<>> /\ fifo # <<>> /\ fifo \in Seq(Nat) /\ wire \in Seq(Nat)
          /\ shift' = <<Head(fifo)>> /\ fifo' = Tail(fifo) /\ wire' = wire
      BY <1>6 DEF StartByte, Typed
    <2>2. Head(fifo) \in Nat /\ Tail(fifo) \in Seq(Nat)
      BY <2>1, HeadTailProperties
    <2>3. <<Head(fifo)>> \in Seq(Nat) /\ Len(<<Head(fifo)>>) = 1
      BY <2>2
    <2>4. <<Head(fifo)>> \o Tail(fifo) = fifo
      BY <2>1
    <2>5. Typed'
      BY <1>4, <2>1, <2>2, <2>3
    <2>6. Out' = Out
      <3>1. Out = wire \o fifo
        BY <2>1, ConcatEmptySeq, Zenon DEF Out
      <3>2. Out' = wire \o (<<Head(fifo)>> \o Tail(fifo))
        <4>1. Out' = (wire \o <<Head(fifo)>>) \o Tail(fifo)
          BY <2>1, Zenon DEF Out
        <4>2. (wire \o <<Head(fifo)>>) \o Tail(fifo) = wire \o (<<Head(fifo)>> \o Tail(fifo))
          <5>1. wire \in Seq(Nat) /\ <<Head(fifo)>> \in Seq(Nat) /\ Tail(fifo) \in Seq(Nat)
            BY <2>1, <2>2, <2>3, Zenon
          <5> QED BY <5>1, BytesRegrouped, Zenon
        <4> QED BY <4>1, <4>2, Zenon
      <3> QED BY <2>4, <3>1, <3>2, Zenon
    <2>7. sent # <<>> => fifo' = <<>>
      <3>1. \A e : Tail(<<e>>) = <<>>
        OBVIOUS
      <3> QED BY <2>1, <3>1, Zenon DEF AtRisk
    <2> QED BY <1>3, <1>5, <2>5, <2>6, <2>7
  <1>7. CASE FinishByte
    <2>1. /\ wire \in Seq(Nat) /\ shift \in Seq(Nat) /\ fifo \in Seq(Nat)
          /\ wire' = wire \o shift /\ shift' = <<>> /\ fifo' = fifo
      BY <1>7 DEF FinishByte, Typed
    <2>2. wire \o shift \in Seq(Nat)
      BY OutFacts
    <2>3. Typed'
      BY <1>4, <2>1, <2>2, EmptySeq
    <2>4. Out' = Out
      <3>1. (wire \o shift) \o <<>> = wire \o shift
        BY <2>2, ConcatEmptySeq, Zenon
      <3> QED BY <2>1, <3>1, Zenon DEF Out
    <2> QED BY <1>3, <1>5, <2>1, <2>3, <2>4
  <1> QED BY <1>6, <1>7 DEF Transmit

LEMMA Idle ==
    ASSUME SerialInv, UNCHANGED vars
    PROVE  SerialInv'
  <1> USE DEF vars, software, uart
  <1>1. /\ Struck' = Struck /\ Script' = Script
        /\ \A name : InCall(name)' = InCall(name)
    BY DEF Struck, Script, InCall, Running, Calls, Current
  <1>2. Latched' /\ Sending' /\ SetUpFirst'
    BY <1>1, Zenon DEF SerialInv, Latched, Sending, SetUpFirst
  <1>3. /\ cut' \in -1 .. Len(sent) /\ call' \in 1 .. Len(Script') + 1
        /\ step' \in Nat \ {0} /\ arg' \in Nat \ {0} /\ cr' \in BOOLEAN
    BY <1>1, Zenon DEF SerialInv, Typed, TypeOK
  <1> QED BY <1>2, <1>3, SoftwareMoves

-----------------------------------------------------------------------------
(* The theorems. *)

(* The invariant holds in every state, for every log, every report, whatever
   the firmware left in the UART and wherever an exception strikes. *)
THEOREM SerialInvariant == Spec => []SerialInv
  <1>1. Init => SerialInv
    BY InitHolds
  <1>2. SerialInv /\ [Next]_vars => SerialInv'
    <2> SUFFICES ASSUME SerialInv, [Next]_vars PROVE SerialInv'
      OBVIOUS
    <2>1. CASE SerialInit
      BY <2>1, SerialInitKeeps
    <2>2. CASE InitReturns
      BY <2>2, InitReturnsKeeps
    <2>3. CASE PutByte
      BY <2>3, PutByteKeeps
    <2>4. CASE Printf
      BY <2>4, ConvertKeeps, PrintfReturnsKeeps DEF Printf
    <2>5. CASE ExceptionStrikes
      BY <2>5, StrikeKeeps
    <2>6. CASE Transmit
      BY <2>6, TransmitKeeps
    <2>7. CASE Done \/ UNCHANGED vars
      BY <2>7, Idle DEF Done
    <2> QED
      BY <2>1, <2>2, <2>3, <2>4, <2>5, <2>6, <2>7 DEF Next, Software
  <1> QED BY <1>1, <1>2, PTL DEF Spec

(* Every variable keeps its type; no byte is lost that was never sent. *)
THEOREM TypeCorrect == Spec => []TypeOK
  <1>1. SerialInv => TypeOK
    BY DEF SerialInv, Typed
  <1> QED BY <1>1, SerialInvariant, PTL

(* How far serial_init has got with the divisor and the word format, and that
   nothing else changes them. *)
SetUpTo(n) ==
    /\ n > 3 => divisor.low = 1
    /\ n > 4 => divisor.high = 0
    /\ n > 5 => line = "8N1"

SetUp == SetUpTo(IF InCall("serial_init") THEN step ELSE 8)

(* A step that leaves the divisor and the word format alone either stays where
   it is, or begins a call, and leaves serial_init only when it is complete. *)
LEMMA SetUpStays ==
    ASSUME SetUp, UNCHANGED <<divisor, line>>, step \in Nat,
           InCall("serial_init")' => step' = 1 \/ (InCall("serial_init") /\ step' = step),
           InCall("serial_init") /\ ~ InCall("serial_init")' => step > 7
    PROVE  SetUp'
  <1>1. CASE InCall("serial_init")'
    <2>1. CASE step' = 1
      BY <1>1, <2>1 DEF SetUp, SetUpTo
    <2>2. CASE InCall("serial_init") /\ step' = step
      BY <1>1, <2>2 DEF SetUp, SetUpTo
    <2> QED BY <1>1, <2>1, <2>2
  <1>2. CASE ~ InCall("serial_init")'
    <2>1. SetUpTo(8)
      <3>1. CASE InCall("serial_init")
        BY <1>2, <3>1 DEF SetUp, SetUpTo
      <3>2. CASE ~ InCall("serial_init")
        BY <3>2 DEF SetUp
      <3> QED BY <3>1, <3>2
    <2>2. SetUpTo(8)'
      BY <2>1 DEF SetUpTo
    <2> QED BY <1>2, <2>2 DEF SetUp
  <1> QED BY <1>1, <1>2

LEMMA SerialInitSetsUp ==
    ASSUME SerialInv, SetUp, SerialInit
    PROVE  SetUp'
  <1>1. /\ InCall("serial_init") /\ step \in 1 .. 7 /\ step' = step + 1
        /\ UNCHANGED <<cut, call>>
    BY OneWrite
  <1>2. InCall("serial_init")'
    BY <1>1 DEF InCall, Running, Calls, Current, Script, Struck
  <1>3. SetUpTo(step)
    BY <1>1 DEF SetUp
  <1>4. divisor \in [low : {1, 12}, high : {0, 1}]
    BY DEF SerialInv, Typed, TypeOK
  <1> DEFINE lowSet == [divisor EXCEPT !.low = 1]
             highSet == [divisor EXCEPT !.high = 0]
  <1>5. /\ lowSet.low = 1
        /\ highSet.high = 0 /\ highSet.low = divisor.low
    BY <1>4, DivisorTyped
  <1>6. /\ step = 3 => divisor' = lowSet
        /\ step = 4 => divisor' = highSet
        /\ step > 4 => divisor' = divisor
        /\ line' = (IF step = 2 THEN "other" ELSE IF step = 5 THEN "8N1" ELSE line)
    BY OneWrite
  <1> HIDE DEF lowSet, highSet
  <1>7. step' > 3 => divisor'.low = 1
    BY <1>1, <1>3, <1>5, <1>6 DEF SetUpTo
  <1>8. step' > 4 => divisor'.high = 0
    BY <1>1, <1>3, <1>5, <1>6 DEF SetUpTo
  <1>9. step' > 5 => line' = "8N1"
    BY <1>1, <1>3, <1>6 DEF SetUpTo
  <1> QED BY <1>2, <1>7, <1>8, <1>9 DEF SetUp, SetUpTo

LEMMA StepSetsUp ==
    ASSUME SerialInv, SetUp, [Next]_vars
    PROVE  SetUp'
  <1>1. step \in Nat
    BY DEF SerialInv, Typed, TypeOK
  <1>2. CASE SerialInit
    BY <1>2, SerialInitSetsUp
  <1>3. CASE InitReturns
    <2>1. step > 7 /\ step' = 1 /\ UNCHANGED <<divisor, line>>
      BY <1>1, <1>3 DEF InitReturns, InitWrites, ReturnFromCall, uart
    <2> QED BY <1>1, <2>1, SetUpStays
  <1>4. CASE PutByte
    <2>1. todo # <<>> /\ UNCHANGED <<cut, call, step, line>> /\ DataRegister(Len(sent'))
      BY <1>4 DEF PutByte
    <2>2. InCall("serial_printf")
      BY <2>1 DEF SerialInv, Sending
    <2>3. ~ dlab
      BY <2>2, LatchIsOff DEF SerialInv
    <2>4. divisor' = divisor
      BY <2>1, <2>3, Zenon DEF DataRegister
    <2>5. InCall("serial_init")' = InCall("serial_init")
      BY <2>1 DEF InCall, Running, Calls, Current, Script, Struck
    <2> QED BY <1>1, <2>1, <2>4, <2>5, SetUpStays
  <1>5. CASE Convert
    <2>1. ~ InCall("serial_init") /\ UNCHANGED <<cut, call, divisor, line>>
      BY <1>5 DEF Convert, Formatting, InCall, uart
    <2>2. InCall("serial_init")' = InCall("serial_init")
      BY <2>1 DEF InCall, Running, Calls, Current, Script, Struck
    <2> QED BY <1>1, <2>1, <2>2, SetUpStays
  <1>6. CASE PrintfReturns
    <2>1. ~ InCall("serial_init") /\ step' = 1 /\ UNCHANGED <<divisor, line>>
      BY <1>6 DEF PrintfReturns, ReturnFromCall, Formatting, InCall, uart
    <2> QED BY <1>1, <2>1, SetUpStays
  <1>7. CASE ExceptionStrikes
    <2>1. ~ Struck /\ Running /\ call >= IdtLoaded /\ step' = 1 /\ UNCHANGED <<divisor, line>>
      BY <1>7 DEF ExceptionStrikes, uart
    <2>2. ~ InCall("serial_init")
      <3>1. Current.call = "serial_printf"
        BY <2>1, ProgramAssumption DEF Running, Calls, Current, Script
      <3> QED BY <3>1 DEF InCall
    <2> QED BY <1>1, <2>1, <2>2, SetUpStays
  <1>8. CASE Transmit \/ Done \/ UNCHANGED vars
    <2>1. UNCHANGED <<cut, call, step, divisor, line>>
      BY <1>8 DEF Transmit, StartByte, FinishByte, Done, vars, software, uart
    <2>2. InCall("serial_init")' = InCall("serial_init")
      BY <2>1 DEF InCall, Running, Calls, Current, Script, Struck
    <2> QED BY <1>1, <2>1, <2>2, SetUpStays
  <1> QED BY <1>2, <1>3, <1>4, <1>5, <1>6, <1>7, <1>8 DEF Next, Software, Printf

(* Outside serial_init the UART is at 115200 8N1 and takes bytes, whatever the
   firmware left in it: both bytes of the divisor are written with the latch
   on, and the last write to the line control register turns it off
   (serial.c:57-92). *)
THEOREM UartIsConfigured == Spec => []Configured
  <1>1. Init => SetUp
    <2> SUFFICES ASSUME Init PROVE SetUp
      OBVIOUS
    <2>1. InCall("serial_init") /\ step = 1
      BY ScriptFacts DEF Init, Struck
    <2> QED BY <2>1 DEF SetUp, SetUpTo
  <1>2. SerialInv /\ SetUp /\ [Next]_vars => SetUp'
    BY StepSetsUp
  <1>3. SerialInv /\ SetUp => Configured
    <2> SUFFICES ASSUME SerialInv, SetUp, ~ InCall("serial_init")
                 PROVE  ~ dlab /\ divisor = [low |-> 1, high |-> 0] /\ line = "8N1"
      BY DEF Configured, InCall
    <2>1. ~ dlab
      BY ScriptFacts DEF SerialInv, Latched
    <2>2. divisor.low = 1 /\ divisor.high = 0 /\ line = "8N1"
      BY DEF SetUp, SetUpTo
    <2>3. divisor \in [low : {1, 12}, high : {0, 1}]
      BY DEF SerialInv, Typed, TypeOK
    <2> QED BY <2>1, <2>2, <2>3, DivisorTyped
  <1> QED BY <1>1, <1>2, <1>3, SerialInvariant, PTL DEF Spec

(* The UART never reorders or repeats a byte of the log, and only those
   serial_init discarded are missing from it (serial.c:87, 103-110). *)
THEOREM LogStaysInOrder == Spec => []InOrder
  <1>1. SerialInv => InOrder
    BY DEF SerialInv
  <1> QED BY <1>1, SerialInvariant, PTL


-----------------------------------------------------------------------------
(* What can be lost. *)

LEMMA LossStep ==
    ASSUME SerialInv, [Next]_vars
    PROVE  \/ lost' = lost
           \/ InCall("serial_init") /\ sent' = sent /\ lost' \subseteq lost \cup Elements(fifo)
  <1>1. CASE SerialInit
    <2>1. InCall("serial_init") /\ sent' = sent
      BY <1>1, Zenon DEF SerialInit, InCall
    <2>2. lost' \subseteq lost \cup Elements(fifo)
      BY <1>1 DEF SerialInit, Elements
    <2> QED BY <2>1, <2>2
  <1>2. CASE InitReturns \/ PutByte \/ ExceptionStrikes \/ Transmit
    BY <1>2 DEF InitReturns, PutByte, ExceptionStrikes, Transmit, StartByte, FinishByte
  <1>3. CASE Printf
    BY <1>3 DEF Printf, Convert, PrintfReturns
  <1>4. CASE Done \/ UNCHANGED vars
    BY <1>4 DEF Done, vars
  <1> QED BY <1>1, <1>2, <1>3, <1>4, Zenon DEF Next, Software

(* What the FIFO may hold of the log is its last byte. *)
LEMMA FifoAtRisk ==
    ASSUME SerialInv
    PROVE  /\ Elements(fifo) \subseteq {0, Len(sent)}
           /\ \A n \in Elements(fifo) \ {0} : n = Len(sent) /\ sent # <<>>
           /\ sent # <<>> => Len(fifo) <= 1
  <1> USE DEF SerialInv
  <1>1. CASE sent = <<>>
    <2>1. Elements(fifo) \subseteq {0}
      BY <1>1, OutFacts DEF AtRisk, Elements
    <2> QED BY <1>1, <2>1
  <1>2. CASE sent # <<>>
    <2>1. fifo = <<>> \/ fifo = <<Len(sent)>>
      BY <1>2, Zenon DEF AtRisk
    <2>2. CASE fifo = <<>>
      BY <1>2, <2>2 DEF Elements
    <2>3. CASE fifo = <<Len(sent)>>
      <3>1. Elements(fifo) = {Len(sent)} /\ Len(fifo) = 1
        BY <2>3 DEF Elements
      <3> QED BY <1>2, <3>1
    <2> QED BY <2>1, <2>2, <2>3
  <1> QED BY <1>1, <1>2

(* A byte of the log is lost in serial_init or never, and it is the last one
   written: an exception and its report lose nothing. *)
LossIsLast ==
    [][lost' # lost => InCall("serial_init") /\ lost' \subseteq lost \cup {0, Len(sent)}]_vars

THEOREM OnlyTheLastByteIsLost == Spec => LossIsLast
  <1>1. SerialInv /\ [Next]_vars =>
          [lost' # lost => InCall("serial_init")
                           /\ lost' \subseteq lost \cup {0, Len(sent)}]_vars
    BY LossStep, FifoAtRisk
  <1> QED BY <1>1, SerialInvariant, PTL DEF Spec, LossIsLast

-----------------------------------------------------------------------------
(* Induction as a statement about sets, and what it gives for the two
   recursive functions: that they obey their equations. *)

LEMMA LeastNumber ==
    ASSUME NEW S, S \subseteq Nat, S # {}
    PROVE  \E n \in S : \A m \in S : n <= m
  <1>1. PICK n \in S : \A m \in S : <<m, n>> \notin OpToRel(<, Nat)
    BY NatLessThanWellFounded, WFMin, Zenon
  <1>2. ASSUME NEW m \in S PROVE n <= m
    <2>1. <<m, n>> \in Nat \X Nat
      OBVIOUS
    <2>2. ~ (m < n)
      BY <1>1, <2>1 DEF OpToRel
    <2> QED BY <2>2
  <1> QED BY <1>2

LEMMA UpTo ==
    ASSUME NEW S, NEW m \in Nat, NEW n \in Nat, m \in S,
           \A k \in m .. n : k \in S /\ k < n => k + 1 \in S
    PROVE  \A k \in m .. n : k \in S
  <1> DEFINE Missing == {k \in m .. n : k \notin S}
  <1> SUFFICES ASSUME Missing # {} PROVE FALSE
    OBVIOUS
  <1>1. Missing \subseteq Nat
    OBVIOUS
  <1> HIDE DEF Missing
  <1>2. PICK k \in Missing : \A j \in Missing : k <= j
    BY <1>1, LeastNumber
  <1>3. k \in m .. n /\ k \notin S /\ k # m
    BY DEF Missing
  <1>4. k - 1 \in m .. n /\ ~ (k <= k - 1)
    BY <1>3
  <1>5. k - 1 \in S /\ k - 1 < n /\ (k - 1) + 1 = k
    BY <1>2, <1>3, <1>4 DEF Missing
  <1> QED BY <1>3, <1>4, <1>5

Joins(f, texts, m) ==
    f = [n \in 0 .. m |-> IF n = 0 THEN <<>> ELSE f[n - 1] \o texts[n]]

LEMMA JoinsNext ==
    ASSUME NEW texts, NEW m \in Nat, NEW g, Joins(g, texts, m)
    PROVE  \E f : Joins(f, texts, m + 1)
  <1> DEFINE f == [n \in 0 .. m + 1 |->
                      IF n = m + 1 THEN g[m] \o texts[m + 1] ELSE g[n]]
  <1>1. g = [n \in 0 .. m |-> IF n = 0 THEN <<>> ELSE g[n - 1] \o texts[n]]
    BY Zenon DEF Joins
  <1>2. \A n \in 0 .. m : g[n] = IF n = 0 THEN <<>> ELSE g[n - 1] \o texts[n]
    BY <1>1, Zenon
  <1>3. \A n \in 0 .. m : f[n] = g[n]
    OBVIOUS
  <1>4. f[m + 1] = g[m] \o texts[m + 1]
    OBVIOUS
  <1>5. f = [n \in 0 .. m + 1 |-> f[n]]
    OBVIOUS
  <1> HIDE DEF f
  <1>6. ASSUME NEW n \in 0 .. m + 1
        PROVE  f[n] = IF n = 0 THEN <<>> ELSE f[n - 1] \o texts[n]
    <2>1. CASE n = m + 1
      <3>1. n # 0 /\ n - 1 = m /\ m \in 0 .. m
        BY <2>1
      <3> QED BY <1>3, <1>4, <2>1, <3>1, Zenon
    <2>2. CASE n # m + 1
      <3>1. n \in 0 .. m /\ (n # 0 => n - 1 \in 0 .. m)
        BY <2>2
      <3> QED BY <1>2, <1>3, <3>1, Zenon
    <2> QED BY <2>1, <2>2
  <1>7. f = [n \in 0 .. m + 1 |-> IF n = 0 THEN <<>> ELSE f[n - 1] \o texts[n]]
    BY <1>5, <1>6, Zenon
  <1> QED BY <1>7, Zenon DEF Joins

LEMMA JoinedSteps ==
    ASSUME NEW texts, Len(texts) \in Nat
    PROVE  /\ Joined(texts)[0] = <<>>
           /\ \A n \in 1 .. Len(texts) :
                 Joined(texts)[n] = Joined(texts)[n - 1] \o texts[n]
  <1> DEFINE S == {m \in Nat : \E f : Joins(f, texts, m)}
  <1> DEFINE first == [n \in 0 .. 0 |-> <<>>]
  <1>1. 0 \in S
    <2>1. first = [n \in 0 .. 0 |-> IF n = 0 THEN <<>> ELSE first[n - 1] \o texts[n]]
      <3>1. \A n \in 0 .. 0 : n = 0
        OBVIOUS
      <3> QED BY <3>1
    <2> HIDE DEF first
    <2>2. Joins(first, texts, 0)
      BY <2>1, Zenon DEF Joins
    <2> QED BY <2>2
  <1>2. \A k \in 0 .. Len(texts) : k \in S /\ k < Len(texts) => k + 1 \in S
    BY JoinsNext
  <1>3. Len(texts) \in 0 .. Len(texts)
    OBVIOUS
  <1> HIDE DEF S
  <1>4. Len(texts) \in S
    BY <1>1, <1>2, <1>3, UpTo
  <1>5. PICK g : Joins(g, texts, Len(texts))
    BY <1>4 DEF S
  <1> DEFINE f == Joined(texts)
  <1>6. f = [n \in 0 .. Len(texts) |-> IF n = 0 THEN <<>> ELSE f[n - 1] \o texts[n]]
    BY <1>5, Zenon DEF Joins, Joined
  <1> HIDE DEF f
  <1>7. \A n \in 1 .. Len(texts) : n \in 0 .. Len(texts) /\ n # 0
    OBVIOUS
  <1>8. f[0] = <<>>
    <2>1. 0 \in 0 .. Len(texts)
      OBVIOUS
    <2> QED BY <1>6, <2>1, Zenon
  <1>9. \A n \in 1 .. Len(texts) : f[n] = f[n - 1] \o texts[n]
    BY <1>6, <1>7, Zenon
  <1> QED BY <1>8, <1>9 DEF f

Expands(f, c, m) ==
    f = [n \in 0 .. m |->
            IF n = 0 THEN [at |-> 1, arg |-> 1, text |-> <<>>] ELSE Turn(c, f[n - 1])]

LEMMA ExpandsNext ==
    ASSUME NEW c, NEW m \in Nat, NEW g, Expands(g, c, m)
    PROVE  \E f : Expands(f, c, m + 1)
  <1> DEFINE start == [at |-> 1, arg |-> 1, text |-> <<>>]
  <1> DEFINE f == [n \in 0 .. m + 1 |-> IF n = m + 1 THEN Turn(c, g[m]) ELSE g[n]]
  <1>1. g = [n \in 0 .. m |-> IF n = 0 THEN start ELSE Turn(c, g[n - 1])]
    BY Zenon DEF Expands
  <1> HIDE DEF start
  <1>2. \A n \in 0 .. m : g[n] = IF n = 0 THEN start ELSE Turn(c, g[n - 1])
    BY <1>1, Zenon
  <1>3. \A n \in 0 .. m : f[n] = g[n]
    OBVIOUS
  <1>4. f[m + 1] = Turn(c, g[m])
    OBVIOUS
  <1>5. f = [n \in 0 .. m + 1 |-> f[n]]
    OBVIOUS
  <1> HIDE DEF f
  <1>6. ASSUME NEW n \in 0 .. m + 1
        PROVE  f[n] = IF n = 0 THEN start ELSE Turn(c, f[n - 1])
    <2>1. CASE n = m + 1
      <3>1. n # 0 /\ n - 1 = m /\ m \in 0 .. m
        BY <2>1
      <3> QED BY <1>3, <1>4, <2>1, <3>1, Zenon
    <2>2. CASE n # m + 1
      <3>1. n \in 0 .. m /\ (n # 0 => n - 1 \in 0 .. m)
        BY <2>2
      <3> QED BY <1>2, <1>3, <3>1, Zenon
    <2> QED BY <2>1, <2>2
  <1>7. f = [n \in 0 .. m + 1 |-> IF n = 0 THEN start ELSE Turn(c, f[n - 1])]
    BY <1>5, <1>6, Zenon
  <1> QED BY <1>7, Zenon DEF Expands, start

LEMMA ExpansionSteps ==
    ASSUME NEW c, Len(c.fmt) \in Nat
    PROVE  /\ Expansion(c)[0] = [at |-> 1, arg |-> 1, text |-> <<>>]
           /\ \A n \in 1 .. Len(c.fmt) : Expansion(c)[n] = Turn(c, Expansion(c)[n - 1])
  <1> DEFINE start == [at |-> 1, arg |-> 1, text |-> <<>>]
  <1> DEFINE S == {m \in Nat : \E f : Expands(f, c, m)}
  <1> DEFINE first == [n \in 0 .. 0 |-> start]
  <1>1. 0 \in S
    <2>1. first = [n \in 0 .. 0 |-> IF n = 0 THEN start ELSE Turn(c, first[n - 1])]
      <3>1. \A n \in 0 .. 0 : n = 0
        OBVIOUS
      <3> QED BY <3>1
    <2> HIDE DEF first
    <2>2. Expands(first, c, 0)
      BY <2>1, Zenon DEF Expands
    <2> QED BY <2>2
  <1>2. \A k \in 0 .. Len(c.fmt) : k \in S /\ k < Len(c.fmt) => k + 1 \in S
    BY ExpandsNext
  <1>3. Len(c.fmt) \in 0 .. Len(c.fmt)
    OBVIOUS
  <1> HIDE DEF S
  <1>4. Len(c.fmt) \in S
    BY <1>1, <1>2, <1>3, UpTo
  <1>5. PICK g : Expands(g, c, Len(c.fmt))
    BY <1>4 DEF S
  <1> DEFINE f == Expansion(c)
  <1>6. f = [n \in 0 .. Len(c.fmt) |-> IF n = 0 THEN start ELSE Turn(c, f[n - 1])]
    BY <1>5, Zenon DEF Expands, Expansion
  <1> HIDE DEF f, start
  <1>7. \A n \in 1 .. Len(c.fmt) : n \in 0 .. Len(c.fmt) /\ n # 0
    OBVIOUS
  <1>8. f[0] = start
    <2>1. 0 \in 0 .. Len(c.fmt)
      OBVIOUS
    <2> QED BY <1>6, <2>1, Zenon
  <1>9. \A n \in 1 .. Len(c.fmt) : f[n] = Turn(c, f[n - 1])
    BY <1>6, <1>7, Zenon
  <1> QED BY <1>8, <1>9 DEF f, start

-----------------------------------------------------------------------------
(* Texts. *)

Text == Seq(Characters)

(* t is s and more text. *)
Extends(s, t) == \E u \in Text : t = s \o u

LEMMA TextConcat ==
    ASSUME NEW s \in Text, NEW t \in Text
    PROVE  s \o t \in Text /\ Extends(s, s \o t) /\ s \o <<>> = s /\ Extends(s, s)
  <1>1. s \o t \in Text
    BY ConcatProperties, Zenon DEF Text
  <1>2. s \o <<>> = s /\ <<>> \in Text
    BY ConcatEmptySeq, EmptySeq, Zenon DEF Text
  <1> QED BY <1>1, <1>2, Zenon DEF Extends

LEMMA ExtendsTransitive ==
    ASSUME NEW s \in Text, NEW t \in Text, NEW u \in Text, Extends(s, t), Extends(t, u)
    PROVE  Extends(s, u)
  <1>1. PICK v \in Text : t = s \o v
    BY DEF Extends
  <1>2. PICK w \in Text : u = t \o w
    BY DEF Extends
  <1>3. u = s \o (v \o w)
    BY <1>1, <1>2, Regrouped DEF Text
  <1> QED BY <1>3, TextConcat, Zenon DEF Extends

LEMMA ExtendsAfter ==
    ASSUME NEW s \in Text, NEW t \in Text, NEW u \in Text, Extends(t, u)
    PROVE  Extends(s \o t, s \o u)
  <1>1. PICK v \in Text : u = t \o v
    BY DEF Extends
  <1>2. s \o u = (s \o t) \o v
    BY <1>1, Regrouped DEF Text
  <1> QED BY <1>2, Zenon DEF Extends

LEMMA PrefixOf ==
    ASSUME NEW s \in Text, NEW t \in Text
    PROVE  SubSeq(s \o t, 1, Len(s)) = s
  BY SMTT(20) DEF Text

(* Joined, for texts: what it returns, and that it only grows. *)
LEMMA JoinedText ==
    ASSUME NEW texts \in Seq(Text)
    PROVE  \A n \in 0 .. Len(texts) : Joined(texts)[n] \in Text
  <1> DEFINE S == {n \in Nat : n <= Len(texts) => Joined(texts)[n] \in Text}
  <1>1. Len(texts) \in Nat /\ \A n \in 1 .. Len(texts) : texts[n] \in Text
    BY LenProperties, ElementOfSeq
  <1>2. /\ Joined(texts)[0] = <<>>
        /\ \A n \in 1 .. Len(texts) : Joined(texts)[n] = Joined(texts)[n - 1] \o texts[n]
    BY <1>1, JoinedSteps
  <1>3. 0 \in S
    <2>1. <<>> \in Text
      BY EmptySeq DEF Text
    <2> QED BY <1>2, <2>1
  <1>4. ASSUME NEW k \in 0 .. Len(texts), k \in S, k < Len(texts) PROVE k + 1 \in S
    <2>1. k + 1 \in 1 .. Len(texts) /\ (k + 1) - 1 = k /\ Joined(texts)[k] \in Text
      BY <1>1, <1>4
    <2>2. Joined(texts)[k + 1] = Joined(texts)[k] \o texts[k + 1]
      BY <1>2, <2>1
    <2>3. Joined(texts)[k + 1] \in Text
      BY <1>1, <2>1, <2>2, TextConcat
    <2> QED BY <2>1, <2>3
  <1> HIDE DEF S
  <1>5. \A k \in 0 .. Len(texts) : k \in S
    BY <1>1, <1>3, <1>4, UpTo
  <1> QED BY <1>1, <1>5 DEF S

LEMMA JoinedGrows ==
    ASSUME NEW texts \in Seq(Text), NEW n \in 0 .. Len(texts)
    PROVE  Extends(Joined(texts)[n], Joined(texts)[Len(texts)])
  <1> DEFINE J == Joined(texts)
  <1> DEFINE S == {k \in Nat : Extends(J[n], J[k])}
  <1>1. Len(texts) \in Nat /\ \A k \in 1 .. Len(texts) : texts[k] \in Text
    BY LenProperties, ElementOfSeq
  <1>2. \A k \in 1 .. Len(texts) : J[k] = J[k - 1] \o texts[k]
    BY <1>1, JoinedSteps
  <1>3. \A k \in 0 .. Len(texts) : J[k] \in Text
    BY JoinedText
  <1> HIDE DEF J
  <1>4. n \in S
    BY <1>1, <1>3, TextConcat
  <1>5. ASSUME NEW k \in n .. Len(texts), k \in S, k < Len(texts) PROVE k + 1 \in S
    <2>1. /\ k + 1 \in 1 .. Len(texts) /\ (k + 1) - 1 = k
          /\ k \in 0 .. Len(texts) /\ k + 1 \in 0 .. Len(texts)
      BY <1>1, <1>5
    <2>2. J[k + 1] = J[k] \o texts[k + 1] /\ J[k] \in Text /\ J[k + 1] \in Text
          /\ J[n] \in Text /\ texts[k + 1] \in Text
      BY <1>1, <1>2, <1>3, <2>1
    <2>3. Extends(J[k], J[k + 1])
      BY <2>2, TextConcat
    <2>4. Extends(J[n], J[k + 1])
      BY <1>5, <2>2, <2>3, ExtendsTransitive
    <2> QED BY <2>1, <2>4
  <1> HIDE DEF S
  <1>6. \A k \in n .. Len(texts) : k \in S
    <2>1. n \in Nat
      BY <1>1
    <2> QED BY <1>1, <1>4, <1>5, <2>1, UpTo
  <1> QED BY <1>1, <1>6 DEF S, J

(* The characters c with '\n' as CR LF. *)
Sent(c) == IF c = "nl" THEN <<"cr", "nl">> ELSE <<c>>

LEMMA CrlfFacts ==
    ASSUME NEW chars \in Text
    PROVE  /\ Crlf(chars)[0] = <<>>
           /\ \A k \in 1 .. Len(chars) :
                 Crlf(chars)[k] = Crlf(chars)[k - 1] \o Sent(chars[k])
           /\ \A k \in 0 .. Len(chars) :
                 /\ Crlf(chars)[k] \in Text
                 /\ Extends(Crlf(chars)[k], Crlf(chars)[Len(chars)])
           /\ \A k \in 1 .. Len(chars) : chars[k] \in Characters /\ Sent(chars[k]) \in Text
  <1> DEFINE texts == [k \in 1 .. Len(chars) |-> Sent(chars[k])]
  <1>1. Len(chars) \in Nat /\ \A k \in 1 .. Len(chars) : chars[k] \in Characters
    BY LenProperties, ElementOfSeq DEF Text
  <1>2. ASSUME NEW c \in Characters PROVE Sent(c) \in Text
    BY TextsAssumption DEF Sent, Text
  <1>3. texts \in [1 .. Len(chars) -> Text]
    BY <1>1, <1>2
  <1>4. \A k \in 1 .. Len(chars) : texts[k] = Sent(chars[k])
    OBVIOUS
  <1>5. Crlf(chars) = Joined(texts)
    BY Zenon DEF Crlf, Sent
  <1> HIDE DEF texts
  <1>6. texts \in Seq(Text) /\ Len(texts) = Len(chars)
    <2>1. texts \in Seq(Text)
      BY <1>1, <1>3
    <2>2. DOMAIN texts = 1 .. Len(chars) /\ DOMAIN texts = 1 .. Len(texts) /\ Len(texts) \in Nat
      BY <1>3, <2>1, LenProperties
    <2> QED BY <1>1, <2>1, <2>2
  <1>7. /\ Joined(texts)[0] = <<>>
        /\ \A k \in 1 .. Len(chars) : Joined(texts)[k] = Joined(texts)[k - 1] \o texts[k]
    BY <1>1, <1>6, JoinedSteps
  <1>8. \A k \in 0 .. Len(chars) :
           Joined(texts)[k] \in Text /\ Extends(Joined(texts)[k], Joined(texts)[Len(chars)])
    BY <1>6, JoinedText, JoinedGrows
  <1> QED BY <1>1, <1>2, <1>4, <1>5, <1>7, <1>8, Zenon
-----------------------------------------------------------------------------
(* What serial.h makes of a format, turn by turn. *)

Prints(c) == c.call = "serial_printf" /\ Proper(c)

Typeset(mark) == mark.at \in Nat \ {0} /\ mark.arg \in Nat \ {0} /\ mark.text \in Text

(* What one turn adds to a mark. *)
LEMMA TurnFacts ==
    ASSUME NEW c, NEW mark, Typeset(mark), ~ Ends(c, mark.at),
           Handed(c, mark.at, mark.arg) \in Text
    PROVE  /\ Typeset(Turn(c, mark))
           /\ Turn(c, mark).at = mark.at + Width(c, mark.at)
           /\ Turn(c, mark).arg = mark.arg + Takes(c, mark.at)
           /\ Turn(c, mark).text =
                 mark.text \o Crlf(Handed(c, mark.at, mark.arg))
                                  [Len(Handed(c, mark.at, mark.arg))]
           /\ Turn(c, mark).at > mark.at
           /\ Extends(mark.text, Turn(c, mark).text)
  <1> DEFINE chars == Handed(c, mark.at, mark.arg)
  <1> DEFINE added == Crlf(chars)[Len(chars)]
  <1>1. Turn(c, mark) = [at   |-> mark.at + Width(c, mark.at),
                         arg  |-> mark.arg + Takes(c, mark.at),
                         text |-> mark.text \o added]
    BY Zenon DEF Turn
  <1>2. Width(c, mark.at) \in {1, 2} /\ Takes(c, mark.at) \in {0, 1}
    BY DEF Width, Takes
  <1>3. added \in Text
    <2>1. chars \in Text
      OBVIOUS
    <2>2. Len(chars) \in 0 .. Len(chars)
      BY <2>1, LenProperties DEF Text
    <2> HIDE DEF chars
    <2> QED BY <2>1, <2>2, CrlfFacts
  <1> HIDE DEF added
  <1>4. mark.text \o added \in Text /\ Extends(mark.text, mark.text \o added)
    BY <1>3, TextConcat DEF Typeset
  <1>5. /\ Turn(c, mark).at = mark.at + Width(c, mark.at)
        /\ Turn(c, mark).arg = mark.arg + Takes(c, mark.at)
        /\ Turn(c, mark).text = mark.text \o added
    BY <1>1
  <1>6. /\ mark.at + Width(c, mark.at) \in Nat \ {0}
        /\ mark.arg + Takes(c, mark.at) \in Nat \ {0}
        /\ mark.at + Width(c, mark.at) > mark.at
    BY <1>2 DEF Typeset
  <1>7. Typeset(Turn(c, mark))
    BY <1>4, <1>5, <1>6, Zenon DEF Typeset
  <1> QED BY <1>4, <1>5, <1>6, <1>7, Zenon DEF added

LEMMA ExpansionTurns ==
    ASSUME NEW c, Prints(c)
    PROVE  /\ Len(c.fmt) \in Nat
           /\ Expansion(c)[0] = [at |-> 1, arg |-> 1, text |-> <<>>]
           /\ c.text = Expansion(c)[Len(c.fmt)].text
           /\ \A n \in 0 .. Len(c.fmt) :
                 n < Len(c.fmt) => Expansion(c)[n + 1] = Turn(c, Expansion(c)[n])
           /\ \A n \in 0 .. Len(c.fmt) :
                 \/ Ends(c, Expansion(c)[n].at)
                 \/ Handed(c, Expansion(c)[n].at, Expansion(c)[n].arg) \in Text
  <1>1. /\ Len(c.fmt) \in Nat
        /\ c.text = Expansion(c)[Len(c.fmt)].text
        /\ \A n \in 0 .. Len(c.fmt) :
              \/ Ends(c, Expansion(c)[n].at)
              \/ Handed(c, Expansion(c)[n].at, Expansion(c)[n].arg) \in Seq(Characters)
    <2>1. c.call # "serial_init"
      BY DEF Prints
    <2> QED BY <2>1, Zenon DEF Prints, Proper
  <1>2. /\ Expansion(c)[0] = [at |-> 1, arg |-> 1, text |-> <<>>]
        /\ \A n \in 1 .. Len(c.fmt) : Expansion(c)[n] = Turn(c, Expansion(c)[n - 1])
    BY <1>1, ExpansionSteps, Zenon
  <1>3. ASSUME NEW n \in 0 .. Len(c.fmt), n < Len(c.fmt)
        PROVE  Expansion(c)[n + 1] = Turn(c, Expansion(c)[n])
    <2>1. n + 1 \in 1 .. Len(c.fmt) /\ (n + 1) - 1 = n
      BY <1>1, <1>3
    <2> QED BY <1>2, <2>1
  <1> QED BY <1>1, <1>2, <1>3, Zenon DEF Text

(* Every turn is further on in the format, until it ends. *)
LEMMA MarkFacts ==
    ASSUME NEW c, Prints(c)
    PROVE  \A n \in 0 .. Len(c.fmt) :
              /\ Typeset(Expansion(c)[n])
              /\ Ends(c, Expansion(c)[n].at) \/ n < Expansion(c)[n].at
  <1> DEFINE E == Expansion(c)
  <1> DEFINE Good(n) == Typeset(E[n]) /\ (Ends(c, E[n].at) \/ n < E[n].at)
  <1> DEFINE S == {n \in Nat : Good(n)}
  <1>1. Len(c.fmt) \in Nat
    BY ExpansionTurns
  <1>2. E[0] = [at |-> 1, arg |-> 1, text |-> <<>>]
    BY ExpansionTurns
  <1>3. \A n \in 0 .. Len(c.fmt) : n < Len(c.fmt) => E[n + 1] = Turn(c, E[n])
    BY ExpansionTurns
  <1>4. \A n \in 0 .. Len(c.fmt) :
           Ends(c, E[n].at) \/ Handed(c, E[n].at, E[n].arg) \in Text
    BY ExpansionTurns
  <1> HIDE DEF E
  <1>5. 0 \in S
    <2>1. E[0].at = 1 /\ E[0].arg = 1 /\ E[0].text = <<>> /\ <<>> \in Text
      BY <1>2, EmptySeq DEF Text
    <2> QED BY <2>1 DEF Typeset
  <1>6. ASSUME NEW k \in 0 .. Len(c.fmt), k \in S, k < Len(c.fmt) PROVE k + 1 \in S
    <2>1. k + 1 \in Nat /\ E[k + 1] = Turn(c, E[k]) /\ Good(k)
      BY <1>1, <1>3, <1>6
    <2>2. CASE Ends(c, E[k].at)
      <3>1. E[k + 1] = E[k]
        BY <2>1, <2>2, Zenon DEF Turn
      <3>2. Good(k + 1)
        BY <2>1, <2>2, <3>1
      <3> QED BY <2>1, <3>2
    <2>3. CASE ~ Ends(c, E[k].at)
      <3>1. Typeset(E[k + 1]) /\ E[k + 1].at > E[k].at
        <4>1. Typeset(E[k]) /\ Handed(c, E[k].at, E[k].arg) \in Text
          BY <1>1, <1>4, <1>6, <2>1, <2>3
        <4> QED BY <2>1, <2>3, <4>1, TurnFacts, ZenonT(30)
      <3>2. k + 1 < E[k + 1].at
        BY <2>1, <2>3, <3>1 DEF Typeset
      <3> QED BY <2>1, <3>1, <3>2
    <2> QED BY <2>2, <2>3
  <1> HIDE DEF S
  <1>7. \A k \in 0 .. Len(c.fmt) : k \in S
    BY <1>1, <1>5, <1>6, UpTo
  <1> QED BY <1>7 DEF S, E

(* The last mark is where the format ends, and the text before any other is
   the beginning of the text. *)
LEMMA MarksGrow ==
    ASSUME NEW c, Prints(c), NEW n \in 0 .. Len(c.fmt)
    PROVE  /\ Extends(Expansion(c)[n].text, c.text)
           /\ Ends(c, Expansion(c)[n].at) => c.text = Expansion(c)[n].text
           /\ ~ Ends(c, Expansion(c)[n].at) => n < Len(c.fmt)
           /\ c.text \in Text
  <1> DEFINE E == Expansion(c)
  <1> DEFINE Good(k) == /\ Extends(E[n].text, E[k].text)
                        /\ Ends(c, E[n].at) => E[k] = E[n]
  <1> DEFINE S == {k \in Nat : Good(k)}
  <1>1. Len(c.fmt) \in Nat /\ n \in Nat /\ Len(c.fmt) \in n .. Len(c.fmt)
    BY ExpansionTurns
  <1>2. c.text = E[Len(c.fmt)].text
    BY ExpansionTurns
  <1>3. \A k \in 0 .. Len(c.fmt) : k < Len(c.fmt) => E[k + 1] = Turn(c, E[k])
    BY ExpansionTurns
  <1>4. \A k \in 0 .. Len(c.fmt) :
           Ends(c, E[k].at) \/ Handed(c, E[k].at, E[k].arg) \in Text
    BY ExpansionTurns
  <1>5. \A k \in 0 .. Len(c.fmt) : Typeset(E[k]) /\ (Ends(c, E[k].at) \/ k < E[k].at)
    BY MarkFacts
  <1> HIDE DEF E
  <1>6. n \in S
    <2>1. E[n].text \in Text
      BY <1>5 DEF Typeset
    <2> QED BY <1>1, <2>1, TextConcat
  <1>7. ASSUME NEW k \in n .. Len(c.fmt), k \in S, k < Len(c.fmt) PROVE k + 1 \in S
    <2>1. /\ k + 1 \in Nat /\ k \in 0 .. Len(c.fmt) /\ k + 1 \in 0 .. Len(c.fmt)
          /\ E[k + 1] = Turn(c, E[k]) /\ Good(k)
      BY <1>1, <1>3, <1>7
    <2>2. CASE Ends(c, E[k].at)
      <3>1. E[k + 1] = E[k]
        BY <2>1, <2>2, Zenon DEF Turn
      <3> QED BY <2>1, <3>1
    <2>3. CASE ~ Ends(c, E[k].at)
      <3>1. Extends(E[k].text, E[k + 1].text)
        <4>1. Typeset(E[k]) /\ Handed(c, E[k].at, E[k].arg) \in Text
          BY <1>4, <1>5, <2>1, <2>3
        <4> QED BY <2>1, <2>3, <4>1, TurnFacts
      <3>2. E[n].text \in Text /\ E[k].text \in Text /\ E[k + 1].text \in Text
        BY <1>5, <2>1 DEF Typeset
      <3>3. Extends(E[n].text, E[k + 1].text)
        BY <2>1, <3>1, <3>2, ExtendsTransitive
      <3>4. ~ Ends(c, E[n].at)
        BY <2>1, <2>3
      <3> QED BY <2>1, <3>3, <3>4
    <2> QED BY <2>2, <2>3
  <1> HIDE DEF S
  <1>8. \A k \in n .. Len(c.fmt) : k \in S
    BY <1>1, <1>6, <1>7, UpTo
  <1>9. Good(Len(c.fmt))
    BY <1>1, <1>8 DEF S
  <1>10. n < Len(c.fmt) \/ Ends(c, E[n].at)
    <2> SUFFICES ASSUME ~ (n < Len(c.fmt)), ~ Ends(c, E[n].at) PROVE FALSE
      OBVIOUS
    <2>1. ~ (E[n].at <= Len(c.fmt))
      BY <1>1, <1>5 DEF Typeset
    <2>2. Ends(c, E[n].at)
      BY <2>1, Zenon DEF Ends, CharAt
    <2> QED BY <2>2
  <1>11. c.text \in Text
    <2>1. Len(c.fmt) \in 0 .. Len(c.fmt)
      BY <1>1
    <2> QED BY <1>2, <1>5, <2>1 DEF Typeset
  <1> QED BY <1>2, <1>9, <1>10, <1>11, Zenon DEF E
-----------------------------------------------------------------------------
(* Inside serial_printf.  A state of its loop is the index p, the next argument
   a, the characters that wait, and whether the '\r' of the first is written;
   part is what the call has printed. *)

(* Between two turns: the n-th is the next. *)
AtMark(c, n, p, a, waiting, return, part) ==
    /\ waiting = <<>> /\ ~ return
    /\ p = Expansion(c)[n].at
    /\ a = Expansion(c)[n].arg
    /\ part = Expansion(c)[n].text

(* Within a turn, with k characters of it printed. *)
Within(mark, chars, c, k, p, a, waiting, return, part) ==
    /\ ~ Ends(c, mark.at)
    /\ p = mark.at + Width(c, mark.at)
    /\ a = mark.arg + Takes(c, mark.at)
    /\ k \in 0 .. Len(chars) - 1
    /\ waiting = SubSeq(chars, k + 1, Len(chars))
    /\ return => chars[k + 1] = "nl"
    /\ part = (mark.text \o Crlf(chars)[k]) \o (IF return THEN <<"cr">> ELSE <<>>)

InTurn(c, n, k, p, a, waiting, return, part) ==
    LET mark == Expansion(c)[n] IN
    Within(mark, Handed(c, mark.at, mark.arg), c, k, p, a, waiting, return, part)

Printed(c, p, a, waiting, return, part) ==
    \E n \in 0 .. Len(c.fmt) :
        \/ AtMark(c, n, p, a, waiting, return, part)
        \/ \E k \in Nat : InTurn(c, n, k, p, a, waiting, return, part)

LEMMA Suffix ==
    ASSUME NEW S, NEW s \in Seq(S), NEW k \in 0 .. Len(s) - 1
    PROVE  /\ SubSeq(s, k + 1, Len(s)) \in Seq(S)
           /\ SubSeq(s, k + 1, Len(s)) # <<>>
           /\ Head(SubSeq(s, k + 1, Len(s))) = s[k + 1]
           /\ Tail(SubSeq(s, k + 1, Len(s))) = SubSeq(s, k + 2, Len(s))
           /\ k + 1 = Len(s) => Tail(SubSeq(s, k + 1, Len(s))) = <<>>
  <1>1. /\ Len(s) \in Nat /\ k + 1 \in 1 .. Len(s) /\ Len(s) \in k + 1 .. Len(s)
        /\ (k + 1) + 1 = k + 2 /\ k + 1 \in Int /\ k + 2 \in Int /\ Len(s) \in Int
    BY LenProperties
  <1>2. /\ Head(SubSeq(s, k + 1, Len(s))) = s[k + 1]
        /\ Tail(SubSeq(s, k + 1, Len(s))) = SubSeq(s, k + 2, Len(s))
    BY <1>1, HeadTailOfSubSeq
  <1>3. k + 1 = Len(s) => SubSeq(s, k + 2, Len(s)) = <<>>
    BY <1>1, SubSeqEmpty
  <1>4. SubSeq(s, k + 1, Len(s)) \in Seq(S) /\ Len(SubSeq(s, k + 1, Len(s))) # 0
    <2>1. \A i \in k + 1 .. Len(s) : s[i] \in S
      BY <1>1, ElementOfSeq
    <2> QED BY <1>1, <2>1, SubSeqProperties
  <1>5. SubSeq(s, k + 1, Len(s)) # <<>>
    BY <1>4, EmptySeq
  <1> QED BY <1>2, <1>3, <1>4, <1>5

LEMMA Whole ==
    ASSUME NEW S, NEW s \in Seq(S)
    PROVE  SubSeq(s, 1, Len(s)) = s /\ (s # <<>> => Len(s) \in Nat \ {0})
  BY SubSeqFull, EmptySeq, LenProperties

(* A call begins with nothing printed. *)
LEMMA PrintedFirst ==
    ASSUME NEW c, Prints(c)
    PROVE  Printed(c, 1, 1, <<>>, FALSE, <<>>)
  <1>1. 0 \in 0 .. Len(c.fmt)
    BY ExpansionTurns
  <1>2. Expansion(c)[0] = [at |-> 1, arg |-> 1, text |-> <<>>]
    BY ExpansionTurns
  <1>3. AtMark(c, 0, 1, 1, <<>>, FALSE, <<>>)
    BY <1>2 DEF AtMark
  <1> QED BY <1>1, <1>3, Zenon DEF Printed

(* Characters wait within a turn only. *)
LEMMA PrintedWaits ==
    ASSUME NEW c, Prints(c), NEW p, NEW a, NEW waiting, NEW return, NEW part,
           Printed(c, p, a, waiting, return, part)
    PROVE  \E n \in 0 .. Len(c.fmt) :
              IF waiting = <<>>
              THEN AtMark(c, n, p, a, waiting, return, part)
              ELSE \E k \in Nat : InTurn(c, n, k, p, a, waiting, return, part)
  <1>1. PICK n \in 0 .. Len(c.fmt) :
           \/ AtMark(c, n, p, a, waiting, return, part)
           \/ \E k \in Nat : InTurn(c, n, k, p, a, waiting, return, part)
    BY DEF Printed
  <1>2. ASSUME NEW k \in Nat, InTurn(c, n, k, p, a, waiting, return, part)
        PROVE  waiting # <<>>
    <2> DEFINE mark == Expansion(c)[n]
    <2> DEFINE chars == Handed(c, mark.at, mark.arg)
    <2>1. ~ Ends(c, mark.at) /\ k \in 0 .. Len(chars) - 1
          /\ waiting = SubSeq(chars, k + 1, Len(chars))
      BY <1>2, Zenon DEF InTurn, Within
    <2>2. chars \in Text
      BY <2>1, ExpansionTurns
    <2> HIDE DEF chars
    <2> QED BY <2>1, <2>2, Suffix DEF Text
  <1>3. ASSUME AtMark(c, n, p, a, waiting, return, part) PROVE waiting = <<>>
    BY <1>3 DEF AtMark
  <1> QED BY <1>1, <1>2, <1>3, Zenon

(* A turn hands out its characters. *)
LEMMA PrintedTurn ==
    ASSUME NEW c, Prints(c), NEW p, NEW a, NEW return, NEW part,
           Printed(c, p, a, <<>>, return, part), ~ Ends(c, p)
    PROVE  Printed(c, p + Width(c, p), a + Takes(c, p), Handed(c, p, a), FALSE, part)
  <1>1. PICK n \in 0 .. Len(c.fmt) : AtMark(c, n, p, a, <<>>, return, part)
    BY PrintedWaits
  <1> DEFINE mark == Expansion(c)[n]
  <1> DEFINE chars == Handed(c, mark.at, mark.arg)
  <1>2. p = mark.at /\ a = mark.arg /\ part = mark.text
    BY <1>1 DEF AtMark
  <1>3. chars \in Text /\ Typeset(mark)
    BY <1>2, ExpansionTurns, MarkFacts
  <1>4. n + 1 \in 0 .. Len(c.fmt) /\ Expansion(c)[n + 1] = Turn(c, mark)
    <2>1. n < Len(c.fmt) /\ Len(c.fmt) \in Nat
      BY <1>2, ExpansionTurns, MarksGrow
    <2> QED BY <2>1, ExpansionTurns
  <1>5. CASE chars = <<>>
    <2>1. Turn(c, mark).at = p + Width(c, p) /\ Turn(c, mark).arg = a + Takes(c, p)
      BY <1>2, <1>3, TurnFacts
    <2>2. Turn(c, mark).text = part
      <3>1. Turn(c, mark).text = part \o Crlf(chars)[Len(chars)]
        BY <1>2, <1>3, TurnFacts
      <3>2. Len(chars) = 0 /\ Crlf(chars)[0] = <<>>
        <4>1. Len(chars) = 0
          BY <1>5, EmptySeq
        <4>2. Crlf(chars)[0] = <<>>
          BY <1>3, CrlfFacts
        <4> QED BY <4>1, <4>2
      <3>3. part \o <<>> = part
        BY <1>2, <1>3, TextConcat DEF Typeset
      <3> HIDE DEF chars
      <3> QED BY <3>1, <3>2, <3>3
    <2>3. AtMark(c, n + 1, p + Width(c, p), a + Takes(c, p), chars, FALSE, part)
      BY <1>4, <1>5, <2>1, <2>2, Zenon DEF AtMark
    <2> QED BY <1>2, <1>4, <2>3, Zenon DEF Printed
  <1>6. CASE chars # <<>>
    <2>1. SubSeq(chars, 1, Len(chars)) = chars /\ Len(chars) \in Nat \ {0}
      BY <1>3, <1>6, Whole DEF Text
    <2>2. part = (mark.text \o Crlf(chars)[0]) \o <<>>
      <3>1. Crlf(chars)[0] = <<>>
        BY <1>3, CrlfFacts
      <3>2. mark.text \in Text
        BY <1>3 DEF Typeset
      <3> HIDE DEF mark, chars
      <3> QED BY <1>2, <3>1, <3>2, TextConcat
    <2>3. 0 \in 0 .. Len(chars) - 1 /\ 0 + 1 = 1
      BY <2>1
    <2>4. Within(mark, chars, c, 0, p + Width(c, p), a + Takes(c, p), chars, FALSE, part)
      BY <1>2, <2>1, <2>2, <2>3, Zenon DEF Within
    <2>5. InTurn(c, n, 0, p + Width(c, p), a + Takes(c, p), chars, FALSE, part)
      BY <2>4, Zenon DEF InTurn
    <2> QED BY <1>2, <2>5, Zenon DEF Printed
  <1> QED BY <1>5, <1>6

LEMMA Pair ==
    ASSUME NEW S, NEW x \in S, NEW y \in S
    PROVE  <<x>> \o <<y>> = <<x, y>>
  <1>1. <<x>> \in Seq(S) /\ <<y>> \in Seq(S) /\ <<x, y>> \in Seq(S)
    OBVIOUS
  <1>2. Len(<<x>>) = 1 /\ Len(<<y>>) = 1 /\ Len(<<x, y>>) = 2
    OBVIOUS
  <1>3. /\ <<x>> \o <<y>> \in Seq(S) /\ Len(<<x>> \o <<y>>) = 2
        /\ (<<x>> \o <<y>>)[1] = x /\ (<<x>> \o <<y>>)[2] = y
    BY <1>1, <1>2, ConcatProperties
  <1>4. \A i \in 1 .. 2 : i = 1 \/ i = 2
    OBVIOUS
  <1>5. \A i \in 1 .. 2 : (<<x>> \o <<y>>)[i] = <<x, y>>[i]
    BY <1>3, <1>4
  <1> QED BY <1>1, <1>2, <1>3, <1>5, SeqEqual

LEMMA TextRegrouped ==
    \A s, t, u \in Text : (s \o t) \o u = s \o (t \o u)
  BY Regrouped DEF Text

(* One byte of a turn: the '\r' of a '\n' first. *)
LEMMA PrintedReturn ==
    ASSUME NEW c, Prints(c), NEW p, NEW a, NEW waiting, NEW part,
           Printed(c, p, a, waiting, FALSE, part), waiting # <<>>, Head(waiting) = "nl"
    PROVE  Printed(c, p, a, waiting, TRUE, part \o <<"cr">>)
  <1>1. PICK n \in 0 .. Len(c.fmt), k \in Nat : InTurn(c, n, k, p, a, waiting, FALSE, part)
    BY PrintedWaits
  <1> DEFINE mark == Expansion(c)[n]
  <1> DEFINE chars == Handed(c, mark.at, mark.arg)
  <1>2. /\ ~ Ends(c, mark.at) /\ k \in 0 .. Len(chars) - 1
        /\ p = mark.at + Width(c, mark.at) /\ a = mark.arg + Takes(c, mark.at)
        /\ waiting = SubSeq(chars, k + 1, Len(chars))
        /\ part = (mark.text \o Crlf(chars)[k]) \o <<>>
    BY <1>1, Zenon DEF InTurn, Within
  <1>3. chars \in Text /\ Typeset(mark)
    BY <1>2, ExpansionTurns, MarkFacts
  <1> HIDE DEF chars, mark
  <1>4. chars[k + 1] = "nl"
    BY <1>2, <1>3, Suffix DEF Text
  <1>5. part = mark.text \o Crlf(chars)[k]
    <2>1. k \in 0 .. Len(chars)
      BY <1>2, <1>3, LenProperties DEF Text
    <2>2. mark.text \o Crlf(chars)[k] \in Text
      BY <1>3, <2>1, CrlfFacts, TextConcat DEF Typeset
    <2> QED BY <1>2, <2>2, TextConcat
  <1>6. Within(mark, chars, c, k, p, a, waiting, TRUE, part \o <<"cr">>)
    BY <1>2, <1>4, <1>5, Zenon DEF Within
  <1>7. InTurn(c, n, k, p, a, waiting, TRUE, part \o <<"cr">>)
    BY <1>6, Zenon DEF InTurn, mark, chars
  <1> QED BY <1>7, Zenon DEF Printed

(* Then the character itself; the last one completes the turn. *)
LEMMA PrintedChar ==
    ASSUME NEW c, Prints(c), NEW p, NEW a, NEW waiting, NEW return \in BOOLEAN, NEW part,
           Printed(c, p, a, waiting, return, part), waiting # <<>>,
           Head(waiting) = "nl" => return
    PROVE  Printed(c, p, a, Tail(waiting), FALSE, part \o <<Head(waiting)>>)
  <1>1. PICK n \in 0 .. Len(c.fmt), k \in Nat : InTurn(c, n, k, p, a, waiting, return, part)
    BY PrintedWaits
  <1> DEFINE mark == Expansion(c)[n]
  <1> DEFINE chars == Handed(c, mark.at, mark.arg)
  <1> DEFINE C == Crlf(chars)
  <1> DEFINE h == chars[k + 1]
  <1>2. /\ ~ Ends(c, mark.at) /\ k \in 0 .. Len(chars) - 1
        /\ p = mark.at + Width(c, mark.at) /\ a = mark.arg + Takes(c, mark.at)
        /\ waiting = SubSeq(chars, k + 1, Len(chars))
        /\ return => h = "nl"
        /\ part = (mark.text \o C[k]) \o (IF return THEN <<"cr">> ELSE <<>>)
    BY <1>1, Zenon DEF InTurn, Within
  <1>3. chars \in Text /\ Typeset(mark)
    BY <1>2, ExpansionTurns, MarkFacts
  <1>4. n + 1 \in 0 .. Len(c.fmt) /\ Expansion(c)[n + 1] = Turn(c, mark)
    <2>1. n < Len(c.fmt) /\ Len(c.fmt) \in Nat
      BY <1>2, ExpansionTurns, MarksGrow
    <2> QED BY <2>1, ExpansionTurns
  <1>5. /\ Turn(c, mark).at = p /\ Turn(c, mark).arg = a
        /\ Turn(c, mark).text = mark.text \o C[Len(chars)]
    BY <1>2, <1>3, TurnFacts
  <1> HIDE DEF mark, chars, C
  <1>6. /\ Len(chars) \in Nat /\ k \in 0 .. Len(chars)
        /\ k + 1 \in 1 .. Len(chars) /\ k + 1 \in 0 .. Len(chars) /\ (k + 1) - 1 = k
        /\ (k + 1) + 1 = k + 2
    BY <1>2, <1>3, LenProperties DEF Text
  <1>7. /\ mark.text \in Text /\ C[k] \in Text /\ C[k + 1] \in Text /\ h \in Characters
        /\ C[k + 1] = C[k] \o Sent(h)
    BY <1>3, <1>6, CrlfFacts DEF Typeset, C
  <1>8. /\ Head(waiting) = h /\ Tail(waiting) = SubSeq(chars, k + 2, Len(chars))
        /\ k + 1 = Len(chars) => Tail(waiting) = <<>>
    BY <1>2, <1>3, Suffix DEF Text
  <1> HIDE DEF h
  <1>9. part \o <<h>> = mark.text \o C[k + 1]
    <2>1. /\ <<"cr">> \in Text /\ <<h>> \in Text
          /\ mark.text \o C[k] \in Text
      BY <1>7, TextsAssumption, TextConcat DEF Text
    <2>2. CASE return
      <3>1. h = "nl" /\ part = (mark.text \o C[k]) \o <<"cr">>
        BY <1>2, <2>2
      <3>2. <<"cr">> \o <<h>> = Sent(h)
        <4>1. \A x, y \in Characters : <<x>> \o <<y>> = <<x, y>>
          BY Pair
        <4>2. "cr" \in Characters /\ "nl" \in Characters
          BY TextsAssumption
        <4> QED BY <3>1, <4>1, <4>2, Zenon DEF Sent
      <3>3. part \o <<h>> = (mark.text \o C[k]) \o (<<"cr">> \o <<h>>)
        BY <2>1, <3>1, TextRegrouped, Zenon
      <3>4. Sent(h) \in Text
        BY <2>1, <3>2, TextConcat
      <3>5. part \o <<h>> = mark.text \o (C[k] \o Sent(h))
        <4>1. (mark.text \o C[k]) \o Sent(h) = mark.text \o (C[k] \o Sent(h))
          BY <1>7, <3>4, TextRegrouped
        <4> QED BY <3>2, <3>3, <4>1
      <3> QED BY <1>7, <3>5, Zenon
    <2>3. CASE ~ return
      <3>1. h # "nl" /\ part = (mark.text \o C[k]) \o <<>>
        BY <1>2, <1>8, <2>3
      <3>2. <<h>> = Sent(h)
        BY <3>1 DEF Sent
      <3>3. part \o <<h>> = (mark.text \o C[k]) \o Sent(h)
        BY <2>1, <3>1, <3>2, TextConcat
      <3>4. (mark.text \o C[k]) \o Sent(h) = mark.text \o (C[k] \o Sent(h))
        <4>1. Sent(h) \in Text
          BY <2>1, <3>2
        <4> QED BY <1>7, <4>1, TextRegrouped
      <3> QED BY <1>7, <3>3, <3>4
    <2> QED BY <2>2, <2>3
  <1>10. CASE k + 1 = Len(chars)
    <2>1. AtMark(c, n + 1, p, a, Tail(waiting), FALSE, part \o <<h>>)
      BY <1>4, <1>5, <1>8, <1>9, <1>10, Zenon DEF AtMark
    <2> QED BY <1>4, <1>8, <2>1, Zenon DEF Printed
  <1>11. CASE k + 1 # Len(chars)
    <2>1. k + 1 \in 0 .. Len(chars) - 1 /\ k + 1 \in Nat
      BY <1>6, <1>11
    <2>2. part \o <<h>> = (mark.text \o C[k + 1]) \o <<>>
      BY <1>7, <1>9, TextConcat
    <2>3. Within(mark, chars, c, k + 1, p, a, Tail(waiting), FALSE, part \o <<h>>)
      BY <1>2, <1>6, <1>8, <2>1, <2>2, Zenon DEF Within, C
    <2>4. InTurn(c, n, k + 1, p, a, Tail(waiting), FALSE, part \o <<h>>)
      BY <2>3, Zenon DEF InTurn, mark, chars
    <2> QED BY <1>8, <2>1, <2>4, Zenon DEF Printed
  <1> QED BY <1>10, <1>11

(* At the end of the format the call has printed its text. *)
LEMMA PrintedAll ==
    ASSUME NEW c, Prints(c), NEW p, NEW a, NEW return, NEW part,
           Printed(c, p, a, <<>>, return, part), Ends(c, p)
    PROVE  part = c.text
  <1>1. PICK n \in 0 .. Len(c.fmt) : AtMark(c, n, p, a, <<>>, return, part)
    BY PrintedWaits
  <1>2. p = Expansion(c)[n].at /\ part = Expansion(c)[n].text
    BY <1>1 DEF AtMark
  <1> QED BY <1>2, MarksGrow

(* Where p is 1 and no character waits, the call has just begun. *)
LEMMA PrintedNothing ==
    ASSUME NEW c, Prints(c), NEW a, NEW return, NEW part,
           Printed(c, 1, a, <<>>, return, part)
    PROVE  part = <<>>
  <1>1. PICK n \in 0 .. Len(c.fmt) : AtMark(c, n, 1, a, <<>>, return, part)
    BY PrintedWaits
  <1>2. Expansion(c)[n].at = 1 /\ part = Expansion(c)[n].text
    BY <1>1 DEF AtMark
  <1>3. Expansion(c)[0].at = 1 /\ Expansion(c)[0].text = <<>>
    BY ExpansionTurns
  <1>4. 0 \in 0 .. Len(c.fmt)
    BY ExpansionTurns
  <1>5. CASE n = 0
    BY <1>2, <1>3, <1>5
  <1>6. CASE n # 0
    <2>1. Ends(c, 1)
      BY <1>2, <1>6, MarkFacts
    <2>2. c.text = Expansion(c)[n].text /\ c.text = Expansion(c)[0].text
      BY <1>2, <1>3, <1>4, <2>1, MarksGrow
    <2> QED BY <1>2, <1>3, <2>2
  <1> QED BY <1>5, <1>6

(* Wherever it stands, it has printed the beginning of its text. *)
LEMMA PrintedPart ==
    ASSUME NEW c, Prints(c), NEW p, NEW a, NEW waiting, NEW return, NEW part,
           Printed(c, p, a, waiting, return, part)
    PROVE  part \in Text /\ Extends(part, c.text)
  <1>1. PICK n \in 0 .. Len(c.fmt) :
           IF waiting = <<>> THEN AtMark(c, n, p, a, waiting, return, part)
           ELSE \E k \in Nat : InTurn(c, n, k, p, a, waiting, return, part)
    BY PrintedWaits
  <1>2. CASE AtMark(c, n, p, a, waiting, return, part)
    BY <1>2, MarkFacts, MarksGrow DEF AtMark, Typeset
  <1>3. ASSUME NEW k \in Nat, InTurn(c, n, k, p, a, waiting, return, part)
        PROVE  part \in Text /\ Extends(part, c.text)
    <2> DEFINE mark == Expansion(c)[n]
    <2> DEFINE chars == Handed(c, mark.at, mark.arg)
    <2> DEFINE C == Crlf(chars)
    <2> DEFINE mid == IF return THEN <<"cr">> ELSE <<>>
    <2>1. /\ ~ Ends(c, mark.at) /\ k \in 0 .. Len(chars) - 1
          /\ return => chars[k + 1] = "nl"
          /\ part = (mark.text \o C[k]) \o mid
      BY <1>3, Zenon DEF InTurn, Within
    <2>2. chars \in Text /\ Typeset(mark)
      BY <2>1, ExpansionTurns, MarkFacts
    <2>3. Extends(mark.text \o C[Len(chars)], c.text) /\ c.text \in Text
      <3>1. n < Len(c.fmt) /\ Len(c.fmt) \in Nat
        BY <2>1, ExpansionTurns, MarksGrow
      <3>2. n + 1 \in 0 .. Len(c.fmt) /\ Expansion(c)[n + 1] = Turn(c, mark)
        BY <3>1, ExpansionTurns
      <3>3. Turn(c, mark).text = mark.text \o C[Len(chars)]
        BY <2>1, <2>2, TurnFacts
      <3> QED BY <3>2, <3>3, MarksGrow
    <2> HIDE DEF mark, chars, C
    <2>4. /\ Len(chars) \in Nat /\ k \in 0 .. Len(chars) /\ k + 1 \in 1 .. Len(chars)
          /\ k + 1 \in 0 .. Len(chars) /\ (k + 1) - 1 = k /\ Len(chars) \in 0 .. Len(chars)
      BY <2>1, <2>2, LenProperties DEF Text
    <2>5. /\ mark.text \in Text /\ C[k] \in Text /\ C[Len(chars)] \in Text
          /\ C[k + 1] = C[k] \o Sent(chars[k + 1])
          /\ C[k + 1] \in Text /\ Extends(C[k + 1], C[Len(chars)])
          /\ Sent(chars[k + 1]) \in Text
      BY <2>2, <2>4, CrlfFacts DEF Typeset, C
    <2>6. mid \in Text /\ Extends(mid, Sent(chars[k + 1]))
      <3>1. CASE return
        <4>1. Sent(chars[k + 1]) = <<"cr", "nl">> /\ mid = <<"cr">>
          BY <2>1, <3>1 DEF Sent
        <4>2. <<"cr">> \o <<"nl">> = <<"cr", "nl">>
          BY TextsAssumption, Pair
        <4>3. <<"cr">> \in Text /\ <<"nl">> \in Text
          BY TextsAssumption DEF Text
        <4> QED BY <4>1, <4>2, <4>3, Zenon DEF Extends
      <3>2. CASE ~ return
        <4>1. mid = <<>> /\ <<>> \in Text
          BY <3>2, EmptySeq DEF Text
        <4>2. <<>> \o Sent(chars[k + 1]) = Sent(chars[k + 1])
          BY <2>5, ConcatEmptySeq, Zenon DEF Text
        <4> QED BY <2>5, <4>1, <4>2, Zenon DEF Extends
      <3> QED BY <3>1, <3>2
    <2> HIDE DEF mid
    <2>7. Extends(C[k] \o mid, C[k + 1]) /\ C[k] \o mid \in Text
      <3>1. Extends(C[k] \o mid, C[k] \o Sent(chars[k + 1]))
        BY <2>5, <2>6, ExtendsAfter
      <3> QED BY <2>5, <2>6, <3>1, TextConcat
    <2>8. Extends(C[k] \o mid, C[Len(chars)])
      BY <2>5, <2>7, ExtendsTransitive
    <2>9. part = mark.text \o (C[k] \o mid)
      <3>1. (mark.text \o C[k]) \o mid = mark.text \o (C[k] \o mid)
        <4>1. mark.text \in Text /\ C[k] \in Text /\ mid \in Text
          BY <2>5, <2>6, Zenon
        <4> QED BY <4>1, TextRegrouped, ZenonT(20)
      <3> QED BY <2>1, <3>1, Zenon
    <2>10. part \in Text /\ Extends(part, mark.text \o C[Len(chars)])
      BY <2>5, <2>7, <2>8, <2>9, ExtendsAfter, TextConcat
    <2>11. mark.text \o C[Len(chars)] \in Text
      BY <2>5, TextConcat
    <2> QED BY <2>3, <2>10, <2>11, ExtendsTransitive
  <1> QED BY <1>1, <1>2, <1>3, Zenon

LEMMA PrintedHead ==
    ASSUME NEW c, Prints(c), NEW p, NEW a, NEW waiting, NEW return, NEW part,
           Printed(c, p, a, waiting, return, part), waiting # <<>>
    PROVE  Head(waiting) \in Characters
  <1>1. PICK n \in 0 .. Len(c.fmt), k \in Nat : InTurn(c, n, k, p, a, waiting, return, part)
    BY PrintedWaits
  <1> DEFINE mark == Expansion(c)[n]
  <1> DEFINE chars == Handed(c, mark.at, mark.arg)
  <1>2. /\ ~ Ends(c, mark.at) /\ k \in 0 .. Len(chars) - 1
        /\ waiting = SubSeq(chars, k + 1, Len(chars))
    BY <1>1, Zenon DEF InTurn, Within
  <1>3. chars \in Text
    BY <1>2, ExpansionTurns
  <1> HIDE DEF chars
  <1>4. Head(waiting) = chars[k + 1] /\ k + 1 \in 1 .. Len(chars)
    BY <1>2, <1>3, Suffix DEF Text
  <1> QED BY <1>3, <1>4, ElementOfSeq DEF Text

-----------------------------------------------------------------------------
(* The text of a script: the texts of its calls, one after the other. *)

Written(script) ==
    /\ Len(script) \in Nat /\ DOMAIN script = 1 .. Len(script)
    /\ \A k \in DOMAIN script : Proper(script[k])

LEMMA TextFacts ==
    ASSUME NEW script, Written(script)
    PROVE  /\ TextBefore(script, 1) = <<>>
           /\ \A c \in 1 .. Len(script) :
                 /\ script[c].text \in Text
                 /\ TextBefore(script, c + 1) = TextBefore(script, c) \o script[c].text
           /\ \A c \in 1 .. Len(script) + 1 :
                 /\ TextBefore(script, c) \in Text
                 /\ Extends(TextBefore(script, c), TextBefore(script, Len(script) + 1))
  <1> DEFINE texts == [k \in 1 .. Len(script) |-> script[k].text]
  <1> DEFINE J == Joined(texts)
  <1>1. ASSUME NEW k \in 1 .. Len(script) PROVE script[k].text \in Text
    <2>1. Proper(script[k])
      BY DEF Written
    <2>2. CASE script[k].text = <<>>
      BY <2>2, EmptySeq DEF Text
    <2>3. CASE script[k].call = "serial_printf"
      <3>1. Prints(script[k])
        BY <2>1, <2>3 DEF Prints
      <3>2. 0 \in 0 .. Len(script[k].fmt)
        BY <3>1, ExpansionTurns
      <3> QED BY <3>1, <3>2, MarksGrow
    <2> QED BY <2>1, <2>2, <2>3, Zenon DEF Proper
  <1>2. Len(script) \in Nat
    BY DEF Written
  <1>3. texts \in [1 .. Len(script) -> Text]
    BY <1>1
  <1>4. \A k \in 1 .. Len(script) : texts[k] = script[k].text
    OBVIOUS
  <1>5. \A c : TextBefore(script, c) = J[c - 1]
    BY Zenon DEF TextBefore
  <1> HIDE DEF texts
  <1>6. texts \in Seq(Text) /\ Len(texts) = Len(script)
    <2>1. texts \in Seq(Text)
      BY <1>2, <1>3
    <2>2. DOMAIN texts = 1 .. Len(script) /\ DOMAIN texts = 1 .. Len(texts) /\ Len(texts) \in Nat
      BY <1>3, <2>1, LenProperties
    <2> QED BY <1>2, <2>1, <2>2
  <1>7. /\ J[0] = <<>>
        /\ \A k \in 1 .. Len(script) : J[k] = J[k - 1] \o texts[k]
    BY <1>2, <1>6, JoinedSteps
  <1>8. \A k \in 0 .. Len(script) : J[k] \in Text /\ Extends(J[k], J[Len(script)])
    BY <1>6, JoinedText, JoinedGrows
  <1> HIDE DEF J
  <1>9. TextBefore(script, 1) = <<>>
    <2>1. 1 - 1 = 0
      OBVIOUS
    <2> QED BY <1>5, <1>7, <2>1
  <1>10. ASSUME NEW c \in 1 .. Len(script)
         PROVE  TextBefore(script, c + 1) = TextBefore(script, c) \o script[c].text
    <2>1. (c + 1) - 1 = c
      BY <1>2
    <2> QED BY <1>4, <1>5, <1>7, <2>1
  <1>11. ASSUME NEW c \in 1 .. Len(script) + 1
         PROVE  /\ TextBefore(script, c) \in Text
                /\ Extends(TextBefore(script, c), TextBefore(script, Len(script) + 1))
    <2>1. c - 1 \in 0 .. Len(script) /\ (Len(script) + 1) - 1 = Len(script)
      BY <1>2
    <2> QED BY <1>5, <1>8, <2>1
  <1> QED BY <1>1, <1>9, <1>10, <1>11

-----------------------------------------------------------------------------
(* What has been sent: up to the cut, if an exception struck, a beginning of
   the program's text; then the text of the calls made so far; then the part of
   the one being made. *)

Cut(pre) ==
    IF Struck THEN /\ Len(pre) = cut
                   /\ Extends(pre, TextBefore(Program, Len(Program) + 1))
              ELSE pre = <<>>

Part(part) ==
    IF InCall("serial_printf") THEN Printed(Current, step, arg, todo, cr, part)
                               ELSE part = <<>> /\ cr = FALSE

TextInv ==
    \E pre \in Text :
        \E part :
            Cut(pre) /\ Part(part) /\ sent = (pre \o TextBefore(Script, call)) \o part

LEMMA ScriptsWritten ==
    /\ Written(Program) /\ Written(Report) /\ Written(Script)
    /\ \A name : InCall(name) => /\ call \in 1 .. Len(Script)
                                 /\ Current = Script[call] /\ Current.call = name
                                 /\ Proper(Current)
    /\ InCall("serial_printf") => Prints(Current)
  <1>1. Written(Program) /\ Written(Report)
    BY ProgramAssumption, TextsAssumption DEF Written
  <1>2. Written(Script)
    BY <1>1, Zenon DEF Script
  <1>3. ASSUME NEW name, InCall(name)
        PROVE  /\ call \in 1 .. Len(Script)
               /\ Current = Script[call] /\ Current.call = name
               /\ Proper(Current)
    BY <1>2, <1>3, Zenon DEF InCall, Running, Calls, Current, Written
  <1> QED BY <1>1, <1>2, <1>3, Zenon DEF Prints

LEMMA PartText ==
    ASSUME NEW part, Part(part)
    PROVE  part \in Text
  <1>1. CASE InCall("serial_printf")
    BY <1>1, ScriptsWritten, PrintedPart, Zenon DEF Part
  <1>2. CASE ~ InCall("serial_printf")
    BY <1>2, EmptySeq, Zenon DEF Part, Text
  <1> QED BY <1>1, <1>2

LEMMA CallInRange ==
    ASSUME SerialInv
    PROVE  call \in 1 .. Len(Script) + 1 /\ TextBefore(Script, call) \in Text
                                         /\ cr \in BOOLEAN
  <1>1. call \in 1 .. Len(Script) + 1 /\ cr \in BOOLEAN
    BY Zenon DEF SerialInv, Typed, TypeOK
  <1> QED BY <1>1, ScriptsWritten, TextFacts

(* A call that has just begun has printed nothing. *)
Begun == step = 1 /\ arg = 1 /\ todo = <<>> /\ cr = FALSE

LEMMA BegunPart == Begun => Part(<<>>)
  <1> SUFFICES ASSUME Begun PROVE Part(<<>>)
    OBVIOUS
  <1>1. CASE InCall("serial_printf")
    <2>1. Printed(Current, 1, 1, <<>>, FALSE, <<>>)
      BY <1>1, ScriptsWritten, PrintedFirst
    <2> QED BY <1>1, <2>1, Zenon DEF Begun, Part
  <1>2. CASE ~ InCall("serial_printf")
    BY <1>2, Zenon DEF Begun, Part
  <1> QED BY <1>1, <1>2

LEMMA SameCall ==
    ASSUME UNCHANGED <<cut, call>>
    PROVE  /\ Current' = Current
           /\ TextBefore(Script, call)' = TextBefore(Script, call)
           /\ \A name : InCall(name)' = InCall(name)
           /\ \A pre : Cut(pre)' = Cut(pre)
  BY DEF Current, Script, Struck, InCall, Running, Calls, Cut

-----------------------------------------------------------------------------
(* The actions. *)

(* Nothing is printed, nor read of a format. *)
LEMMA TextStays ==
    ASSUME TextInv, UNCHANGED <<cut, call, todo, cr, sent>>,
           UNCHANGED <<step, arg>> \/ ~ InCall("serial_printf")
    PROVE  TextInv'
  <1>1. PICK pre \in Text : \E part :
            Cut(pre) /\ Part(part) /\ sent = (pre \o TextBefore(Script, call)) \o part
    BY DEF TextInv
  <1>2. PICK part :
            Cut(pre) /\ Part(part) /\ sent = (pre \o TextBefore(Script, call)) \o part
    BY <1>1
  <1>3. Part(part)'
    BY <1>2, SameCall, Zenon DEF Part
  <1> QED BY <1>2, <1>3, SameCall, Zenon DEF TextInv

LEMMA ConvertText ==
    ASSUME SerialInv, TextInv, Convert
    PROVE  TextInv'
  <1>1. PICK pre \in Text : \E part :
            Cut(pre) /\ Part(part) /\ sent = (pre \o TextBefore(Script, call)) \o part
    BY DEF TextInv
  <1>2. PICK part :
            Cut(pre) /\ Part(part) /\ sent = (pre \o TextBefore(Script, call)) \o part
    BY <1>1
  <1>3. /\ InCall("serial_printf") /\ Prints(Current)
        /\ todo = <<>> /\ ~ Ends(Current, step)
        /\ UNCHANGED <<cut, call, cr, sent>>
    BY ScriptsWritten DEF Convert, Formatting, InCall
  <1>4. Printed(Current, step, arg, <<>>, cr, part)
    BY <1>2, <1>3, Zenon DEF Part
  <1>5. cr = FALSE
    <2>1. PICK n \in 0 .. Len(Current.fmt) : AtMark(Current, n, step, arg, <<>>, cr, part)
      BY <1>3, <1>4, PrintedWaits
    <2> QED BY <2>1, CallInRange, Zenon DEF AtMark
  <1>6. Printed(Current, step', arg', todo', FALSE, part)
    <2>1. Printed(Current, step + Width(Current, step), arg + Takes(Current, step),
                  Handed(Current, step, arg), FALSE, part)
      BY <1>3, <1>4, PrintedTurn
    <2> QED BY <2>1, Zenon DEF Convert
  <1>7. Part(part)'
    BY <1>3, <1>5, <1>6, SameCall, Zenon DEF Part
  <1> QED BY <1>2, <1>3, <1>7, SameCall, Zenon DEF TextInv

(* A call that has printed its text returns. *)
LEMMA ReturnText ==
    ASSUME SerialInv, ReturnFromCall, UNCHANGED <<todo, cr, sent>>,
           call \in 1 .. Len(Script), todo = <<>>, cr = FALSE,
           NEW pre \in Text, Cut(pre),
           sent = (pre \o TextBefore(Script, call)) \o Script[call].text
    PROVE  TextInv'
  <1>1. Script' = Script /\ Struck' = Struck /\ call' = call + 1 /\ Cut(pre)'
    BY DEF ReturnFromCall, Script, Struck, Cut
  <1>2. Part(<<>>)'
    <2>1. Begun'
      BY DEF ReturnFromCall, Begun
    <2> QED BY <2>1, BegunPart, PTL
  <1>3. /\ TextBefore(Script, call) \in Text /\ Script[call].text \in Text
        /\ TextBefore(Script, call + 1) = TextBefore(Script, call) \o Script[call].text
    BY ScriptsWritten, TextFacts, CallInRange
  <1>4. sent = pre \o TextBefore(Script, call + 1)
    <2>1. (pre \o TextBefore(Script, call)) \o Script[call].text
             = pre \o (TextBefore(Script, call) \o Script[call].text)
      BY <1>3, TextRegrouped
    <2> QED BY <1>3, <2>1
  <1>5. sent = (pre \o TextBefore(Script, call + 1)) \o <<>>
    <2>1. pre \o TextBefore(Script, call + 1) \in Text
      BY <1>3, TextConcat
    <2> QED BY <1>4, <2>1, TextConcat
  <1>6. sent' = (pre \o TextBefore(Script, call)') \o <<>>
    BY <1>1, <1>5
  <1> QED BY <1>1, <1>2, <1>6, Zenon DEF TextInv

LEMMA PrintfReturnsText ==
    ASSUME SerialInv, TextInv, PrintfReturns
    PROVE  TextInv'
  <1>1. PICK pre \in Text : \E part :
            Cut(pre) /\ Part(part) /\ sent = (pre \o TextBefore(Script, call)) \o part
    BY DEF TextInv
  <1>2. PICK part :
            Cut(pre) /\ Part(part) /\ sent = (pre \o TextBefore(Script, call)) \o part
    BY <1>1
  <1>3. /\ InCall("serial_printf") /\ todo = <<>> /\ Ends(Current, step)
        /\ ReturnFromCall /\ UNCHANGED <<todo, cr, sent>>
    BY DEF PrintfReturns, Formatting, InCall
  <1>4. /\ Prints(Current) /\ Current = Script[call] /\ call \in 1 .. Len(Script)
    BY <1>3, ScriptsWritten
  <1>5. Printed(Current, step, arg, <<>>, cr, part)
    BY <1>2, <1>3, Zenon DEF Part
  <1>6. cr = FALSE
    <2>1. PICK n \in 0 .. Len(Current.fmt) : AtMark(Current, n, step, arg, <<>>, cr, part)
      BY <1>4, <1>5, PrintedWaits
    <2> QED BY <2>1, CallInRange, Zenon DEF AtMark
  <1>7. part = Script[call].text
    BY <1>3, <1>4, <1>5, PrintedAll
  <1> QED BY <1>2, <1>3, <1>4, <1>6, <1>7, ReturnText

LEMMA InitReturnsText ==
    ASSUME SerialInv, TextInv, InitReturns
    PROVE  TextInv'
  <1>1. PICK pre \in Text : \E part :
            Cut(pre) /\ Part(part) /\ sent = (pre \o TextBefore(Script, call)) \o part
    BY DEF TextInv
  <1>2. PICK part :
            Cut(pre) /\ Part(part) /\ sent = (pre \o TextBefore(Script, call)) \o part
    BY <1>1
  <1>3. /\ InCall("serial_init") /\ ~ InCall("serial_printf")
        /\ ReturnFromCall /\ UNCHANGED <<todo, cr, sent>>
    BY DEF InitReturns, InCall
  <1>4. todo = <<>> /\ part = <<>> /\ cr = FALSE
    BY <1>2, <1>3, Zenon DEF Part, SerialInv, Sending
  <1>5. call \in 1 .. Len(Script) /\ Script[call].text = <<>>
    <2>1. /\ call \in 1 .. Len(Script) /\ Current = Script[call]
          /\ Current.call = "serial_init" /\ Proper(Current)
      BY <1>3, ScriptsWritten
    <2> QED BY <2>1 DEF Proper
  <1> QED BY <1>2, <1>3, <1>4, <1>5, ReturnText

LEMMA PutByteText ==
    ASSUME SerialInv, TextInv, PutByte
    PROVE  TextInv'
  <1>1. PICK pre \in Text : \E part :
            Cut(pre) /\ Part(part) /\ sent = (pre \o TextBefore(Script, call)) \o part
    BY DEF TextInv
  <1>2. PICK part :
            Cut(pre) /\ Part(part) /\ sent = (pre \o TextBefore(Script, call)) \o part
    BY <1>1
  <1>3. todo # <<>> /\ UNCHANGED <<cut, call, step, arg>>
    BY DEF PutByte
  <1>4. InCall("serial_printf") /\ Prints(Current)
    BY <1>3, ScriptsWritten DEF SerialInv, Sending
  <1>5. Printed(Current, step, arg, todo, cr, part)
    BY <1>2, <1>4, Zenon DEF Part
  <1>6. cr \in BOOLEAN
    BY CallInRange
  <1>7. ASSUME NEW b \in Characters, sent' = Append(sent, b),
               Printed(Current, step, arg, todo', cr', part \o <<b>>)
        PROVE  TextInv'
    <2>1. Part(part \o <<b>>)'
      BY <1>3, <1>4, <1>7, SameCall, Zenon DEF Part
    <2>2. sent' = (pre \o TextBefore(Script, call)) \o (part \o <<b>>)
      <3>1. /\ pre \o TextBefore(Script, call) \in Text /\ part \in Text
            /\ <<b>> \in Text
        BY <1>2, CallInRange, PartText, TextConcat DEF Text
      <3>2. sent \in Text
        BY <1>2, <3>1, TextConcat
      <3>3. sent' = sent \o <<b>>
        BY <1>7, <3>2, AppendIsConcat DEF Text
      <3>4. ((pre \o TextBefore(Script, call)) \o part) \o <<b>>
               = (pre \o TextBefore(Script, call)) \o (part \o <<b>>)
        BY <3>1, TextRegrouped, ZenonT(20)
      <3> QED BY <1>2, <3>3, <3>4
    <2>3. sent' = (pre \o TextBefore(Script, call)') \o (part \o <<b>>)
      BY <1>3, <2>2, SameCall
    <2> QED BY <1>2, <1>3, <2>1, <2>3, SameCall, Zenon DEF TextInv
  <1>8. CASE ReturnDue
    <2>1. Head(todo) = "nl" /\ cr = FALSE
      BY <1>6, <1>8, Zenon DEF ReturnDue
    <2>2. cr' = TRUE
      BY <1>8, Zenon DEF PutByte
    <2>3. sent' = Append(sent, "cr") /\ todo' = todo
      BY <1>8 DEF PutByte
    <2>4. Printed(Current, step, arg, todo, TRUE, part \o <<"cr">>)
      BY <1>3, <1>4, <1>5, <2>1, PrintedReturn
    <2>5. Printed(Current, step, arg, todo', cr', part \o <<"cr">>)
      BY <2>2, <2>3, <2>4, Zenon
    <2> QED BY <1>7, <2>3, <2>5, TextsAssumption
  <1>9. CASE ~ ReturnDue
    <2>1. Head(todo) = "nl" => cr
      BY <1>9, Zenon DEF ReturnDue
    <2>2. cr' = FALSE
      BY <1>9, Zenon DEF PutByte, ReturnDue
    <2>3. sent' = Append(sent, Head(todo)) /\ todo' = Tail(todo)
      BY <1>9 DEF PutByte
    <2>4. Printed(Current, step, arg, Tail(todo), FALSE, part \o <<Head(todo)>>)
      BY <1>3, <1>4, <1>5, <1>6, <2>1, PrintedChar
    <2>5. Printed(Current, step, arg, todo', cr', part \o <<Head(todo)>>)
      BY <2>2, <2>3, <2>4, Zenon
    <2>6. Head(todo) \in Characters
      BY <1>3, <1>4, <1>5, PrintedHead
    <2> QED BY <1>7, <2>3, <2>5, <2>6
  <1> QED BY <1>8, <1>9

(* An exception cuts the log where it stands, in the middle of a call. *)
LEMMA StrikeText ==
    ASSUME SerialInv, TextInv, ExceptionStrikes
    PROVE  TextInv'
  <1>1. PICK pre \in Text : \E part :
            Cut(pre) /\ Part(part) /\ sent = (pre \o TextBefore(Script, call)) \o part
    BY DEF TextInv
  <1>2. PICK part :
            Cut(pre) /\ Part(part) /\ sent = (pre \o TextBefore(Script, call)) \o part
    BY <1>1
  <1> DEFINE before == TextBefore(Program, call)
  <1> DEFINE whole == TextBefore(Program, Len(Program) + 1)
  <1>3. ~ Struck /\ Script = Program /\ pre = <<>>
    BY <1>2 DEF ExceptionStrikes, Script, Cut
  <1>4. InCall("serial_printf")
    BY <1>3, ProgramAssumption DEF ExceptionStrikes, InCall, Running, Calls, Current
  <1>5. /\ call \in 1 .. Len(Program) /\ Current = Program[call] /\ Prints(Current)
        /\ Len(Program) \in Nat /\ Written(Program)
    BY <1>3, <1>4, ScriptsWritten, ProgramAssumption
  <1>6. part \in Text /\ Extends(part, Program[call].text)
    BY <1>2, <1>4, <1>5, PrintedPart DEF Part
  <1>7. /\ before \in Text /\ whole \in Text /\ Program[call].text \in Text
        /\ TextBefore(Program, call + 1) = before \o Program[call].text
        /\ Extends(TextBefore(Program, call + 1), whole)
    <2>1. /\ call \in 1 .. Len(Program) + 1 /\ call + 1 \in 1 .. Len(Program) + 1
          /\ Len(Program) + 1 \in 1 .. Len(Program) + 1
      BY <1>5
    <2> QED BY <1>5, <2>1, TextFacts
  <1> HIDE DEF before, whole
  <1>8. sent = before \o part
    <2>1. <<>> \o before = before
      BY <1>7, ConcatEmptySeq DEF Text
    <2> QED BY <1>2, <1>3, <2>1 DEF before
  <1>9. sent \in Text /\ Extends(sent, whole)
    <2>1. sent \in Text
      BY <1>6, <1>7, <1>8, TextConcat
    <2>2. Extends(sent, before \o Program[call].text)
      BY <1>6, <1>7, <1>8, ExtendsAfter
    <2>3. before \o Program[call].text \in Text
      BY <1>7, TextConcat
    <2> QED BY <1>7, <2>1, <2>2, <2>3, ExtendsTransitive
  <1>10. Len(sent) \in Nat
    BY <1>9, LenProperties DEF Text
  <1>11. /\ Struck' /\ Script' = Report /\ call' = 1 /\ sent' = sent /\ cut' = Len(sent)
    BY <1>10 DEF ExceptionStrikes, Struck, Script
  <1>12. PICK s \in Text : s = sent
    BY <1>9
  <1>13. Part(<<>>)'
    <2>1. Begun'
      BY DEF ExceptionStrikes, Begun
    <2> QED BY <2>1, BegunPart, PTL
  <1>14. sent' = (sent \o TextBefore(Script, call)') \o <<>>
    <2>1. TextBefore(Script, call)' = <<>>
      <3>1. TextBefore(Report, 1) = <<>>
        BY ScriptsWritten, TextFacts
      <3> QED BY <1>11, <3>1
    <2>2. sent \o <<>> = sent
      BY <1>9, TextConcat
    <2> QED BY <1>11, <2>1, <2>2
  <1>15. Cut(s)'
    <2>1. Len(s) = cut' /\ Extends(s, whole)
      BY <1>9, <1>11, <1>12
    <2> QED BY <1>11, <2>1, Zenon DEF Cut, whole
  <1>16. sent' = (s \o TextBefore(Script, call)') \o <<>>
    BY <1>12, <1>14
  <1> QED BY <1>13, <1>15, <1>16, Zenon DEF TextInv

-----------------------------------------------------------------------------
(* The theorems about the text. *)

LEMMA TextStarts == Init => TextInv
  <1> SUFFICES ASSUME Init PROVE TextInv
    OBVIOUS
  <1>1. ~ Struck /\ Script = Program /\ call = 1 /\ sent = <<>>
    BY DEF Init, Struck, Script
  <1>2. Cut(<<>>)
    BY <1>1, Zenon DEF Cut
  <1>3. Part(<<>>)
    BY BegunPart DEF Init, Begun
  <1>4. TextBefore(Script, call) = <<>>
    BY <1>1, ScriptsWritten, TextFacts
  <1>5. <<>> \in Text /\ <<>> \o <<>> = <<>>
    BY EmptySeq, ConcatEmptySeq DEF Text
  <1>6. sent = (<<>> \o TextBefore(Script, call)) \o <<>>
    BY <1>1, <1>4, <1>5
  <1> QED BY <1>2, <1>3, <1>5, <1>6, Zenon DEF TextInv

LEMMA TextStep ==
    ASSUME SerialInv, TextInv, [Next]_vars
    PROVE  TextInv'
  <1>1. CASE SerialInit
    <2>1. ~ InCall("serial_printf") /\ UNCHANGED <<cut, call, todo, cr, sent>>
      BY <1>1 DEF SerialInit, InCall
    <2> QED BY <2>1, TextStays
  <1>2. CASE InitReturns
    BY <1>2, InitReturnsText
  <1>3. CASE PutByte
    BY <1>3, PutByteText
  <1>4. CASE Printf
    BY <1>4, ConvertText, PrintfReturnsText DEF Printf
  <1>5. CASE ExceptionStrikes
    BY <1>5, StrikeText
  <1>6. CASE Transmit \/ Done \/ UNCHANGED vars
    <2>1. UNCHANGED <<software, sent>>
      BY <1>6 DEF Transmit, StartByte, FinishByte, Done, vars
    <2> QED BY <2>1, TextStays DEF software
  <1> QED BY <1>1, <1>2, <1>3, <1>4, <1>5, <1>6 DEF Next, Software

THEOREM TextInvariant == Spec => []TextInv
  <1>1. SerialInv /\ TextInv /\ [Next]_vars => TextInv'
    BY TextStep
  <1> QED BY <1>1, TextStarts, SerialInvariant, PTL DEF Spec

(* Between two calls nothing is under way. *)
LEMMA BetweenCalls ==
    ASSUME SerialInv, TextInv, todo = <<>>,
           step = 1 \/ ~ InCall("serial_printf")
    PROVE  \E pre \in Text :
              /\ Cut(pre)
              /\ sent = pre \o TextBefore(Script, call)
  <1>1. PICK pre \in Text : \E part :
            Cut(pre) /\ Part(part) /\ sent = (pre \o TextBefore(Script, call)) \o part
    BY DEF TextInv
  <1>2. PICK part :
            Cut(pre) /\ Part(part) /\ sent = (pre \o TextBefore(Script, call)) \o part
    BY <1>1
  <1>3. part = <<>>
    <2>1. CASE InCall("serial_printf")
      <3>1. Prints(Current) /\ Printed(Current, 1, arg, <<>>, cr, part)
        BY <1>2, <2>1, ScriptsWritten DEF Part
      <3> QED BY <3>1, PrintedNothing
    <2>2. CASE ~ InCall("serial_printf")
      BY <1>2, <2>2 DEF Part
    <2> QED BY <2>1, <2>2
  <1>4. pre \o TextBefore(Script, call) \in Text
    BY CallInRange, TextConcat
  <1>5. sent = pre \o TextBefore(Script, call)
    BY <1>2, <1>3, <1>4, TextConcat
  <1> QED BY <1>2, <1>5

LEMMA ExtendsIsPrefix ==
    ASSUME NEW s \in Text, NEW t \in Text, Extends(s, t)
    PROVE  IsPrefix(s, t)
  <1>1. PICK u \in Text : t = s \o u
    BY DEF Extends
  <1>2. Len(s) \in Nat /\ Len(u) \in Nat /\ Len(t) = Len(s) + Len(u)
    BY <1>1, ConcatProperties, LenProperties DEF Text
  <1>3. SubSeq(t, 1, Len(s)) = s /\ SubSeq(s, 1, Len(s)) = s
    BY <1>1, PrefixOf, Whole DEF Text
  <1> QED BY <1>2, <1>3 DEF IsPrefix

(* After each call the log is the text of the calls made so far, however the
   UART took its bytes; an exception cuts it at a byte, and its report follows
   whole (serial.c:96-117, 165-207; idt.c:213-216). *)
THEOREM LogIsRight == Spec => []LogRight
  <1>1. SerialInv /\ TextInv => LogRight
    <2> SUFFICES ASSUME SerialInv, TextInv, todo = <<>>, step = 1 PROVE
            IF Struck
            THEN /\ IsPrefix(SubSeq(sent, 1, cut), TextBefore(Program, Len(Program) + 1))
                 /\ sent = SubSeq(sent, 1, cut) \o TextBefore(Report, call)
            ELSE sent = TextBefore(Program, call)
      BY Zenon DEF LogRight
    <2>1. PICK pre \in Text : Cut(pre) /\ sent = pre \o TextBefore(Script, call)
      BY BetweenCalls
    <2>2. TextBefore(Script, call) \in Text
      BY CallInRange
    <2>3. CASE Struck
      <3>1. /\ Script = Report /\ Len(pre) = cut
            /\ Extends(pre, TextBefore(Program, Len(Program) + 1))
        BY <2>1, <2>3 DEF Cut, Script
      <3>2. SubSeq(sent, 1, cut) = pre
        BY <2>1, <2>2, <3>1, PrefixOf
      <3>3. TextBefore(Program, Len(Program) + 1) \in Text
        <4>1. Len(Program) + 1 \in 1 .. Len(Program) + 1
          BY ProgramAssumption
        <4> QED BY <4>1, ScriptsWritten, TextFacts
      <3>4. IsPrefix(pre, TextBefore(Program, Len(Program) + 1))
        BY <3>1, <3>3, ExtendsIsPrefix
      <3> QED BY <2>1, <2>3, <3>1, <3>2, <3>4
    <2>4. CASE ~ Struck
      <3>1. Script = Program /\ pre = <<>>
        BY <2>1, <2>4 DEF Cut, Script
      <3>2. <<>> \o TextBefore(Script, call) = TextBefore(Script, call)
        BY <2>2, ConcatEmptySeq DEF Text
      <3> QED BY <2>1, <2>4, <3>1, <3>2
    <2> QED BY <2>3, <2>4
  <1> QED BY <1>1, SerialInvariant, TextInvariant, PTL

-----------------------------------------------------------------------------
(* What is lost, in terms of the text. *)

LostText ==
    \A n \in lost \ {0} :
        \E c \in 2 .. Len(Program) :
            Program[c].call = "serial_init" /\ n = Len(TextBefore(Program, c))

(* While serial_init runs the log is the text of the calls before it. *)
LEMMA TextInSetUp ==
    ASSUME SerialInv, TextInv, InCall("serial_init")
    PROVE  ~ Struck /\ sent = TextBefore(Program, call)
  <1>1. ~ Struck /\ Script = Program
    BY ScriptFacts DEF Script
  <1>2. ~ InCall("serial_printf")
    BY DEF InCall
  <1>3. todo = <<>>
    BY <1>2 DEF SerialInv, Sending
  <1>4. PICK pre \in Text : Cut(pre) /\ sent = pre \o TextBefore(Script, call)
    BY <1>2, <1>3, BetweenCalls
  <1>5. pre = <<>> /\ TextBefore(Script, call) \in Text
    BY <1>1, <1>4, CallInRange DEF Cut
  <1>6. <<>> \o TextBefore(Script, call) = TextBefore(Script, call)
    BY <1>5, ConcatEmptySeq DEF Text
  <1> QED BY <1>1, <1>4, <1>5, <1>6

(* Each serial_init after the first costs the last byte written before it, at
   most, and nothing else is ever lost (serial.c:62-94, 101-110). *)
THEOREM LossIsBounded == Spec => []LossBounded
  <1>1. SerialInv /\ LostText => LossBounded
    BY FifoAtRisk DEF LossBounded, LostText
  <1>2. Init => LostText
    BY DEF Init, LostText
  <1>3. SerialInv /\ TextInv /\ LostText /\ [Next]_vars => LostText'
    <2> SUFFICES ASSUME SerialInv, TextInv, LostText, [Next]_vars
                 PROVE  LostText'
      OBVIOUS
    <2>1. ASSUME lost' = lost PROVE LostText'
      BY <2>1, Zenon DEF LostText
    <2>2. ASSUME InCall("serial_init"), lost' \subseteq lost \cup Elements(fifo)
          PROVE  LostText'
      <3> SUFFICES ASSUME NEW n \in Elements(fifo) \ {0}
                   PROVE  \E c \in 2 .. Len(Program) :
                             Program[c].call = "serial_init"
                             /\ n = Len(TextBefore(Program, c))
        BY <2>2, Zenon DEF LostText
      <3>1. n = Len(sent) /\ sent # <<>> /\ sent = TextBefore(Program, call) /\ ~ Struck
        BY <2>2, FifoAtRisk, TextInSetUp
      <3>2. call # 1
        BY <3>1 DEF SerialInv, SetUpFirst
      <3>3. call \in 2 .. Len(Program) /\ Program[call].call = "serial_init"
        BY <2>2, <3>1, <3>2, ProgramAssumption DEF InCall, Running, Calls, Current, Script
      <3> QED BY <3>1, <3>3
    <2> QED BY <2>1, <2>2, LossStep
  <1> QED BY <1>1, <1>2, <1>3, SerialInvariant, TextInvariant, PTL DEF Spec

=============================================================================
