----------------------------- MODULE Poc1Proofs -----------------------------
(***************************************************************************)
(* Proofs about the screen and the console, for every screen the firmware  *)
(* may report, every text and every list of configuration tables, in POC 1 *)
(* from end to end: what con_print shows, what BootInfo says, and that the *)
(* test pattern is drawn whole and inside the framebuffer.                 *)
(*                                                                         *)
(* SInv is the inductive invariant. It ties BootInfo to what the firmware  *)
(* said and says how much of the picture each row has so far.              *)
(***************************************************************************)
EXTENDS Poc1, SequenceTheorems, WellFoundedInduction, TLAPS

-----------------------------------------------------------------------------
(* The inductive invariant. *)

Drawing == stage \in {"bars", "frame", "halted"}
Filled == Drawing \/ stage = "handoff"
Searched == Filled \/ stage = "load"
Measured == Searched \/ stage = "map"
Reduced == Measured \/ stage = "size"
Located == Reduced \/ stage = "format"
Unlocated == stage \in {"greet", "printed", "fatal"}

Known ==
    /\ Located \/ Unlocated
    /\ Located => gop \in Modes
    /\ Reduced => fmt = Normalised(gop)
    /\ Measured => warned = (gop.size < SizeExpected)
    /\ info.magic <=> Filled
    /\ Filled =>
          /\ info.width = gop.width /\ info.height = gop.height
          /\ info.stride = gop.stride
          /\ info.pixel_format = fmt /\ info.rsdp = rsdp

(* What con_print may write: the characters of its text, and its own. *)
AnyUnit == STRING \cup {"cr", "nl", "end"}

(* con_print has the units of what it has read, and room for its terminator. *)
Printing ==
    /\ stage \in {"greet", "printed"} =>
          /\ con.text \in Seq(STRING) /\ con.read \in 0 .. Len(con.text)
          /\ con.units \in Seq(AnyUnit)
    /\ stage = "greet" =>
          /\ con = [text |-> con.text, read |-> con.read, units |-> con.units]
          /\ con.units = Expand(con.text)[con.read]
          /\ Len(con.units) <= ConLimit + 1
    /\ stage = "printed" =>
          /\ con.units = Append(Expand(con.text)[con.read], "end")
          /\ Len(con.units) <= ConLimit + 2
          /\ con.read < Len(con.text) => Len(con.units) >= ConLimit + 1
    /\ stage \notin {"greet", "printed"} => con = NoText

(* The tables of one kind among the first ones, and the best of them. *)
Tabled(guid, last) == {tables[k].table : k \in {n \in 1 .. last : tables[n].guid = guid}}

Searching ==
    /\ tables \in Tables
    /\ entry \in 1 .. Len(tables) + 1
    /\ ~ Searched =>
          /\ \A k \in 1 .. entry - 1 : tables[k].guid # "acpi20"
          /\ rsdp \in (IF Tabled("acpi10", entry - 1) # {}
                       THEN Tabled("acpi10", entry - 1) ELSE {0})
    /\ Searched =>
          rsdp \in (IF Tabled("acpi20", Len(tables)) # {}
                    THEN Tabled("acpi20", Len(tables))
                    ELSE IF Tabled("acpi10", Len(tables)) # {}
                    THEN Tabled("acpi10", Len(tables)) ELSE {0})

(* The words of the first n rows. The rows above the one drawn are finished. *)
Rows(n) == {row * gop.stride + x : x \in 0 .. gop.width - 1, row \in 0 .. n - 1}
Finished(x, row) == IF OnBorder(x, row) THEN white ELSE Pixel(x)
RowsBegun == IF stage = "frame" THEN y + 1 ELSE y

Painting ==
    /\ ~ Drawing => y = 0 /\ DOMAIN fb = {}
    /\ Drawing =>
          /\ y \in 0 .. gop.height
          /\ stage = "frame" => y < gop.height
          /\ stage = "halted" => y = gop.height
          /\ DOMAIN fb = Rows(RowsBegun)
          /\ \A x \in 0 .. gop.width - 1, row \in 0 .. y - 1 : Shown(x, row) = Finished(x, row)
          /\ stage = "frame" => \A x \in 0 .. gop.width - 1 : Shown(x, y) = Pixel(x)

SInv == Known /\ Printing /\ Searching /\ Painting

-----------------------------------------------------------------------------
(* What con_print's units are. *)

(* A set of numbers has a least one. *)
LEMMA LeastNumber ==
    ASSUME NEW S, S \subseteq Nat, S # {}
    PROVE  \E n \in S : \A m \in S : n <= m
  <1>1. PICK n \in S : \A m \in S : <<m, n>> \notin OpToRel(<, Nat)
    BY NatLessThanWellFounded, WFMin, Zenon
  <1>2. ASSUME NEW m \in S PROVE n <= m
    <2>1. <<m, n>> \in Nat \X Nat
      OBVIOUS
    <2>2. ~ (m < n)
      BY <1>1, <2>1 DEF OpToRel
    <2> QED BY <2>2
  <1> QED BY <1>2

(* Expand does what its equation says: a function with that equation exists
   on the first m characters, for every m. *)
ExpandsTo(f, text, m) ==
    f = [n \in 0 .. m |-> IF n = 0 THEN <<>> ELSE f[n - 1] \o Units(text[n])]

LEMMA ExpansionExists ==
    ASSUME NEW text, NEW last \in Nat
    PROVE  \E f : ExpandsTo(f, text, last)
  <1> DEFINE Bad == {m \in Nat : ~ \E f : ExpandsTo(f, text, m)}
  <1> SUFFICES ASSUME Bad # {} PROVE FALSE
    OBVIOUS
  <1>1. PICK m \in Bad : \A k \in Bad : m <= k
    <2>1. Bad \subseteq Nat
      OBVIOUS
    <2> HIDE DEF Bad
    <2> QED BY <2>1, LeastNumber
  <1>2. m \in Nat /\ ~ \E f : ExpandsTo(f, text, m)
    OBVIOUS
  <1>3. CASE m = 0
    <2> DEFINE f == [n \in 0 .. 0 |-> <<>>]
    <2>1. f = [n \in 0 .. 0 |-> IF n = 0 THEN <<>> ELSE f[n - 1] \o Units(text[n])]
      <3>1. \A n \in 0 .. 0 : n = 0
        OBVIOUS
      <3> QED BY <3>1
    <2> HIDE DEF f
    <2>2. ExpandsTo(f, text, 0)
      BY <2>1, Zenon DEF ExpandsTo
    <2> QED BY <1>2, <1>3, <2>2
  <1>4. CASE m # 0
    <2>1. m - 1 \in Nat /\ m - 1 \notin Bad
      BY <1>1, <1>2, <1>4
    <2>2. PICK g : ExpandsTo(g, text, m - 1)
      BY <2>1
    <2> DEFINE f == [n \in 0 .. m |-> IF n = m THEN g[m - 1] \o Units(text[m]) ELSE g[n]]
    <2>3. \A n \in 0 .. m - 1 : n \in 0 .. m /\ n # m
      BY <1>2, <1>4
    <2>4. g = [n \in 0 .. m - 1 |-> IF n = 0 THEN <<>> ELSE g[n - 1] \o Units(text[n])]
      BY <2>2, Zenon DEF ExpandsTo
    <2>5. \A n \in 0 .. m - 1 :
              g[n] = IF n = 0 THEN <<>> ELSE g[n - 1] \o Units(text[n])
      BY <2>4, Zenon
    <2>6. ASSUME NEW n \in 0 .. m
          PROVE  f[n] = IF n = 0 THEN <<>> ELSE f[n - 1] \o Units(text[n])
      <3>1. CASE n = m
        <4>1. f[n] = g[m - 1] \o Units(text[m])
          BY <3>1
        <4>2. m - 1 \in 0 .. m - 1
          BY <1>2, <1>4
        <4>3. f[m - 1] = g[m - 1]
          BY <2>3, <4>2
        <4> HIDE DEF f
        <4> QED BY <1>4, <3>1, <4>1, <4>3, Zenon
      <3>2. CASE n # m
        <4>1. n \in 0 .. m - 1
          BY <1>2, <3>2
        <4>2. f[n] = g[n]
          BY <2>3, <4>1
        <4>3. CASE n = 0
          <5> HIDE DEF f
          <5> QED BY <2>5, <4>1, <4>2, <4>3, Zenon
        <4>4. CASE n # 0
          <5>1. n - 1 \in 0 .. m - 1
            BY <4>1, <4>4
          <5>2. f[n - 1] = g[n - 1]
            BY <2>3, <5>1
          <5> HIDE DEF f
          <5> QED BY <2>5, <4>1, <4>2, <4>4, <5>2, Zenon
        <4> QED BY <4>3, <4>4
      <3> QED BY <3>1, <3>2
    <2>7. f = [n \in 0 .. m |-> f[n]]
      OBVIOUS
    <2> HIDE DEF f
    <2>8. f = [n \in 0 .. m |-> IF n = 0 THEN <<>> ELSE f[n - 1] \o Units(text[n])]
      BY <2>6, <2>7, Zenon
    <2> QED BY <1>2, <2>8, Zenon DEF ExpandsTo
  <1> QED BY <1>3, <1>4

LEMMA ExpandSteps ==
    ASSUME NEW text \in Seq(STRING)
    PROVE  /\ Expand(text)[0] = <<>>
           /\ \A n \in 1 .. Len(text) :
                 Expand(text)[n] = Expand(text)[n - 1] \o Units(text[n])
  <1> DEFINE f == Expand(text)
  <1>1. Len(text) \in Nat
    OBVIOUS
  <1>2. PICK g : g = [n \in 0 .. Len(text) |->
                        IF n = 0 THEN <<>> ELSE g[n - 1] \o Units(text[n])]
    BY <1>1, ExpansionExists, Zenon DEF ExpandsTo
  <1>3. f = [n \in 0 .. Len(text) |-> IF n = 0 THEN <<>> ELSE f[n - 1] \o Units(text[n])]
    BY <1>2, Zenon DEF Expand
  <1> HIDE DEF f
  <1>4. 0 \in 0 .. Len(text)
    BY <1>1
  <1>5. \A n \in 1 .. Len(text) : n \in 0 .. Len(text) /\ n # 0
    BY <1>1
  <1>6. f[0] = <<>>
    BY <1>3, <1>4, Zenon
  <1>7. \A n \in 1 .. Len(text) : f[n] = f[n - 1] \o Units(text[n])
    BY <1>3, <1>5, Zenon
  <1> QED BY <1>6, <1>7 DEF f

-----------------------------------------------------------------------------
(* The steps, and the start. *)

LEMMA ScreenSteps ==
    [PocNext]_pocVars => Collect \/ FindRsdp \/ FillBootInfo \/ Draw \/ UNCHANGED screen
  <1>1. PocStep => Collect \/ FindRsdp \/ FillBootInfo \/ Draw \/ UNCHANGED screen
    BY Zenon DEF PocStep, PocCollect, PocRsdp, PocLoad, PocKernel
  <1>2. PocEvent => UNCHANGED screen
    BY Zenon DEF PocEvent
  <1>3. PocStops \/ UNCHANGED pocVars => UNCHANGED screen
    BY Zenon DEF PocStops, pocVars
  <1> QED BY <1>1, <1>2, <1>3, Zenon DEF PocNext

LEMMA ScreenStarts ==
    PocInit => SInv
  <1> SUFFICES ASSUME ScreenInit PROVE SInv
    BY DEF PocInit
  <1> USE DEF Drawing, Filled, Searched, Measured, Reduced, Located, Unlocated
  <1>1. Known
    BY DEF ScreenInit, NoInfo, Known
  <1>2. Printing
    <2>1. PICK m \in Messages : con = [text |-> m, read |-> 0, units |-> <<>>]
      BY DEF ScreenInit
    <2>2. m \in Seq(STRING) /\ ConLimit \in Nat
      BY ConsoleAssumption
    <2>3. Expand(m)[0] = <<>>
      BY <2>2, ExpandSteps
    <2>4. stage = "greet"
      BY DEF ScreenInit
    <2> QED BY <2>1, <2>2, <2>3, <2>4 DEF Printing
  <1>3. Searching
    <2>1. tables \in Tables /\ entry = 1 /\ rsdp = 0 /\ stage = "greet"
      BY DEF ScreenInit
    <2>2. Len(tables) \in Nat
      BY <2>1, TablesAssumption
    <2>3. Tabled("acpi10", entry - 1) = {}
      BY <2>1 DEF Tabled
    <2> QED BY <2>1, <2>2, <2>3 DEF Searching
  <1>4. Painting
    <2>1. DOMAIN fb = {} /\ y = 0 /\ stage = "greet"
      BY DEF ScreenInit
    <2> QED BY <2>1 DEF Painting
  <1> QED BY <1>1, <1>2, <1>3, <1>4 DEF SInv

-----------------------------------------------------------------------------
(* Each part of the invariant is kept by the steps. *)

ScreenStep == Collect \/ FindRsdp \/ FillBootInfo \/ Draw \/ UNCHANGED screen

LEMMA KnownStays ==
    Known /\ ScreenStep => Known'
  <1> SUFFICES ASSUME Known, ScreenStep PROVE Known'
    OBVIOUS
  <1> USE DEF Known, Drawing, Filled, Searched, Measured, Reduced, Located, Unlocated,
              Normalised, SizeExpected
  <1>1. CASE ConPutChar
    BY <1>1 DEF ConPutChar
  <1>2. CASE ConOutput
    BY <1>2 DEF ConOutput
  <1>3. CASE locate_gop
    BY <1>3 DEF locate_gop
  <1>4. CASE normalise_pixel_format
    BY <1>4 DEF normalise_pixel_format
  <1>5. CASE CheckSize
    BY <1>5 DEF CheckSize
  <1>6. CASE RsdpFound
    BY <1>6 DEF RsdpFound
  <1>7. CASE RsdpNext
    BY <1>7 DEF RsdpNext
  <1>8. CASE RsdpFallback
    BY <1>8 DEF RsdpFallback
  <1>9. CASE FillBootInfo
    BY <1>9 DEF FillBootInfo
  <1>10. CASE EnterKernel
    BY <1>10 DEF EnterKernel
  <1>11. CASE DrawBars
    BY <1>11 DEF DrawBars
  <1>12. CASE DrawFrame
    BY <1>12 DEF DrawFrame
  <1>13. CASE Drawn
    BY <1>13 DEF Drawn
  <1>14. CASE UNCHANGED screen
    BY <1>14 DEF screen
  <1> QED
    BY <1>1, <1>2, <1>3, <1>4, <1>5, <1>6, <1>7, <1>8, <1>9, <1>10, <1>11, <1>12,
       <1>13, <1>14, Zenon DEF ScreenStep, Collect, FindRsdp, Draw

(* The steps after the greeting, which leave the console alone. *)
LEMMA ConsoleIsDone ==
    /\ normalise_pixel_format \/ CheckSize \/ FindRsdp \/ FillBootInfo \/ Draw
    => con' = con /\ stage \notin {"greet", "printed"} /\ stage' \notin {"greet", "printed"}
  BY DEF normalise_pixel_format, CheckSize, FindRsdp, RsdpFound, RsdpNext,
         RsdpFallback, FillBootInfo, Draw, EnterKernel, DrawBars, DrawFrame, Drawn

LEMMA PrintingStays ==
    Printing /\ ScreenStep => Printing'
  <1> SUFFICES ASSUME Printing, ScreenStep PROVE Printing'
    OBVIOUS
  <1>1. CASE ConPutChar
    <2> DEFINE c == con.text[con.read + 1]
               units == IF c = "nl" THEN <<"cr", c>> ELSE <<c>>
               next == con.read + 1
    <2>1. stage = "greet" /\ stage' = "greet"
      BY <1>1 DEF ConPutChar
    <2>2. /\ con = [text |-> con.text, read |-> con.read, units |-> con.units]
          /\ con.text \in Seq(STRING) /\ con.read \in 0 .. Len(con.text)
          /\ con.units \in Seq(AnyUnit)
          /\ con.units = Expand(con.text)[con.read]
      BY <2>1 DEF Printing
    <2>3. next \in 1 .. Len(con.text) /\ c \in STRING
      BY <1>1, <2>2 DEF ConPutChar
    <2>4. /\ con'.text = con.text /\ con'.read = next /\ con'.units = con.units \o units
          /\ con' = [text |-> con.text, read |-> next, units |-> con.units \o units]
      <3>1. con' = [con EXCEPT !.read = con.read + 1, !.units = con.units \o units]
        BY <1>1, Zenon DEF ConPutChar
      <3> HIDE DEF units
      <3> QED BY <2>2, <3>1
    <2>5. units = Units(c) /\ units \in Seq(AnyUnit) /\ Len(units) \in {1, 2}
      <3>1. CASE c = "nl"
        <4>1. units = <<"cr", "nl">> /\ Units(c) = <<"cr", "nl">>
          BY <3>1, Zenon DEF Units
        <4>2. "cr" \in AnyUnit /\ "nl" \in AnyUnit
          BY DEF AnyUnit
        <4> HIDE DEF units
        <4> QED BY <4>1, <4>2
      <3>2. CASE c # "nl"
        <4>1. units = <<c>> /\ Units(c) = <<c>>
          BY <3>2, Zenon DEF Units
        <4>2. c \in AnyUnit
          BY <2>3 DEF AnyUnit
        <4> HIDE DEF units, c
        <4> QED BY <4>1, <4>2
      <3> QED BY <3>1, <3>2
    <2>6. con'.units = Expand(con.text)[next]
      <3>1. Expand(con.text)[next] = Expand(con.text)[next - 1] \o Units(con.text[next])
        BY <2>2, <2>3, ExpandSteps
      <3>2. next - 1 = con.read
        BY <2>2
      <3> HIDE DEF next, units
      <3> QED BY <2>2, <2>4, <2>5, <3>1, <3>2, Zenon DEF next
    <2>7. con'.units \in Seq(AnyUnit) /\ Len(con'.units) <= ConLimit + 1
      <3>1. Len(con.units) < ConLimit /\ ConLimit \in Nat
        BY <1>1, ConsoleAssumption DEF ConPutChar, Room
      <3> HIDE DEF units
      <3>2. /\ con.units \o units \in Seq(AnyUnit)
            /\ Len(con.units \o units) = Len(con.units) + Len(units)
        BY <2>2, <2>5, ConcatProperties, Zenon
      <3>3. Len(con.units) \in Nat /\ Len(units) <= 2 /\ Len(units) \in Nat
        <4>1. Len(con.units) \in Nat
          BY <2>2, LenProperties, Zenon
        <4> DEFINE n == Len(units)
        <4>2. n \in {1, 2}
          BY <2>5, Zenon
        <4> HIDE DEF n
        <4>3. n <= 2 /\ n \in Nat
          BY <4>2
        <4> QED BY <4>1, <4>3, Zenon DEF n
      <3>4. Len(con.units \o units) <= ConLimit + 1
        BY <3>1, <3>2, <3>3
      <3> QED BY <2>4, <3>2, <3>4, Zenon
    <2> HIDE DEF next, units
    <2> QED BY <2>1, <2>2, <2>3, <2>4, <2>6, <2>7 DEF Printing
  <1>2. CASE ConOutput
    <2>1. stage = "greet" /\ stage' = "printed"
      BY <1>2 DEF ConOutput
    <2>2. /\ con = [text |-> con.text, read |-> con.read, units |-> con.units]
          /\ con.text \in Seq(STRING) /\ con.read \in 0 .. Len(con.text)
          /\ con.units \in Seq(AnyUnit)
          /\ con.units = Expand(con.text)[con.read]
          /\ Len(con.units) <= ConLimit + 1
      BY <2>1 DEF Printing
    <2>3. con' = [con EXCEPT !.units = Append(con.units, "end")]
      BY <1>2, Zenon DEF ConOutput
    <2>4. /\ con'.text = con.text /\ con'.read = con.read
          /\ con'.units = Append(con.units, "end")
      BY <2>2, <2>3
    <2>5. con.read < Len(con.text) => ~ Len(con.units) < ConLimit
      BY <1>2 DEF ConOutput, Room
    <2>6. /\ con'.units \in Seq(AnyUnit) /\ Len(con'.units) = Len(con.units) + 1
          /\ Len(con.units) \in Nat /\ ConLimit \in Nat
      <3>1. /\ Append(con.units, "end") \in Seq(AnyUnit)
            /\ Len(Append(con.units, "end")) = Len(con.units) + 1
        <4>1. "end" \in AnyUnit
          BY DEF AnyUnit
        <4>2. con.units \in Seq(AnyUnit)
          BY <2>2, Zenon
        <4> QED BY <4>1, <4>2, AppendProperties
      <3> QED BY <2>2, <2>4, <3>1, ConsoleAssumption
    <2>7. con.read < Len(con.text) => Len(con'.units) >= ConLimit + 1
      BY <2>5, <2>6
    <2>8. Len(con'.units) <= ConLimit + 2
      BY <2>2, <2>6
    <2> QED BY <2>1, <2>2, <2>4, <2>6, <2>7, <2>8 DEF Printing
  <1>3. CASE locate_gop
    BY <1>3 DEF locate_gop, Printing
  <1>4. CASE normalise_pixel_format \/ CheckSize \/ FindRsdp \/ FillBootInfo \/ Draw
    BY <1>4, ConsoleIsDone DEF Printing
  <1>5. CASE UNCHANGED screen
    BY <1>5 DEF Printing, screen
  <1> QED BY <1>1, <1>2, <1>3, <1>4, <1>5, Zenon DEF ScreenStep, Collect

(* One more table looked at adds what it has, or nothing. *)
LEMMA TabledNext ==
    ASSUME NEW guid, NEW last \in Nat
    PROVE  Tabled(guid, last + 1) =
               Tabled(guid, last)
               \cup (IF tables[last + 1].guid = guid THEN {tables[last + 1].table} ELSE {})
  <1>1. 1 .. last + 1 = (1 .. last) \cup {last + 1}
    OBVIOUS
  <1> DEFINE next == last + 1
  <1> HIDE DEF next
  <1>2. 1 .. next = (1 .. last) \cup {next}
    BY <1>1 DEF next
  <1>3. Tabled(guid, next) =
            Tabled(guid, last) \cup (IF tables[next].guid = guid THEN {tables[next].table} ELSE {})
    BY <1>2 DEF Tabled
  <1> QED BY <1>3 DEF next

LEMMA SearchingStays ==
    Searching /\ ScreenStep => Searching'
  <1> SUFFICES ASSUME Searching, ScreenStep PROVE Searching'
    OBVIOUS
  <1> USE DEF Drawing, Filled, Searched
  <1>0. Len(tables) \in Nat
    BY TablesAssumption DEF Searching
  <1>1. CASE UNCHANGED <<tables, entry, rsdp>> /\ Searched' = Searched
    <2>1. \A guid : /\ Tabled(guid, Len(tables))' = Tabled(guid, Len(tables))
                   /\ Tabled(guid, entry - 1)' = Tabled(guid, entry - 1)
      BY <1>1 DEF Tabled
    <2> HIDE DEF Searched
    <2> QED BY <1>1, <2>1 DEF Searching
  <1>2. CASE RsdpFound
    <2>1. /\ ~ Searched /\ Searched' /\ tables' = tables /\ entry' = entry
          /\ entry \in 1 .. Len(tables) /\ tables[entry].guid = "acpi20"
          /\ rsdp' = tables[entry].table
      BY <1>2 DEF RsdpFound, Searching
    <2>2. rsdp' \in Tabled("acpi20", Len(tables)) /\ Tabled("acpi20", Len(tables)) # {}
      BY <2>1 DEF Tabled
    <2>3. Tabled("acpi20", Len(tables))' = Tabled("acpi20", Len(tables))
      BY <2>1 DEF Tabled
    <2> HIDE DEF Searched
    <2> QED BY <2>1, <2>2, <2>3 DEF Searching
  <1>3. CASE RsdpNext
    <2>1. /\ ~ Searched /\ ~ Searched' /\ tables' = tables /\ entry' = entry + 1
          /\ entry \in 1 .. Len(tables) /\ tables[entry].guid # "acpi20"
          /\ rsdp' = IF tables[entry].guid = "acpi10" THEN tables[entry].table ELSE rsdp
      BY <1>3 DEF RsdpNext, Searching
    <2>2. /\ \A k \in 1 .. entry - 1 : tables[k].guid # "acpi20"
          /\ rsdp \in (IF Tabled("acpi10", entry - 1) # {}
                       THEN Tabled("acpi10", entry - 1) ELSE {0})
          /\ tables \in Tables
      BY <2>1 DEF Searching
    <2>3. entry - 1 \in Nat /\ entry - 1 + 1 = entry /\ entry' - 1 = entry
      BY <1>0, <2>1
    <2>4. \A k \in 1 .. entry : k \in 1 .. entry - 1 \/ k = entry
      BY <1>0, <2>1
    <2>5. Tabled("acpi10", entry) =
              Tabled("acpi10", entry - 1)
              \cup (IF tables[entry].guid = "acpi10" THEN {tables[entry].table} ELSE {})
      <3> DEFINE last == entry - 1
      <3>1. last \in Nat /\ last + 1 = entry
        BY <2>3
      <3> HIDE DEF last
      <3>2. Tabled("acpi10", last + 1) =
                Tabled("acpi10", last)
                \cup (IF tables[last + 1].guid = "acpi10" THEN {tables[last + 1].table} ELSE {})
        BY <3>1, TabledNext, Zenon
      <3>3. Tabled("acpi10", entry) =
                Tabled("acpi10", last)
                \cup (IF tables[entry].guid = "acpi10" THEN {tables[entry].table} ELSE {})
        BY <3>1, <3>2, Zenon
      <3> QED BY <3>3, Zenon DEF last
    <2>6. rsdp' \in (IF Tabled("acpi10", entry) # {} THEN Tabled("acpi10", entry) ELSE {0})
      BY <2>1, <2>2, <2>5
    <2>7. entry' \in 1 .. Len(tables') + 1
      BY <1>0, <2>1
    <2>8. Tabled("acpi10", entry - 1)' = Tabled("acpi10", entry)
      BY <2>1, <2>3 DEF Tabled
    <2>9. \A k \in 1 .. entry' - 1 : tables'[k].guid # "acpi20"
      BY <2>1, <2>2, <2>3, <2>4
    <2> HIDE DEF Searched
    <2> QED BY <2>1, <2>2, <2>6, <2>7, <2>8, <2>9 DEF Searching
  <1>4. CASE RsdpFallback
    <2>1. /\ ~ Searched /\ Searched' /\ tables' = tables /\ entry' = entry /\ rsdp' = rsdp
          /\ entry - 1 = Len(tables)
      BY <1>0, <1>4 DEF RsdpFallback, Searching
    <2>2. Tabled("acpi20", Len(tables)) = {}
      BY <2>1 DEF Tabled, Searching
    <2>3. rsdp \in (IF Tabled("acpi10", Len(tables)) # {}
                   THEN Tabled("acpi10", Len(tables)) ELSE {0})
      BY <2>1 DEF Searching
    <2>4. \A guid : Tabled(guid, Len(tables))' = Tabled(guid, Len(tables))
      BY <2>1 DEF Tabled
    <2> HIDE DEF Searched
    <2> QED BY <2>1, <2>2, <2>3, <2>4 DEF Searching
  <1>5. Collect \/ FillBootInfo \/ Draw \/ UNCHANGED screen
        => UNCHANGED <<tables, entry, rsdp>> /\ Searched' = Searched
    BY DEF Collect, ConPutChar, ConOutput, locate_gop, normalise_pixel_format, CheckSize,
           FillBootInfo, Draw, EnterKernel, DrawBars, DrawFrame, Drawn, screen
  <1> QED BY <1>1, <1>2, <1>3, <1>4, <1>5, Zenon DEF ScreenStep, FindRsdp

-----------------------------------------------------------------------------
(* The words of the picture. *)

(* No word of a row comes after the start of the next one. *)
LEMMA RowsBelow ==
    ASSUME NEW s \in Nat, NEW w \in Nat, w <= s,
           NEW x \in 0 .. w - 1, NEW r \in Nat, NEW q \in Nat, r < q
    PROVE  r * s + x < q * s
  <1> DEFINE above == q - (r + 1)
  <1>1. above \in Nat /\ q = r + 1 + above
    OBVIOUS
  <1> HIDE DEF above
  <1>2. q * s = r * s + s + above * s
    BY <1>1
  <1> DEFINE p == above * s
             t == r * s
  <1>3. p \in Nat /\ t \in Nat
    BY <1>1
  <1> HIDE DEF p, t
  <1>4. t + x < t + s + p
    BY <1>3
  <1> QED BY <1>2, <1>4 DEF p, t

(* What the kernel knows of the screen is what the firmware said of it, and no
   sum of a coordinate and one wraps. *)
LEMMA Dimensions ==
    ASSUME Known, Filled
    PROVE  /\ info.width = gop.width /\ info.height = gop.height
           /\ info.stride = gop.stride
           /\ gop.width \in Nat \ {0} /\ gop.height \in Nat \ {0} /\ gop.stride \in Nat
           /\ gop.width <= gop.stride
           /\ (gop.width - 1) % U32 = gop.width - 1
           /\ (gop.height - 1) % U32 = gop.height - 1
           /\ gop.height < U32 /\ U32 \in Nat \ {0}
  <1>1. gop \in Modes
    BY DEF Known, Located, Reduced, Measured, Searched
  <1>2. /\ gop.width \in Nat \ {0} /\ gop.height \in Nat \ {0}
        /\ gop.stride \in Nat /\ gop.stride >= gop.width
        /\ gop.width < U32 /\ gop.height < U32
    BY <1>1, ModesAssumption
  <1>3. U32 \in Nat \ {0}
    BY WordAssumption
  <1>4. \A n \in Nat : n < U32 => n % U32 = n
    BY <1>3
  <1>5. /\ gop.width - 1 \in Nat /\ gop.height - 1 \in Nat
        /\ gop.width - 1 < U32 /\ gop.height - 1 < U32
    BY <1>2, <1>3
  <1>6. (gop.width - 1) % U32 = gop.width - 1 /\ (gop.height - 1) % U32 = gop.height - 1
    BY <1>4, <1>5
  <1>7. /\ info.width = gop.width /\ info.height = gop.height
        /\ info.stride = gop.stride
    BY DEF Known
  <1>8. gop.width <= gop.stride
    BY <1>2
  <1> QED BY <1>2, <1>3, <1>6, <1>7, <1>8

(* The colours depend on BootInfo and the column alone. *)
LEMMA ColoursStay ==
    ASSUME info' = info, gop' = gop
    PROVE  /\ white' = white
           /\ \A x : Pixel(x)' = Pixel(x)
           /\ \A x, row : Finished(x, row)' = Finished(x, row)
  <1>1. white' = white /\ bar' = bar
    BY Zenon DEF white, pack, bar
  <1>2. \A x : offset(x)' = offset(x) /\ channel(x)' = channel(x)
    BY <1>1 DEF channel, offset
  <1>3. \A x : level(x)' = level(x)
    BY <1>1, <1>2 DEF level
  <1>4. \A x : Pixel(x)' = Pixel(x)
    BY <1>2, <1>3, Zenon DEF Pixel, pack
  <1> QED BY <1>1, <1>4, Zenon DEF Finished, OnBorder

(* Storing some columns of a row changes those words and no others. *)
LEMMA StoreWrites ==
    ASSUME Known, Filled, y \in Nat, NEW values,
           DOMAIN values \subseteq 0 .. gop.width - 1, Store(values)
    PROVE  /\ DOMAIN fb' = DOMAIN fb \cup {y * gop.stride + x : x \in DOMAIN values}
           /\ \A x \in 0 .. gop.width - 1, row \in 0 .. y - 1 :
                 row * gop.stride + x \in DOMAIN fb =>
                     fb'[row * gop.stride + x] = fb[row * gop.stride + x]
           /\ \A x \in 0 .. gop.width - 1 :
                 /\ x \in DOMAIN values => fb'[y * gop.stride + x] = values[x]
                 /\ x \notin DOMAIN values /\ y * gop.stride + x \in DOMAIN fb =>
                        fb'[y * gop.stride + x] = fb[y * gop.stride + x]
  <1> DEFINE start == y * gop.stride
             words == DOMAIN fb \cup {start + x : x \in DOMAIN values}
  <1>1. RowStart = start
    BY Dimensions, Zenon DEF RowStart
  <1>2. start \in Nat
    BY Dimensions
  <1>3. fb' = [a \in words |-> IF a - start \in DOMAIN values THEN values[a - start] ELSE fb[a]]
    BY <1>1, Zenon DEF Store
  <1> HIDE DEF start
  <1>4. DOMAIN fb' = words
    BY <1>3
  <1>5. ASSUME NEW x \in 0 .. gop.width - 1, NEW row \in 0 .. y - 1,
               row * gop.stride + x \in DOMAIN fb
        PROVE  fb'[row * gop.stride + x] = fb[row * gop.stride + x]
    <2> DEFINE a == row * gop.stride + x
    <2>1. a < start /\ a \in Nat
      <3>1. /\ gop.stride \in Nat /\ gop.width \in Nat /\ gop.width <= gop.stride
            /\ row \in Nat /\ row < y /\ x \in Nat
        BY Dimensions
      <3>2. row * gop.stride + x < y * gop.stride
        BY <3>1, RowsBelow, Zenon
      <3>3. row * gop.stride \in Nat
        BY <3>1
      <3>4. a \in Nat
        BY <3>1, <3>3
      <3> HIDE DEF a
      <3> QED BY <3>2, <3>4, Zenon DEF a, start
    <2>2. a \in words
      BY <1>5
    <2> HIDE DEF a
    <2>3. a - start \notin DOMAIN values
      BY <1>2, <2>1
    <2> HIDE DEF words
    <2>4. fb'[a] = fb[a]
      BY <1>3, <2>2, <2>3, Zenon
    <2> QED BY <2>4 DEF a
  <1>6. ASSUME NEW x \in 0 .. gop.width - 1
        PROVE  /\ x \in DOMAIN values => fb'[start + x] = values[x]
               /\ x \notin DOMAIN values /\ start + x \in DOMAIN fb =>
                      fb'[start + x] = fb[start + x]
    <2> DEFINE a == start + x
    <2>1. a - start = x
      BY <1>2, Dimensions
    <2>2. x \in DOMAIN values \/ a \in DOMAIN fb => a \in words
      OBVIOUS
    <2> HIDE DEF a, words
    <2>3. /\ x \in DOMAIN values => fb'[a] = values[x]
          /\ x \notin DOMAIN values /\ a \in DOMAIN fb => fb'[a] = fb[a]
      BY <1>3, <2>1, <2>2, Zenon
    <2> QED BY <2>3 DEF a
  <1> QED BY <1>4, <1>5, <1>6 DEF start

LEMMA RowsNext ==
    ASSUME NEW n \in Nat
    PROVE  Rows(n + 1) = Rows(n) \cup {n * gop.stride + x : x \in 0 .. gop.width - 1}
  <1> DEFINE next == n + 1
             last == {n * gop.stride + x : x \in 0 .. gop.width - 1}
  <1>1. 0 .. next - 1 = (0 .. n - 1) \cup {n}
    OBVIOUS
  <1> HIDE DEF next
  <1>2. \A a \in Rows(next) : a \in Rows(n) \cup last
    BY <1>1 DEF Rows
  <1>3. \A a \in Rows(n) \cup last : a \in Rows(next)
    BY <1>1 DEF Rows
  <1>4. Rows(next) = Rows(n) \cup last
    BY <1>2, <1>3
  <1> QED BY <1>4 DEF next

LEMMA RowsStay ==
    ASSUME gop' = gop
    PROVE  \A n : Rows(n)' = Rows(n)
  BY DEF Rows

LEMMA RowsHave ==
    ASSUME NEW n, NEW x \in 0 .. gop.width - 1, NEW row \in 0 .. n - 1
    PROVE  row * gop.stride + x \in Rows(n)
  BY DEF Rows

LEMMA PaintingStays ==
    Known /\ Painting /\ ScreenStep => Painting'
  <1> SUFFICES ASSUME Known, Painting, ScreenStep PROVE Painting'
    OBVIOUS
  <1>1. CASE UNCHANGED <<gop, info, y, fb, stage>>
    <2>1. \A x, row : Finished(x, row)' = Finished(x, row)
      BY <1>1, ColoursStay
    <2>2. \A x : Pixel(x)' = Pixel(x)
      BY <1>1, ColoursStay
    <2>3. RowsBegun' = RowsBegun /\ Drawing' = Drawing
      BY <1>1 DEF RowsBegun, Drawing
    <2>4. (Rows(RowsBegun))' = Rows(RowsBegun)
      BY <1>1, <2>3 DEF Rows
    <2> QED BY <1>1, <2>1, <2>2, <2>3, <2>4, Zenon DEF Painting, Shown
  <1>2. CASE ~ Drawing /\ ~ Drawing' /\ UNCHANGED <<y, fb>>
    BY <1>2 DEF Painting
  <1>3. CASE EnterKernel
    <2>1. /\ stage = "handoff" /\ stage' = "bars" /\ y = 0 /\ DOMAIN fb = {}
          /\ y' = 0 /\ fb' = fb /\ gop' = gop
      BY <1>3 DEF EnterKernel, Painting, Drawing
    <2>2. gop.height \in Nat
      BY <2>1, Dimensions DEF Filled
    <2>3. \A n \in {0} : 0 .. n - 1 = {}
      OBVIOUS
    <2>4. RowsBegun' = 0 /\ Drawing'
      BY <2>1 DEF RowsBegun, Drawing
    <2>5. (DOMAIN fb = Rows(RowsBegun))'
      BY <2>1, <2>3, <2>4 DEF Rows
    <2>6. 0 \in 0 .. gop'.height
      BY <2>1, <2>2
    <2> QED BY <2>1, <2>3, <2>4, <2>5, <2>6 DEF Painting
  <1>4. CASE DrawBars
    <2>1. /\ stage = "bars" /\ stage' = "frame" /\ y < info.height /\ y' = y
          /\ gop' = gop /\ info' = info /\ Store([x \in Columns |-> Pixel(x)])
      BY <1>4, Zenon DEF DrawBars
    <2>2. Drawing /\ Filled
      BY <2>1 DEF Drawing, Filled
    <2>3. /\ info.width = gop.width /\ info.height = gop.height
          /\ gop.height \in Nat /\ gop.stride \in Nat
      BY <2>2, Dimensions
    <2>4. /\ y \in 0 .. gop.height /\ y < gop.height /\ y \in Nat /\ DOMAIN fb = Rows(y)
          /\ \A x \in 0 .. gop.width - 1, row \in 0 .. y - 1 :
                Shown(x, row) = Finished(x, row)
      BY <2>1, <2>2, <2>3 DEF Painting, RowsBegun, Rows
    <2> DEFINE values == [x \in Columns |-> Pixel(x)]
    <2>5. DOMAIN values = 0 .. gop.width - 1 /\ \A x \in 0 .. gop.width - 1 : values[x] = Pixel(x)
      BY <2>3 DEF Columns
    <2> HIDE DEF values
    <2>6. /\ DOMAIN fb' = DOMAIN fb \cup {y * gop.stride + x : x \in DOMAIN values}
          /\ \A x \in 0 .. gop.width - 1, row \in 0 .. y - 1 :
                row * gop.stride + x \in DOMAIN fb =>
                    fb'[row * gop.stride + x] = fb[row * gop.stride + x]
          /\ \A x \in 0 .. gop.width - 1 :
                x \in DOMAIN values => fb'[y * gop.stride + x] = values[x]
      <3>1. DOMAIN values \subseteq 0 .. gop.width - 1 /\ Store(values)
        BY <2>1, <2>5 DEF values
      <3> QED BY <2>2, <2>4, <3>1, StoreWrites, Zenon
    <2>7. DOMAIN fb' = Rows(y + 1)
      <3>1. Rows(y + 1) = Rows(y) \cup {y * gop.stride + x : x \in 0 .. gop.width - 1}
        BY <2>4, RowsNext, Zenon
      <3> QED BY <2>4, <2>5, <2>6, <3>1, Zenon
    <2>8. \A x \in 0 .. gop.width - 1, row \in 0 .. y - 1 :
              row * gop.stride + x \in DOMAIN fb
      BY <2>4, RowsHave, Zenon
    <2>9. (\A x \in 0 .. gop.width - 1, row \in 0 .. y - 1 :
              Shown(x, row) = Finished(x, row))'
      <3>1. \A x \in 0 .. gop.width - 1, row \in 0 .. y - 1 :
                fb'[row * gop.stride + x] = Finished(x, row)
        BY <2>4, <2>6, <2>8, Zenon DEF Shown
      <3>2. \A x, row : Finished(x, row)' = Finished(x, row)
        BY <2>1, ColoursStay
      <3> QED BY <2>1, <3>1, <3>2, Zenon DEF Shown
    <2>10. (\A x \in 0 .. gop.width - 1 : Shown(x, y) = Pixel(x))'
      BY <2>1, <2>5, <2>6, ColoursStay, Zenon DEF Shown
    <2>11. y' \in 0 .. gop'.height /\ y' < gop'.height /\ Drawing' /\ RowsBegun' = y + 1
      BY <2>1, <2>4 DEF Drawing, RowsBegun
    <2>12. (DOMAIN fb = Rows(RowsBegun))'
      BY <2>1, <2>7, <2>11, RowsStay
    <2>13. stage' # "halted"
      BY <2>1
    <2>14. /\ y' \in 0 .. gop'.height /\ y' < gop'.height /\ stage' # "halted"
           /\ Drawing'
      BY <2>11, <2>13, Zenon
    <2> QED BY <2>9, <2>10, <2>12, <2>14, Zenon DEF Painting
  <1>5. CASE DrawFrame
    <2>1. /\ stage = "frame" /\ stage' = "bars" /\ y' = (y + 1) % U32
          /\ gop' = gop /\ info' = info /\ Store([x \in FrameColumns |-> white])
      BY <1>5, Zenon DEF DrawFrame
    <2>2. Drawing /\ Filled
      BY <2>1 DEF Drawing, Filled
    <2>3. /\ info.width = gop.width /\ info.height = gop.height
          /\ gop.height \in Nat /\ gop.stride \in Nat /\ gop.width \in Nat \ {0}
          /\ (gop.width - 1) % U32 = gop.width - 1
          /\ (gop.height - 1) % U32 = gop.height - 1
          /\ gop.height < U32 /\ U32 \in Nat \ {0}
      BY <2>2, Dimensions
    <2>4. /\ y \in 0 .. gop.height /\ y < gop.height /\ y \in Nat
          /\ DOMAIN fb = Rows(y + 1)
          /\ \A x \in 0 .. gop.width - 1, row \in 0 .. y - 1 :
                Shown(x, row) = Finished(x, row)
          /\ \A x \in 0 .. gop.width - 1 : Shown(x, y) = Pixel(x)
      BY <2>1, <2>2, <2>3 DEF Painting, RowsBegun, Rows
    <2>5. y' = y + 1
      <3>1. y + 1 \in Nat /\ y + 1 < U32
        BY <2>3, <2>4
      <3> QED BY <2>1, <2>3, <3>1
    <2> DEFINE values == [x \in FrameColumns |-> white]
    <2>6. /\ DOMAIN values = FrameColumns /\ \A x \in FrameColumns : values[x] = white
          /\ FrameColumns \subseteq 0 .. gop.width - 1
          /\ \A x \in 0 .. gop.width - 1 : x \in FrameColumns <=> OnBorder(x, y)
      <3>1. FrameColumns = IF y = 0 \/ y = gop.height - 1 THEN 0 .. gop.width - 1
                           ELSE {0, gop.width - 1}
        BY <2>3, Zenon DEF FrameColumns, Columns
      <3>2. 0 \in 0 .. gop.width - 1 /\ gop.width - 1 \in 0 .. gop.width - 1
        BY <2>3
      <3>3. \A x \in 0 .. gop.width - 1 : x \in FrameColumns <=> OnBorder(x, y)
        BY <3>1 DEF OnBorder
      <3>4. FrameColumns \subseteq 0 .. gop.width - 1
        BY <3>1, <3>2
      <3> QED BY <3>3, <3>4
    <2> HIDE DEF values
    <2>7. /\ DOMAIN fb' = DOMAIN fb \cup {y * gop.stride + x : x \in DOMAIN values}
          /\ \A x \in 0 .. gop.width - 1, row \in 0 .. y - 1 :
                row * gop.stride + x \in DOMAIN fb =>
                    fb'[row * gop.stride + x] = fb[row * gop.stride + x]
          /\ \A x \in 0 .. gop.width - 1 :
                /\ x \in DOMAIN values => fb'[y * gop.stride + x] = values[x]
                /\ x \notin DOMAIN values /\ y * gop.stride + x \in DOMAIN fb =>
                       fb'[y * gop.stride + x] = fb[y * gop.stride + x]
      <3>1. DOMAIN values \subseteq 0 .. gop.width - 1 /\ Store(values)
        BY <2>1, <2>6 DEF values
      <3> QED BY <2>2, <2>4, <3>1, StoreWrites, Zenon
    <2>8. Rows(y + 1) = Rows(y) \cup {y * gop.stride + x : x \in 0 .. gop.width - 1}
      BY <2>4, RowsNext, Zenon
    <2>9. DOMAIN fb' = Rows(y + 1)
      BY <2>4, <2>6, <2>7, <2>8
    <2>10. ASSUME NEW x \in 0 .. gop.width - 1, NEW row \in 0 .. y
           PROVE  fb'[row * gop.stride + x] = Finished(x, row)
      <3>1. CASE row = y
        <4>1. y * gop.stride + x \in DOMAIN fb
          BY <2>4, <2>8
        <4>2. fb[y * gop.stride + x] = Pixel(x)
          BY <2>4, Zenon DEF Shown
        <4>3. CASE OnBorder(x, y)
          <5>1. x \in DOMAIN values /\ values[x] = white
            BY <2>6, <4>3, Zenon
          <5> QED BY <2>7, <3>1, <4>3, <5>1, Zenon DEF Finished
        <4>4. CASE ~ OnBorder(x, y)
          <5>1. x \notin DOMAIN values
            BY <2>6, <4>4, Zenon
          <5> QED BY <2>7, <3>1, <4>1, <4>2, <4>4, <5>1, Zenon DEF Finished
        <4> QED BY <4>3, <4>4
      <3>2. CASE row # y
        <4>1. row \in 0 .. y - 1
          BY <2>4, <3>2
        <4>2. row * gop.stride + x \in DOMAIN fb
          BY <2>4, <2>8, <4>1, RowsHave
        <4>3. fb[row * gop.stride + x] = Finished(x, row)
          BY <2>4, <4>1, Zenon DEF Shown
        <4> QED BY <2>7, <4>1, <4>2, <4>3, Zenon
      <3> QED BY <3>1, <3>2
    <2>11. 0 .. y' - 1 = 0 .. y /\ y' \in 0 .. gop'.height
      <3>1. y + 1 - 1 = y /\ y + 1 \in 0 .. gop.height
        BY <2>3, <2>4
      <3>2. 0 .. y' - 1 = 0 .. y
        BY <2>4, <2>5
      <3>3. y' \in 0 .. gop'.height
        BY <2>1, <2>5, <3>1
      <3> QED BY <3>2, <3>3
    <2>12. (\A x \in 0 .. gop.width - 1, row \in 0 .. y - 1 :
               Shown(x, row) = Finished(x, row))'
      <3>1. \A x, row : Finished(x, row)' = Finished(x, row)
        BY <2>1, ColoursStay
      <3>2. \A x \in 0 .. gop.width - 1, row \in 0 .. y' - 1 :
                fb'[row * gop.stride + x] = Finished(x, row)
        BY <2>10, <2>11, Zenon
      <3> QED BY <2>1, <3>1, <3>2, Zenon DEF Shown
    <2>13. Drawing' /\ RowsBegun' = y + 1 /\ stage' # "frame" /\ stage' # "halted"
      BY <2>1, <2>5 DEF Drawing, RowsBegun
    <2>14. (DOMAIN fb = Rows(RowsBegun))'
      BY <2>1, <2>9, <2>13, RowsStay
    <2> QED BY <2>11, <2>12, <2>13, <2>14 DEF Painting
  <1>6. CASE Drawn
    <2>1. /\ stage = "bars" /\ stage' = "halted" /\ y >= info.height
          /\ gop' = gop /\ info' = info /\ y' = y /\ fb' = fb
      BY <1>6 DEF Drawn
    <2>2. Drawing /\ Drawing' /\ Filled /\ RowsBegun = y /\ RowsBegun' = y
      BY <2>1 DEF Drawing, Filled, RowsBegun
    <2>3. info.height = gop.height /\ gop.height \in Nat
      BY <2>2, Dimensions
    <2>4. /\ y \in 0 .. gop.height
          /\ DOMAIN fb = Rows(y)
          /\ \A x \in 0 .. gop.width - 1, row \in 0 .. y - 1 :
                Shown(x, row) = Finished(x, row)
      BY <2>2 DEF Painting
    <2>5. y = gop.height
      BY <2>1, <2>3, <2>4
    <2>6. (\A x \in 0 .. gop.width - 1, row \in 0 .. y - 1 :
              Shown(x, row) = Finished(x, row))'
      <3>1. \A x, row : Finished(x, row)' = Finished(x, row)
        BY <2>1, ColoursStay
      <3> QED BY <2>1, <2>4, <3>1, Zenon DEF Shown
    <2>7. stage' # "frame"
      BY <2>1
    <2>8. (DOMAIN fb = Rows(RowsBegun))'
      BY <2>1, <2>2, <2>4, RowsStay
    <2> QED BY <2>1, <2>2, <2>4, <2>5, <2>6, <2>7, <2>8, Zenon DEF Painting
  <1>7. Collect \/ FindRsdp \/ FillBootInfo => ~ Drawing /\ ~ Drawing' /\ UNCHANGED <<y, fb>>
    BY DEF Collect, ConPutChar, ConOutput, locate_gop, normalise_pixel_format, CheckSize,
           FindRsdp, RsdpFound, RsdpNext, RsdpFallback, FillBootInfo, Drawing
  <1>8. UNCHANGED screen => UNCHANGED <<gop, info, y, fb, stage>>
    BY DEF screen
  <1> QED BY <1>1, <1>2, <1>3, <1>4, <1>5, <1>6, <1>7, <1>8, Zenon DEF ScreenStep, Draw

-----------------------------------------------------------------------------
(* The theorems. *)

(* BootInfo says what the firmware said, con_print has the units of what it
   has read, find_rsdp the best of the tables it has seen, and every row the
   kernel is past is finished (project/boot/main.c, project/kernel/main.c). *)
THEOREM ScreenInvariant == PocSpec => []SInv
  <1>1. PocInit => SInv
    BY ScreenStarts
  <1>2. SInv /\ [PocNext]_pocVars => SInv'
    <2> SUFFICES ASSUME SInv, [PocNext]_pocVars PROVE SInv'
      OBVIOUS
    <2>1. ScreenStep
      BY ScreenSteps, Zenon DEF ScreenStep
    <2> QED BY <2>1, KnownStays, PrintingStays, SearchingStays, PaintingStays, Zenon DEF SInv
  <1> QED BY <1>1, <1>2, PTL DEF PocSpec

(* con_print shows the text with CR LF for each line end, cuts one that does
   not fit between two characters, and its terminator is inside the buffer
   (project/boot/main.c:65-89). *)
THEOREM ConsoleShowsText == PocSpec => []ConsoleRight
  <1>1. SInv => ConsoleRight
    <2> SUFFICES ASSUME SInv PROVE ConsoleRight
      OBVIOUS
    <2>1. Printing /\ ConLimit \in Nat /\ ConUnits = ConLimit + 2
      BY ConsoleAssumption DEF SInv
    <2>2. stage = "greet" \/ stage = "printed" => Len(con.units) \in Nat
      <3>1. stage = "greet" \/ stage = "printed" => con.units \in Seq(AnyUnit)
        BY <2>1 DEF Printing
      <3> QED BY <3>1, LenProperties, Zenon
    <2>3. stage = "greet" => Len(con.units) <= ConLimit + 1
      BY <2>1, Zenon DEF Printing
    <2>4. stage = "printed" =>
             /\ con.units = Append(Expand(con.text)[con.read], "end")
             /\ Len(con.units) <= ConLimit + 2
             /\ con.read < Len(con.text) => Len(con.units) >= ConLimit + 1
      BY <2>1, Zenon DEF Printing
    <2>5. stage \notin {"greet", "printed"} => Len(con.units) = 0
      BY <2>1 DEF Printing, NoText
    <2> DEFINE n == Len(con.units)
    <2> HIDE DEF n
    <2>6. n <= ConUnits /\ (n >= ConLimit + 1 => n >= ConUnits - 1)
      BY <2>1, <2>2, <2>3, <2>4, <2>5 DEF n
    <2> QED BY <2>4, <2>6, Zenon DEF ConsoleRight, n
  <1> QED BY <1>1, ScreenInvariant, PTL

(* A known layout is red first or blue first, and Normalised tells which. *)
LEMMA KnownLayouts ==
    ASSUME KnownFormat
    PROVE  \/ Channels = <<0, 1, 2>> /\ Normalised(gop) = NYRF_PIXEL_RGBX
           \/ Channels = <<2, 1, 0>> /\ Normalised(gop) = NYRF_PIXEL_BGRX
  <1>1. CASE gop.format = "rgb"
    BY <1>1 DEF Channels, Normalised
  <1>2. CASE gop.format = "bgr"
    BY <1>2 DEF Channels, Normalised
  <1>3. CASE gop.format = "mask"
    <2>1. Channels = gop.masks /\ (Channels = <<0, 1, 2>> \/ Channels = <<2, 1, 0>>)
      BY <1>3 DEF Channels, KnownFormat
    <2> QED BY <1>3, <2>1 DEF Normalised
  <1>4. CASE gop.format \notin {"rgb", "bgr", "mask"}
    BY <1>4 DEF Channels, KnownFormat
  <1> QED BY <1>1, <1>2, <1>3, <1>4

(* BootInfo names the ACPI 2.0 table wherever it stands, else a 1.0 one, else
   none, and the byte order the firmware's masks say (project/boot/main.c:
   163-203, 308-330). *)
THEOREM BootInfoIsTrue == PocSpec => []BootInfoTrue
  <1>1. SInv => BootInfoTrue
    <2> SUFFICES ASSUME SInv, info.magic PROVE BootInfoTrue
      BY DEF BootInfoTrue
    <2>1. Filled /\ Searched /\ Reduced
      BY DEF SInv, Known, Searched, Measured, Reduced
    <2>2. info.rsdp = rsdp /\ info.pixel_format = Normalised(gop)
      BY <2>1 DEF SInv, Known
    <2>3. KnownFormat => (info.pixel_format = NYRF_PIXEL_RGBX <=> Channels[1] = 0)
      <3>1. SUFFICES ASSUME KnownFormat
                     PROVE  info.pixel_format = NYRF_PIXEL_RGBX <=> Channels[1] = 0
        OBVIOUS
      <3> QED BY <2>2, <3>1, KnownLayouts DEF NYRF_PIXEL_RGBX, NYRF_PIXEL_BGRX
    <2>4. Searching
      BY DEF SInv
    <2>5. DOMAIN tables = 1 .. Len(tables)
      <3>1. tables \in Seq([guid : {"acpi10", "acpi20", "other"}, table : Nat])
        BY <2>4, TablesAssumption DEF Searching
      <3> QED BY <3>1, LenProperties, Zenon
    <2> DEFINE T(guid) == {tables[k].table : k \in {n \in DOMAIN tables : tables[n].guid = guid}}
    <2>6. T("acpi20") = Tabled("acpi20", Len(tables)) /\ T("acpi10") = Tabled("acpi10", Len(tables))
      BY <2>5, Zenon DEF Tabled
    <2>7. rsdp \in (IF T("acpi20") # {} THEN T("acpi20")
                   ELSE IF T("acpi10") # {} THEN T("acpi10") ELSE {0})
      <3> HIDE DEF T
      <3> QED BY <2>1, <2>4, <2>6 DEF Searching
    <2> QED BY <2>2, <2>3, <2>7 DEF BootInfoTrue
  <1> QED BY <1>1, ScreenInvariant, PTL

(* The kernel checks no bound: a bootloader that did not warn is what keeps
   its stores inside the framebuffer (project/boot/main.c:431-434). *)
THEOREM StoresAreInside == PocSpec => []StoresInFramebuffer
  <1>1. SInv => StoresInFramebuffer
    <2> SUFFICES ASSUME SInv, ~ warned, NEW a \in DOMAIN fb PROVE 4 * (a + 1) <= gop.size
      BY DEF StoresInFramebuffer
    <2>1. Drawing
      BY DEF SInv, Painting
    <2>2. Filled /\ Measured /\ gop \in Modes
      BY <2>1 DEF SInv, Known, Filled, Searched, Measured, Reduced, Located
    <2>3. gop.width \in Nat /\ gop.height \in Nat /\ gop.stride \in Nat
          /\ gop.width <= gop.stride /\ gop.size \in Nat
      BY <2>2, ModesAssumption
    <2>4. ~ (gop.size < gop.stride * gop.height * 4)
      BY <2>2 DEF SInv, Known, SizeExpected
    <2>5. a \in Rows(RowsBegun) /\ RowsBegun \in 0 .. gop.height
      BY <2>1, <2>3 DEF SInv, Painting, RowsBegun
    <2>6. PICK x \in 0 .. gop.width - 1, row \in 0 .. RowsBegun - 1 : a = row * gop.stride + x
      BY <2>5 DEF Rows
    <2>7. row \in Nat /\ row < gop.height
      BY <2>3, <2>5
    <2>8. a < gop.height * gop.stride
      BY <2>3, <2>6, <2>7, RowsBelow
    <2> DEFINE p == gop.height * gop.stride
               r == row * gop.stride
    <2>9. p = gop.stride * gop.height /\ p \in Nat /\ r \in Nat
      BY <2>3, <2>7
    <2>10. ~ (gop.size < p * 4)
      BY <2>3, <2>4
    <2>11. a < p /\ a = r + x
      BY <2>6, <2>8
    <2> HIDE DEF p, r
    <2> QED BY <2>3, <2>9, <2>10, <2>11
  <1> QED BY <1>1, ScreenInvariant, PTL

-----------------------------------------------------------------------------
(* The picture. The brightness is a product of 32 bits, offset * 223, which no
   screen under 57 million columns makes wrap. *)

NarrowScreens ==
    /\ 223 < U32
    /\ \A mode \in Modes : 223 * (mode.width \div 3) < U32

LEMMA DivModUnique ==
    ASSUME NEW x \in Nat, NEW m \in Nat \ {0}, NEW q \in Nat, NEW r \in 0 .. m - 1,
           x = m * q + r
    PROVE  x \div m = q /\ x % m = r
  OBVIOUS

LEMMA DivMonotone ==
    ASSUME NEW a \in Nat, NEW c \in Nat, a <= c, NEW m \in Nat \ {0}
    PROVE  a \div m <= c \div m
  OBVIOUS

LEMMA DivBelow ==
    ASSUME NEW a \in Nat, NEW m \in Nat \ {0}, NEW n \in Nat, a < m * n
    PROVE  a \div m \in Nat /\ a \div m < n
  <1> DEFINE q == a \div m
  <1>1. q \in Nat /\ m * q <= a
    OBVIOUS
  <1> HIDE DEF q
  <1>2. ASSUME q >= n PROVE FALSE
    <2> DEFINE d == q - n
    <2>1. d \in Nat /\ q = n + d
      BY <1>1, <1>2
    <2> HIDE DEF d
    <2>2. m * q = m * n + m * d
      BY <1>1, <2>1
    <2>3. m * d \in Nat
      BY <2>1
    <2> DEFINE A == m * n  B == m * d  C == m * q
    <2>4. A \in Nat
      OBVIOUS
    <2>5. C = A + B /\ B \in Nat /\ C <= a /\ a < A
      BY <1>1, <2>2, <2>3
    <2> HIDE DEF A, B, C
    <2> QED BY <2>4, <2>5
  <1>3. q < n
    BY <1>1, <1>2
  <1> QED BY <1>1, <1>3 DEF q

(* Which third a column is in, and where in it. *)
LEMMA Thirds ==
    ASSUME NEW t \in Nat \ {0}, NEW x \in Nat
    PROVE  /\ x < t => x \div t = 0 /\ x % t = x
           /\ t <= x /\ x < 2 * t => x \div t = 1 /\ x % t = x - t
           /\ 2 * t <= x => x \div t \in Nat /\ x \div t >= 2
           /\ 2 * t <= x /\ x < 3 * t => x % t = x - 2 * t
           /\ x = 3 * t => x % t = 0
  <1>1. x < t => x \div t = 0 /\ x % t = x
    BY DivModUnique
  <1>2. ASSUME t <= x, x < 2 * t PROVE x \div t = 1 /\ x % t = x - t
    <2>1. x - t \in 0 .. t - 1 /\ x = t * 1 + (x - t)
      BY <1>2
    <2> QED BY <2>1, DivModUnique
  <1>3. ASSUME 2 * t <= x PROVE x \div t \in Nat /\ x \div t >= 2
    <2>1. (2 * t) \div t = 2
      <3>1. 2 * t \in Nat /\ 2 * t = t * 2 + 0 /\ 0 \in 0 .. t - 1
        OBVIOUS
      <3> QED BY <3>1, DivModUnique
    <2>2. 2 * t \in Nat
      OBVIOUS
    <2>3. (2 * t) \div t <= x \div t
      BY <1>3, <2>2, DivMonotone
    <2> QED BY <2>1, <2>3
  <1>4. ASSUME 2 * t <= x, x < 3 * t PROVE x % t = x - 2 * t
    <2>1. x - 2 * t \in 0 .. t - 1 /\ x = t * 2 + (x - 2 * t)
      BY <1>4
    <2> QED BY <2>1, DivModUnique
  <1>5. ASSUME x = 3 * t PROVE x % t = 0
    <2>1. 0 \in 0 .. t - 1 /\ x = t * 3 + 0
      BY <1>5
    <2> QED BY <2>1, DivModUnique
  <1> QED BY <1>1, <1>2, <1>3, <1>4, <1>5

(* The byte order packed for is the one the screen shows. *)
LEMMA PackShows ==
    ASSUME info.pixel_format = Normalised(gop), KnownFormat, NEW r, NEW g, NEW b
    PROVE  /\ Red(pack(info.pixel_format, r, g, b)) = r
           /\ Green(pack(info.pixel_format, r, g, b)) = g
           /\ Blue(pack(info.pixel_format, r, g, b)) = b
  <1>1. CASE Channels = <<0, 1, 2>> /\ Normalised(gop) = NYRF_PIXEL_RGBX
    <2>1. pack(info.pixel_format, r, g, b) = <<r, g, b, 0>>
      BY <1>1 DEF pack
    <2> QED BY <1>1, <2>1 DEF Red, Green, Blue
  <1>2. CASE Channels = <<2, 1, 0>> /\ Normalised(gop) = NYRF_PIXEL_BGRX
    <2>1. pack(info.pixel_format, r, g, b) = <<b, g, r, 0>>
      BY <1>2 DEF pack, NYRF_PIXEL_RGBX, NYRF_PIXEL_BGRX
    <2> QED BY <1>2, <2>1 DEF Red, Green, Blue
  <1> QED BY <1>1, <1>2, KnownLayouts

LEMMA PixelShows ==
    ASSUME Known, Filled, KnownFormat, NEW x \in 0 .. gop.width - 1
    PROVE  /\ BarAt(x) \in {"red", "green", "blue"}
           /\ Brightness(Pixel(x), BarAt(x)) = level(x)
           /\ Shows(Pixel(x), IF BarAt(x) = "red" THEN level(x) ELSE 0,
                              IF BarAt(x) = "green" THEN level(x) ELSE 0,
                              IF BarAt(x) = "blue" THEN level(x) ELSE 0)
  <1>1. info.pixel_format = Normalised(gop)
    BY DEF Known, Reduced, Measured, Searched
  <1>2. bar = Third /\ gop.width \in Nat \ {0} /\ Third \in Nat
    BY Dimensions DEF bar, Third
  <1>3. 0 # 1 /\ "red" # "green" /\ "red" # "blue" /\ "green" # "blue"
    OBVIOUS
  <1>4. CASE Third = 0 \/ x < Third
    <2>1. channel(x) = 0 /\ BarAt(x) = "red"
      <3>1. Third # 0 => x \div Third = 0
        <4>1. CASE Third # 0
          <5>1. Third \in Nat \ {0} /\ x \in Nat /\ x < Third
            BY <1>2, <1>4, <4>1
          <5> QED BY <5>1, Thirds, Zenon
        <4> QED BY <4>1
      <3> QED BY <1>2, <1>4, <3>1, Zenon DEF channel, BarAt
    <2>2. Pixel(x) = pack(info.pixel_format, level(x), 0, 0)
      BY <2>1 DEF Pixel
    <2>3. Red(Pixel(x)) = level(x) /\ Green(Pixel(x)) = 0 /\ Blue(Pixel(x)) = 0
      BY <1>1, <2>2, PackShows
    <2>4. Brightness(Pixel(x), BarAt(x)) = Red(Pixel(x))
      BY <1>3, <2>1, Zenon DEF Brightness
    <2> QED BY <1>3, <2>1, <2>3, <2>4, Zenon DEF Shows
  <1>5. CASE ~ (Third = 0 \/ x < Third) /\ x < 2 * Third
    <2>1. channel(x) = 1 /\ BarAt(x) = "green"
      <3>1. Third \in Nat \ {0} /\ x \in Nat /\ Third <= x /\ x < 2 * Third
        BY <1>2, <1>5
      <3>2. x \div Third = 1
        BY <3>1, Thirds, Zenon
      <3> QED BY <1>2, <1>5, <3>1, <3>2, Zenon DEF channel, BarAt
    <2>2. Pixel(x) = pack(info.pixel_format, 0, level(x), 0)
      <3>1. channel(x) = 1 /\ channel(x) # 0
        BY <2>1
      <3> QED BY <3>1, Zenon DEF Pixel
    <2>3. Red(Pixel(x)) = 0 /\ Green(Pixel(x)) = level(x) /\ Blue(Pixel(x)) = 0
      BY <1>1, <2>2, PackShows
    <2>4. Brightness(Pixel(x), BarAt(x)) = Green(Pixel(x))
      BY <1>3, <2>1, Zenon DEF Brightness
    <2> QED BY <1>3, <2>1, <2>3, <2>4, Zenon DEF Shows
  <1>6. CASE ~ (Third = 0 \/ x < Third) /\ ~ (x < 2 * Third)
    <2>1. channel(x) # 0 /\ channel(x) # 1 /\ BarAt(x) = "blue"
      <3>1. Third \in Nat \ {0} /\ x \in Nat /\ 2 * Third <= x
        BY <1>2, <1>6
      <3>2. x \div Third \in Nat /\ x \div Third >= 2
        BY <3>1, Thirds, Zenon
      <3>3. x \div Third # 0 /\ x \div Third # 1
        BY <3>2
      <3> QED BY <1>2, <1>6, <3>3, Zenon DEF channel, BarAt
    <2>2. Pixel(x) = pack(info.pixel_format, 0, 0, level(x))
      BY <2>1, Zenon DEF Pixel
    <2>3. Red(Pixel(x)) = 0 /\ Green(Pixel(x)) = 0 /\ Blue(Pixel(x)) = level(x)
      BY <1>1, <2>2, PackShows
    <2>4. Brightness(Pixel(x), BarAt(x)) = Blue(Pixel(x))
      BY <1>3, <2>1, Zenon DEF Brightness
    <2> QED BY <1>3, <2>1, <2>3, <2>4, Zenon DEF Shows
  <1> QED BY <1>4, <1>5, <1>6

(* The columns brightness rises over, and that nothing wraps on the way. *)
Base == IF bar # 0 THEN bar ELSE info.width

LEMMA LevelIs ==
    ASSUME NarrowScreens, Known, Filled, NEW x \in 0 .. gop.width - 1
    PROVE  /\ Base \in Nat \ {0}
           /\ offset(x) \in 0 .. Base - 1
           /\ (offset(x) * 223) \div Base \in 0 .. 222
           /\ level(x) = 32 + ((offset(x) * 223) \div Base)
  <1> DEFINE o == offset(x)
             p == o * 223
             q == p \div Base
  <1>1. /\ gop.width \in Nat \ {0} /\ info.width = gop.width /\ bar = gop.width \div 3
        /\ U32 \in Nat /\ gop \in Modes
    <2>1. gop \in Modes
      BY DEF Known, Located, Reduced, Measured, Searched
    <2> QED BY <2>1, Dimensions DEF bar
  <1>2. 223 < U32 /\ 223 * bar < U32
    BY <1>1 DEF NarrowScreens
  <1>3. /\ Base \in Nat \ {0} /\ (Base = bar \/ Base <= 2) /\ bar \in Nat
        /\ (bar = 0 => Base = gop.width)
    BY <1>1 DEF Base
  <1>4. o \in 0 .. Base - 1
    <2>1. CASE bar = 0
      <3>1. o = x
        BY <2>1, Zenon DEF offset
      <3> HIDE DEF o
      <3> QED BY <1>1, <1>3, <2>1, <3>1
    <2>2. CASE bar # 0
      <3>1. o = x % bar /\ Base = bar
        BY <2>2, Zenon DEF offset, Base
      <3>2. x % bar \in 0 .. bar - 1
        BY <1>1, <1>3, <2>2
      <3> HIDE DEF o
      <3> QED BY <3>1, <3>2
    <2> QED BY <2>1, <2>2
  <1> HIDE DEF o
  <1>5. p \in Nat /\ p < U32 /\ p < Base * 223
    BY <1>1, <1>2, <1>3, <1>4
  <1>6. p % U32 = p
    BY <1>1, <1>5
  <1> HIDE DEF p
  <1>7. q \in 0 .. 222
    <2>1. q \in Nat /\ q < 223
      BY <1>3, <1>5, DivBelow
    <2> QED BY <2>1
  <1> HIDE DEF q
  <1>8. level(x) = (32 + q) % 256
    <2>1. level(x) = (32 + ((p % U32) \div Base)) % 256
      BY Zenon DEF level, Base, o, p
    <2> QED BY <1>6, <2>1, Zenon DEF q
  <1>9. (32 + q) % 256 = 32 + q
    BY <1>7
  <1> QED BY <1>3, <1>4, <1>7, <1>8, <1>9 DEF o, p, q

(* In one bar, what is further right is no darker; the column left over inside
   the frame is as dark as a bar's first. *)
LEMMA LevelsRise ==
    ASSUME NarrowScreens, Known, Filled,
           NEW x \in 1 .. gop.width - 2, NEW z \in x + 1 .. gop.width - 2,
           BarAt(z) = BarAt(x), z < 3 * Third \/ x >= 3 * Third
    PROVE  level(x) <= level(z)
  <1> DEFINE t == Third
  <1>1. gop.width \in Nat \ {0} /\ bar = t /\ info.width = gop.width
    BY Dimensions DEF bar, Third
  <1>2. t \in Nat \ {0} /\ gop.width <= 3 * t + 2
    BY <1>1 DEF Third
  <1>3. x \in 0 .. gop.width - 1 /\ z \in 0 .. gop.width - 1 /\ x < z
        /\ x \in Nat /\ z \in Nat
    BY <1>1
  <1> HIDE DEF t
  <1>4. z < 3 * t
    BY <1>1, <1>2, <1>3 DEF t
  <1>5. "red" # "green" /\ "red" # "blue" /\ "green" # "blue"
    OBVIOUS
  <1>6. \A c \in {x, z} :
            /\ c < t <=> BarAt(c) = "red"
            /\ t <= c /\ c < 2 * t <=> BarAt(c) = "green"
            /\ 2 * t <= c <=> BarAt(c) = "blue"
    <2>1. t # 0 /\ t = Third
      BY <1>2 DEF t
    <2>2. \A c \in {x, z} : BarAt(c) = IF c < t THEN "red" ELSE IF c < 2 * t THEN "green"
                                                            ELSE "blue"
      BY <2>1, Zenon DEF BarAt
    <2> QED BY <1>2, <1>3, <2>2
  <1>7. x % t <= z % t
    <2>1. CASE z < t
      <3>1. x < t
        BY <1>2, <1>3, <2>1
      <3>2. x % t = x /\ z % t = z
        BY <1>2, <1>3, <2>1, <3>1, Thirds
      <3> QED BY <1>3, <3>2
    <2>2. CASE t <= z /\ z < 2 * t
      <3>1. t <= x /\ x < 2 * t
        BY <1>6, <2>2
      <3>2. x % t = x - t /\ z % t = z - t
        BY <1>2, <1>3, <2>2, <3>1, Thirds
      <3> QED BY <1>2, <1>3, <3>2
    <2>3. CASE 2 * t <= z
      <3>1. 2 * t <= x /\ x < 3 * t
        BY <1>2, <1>3, <1>4, <1>6, <2>3
      <3>2. x % t = x - 2 * t /\ z % t = z - 2 * t
        BY <1>2, <1>3, <1>4, <2>3, <3>1, Thirds
      <3> QED BY <1>2, <1>3, <3>2
    <2> QED BY <1>2, <1>3, <2>1, <2>2, <2>3
  <1>8. t # 0 /\ bar # 0 /\ Base = t
    BY <1>1, <1>2 DEF Base
  <1>9. offset(x) = x % t /\ offset(z) = z % t
    BY <1>1, <1>8, Zenon DEF offset
  <1>10. \A c \in 0 .. gop.width - 1 :
             offset(c) \in Nat /\ (offset(c) * 223) \div t \in 0 .. 222
             /\ level(c) = 32 + ((offset(c) * 223) \div t)
    <2> SUFFICES ASSUME NEW c \in 0 .. gop.width - 1
                 PROVE  /\ offset(c) \in Nat /\ (offset(c) * 223) \div t \in 0 .. 222
                        /\ level(c) = 32 + ((offset(c) * 223) \div t)
      OBVIOUS
    <2>1. /\ offset(c) \in 0 .. t - 1
          /\ (offset(c) * 223) \div t \in 0 .. 222
          /\ level(c) = 32 + ((offset(c) * 223) \div t)
      <3>1. /\ offset(c) \in 0 .. Base - 1
            /\ (offset(c) * 223) \div Base \in 0 .. 222
            /\ level(c) = 32 + ((offset(c) * 223) \div Base)
        BY LevelIs
      <3> QED BY <1>8, <3>1, Zenon
    <2>2. offset(c) \in Nat
      BY <1>2, <2>1
    <2> QED BY <2>1, <2>2
  <1> DEFINE a == offset(x) * 223  b == offset(z) * 223
  <1>11. a \in Nat /\ b \in Nat /\ a <= b
    BY <1>3, <1>7, <1>9, <1>10
  <1>12. a \div t <= b \div t
    BY <1>2, <1>11, DivMonotone
  <1> HIDE DEF a, b
  <1>13. level(x) = 32 + (a \div t) /\ level(z) = 32 + (b \div t)
         /\ a \div t \in 0 .. 222 /\ b \div t \in 0 .. 222
    BY <1>3, <1>10 DEF a, b
  <1> DEFINE m == a \div t  n == b \div t
  <1> HIDE DEF m, n
  <1>14. m <= n /\ level(x) = 32 + m /\ level(z) = 32 + n /\ m \in 0 .. 222 /\ n \in 0 .. 222
    BY <1>12, <1>13 DEF m, n
  <1> QED BY <1>14

LEMMA LevelOfRest ==
    ASSUME NarrowScreens, Known, Filled, NEW x \in 1 .. gop.width - 2,
           x >= 3 * Third
    PROVE  level(x) = 32
  <1> DEFINE t == Third
  <1>1. gop.width \in Nat \ {0} /\ bar = t /\ info.width = gop.width
    BY Dimensions DEF bar, Third
  <1>2. t \in Nat \ {0} /\ gop.width <= 3 * t + 2
    BY <1>1 DEF Third
  <1>3. x = 3 * t /\ x \in 0 .. gop.width - 1 /\ x \in Nat
    BY <1>1, <1>2
  <1> HIDE DEF t
  <1>4. x % t = 0
    BY <1>2, <1>3, Thirds
  <1>5. bar # 0 /\ Base = t
    BY <1>1, <1>2 DEF Base
  <1>6. offset(x) = 0
    BY <1>1, <1>4, <1>5, Zenon DEF offset
  <1>7. level(x) = 32 + ((offset(x) * 223) \div t)
    BY <1>3, <1>5, LevelIs, Zenon
  <1>8. (0 * 223) \div t = 0
    <2>1. 0 \in 0 .. t - 1 /\ 0 * 223 = t * 0 + 0 /\ 0 * 223 \in Nat
      BY <1>2
    <2> QED BY <1>2, <2>1, DivModUnique
  <1> QED BY <1>6, <1>7, <1>8

(* The finished picture, on every screen narrow enough: exactly the words of the
   screen's pixels are written, the outermost a closed white frame whatever the
   masks; and with red first or blue first, inside it three bars, red, green and
   blue, none of them black, each rising over its third, in every row alike
   (project/kernel/main.c:8-14, 157-212).  Columns left over are blue and dark,
   which is the code's behaviour and not main.c:8-9's. *)
THEOREM PictureIsExact ==
    ASSUME NarrowScreens
    PROVE  PocSpec => []PictureExact
  <1>1. SInv => PictureExact
    <2> SUFFICES ASSUME SInv, stage = "halted" PROVE PictureExact
      BY DEF PictureExact
    <2> DEFINE W == gop.width  H == gop.height
    <2>1. Known /\ Drawing /\ Filled
      BY DEF SInv, Drawing, Filled
    <2>2. W \in Nat \ {0} /\ H \in Nat \ {0}
      BY <2>1, Dimensions
    <2>3. /\ DOMAIN fb = Rows(H)
          /\ \A x \in 0 .. W - 1, row \in 0 .. H - 1 : Shown(x, row) = Finished(x, row)
      BY <2>1 DEF SInv, Painting, RowsBegun
    <2>4. DOMAIN fb = {row * gop.stride + x : x \in 0 .. W - 1, row \in 0 .. H - 1}
      BY <2>3 DEF Rows
    <2>5. info.pixel_format = Normalised(gop)
      BY <2>1 DEF Known, Reduced, Measured, Searched
    <2>6. ASSUME NEW x \in 0 .. W - 1, NEW row \in 0 .. H - 1, OnBorder(x, row)
          PROVE  \A byte \in 1 .. 3 : Shown(x, row)[byte] = 255
      <3>1. Shown(x, row) = pack(info.pixel_format, 255, 255, 255)
        BY <2>3, <2>6, Zenon DEF Finished, white
      <3> QED BY <3>1 DEF pack
    <2>7. ASSUME NEW x \in 0 .. W - 1, NEW row \in 0 .. H - 1, ~ OnBorder(x, row)
          PROVE  /\ Shown(x, row) = Pixel(x) /\ level(x) >= 32 /\ x \in 1 .. W - 2
                 /\ \A z \in x + 1 .. W - 2 : Shown(z, row) = Pixel(z)
      <3>1. Shown(x, row) = Pixel(x)
        BY <2>3, <2>7, Zenon DEF Finished
      <3>2. x \in 1 .. W - 2 /\ row # 0 /\ row # H - 1
        BY <2>2, <2>7 DEF OnBorder
      <3>3. level(x) >= 32
        <4> DEFINE q == (offset(x) * 223) \div Base
        <4>1. q \in 0 .. 222 /\ level(x) = 32 + q
          BY <2>1, LevelIs, Zenon
        <4> HIDE DEF q
        <4> QED BY <4>1
      <3>4. ASSUME NEW z \in x + 1 .. W - 2 PROVE Shown(z, row) = Pixel(z)
        <4>1. z \in 0 .. W - 1 /\ z # 0 /\ z # W - 1
          BY <2>2
        <4>2. ~ OnBorder(z, row)
          BY <3>2, <4>1 DEF OnBorder
        <4> QED BY <2>3, <4>1, <4>2, Zenon DEF Finished
      <3> QED BY <3>1, <3>2, <3>3, <3>4
    <2>8. ASSUME KnownFormat, NEW x \in 0 .. W - 1, NEW row \in 0 .. H - 1,
                 ~ OnBorder(x, row)
          PROVE  BarRight(x, row)
      <3>1. /\ Shown(x, row) = Pixel(x) /\ level(x) >= 32 /\ x \in 1 .. W - 2
            /\ \A z \in x + 1 .. W - 2 : Shown(z, row) = Pixel(z)
        BY <2>7, <2>8
      <3>2. /\ Brightness(Pixel(x), BarAt(x)) = level(x)
            /\ Shows(Pixel(x), IF BarAt(x) = "red" THEN level(x) ELSE 0,
                               IF BarAt(x) = "green" THEN level(x) ELSE 0,
                               IF BarAt(x) = "blue" THEN level(x) ELSE 0)
        BY <2>1, <2>8, PixelShows, Zenon
      <3>3. x >= 3 * Third => level(x) = 32
        BY <2>1, <3>1, LevelOfRest
      <3>4. ASSUME NEW z \in x + 1 .. W - 2, BarAt(z) = BarAt(x),
                   z < 3 * Third \/ x >= 3 * Third
            PROVE  level(x) <= Brightness(Shown(z, row), BarAt(x))
        <4>1. level(x) <= level(z)
          BY <2>1, <3>1, <3>4, LevelsRise, Zenon
        <4>2. z \in 0 .. W - 1
          BY <2>2
        <4>3. Brightness(Shown(z, row), BarAt(x)) = level(z)
          BY <2>1, <2>8, <3>1, <3>4, <4>2, PixelShows, Zenon
        <4> QED BY <4>1, <4>3, Zenon
      <3> QED BY <3>1, <3>2, <3>3, <3>4, Zenon DEF BarRight
    <2> QED BY <2>4, <2>6, <2>8 DEF PictureExact
  <1> QED BY <1>1, ScreenInvariant, PTL

=============================================================================
