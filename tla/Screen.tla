------------------------------- MODULE Screen -------------------------------
(***************************************************************************)
(* What the firmware says of the screen and of ACPI, and what becomes of   *)
(* it: efi_main (project/boot/main.c) prints on the firmware's console,    *)
(* locates the framebuffer, reduces its pixel format to two, looks for the *)
(* RSDP and writes it all to BootInfo; kernel_main (project/kernel/main.c) *)
(* draws the test pattern from BootInfo alone.                             *)
(*                                                                         *)
(* A word of the framebuffer is its four bytes, the lowest first, and fb   *)
(* is a function on the words that have been written.                      *)
(***************************************************************************)
EXTENDS Integers, Sequences

CONSTANTS
    Modes,      \* what a Graphics Output Protocol may report
    Tables,     \* the configuration tables the firmware may have
    Messages,   \* the texts con_print is called with; "nl" is '\n'
    ConUnits,   \* units of con_print's buffer                       (128)
    ConLimit,   \* the unit it stops at                              (126)
    U32         \* values of a uint32_t                             (2^32)

(* The firmware's promises: rows are at least as long as they are wide. *)
ASSUME ModesAssumption ==
    \A mode \in Modes :
        /\ mode.width \in Nat \ {0} /\ mode.height \in Nat \ {0}
        /\ mode.stride \in Nat /\ mode.stride >= mode.width
        /\ mode.width < U32 /\ mode.height < U32
        /\ mode.size \in Nat

ASSUME WordAssumption == U32 \in Nat \ {0}

(* con_print stops two units before the end of its buffer. *)
ASSUME ConsoleAssumption ==
    /\ Messages \subseteq Seq(STRING)
    /\ ConLimit \in Nat
    /\ ConUnits = ConLimit + 2

ASSUME TablesAssumption ==
    Tables \subseteq Seq([guid : {"acpi10", "acpi20", "other"}, table : Nat])

VARIABLES
    stage,      \* the statement efi_main or kernel_main is at
    con,        \* con_print: the text, characters read, units written
    gop,        \* gop->Mode, once located
    fmt,        \* the format it is reduced to
    warned,     \* was the framebuffer reported too small?
    tables,     \* ST->ConfigurationTable
    entry,      \* find_rsdp: the entry it is at
    rsdp,       \* find_rsdp: fallback, then the result
    info,       \* BootInfo: magic, screen and RSDP
    y,          \* the row kernel_main draws
    fb          \* the framebuffer

screen == <<stage, con, gop, fmt, warned, tables, entry, rsdp, info, y, fb>>

NYRF_PIXEL_RGBX == 0
NYRF_PIXEL_BGRX == 1

NoMode == [format |-> "none", masks |-> <<>>, width |-> 0, height |-> 0,
           stride |-> 0, size |-> 0]
NoInfo == [magic |-> FALSE, fb_size |-> 0, width |-> 0, height |-> 0,
           stride |-> 0, pixel_format |-> 0, rsdp |-> 0]

ScreenInit ==
    /\ stage = "greet"
    /\ con \in {[text |-> m, read |-> 0, units |-> <<>>] : m \in Messages}
    /\ gop = NoMode
    /\ fmt = NYRF_PIXEL_BGRX
    /\ warned = FALSE
    /\ tables \in Tables
    /\ entry = 1
    /\ rsdp = 0
    /\ info = NoInfo
    /\ y = 0
    /\ fb = [a \in {} |-> <<>>]

-----------------------------------------------------------------------------
(* con_print. *)

NoText == [text |-> <<>>, read |-> 0, units |-> <<>>]

(* Mutant: the last unit but one is used as well. *)
Room_for_one_more == Len(con.units) < ConLimit + 1

Room == Len(con.units) < ConLimit

ConPutChar ==
    /\ stage = "greet"
    /\ con.read < Len(con.text)
    /\ Room
    /\ LET c == con.text[con.read + 1] IN
       con' = [con EXCEPT !.read = @ + 1,
                          !.units = @ \o (IF c = "nl" THEN <<"cr", c>> ELSE <<c>>)]
    /\ UNCHANGED <<stage, gop, fmt, warned, tables, entry, rsdp, info, y, fb>>

(* The terminator, and ConOut->OutputString. *)
ConOutput ==
    /\ stage = "greet"
    /\ con.read = Len(con.text) \/ ~ Room
    /\ con' = [con EXCEPT !.units = Append(@, "end")]
    /\ stage' = "printed"
    /\ UNCHANGED <<gop, fmt, warned, tables, entry, rsdp, info, y, fb>>

-----------------------------------------------------------------------------
(* Stage 2: the framebuffer. *)

locate_gop ==
    /\ stage = "printed"
    /\ \/ gop' \in Modes /\ stage' = "format"
       \/ gop' = NoMode /\ stage' = "fatal"
    /\ con' = NoText
    /\ UNCHANGED <<fmt, warned, tables, entry, rsdp, info, y, fb>>

(* masks are the bytes of a word the red, the green and the blue mask select,
   3 for a mask that selects no single one.  Only the red one is looked at;
   when it is neither the first nor the third byte, BGRX is a guess. *)
Normalised(mode) ==
    IF mode.format = "rgb" \/ (mode.format = "mask" /\ mode.masks[1] = 0)
    THEN NYRF_PIXEL_RGBX ELSE NYRF_PIXEL_BGRX

normalise_pixel_format ==
    /\ stage = "format"
    /\ \/ /\ gop.format \in {"rgb", "bgr", "mask"}
          /\ fmt' = Normalised(gop)
          /\ stage' = "size"
       \/ /\ gop.format = "blt"
          /\ stage' = "fatal"
          /\ UNCHANGED fmt
    /\ UNCHANGED <<con, gop, warned, tables, entry, rsdp, info, y, fb>>

(* Mutant: the check forgets the padding of a row. *)
SizeExpected_by_width == gop.width * gop.height * 4

SizeExpected == gop.stride * gop.height * 4

CheckSize ==
    /\ stage = "size"
    /\ warned' = (gop.size < SizeExpected)
    /\ stage' = "map"
    /\ UNCHANGED <<con, gop, fmt, tables, entry, rsdp, info, y, fb>>

-----------------------------------------------------------------------------
(* find_rsdp, one entry at a time; BootInfo. *)

RsdpFound ==
    /\ stage = "map"
    /\ entry <= Len(tables)
    /\ tables[entry].guid = "acpi20"
    /\ rsdp' = tables[entry].table
    /\ stage' = "load"
    /\ UNCHANGED <<con, gop, fmt, warned, tables, entry, info, y, fb>>

(* Mutant: the older table ends the search. *)
RsdpNext_stopping ==
    /\ stage = "map"
    /\ entry <= Len(tables)
    /\ tables[entry].guid # "acpi20"
    /\ rsdp' = IF tables[entry].guid = "acpi10" THEN tables[entry].table ELSE rsdp
    /\ entry' = IF tables[entry].guid = "acpi10" THEN Len(tables) + 1 ELSE entry + 1
    /\ UNCHANGED <<stage, con, gop, fmt, warned, tables, info, y, fb>>

RsdpNext ==
    /\ stage = "map"
    /\ entry <= Len(tables)
    /\ tables[entry].guid # "acpi20"
    /\ rsdp' = IF tables[entry].guid = "acpi10" THEN tables[entry].table ELSE rsdp
    /\ entry' = entry + 1
    /\ UNCHANGED <<stage, con, gop, fmt, warned, tables, info, y, fb>>

RsdpFallback ==
    /\ stage = "map"
    /\ entry > Len(tables)
    /\ stage' = "load"
    /\ UNCHANGED <<con, gop, fmt, warned, tables, entry, rsdp, info, y, fb>>

FindRsdp == RsdpFound \/ RsdpNext \/ RsdpFallback

FillBootInfo ==
    /\ stage = "load"
    /\ info' = [magic |-> TRUE, fb_size |-> gop.size, width |-> gop.width,
                height |-> gop.height, stride |-> gop.stride,
                pixel_format |-> fmt, rsdp |-> rsdp]
    /\ stage' = "handoff"
    /\ UNCHANGED <<con, gop, fmt, warned, tables, entry, rsdp, y, fb>>

Collect ==
    \/ ConPutChar \/ ConOutput \/ locate_gop \/ normalise_pixel_format
    \/ CheckSize

-----------------------------------------------------------------------------
(* kernel_main: the test pattern. *)

pack(format, r, g, b) ==
    IF format = NYRF_PIXEL_RGBX THEN <<r, g, b, 0>> ELSE <<b, g, r, 0>>

white == pack(info.pixel_format, 255, 255, 255)

bar == info.width \div 3

(* Screens under three pixels wide are one bar. *)
channel(x) == IF bar # 0 THEN x \div bar ELSE 0
offset(x) == IF bar # 0 THEN x % bar ELSE x

level(x) ==
    (32 + ((offset(x) * 223) % U32) \div (IF bar # 0 THEN bar ELSE info.width)) % 256

Pixel(x) ==
    CASE channel(x) = 0 -> pack(info.pixel_format, level(x), 0, 0)
      [] channel(x) = 1 -> pack(info.pixel_format, 0, level(x), 0)
      [] OTHER          -> pack(info.pixel_format, 0, 0, level(x))

(* Mutant: rows are taken to be as long as they are wide. *)
RowStart_by_width == y * info.width

(* The product is a 64-bit one. *)
RowStart == y * info.stride

Columns == 0 .. info.width - 1

(* row[x] = values[x] *)
Store(values) ==
    fb' = [a \in DOMAIN fb \cup {RowStart + x : x \in DOMAIN values} |->
              IF a - RowStart \in DOMAIN values THEN values[a - RowStart] ELSE fb[a]]

(* The magic is what lets the kernel go on. *)
EnterKernel ==
    /\ stage = "handoff"
    /\ info.magic
    /\ stage' = "bars"
    /\ UNCHANGED <<con, gop, fmt, warned, tables, entry, rsdp, info, y, fb>>

DrawBars ==
    /\ stage = "bars"
    /\ y < info.height
    /\ Store([x \in Columns |-> Pixel(x)])
    /\ stage' = "frame"
    /\ UNCHANGED <<con, gop, fmt, warned, tables, entry, rsdp, info, y>>

FrameColumns ==
    IF y = 0 \/ y = (info.height - 1) % U32 THEN Columns
    ELSE {0, (info.width - 1) % U32}

(* Mutant: the last row's frame never ends. *)
DrawFrame_without_advance ==
    /\ stage = "frame"
    /\ Store([x \in FrameColumns |-> white])
    /\ stage' = "bars"
    /\ UNCHANGED <<con, gop, fmt, warned, tables, entry, rsdp, info, y>>

DrawFrame ==
    /\ stage = "frame"
    /\ Store([x \in FrameColumns |-> white])
    /\ y' = (y + 1) % U32
    /\ stage' = "bars"
    /\ UNCHANGED <<con, gop, fmt, warned, tables, entry, rsdp, info>>

Drawn ==
    /\ stage = "bars"
    /\ y >= info.height
    /\ stage' = "halted"
    /\ UNCHANGED <<con, gop, fmt, warned, tables, entry, rsdp, info, y, fb>>

Draw == EnterKernel \/ DrawBars \/ DrawFrame \/ Drawn

-----------------------------------------------------------------------------
(* Properties. *)

(* The units the first n characters of a text stand for. *)
Units(c) == IF c = "nl" THEN <<"cr", "nl">> ELSE <<c>>
Expand(text) ==
    LET upto[n \in 0 .. Len(text)] ==
            IF n = 0 THEN <<>> ELSE upto[n - 1] \o Units(text[n])
    IN  upto

(* con_print shows the text with CR LF for each line end; a text that does
   not fit is cut between two characters, never inside a CR LF pair, and the
   terminator is inside the buffer whatever the text (main.c:78-88). *)
ConsoleRight ==
    /\ Len(con.units) <= ConUnits
    /\ stage = "printed" =>
          /\ con.units = Append(Expand(con.text)[con.read], "end")
          /\ con.read < Len(con.text) => Len(con.units) >= ConUnits - 1

(* The bytes of a word the screen takes red, green and blue from, as the
   firmware describes it and not as the code reduces it. *)
Channels ==
    CASE gop.format = "rgb"  -> <<0, 1, 2>>
      [] gop.format = "bgr"  -> <<2, 1, 0>>
      [] gop.format = "mask" -> gop.masks
      [] OTHER               -> <<3, 3, 3>>

(* The layouts there is packing code for. *)
KnownFormat == Channels \in {<<0, 1, 2>>, <<2, 1, 0>>}

Red(word) == word[Channels[1] + 1]
Green(word) == word[Channels[2] + 1]
Blue(word) == word[Channels[3] + 1]
Shows(word, r, g, b) == Red(word) = r /\ Green(word) = g /\ Blue(word) = b

Shown(x, row) == fb[row * gop.stride + x]

OnBorder(x, row) == x \in {0, gop.width - 1} \/ row \in {0, gop.height - 1}

(* The colours of the picture, left to right, the leftover columns with blue. *)
Third == gop.width \div 3
BarAt(x) ==
    IF Third = 0 \/ x < Third THEN "red" ELSE IF x < 2 * Third THEN "green" ELSE "blue"
Brightness(word, colour) ==
    CASE colour = "red" -> Red(word) [] colour = "green" -> Green(word)
      [] colour = "blue" -> Blue(word)

(* One pixel of the bars: of its bar's colour only, never black, and no darker
   than the pixels of its bar to the left.  Columns left over when the width is
   not a multiple of three are blue, and are not brighter than what precedes
   them: offset() begins again, and they are at the dark end.  That is what the
   code does and not what main.c:8-9 says of the last bar; a width of 3n + 2
   has such a column inside the frame. *)
BarRight(x, row) ==
    LET word == Shown(x, row)
        light == Brightness(word, BarAt(x))
    IN  /\ light >= 32
        /\ Shows(word, IF BarAt(x) = "red" THEN light ELSE 0,
                       IF BarAt(x) = "green" THEN light ELSE 0,
                       IF BarAt(x) = "blue" THEN light ELSE 0)
        /\ \A z \in x + 1 .. gop.width - 2 :
              BarAt(z) = BarAt(x) /\ (z < 3 * Third \/ x >= 3 * Third) =>
                  light <= Brightness(Shown(z, row), BarAt(x))
        /\ Third # 0 /\ x >= 3 * Third => light = 32

(* The finished picture on the screen the firmware described.  Whatever the
   pixel format: no word outside the picture is written, every word inside is,
   and the outermost pixels are a closed frame of words white in any byte a
   mask can select.  On the layouts there is packing code for: inside the frame
   three bars, red, green and blue from left to right whatever the byte order,
   each rising from dark to bright over its third, the same in every row
   (kernel/main.c:8-14), and what BarRight says of the columns left over. *)
PictureExact ==
    stage = "halted" =>
        LET X == 0 .. gop.width - 1
            Y == 0 .. gop.height - 1
        IN  /\ DOMAIN fb = {row * gop.stride + x : x \in X, row \in Y}
            /\ \A x \in X, row \in Y :
                  /\ OnBorder(x, row) => \A byte \in 1 .. 3 : Shown(x, row)[byte] = 255
                  /\ KnownFormat /\ ~ OnBorder(x, row) => BarRight(x, row)

(* The kernel is given no size to check against but fb_size, which it never
   reads: what keeps its stores inside the framebuffer is that the bootloader
   compared stride and height with it, and did not warn (main.c:431-434). *)
StoresInFramebuffer ==
    ~ warned => \A a \in DOMAIN fb : 4 * (a + 1) <= gop.size

(* BootInfo tells the kernel of a 2.0 table if there is one, wherever it
   stands among the others, else of a 1.0 table, else 0 (main.c:308-314). *)
BootInfoTrue ==
    info.magic =>
        LET Tabled(guid) == {tables[k].table :
                                k \in {n \in DOMAIN tables : tables[n].guid = guid}}
        IN  /\ info.rsdp \in (IF Tabled("acpi20") # {} THEN Tabled("acpi20")
                              ELSE IF Tabled("acpi10") # {} THEN Tabled("acpi10")
                              ELSE {0})
            /\ KnownFormat => (info.pixel_format = NYRF_PIXEL_RGBX <=> Channels[1] = 0)

=============================================================================
