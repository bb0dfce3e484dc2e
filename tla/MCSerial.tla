----------------------------- MODULE MCSerial -----------------------------
(***************************************************************************)
(* A boot log for TLC: a line of the bootloader, then the kernel's own     *)
(* serial_init and a line with every specifier, the smallest and largest   *)
(* numbers, an unknown specifier and a '%' at the very end.  Numbers have  *)
(* two hexadecimal digits, three decimal ones at most, and a buffer for    *)
(* one more, as there are 20 and 21 in the code.  The report begins, as    *)
(* the real one does, with an end of line.                                 *)
(***************************************************************************)
EXTENDS Serial

SetUp == [call |-> "serial_init", text |-> <<>>]

LogLine(fmt, args, text) ==
    [call |-> "serial_printf", fmt |-> fmt, args |-> args, text |-> text]

MCProgram ==
    << SetUp,
       LogLine(<<"b", "nl">>, <<>>, <<"b", "cr", "nl">>),
       SetUp,
       LogLine(<<"%", "s", "%", "x", ":", "%", "u">>, <<<<"k", "nl">>, 10, 0>>,
             <<"k", "cr", "nl", "0", "x", "0", "A", ":", "0">>),
       LogLine(<<"%", "u", "%", "x">>, <<205, 255>>,
             <<"2", "0", "5", "0", "x", "F", "F">>),
       LogLine(<<"%", "c", "%", "%", "%", "d", "%">>, <<"z">>,
             <<"z", "%", "%", "d">>) >>

MCReport ==
    << LogLine(<<"nl", "!", "nl">>, <<>>, <<"cr", "nl", "!", "cr", "nl">>),
       LogLine(<<"%", "u", "%", "s">>, <<14, <<"P", "F">>>>, <<"1", "4", "P", "F">>),
       LogLine(<<"%", "x", "nl">>, <<160>>, <<"0", "x", "A", "0", "cr", "nl">>) >>

MCCharacters ==
    {"0", "1", "2", "4", "5", "A", "F", "b", "k", "d", "x", "z", "P", ":", "!", "%",
     "cr", "nl"}

MCLeftovers == {<<>>, <<0, 0>>}

=============================================================================
