---------------------------- MODULE MCElfLoader ----------------------------
(***************************************************************************)
(* Files of at most eight bytes for TLC: one byte of header, a table of    *)
(* two entries of one byte, then the segments' bytes.  Pages hold two      *)
(* bytes, and two program headers are any pair of the kinds below.         *)
(***************************************************************************)
EXTENDS ElfLoader

Segment(type, offset, paddr, filesz, memsz) ==
    [type |-> type, offset |-> offset, paddr |-> paddr,
     filesz |-> filesz, memsz |-> memsz]

PhdrKinds ==
    { Segment(2, 3, 0, 1, 1),            \* not PT_LOAD
      Segment(PT_LOAD, 3, 4, 3, 5),      \* ends in .bss, pages 2 to 4
      Segment(PT_LOAD, 0, 10, 0, 2),     \* only .bss, page 5
      Segment(PT_LOAD, 6, 10, 2, 3),     \* pages 5 and 6
      Segment(PT_LOAD, 5, 8, 2, 2),      \* page 4, which the second kind wants
      Segment(PT_LOAD, 3, 5, 1, 1),      \* not on a page boundary
      Segment(PT_LOAD, 4, 4, 4, 1) }     \* more in the file than in memory

Valid ==
    [magic |-> TRUE, class64 |-> TRUE, exec |-> TRUE, x86_64 |-> TRUE,
     phnum |-> 2, phentsize |-> PhdrSize, phoff |-> 1, entry |-> 4]

Headers ==
    { Valid, [Valid EXCEPT !.phnum = 1], [Valid EXCEPT !.entry = 9],
      [Valid EXCEPT !.magic = FALSE], [Valid EXCEPT !.class64 = FALSE],
      [Valid EXCEPT !.exec = FALSE], [Valid EXCEPT !.x86_64 = FALSE],
      [Valid EXCEPT !.phnum = 0], [Valid EXCEPT !.phentsize = 2] }

MCFiles ==
    {[length |-> length, eh |-> eh, phdrs |-> <<first, second>>] :
        length \in {0, 2, 6, 8}, eh \in Headers,
        first \in PhdrKinds, second \in PhdrKinds}

(* All of memory from page 2 on, or with page 5 already in use. *)
MCFreeSets == {2 .. MemoryPages - 1, (2 .. MemoryPages - 1) \ {5}}

=============================================================================
