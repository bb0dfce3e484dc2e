--------------------------- MODULE MCBootLoader ---------------------------
(***************************************************************************)
(* A machine of thirteen pages for TLC: all free, with three pages of      *)
(* boot-services data that events may give back, the middle one first, or  *)
(* with code on two of the pages that are asked for, so that memory can    *)
(* run out.  The kernel has two segments, pages 4 and 5.  Requests at any  *)
(* address get pages 1, 4, 7, 9 or 11: one of them is the kernel's, and    *)
(* each of the others splits a free region in two, so that the map can     *)
(* outgrow the buffer's slack.                                             *)
(***************************************************************************)
EXTENDS BootLoader

MCSegments == <<[start |-> 4, pages |-> 1], [start |-> 5, pages |-> 1]>>

Machines(type, sets) ==
    {[p \in 0 .. 12 |-> IF p \in firm THEN type ELSE "conventional"] : firm \in sets}

MCTypes == Machines("bsData", {{}, {8, 9, 10}}) \cup Machines("bsCode", {{7, 9}})

MCServed == {1, 4, 7, 9, 11}

=============================================================================
