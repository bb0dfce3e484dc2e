---------------------------- MODULE MCNyrfBoot ----------------------------
(***************************************************************************)
(* A machine of ten pages for TLC: page 0 is low memory, the kernel goes   *)
(* to pages 3 and 4, with a page of the firmware's data at page 2, at page *)
(* 6 or nowhere, and a runtime page or a hole at the top.                  *)
(***************************************************************************)
EXTENDS NyrfBoot

MCSegments == <<[start |-> 3, pages |-> 1], [start |-> 4, pages |-> 1]>>

MCTypes ==
    {[p \in 0 .. 9 |-> IF p = firm THEN "bsData" ELSE
                       IF p = 9 THEN top ELSE "conventional"] :
        firm \in {2, 6, 10}, top \in {"other", "hole"}}

MCServed == {1, 2, 5, 7, 8}

=============================================================================
