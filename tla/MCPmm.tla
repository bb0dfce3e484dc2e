------------------------------- MODULE MCPmm -------------------------------
(***************************************************************************)
(* A machine of eleven pages for TLC.  Page 0 is free low memory and page 1   *)
(* the hole above it; the kernel covers page 2 and half of page 3, as      *)
(* loader data; pages 4 to 10 are, in every combination, free,              *)
(* boot-services data or unmentioned.  A bitmap word has 2 bits and fills  *)
(* a quarter of a page, so that words cross region ends, a bitmap may need *)
(* two pages and a region may be too small for it.                         *)
(***************************************************************************)
EXTENDS Pmm, MemoryMap, SequencesExt

LastPage == 10

(* The firmware lists descriptors in any order it likes: both extremes. *)
MapsOf(layouts) ==
    LET ascending == {MapOf(l) : l \in layouts}
    IN  ascending \cup {Reverse(m) : m \in ascending}

Layout(kernel, upper) ==
    [p \in 0 .. 3 \cup DOMAIN upper |-> IF p = 0 THEN "conventional"
                             ELSE IF p = 1 THEN "hole"
                             ELSE IF p \in KernelPages THEN kernel ELSE upper[p]]

Upper == [4 .. LastPage -> {"conventional", "bsData", "hole"}]

MCMaps == MapsOf({Layout("loaderData", u) : u \in Upper})

(* For the run in which a caller frees anything: fewer maps, more calls. *)
StrayMaps ==
    {MapOf(Layout("loaderData", u)) :
        u \in [4 .. LastPage - 1 -> {"conventional", "hole"}]}

(* A bootloader that forgot to allocate the kernel's pages. *)
ForgetfulMaps == MapsOf({Layout("conventional", u) : u \in Upper})

=============================================================================
