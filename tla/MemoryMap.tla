----------------------------- MODULE MemoryMap -----------------------------
(***************************************************************************)
(* The UEFI memory map: which type each page of the machine has, and the   *)
(* array of descriptors GetMemoryMap makes of it, one for every maximal    *)
(* run of pages of one type.  A "hole" is mentioned by no descriptor.      *)
(***************************************************************************)
EXTENDS Integers, Sequences, FiniteSets

Descriptor(type, first, last) ==
    [type |-> type, start |-> first, pages |-> last - first + 1]

(* The first and the last pages of the runs. *)
RunStarts(types) ==
    {p \in DOMAIN types : types[p] # "hole"
                          /\ (p - 1 \in DOMAIN types => types[p - 1] # types[p])}
RunEnds(types) ==
    {p \in DOMAIN types : types[p] # "hole"
                          /\ (p + 1 \in DOMAIN types => types[p + 1] # types[p])}

Nth(S, i) == CHOOSE p \in S : Cardinality({q \in S : q <= p}) = i

MapLength(types) == Cardinality(RunStarts(types))

(* Where the run that begins at page first ends. *)
RunEnd(types, first) ==
    CHOOSE last \in RunEnds(types) :
        /\ first <= last
        /\ \A p \in first .. last : types[p] = types[first]

MapOf(types) ==
    [i \in 1 .. MapLength(types) |->
        LET first == Nth(RunStarts(types), i)
        IN  Descriptor(types[first], first, RunEnd(types, first))]

=============================================================================
