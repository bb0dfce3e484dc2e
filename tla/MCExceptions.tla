--------------------------- MODULE MCExceptions ---------------------------
(***************************************************************************)
(* Every exception vector and one above them for TLC.  A byte of an        *)
(* address has four values, so that addresses are below 2^16 and every     *)
(* field of a gate or of the TSS descriptor holds a part of one.           *)
(***************************************************************************)
EXTENDS Exceptions

MCVectors == 0 .. 32

(* The vectors for which x86 processors push an error code. *)
MCCpuErrorCode == {8, 10, 11, 12, 13, 14, 17, 21}

MCStubs == [v \in 0 .. 31 |-> 16 * 1000 + 613 * v]

=============================================================================
