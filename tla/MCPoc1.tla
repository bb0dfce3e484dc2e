------------------------------- MODULE MCPoc1 -------------------------------
(***************************************************************************)
(* Screens of at most eight by five pixels for TLC, each with every pixel  *)
(* format or with two; console texts of at most five characters for a      *)
(* buffer of six units; up to three configuration tables; and a small      *)
(* machine for the loader, whose own run has the larger ones.              *)
(***************************************************************************)
EXTENDS Poc1

MCSegments == <<[start |-> 2, pages |-> 1]>>
MCTypes == {[p \in 0 .. 4 |-> "conventional"]}
MCServed == {1, 3}

Mode(format, masks, width, height, stride, size) ==
    [format |-> format, masks |-> masks, width |-> width, height |-> height,
     stride |-> stride, size |-> size]

(* Narrower than a bar, leftovers of 0, 1 and 2 columns, one or two rows,
   padding, a row so long that its start needs more than U32, and buffers that
   are too small for the padding, or for the picture. *)
Geometries ==
    { <<1, 1, 1, 4>>, <<2, 3, 2, 24>>, <<3, 2, 4, 32>>, <<4, 4, 4, 64>>,
      <<5, 3, 7, 84>>, <<7, 3, 7, 84>>, <<8, 5, 8, 160>>, <<8, 5, 300, 6000>>,
      <<6, 4, 8, 112>>, <<5, 4, 5, 60>> }

MCModes ==
    { Mode(format, <<>>, g[1], g[2], g[3], g[4]) :
          format \in {"rgb", "bgr"}, g \in Geometries }
    \cup { Mode("mask", masks, 5, 3, 7, 84) :
               masks \in {<<0, 1, 2>>, <<2, 1, 0>>, <<0, 2, 1>>, <<3, 3, 3>>} }
    \cup { Mode("blt", <<>>, 5, 3, 7, 0) }

Table(guid, table) == [guid |-> guid, table |-> table]

MCTables ==
    { <<Table("other", 1)>>, <<Table("acpi10", 1), Table("other", 2)>>,
      <<Table("other", 1), Table("acpi20", 2), Table("acpi10", 3)>>,
      <<Table("acpi10", 1), Table("other", 2), Table("acpi20", 3)>> }

MCMessages == UNION {[1 .. n -> {"c", "nl"}] : n \in 0 .. 5}

=============================================================================
