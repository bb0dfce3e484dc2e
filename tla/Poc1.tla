-------------------------------- MODULE Poc1 --------------------------------
(***************************************************************************)
(* POC 1 from end to end (poc1/): its bootloader is the same code as the   *)
(* later one, and its kernel has no tables and no allocator: it draws the  *)
(* test pattern and halts.  BootLoader and Screen are two views of one     *)
(* efi_main, joined here where its statements interleave: the console and  *)
(* the screen come before the first memory map, the RSDP after it, and     *)
(* BootInfo is filled when its page has been allocated.                    *)
(***************************************************************************)
EXTENDS BootLoader, Screen

pocVars == <<loaderVars, screen>>

PocInit == LoaderInit /\ ScreenInit

(* efi_main up to the first GetMemoryMap. *)
PocCollect == Collect /\ UNCHANGED loaderVars

(* Between the first map and the kernel file. *)
PocRsdp ==
    /\ pc = "open"
    /\ FindRsdp
    /\ UNCHANGED loaderVars

(* The statements BootLoader models, each at its place among those above. *)
MayLoad ==
    \/ stage = "map" /\ pc # "open"
    \/ stage = "load"
    \/ stage = "handoff" /\ pc # "kernel"

PocLoad ==
    /\ MayLoad
    /\ LoaderStep
    /\ IF pc = "bootinfo" /\ pc' = "refresh" THEN FillBootInfo ELSE UNCHANGED screen

(* The firmware's events run from the start until boot services end. *)
PocEvent == FirmwareEvent /\ stage # "fatal" /\ UNCHANGED screen

(* _start and kernel_main: BootInfo is read where the bootloader put it. *)
PocKernel ==
    /\ pc = "kernel"
    /\ Draw
    /\ UNCHANGED loaderVars

PocStops ==
    /\ stage \in {"fatal", "halted"} \/ pc = "fatal"
    /\ UNCHANGED pocVars

PocStep == PocCollect \/ PocRsdp \/ PocLoad \/ PocKernel

PocNext == PocStep \/ PocEvent \/ PocStops

PocSpec == PocInit /\ [][PocNext]_pocVars /\ WF_pocVars(PocStep)

-----------------------------------------------------------------------------
(* Properties. *)

(* "Ten runs have to reach this line" (kernel/main.c:228): the picture is
   drawn, or a message says why not, however the firmware behaves. *)
PocEnds == <>(stage \in {"fatal", "halted"} \/ pc = "fatal")

=============================================================================
