------------------------------ MODULE Firmware -------------------------------
(***************************************************************************)
(* What over-the-air upgrading promises: the device always boots a whole   *)
(* image, and changes to another in one step, to the one it approved last. *)
(***************************************************************************)
EXTENDS Naturals

CONSTANT Versions

VARIABLES
    bootable,   \* the version of the image the boot loader will start
    approved    \* the version being downloaded, or 0

Init == bootable \in Versions /\ approved = 0

Approve == approved = 0 /\ approved' \in Versions /\ UNCHANGED bootable

Install == approved # 0 /\ bootable' = approved /\ approved' = 0

GiveUp == approved # 0 /\ approved' = 0 /\ UNCHANGED bootable

Spec == Init /\ [][Approve \/ Install \/ GiveUp]_<<bootable, approved>>
==============================================================================
