---------------------------- MODULE MCFlashBatch ----------------------------
(* vendor is a logical partition with an image and a mount; dsp is a physical
   one mounted below it; odm is logical and not selected. *)
EXTENDS FlashBatch, TLC
CONSTANTS vendor, system, dsp, odm, cow, audio, boot
TheImages == {vendor, system, dsp}
ThePhysical == {dsp}
TheOthers == {odm}
TheCows == {cow}
TheServices == {audio, boot}
TheMounts == <<dsp, vendor>>
TheParents == [m \in {dsp, vendor} |-> vendor]
=============================================================================
