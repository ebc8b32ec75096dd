----------------------------- MODULE MCIdeProbe -----------------------------
(***************************************************************************)
(* Instances of IdeProbe for TLC: every choice of what stands in the four  *)
(* slots; the two drives of the primary channel are of the same model.     *)
(***************************************************************************)
EXTENDS IdeProbe

MCLayouts == [SlotSet -> Kinds]
MCModels  == {"QEMU HARDDISK", "QEMU DVD-ROM", "other", "garbage"}
MCModelOf(s) ==
  IF s[1] = 0 THEN "QEMU HARDDISK" ELSE IF s[2] = 0 THEN "QEMU DVD-ROM" ELSE "other"
=============================================================================
