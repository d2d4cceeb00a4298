---------------------------- MODULE MCBoxChange ----------------------------
(***************************************************************************)
(* Two slots of one box, and the external spool in the runs that name it.  *)
(***************************************************************************)
EXTENDS BoxChange, TLC

CONSTANTS s1, s2

MCSlots    == {s1, s2}
MCManual   == {"load", "unload"}
MCNone     == {}
MCOneSlot  == {s1}
MCOneSpool == {s1, External}
MCSymmetry == Permutations(MCSlots)

=============================================================================
