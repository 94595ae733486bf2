--------------------------- MODULE MCPermissionSlip ---------------------------
(***************************************************************************)
(* Instances of PermissionSlip for TLC.                                    *)
(***************************************************************************)
EXTENDS PermissionSlip

OneWorld  == {"w1"}
WithGone  == {"w1", "w2", "gone"}
GoneWorld == {"gone"}
NoneGone  == {}
=============================================================================
