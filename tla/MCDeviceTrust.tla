--------------------------- MODULE MCDeviceTrust ---------------------------
(***************************************************************************)
(* Instances of DeviceTrust for TLC.                                       *)
(***************************************************************************)
EXTENDS DeviceTrust, TLC

Symmetry == Permutations(Device) \cup Permutations(Req)
=============================================================================
