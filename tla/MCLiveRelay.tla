----------------------------- MODULE MCLiveRelay -----------------------------
(***************************************************************************)
(* Instance of LiveRelay for TLC: a payload of a manifest and a data       *)
(* chunk, and then an empty one, which is a manifest alone.                *)
(***************************************************************************)
EXTENDS LiveRelay, TLC

MCSize == <<2, 1>>
=============================================================================
