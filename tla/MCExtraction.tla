---------------------------- MODULE MCExtraction ----------------------------
(***************************************************************************)
(* Instances of Extraction for TLC.  Requests and scope keys are           *)
(* interchangeable.                                                        *)
(***************************************************************************)
EXTENDS Extraction, TLC

Symmetry == Permutations(Req) \cup Permutations(Scope)
=============================================================================
