-------------------------- MODULE MCUploadSession --------------------------
(***************************************************************************)
(* Instances of UploadSession for TLC.  Parts, keys and requests are       *)
(* interchangeable.                                                        *)
(***************************************************************************)
EXTENDS UploadSession, TLC

Symmetry == Permutations(Part) \cup Permutations(File) \cup Permutations(Req)
=============================================================================
