----------------------------- MODULE MCRetrieval -----------------------------
(***************************************************************************)
(* Instance of Retrieval for TLC.  Requests are interchangeable, and so    *)
(* are scopes.                                                             *)
(***************************************************************************)
EXTENDS Retrieval, TLC

Symmetry == Permutations(Req) \cup Permutations(Scope)
=============================================================================
