---------------------------- MODULE MCPublicLink ----------------------------
(***************************************************************************)
(* Instances of PublicLink for TLC.  Requests and tickets are              *)
(* interchangeable, so safety is checked up to their permutation.          *)
(***************************************************************************)
EXTENDS PublicLink, TLC

Symmetry == Permutations(Req) \cup Permutations(Ticket)
=============================================================================
