------------------------------ MODULE MCIdentity ------------------------------
(***************************************************************************)
(* Instance of Identity for TLC.  Everything but the administrator is      *)
(* interchangeable.                                                        *)
(***************************************************************************)
EXTENDS Identity, TLC

Symmetry ==
  Permutations(User) \cup Permutations(Invite) \cup Permutations(Token)
    \cup Permutations(Upload) \cup Permutations(Req)
=============================================================================
