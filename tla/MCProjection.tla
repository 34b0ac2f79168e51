----------------------------- MODULE MCProjection -----------------------------
(***************************************************************************)
(* Instance of Projection for TLC.  Requests are interchangeable.          *)
(***************************************************************************)
EXTENDS Projection, TLC

Symmetry == Permutations(Caller)

\* Nothing is claimed of a share with a missed projection.
ShareNotMissed == "share" \notin missed
=============================================================================
