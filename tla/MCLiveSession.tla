--------------------------- MODULE MCLiveSession ---------------------------
(***************************************************************************)
(* Instances of LiveSession for TLC.                                       *)
(***************************************************************************)
EXTENDS LiveSession, TLC

\* The defaults of SECRET and TOP_SECRET (policy-defaults.ts), relay alone, no
\* transport at all, and a fallback without relay (PolicyBundles lets one pass).
MCPolicies ==
  {[p2p |-> TRUE, relay |-> TRUE, fallback |-> TRUE, stored |-> TRUE, retain |-> TRUE],
   [p2p |-> TRUE, relay |-> FALSE, fallback |-> FALSE, stored |-> FALSE, retain |-> FALSE],
   [p2p |-> FALSE, relay |-> TRUE, fallback |-> FALSE, stored |-> TRUE, retain |-> FALSE],
   [p2p |-> FALSE, relay |-> FALSE, fallback |-> FALSE, stored |-> FALSE, retain |-> TRUE],
   [p2p |-> TRUE, relay |-> FALSE, fallback |-> TRUE, stored |-> FALSE, retain |-> FALSE]}

Symmetry == Permutations(Req)
=============================================================================
