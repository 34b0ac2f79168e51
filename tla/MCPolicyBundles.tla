--------------------------- MODULE MCPolicyBundles ---------------------------
(***************************************************************************)
(* Instance of PolicyBundles for TLC: two levels with the flags of their   *)
(* defaults (policy-defaults.ts), minutes in units small enough to count.  *)
(***************************************************************************)
EXTENDS PolicyBundles, TLC

MCSecret ==
  [default |-> 1, maximum |-> Null, never |-> "true", outward |-> "true",
   shares |-> "true", shareDefault |-> 1, shareMaximum |-> Null,
   extraction |-> "true", retrievals |-> 2, links |-> "true", linkMinutes |-> 2,
   downloads |-> 2, live |-> "true", grouped |-> "true", relay |-> "true",
   fallback |-> "true"]

MCTopSecret ==
  [MCSecret EXCEPT !.maximum = 1, !.never = "false", !.outward = "false",
     !.shares = "false", !.shareDefault = Null, !.extraction = "false",
     !.retrievals = Null, !.links = "false", !.linkMinutes = Null,
     !.downloads = Null, !.relay = "false", !.fallback = "false"]

MCDefault == [l \in Level |-> IF l = "SECRET" THEN MCSecret ELSE MCTopSecret]

\* A stricter SECRET, one that switches the relay off and forgets the fallback,
\* and one that gives it as a number, which the validation lets pass.
MCDraft ==
  {[MCSecret EXCEPT !.maximum = 1, !.shareMaximum = 1, !.never = "falsy"],
   [MCSecret EXCEPT !.relay = "false"],
   [MCSecret EXCEPT !.relay = "false", !.fallback = "truthy"]}

Symmetry == Permutations(Request)
=============================================================================
