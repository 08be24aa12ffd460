------------------------------ MODULE MCLimits ------------------------------
(***************************************************************************)
(* Limits for TLC: a plugin that may call the provider, one that may not,  *)
(* and the compose endpoint.                                               *)
(***************************************************************************)
EXTENDS Limits, TLC

CONSTANTS shop, ungranted

MCAiMax == [k \in Callers |-> IF k = shop THEN 2 ELSE 1]
MCSymmetry == Permutations(Calls) \cup Permutations(Attempts) \cup Permutations(Browsers)
=============================================================================
