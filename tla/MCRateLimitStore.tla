-------------------------- MODULE MCRateLimitStore --------------------------
(* Two instances of RateLimitStore for TLC. *)
EXTENDS RateLimitStore, TLC

Symmetry == Permutations(Instances)
============================================================================
