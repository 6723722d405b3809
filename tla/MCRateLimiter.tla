---------------------------- MODULE MCRateLimiter ----------------------------
(***************************************************************************)
(* RateLimiter for TLC: calls are interchangeable, and so are keys.        *)
(***************************************************************************)
EXTENDS RateLimiter, TLC

Symmetry == Permutations(Calls) \cup Permutations(Keys)
==============================================================================
