------------------------------ MODULE MCMetrics ------------------------------
(***************************************************************************)
(* Metrics for TLC: requests are interchangeable, and so are scrapes.      *)
(***************************************************************************)
EXTENDS Metrics, TLC

Symmetry == Permutations(Requests) \cup Permutations(Scrapers)
==============================================================================
