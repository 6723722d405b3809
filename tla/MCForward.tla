------------------------------ MODULE MCForward ------------------------------
(***************************************************************************)
(* Forward for TLC.  The slots are interchangeable, and so are the route   *)
(* prefixes: no action or safety property names one.                       *)
(***************************************************************************)
EXTENDS Forward, TLC

Symmetry == Permutations(Requests) \cup Permutations(Prefixes)
==============================================================================
