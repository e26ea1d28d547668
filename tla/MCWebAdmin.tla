----------------------------- MODULE MCWebAdmin ------------------------------
(***************************************************************************)
(* Symmetry for TLC: requests and login sessions are interchangeable.      *)
(* LockoutEnds and the fairness of time speak of neither, so a cycle of    *)
(* the reduced graph is one of the full graph.                             *)
(***************************************************************************)
EXTENDS WebAdmin, TLC

Interchangeable == Permutations(Handlers) \cup Permutations(Sessions)
=============================================================================
