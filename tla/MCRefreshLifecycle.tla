------------------------- MODULE MCRefreshLifecycle -------------------------
(***************************************************************************)
(* Small instances of RefreshLifecycle for TLC.  Three callers are what it *)
(* takes for one refresh to run, one to join it and one to follow it.      *)
(***************************************************************************)
EXTENDS RefreshLifecycle, TLC

\* The callers are interchangeable; for the runs without liveness.
CallersSymmetry == Permutations(Refreshes)
=============================================================================
