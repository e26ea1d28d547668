--------------------------- MODULE MCMessageCache ----------------------------
(***************************************************************************)
(* MessageCache for TLC: the sessions are interchangeable, and so are the  *)
(* commits, since no property and no action tells one from another.        *)
(***************************************************************************)
EXTENDS MessageCache, TLC

Interchangeable == Permutations(Readers) \cup Permutations(Commits)
=============================================================================
