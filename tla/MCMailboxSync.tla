---------------------------- MODULE MCMailboxSync ----------------------------
(***************************************************************************)
(* A small history for MailboxSync: commits 2 and 3 fork from 1, commit 4  *)
(* merges them, and 5 is the root of a rewritten history.                  *)
(***************************************************************************)
EXTENDS MailboxSync, SequencesExt

CONSTANT MCCommits    \* which of the commits 1 .. 5 the instance uses

MCParents == <<{}, {1}, {1}, {2, 3}, {}>>

MCReachAll[c \in 1 .. 5] == {c} \cup UNION {MCReachAll[p] : p \in MCParents[c]}

MCReach == [c \in MCCommits |-> MCReachAll[c]]

\* Parents have smaller numbers, so ascending order is a topological one.
MCLog(from, to) ==
  SetToSortSeq(MCReach[to] \ (IF from = None THEN {} ELSE MCReach[from]), <)
=============================================================================
