----------------------------- MODULE MCParallel -----------------------------
(* Instances of ParallelReindex for TLC.                                    *)
EXTENDS ParallelReindex

CONSTANTS c, d

MCScope == {Node}

\* The bound of these instances: only c is edited, and the log is not pruned
\* (Freshness explores the edits of all nodes without a bound).
EditsOnlyC ==
  /\ \A n \in Node \ {c} : node'[n] = node[n]
  /\ tomb' \subseteq {c} /\ pruned' = {}
=============================================================================
