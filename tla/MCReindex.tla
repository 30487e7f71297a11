----------------------------- MODULE MCReindex -----------------------------
(* Instances of Reindex for TLC.                                            *)
EXTENDS Reindex

CONSTANTS c, d, x

MCScope == {Node, Deep, Node \ Deep, Shard}

\* Bounds the history of an instance: at most one node is edited while, or
\* after, one process runs, and the tombstone log is not pruned (Freshness
\* explores both without a bound).
OneEdit == Cardinality(since) <= 1 /\ pruned = {}

\* States that differ in the history variable touched only are the same here: no
\* action's guard and no property of Reindex reads it.
WithoutTouched ==
  <<graphVars, vec, passVars, procVars, file, outcome, since, owed>>

\* The liveness instance starts from an empty embed.db without index files; the
\* legacy rows and corrupt files of other starts are in the safety instance.
FromNothing ==
  /\ ReindexInit
  /\ vec = [n \in Node |-> [m \in Model |-> NoRow]]
  /\ file = [m \in Model |-> [s \in Space |-> NoFile]]

ReindexFairSpec == FromNothing /\ [][ReindexNext]_rvars /\ ReindexFairness

\* The bound of the liveness instance: the daemon edits one of the nodes only.
EditsOnlyC == node'[x] = node[x] /\ tomb' \subseteq {c} /\ pruned' = {}
=============================================================================
