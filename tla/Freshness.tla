------------------------------ MODULE Freshness ------------------------------
(***************************************************************************)
(* What an embedding pass promises about the content of embed.db.          *)
(*                                                                         *)
(* The daemon (outside this repository) edits graph.db at any time; one    *)
(* sidecar process at a time runs a pass: invalidate and acknowledge in    *)
(* one transaction, then repeatedly read a chunk of pending nodes, embed   *)
(* it and commit it.  Before the index files are built it sweeps again.    *)
(* A text is read from graph.db when its chunk is selected and its row is  *)
(* committed much later, so a row may already be stale when it is written. *)
(* The index files are the subject of module Reindex, the worker threads   *)
(* of module ParallelReindex.                                              *)
(***************************************************************************)
EXTENDS EmbedStore

CONSTANTS
  Scope,          \* node sets a phase or partition clause can select
  ChunkRows       \* PENDING_CHUNK_ROWS

ASSUME FreshnessAssumption ==
  /\ Scope \subseteq SUBSET Node
  /\ ChunkRows \in Nat \ {0}

VARIABLES
  node,     \* graph.db: the state of each node
  tomb,     \* graph.db: the nodes in node_tombstones
  vec,      \* embed.db: the digest of each row
  pass,     \* "idle", or "embedding" while a pass is in its loop
  cur,      \* that pass's model
  scope,    \* that pass's phase and partition clauses
  held,     \* digest of each text read and not yet committed
  \* History variables.
  pruned,   \* nodes whose latest tombstone the log's GC has dropped
  touched   \* nodes that changed since a pass last verified them

graphVars == <<node, tomb, pruned>>
passVars  == <<pass, cur, scope, held>>
vars      == <<node, tomb, vec, pass, cur, scope, held, pruned, touched>>

NothingHeld == [n \in Node |-> NoRow]

TypeOK ==
  /\ node \in [Node -> NodeState]
  /\ tomb \subseteq Node
  /\ vec \in [Node -> [Model -> RowState]]
  /\ pass \in {"idle", "embedding"}
  /\ cur \in Model
  /\ scope \subseteq Node
  /\ held \in [Node -> Text \cup {Fallback, NoRow}]
  /\ pruned \subseteq Node
  /\ touched \subseteq Node

\* Any graph, and an embed.db written before text_hash existed (or empty).
Init ==
  /\ node \in [Node -> NodeState]
  /\ tomb = {}
  /\ vec \in [Node -> [Model -> {NoRow, NoHash}]]
  /\ pass = "idle" /\ cur \in Model /\ scope = {}
  /\ held = NothingHeld
  /\ pruned = {} /\ touched = Node

-----------------------------------------------------------------------------
(* The daemon.                                                             *)

\* A tombstone is logged for n by the delete trigger on nodes.
Tombstone(n) == tomb' = tomb \cup {n} /\ pruned' = pruned \ {n}

\* reindex_replace on a changed path: the node is deleted and inserted again,
\* with its text or (a fresh init) with a NULL embed_text.
Replace(n, s) ==
  /\ node[n] # Absent /\ s # Absent
  /\ node' = [node EXCEPT ![n] = s]
  /\ Tombstone(n)
  /\ touched' = touched \cup {n}
  /\ UNCHANGED <<vec, passVars>>

\* The node is deleted.
Remove(n) ==
  /\ node[n] # Absent
  /\ node' = [node EXCEPT ![n] = Absent]
  /\ Tombstone(n)
  /\ touched' = touched \cup {n}
  /\ UNCHANGED <<vec, passVars>>

\* A node that is not there is inserted: nothing is logged.
Create(n, s) ==
  /\ node[n] = Absent /\ s # Absent
  /\ node' = [node EXCEPT ![n] = s]
  /\ touched' = touched \cup {n}
  /\ UNCHANGED <<tomb, pruned, vec, passVars>>

\* embed_text is regenerated by an UPDATE: nothing is logged.
Regenerate(n, s) ==
  /\ node[n] = NullText /\ s \in Text
  /\ node' = [node EXCEPT ![n] = s]
  /\ touched' = touched \cup {n}
  /\ UNCHANGED <<tomb, pruned, vec, passVars>>

\* The log's GC drops a tombstone nobody has consumed.
PruneLog(n) ==
  /\ n \in tomb
  /\ tomb' = tomb \ {n} /\ pruned' = pruned \cup {n}
  /\ UNCHANGED <<node, vec, touched, passVars>>

-----------------------------------------------------------------------------
(* The sidecar.                                                            *)

\* One apply_invalidation transaction.  A history step goes with it: nodes are
\* verified, documents only if the doc sweep ran.
Invalidate(ack) ==
  /\ vec' = Invalidated(node, tomb, vec)
  /\ tomb' = IF ack THEN Unacked(node, tomb, vec) ELSE tomb
  /\ touched' = IF DocSweepRuns(node, tomb, vec) THEN {} ELSE touched \cap DocNode

\* A pass of the main process starts.
BeginPass(m, sc) ==
  /\ pass = "idle"
  /\ pass' = "embedding" /\ cur' = m /\ scope' = sc
  /\ Invalidate(TRUE)
  /\ UNCHANGED <<node, held, pruned>>

\* A pass of a shard or range worker starts: it leaves invalidation to the
\* process that spawned it.
BeginWorkerPass(m, sc) ==
  /\ pass = "idle"
  /\ pass' = "embedding" /\ cur' = m /\ scope' = sc
  /\ UNCHANGED <<graphVars, vec, held, touched>>

\* The pending nodes of this pass.
Todo == Pending(node, vec, cur) \cap scope

\* The chunk SELECT: at most ChunkRows pending nodes, with their texts.  LIMIT
\* takes any of them, and a row that does not decode is skipped.
SelectChunk(S) ==
  /\ pass = "embedding" /\ held = NothingHeld
  /\ S # {} /\ S \subseteq Todo /\ IsFiniteSet(S) /\ Cardinality(S) <= ChunkRows
  /\ held' = [n \in Node |-> IF n \in S THEN EmbedInput(node[n]) ELSE NoRow]
  /\ UNCHANGED <<graphVars, vec, pass, cur, scope, touched>>

\* One buffer is flushed: the rows of S are inserted or replaced.
CommitRows(S) ==
  /\ pass = "embedding"
  /\ S # {} /\ \A n \in S : held[n] # NoRow
  /\ vec' = [n \in Node |-> IF n \in S THEN [vec[n] EXCEPT ![cur] = held[n]] ELSE vec[n]]
  /\ held' = [n \in Node |-> IF n \in S THEN NoRow ELSE held[n]]
  /\ UNCHANGED <<graphVars, pass, cur, scope, touched>>

\* Nothing is left to select: the embedding loop ends.
EndPass ==
  /\ pass = "embedding" /\ held = NothingHeld /\ Todo = {}
  /\ pass' = "idle" /\ scope' = {}
  /\ UNCHANGED <<graphVars, vec, cur, held, touched>>

\* rebuild_index's sweep: at the end of a pass, or from --rebuild-index.  It can
\* remove a row but not replace it, so it acknowledges nothing.
Sweep ==
  /\ pass = "idle"
  /\ Invalidate(FALSE)
  /\ UNCHANGED <<node, pruned, passVars>>

\* The process dies, or an error ends the pass: what was not committed is lost.
Crash ==
  /\ pass = "embedding"
  /\ pass' = "idle" /\ scope' = {} /\ held' = NothingHeld
  /\ UNCHANGED <<graphVars, vec, cur, touched>>

-----------------------------------------------------------------------------
Daemon ==
  \E n \in Node :
    \/ \E s \in NodeState : Replace(n, s) \/ Create(n, s) \/ Regenerate(n, s)
    \/ Remove(n)
    \/ PruneLog(n)

Progress ==
  \/ \E m \in Model, sc \in Scope : BeginPass(m, sc) \/ BeginWorkerPass(m, sc)
  \/ \E S \in SUBSET Node : SelectChunk(S) \/ CommitRows(S)
  \/ EndPass
  \/ Sweep

Sidecar == Progress \/ Crash

Next == Daemon \/ Sidecar

Spec == Init /\ [][Next]_vars

-----------------------------------------------------------------------------
(* Safety.                                                                 *)

\* A row computed from a text the node no longer has is always covered by a
\* tombstone, so that the next pass looks at the node again: neither a chunk
\* read before an edit and committed after it, nor a tombstone that was
\* deferred, nor a crash loses one.  Only the log's own GC can.
StaleIsTombstoned ==
  \A n \in Node, m \in Model :
    vec[n][m] \in Text /\ vec[n][m] # node[n] => n \in tomb \cup pruned

\* A document whose vector does not match its text has changed since the last
\* verification: documents do not depend on the log.
StaleDocIsRecent ==
  \A n \in DocNode, m \in Model :
    node[n] \in Text /\ vec[n][m] \notin {NoRow, node[n]} => n \in touched

\* A vector of a deleted node goes at the latest with the next verification,
\* even when the tombstone was lost.
OrphanIsRecent ==
  \A n \in Node, m \in Model :
    node[n] = Absent /\ vec[n][m] # NoRow => n \in touched

\* A vector that matches its node's text, or whose node's text is not known,
\* is never deleted or overwritten while the node stays as it is.
FreshRowsSurvive ==
  [][\A n \in Node, m \in Model :
       /\ vec[n][m] # NoRow
       /\ vec[n][m] = node[n] \/ node[n] = NullText
       /\ node'[n] = node[n]
       => vec'[n][m] = vec[n][m]]_vars

\* A tombstone a pass acknowledges leaves only rows that match the node.
AckIsSettled ==
  [][\A n \in (tomb \ tomb') \ pruned' :
       \A m \in Model : vec'[n][m] \in {NoRow, node'[n]}]_vars

-----------------------------------------------------------------------------
(* Liveness, once the daemon is quiet (LazyEmbed says under which fairness).  *)

\* Every document ends with a vector of its text, in every model.
DocsConverge ==
  \A m \in Model : <>[](\A n \in DocNode : node[n] \in Text => vec[n][m] = node[n])

\* The log drains: what remains are the deferred tombstones.
BacklogDrains ==
  <>[](\A n \in tomb : node[n] = NullText /\ HasVector(vec, n))
=============================================================================
