----------------------------- MODULE EmbedStore -----------------------------
(***************************************************************************)
(* The two databases the sidecar works on and the pure rules over them.    *)
(*                                                                         *)
(*   graph.db  nodes: what each node's embed_text is now, and              *)
(*             node_tombstones: the ids a delete trigger has logged.       *)
(*   embed.db  node_embeddings: for each (node, model) the digest of the   *)
(*             text its vector was computed from.                          *)
(*                                                                         *)
(* A text is an opaque value and stands for its own digest: text_hash is a *)
(* 128-bit hash of the text and only its equality is ever used.  A vector  *)
(* is represented by the digest stored beside it.  The operators take the  *)
(* databases as arguments (g: graph.db nodes, t: tombstones, v:            *)
(* embed.db), so that every specification of the project uses the same     *)
(* ones.                                                                   *)
(***************************************************************************)
EXTENDS Integers, FiniteSets

CONSTANTS
  Node,              \* node ids
  DocNode,           \* those of kind 'doc-chunk'
  NoiseNode,         \* those of a structural kind ('file', 'import', ...)
  Text,              \* embed_text values
  Model,             \* model ids
  Absent,            \* the node is not in graph.db
  NullText,          \* the node is there and its embed_text is NULL
  Fallback,          \* digest of the text build_node_text makes up
  NoHash,            \* a row older than the text_hash column
  NoRow,             \* no row for this node and model
  DocVerifyMaxRows   \* above this many doc rows the doc sweep is skipped

ASSUME StoreAssumption ==
  /\ DocNode \subseteq Node /\ NoiseNode \subseteq Node
  /\ DocNode \cap NoiseNode = {}
  /\ Text \cap {Absent, NullText, Fallback, NoHash, NoRow} = {}
  /\ Absent # NullText /\ Absent # Fallback /\ NullText # Fallback
  /\ NoHash \notin {Fallback, NoRow, Absent, NullText}
  /\ NoRow \notin {Fallback, Absent, NullText}
  /\ DocVerifyMaxRows \in Nat

NodeState == Text \cup {NullText, Absent}    \* a value of g[n]
Digest    == Text \cup {Fallback, NoHash}    \* the digest of a stored row
RowState  == Digest \cup {NoRow}             \* a value of v[n][m]

-----------------------------------------------------------------------------
(* Eligibility.                                                            *)

\* NODE_ELIGIBLE: the node may be embedded.
Eligible(n, s) ==
  /\ s # Absent
  /\ n \notin NoiseNode \/ s \in Text
  /\ ~ (n \in DocNode /\ s = NullText)

\* CODE_SPACE_ELIGIBLE and DOC_SPACE_ELIGIBLE: the index a vector belongs in.
InCodeSpace(n, s) == s # Absent /\ n \notin DocNode /\ (n \notin NoiseNode \/ s \in Text)
InDocSpace(n, s)  == s # Absent /\ n \in DocNode

\* Faulty variant: the digest of the NULL column itself is stored.
EmbedInputRaw(s) == s

\* The text handed to the encoder for a node in state s: its embed_text, or
\* one made up from kind, signature, path and neighbours when that is NULL.
EmbedInput(s) == IF s = NullText THEN Fallback ELSE s

\* Faulty variant: nodes that have a row are selected again.
PendingWithRow(g, v, m) == {n \in Node : Eligible(n, g[n])}

\* The nodes a pass for model m has to embed: eligible and without a row.
Pending(g, v, m) == {n \in Node : Eligible(n, g[n]) /\ v[n][m] = NoRow}

-----------------------------------------------------------------------------
(* apply_invalidation, one transaction over both databases.                *)

HasVector(v, n) == \E m \in Model : v[n][m] # NoRow

\* Faulty variant: rows of deleted nodes are left to the tombstone log.
SweepOrphansNone(g, v) == v

\* Step 1: the rows of every model whose node is gone.
SweepOrphans(g, v) ==
  [n \in Node |-> IF g[n] = Absent THEN [m \in Model |-> NoRow] ELSE v[n]]

\* Faulty variant: a tombstone deletes the vector whatever its digest is.
DropStaleAll(N, g, v) ==
  [n \in Node |-> IF n \in N THEN [m \in Model |-> NoRow] ELSE v[n]]

\* Of the nodes in N whose text is known, the rows of every model whose
\* digest is missing or differs from the digest of that text.
DropStale(N, g, v) ==
  [n \in Node |->
     [m \in Model |->
        IF n \in N /\ g[n] \in Text /\ v[n][m] # g[n] THEN NoRow ELSE v[n][m]]]

\* Steps 1 and 2: the orphan sweep, then the tombstoned nodes.
AfterCdc(g, t, v) == DropStale(t, g, SweepOrphans(g, v))

\* Step 3 looks at every doc row unless there are too many of them.
DocRows(v) == {r \in DocNode \X Model : v[r[1]][r[2]] # NoRow}
DocSweepRuns(g, t, v) == Cardinality(DocRows(AfterCdc(g, t, v))) <= DocVerifyMaxRows

\* Faulty variant: documents are verified through the tombstone log only.
InvalidatedCdcOnly(g, t, v) == AfterCdc(g, t, v)

\* The rows that remain after steps 1, 2 and 3.
Invalidated(g, t, v) ==
  IF DocSweepRuns(g, t, v)
    THEN DropStale(DocNode, g, AfterCdc(g, t, v))
    ELSE AfterCdc(g, t, v)

\* Faulty variants: a deferred tombstone is acknowledged with the others; one
\* of a node that was never embedded is deferred.
UnackedNone(g, t, v) == {}
UnackedAllNull(g, t, v) == {n \in t : g[n] = NullText}

\* Step 4 acknowledges every tombstone but the deferred ones: nodes that have
\* a vector and whose text is not knowable yet.
Unacked(g, t, v) == {n \in t : g[n] = NullText /\ HasVector(v, n)}

\* InvalidationReport::removed_any.
RemovedAny(g, t, v) == Invalidated(g, t, v) # v
=============================================================================
