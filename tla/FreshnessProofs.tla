--------------------------- MODULE FreshnessProofs ---------------------------
(***************************************************************************)
(* Proofs that Freshness keeps its safety properties for every set of      *)
(* nodes, texts and models and every chunk size.                           *)
(*                                                                         *)
(* None of the invariants is inductive alone: a row is written from held,  *)
(* long after its text was read, so the invariant IInv says of held what   *)
(* StaleIsTombstoned and StaleDocIsRecent say of the rows.                 *)
(***************************************************************************)
EXTENDS Freshness, TLAPS

HeldStaleIsTombstoned ==
  \A n \in Node : held[n] \in Text /\ held[n] # node[n] => n \in tomb \cup pruned

HeldStaleIsRecent ==
  \A n \in Node : held[n] # NoRow /\ held[n] # EmbedInput(node[n]) => n \in touched

HeldOnlyWhileEmbedding == pass = "idle" => held = NothingHeld

HeldHasNoRow == \A n \in Node : held[n] # NoRow => vec[n][cur] = NoRow

IInv ==
  /\ TypeOK
  /\ StaleIsTombstoned /\ HeldStaleIsTombstoned
  /\ StaleDocIsRecent /\ OrphanIsRecent /\ HeldStaleIsRecent
  /\ HeldOnlyWhileEmbedding /\ HeldHasNoRow

-----------------------------------------------------------------------------
(* What apply_invalidation leaves of a row.                                *)

\* Each row stays as it is or goes.
LEMMA InvalidatedShape ==
  ASSUME NEW g \in [Node -> NodeState], NEW t \in SUBSET Node,
         NEW v \in [Node -> [Model -> RowState]]
  PROVE  /\ Invalidated(g, t, v) \in [Node -> [Model -> RowState]]
         /\ \A n \in Node, m \in Model : Invalidated(g, t, v)[n][m] \in {NoRow, v[n][m]}
BY DEF Invalidated, AfterCdc, DropStale, SweepOrphans, RowState

\* No row of a deleted node stays, and no row of a tombstoned node whose text
\* is known stays unless it matches that text.
LEMMA InvalidatedSettles ==
  ASSUME NEW g \in [Node -> NodeState], NEW t \in SUBSET Node,
         NEW v \in [Node -> [Model -> RowState]],
         NEW n \in Node, NEW m \in Model
  PROVE  /\ g[n] = Absent => Invalidated(g, t, v)[n][m] = NoRow
         /\ n \in t /\ g[n] \in Text => Invalidated(g, t, v)[n][m] \in {NoRow, g[n]}
BY DEF Invalidated, AfterCdc, DropStale, SweepOrphans

\* The doc sweep leaves only matching rows of documents whose text is known.
LEMMA DocSweepSettles ==
  ASSUME NEW g \in [Node -> NodeState], NEW t \in SUBSET Node,
         NEW v \in [Node -> [Model -> RowState]],
         NEW n \in DocNode, NEW m \in Model,
         DocSweepRuns(g, t, v), g[n] \in Text
  PROVE  Invalidated(g, t, v)[n][m] \in {NoRow, g[n]}
BY StoreAssumption DEF Invalidated, AfterCdc, DropStale, SweepOrphans

\* A row that matches its node's text, or whose node's text is not known, stays.
LEMMA InvalidatedKeepsFresh ==
  ASSUME NEW g \in [Node -> NodeState], NEW t \in SUBSET Node,
         NEW v \in [Node -> [Model -> RowState]],
         NEW n \in Node, NEW m \in Model,
         v[n][m] = g[n] \/ g[n] = NullText
  PROVE  Invalidated(g, t, v)[n][m] = v[n][m] \/ v[n][m] = NoRow \/ g[n] = Absent
BY StoreAssumption DEF Invalidated, AfterCdc, DropStale, SweepOrphans, NodeState

-----------------------------------------------------------------------------
(* Types.                                                                  *)

LEMMA TypeInit == Init => TypeOK
BY StoreAssumption, FreshnessAssumption
   DEF Init, TypeOK, NodeState, RowState, Digest, NothingHeld

LEMMA InvalidateType ==
  ASSUME TypeOK, NEW ack \in BOOLEAN, Invalidate(ack)
  PROVE  /\ vec' \in [Node -> [Model -> RowState]]
         /\ tomb' \subseteq tomb
         /\ touched' \subseteq touched
BY InvalidatedShape DEF TypeOK, Invalidate, Unacked

LEMMA TypeStep == TypeOK /\ [Next]_vars => TypeOK'
<1> SUFFICES ASSUME TypeOK, [Next]_vars PROVE TypeOK'
  OBVIOUS
<1> USE StoreAssumption, FreshnessAssumption
<1>1. ASSUME NEW n \in Node, NEW s \in NodeState, Replace(n, s) PROVE TypeOK'
  BY <1>1 DEF TypeOK, Replace, Tombstone, passVars
<1>2. ASSUME NEW n \in Node, NEW s \in NodeState, Create(n, s) PROVE TypeOK'
  BY <1>2 DEF TypeOK, Create, passVars
<1>3. ASSUME NEW n \in Node, NEW s \in NodeState, Regenerate(n, s) PROVE TypeOK'
  BY <1>3 DEF TypeOK, Regenerate, passVars
<1>4. ASSUME NEW n \in Node, Remove(n) PROVE TypeOK'
  BY <1>4 DEF TypeOK, Remove, Tombstone, passVars, NodeState
<1>5. ASSUME NEW n \in Node, PruneLog(n) PROVE TypeOK'
  BY <1>5 DEF TypeOK, PruneLog, passVars
<1>6. ASSUME NEW m \in Model, NEW sc \in Scope, BeginPass(m, sc) PROVE TypeOK'
  BY <1>6, InvalidateType DEF TypeOK, BeginPass
<1>7. ASSUME NEW m \in Model, NEW sc \in Scope, BeginWorkerPass(m, sc) PROVE TypeOK'
  BY <1>7 DEF TypeOK, BeginWorkerPass, graphVars
<1>8. ASSUME NEW S \in SUBSET Node, SelectChunk(S) PROVE TypeOK'
  <2>1. \A n \in S : EmbedInput(node[n]) \in Text \cup {Fallback}
    BY <1>8 DEF TypeOK, SelectChunk, Todo, Pending, Eligible, EmbedInput, NodeState
  <2>2. held' \in [Node -> Text \cup {Fallback, NoRow}]
    BY <1>8, <2>1 DEF SelectChunk
  <2> QED
    BY <1>8, <2>2 DEF TypeOK, SelectChunk, graphVars
<1>9. ASSUME NEW S \in SUBSET Node, CommitRows(S) PROVE TypeOK'
  BY <1>9 DEF TypeOK, CommitRows, graphVars, RowState, Digest
<1>10. CASE EndPass
  BY <1>10 DEF TypeOK, EndPass, graphVars
<1>11. CASE Sweep
  BY <1>11, InvalidateType DEF TypeOK, Sweep, passVars
<1>12. CASE Crash
  BY <1>12 DEF TypeOK, Crash, NothingHeld, graphVars
<1>13. CASE UNCHANGED vars
  BY <1>13 DEF TypeOK, vars
<1> QED
  BY <1>1, <1>2, <1>3, <1>4, <1>5, <1>6, <1>7, <1>8, <1>9, <1>10, <1>11, <1>12, <1>13
  DEF Next, Daemon, Sidecar, Progress

\* Every variable of the store and of the pass keeps its type, for every value
\* of the constants.
THEOREM TypeCorrect == Spec => []TypeOK
<1>1. QED
  BY TypeInit, TypeStep, PTL DEF Spec
-----------------------------------------------------------------------------
(* The inductive invariant.                                                *)

LEMMA IInvInit == Init => IInv
<1> SUFFICES ASSUME Init PROVE IInv
  OBVIOUS
<1>1. TypeOK
  BY TypeInit
<1>2. \A n \in Node, m \in Model : vec[n][m] \notin Text
  BY StoreAssumption DEF Init
<1> QED
  BY <1>1, <1>2, StoreAssumption
  DEF IInv, Init, StaleIsTombstoned, HeldStaleIsTombstoned, StaleDocIsRecent, OrphanIsRecent,
      HeldStaleIsRecent, HeldOnlyWhileEmbedding, HeldHasNoRow, NothingHeld

\* An invalidation transaction keeps the parts that speak of rows.
LEMMA InvalidateKeeps ==
  ASSUME IInv, NEW ack \in BOOLEAN, Invalidate(ack),
         held = NothingHeld, UNCHANGED <<node, pruned>>
  PROVE  StaleIsTombstoned' /\ StaleDocIsRecent' /\ OrphanIsRecent'
<1> USE DEF IInv, TypeOK
<1>1. \A n \in Node, m \in Model : vec'[n][m] \in {NoRow, vec[n][m]}
  BY InvalidatedShape DEF Invalidate
<1>2. \A n \in Node, m \in Model : node[n] = Absent => vec'[n][m] = NoRow
  BY InvalidatedSettles DEF Invalidate
<1>3. \A n \in tomb, m \in Model : node[n] \in Text => vec'[n][m] \in {NoRow, node[n]}
  BY InvalidatedSettles DEF Invalidate
<1>4. StaleIsTombstoned'
  <2> SUFFICES ASSUME NEW n \in Node, NEW m \in Model,
                      vec'[n][m] \in Text, vec'[n][m] # node[n]
               PROVE  n \in tomb' \cup pruned
    BY DEF StaleIsTombstoned
  <2>1. vec'[n][m] = vec[n][m] /\ n \in tomb \cup pruned
    BY <1>1, StoreAssumption DEF StaleIsTombstoned
  <2>2. CASE n \in tomb
    <3>1. node[n] = NullText
      BY <1>2, <1>3, <2>2, StoreAssumption DEF NodeState
    <3>2. HasVector(vec, n)
      BY <2>1, StoreAssumption DEF HasVector
    <3> QED
      BY <2>2, <3>1, <3>2 DEF Invalidate, Unacked
  <2> QED
    BY <2>1, <2>2
<1>5. StaleDocIsRecent'
  <2> SUFFICES ASSUME NEW n \in DocNode, NEW m \in Model,
                      node[n] \in Text, vec'[n][m] \notin {NoRow, node[n]}
               PROVE  n \in touched'
    BY DEF StaleDocIsRecent
  <2>1. ~ DocSweepRuns(node, tomb, vec)
    BY DocSweepSettles DEF Invalidate
  <2>2. vec[n][m] \notin {NoRow, node[n]}
    BY <1>1, StoreAssumption
  <2> QED
    BY <2>1, <2>2 DEF Invalidate, StaleDocIsRecent
<1>6. OrphanIsRecent'
  BY <1>2 DEF OrphanIsRecent
<1> QED
  BY <1>4, <1>5, <1>6

LEMMA IInvStep == IInv /\ [Next]_vars => IInv'
<1> SUFFICES ASSUME IInv, [Next]_vars PROVE IInv'
  OBVIOUS
<1>t. TypeOK /\ TypeOK'
  BY TypeStep DEF IInv
<1> USE StoreAssumption
<1>1. ASSUME NEW n \in Node, NEW s \in NodeState, Replace(n, s) PROVE IInv'
  BY <1>1, <1>t
  DEF IInv, TypeOK, StaleIsTombstoned, HeldStaleIsTombstoned, StaleDocIsRecent, OrphanIsRecent,
      HeldStaleIsRecent, HeldOnlyWhileEmbedding, HeldHasNoRow, NothingHeld,
      Replace, Tombstone, passVars
<1>2. ASSUME NEW n \in Node, NEW s \in NodeState, Create(n, s) PROVE IInv'
  BY <1>2, <1>t
  DEF IInv, TypeOK, StaleIsTombstoned, HeldStaleIsTombstoned, StaleDocIsRecent, OrphanIsRecent,
      HeldStaleIsRecent, HeldOnlyWhileEmbedding, HeldHasNoRow, NothingHeld,
      Create, passVars
<1>3. ASSUME NEW n \in Node, NEW s \in NodeState, Regenerate(n, s) PROVE IInv'
  BY <1>3, <1>t
  DEF IInv, TypeOK, StaleIsTombstoned, HeldStaleIsTombstoned, StaleDocIsRecent, OrphanIsRecent,
      HeldStaleIsRecent, HeldOnlyWhileEmbedding, HeldHasNoRow, NothingHeld,
      Regenerate, passVars
<1>4. ASSUME NEW n \in Node, Remove(n) PROVE IInv'
  BY <1>4, <1>t
  DEF IInv, TypeOK, StaleIsTombstoned, HeldStaleIsTombstoned, StaleDocIsRecent, OrphanIsRecent,
      HeldStaleIsRecent, HeldOnlyWhileEmbedding, HeldHasNoRow, NothingHeld,
      Remove, Tombstone, passVars
<1>5. ASSUME NEW n \in Node, PruneLog(n) PROVE IInv'
  BY <1>5, <1>t
  DEF IInv, TypeOK, StaleIsTombstoned, HeldStaleIsTombstoned, StaleDocIsRecent, OrphanIsRecent,
      HeldStaleIsRecent, HeldOnlyWhileEmbedding, HeldHasNoRow, NothingHeld,
      PruneLog, passVars
<1>6. ASSUME NEW m \in Model, NEW sc \in Scope, BeginPass(m, sc) PROVE IInv'
  <2>1. held = NothingHeld /\ held' = NothingHeld
    BY <1>6 DEF IInv, HeldOnlyWhileEmbedding, BeginPass
  <2>2. StaleIsTombstoned' /\ StaleDocIsRecent' /\ OrphanIsRecent'
    BY <1>6, <2>1, InvalidateKeeps DEF BeginPass
  <2> QED
    BY <1>t, <2>1, <2>2
    DEF IInv, HeldStaleIsTombstoned, HeldStaleIsRecent, HeldOnlyWhileEmbedding, HeldHasNoRow,
        NothingHeld
<1>7. ASSUME NEW m \in Model, NEW sc \in Scope, BeginWorkerPass(m, sc) PROVE IInv'
  <2>1. held = NothingHeld /\ held' = NothingHeld
    BY <1>7 DEF IInv, HeldOnlyWhileEmbedding, BeginWorkerPass
  <2> QED
    BY <1>7, <1>t, <2>1
    DEF IInv, StaleIsTombstoned, HeldStaleIsTombstoned, StaleDocIsRecent, OrphanIsRecent,
        HeldStaleIsRecent, HeldOnlyWhileEmbedding, HeldHasNoRow, NothingHeld,
        BeginWorkerPass, graphVars
<1>8. ASSUME NEW S \in SUBSET Node, SelectChunk(S) PROVE IInv'
  <2>1. \A n \in Node : held'[n] = IF n \in S THEN EmbedInput(node[n]) ELSE NoRow
    BY <1>8 DEF SelectChunk
  <2>2. \A n \in S : node[n] # Absent /\ vec[n][cur] = NoRow
    BY <1>8 DEF SelectChunk, Todo, Pending, Eligible
  <2>3. \A n \in Node : held'[n] \in Text => held'[n] = node[n]
    BY <2>1 DEF EmbedInput
  <2> QED
    BY <1>8, <1>t, <2>1, <2>2, <2>3
    DEF IInv, StaleIsTombstoned, HeldStaleIsTombstoned, StaleDocIsRecent, OrphanIsRecent,
        HeldStaleIsRecent, HeldOnlyWhileEmbedding, HeldHasNoRow, SelectChunk, graphVars
<1>9. ASSUME NEW S \in SUBSET Node, CommitRows(S) PROVE IInv'
  <2>1. \A n \in Node : held'[n] = IF n \in S THEN NoRow ELSE held[n]
    BY <1>9 DEF CommitRows
  <2>2. \A n \in Node, m \in Model :
          vec'[n][m] = IF n \in S /\ m = cur THEN held[n] ELSE vec[n][m]
    BY <1>9, <1>t DEF CommitRows, TypeOK
  <2>3. UNCHANGED <<node, tomb, pruned, touched, pass, cur>> /\ pass = "embedding"
    BY <1>9 DEF CommitRows, graphVars
  <2>4. \A n \in S : held[n] # NoRow
    BY <1>9 DEF CommitRows
  <2>5. StaleIsTombstoned' /\ HeldStaleIsTombstoned'
    BY <2>1, <2>2, <2>3 DEF IInv, StaleIsTombstoned, HeldStaleIsTombstoned
  <2>6. StaleDocIsRecent' /\ OrphanIsRecent' /\ HeldStaleIsRecent'
    BY <1>t, <2>1, <2>2, <2>3, <2>4
    DEF IInv, TypeOK, StaleDocIsRecent, OrphanIsRecent, HeldStaleIsRecent, EmbedInput
  <2>7. HeldOnlyWhileEmbedding' /\ HeldHasNoRow'
    BY <1>t, <2>1, <2>2, <2>3 DEF IInv, TypeOK, HeldOnlyWhileEmbedding, HeldHasNoRow
  <2> QED
    BY <1>t, <2>5, <2>6, <2>7 DEF IInv
<1>10. CASE EndPass
  BY <1>10, <1>t
  DEF IInv, StaleIsTombstoned, HeldStaleIsTombstoned, StaleDocIsRecent, OrphanIsRecent,
      HeldStaleIsRecent, HeldOnlyWhileEmbedding, HeldHasNoRow, NothingHeld, EndPass, graphVars
<1>11. CASE Sweep
  <2>1. held = NothingHeld /\ held' = NothingHeld
    BY <1>11 DEF IInv, HeldOnlyWhileEmbedding, Sweep, passVars
  <2>2. StaleIsTombstoned' /\ StaleDocIsRecent' /\ OrphanIsRecent'
    BY <1>11, <2>1, InvalidateKeeps DEF Sweep
  <2> QED
    BY <1>t, <2>1, <2>2
    DEF IInv, HeldStaleIsTombstoned, HeldStaleIsRecent, HeldOnlyWhileEmbedding, HeldHasNoRow,
        NothingHeld
<1>12. CASE Crash
  BY <1>12, <1>t
  DEF IInv, StaleIsTombstoned, HeldStaleIsTombstoned, StaleDocIsRecent, OrphanIsRecent,
      HeldStaleIsRecent, HeldOnlyWhileEmbedding, HeldHasNoRow, NothingHeld, Crash, graphVars
<1>13. CASE UNCHANGED vars
  BY <1>13
  DEF vars, IInv, TypeOK, StaleIsTombstoned, HeldStaleIsTombstoned, StaleDocIsRecent,
      OrphanIsRecent, HeldStaleIsRecent, HeldOnlyWhileEmbedding, HeldHasNoRow
<1> QED
  BY <1>1, <1>2, <1>3, <1>4, <1>5, <1>6, <1>7, <1>8, <1>9, <1>10, <1>11, <1>12, <1>13
  DEF Next, Daemon, Sidecar, Progress

LEMMA Inductive == Spec => []IInv
<1>1. QED
  BY IInvInit, IInvStep, PTL DEF Spec

\* A row computed from a text its node no longer has is always covered by a
\* tombstone the next pass will look at, whatever is edited or dies meanwhile.
THEOREM StaleCovered == Spec => []StaleIsTombstoned
<1>1. IInv => StaleIsTombstoned
  BY DEF IInv
<1> QED
  BY <1>1, Inductive, PTL

\* A document with a vector of another text has changed since documents were
\* last verified, with the tombstone log complete or not.
THEOREM DocsVerified == Spec => []StaleDocIsRecent
<1>1. IInv => StaleDocIsRecent
  BY DEF IInv
<1> QED
  BY <1>1, Inductive, PTL

\* The vector of a deleted node does not survive a verification.
THEOREM OrphansSwept == Spec => []OrphanIsRecent
<1>1. IInv => OrphanIsRecent
  BY DEF IInv
<1> QED
  BY <1>1, Inductive, PTL

-----------------------------------------------------------------------------
(* What a step may do to a row and to a tombstone.                         *)

FreshRowsKept ==
  \A n \in Node, m \in Model :
    /\ vec[n][m] # NoRow
    /\ vec[n][m] = node[n] \/ node[n] = NullText
    /\ node'[n] = node[n]
    => vec'[n][m] = vec[n][m]

AckedIsSettled ==
  \A n \in (tomb \ tomb') \ pruned' :
    \A m \in Model : vec'[n][m] \in {NoRow, node'[n]}

LEMMA FreshRowsStep == IInv /\ [Next]_vars => FreshRowsKept
<1> SUFFICES ASSUME IInv, [Next]_vars,
                    NEW n \in Node, NEW m \in Model,
                    vec[n][m] # NoRow,
                    vec[n][m] = node[n] \/ node[n] = NullText
             PROVE  vec'[n][m] = vec[n][m]
  BY DEF FreshRowsKept
<1> USE StoreAssumption DEF IInv, TypeOK
<1>1. ASSUME NEW ack \in BOOLEAN, Invalidate(ack) PROVE vec'[n][m] = vec[n][m]
  <2>1. node[n] # Absent
    BY DEF RowState, Digest
  <2> QED
    BY <1>1, <2>1, InvalidatedKeepsFresh DEF Invalidate
<1>2. ASSUME NEW S \in SUBSET Node, CommitRows(S) PROVE vec'[n][m] = vec[n][m]
  <2>1. n \in S => m # cur
    BY <1>2 DEF CommitRows, HeldHasNoRow
  <2> QED
    BY <1>2, <2>1 DEF CommitRows
<1>3. CASE Daemon
  BY <1>3 DEF Daemon, Replace, Create, Regenerate, Remove, PruneLog
<1>4. CASE Sidecar
  BY <1>1, <1>2, <1>4
  DEF Sidecar, Progress, BeginPass, BeginWorkerPass, SelectChunk, EndPass, Sweep, Crash
<1> QED
  BY <1>3, <1>4 DEF Next, vars

LEMMA AckStep == IInv /\ [Next]_vars => AckedIsSettled
<1> SUFFICES ASSUME IInv, [Next]_vars,
                    NEW n \in (tomb \ tomb') \ pruned', NEW m \in Model
             PROVE  vec'[n][m] \in {NoRow, node'[n]}
  BY DEF AckedIsSettled
<1> USE StoreAssumption DEF IInv, TypeOK
<1>1. ASSUME Invalidate(TRUE), node' = node PROVE vec'[n][m] \in {NoRow, node'[n]}
  <2>1. \/ node[n] # NullText
        \/ vec[n][m] = NoRow
    BY <1>1 DEF Invalidate, Unacked, HasVector
  <2>2. vec'[n][m] \in {NoRow, vec[n][m]}
    BY <1>1, InvalidatedShape DEF Invalidate
  <2>3. node[n] = Absent => vec'[n][m] = NoRow
    BY <1>1, InvalidatedSettles DEF Invalidate
  <2>4. node[n] \in Text => vec'[n][m] \in {NoRow, node[n]}
    BY <1>1, InvalidatedSettles DEF Invalidate
  <2> QED
    BY <1>1, <2>1, <2>2, <2>3, <2>4 DEF NodeState
<1>2. CASE Daemon
  BY <1>2 DEF Daemon, Replace, Create, Regenerate, Remove, PruneLog, Tombstone
<1>3. CASE Sidecar
  BY <1>1, <1>3
  DEF Sidecar, Progress, BeginPass, BeginWorkerPass, SelectChunk, CommitRows, EndPass, Sweep, Crash,
      Invalidate, graphVars
<1> QED
  BY <1>2, <1>3 DEF Next, vars

\* A pass never deletes or overwrites a vector that matches its node's text,
\* nor one of a node whose text is not known.
THEOREM FreshRowsAreKept == Spec => FreshRowsSurvive
<1>1. IInv /\ [Next]_vars => [FreshRowsKept]_vars
  BY FreshRowsStep
<1> QED
  BY <1>1, Inductive, PTL DEF Spec, FreshRowsSurvive, FreshRowsKept

\* A tombstone is acknowledged only when every row it could have made stale
\* matches its node or is gone.
THEOREM AcksAreSettled == Spec => AckIsSettled
<1>1. IInv /\ [Next]_vars => [AckedIsSettled]_vars
  BY AckStep
<1> QED
  BY <1>1, Inductive, PTL DEF Spec, AckIsSettled, AckedIsSettled
=============================================================================
