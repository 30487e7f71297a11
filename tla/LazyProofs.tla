----------------------------- MODULE LazyProofs -----------------------------
(***************************************************************************)
(* Proofs about queries that insert rows while passes run, for any number  *)
(* of queries and passes of any models.                                    *)
(*                                                                         *)
(* The invariant of FreshnessProofs does not survive the queries: a node   *)
(* whose text a pass holds may get a row meanwhile (HeldHasNoRow), and a   *)
(* row may be outdated without a tombstone (StaleIsTombstoned).  LInv is   *)
(* what is left of it: the texts a pass holds are still covered by the     *)
(* tombstone log, and the rows are, except those a query inserted late.    *)
(***************************************************************************)
EXTENDS LazyEmbed, FreshnessProofs

LInv ==
  /\ LazyTypeOK
  /\ StaleUnlessRaced
  /\ HeldStaleIsTombstoned
  /\ HeldOnlyWhileEmbedding

-----------------------------------------------------------------------------
(* Types.                                                                  *)

LEMMA LazyReadType ==
  ASSUME LazyTypeOK, NEW q \in Query, NEW S \in SUBSET Node, LazyRead(q, S)
  PROVE  LazyTypeOK'
<1>1. \A n \in S : EmbedInput(node[n]) \in Text \cup {Fallback}
  BY DEF LazyTypeOK, TypeOK, LazyRead, Pending, Eligible, EmbedInput, NodeState
<1>2. lazy' \in [Query -> [Node -> Text \cup {Fallback, NoRow}]]
  BY <1>1 DEF LazyTypeOK, LazyRead
<1>3. TypeOK' /\ raced' = raced
  BY DEF LazyTypeOK, LazyRead, TypeOK, vars
<1> QED
  BY <1>2, <1>3 DEF LazyTypeOK

LEMMA LazyPersistType ==
  ASSUME LazyTypeOK, NEW q \in Query, LazyPersist(q)
  PROVE  LazyTypeOK'
<1>1. vec' \in [Node -> [Model -> RowState]]
  <2>1. lazy[q] \in [Node -> RowState] /\ vec \in [Node -> [Model -> RowState]]
    BY DEF LazyTypeOK, TypeOK, RowState, Digest
  <2>2. PICK new : vec' = [n \in Node |-> IF n \in new THEN [vec[n] EXCEPT ![Served] = lazy[q][n]]
                                                      ELSE vec[n]]
    BY DEF LazyPersist
  <2> QED
    BY <2>1, <2>2
<1>2. TypeOK'
  BY <1>1 DEF LazyTypeOK, TypeOK, LazyPersist, graphVars, passVars
<1>3. lazy' \in [Query -> [Node -> Text \cup {Fallback, NoRow}]]
  BY DEF LazyTypeOK, LazyPersist, NothingHeld
<1>4. raced' \subseteq Node
  BY DEF LazyTypeOK, LazyPersist, RacedLeft, Inserted
<1> QED
  BY <1>2, <1>3, <1>4 DEF LazyTypeOK

LEMMA LazyTypeStep == LazyTypeOK /\ [LazyNext]_lvars => LazyTypeOK'
<1> SUFFICES ASSUME LazyTypeOK, [LazyNext]_lvars PROVE LazyTypeOK'
  OBVIOUS
<1>1. CASE Elsewhere(Next)
  <2>1. TypeOK'
    BY <1>1, TypeStep DEF LazyTypeOK, Elsewhere
  <2> QED
    BY <1>1, <2>1 DEF LazyTypeOK, Elsewhere, RacedLeft
<1>2. ASSUME NEW q \in Query, LazyDrop(q) PROVE LazyTypeOK'
  <2>1. lazy' \in [Query -> [Node -> Text \cup {Fallback, NoRow}]]
    BY <1>2 DEF LazyTypeOK, LazyDrop, NothingHeld
  <2> QED
    BY <1>2, <2>1 DEF LazyTypeOK, LazyDrop, TypeOK, vars
<1>3. CASE UNCHANGED lvars
  BY <1>3 DEF LazyTypeOK, TypeOK, lvars, vars
<1> QED
  BY <1>1, <1>2, <1>3, LazyReadType, LazyPersistType DEF LazyNext, Serving

-----------------------------------------------------------------------------
(* The texts a pass holds.                                                 *)

\* A pass invalidates, and acknowledges tombstones, only while it holds nothing.
LEMMA HeldStep ==
  ASSUME TypeOK, HeldStaleIsTombstoned, HeldOnlyWhileEmbedding, [Next]_vars
  PROVE  HeldStaleIsTombstoned' /\ HeldOnlyWhileEmbedding'
<1> USE StoreAssumption DEF HeldStaleIsTombstoned, HeldOnlyWhileEmbedding, TypeOK, NothingHeld
<1>1. CASE Daemon
  <2>1. ASSUME NEW n \in Node, NEW s \in NodeState, Replace(n, s) \/ Create(n, s) \/ Regenerate(n, s)
        PROVE  HeldStaleIsTombstoned' /\ HeldOnlyWhileEmbedding'
    BY <2>1 DEF Replace, Create, Regenerate, Tombstone, passVars
  <2>2. ASSUME NEW n \in Node, Remove(n) \/ PruneLog(n)
        PROVE  HeldStaleIsTombstoned' /\ HeldOnlyWhileEmbedding'
    BY <2>2 DEF Remove, PruneLog, Tombstone, passVars
  <2> QED
    BY <1>1, <2>1, <2>2 DEF Daemon
<1>2. ASSUME NEW m \in Model, NEW sc \in Scope, BeginPass(m, sc) \/ BeginWorkerPass(m, sc)
      PROVE  HeldStaleIsTombstoned' /\ HeldOnlyWhileEmbedding'
  BY <1>2 DEF BeginPass, BeginWorkerPass
<1>3. ASSUME NEW S \in SUBSET Node, SelectChunk(S)
      PROVE  HeldStaleIsTombstoned' /\ HeldOnlyWhileEmbedding'
  <2>1. \A n \in Node : held'[n] \in Text => held'[n] = node[n]
    BY <1>3 DEF SelectChunk, EmbedInput
  <2> QED
    BY <1>3, <2>1 DEF SelectChunk, graphVars
<1>4. ASSUME NEW S \in SUBSET Node, CommitRows(S)
      PROVE  HeldStaleIsTombstoned' /\ HeldOnlyWhileEmbedding'
  BY <1>4 DEF CommitRows, graphVars
<1>5. CASE EndPass \/ Crash
  BY <1>5 DEF EndPass, Crash, graphVars
<1>6. CASE Sweep
  BY <1>6 DEF Sweep, passVars
<1>7. CASE UNCHANGED vars
  BY <1>7 DEF vars
<1> QED
  BY <1>1, <1>2, <1>3, <1>4, <1>5, <1>6, <1>7 DEF Next, Sidecar, Progress

-----------------------------------------------------------------------------
(* The rows.                                                               *)

\* A transaction of apply_invalidation.
LEMMA InvalidateCovers ==
  ASSUME LInv, NEW ack \in BOOLEAN, Invalidate(ack), UNCHANGED <<node, pruned>>, raced' = RacedLeft
  PROVE  StaleUnlessRaced'
<1>1. node \in [Node -> NodeState] /\ tomb \in SUBSET Node /\ vec \in [Node -> [Model -> RowState]]
  BY DEF LInv, LazyTypeOK, TypeOK
<1>2. \A n \in Node, m \in Model : vec'[n][m] \in {NoRow, vec[n][m]}
  BY <1>1, InvalidatedShape DEF Invalidate
<1>3. \A n \in Node, m \in Model : node[n] = Absent => vec'[n][m] = NoRow
  BY <1>1, InvalidatedSettles DEF Invalidate
<1>4. \A n \in tomb, m \in Model : node[n] \in Text => vec'[n][m] \in {NoRow, node[n]}
  BY <1>1, InvalidatedSettles DEF Invalidate
<1> SUFFICES ASSUME NEW n \in Node, NEW m \in Model, vec'[n][m] \in Text, vec'[n][m] # node[n]
             PROVE  n \in tomb' \cup pruned \/ (m = Served /\ n \in raced')
  BY DEF StaleUnlessRaced
<1>5. vec'[n][m] = vec[n][m]
  BY <1>2, StoreAssumption
<1>6. n \in tomb \cup pruned \/ (m = Served /\ n \in raced)
  BY <1>5 DEF LInv, StaleUnlessRaced
<1>7. CASE n \in tomb
  <2>1. node[n] = NullText
    BY <1>1, <1>3, <1>4, <1>7, StoreAssumption DEF NodeState
  <2>2. HasVector(vec, n)
    BY <1>5, StoreAssumption DEF HasVector
  <2> QED
    BY <1>7, <2>1, <2>2 DEF Invalidate, Unacked
<1> QED
  BY <1>5, <1>6, <1>7 DEF RacedLeft

LEMMA ElsewhereCovers ==
  ASSUME LInv, Elsewhere(Next)
  PROVE  StaleUnlessRaced'
<1> USE StoreAssumption DEF LInv, LazyTypeOK, TypeOK
<1>1. Next /\ raced' = RacedLeft
  BY DEF Elsewhere
<1>2. CASE Daemon
  <2>1. vec' = vec /\ raced' = raced
    BY <1>1, <1>2
    DEF Daemon, Replace, Create, Regenerate, Remove, PruneLog, RacedLeft
  <2>2. ASSUME NEW k \in Node, NEW s \in NodeState, Replace(k, s) \/ Create(k, s) \/ Regenerate(k, s)
        PROVE  StaleUnlessRaced'
    BY <2>1, <2>2 DEF StaleUnlessRaced, Replace, Create, Regenerate, Tombstone
  <2>3. ASSUME NEW k \in Node, Remove(k) \/ PruneLog(k)
        PROVE  StaleUnlessRaced'
    BY <2>1, <2>3 DEF StaleUnlessRaced, Remove, PruneLog, Tombstone
  <2> QED
    BY <1>2, <2>2, <2>3 DEF Daemon
<1>3. ASSUME NEW m \in Model, NEW sc \in Scope, BeginPass(m, sc) PROVE StaleUnlessRaced'
  BY <1>1, <1>3, InvalidateCovers DEF BeginPass
<1>4. CASE Sweep
  BY <1>1, <1>4, InvalidateCovers DEF Sweep
<1>5. ASSUME NEW S \in SUBSET Node, CommitRows(S) PROVE StaleUnlessRaced'
  <2> SUFFICES ASSUME NEW n \in Node, NEW m \in Model, vec'[n][m] \in Text, vec'[n][m] # node[n]
               PROVE  n \in tomb \cup pruned \/ (m = Served /\ n \in raced')
    BY <1>5 DEF StaleUnlessRaced, CommitRows, graphVars
  <2>1. CASE n \in S /\ m = cur
    <3>1. vec'[n][m] = held[n]
      BY <1>5, <2>1 DEF CommitRows
    <3> QED
      BY <3>1 DEF HeldStaleIsTombstoned
  <2>2. CASE ~ (n \in S /\ m = cur)
    <3>1. vec'[n][m] = vec[n][m]
      BY <1>5, <2>2 DEF CommitRows
    <3> QED
      BY <1>1, <3>1 DEF StaleUnlessRaced, RacedLeft
  <2> QED
    BY <2>1, <2>2
<1>6. CASE \/ \E m \in Model, sc \in Scope : BeginWorkerPass(m, sc)
           \/ \E S \in SUBSET Node : SelectChunk(S)
           \/ EndPass \/ Crash
  <2>1. UNCHANGED <<node, tomb, pruned, vec>>
    BY <1>6 DEF BeginWorkerPass, SelectChunk, EndPass, Crash, graphVars
  <2>2. raced' = raced
    BY <1>1, <2>1 DEF RacedLeft
  <2> QED
    BY <2>1, <2>2 DEF StaleUnlessRaced
<1> QED
  BY <1>1, <1>2, <1>3, <1>4, <1>5, <1>6 DEF Next, Sidecar, Progress

\* A query inserts a row that matches its node, or one that is late.
LEMMA PersistCovers ==
  ASSUME LInv, NEW q \in Query, LazyPersist(q)
  PROVE  StaleUnlessRaced'
<1> USE StoreAssumption DEF LInv, LazyTypeOK, TypeOK
<1> SUFFICES ASSUME NEW n \in Node, NEW m \in Model, vec'[n][m] \in Text, vec'[n][m] # node[n]
             PROVE  n \in tomb \cup pruned \/ (m = Served /\ n \in raced')
  BY DEF StaleUnlessRaced, LazyPersist, graphVars
<1>1. CASE n \in Inserted(lazy[q]) /\ m = Served
  <2>1. vec'[n][m] = lazy[q][n]
    BY <1>1, LazyAssumption DEF LazyPersist
  <2>2. lazy[q][n] # EmbedInput(node[n])
    BY <2>1 DEF EmbedInput
  <2> QED
    BY <1>1, <2>2 DEF LazyPersist
<1>2. CASE ~ (n \in Inserted(lazy[q]) /\ m = Served)
  <2>1. vec'[n][m] = vec[n][m]
    BY <1>2, LazyAssumption DEF LazyPersist
  <2> QED
    BY <2>1 DEF StaleUnlessRaced, LazyPersist, RacedLeft
<1> QED
  BY <1>1, <1>2

-----------------------------------------------------------------------------
(* The theorems.                                                           *)

LEMMA LInvInit == LazyInit => LInv
<1> SUFFICES ASSUME LazyInit PROVE LInv
  OBVIOUS
<1>1. IInv
  BY IInvInit DEF LazyInit
<1>2. LazyTypeOK
  BY <1>1 DEF IInv, LazyInit, LazyTypeOK, NothingHeld
<1> QED
  BY <1>1, <1>2 DEF LInv, IInv, StaleIsTombstoned, StaleUnlessRaced

LEMMA LInvStep == LInv /\ [LazyNext]_lvars => LInv'
<1> SUFFICES ASSUME LInv, [LazyNext]_lvars PROVE LInv'
  OBVIOUS
<1>1. LazyTypeOK'
  BY LazyTypeStep DEF LInv
<1>2. CASE Elsewhere(Next)
  BY <1>1, <1>2, HeldStep, ElsewhereCovers DEF LInv, LazyTypeOK, Elsewhere
<1>3. ASSUME NEW q \in Query, LazyPersist(q) PROVE LInv'
  <2>1. UNCHANGED <<node, tomb, pruned, pass, held>>
    BY <1>3 DEF LazyPersist, graphVars, passVars
  <2> QED
    BY <1>1, <1>3, <2>1, PersistCovers
    DEF LInv, HeldStaleIsTombstoned, HeldOnlyWhileEmbedding, NothingHeld
<1>4. CASE UNCHANGED <<vars, raced>>
  BY <1>1, <1>4
  DEF LInv, vars, StaleUnlessRaced, HeldStaleIsTombstoned, HeldOnlyWhileEmbedding, NothingHeld
<1> QED
  BY <1>2, <1>3, <1>4 DEF LazyNext, Serving, LazyRead, LazyDrop, lvars

LEMMA LazyInductive == LazySpec => []LInv
<1>1. QED
  BY LInvInit, LInvStep, PTL DEF LazySpec

\* Every variable of the store, the pass and the queries keeps its type.
THEOREM LazyTypeCorrect == LazySpec => []LazyTypeOK
<1>1. LInv => LazyTypeOK
  BY DEF LInv
<1> QED
  BY <1>1, LazyInductive, PTL

\* However queries and passes interleave, a row of an outdated text is covered
\* by a tombstone unless a query inserted it late.
THEOREM StaleCoveredUnlessRaced == LazySpec => []StaleUnlessRaced
<1>1. LInv => StaleUnlessRaced
  BY DEF LInv
<1> QED
  BY <1>1, LazyInductive, PTL

FreshRowsStay ==
  \A n \in Node, m \in Model :
    /\ vec[n][m] = node[n] /\ node'[n] = node[n]
    /\ m # cur \/ held[n] = NoRow
    => vec'[n][m] = vec[n][m]

LEMMA FreshRowsStayStep == LInv /\ [LazyNext]_lvars => FreshRowsStay
<1> SUFFICES ASSUME LInv, [LazyNext]_lvars,
                    NEW n \in Node, NEW m \in Model,
                    vec[n][m] = node[n], m # cur \/ held[n] = NoRow
             PROVE  vec'[n][m] = vec[n][m]
  BY DEF FreshRowsStay
<1>t. node \in [Node -> NodeState] /\ tomb \in SUBSET Node /\ vec \in [Node -> [Model -> RowState]]
  BY DEF LInv, LazyTypeOK, TypeOK
<1>1. node[n] \in Text /\ vec[n][m] # NoRow
  BY <1>t, StoreAssumption DEF NodeState, RowState, Digest
<1>2. ASSUME NEW ack \in BOOLEAN, Invalidate(ack) PROVE vec'[n][m] = vec[n][m]
  <2>1. Invalidated(node, tomb, vec)[n][m] = vec[n][m] \/ vec[n][m] = NoRow \/ node[n] = Absent
    BY <1>t, InvalidatedKeepsFresh
  <2> QED
    BY <1>1, <1>2, <2>1, StoreAssumption DEF Invalidate
<1> USE StoreAssumption DEF LInv, LazyTypeOK, TypeOK
<1>3. ASSUME NEW S \in SUBSET Node, CommitRows(S) PROVE vec'[n][m] = vec[n][m]
  BY <1>3 DEF CommitRows
<1>4. ASSUME NEW q \in Query, LazyPersist(q) PROVE vec'[n][m] = vec[n][m]
  BY <1>1, <1>4 DEF LazyPersist, Inserted
<1>5. CASE Daemon
  BY <1>5 DEF Daemon, Replace, Create, Regenerate, Remove, PruneLog
<1>6. CASE Sidecar
  BY <1>2, <1>3, <1>6
  DEF Sidecar, Progress, BeginPass, BeginWorkerPass, SelectChunk, EndPass, Sweep, Crash
<1> QED
  BY <1>4, <1>5, <1>6 DEF LazyNext, Elsewhere, Next, Serving, LazyRead, LazyDrop, lvars, vars

\* A row that matches its node's text goes, while the node stays as it is, only
\* by a pass that read the node before the row was there.
THEOREM FreshRowsStayUnlessHeld == LazySpec => FreshUnlessHeld
<1>1. LInv /\ [LazyNext]_lvars => [FreshRowsStay]_lvars
  BY FreshRowsStayStep
<1> QED
  BY <1>1, LazyInductive, PTL DEF LazySpec, FreshUnlessHeld, FreshRowsStay
=============================================================================
