--------------------------- MODULE ParallelProofs ---------------------------
(***************************************************************************)
(* Proofs about reindex_parallel, for every number of workers and batches, *)
(* every set of nodes, texts and models and every chunk size.              *)
(*                                                                         *)
(* ParallelSpec implements Freshness, so that what FreshnessProofs proves  *)
(* of a pass holds of a run with threads: instance P brings those theorems *)
(* over.  Both that and the properties of the queue rest on PInv, which    *)
(* accounts for the items of a chunk: those behind the counter are in one  *)
(* worker's hands or committed, until a worker fails or a cancel drains    *)
(* the queue. The last part shows that a run takes finitely many steps.    *)
(***************************************************************************)
EXTENDS ParallelReindex, FiniteSetTheorems, WellFoundedInduction, TLAPS

P == INSTANCE FreshnessProofs WITH
       pass <- IF step \in InPass THEN "embedding" ELSE "idle",
       scope <- IF step \in InPass THEN scope ELSE {},
       held <- [n \in Node |-> IF n \in Unsaved THEN text[n] ELSE NoRow]

InChunk == {"work", "join"}

MainTypes ==
  /\ step \in InPass \cup {"idle", "checkpoint", "rebuild"}
  /\ removed \in BOOLEAN /\ cancelled \in BOOLEAN /\ sentinel \in BOOLEAN
  /\ unindexed \in BOOLEAN
  /\ outcome \in {"none", "nothing", "rebuilt", "cancelled", "failed", "died"}

ChunkTypes ==
  /\ batch \in Seq((SUBSET Node) \ {{}})
  /\ next \in Nat \ {0}
  /\ wpc \in [Worker -> {"off", "claim", "embed", "flush", "tail", "done", "failed"}]
  /\ got \in [Worker -> 0 .. Len(batch)]
  /\ buf \in [Worker -> SUBSET Node]
  /\ watcher \in {"off", "polling", "seen", "drained"}

\* The flag is raised while a chunk is worked on, and ends the loop.
CancelledEndsLoop == cancelled => step \notin {"idle", "count", "select"}

\* Outside its chunk loop a run has no chunk, no worker and no watcher.
ChunkOnlyInLoop == step \notin InChunk => NoChunk /\ watcher = "off"

BatchesDisjoint ==
  \A i, j \in 1 .. Len(batch) : i # j => batch[i] \cap batch[j] = {}

\* Every item of the chunk has the text that was read for it.
ItemsRead == \A n \in Items : text[n] # NoRow

\* The items of the batches behind the counter.
Claimed == UNION {batch[i] : i \in {j \in 1 .. Len(batch) : j < next}}

\* Only what was claimed is in a buffer, committed or being embedded.
HandsClaimed ==
  /\ saved \subseteq Claimed
  /\ \A w \in Worker : buf[w] \subseteq Claimed /\ got[w] < next
  /\ \A w \in Worker : wpc[w] = "embed" => got[w] \in 1 .. Len(batch)

\* A worker that is not running has nothing in its buffer.
GoneHandsEmpty == \A w \in Worker : wpc[w] \in {"off", "done", "failed"} => buf[w] = {}

\* A worker leaves, and a cancel is announced, only when the queue is empty.
QueueExhausted ==
  (\E w \in Worker : wpc[w] \in {"tail", "done"}) \/ cancelled \/ watcher = "drained" =>
    next > Len(batch)

\* Until a worker fails or the queue is drained, each claimed batch is in some
\* worker's hands or committed.
ClaimedIsKept ==
  (\A w \in Worker : wpc[w] # "failed") /\ ~ cancelled /\ watcher # "drained" =>
    \A i \in 1 .. Len(batch) :
      i < next => batch[i] \subseteq saved \/ \E w \in Worker : batch[i] \subseteq InHand(w)

\* A chunk has a worker.
ChunkHasWorker == step \in InChunk => \E w \in Worker : wpc[w] # "off"

\* The main thread has joined all workers before it turns to the watcher.
WorkersJoined == step = "join" => Alive = {}

\* Each worker steps the counter past the last batch at most once.
Overdrawn == {w \in Worker : wpc[w] \in {"tail", "done", "failed"}}
CounterBounded == next <= Len(batch) + 1 + Cardinality(Overdrawn)

ChunkInv ==
  /\ ChunkTypes /\ BatchesDisjoint /\ ItemsRead /\ HandsClaimed /\ GoneHandsEmpty
  /\ ClaimedOnce /\ QueueExhausted /\ ClaimedIsKept /\ ChunkHasWorker /\ CounterBounded

PInv == MainTypes /\ CancelledEndsLoop /\ ChunkOnlyInLoop /\ WorkersJoined /\ ChunkInv

-----------------------------------------------------------------------------
(* Sequences of batches.                                                   *)

LEMMA UnionOfBatches ==
  ASSUME NEW T, NEW q \in Seq(T)
  PROVE  \A n : n \in UNION Range(q) <=> \E i \in 1 .. Len(q) : n \in q[i]
BY DEF Range

\* A cut of S is a non-empty sequence of disjoint non-empty parts of S.
LEMMA CutIsPartition ==
  ASSUME NEW S \in SUBSET Node, NEW q \in BatchesOf(S)
  PROVE  /\ q \in Seq((SUBSET Node) \ {{}}) /\ Len(q) \in Nat \ {0}
         /\ UNION Range(q) = S
         /\ \A i, j \in 1 .. Len(q) : i # j => q[i] \cap q[j] = {}
<1>1. Cardinality(S) \in Nat
  BY FS_Subset, FS_CardinalityType, ParallelAssumption
<1>2. PICK k \in 1 .. Cardinality(S) : q \in [1 .. k -> (SUBSET S) \ {{}}]
  BY DEF BatchesOf
<1>3. k \in Nat \ {0} /\ q \in Seq((SUBSET S) \ {{}}) /\ Len(q) = k
  BY <1>1, <1>2
<1>4. q \in Seq((SUBSET Node) \ {{}})
  BY <1>2, <1>3
<1>5. DOMAIN q = 1 .. Len(q)
  BY <1>3
<1> QED
  BY <1>3, <1>4, <1>5 DEF BatchesOf

\* choose_workers never leaves a chunk without a worker.
LEMMA WorkersNonEmpty ==
  ASSUME NEW n \in Nat \ {0}, NEW W \in Workers(n)
  PROVE  W \in SUBSET Worker /\ W # {}
<1>1. Cardinality(Worker) \in Nat \ {0}
  BY ParallelAssumption, FS_CardinalityType, FS_EmptySet
<1>2. Cardinality(W) # 0
  BY <1>1 DEF Workers
<1> QED
  BY <1>2, FS_EmptySet DEF Workers

-----------------------------------------------------------------------------
(* Steps outside the chunk loop.                                           *)

Resting == step \notin InChunk /\ NoChunk /\ watcher = "off"

\* Without a chunk there is nothing to account for.
LEMMA RestingChunkInv == Resting => ChunkInv
<1> SUFFICES ASSUME Resting PROVE ChunkInv
  OBVIOUS
<1>1. batch = <<>> /\ Len(batch) = 0 /\ Items = {}
  BY DEF Resting, NoChunk, Items, Range
<1>2. Cardinality(Overdrawn) = 0
  <2>1. Overdrawn = {}
    BY DEF Resting, NoChunk, Overdrawn
  <2> QED
    BY <2>1, FS_EmptySet
<1> QED
  BY <1>1, <1>2
  DEF Resting, NoChunk, ChunkInv, ChunkTypes, BatchesDisjoint, ItemsRead, Claimed, HandsClaimed,
      GoneHandsEmpty, ClaimedOnce, InHand, QueueExhausted, ClaimedIsKept, ChunkHasWorker,
      CounterBounded, InChunk

LEMMA RestingKeeps ==
  ASSUME Resting', MainTypes', CancelledEndsLoop'
  PROVE  PInv'
<1>1. ChunkInv'
  BY RestingChunkInv, PTL
<1> QED
  BY <1>1 DEF PInv, Resting, ChunkOnlyInLoop, WorkersJoined, InChunk

LEMMA PInvInit == ParallelInit => PInv
BY RestingChunkInv
DEF ParallelInit, Resting, PInv, MainTypes, CancelledEndsLoop, ChunkOnlyInLoop, WorkersJoined, InPass,
    InChunk

LEMMA MainStepKeeps ==
  ASSUME PInv,
         \/ \E m \in Model, sc \in Scope : StartRun(m, sc)
         \/ CountPending \/ EndLoop \/ Rebuild
         \/ \E r \in BOOLEAN : AfterLoop(r)
  PROVE  PInv'
<1>1. step \notin InChunk /\ NoChunk /\ watcher = "off"
  BY DEF PInv, ChunkOnlyInLoop, StartRun, CountPending, EndLoop, Rebuild, AfterLoop, InChunk
<1>2. step' \notin InChunk /\ MainTypes' /\ CancelledEndsLoop'
  <2>1. CASE \E m \in Model, sc \in Scope : StartRun(m, sc)
    BY <2>1 DEF PInv, MainTypes, CancelledEndsLoop, StartRun, InChunk, InPass, stopVars, RemovedAny
  <2>2. CASE CountPending
    BY <2>2 DEF PInv, MainTypes, CancelledEndsLoop, CountPending, Leave, InChunk, InPass
  <2>3. CASE EndLoop
    BY <2>3 DEF PInv, MainTypes, CancelledEndsLoop, EndLoop, InChunk, InPass, stopVars
  <2>4. CASE Rebuild
    BY <2>4 DEF PInv, MainTypes, CancelledEndsLoop, Rebuild, Leave, InChunk, InPass
  <2>5. CASE \E r \in BOOLEAN : AfterLoop(r)
    BY <2>5 DEF PInv, MainTypes, CancelledEndsLoop, AfterLoop, Leave, InChunk, InPass
  <2> QED
    BY <2>1, <2>2, <2>3, <2>4, <2>5
<1>3. UNCHANGED <<chunkVars, workVars, watcher>>
  BY DEF StartRun, CountPending, EndLoop, Rebuild, AfterLoop, stopVars
<1>4. Resting'
  BY <1>1, <1>2, <1>3 DEF Resting, NoChunk, chunkVars, workVars
<1> QED
  BY <1>2, <1>4, RestingKeeps

LEMMA DropStepKeeps ==
  ASSUME PInv, JoinWatcher \/ Die
  PROVE  PInv'
<1>1. step' \notin InChunk /\ watcher' = "off" /\ MainTypes' /\ CancelledEndsLoop'
  BY DEF PInv, MainTypes, CancelledEndsLoop, JoinWatcher, WatcherGone, Die, Leave, InChunk, InPass
<1>2. NoChunk'
  BY DEF JoinWatcher, Die, DropChunk, NoChunk, NoText
<1> QED
  BY <1>1, <1>2, RestingKeeps DEF Resting

-----------------------------------------------------------------------------
(* Steps of a chunk.                                                       *)

LEMMA QuietStepKeeps ==
  ASSUME PInv,
         \/ JoinWorkers \/ WatchSee \/ WatchStop \/ RequestCancel \/ DaemonEdit
         \/ UNCHANGED pvars
  PROVE  PInv'
<1>1. UNCHANGED <<text, batch, next, wpc, got, buf, saved, cancelled>>
  BY DEF JoinWorkers, WatchSee, WatchStop, RequestCancel, DaemonEdit, pvars, chunkVars, workVars,
         stopVars
<1>2. MainTypes' /\ CancelledEndsLoop'
  <2>1. UNCHANGED <<removed, outcome, unindexed>> /\ sentinel' \in {sentinel, TRUE}
    BY DEF JoinWorkers, WatchSee, WatchStop, RequestCancel, DaemonEdit, pvars, mainVars
  <2>2. \/ step' = step
        \/ step' = "join" /\ step = "work"
    <3>1. CASE JoinWorkers
      BY <3>1 DEF JoinWorkers
    <3> QED
      BY <3>1 DEF WatchSee, WatchStop, RequestCancel, DaemonEdit, pvars, mainVars
  <2> QED
    BY <1>1, <2>1, <2>2 DEF PInv, MainTypes, CancelledEndsLoop, InPass
<1>3. /\ watcher' \in {"off", "polling", "seen", "drained"}
      /\ watcher' = "drained" <=> watcher = "drained"
      /\ watcher = "off" => watcher' = "off"
  BY DEF PInv, ChunkInv, ChunkTypes, JoinWorkers, WatchSee, WatchStop, RequestCancel,
         DaemonEdit, pvars, stopVars
<1>4. step' \in InChunk <=> step \in InChunk
  BY DEF JoinWorkers, WatchSee, WatchStop, RequestCancel, DaemonEdit, pvars, mainVars, InChunk
<1>5. ChunkOnlyInLoop' /\ WorkersJoined'
  <2>1. ChunkOnlyInLoop'
    BY <1>1, <1>3, <1>4 DEF PInv, ChunkOnlyInLoop, NoChunk, NoText
  <2>2. step' = step \/ JoinWorkers
    BY DEF WatchSee, WatchStop, RequestCancel, DaemonEdit, pvars, mainVars
  <2>3. WorkersJoined'
    BY <1>1, <2>2 DEF PInv, WorkersJoined, Alive, JoinWorkers
  <2> QED
    BY <2>1, <2>3
<1>6. ChunkInv'
  <2> USE <1>1 DEF PInv, ChunkInv
  <2>1. ChunkTypes' /\ BatchesDisjoint' /\ HandsClaimed' /\ GoneHandsEmpty'
    BY <1>3 DEF ChunkTypes, BatchesDisjoint, HandsClaimed, Claimed, GoneHandsEmpty
  <2>2. ItemsRead' /\ ClaimedOnce' /\ ChunkHasWorker' /\ CounterBounded'
    BY <1>4 DEF ItemsRead, Items, ClaimedOnce, InHand, ChunkHasWorker, CounterBounded, Overdrawn
  <2>3. QueueExhausted' /\ ClaimedIsKept'
    BY <1>3 DEF QueueExhausted, ClaimedIsKept, InHand
  <2> QED
    BY <2>1, <2>2, <2>3
<1> QED
  BY <1>2, <1>5, <1>6 DEF PInv

LEMMA DrainKeeps ==
  ASSUME PInv, WatchDrain \/ WatchCancel
  PROVE  PInv'
<1>1. step \in InChunk /\ UNCHANGED <<step, text, batch, wpc, got, buf, saved>>
  BY DEF PInv, ChunkOnlyInLoop, WatchDrain, WatchCancel, chunkVars, workVars, mainVars
<1>2. MainTypes' /\ CancelledEndsLoop' /\ ChunkOnlyInLoop' /\ WorkersJoined'
  BY <1>1 DEF PInv, MainTypes, CancelledEndsLoop, ChunkOnlyInLoop, WorkersJoined, Alive, WatchDrain,
              WatchCancel, mainVars, InChunk
<1>3. watcher' \in {"off", "drained"} /\ (cancelled' \/ watcher' = "drained")
  BY DEF WatchDrain, WatchCancel
<1>4. next' \in Nat /\ next' > Len(batch)
  BY DEF PInv, ChunkInv, ChunkTypes, QueueExhausted, WatchDrain, WatchCancel, workVars, Drained
<1>5. next' = next \/ next' = Len(batch) + 1
  BY DEF WatchDrain, WatchCancel, workVars, Drained
<1>6. ChunkInv'
  <2> USE <1>1 DEF PInv, ChunkInv
  <2>1. ChunkTypes' /\ BatchesDisjoint' /\ GoneHandsEmpty' /\ ItemsRead' /\ ClaimedOnce'
        /\ ChunkHasWorker'
    BY <1>3, <1>4 DEF ChunkTypes, BatchesDisjoint, GoneHandsEmpty, ItemsRead, Items, ClaimedOnce,
                      InHand, ChunkHasWorker
  <2>2. HandsClaimed'
    BY <1>4 DEF HandsClaimed, Claimed, ChunkTypes
  <2>3. QueueExhausted' /\ ClaimedIsKept'
    BY <1>3, <1>4 DEF QueueExhausted, ClaimedIsKept
  <2>4. CounterBounded'
    <3>1. Overdrawn' = Overdrawn /\ Cardinality(Overdrawn) \in Nat
      BY FS_Subset, FS_CardinalityType, ParallelAssumption DEF Overdrawn
    <3> QED
      BY <1>5, <3>1 DEF CounterBounded, ChunkTypes
  <2> QED
    BY <2>1, <2>2, <2>3, <2>4
<1> QED
  BY <1>2, <1>6 DEF PInv

LEMMA LoadChunkKeeps ==
  ASSUME PInv, P!TypeOK, LoadChunk
  PROVE  PInv'
<1>1. step = "select" /\ NoChunk /\ ~ cancelled
  BY DEF PInv, ChunkOnlyInLoop, CancelledEndsLoop, LoadChunk, InChunk
<1>2. PICK S \in (SUBSET Todo) \ {{}} :
        /\ text' = [n \in Node |-> IF n \in S THEN EmbedInput(node[n]) ELSE NoRow]
        /\ batch' \in BatchesOf(S)
  BY DEF LoadChunk
<1>3. S \in SUBSET Node
  BY <1>2 DEF Todo, Pending
<1>4. /\ batch' \in Seq((SUBSET Node) \ {{}}) /\ Len(batch') \in Nat \ {0}
      /\ UNION Range(batch') = S
      /\ \A i, j \in 1 .. Len(batch') : i # j => batch'[i] \cap batch'[j] = {}
  BY <1>2, <1>3, CutIsPartition
<1>5. PICK W \in SUBSET Worker : W # {} /\ wpc' = [w \in Worker |-> IF w \in W THEN "claim" ELSE "off"]
  BY <1>4, WorkersNonEmpty DEF LoadChunk
<1>6. /\ next' = 1 /\ watcher' = "polling" /\ step' = "work" /\ cancelled' = FALSE
      /\ got' = [w \in Worker |-> 0] /\ buf' = [w \in Worker |-> {}] /\ saved' = {}
  BY <1>1 DEF LoadChunk, NoChunk, PInv, MainTypes
<1>7. MainTypes' /\ CancelledEndsLoop' /\ ChunkOnlyInLoop' /\ WorkersJoined'
  BY <1>6 DEF PInv, MainTypes, CancelledEndsLoop, ChunkOnlyInLoop, WorkersJoined, LoadChunk, InPass,
              InChunk
<1>8. ItemsRead'
  <2>1. \A n \in S : EmbedInput(node[n]) # NoRow
    BY <1>2, StoreAssumption DEF Todo, Pending, Eligible, EmbedInput, P!TypeOK, P!NodeState
  <2> QED
    BY <1>2, <1>3, <1>4, <2>1 DEF ItemsRead, Items
<1>9. ChunkTypes' /\ BatchesDisjoint' /\ GoneHandsEmpty'
  BY <1>4, <1>5, <1>6 DEF ChunkTypes, BatchesDisjoint, GoneHandsEmpty
<1>10. HandsClaimed' /\ ClaimedOnce' /\ QueueExhausted'
  BY <1>5, <1>6 DEF HandsClaimed, ClaimedOnce, InHand, QueueExhausted
<1>11. ClaimedIsKept' /\ ChunkHasWorker'
  BY <1>5, <1>6 DEF ClaimedIsKept, ChunkHasWorker
<1>12. CounterBounded'
  <2>1. Overdrawn' = {}
    BY <1>5 DEF Overdrawn
  <2> QED
    BY <1>4, <1>6, <2>1, FS_EmptySet DEF CounterBounded
<1> QED
  BY <1>7, <1>8, <1>9, <1>10, <1>11, <1>12 DEF PInv, ChunkInv

-----------------------------------------------------------------------------
(* Steps of a worker.                                                      *)

\* A worker runs only while the main thread waits for the workers.
LEMMA RunningInWork ==
  ASSUME PInv, NEW w \in Worker, wpc[w] \notin {"off", "done", "failed"}
  PROVE  step = "work"
BY DEF PInv, ChunkOnlyInLoop, NoChunk, WorkersJoined, Alive, InChunk

\* A worker step leaves the main thread and the watcher alone.
LEMMA WorkerFrame ==
  ASSUME PInv, NEW w \in Worker, WorkerStep(w)
  PROVE  /\ UNCHANGED <<step, text, batch, cancelled, watcher>> /\ step = "work"
         /\ MainTypes' /\ CancelledEndsLoop' /\ ChunkOnlyInLoop' /\ WorkersJoined'
<1>1. step = "work"
  BY RunningInWork DEF WorkerStep, Claim, Embed, Flush, FlushTail, Fail
<1>2. UNCHANGED <<step, text, batch, cancelled, watcher, removed, outcome, sentinel>>
  BY DEF WorkerStep, Claim, Embed, Flush, FlushTail, Fail, Commit, mainVars, chunkVars, stopVars
<1>3. unindexed' \in BOOLEAN
  <2>1. unindexed' = unindexed \/ unindexed' \in BOOLEAN
    BY DEF WorkerStep, Claim, Embed, Flush, FlushTail, Fail, Commit
  <2> QED
    BY <2>1 DEF PInv, MainTypes
<1> QED
  BY <1>1, <1>2, <1>3
  DEF PInv, MainTypes, CancelledEndsLoop, ChunkOnlyInLoop, WorkersJoined, InChunk

\* The counter moves on: the batch it stood at is in nobody's hands yet.
LEMMA ClaimKeeps ==
  ASSUME PInv, NEW w \in Worker, Claim(w)
  PROVE  PInv'
<1> USE DEF PInv, ChunkInv
<1>1. /\ UNCHANGED <<step, text, batch, cancelled, watcher>> /\ step = "work"
      /\ MainTypes' /\ CancelledEndsLoop' /\ ChunkOnlyInLoop' /\ WorkersJoined'
  BY WorkerFrame DEF WorkerStep
<1>2. next' = next + 1 /\ UNCHANGED <<buf, saved>> /\ wpc[w] = "claim"
  BY DEF Claim, NextAfter
<1>3. ItemsRead' /\ BatchesDisjoint'
  BY <1>1 DEF ItemsRead, Items, BatchesDisjoint
<1>4. CASE next <= Len(batch)
  <2>1. /\ got' = [got EXCEPT ![w] = next] /\ wpc' = [wpc EXCEPT ![w] = "embed"]
        /\ next \in 1 .. Len(batch)
    BY <1>4 DEF Claim, ChunkTypes
  <2>2. batch[next] \cap Claimed = {}
    BY <2>1 DEF BatchesDisjoint, Claimed
  <2>3. ChunkTypes' /\ GoneHandsEmpty'
    BY <1>1, <1>2, <2>1 DEF ChunkTypes, GoneHandsEmpty
  <2>4. HandsClaimed'
    <3>1. Claimed \subseteq Claimed'
      BY <1>1, <1>2 DEF Claimed, ChunkTypes
    <3> QED
      BY <1>1, <1>2, <2>1, <3>1 DEF HandsClaimed, ChunkTypes
  <2>5. \A v \in Worker \ {w} : InHand(v)' = InHand(v)
    BY <1>1, <1>2, <2>1 DEF InHand, ChunkTypes
  <2>6. InHand(w) = buf[w] /\ InHand(w)' = buf[w] \cup batch[next]
    BY <1>1, <1>2, <2>1 DEF InHand, ChunkTypes
  <2>7. \A v \in Worker : InHand(v) \subseteq Claimed
    BY DEF InHand, HandsClaimed, Claimed
  <2>8. ClaimedOnce'
    <3>1. \A v \in Worker : InHand(v)' \cap saved' = {}
      BY <1>2, <2>2, <2>5, <2>6 DEF ClaimedOnce, HandsClaimed
    <3>2. \A v \in Worker : wpc'[v] = "embed" => buf'[v] \cap batch'[got'[v]] = {}
      BY <1>1, <1>2, <2>1, <2>2 DEF ClaimedOnce, HandsClaimed, ChunkTypes
    <3>3. \A u, v \in Worker : u # v => InHand(u)' \cap InHand(v)' = {}
      BY <2>2, <2>5, <2>6, <2>7 DEF ClaimedOnce
    <3> QED
      BY <3>1, <3>2, <3>3 DEF ClaimedOnce
  <2>9. QueueExhausted'
    BY <1>1, <1>2, <2>1 DEF QueueExhausted, ChunkTypes
  <2>10. ClaimedIsKept'
    <3> SUFFICES ASSUME \A v \in Worker : wpc'[v] # "failed", ~ cancelled, watcher # "drained",
                        NEW i \in 1 .. Len(batch), i < next + 1
                 PROVE  batch[i] \subseteq saved \/ \E v \in Worker : batch[i] \subseteq InHand(v)'
      BY <1>1, <1>2 DEF ClaimedIsKept
    <3>1. \A v \in Worker : wpc[v] # "failed"
      BY <1>2, <2>1 DEF ChunkTypes
    <3>2. i < next \/ i = next
      BY <2>1
    <3> QED
      BY <2>5, <2>6, <3>1, <3>2 DEF ClaimedIsKept
  <2>11. ChunkHasWorker'
    BY <2>1 DEF ChunkHasWorker, ChunkTypes
  <2>12. CounterBounded'
    <3>1. Cardinality(Overdrawn') \in Nat
      BY FS_Subset, FS_CardinalityType, ParallelAssumption DEF Overdrawn
    <3> QED
      BY <1>1, <1>2, <1>4, <3>1 DEF CounterBounded, ChunkTypes
  <2> QED
    BY <1>1, <1>3, <2>3, <2>4, <2>8, <2>9, <2>10, <2>11, <2>12
<1>5. CASE next > Len(batch)
  <2>1. UNCHANGED got /\ wpc' = [wpc EXCEPT ![w] = "tail"]
    BY <1>5 DEF Claim, ChunkTypes
  <2>2. ChunkTypes' /\ GoneHandsEmpty' /\ HandsClaimed'
    <3>1. Claimed' = Claimed
      BY <1>1, <1>2, <1>5 DEF Claimed, ChunkTypes
    <3> QED
      BY <1>1, <1>2, <2>1, <3>1 DEF ChunkTypes, GoneHandsEmpty, HandsClaimed
  <2>3. \A v \in Worker : InHand(v)' = InHand(v)
    BY <1>1, <1>2, <2>1 DEF InHand, ChunkTypes
  <2>4. ClaimedOnce'
    BY <1>1, <1>2, <2>1, <2>3 DEF ClaimedOnce, ChunkTypes
  <2>5. QueueExhausted' /\ ClaimedIsKept'
    BY <1>1, <1>2, <1>5, <2>1, <2>3 DEF QueueExhausted, ClaimedIsKept, ChunkTypes
  <2>6. ChunkHasWorker'
    BY <2>1 DEF ChunkHasWorker, ChunkTypes
  <2>7. CounterBounded'
    <3>1. Overdrawn' = Overdrawn \cup {w} /\ w \notin Overdrawn
      BY <1>2, <2>1 DEF Overdrawn, ChunkTypes
    <3>2. IsFiniteSet(Overdrawn)
      BY FS_Subset, ParallelAssumption DEF Overdrawn
    <3>3. Cardinality(Overdrawn') = Cardinality(Overdrawn) + 1 /\ Cardinality(Overdrawn) \in Nat
      BY <3>1, <3>2, FS_AddElement, FS_CardinalityType
    <3> QED
      BY <1>1, <1>2, <3>3 DEF CounterBounded, ChunkTypes
  <2> QED
    BY <1>1, <1>3, <2>2, <2>4, <2>5, <2>6, <2>7
<1> QED
  BY <1>4, <1>5 DEF ChunkTypes

\* What was being embedded is in the buffer: the worker's hands hold the same.
LEMMA EmbedKeeps ==
  ASSUME PInv, NEW w \in Worker, Embed(w)
  PROVE  PInv'
<1> USE DEF PInv, ChunkInv
<1>1. /\ UNCHANGED <<step, text, batch, cancelled, watcher>> /\ step = "work"
      /\ MainTypes' /\ CancelledEndsLoop' /\ ChunkOnlyInLoop' /\ WorkersJoined'
  BY WorkerFrame DEF WorkerStep
<1>2. /\ wpc[w] = "embed" /\ UNCHANGED <<next, got, saved>>
      /\ buf' = [buf EXCEPT ![w] = buf[w] \cup batch[got[w]]]
  BY DEF Embed
<1>3. PICK due \in {"claim", "flush"} : wpc' = [wpc EXCEPT ![w] = due]
  BY DEF Embed
<1>4. got[w] \in 1 .. Len(batch) /\ got[w] < next /\ batch[got[w]] \in SUBSET Node
  BY <1>2 DEF HandsClaimed, ChunkTypes
<1>5. \A v \in Worker : InHand(v)' = InHand(v)
  BY <1>1, <1>2, <1>3 DEF InHand, ChunkTypes
<1>6. ItemsRead' /\ BatchesDisjoint' /\ ChunkTypes' /\ GoneHandsEmpty'
  BY <1>1, <1>2, <1>3, <1>4 DEF ItemsRead, Items, BatchesDisjoint, ChunkTypes, GoneHandsEmpty
<1>7. HandsClaimed'
  <2>1. Claimed' = Claimed /\ batch[got[w]] \subseteq Claimed
    BY <1>1, <1>2, <1>4 DEF Claimed
  <2> QED
    BY <1>1, <1>2, <1>3, <2>1 DEF HandsClaimed, ChunkTypes
<1>8. ClaimedOnce'
  BY <1>1, <1>2, <1>3, <1>5 DEF ClaimedOnce, ChunkTypes
<1>9. QueueExhausted' /\ ClaimedIsKept'
  BY <1>1, <1>2, <1>3, <1>5 DEF QueueExhausted, ClaimedIsKept, ChunkTypes
<1>10. ChunkHasWorker'
  BY <1>3 DEF ChunkHasWorker, ChunkTypes
<1>11. CounterBounded'
  <2>1. Overdrawn' = Overdrawn
    BY <1>2, <1>3 DEF Overdrawn, ChunkTypes
  <2> QED
    BY <1>1, <1>2, <2>1 DEF CounterBounded
<1> QED
  BY <1>1, <1>6, <1>7, <1>8, <1>9, <1>10, <1>11

\* The buffer of w becomes committed, and w goes on to "claim" or is done.
LEMMA CommitKeeps ==
  ASSUME PInv, NEW w \in Worker, Flush(w) \/ FlushTail(w)
  PROVE  PInv'
<1> USE DEF PInv, ChunkInv
<1>1. /\ UNCHANGED <<step, text, batch, cancelled, watcher>> /\ step = "work"
      /\ MainTypes' /\ CancelledEndsLoop' /\ ChunkOnlyInLoop' /\ WorkersJoined'
  BY WorkerFrame DEF WorkerStep
<1>2. /\ UNCHANGED <<next, got>> /\ saved' = saved \cup buf[w]
      /\ buf' = [buf EXCEPT ![w] = {}]
  BY DEF Flush, FlushTail, Commit, TailOf
<1>3. \/ wpc[w] = "flush" /\ wpc' = [wpc EXCEPT ![w] = "claim"]
      \/ wpc[w] = "tail" /\ wpc' = [wpc EXCEPT ![w] = "done"]
  BY DEF Flush, FlushTail
<1>4. \A v \in Worker \ {w} : InHand(v)' = InHand(v)
  BY <1>1, <1>2, <1>3 DEF InHand, ChunkTypes
<1>5. InHand(w) = buf[w] /\ InHand(w)' = {}
  BY <1>1, <1>2, <1>3 DEF InHand, ChunkTypes
<1>6. ItemsRead' /\ BatchesDisjoint' /\ ChunkTypes' /\ GoneHandsEmpty'
  BY <1>1, <1>2, <1>3 DEF ItemsRead, Items, BatchesDisjoint, ChunkTypes, GoneHandsEmpty
<1>7. HandsClaimed'
  <2>1. Claimed' = Claimed
    BY <1>1, <1>2 DEF Claimed
  <2> QED
    BY <1>1, <1>2, <1>3, <2>1 DEF HandsClaimed, ChunkTypes
<1>8. ClaimedOnce'
  <2>1. \A v \in Worker : InHand(v)' \cap saved' = {}
    BY <1>2, <1>4, <1>5 DEF ClaimedOnce
  <2>2. \A v \in Worker : wpc'[v] = "embed" => buf'[v] \cap batch'[got'[v]] = {}
    BY <1>1, <1>2, <1>3 DEF ClaimedOnce, ChunkTypes
  <2>3. \A u, v \in Worker : u # v => InHand(u)' \cap InHand(v)' = {}
    BY <1>4, <1>5 DEF ClaimedOnce
  <2> QED
    BY <2>1, <2>2, <2>3 DEF ClaimedOnce
<1>9. QueueExhausted'
  BY <1>1, <1>2, <1>3 DEF QueueExhausted, ChunkTypes
<1>10. ClaimedIsKept'
  <2> SUFFICES ASSUME \A v \in Worker : wpc'[v] # "failed", ~ cancelled, watcher # "drained",
                      NEW i \in 1 .. Len(batch), i < next
               PROVE  batch[i] \subseteq saved' \/ \E v \in Worker : batch[i] \subseteq InHand(v)'
    BY <1>1, <1>2 DEF ClaimedIsKept
  <2>1. \A v \in Worker : wpc[v] # "failed"
    BY <1>3 DEF ChunkTypes
  <2> QED
    BY <1>2, <1>4, <1>5, <2>1 DEF ClaimedIsKept
<1>11. ChunkHasWorker'
  BY <1>3 DEF ChunkHasWorker, ChunkTypes
<1>12. CounterBounded'
  <2>1. Overdrawn' = Overdrawn
    BY <1>3 DEF Overdrawn, ChunkTypes
  <2> QED
    BY <1>1, <1>2, <2>1 DEF CounterBounded
<1> QED
  BY <1>1, <1>6, <1>7, <1>8, <1>9, <1>10, <1>11, <1>12

\* A worker that fails drops its buffer, and with it what ClaimedIsKept says.
LEMMA FailKeeps ==
  ASSUME PInv, NEW w \in Worker, Fail(w)
  PROVE  PInv'
<1> USE DEF PInv, ChunkInv
<1>1. /\ UNCHANGED <<step, text, batch, cancelled, watcher>> /\ step = "work"
      /\ MainTypes' /\ CancelledEndsLoop' /\ ChunkOnlyInLoop' /\ WorkersJoined'
  BY WorkerFrame DEF WorkerStep
<1>2. /\ UNCHANGED <<next, got, saved>> /\ buf' = [buf EXCEPT ![w] = {}]
      /\ wpc' = [wpc EXCEPT ![w] = "failed"]
  BY DEF Fail
<1>3. \A v \in Worker : InHand(v)' \subseteq InHand(v)
  BY <1>1, <1>2 DEF InHand, ChunkTypes
<1>4. ItemsRead' /\ BatchesDisjoint' /\ ChunkTypes' /\ GoneHandsEmpty'
  BY <1>1, <1>2 DEF ItemsRead, Items, BatchesDisjoint, ChunkTypes, GoneHandsEmpty
<1>5. HandsClaimed'
  <2>1. Claimed' = Claimed
    BY <1>1, <1>2 DEF Claimed
  <2> QED
    BY <1>1, <1>2, <2>1 DEF HandsClaimed, ChunkTypes
<1>6. ClaimedOnce'
  <2>1. \A v \in Worker : InHand(v)' \cap saved' = {}
    BY <1>2, <1>3 DEF ClaimedOnce
  <2>2. \A v \in Worker : wpc'[v] = "embed" => buf'[v] \cap batch'[got'[v]] = {}
    BY <1>1, <1>2 DEF ClaimedOnce, ChunkTypes
  <2>3. \A u, v \in Worker : u # v => InHand(u)' \cap InHand(v)' = {}
    BY <1>3 DEF ClaimedOnce
  <2> QED
    BY <2>1, <2>2, <2>3 DEF ClaimedOnce
<1>7. QueueExhausted' /\ ClaimedIsKept' /\ ChunkHasWorker'
  BY <1>1, <1>2 DEF QueueExhausted, ClaimedIsKept, ChunkHasWorker, ChunkTypes
<1>8. CounterBounded'
  <2>1. Overdrawn \subseteq Overdrawn' /\ IsFiniteSet(Overdrawn')
    BY <1>2, FS_Subset, ParallelAssumption DEF Overdrawn, ChunkTypes
  <2>2. Cardinality(Overdrawn) <= Cardinality(Overdrawn')
    BY <2>1, FS_Subset
  <2>3. Cardinality(Overdrawn) \in Nat /\ Cardinality(Overdrawn') \in Nat
    BY <2>1, FS_Subset, FS_CardinalityType
  <2> QED
    BY <1>1, <1>2, <2>2, <2>3 DEF CounterBounded, ChunkTypes
<1> QED
  BY <1>1, <1>4, <1>5, <1>6, <1>7, <1>8

\* PInv is inductive, given the types of the databases.
LEMMA PInvStep == PInv /\ P!TypeOK /\ [ParallelNext]_pvars => PInv'
BY MainStepKeeps, DropStepKeeps, QuietStepKeeps, DrainKeeps, LoadChunkKeeps, ClaimKeeps, EmbedKeeps,
   CommitKeeps, FailKeeps
DEF ParallelNext, Run, Main, Watcher, WorkerStep

-----------------------------------------------------------------------------
(* Each step is a step of Freshness, or changes nothing it sees.           *)

\* The assumptions of Freshness hold, so that the theorems of P can be used.
LEMMA FreshnessContext == P!StoreAssumption /\ P!FreshnessAssumption
BY StoreAssumption, ParallelAssumption

\* Instance F of the model and instance P of its theorems are the same.
LEMMA SameInit == F!Init <=> P!Init
BY DEF F!Init, P!Init, F!NodeState, P!NodeState, F!NothingHeld, P!NothingHeld

LEMMA SameCardinality ==
  ASSUME NEW S
  PROVE  F!Cardinality(S) = Cardinality(S) /\ P!Cardinality(S) = Cardinality(S)
BY DEF F!Cardinality, P!Cardinality, Cardinality

LEMMA SameFinite ==
  ASSUME NEW S
  PROVE  (F!IsFiniteSet(S) <=> IsFiniteSet(S)) /\ (P!IsFiniteSet(S) <=> IsFiniteSet(S))
BY DEF F!IsFiniteSet, P!IsFiniteSet, IsFiniteSet

LEMMA SameNext == F!Next <=> P!Next
<1>1. F!Daemon <=> P!Daemon
  BY DEF F!Daemon, F!Replace, F!Create, F!Regenerate, F!Remove, F!PruneLog, F!Tombstone, F!passVars,
         F!NodeState, P!Daemon, P!Replace, P!Create, P!Regenerate, P!Remove, P!PruneLog, P!Tombstone,
         P!passVars, P!NodeState
<1>2. ASSUME NEW ack \in BOOLEAN PROVE F!Invalidate(ack) <=> P!Invalidate(ack)
  <2>1. F!AfterCdc(node, tomb, vec) = P!AfterCdc(node, tomb, vec)
    BY DEF F!AfterCdc, F!DropStale, F!SweepOrphans, P!AfterCdc, P!DropStale, P!SweepOrphans
  <2>2. F!DropStale(DocNode, node, F!AfterCdc(node, tomb, vec))
          = P!DropStale(DocNode, node, P!AfterCdc(node, tomb, vec))
    BY <2>1 DEF F!DropStale, P!DropStale
  <2>3. F!DocSweepRuns(node, tomb, vec) <=> P!DocSweepRuns(node, tomb, vec)
    <3>1. F!DocRows(F!AfterCdc(node, tomb, vec)) = P!DocRows(P!AfterCdc(node, tomb, vec))
      BY <2>1 DEF F!DocRows, P!DocRows
    <3> QED
      BY <3>1, SameCardinality DEF F!DocSweepRuns, P!DocSweepRuns
  <2>4. F!Invalidated(node, tomb, vec) = P!Invalidated(node, tomb, vec)
    BY <2>1, <2>2, <2>3 DEF F!Invalidated, P!Invalidated
  <2>5. F!Unacked(node, tomb, vec) = P!Unacked(node, tomb, vec)
    BY DEF F!Unacked, F!HasVector, P!Unacked, P!HasVector
  <2> QED
    BY <2>3, <2>4, <2>5 DEF F!Invalidate, P!Invalidate
<1>3. F!Todo = P!Todo
  BY DEF F!Todo, F!Pending, F!Eligible, P!Todo, P!Pending, P!Eligible
<1>4. F!Progress <=> P!Progress
  <2>1. (\E m \in Model, sc \in Scope : F!BeginPass(m, sc) \/ F!BeginWorkerPass(m, sc))
          <=> (\E m \in Model, sc \in Scope : P!BeginPass(m, sc) \/ P!BeginWorkerPass(m, sc))
    BY <1>2 DEF F!BeginPass, F!BeginWorkerPass, F!graphVars, P!BeginPass, P!BeginWorkerPass,
                P!graphVars
  <2>2. ASSUME NEW S \in SUBSET Node PROVE F!SelectChunk(S) <=> P!SelectChunk(S)
    <3>1. F!NothingHeld = P!NothingHeld
      BY DEF F!NothingHeld, P!NothingHeld
    <3>2. \A n : F!EmbedInput(node[n]) = P!EmbedInput(node[n])
      BY DEF F!EmbedInput, P!EmbedInput
    <3>3. [n \in Node |-> IF n \in S THEN F!EmbedInput(node[n]) ELSE NoRow]
            = [n \in Node |-> IF n \in S THEN P!EmbedInput(node[n]) ELSE NoRow]
      BY <3>2
    <3> QED
      BY <1>3, <3>1, <3>3, SameCardinality, SameFinite
      DEF F!SelectChunk, F!graphVars, P!SelectChunk, P!graphVars
  <2>3. ASSUME NEW S \in SUBSET Node PROVE F!CommitRows(S) <=> P!CommitRows(S)
    BY DEF F!CommitRows, F!graphVars, P!CommitRows, P!graphVars
  <2>4. F!EndPass <=> P!EndPass
    BY <1>3 DEF F!EndPass, F!NothingHeld, F!graphVars, P!EndPass, P!NothingHeld, P!graphVars
  <2>5. F!Sweep <=> P!Sweep
    BY <1>2 DEF F!Sweep, F!passVars, P!Sweep, P!passVars
  <2> QED
    BY <2>1, <2>2, <2>3, <2>4, <2>5 DEF F!Progress, P!Progress
<1>5. F!Crash <=> P!Crash
  BY DEF F!Crash, F!NothingHeld, F!graphVars, P!Crash, P!NothingHeld, P!graphVars
<1> QED
  BY <1>1, <1>4, <1>5 DEF F!Next, F!Sidecar, P!Next, P!Sidecar

LEMMA SameStep == [F!Next]_(F!vars) <=> [P!Next]_(P!vars)
BY SameNext DEF F!vars, P!vars

\* What Freshness sees as held: the items of the chunk that are not committed.
LEMMA HeldIsUnsaved ==
  [n \in Node |-> IF n \in Unsaved THEN text[n] ELSE NoRow] = F!NothingHeld
    <=> \A n \in Node \cap Unsaved : text[n] = NoRow
BY DEF F!NothingHeld

\* Without a chunk nothing is held.
LEMMA NoChunkHoldsNothing ==
  ASSUME NoChunk
  PROVE  [n \in Node |-> IF n \in Unsaved THEN text[n] ELSE NoRow] = F!NothingHeld
BY DEF NoChunk, Unsaved, Items, Range, F!NothingHeld

LEMMA RefinedInit == ParallelInit => F!Init
BY NoChunkHoldsNothing DEF ParallelInit, InPass, F!Init, F!NodeState, NodeState

\* A step of the main thread outside the chunk loop.
LEMMA MainStepRefines ==
  ASSUME PInv, P!TypeOK,
         \/ \E m \in Model, sc \in Scope : StartRun(m, sc)
         \/ CountPending \/ EndLoop \/ Rebuild
         \/ \E r \in BOOLEAN : AfterLoop(r)
  PROVE  F!Next \/ UNCHANGED F!vars
<1>1. step \notin InChunk /\ NoChunk
  BY DEF PInv, ChunkOnlyInLoop, StartRun, CountPending, EndLoop, Rebuild, AfterLoop, InChunk
<1>2. UNCHANGED <<text, batch, saved>>
  BY DEF StartRun, CountPending, EndLoop, Rebuild, AfterLoop, chunkVars, workVars
<1>3. [n \in Node |-> IF n \in Unsaved THEN text[n] ELSE NoRow] = F!NothingHeld
  BY <1>1, NoChunkHoldsNothing
<1>4. UNCHANGED [n \in Node |-> IF n \in Unsaved THEN text[n] ELSE NoRow]
  BY <1>2 DEF Unsaved, Items
<1>5. ASSUME NEW m \in Model, NEW sc \in Scope, StartRun(m, sc) PROVE F!BeginPass(m, sc)
  BY <1>4, <1>5 DEF StartRun, F!BeginPass, InPass
<1>6. CASE CountPending
  <2>1. CASE step' = "select"
    BY <1>4, <1>6, <2>1 DEF CountPending, F!vars, InPass, storeVars
  <2>2. CASE step' # "select"
    <3>1. F!Crash
      BY <1>3, <1>4, <1>6, <2>2 DEF CountPending, Leave, F!Crash, F!graphVars, InPass, storeVars
    <3> QED
      BY <3>1 DEF F!Next, F!Sidecar
  <2> QED
    BY <2>1, <2>2
<1>7. CASE EndLoop
  <2>1. F!Todo = {}
    BY <1>7 DEF EndLoop, Todo, Pending, Eligible, F!Todo, F!Pending, F!Eligible, InPass
  <2>2. F!EndPass
    BY <1>3, <1>4, <1>7, <2>1 DEF EndLoop, F!EndPass, F!graphVars, InPass, storeVars
  <2> QED
    BY <2>2 DEF F!Next, F!Sidecar, F!Progress
<1>8. CASE Rebuild
  <2>1. CASE F!Invalidate(FALSE)
    <3>1. F!Sweep
      BY <1>4, <1>8, <2>1 DEF Rebuild, Leave, F!Sweep, F!passVars, InPass
    <3> QED
      BY <3>1 DEF F!Next, F!Sidecar, F!Progress
  <2>2. CASE UNCHANGED <<tomb, vec, touched>>
    BY <1>4, <1>8, <2>2 DEF Rebuild, Leave, F!vars, InPass, storeVars
  <2> QED
    BY <1>8, <2>1, <2>2 DEF Rebuild
<1>9. ASSUME NEW r \in BOOLEAN, AfterLoop(r) PROVE UNCHANGED F!vars
  BY <1>4, <1>9 DEF AfterLoop, Leave, F!vars, InPass, storeVars
<1> QED
  BY <1>5, <1>6, <1>7, <1>8, <1>9 DEF F!Next, F!Sidecar, F!Progress

\* A chunk is the chunk SELECT of Freshness.
LEMMA LoadChunkRefines ==
  ASSUME PInv, P!TypeOK, LoadChunk
  PROVE  F!Next
<1>1. step = "select" /\ NoChunk /\ saved' = {} /\ step' = "work"
  BY DEF PInv, ChunkOnlyInLoop, LoadChunk, InChunk, NoChunk
<1>2. PICK S \in (SUBSET Todo) \ {{}} :
        /\ Cardinality(S) <= ChunkRows
        /\ text' = [n \in Node |-> IF n \in S THEN EmbedInput(node[n]) ELSE NoRow]
        /\ batch' \in BatchesOf(S)
  BY DEF LoadChunk
<1>3. F!Todo = Todo /\ S \in SUBSET Node
  BY <1>1, <1>2 DEF Todo, Pending, Eligible, F!Todo, F!Pending, F!Eligible, InPass
<1>4. Unsaved' = S
  BY <1>1, <1>2, <1>3, CutIsPartition DEF Unsaved, Items
<1>5. [n \in Node |-> IF n \in Unsaved THEN text[n] ELSE NoRow]'
        = [n \in Node |-> IF n \in S THEN F!EmbedInput(node[n]) ELSE NoRow]
  BY <1>2, <1>4 DEF EmbedInput, F!EmbedInput
<1>6. UNCHANGED <<node, tomb, pruned, vec, cur, scope, touched>>
      /\ step \in InPass /\ step' \in InPass
  BY <1>1 DEF LoadChunk, storeVars, InPass
<1>7. [n \in Node |-> IF n \in Unsaved THEN text[n] ELSE NoRow] = F!NothingHeld
  BY <1>1, NoChunkHoldsNothing
<1>8. F!IsFiniteSet(S) /\ F!Cardinality(S) <= ChunkRows
  BY <1>2, <1>3, SameCardinality, SameFinite, ParallelAssumption, FS_Subset
<1>9. UNCHANGED <<F!graphVars, vec, IF step \in InPass THEN "embedding" ELSE "idle", cur,
                  IF step \in InPass THEN scope ELSE {}, touched>>
  BY <1>6 DEF F!graphVars
<1>10. (IF step \in InPass THEN "embedding" ELSE "idle") = "embedding"
  BY <1>6
<1>11. S # {} /\ S \subseteq F!Todo
  BY <1>2, <1>3
<1>12. F!SelectChunk(S)
  BY <1>5, <1>7, <1>8, <1>9, <1>10, <1>11, Zenon DEF F!SelectChunk
<1> QED
  BY <1>3, <1>12 DEF F!Next, F!Sidecar, F!Progress

\* A flush commits what Freshness holds for the items of the buffer.
LEMMA CommitRefines ==
  ASSUME PInv, P!TypeOK, NEW w \in Worker, Flush(w) \/ FlushTail(w)
  PROVE  F!Next \/ UNCHANGED F!vars
<1>1. /\ Commit(w, buf[w]) /\ UNCHANGED <<step, text, batch>>
      /\ step \in InPass
  BY WorkerFrame DEF WorkerStep, Flush, FlushTail, TailOf, InPass
<1>2. buf[w] \subseteq Unsaved /\ buf[w] \subseteq Node
  <2>1. buf[w] \subseteq Claimed /\ Claimed \subseteq Items /\ buf[w] \cap saved = {}
    BY UnionOfBatches
    DEF PInv, ChunkInv, ChunkTypes, HandsClaimed, ClaimedOnce, InHand, Claimed, Items
  <2> QED
    BY <2>1 DEF Unsaved, PInv, ChunkInv, ChunkTypes
<1>3. Unsaved' = Unsaved \ buf[w]
  BY <1>1 DEF Commit, Unsaved, Items
<1>4. [n \in Node |-> IF n \in Unsaved THEN text[n] ELSE NoRow]'
        = [n \in Node |-> IF n \in buf[w] THEN NoRow
                          ELSE [k \in Node |-> IF k \in Unsaved THEN text[k] ELSE NoRow][n]]
  BY <1>1, <1>3
<1>5. CASE buf[w] = {}
  <2>1. vec' = vec
    BY <1>1, <1>5 DEF Commit, P!TypeOK
  <2> QED
    BY <1>1, <1>3, <1>5, <2>1 DEF Commit, mainVars, F!vars
<1>6. CASE buf[w] # {}
  <2>1. \A n \in buf[w] :
          [k \in Node |-> IF k \in Unsaved THEN text[k] ELSE NoRow][n] = text[n] /\ text[n] # NoRow
    BY <1>2 DEF PInv, ChunkInv, ItemsRead, Unsaved
  <2>2. vec' = [n \in Node |->
                 IF n \in buf[w]
                   THEN [vec[n] EXCEPT ![cur] =
                           [k \in Node |-> IF k \in Unsaved THEN text[k] ELSE NoRow][n]]
                   ELSE vec[n]]
    BY <1>1, <2>1 DEF Commit
  <2>3. PICK S \in SUBSET Node : S = buf[w]
    BY <1>2
  <2>4. F!CommitRows(S)
    BY <1>1, <1>4, <1>6, <2>1, <2>2, <2>3 DEF Commit, mainVars, F!CommitRows, F!graphVars
  <2> QED
    BY <2>4 DEF F!Next, F!Sidecar, F!Progress
<1> QED
  BY <1>5, <1>6

\* When a chunk is left without an error and without a cancel, all of it is
\* committed.
LEMMA AllCommitted ==
  ASSUME PInv, step = "join",
         \A w \in Worker : wpc[w] # "failed", ~ cancelled, watcher # "drained"
  PROVE  Unsaved = {}
<1> USE DEF PInv, ChunkInv
<1>1. \A w \in Worker : wpc[w] \in {"off", "done"}
  BY DEF WorkersJoined, Alive, ChunkTypes
<1>2. next > Len(batch)
  BY <1>1 DEF QueueExhausted, ChunkHasWorker, InChunk
<1>3. \A w \in Worker : InHand(w) = {}
  BY <1>1 DEF InHand, GoneHandsEmpty
<1>4. \A i \in 1 .. Len(batch) : batch[i] \subseteq saved
  <2> TAKE i \in 1 .. Len(batch)
  <2>1. batch[i] \in (SUBSET Node) \ {{}} /\ Len(batch) \in Nat /\ next \in Nat
    BY DEF ChunkTypes
  <2> QED
    BY <1>2, <1>3, <2>1 DEF ClaimedIsKept
<1> QED
  BY <1>4, UnionOfBatches DEF ChunkTypes, Unsaved, Items

\* Leaving a chunk goes unseen when all of it is committed; otherwise what is
\* lost is what a crash of the pass loses.
LEMMA LeaveChunkRefines ==
  ASSUME PInv, JoinWatcher \/ Die
  PROVE  F!Next \/ UNCHANGED F!vars
<1>1. UNCHANGED <<node, tomb, vec, pruned, touched, cur, scope>>
  BY DEF JoinWatcher, Die, storeVars
<1>2. [n \in Node |-> IF n \in Unsaved THEN text[n] ELSE NoRow]' = F!NothingHeld
  BY DEF JoinWatcher, Die, DropChunk, Unsaved, Items, Range, F!NothingHeld
<1>3. CASE step \in InPass /\ step' \notin InPass
  <2>1. F!Crash
    BY <1>1, <1>2, <1>3 DEF F!Crash, F!graphVars
  <2> QED
    BY <2>1 DEF F!Next, F!Sidecar
<1>4. CASE step' \in InPass
  <2>1. /\ JoinWatcher /\ step = "join" /\ step' = "select" /\ ~ cancelled /\ watcher = "off"
        /\ \A w \in Worker : wpc[w] # "failed"
    BY <1>4 DEF JoinWatcher, WatcherGone, Die, Leave, InPass
  <2>2. [n \in Node |-> IF n \in Unsaved THEN text[n] ELSE NoRow] = F!NothingHeld
    BY <2>1, AllCommitted DEF F!NothingHeld
  <2> QED
    BY <1>1, <1>2, <2>1, <2>2 DEF F!vars, InPass
<1>5. CASE step \notin InPass /\ step' \notin InPass
  <2>1. [n \in Node |-> IF n \in Unsaved THEN text[n] ELSE NoRow] = F!NothingHeld
    BY <1>5, NoChunkHoldsNothing DEF PInv, ChunkOnlyInLoop, InPass, InChunk
  <2> QED
    BY <1>1, <1>2, <1>5, <2>1 DEF F!vars
<1> QED
  BY <1>3, <1>4, <1>5

\* Claims, embeddings, failures of a worker, the watcher and the sentinel are
\* not seen by Freshness; an edit of the daemon is one there.
LEMMA QuietStepRefines ==
  ASSUME PInv,
         \/ JoinWorkers \/ WatchSee \/ WatchDrain \/ WatchCancel \/ WatchStop
         \/ RequestCancel \/ DaemonEdit \/ UNCHANGED pvars
         \/ \E w \in Worker : Claim(w) \/ Embed(w) \/ Fail(w)
  PROVE  F!Next \/ UNCHANGED F!vars
<1>1. UNCHANGED <<text, batch, saved, cur, scope>> /\ (step' \in InPass <=> step \in InPass)
  BY DEF JoinWorkers, WatchSee, WatchDrain, WatchCancel, WatchStop, RequestCancel, DaemonEdit, Claim,
         Embed, Fail, pvars, mainVars, chunkVars, workVars, InPass
<1>2. UNCHANGED [n \in Node |-> IF n \in Unsaved THEN text[n] ELSE NoRow]
  BY <1>1 DEF Unsaved, Items
<1>3. CASE DaemonEdit
  BY <1>3 DEF DaemonEdit, F!Next
<1>4. CASE ~ DaemonEdit
  <2>1. UNCHANGED <<node, tomb, vec, pruned, touched>>
    BY <1>4 DEF JoinWorkers, WatchSee, WatchDrain, WatchCancel, WatchStop, RequestCancel, Claim,
                Embed, Fail, pvars, storeVars
  <2> QED
    BY <1>1, <1>2, <2>1 DEF F!vars
<1> QED
  BY <1>3, <1>4

LEMMA StepRefines == PInv /\ P!TypeOK /\ [ParallelNext]_pvars => [F!Next]_(F!vars)
BY MainStepRefines, LoadChunkRefines, CommitRefines, LeaveChunkRefines, QuietStepRefines
DEF ParallelNext, Run, Main, Watcher, WorkerStep

LEMMA StoreTypesKept == PInv /\ P!TypeOK /\ [ParallelNext]_pvars => P!TypeOK'
<1> SUFFICES ASSUME P!TypeOK, [P!Next]_(P!vars) PROVE P!TypeOK'
  BY StepRefines, SameStep
<1> QED
  BY FreshnessContext, P!TypeStep

-----------------------------------------------------------------------------
(* The theorems.                                                           *)

LEMMA ParallelInductive == ParallelSpec => [](PInv /\ P!TypeOK)
<1>1. ParallelInit => PInv /\ P!TypeOK
  <2>1. ParallelInit => P!Init
    BY RefinedInit, SameInit
  <2>2. P!Init => P!TypeOK
    BY FreshnessContext, P!TypeInit
  <2> QED
    BY <2>1, <2>2, PInvInit
<1> QED
  BY <1>1, PInvStep, StoreTypesKept, PTL DEF ParallelSpec

\* A run with any number of workers, however they interleave and whichever of
\* them fails, does to the databases what a pass of Freshness does.
THEOREM ParallelImplementsFreshness == ParallelSpec => ImplementsFreshness
<1>1. PInv /\ P!TypeOK /\ [ParallelNext]_pvars => [F!Next]_(F!vars)
  BY StepRefines
<1> QED
  BY <1>1, RefinedInit, ParallelInductive, PTL DEF ParallelSpec, ImplementsFreshness, F!Spec

\* What is proved of a pass of Freshness holds of a run with threads: stale rows
\* are tombstoned, documents are verified, orphans are swept, fresh rows survive
\* and a tombstone is acknowledged only when it is settled.
THEOREM RunKeepsStore ==
  ParallelSpec => /\ []P!StaleIsTombstoned /\ []P!StaleDocIsRecent /\ []P!OrphanIsRecent
                  /\ P!FreshRowsSurvive /\ P!AckIsSettled
<1>1. PInv /\ P!TypeOK /\ [ParallelNext]_pvars => [P!Next]_(P!vars)
  BY StepRefines, SameStep
<1>2. ParallelInit => P!Init
  BY RefinedInit, SameInit
<1>3. ParallelSpec => P!Spec
  BY <1>1, <1>2, ParallelInductive, PTL DEF ParallelSpec, P!Spec
<1>4. P!Spec => []P!StaleIsTombstoned /\ []P!StaleDocIsRecent /\ []P!OrphanIsRecent
  BY FreshnessContext, P!StaleCovered, P!DocsVerified, P!OrphansSwept
<1>5. P!Spec => P!FreshRowsSurvive /\ P!AckIsSettled
  BY FreshnessContext, P!FreshRowsAreKept, P!AcksAreSettled
<1> QED
  BY <1>3, <1>4, <1>5

\* Every variable of a run keeps its type, and the batch counter is stepped past
\* the last batch at most once by each worker.
THEOREM ParallelTypeCorrect == ParallelSpec => []ParallelTypeOK
<1>1. ASSUME PInv, P!TypeOK PROVE ParallelTypeOK
  <2> USE <1>1 DEF PInv, ChunkInv, ChunkTypes, MainTypes
  <2>1. F!TypeOK
    BY DEF F!TypeOK, P!TypeOK, F!NodeState, P!NodeState, F!RowState, P!RowState, F!Digest, P!Digest
  <2>2. \A b \in Range(batch) : b # {} /\ b \subseteq Node
    BY DEF Range
  <2>3. next \in 1 .. Len(batch) + 1 + Cardinality(Worker)
    <3>1. /\ Cardinality(Overdrawn) \in Nat /\ Cardinality(Worker) \in Nat
          /\ Cardinality(Overdrawn) <= Cardinality(Worker)
      BY FS_Subset, FS_CardinalityType, ParallelAssumption DEF Overdrawn
    <3> QED
      BY <3>1 DEF CounterBounded
  <2>4. Claimed \subseteq Items
    BY UnionOfBatches DEF Claimed, Items
  <2>5. buf \in [Worker -> SUBSET Items] /\ saved \subseteq Items
    BY <2>4 DEF HandsClaimed
  <2> QED
    BY <2>1, <2>2, <2>3, <2>5 DEF ParallelTypeOK
<1> QED
  BY <1>1, ParallelInductive, PTL

\* No item is embedded twice, whatever the workers, the counter and the cancel
\* watcher do at the same time.
THEOREM EachClaimedOnce == ParallelSpec => []ClaimedOnce
<1>1. PInv => ClaimedOnce
  BY DEF PInv, ChunkInv
<1> QED
  BY <1>1, ParallelInductive, PTL

\* Workers that leave a chunk without an error leave nothing of it behind,
\* unless a cancel has drained the queue.
THEOREM NothingIsLeftBehind == ParallelSpec => []NothingLeftBehind
<1>1. PInv => NothingLeftBehind
  BY AllCommitted DEF NothingLeftBehind
<1> QED
  BY <1>1, ParallelInductive, PTL

NoClaimAfterCancel ==
  \A w \in Worker : cancelled /\ wpc[w] = "claim" => wpc'[w] # "embed"

\* Once the cancelled flag is raised no worker takes up another batch.
THEOREM CancelEndsClaims == ParallelSpec => CancelStopsClaims
<1>1. ASSUME PInv, [ParallelNext]_pvars PROVE NoClaimAfterCancel
  <2> SUFFICES ASSUME NEW w \in Worker, cancelled, wpc[w] = "claim"
               PROVE  wpc'[w] # "embed"
    BY DEF NoClaimAfterCancel
  <2> USE <1>1 DEF PInv, ChunkInv, ChunkTypes
  <2>1. next > Len(batch) /\ step = "work"
    BY RunningInWork DEF QueueExhausted
  <2>2. ASSUME NEW v \in Worker, WorkerStep(v) PROVE wpc'[w] # "embed"
    <3>1. CASE Claim(v)
      BY <2>1, <3>1 DEF Claim
    <3>2. CASE Embed(v)
      BY <3>2 DEF Embed
    <3>3. CASE Flush(v) \/ FlushTail(v) \/ Fail(v)
      BY <3>3 DEF Flush, FlushTail, Fail
    <3> QED
      BY <2>2, <3>1, <3>2, <3>3 DEF WorkerStep
  <2>3. CASE \A v \in Worker : ~ WorkerStep(v)
    <3>1. wpc' = wpc \/ Die
      BY <1>1, <2>1, <2>3
      DEF ParallelNext, Run, Main, Watcher, StartRun, CountPending, LoadChunk, JoinWorkers, JoinWatcher,
          EndLoop, AfterLoop, Rebuild, WatchSee, WatchDrain, WatchCancel, WatchStop, RequestCancel,
          DaemonEdit, pvars, workVars
    <3> QED
      BY <3>1 DEF Die, DropChunk
  <2> QED
    BY <2>2, <2>3
<1>2. PInv /\ [ParallelNext]_pvars => [NoClaimAfterCancel]_pvars
  BY <1>1
<1> QED
  BY <1>2, ParallelInductive, PTL DEF ParallelSpec, CancelStopsClaims, NoClaimAfterCancel

-----------------------------------------------------------------------------
(* A run cannot go on for ever: every step of its threads, a failure and a *)
(* death included, lowers a rank in the lexicographic order of nine        *)
(* natural numbers, and no edit of the daemon raises it again.             *)

StepRank ==
  CASE step = "count" -> 4 [] step \in {"select", "work", "join"} -> 3
    [] step = "checkpoint" -> 2 [] step = "rebuild" -> 1 [] OTHER -> 0

\* The nodes without a row in the run's model, and those of the chunk, which may
\* have one already.
LeftRows == {n \in Node : vec[n][cur] = NoRow} \cup Items

TurnRank == CASE step = "select" -> 2 [] step = "work" -> 1 [] OTHER -> 0

WatchRank ==
  CASE watcher = "polling" -> 3 [] watcher = "seen" -> 2 [] watcher = "drained" -> 1 [] OTHER -> 0

Unclaimed == IF next <= Len(batch) THEN Len(batch) + 1 - next ELSE 0

WorkersAt(place) == {w \in Worker : wpc[w] = place}

Rank == <<StepRank, Cardinality(LeftRows), TurnRank, WatchRank, Unclaimed,
          Cardinality(WorkersAt("embed")), Cardinality(WorkersAt("flush")),
          Cardinality(WorkersAt("claim")), Cardinality(WorkersAt("tail"))>>

Lower == LexProductOrdering(OpToRel(<, Nat), Nat, 9)

\* No sequence of ranks descends for ever.
LEMMA LowerIsWellFounded == IsWellFoundedOn(Lower, [1 .. 9 -> Nat])
<1> HIDE DEF OpToRel
<1> QED
  BY NatLessThanWellFounded, WFLexProductOrdering DEF Lower

\* To be lower is to be less in the first number that differs.
LEMMA LowerAt ==
  ASSUME NEW r \in [1 .. 9 -> Nat], NEW s \in [1 .. 9 -> Nat], NEW k \in 1 .. 9,
         r[k] < s[k], \A j \in 1 .. (k - 1) : r[j] = s[j]
  PROVE  <<r, s>> \in Lower
<1>1. <<r[k], s[k]>> \in OpToRel(<, Nat)
  BY DEF OpToRel
<1> HIDE DEF OpToRel
<1> QED
  BY <1>1 DEF Lower, LexProductOrdering

\* A chunk is not empty, and what is counted as saved has its row.
SavedInv ==
  /\ step \in InChunk => batch # <<>>
  /\ \A n \in saved : vec[n][cur] # NoRow

LEMMA BufferIsUnsaved ==
  ASSUME PInv, NEW w \in Worker
  PROVE  buf[w] \subseteq Items /\ buf[w] \subseteq Node /\ \A n \in buf[w] : text[n] # NoRow
<1>1. buf[w] \subseteq Claimed /\ Claimed \subseteq Items
  BY UnionOfBatches DEF PInv, ChunkInv, ChunkTypes, HandsClaimed, Claimed, Items
<1> QED
  BY <1>1 DEF PInv, ChunkInv, ChunkTypes, ItemsRead

LEMMA SavedInNode == PInv => saved \subseteq Node /\ Items \subseteq Node
<1> SUFFICES ASSUME PInv PROVE saved \subseteq Node /\ Items \subseteq Node
  OBVIOUS
<1>1. batch \in Seq((SUBSET Node) \ {{}})
  BY DEF PInv, ChunkInv, ChunkTypes
<1>2. \A i \in 1 .. Len(batch) : batch[i] \subseteq Node
  BY <1>1
<1>3. \A n : n \in Items <=> \E i \in 1 .. Len(batch) : n \in batch[i]
  BY <1>1, UnionOfBatches DEF Items
<1>4. saved \subseteq Claimed
  BY DEF PInv, ChunkInv, HandsClaimed
<1> QED
  BY <1>2, <1>3, <1>4 DEF Claimed

\* A commit gives each item of the buffer a row.
LEMMA CommitGivesRows ==
  ASSUME PInv, P!TypeOK, NEW w \in Worker, Flush(w) \/ FlushTail(w)
  PROVE  /\ UNCHANGED <<step, batch, cur, next, watcher>> /\ saved' = saved \cup buf[w]
         /\ \A n \in Node : vec'[n][cur] = IF n \in buf[w] THEN text[n] ELSE vec[n][cur]
<1>1. /\ Commit(w, buf[w]) /\ UNCHANGED <<step, batch, cur, next, watcher>>
  BY DEF Flush, FlushTail, TailOf, Commit, mainVars, chunkVars, stopVars
<1>2. vec \in [Node -> [Model -> P!RowState]] /\ cur \in Model
  BY DEF P!TypeOK
<1> QED
  BY <1>1, <1>2 DEF Commit

LEMMA SavedStep == PInv /\ P!TypeOK /\ SavedInv /\ [ParallelNext]_pvars => SavedInv'
<1> SUFFICES ASSUME PInv, P!TypeOK, SavedInv, [ParallelNext]_pvars PROVE SavedInv'
  OBVIOUS
<1>1. CASE \/ \E m \in Model, sc \in Scope : StartRun(m, sc)
           \/ CountPending \/ EndLoop \/ Rebuild
           \/ \E r \in BOOLEAN : AfterLoop(r)
  <2>1. step \notin InChunk /\ saved = {}
    BY <1>1 DEF PInv, ChunkOnlyInLoop, NoChunk, StartRun, CountPending, EndLoop, Rebuild, AfterLoop,
                InChunk
  <2>2. step' \notin InChunk /\ saved' = saved
    BY <1>1 DEF StartRun, CountPending, EndLoop, Rebuild, AfterLoop, Leave, InChunk, workVars
  <2> QED
    BY <2>1, <2>2 DEF SavedInv
<1>2. CASE LoadChunk
  <2>1. saved' = {}
    BY <1>2 DEF LoadChunk, PInv, ChunkOnlyInLoop, NoChunk, InChunk
  <2>2. PICK S \in SUBSET Node : batch' \in BatchesOf(S)
    BY <1>2 DEF LoadChunk, Todo, Pending
  <2>3. batch' # <<>>
    BY <2>2, CutIsPartition
  <2> QED
    BY <2>1, <2>3 DEF SavedInv
<1>3. CASE JoinWatcher \/ Die
  BY <1>3 DEF JoinWatcher, Die, Leave, DropChunk, SavedInv, InChunk
<1>4. ASSUME NEW w \in Worker, Flush(w) \/ FlushTail(w) PROVE SavedInv'
  BY <1>4, CommitGivesRows, BufferIsUnsaved, SavedInNode DEF SavedInv
<1>5. CASE \/ JoinWorkers \/ WatchSee \/ WatchDrain \/ WatchCancel \/ WatchStop
           \/ RequestCancel \/ DaemonEdit \/ UNCHANGED pvars
           \/ \E w \in Worker : Claim(w) \/ Embed(w) \/ Fail(w)
  <2>1. UNCHANGED <<batch, saved, cur>> /\ (step' \in InChunk <=> step \in InChunk)
    BY <1>5 DEF JoinWorkers, WatchSee, WatchDrain, WatchCancel, WatchStop, RequestCancel, DaemonEdit, Claim,
           Embed, Fail, pvars, mainVars, chunkVars, workVars, InChunk
  <2>2. vec' = vec
    BY <1>5 DEF JoinWorkers, WatchSee, WatchDrain, WatchCancel, WatchStop, RequestCancel, Claim,
           Embed, Fail, pvars, storeVars, DaemonEdit, F!Daemon, F!Replace, F!Remove, F!Create,
           F!Regenerate, F!PruneLog
  <2> QED
    BY <2>1, <2>2 DEF SavedInv
<1> QED
  BY <1>1, <1>2, <1>3, <1>4, <1>5 DEF ParallelNext, Run, Main, Watcher, WorkerStep

LEMMA RankType == PInv => Rank \in [1 .. 9 -> Nat]
<1> SUFFICES ASSUME PInv PROVE Rank \in [1 .. 9 -> Nat]
  OBVIOUS
<1>1. StepRank \in Nat /\ TurnRank \in Nat /\ WatchRank \in Nat
  BY DEF StepRank, TurnRank, WatchRank
<1>2. Unclaimed \in Nat
  BY DEF Unclaimed, PInv, ChunkInv, ChunkTypes
<1>3. Cardinality(LeftRows) \in Nat
  BY SavedInNode, ParallelAssumption, FS_Subset, FS_CardinalityType DEF LeftRows
<1>4. \A place : Cardinality(WorkersAt(place)) \in Nat
  BY ParallelAssumption, FS_Subset, FS_CardinalityType DEF WorkersAt
<1> QED
  BY <1>1, <1>2, <1>3, <1>4 DEF Rank

Moves(w, from, to) == from # to /\ wpc[w] = from /\ wpc' = [wpc EXCEPT ![w] = to]

OneLess(from, to) ==
  /\ Cardinality(WorkersAt(from)') < Cardinality(WorkersAt(from))
  /\ \A place : place \notin {from, to} => WorkersAt(place)' = WorkersAt(place)

\* A worker that moves is one less where it was, and seen in no third place.
LEMMA WorkerMoves ==
  ASSUME PInv, NEW w \in Worker, NEW from, NEW to, Moves(w, from, to)
  PROVE  OneLess(from, to)
<1> USE DEF Moves
<1>1. wpc \in [Worker -> {"off", "claim", "embed", "flush", "tail", "done", "failed"}]
  BY DEF PInv, ChunkInv, ChunkTypes
<1>2. WorkersAt(from)' = WorkersAt(from) \ {w} /\ w \in WorkersAt(from)
  BY <1>1 DEF WorkersAt
<1>3. IsFiniteSet(WorkersAt(from)) /\ Cardinality(WorkersAt(from)) \in Nat
  BY ParallelAssumption, FS_Subset, FS_CardinalityType DEF WorkersAt
<1>4. Cardinality(WorkersAt(from)') = Cardinality(WorkersAt(from)) - 1
  BY <1>2, <1>3, FS_RemoveElement
<1>5. ASSUME NEW place, place \notin {from, to} PROVE WorkersAt(place)' = WorkersAt(place)
  BY <1>1, <1>5 DEF WorkersAt
<1> QED
  BY <1>3, <1>4, <1>5 DEF OneLess

\* What the steps of a worker leave as it is.
LEMMA WorkerLeaves ==
  ASSUME PInv, P!TypeOK, NEW w \in Worker, WorkerStep(w)
  PROVE  /\ UNCHANGED <<StepRank, LeftRows, TurnRank, WatchRank>>
         /\ ~ Claim(w) => Unclaimed' = Unclaimed
<1>1. UNCHANGED <<step, batch, watcher>>
  BY WorkerFrame
<1>2. Items' = Items
  BY <1>1 DEF Items
<1>3. LeftRows' = LeftRows
  <2>1. CASE Flush(w) \/ FlushTail(w)
    <3>1. /\ cur' = cur /\ buf[w] \subseteq Items
          /\ \A n \in Node : vec'[n][cur] = IF n \in buf[w] THEN text[n] ELSE vec[n][cur]
          /\ \A n \in buf[w] : text[n] # NoRow
      BY <2>1, CommitGivesRows, BufferIsUnsaved
    <3> QED
      BY <1>2, <3>1 DEF LeftRows
  <2>2. CASE Claim(w) \/ Embed(w) \/ Fail(w)
    BY <1>2, <2>2 DEF Claim, Embed, Fail, storeVars, mainVars, LeftRows
  <2> QED
    BY <2>1, <2>2 DEF WorkerStep
<1>4. ~ Claim(w) => Unclaimed' = Unclaimed
  BY <1>1 DEF WorkerStep, Embed, Flush, FlushTail, Fail, Commit, Unclaimed
<1> QED
  BY <1>1, <1>3, <1>4 DEF StepRank, TurnRank, WatchRank

Falls(k) == Rank'[k] < Rank[k] /\ \A j \in 1 .. (k - 1) : Rank'[j] = Rank[j]

LEMMA WorkerFalls ==
  ASSUME PInv, P!TypeOK, NEW w \in Worker, WorkerStep(w)
  PROVE  \E k \in 1 .. 9 : Falls(k)
<1>1. /\ UNCHANGED <<StepRank, LeftRows, TurnRank, WatchRank>>
      /\ ~ Claim(w) => Unclaimed' = Unclaimed
  BY WorkerLeaves
<1>2. UNCHANGED Cardinality(LeftRows)
  BY <1>1
<1>3. CASE Claim(w)
  <2>1. next \in Nat /\ Len(batch) \in Nat /\ next' = next + 1 /\ batch' = batch
    BY <1>3 DEF Claim, NextAfter, chunkVars, PInv, ChunkInv, ChunkTypes
  <2>2. CASE next <= Len(batch)
    <3>1. Unclaimed' < Unclaimed
      BY <2>1, <2>2 DEF Unclaimed
    <3>2. Falls(5)
      BY <1>1, <1>2, <3>1 DEF Falls, Rank
    <3> QED
      BY <3>2
  <2>3. CASE ~ next <= Len(batch)
    <3>1. Unclaimed' = Unclaimed
      BY <2>1, <2>3 DEF Unclaimed
    <3>2. Moves(w, "claim", "tail")
      BY <1>3, <2>3 DEF Claim, Moves
    <3>3. /\ Cardinality(WorkersAt("claim")') < Cardinality(WorkersAt("claim"))
          /\ WorkersAt("embed")' = WorkersAt("embed") /\ WorkersAt("flush")' = WorkersAt("flush")
      <4>1. OneLess("claim", "tail")
        BY <3>2, WorkerMoves
      <4> QED
        BY <4>1 DEF OneLess
    <3>4. Falls(8)
      BY <1>1, <1>2, <3>1, <3>3 DEF Falls, Rank
    <3> QED
      BY <3>4
  <2> QED
    BY <2>2, <2>3
<1>4. ASSUME ~ Claim(w) PROVE \E k \in 1 .. 9 : Falls(k)
  <2>1. \/ \E to \in {"claim", "flush", "failed"} : Moves(w, "embed", to)
        \/ \E to \in {"claim", "failed"} : Moves(w, "flush", to)
        \/ Moves(w, "claim", "failed")
        \/ \E to \in {"done", "failed"} : Moves(w, "tail", to)
    BY <1>4 DEF WorkerStep, Embed, Flush, FlushTail, Fail, Moves
  <2>2. ASSUME NEW to \in {"claim", "flush", "failed"}, Moves(w, "embed", to)
        PROVE  \E k \in 1 .. 9 : Falls(k)
    <3>1. Cardinality(WorkersAt("embed")') < Cardinality(WorkersAt("embed"))
      <4>1. OneLess("embed", to)
        BY <2>2, WorkerMoves
      <4> QED
        BY <4>1 DEF OneLess
    <3>2. Falls(6)
      BY <1>1, <1>2, <1>4, <3>1 DEF Falls, Rank
    <3> QED
      BY <3>2
  <2>3. ASSUME NEW to \in {"claim", "failed"}, Moves(w, "flush", to)
        PROVE  \E k \in 1 .. 9 : Falls(k)
    <3>1. /\ Cardinality(WorkersAt("flush")') < Cardinality(WorkersAt("flush"))
          /\ WorkersAt("embed")' = WorkersAt("embed")
      <4>1. OneLess("flush", to)
        BY <2>3, WorkerMoves
      <4> QED
        BY <4>1 DEF OneLess
    <3>2. Falls(7)
      BY <1>1, <1>2, <1>4, <3>1 DEF Falls, Rank
    <3> QED
      BY <3>2
  <2>4. CASE Moves(w, "claim", "failed")
    <3>1. /\ Cardinality(WorkersAt("claim")') < Cardinality(WorkersAt("claim"))
          /\ WorkersAt("embed")' = WorkersAt("embed") /\ WorkersAt("flush")' = WorkersAt("flush")
      <4>1. OneLess("claim", "failed")
        BY <2>4, WorkerMoves
      <4> QED
        BY <4>1 DEF OneLess
    <3>2. Falls(8)
      BY <1>1, <1>2, <1>4, <3>1 DEF Falls, Rank
    <3> QED
      BY <3>2
  <2>5. ASSUME NEW to \in {"done", "failed"}, Moves(w, "tail", to)
        PROVE  \E k \in 1 .. 9 : Falls(k)
    <3>1. /\ Cardinality(WorkersAt("tail")') < Cardinality(WorkersAt("tail"))
          /\ WorkersAt("embed")' = WorkersAt("embed") /\ WorkersAt("flush")' = WorkersAt("flush")
          /\ WorkersAt("claim")' = WorkersAt("claim")
      <4>1. OneLess("tail", to)
        BY <2>5, WorkerMoves
      <4> QED
        BY <4>1 DEF OneLess
    <3>2. Falls(9)
      BY <1>1, <1>2, <1>4, <3>1 DEF Falls, Rank
    <3> QED
      BY <3>2
  <2> QED
    BY <2>1, <2>2, <2>3, <2>4, <2>5
<1> QED
  BY <1>3, <1>4

LEMMA WatcherFalls ==
  ASSUME PInv, Watcher
  PROVE  Falls(4)
<1>1. UNCHANGED <<step, batch, vec, cur>> /\ WatchRank' < WatchRank
  BY DEF Watcher, WatchSee, WatchDrain, WatchCancel, WatchStop, storeVars, mainVars, chunkVars, WatchRank
<1>2. UNCHANGED <<StepRank, LeftRows, TurnRank>>
  BY <1>1 DEF StepRank, LeftRows, Items, TurnRank
<1>3. UNCHANGED Cardinality(LeftRows)
  BY <1>2
<1> QED
  BY <1>1, <1>2, <1>3 DEF Falls, Rank

\* The next chunk is chosen from fewer rows.
LEMMA ChunkFalls ==
  ASSUME PInv, SavedInv, JoinWatcher, step' = "select"
  PROVE  Cardinality(LeftRows') < Cardinality(LeftRows)
<1>1. /\ step = "join" /\ ~ cancelled /\ watcher = "off" /\ \A w \in Worker : wpc[w] # "failed"
      /\ vec' = vec /\ cur' = cur /\ batch' = <<>>
  BY DEF JoinWatcher, WatcherGone, Leave, DropChunk, storeVars
<1>2. Items \subseteq saved
  BY <1>1, AllCommitted DEF Unsaved
<1>3. Items # {}
  <2>1. batch \in Seq((SUBSET Node) \ {{}}) /\ batch # <<>>
    BY <1>1 DEF PInv, ChunkInv, ChunkTypes, SavedInv, InChunk
  <2>2. 1 \in 1 .. Len(batch) /\ batch[1] \in (SUBSET Node) \ {{}}
    BY <2>1
  <2> QED
    BY <2>1, <2>2, UnionOfBatches DEF Items
<1>4. Items' = {}
  BY <1>1 DEF Items, Range
<1>5. LeftRows' = {n \in Node : vec[n][cur] = NoRow}
  BY <1>1, <1>4 DEF LeftRows
<1>6. LeftRows' \subseteq LeftRows /\ LeftRows' # LeftRows
  BY <1>2, <1>3, <1>5 DEF LeftRows, SavedInv
<1>7. IsFiniteSet(LeftRows) /\ Cardinality(LeftRows) \in Nat
  BY SavedInNode, ParallelAssumption, FS_Subset, FS_CardinalityType DEF LeftRows
<1>8. Cardinality(LeftRows') \in Nat
  BY <1>6, <1>7, FS_Subset, FS_CardinalityType
<1> QED
  BY <1>6, <1>7, <1>8, FS_Subset

LEMMA MainFalls ==
  ASSUME PInv, P!TypeOK, SavedInv, Main \/ Die
  PROVE  \E k \in 1 .. 9 : Falls(k)
<1>1. CASE StepRank' < StepRank
  <2>1. Falls(1)
    BY <1>1 DEF Falls, Rank
  <2> QED
    BY <2>1
<1>2. CASE CountPending \/ EndLoop \/ Rebuild \/ Die \/ \E r \in BOOLEAN : AfterLoop(r)
  <2>1. StepRank' < StepRank
    <3>1. CASE CountPending
      BY <3>1 DEF CountPending, Leave, StepRank
    <3>2. CASE EndLoop
      BY <3>2 DEF EndLoop, StepRank
    <3>3. CASE Rebuild
      BY <3>3 DEF Rebuild, Leave, StepRank
    <3>4. CASE \E r \in BOOLEAN : AfterLoop(r)
      BY <3>4 DEF AfterLoop, Leave, StepRank
    <3>5. CASE Die
      BY <3>5 DEF Die, StepRank, PInv, MainTypes, InPass
    <3> QED
      BY <1>2, <3>1, <3>2, <3>3, <3>4, <3>5
  <2> QED
    BY <1>1, <2>1
<1>3. CASE LoadChunk
  <2>1. PICK S \in SUBSET Node : S \subseteq Todo /\ batch' \in BatchesOf(S)
    BY <1>3 DEF LoadChunk, Todo, Pending
  <2>2. Items' = S /\ Items = {}
    <3>1. Items = {}
      BY <1>3 DEF LoadChunk, PInv, ChunkOnlyInLoop, NoChunk, InChunk, Items, Range
    <3> QED
      BY <2>1, <3>1, CutIsPartition DEF Items
  <2>3. step = "select" /\ step' = "work" /\ vec' = vec /\ cur' = cur
    BY <1>3 DEF LoadChunk, storeVars
  <2>4. LeftRows' = LeftRows
    BY <2>1, <2>2, <2>3 DEF LeftRows, Todo, Pending
  <2>5. Falls(3)
    BY <2>3, <2>4 DEF Falls, Rank, StepRank, TurnRank
  <2> QED
    BY <2>5
<1>4. CASE JoinWorkers
  <2>1. step = "work" /\ step' = "join" /\ LeftRows' = LeftRows
    BY <1>4 DEF JoinWorkers, storeVars, chunkVars, LeftRows, Items
  <2>2. Falls(3)
    BY <2>1 DEF Falls, Rank, StepRank, TurnRank
  <2> QED
    BY <2>2
<1>5. CASE JoinWatcher
  <2>1. step = "join" /\ step' \in {"idle", "checkpoint", "select"}
    BY <1>5 DEF JoinWatcher, Leave
  <2>2. CASE step' = "select"
    <3>1. Falls(2)
      BY <1>5, <2>1, <2>2, ChunkFalls DEF Falls, Rank, StepRank
    <3> QED
      BY <3>1
  <2>3. CASE step' # "select"
    BY <1>1, <2>1, <2>3 DEF StepRank
  <2> QED
    BY <2>2, <2>3
<1> QED
  BY <1>2, <1>3, <1>4, <1>5 DEF Main

LEMMA RankLowered ==
  ASSUME PInv, PInv', P!TypeOK, SavedInv, Run \/ Die
  PROVE  <<Rank', Rank>> \in Lower
<1>1. Rank \in [1 .. 9 -> Nat] /\ Rank' \in [1 .. 9 -> Nat]
  <2>1. (PInv => Rank \in [1 .. 9 -> Nat])'
    BY RankType, PTL
  <2> QED
    BY <2>1, RankType
<1>2. \E k \in 1 .. 9 : Falls(k)
  BY WorkerFalls, WatcherFalls, MainFalls DEF Run
<1> QED
  BY <1>1, <1>2, LowerAt DEF Falls

\* What happens around a run does not raise its rank.
LEMMA RankKept ==
  ASSUME DaemonEdit \/ RequestCancel
  PROVE  Rank' = Rank
<1>1. UNCHANGED <<step, batch, vec, cur, watcher, next, wpc>>
  <2>1. CASE RequestCancel
    BY <2>1 DEF RequestCancel, storeVars, mainVars, chunkVars, workVars, stopVars
  <2>2. CASE DaemonEdit
    <3>1. vec' = vec
      BY <2>2 DEF DaemonEdit, F!Daemon, F!Replace, F!Remove, F!Create, F!Regenerate, F!PruneLog
    <3> QED
      BY <2>2, <3>1 DEF DaemonEdit, mainVars, chunkVars, workVars, stopVars
  <2> QED
    BY <2>1, <2>2
<1>2. UNCHANGED <<StepRank, LeftRows, TurnRank, WatchRank, Unclaimed>>
  BY <1>1 DEF StepRank, LeftRows, Items, TurnRank, WatchRank, Unclaimed
<1>3. \A place : WorkersAt(place)' = WorkersAt(place)
  BY <1>1 DEF WorkersAt
<1>4. Cardinality(LeftRows)' = Cardinality(LeftRows)
  BY <1>2
<1>5. \A place : Cardinality(WorkersAt(place))' = Cardinality(WorkersAt(place))
  BY <1>3
<1> QED
  BY <1>2, <1>4, <1>5 DEF Rank

\* Whatever the threads interleave, wherever they fail and whatever the daemon
\* edits meanwhile: between its start and its end a run takes finitely many
\* steps, for each lowers the rank, and neither an edit nor a request to cancel
\* changes it.
THEOREM RunDescends ==
  ParallelSpec => [][/\ Run \/ Die => <<Rank', Rank>> \in Lower
                     /\ DaemonEdit \/ RequestCancel => Rank' = Rank]_pvars
<1>1. ParallelInit => SavedInv
  BY DEF ParallelInit, NoChunk, SavedInv, InChunk
<1>2. PInv /\ P!TypeOK /\ SavedInv /\ [ParallelNext]_pvars => SavedInv'
  BY SavedStep
<1>3. PInv /\ PInv' /\ P!TypeOK /\ SavedInv
        => [/\ Run \/ Die => <<Rank', Rank>> \in Lower
            /\ DaemonEdit \/ RequestCancel => Rank' = Rank]_pvars
  BY RankLowered, RankKept
<1> QED
  BY <1>1, <1>2, <1>3, ParallelInductive, PTL DEF ParallelSpec

=============================================================================
