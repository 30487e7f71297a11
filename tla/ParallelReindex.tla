--------------------------- MODULE ParallelReindex ---------------------------
(***************************************************************************)
(* reindex_parallel: one run of the main process with its worker threads   *)
(* and its cancel watcher.                                                 *)
(*                                                                         *)
(* The main thread invalidates, then takes the pending nodes chunk by      *)
(* chunk.  A chunk is cut into batches; the workers claim batch indices    *)
(* from a shared atomic counter, embed them and commit their buffers       *)
(* through connections of their own.  The watcher polls for a sentinel     *)
(* file; when it finds one it moves the counter behind the last batch and  *)
(* then raises the cancelled flag.                                         *)
(*                                                                         *)
(* Module Freshness knows only a set of texts that were read and not yet   *)
(* committed; here they are in unclaimed batches, in batches being         *)
(* embedded and in buffers.  ImplementsFreshness says that nothing else    *)
(* changes.                                                                *)
(***************************************************************************)
EXTENDS EmbedStore, Sequences, Functions

CONSTANTS
  Scope,            \* node sets a phase clause can select
  ChunkRows,        \* PENDING_CHUNK_ROWS
  Worker,           \* worker threads, as many as --parallel says
  SingleSubmitter,  \* the backend takes one submitting thread only
  CanFail           \* whether threads and processes may fail

ASSUME ParallelAssumption ==
  /\ IsFiniteSet(Node) /\ Scope \subseteq SUBSET Node
  /\ ChunkRows \in Nat \ {0}
  /\ Worker # {} /\ IsFiniteSet(Worker)
  /\ SingleSubmitter \in BOOLEAN /\ CanFail \in BOOLEAN

VARIABLES
  node, tomb, vec, pruned, touched,   \* as in Freshness
  cur, scope,                         \* model and phase of the run
  step,        \* where the main thread is
  removed,     \* invalidation.removed_any()
  text,        \* items: the texts of the current chunk
  batch,       \* batches: its items, batch by batch
  next,        \* next_batch
  wpc,         \* where each worker is
  got,         \* the batch it claimed last
  buf,         \* tx_buf: items it has embedded and not committed
  watcher,     \* the cancel watcher of this chunk
  cancelled,   \* the flag it shares with the main thread
  sentinel,    \* the sentinel file exists
  outcome,     \* how the last run ended
  \* History variables.
  saved,       \* items of this chunk that are committed
  unindexed    \* rows were committed since the index was last rebuilt

storeVars == <<node, tomb, vec, pruned, touched>>
mainVars  == <<cur, scope, step, removed, outcome>>
chunkVars == <<text, batch>>
workVars  == <<next, wpc, got, buf, saved>>
stopVars  == <<watcher, cancelled>>
pvars     == <<storeVars, mainVars, chunkVars, workVars, stopVars, sentinel, unindexed>>

Items   == UNION Range(batch)
Unsaved == Items \ saved
Alive   == {w \in Worker : wpc[w] \notin {"off", "done", "failed"}}
NoText  == [n \in Node |-> NoRow]

InPass  == {"count", "select", "work", "join"}

\* What Freshness sees of a run.
F == INSTANCE Freshness WITH
       pass <- IF step \in InPass THEN "embedding" ELSE "idle",
       scope <- IF step \in InPass THEN scope ELSE {},
       held <- [n \in Node |-> IF n \in Unsaved THEN text[n] ELSE NoRow]

ParallelTypeOK ==
  /\ F!TypeOK
  /\ step \in InPass \cup {"idle", "checkpoint", "rebuild"}
  /\ removed \in BOOLEAN /\ cancelled \in BOOLEAN /\ sentinel \in BOOLEAN
  /\ unindexed \in BOOLEAN
  /\ \A b \in Range(batch) : b # {} /\ b \subseteq Node
  /\ next \in 1 .. Len(batch) + 1 + Cardinality(Worker)
  /\ wpc \in [Worker -> {"off", "claim", "embed", "flush", "tail", "done", "failed"}]
  /\ got \in [Worker -> 0 .. Len(batch)]
  /\ buf \in [Worker -> SUBSET Items] /\ saved \subseteq Items
  /\ watcher \in {"off", "polling", "seen", "drained"}
  /\ outcome \in {"none", "nothing", "rebuilt", "cancelled", "failed", "died"}

NoChunk ==
  /\ text = NoText /\ batch = <<>> /\ next = 1 /\ saved = {}
  /\ wpc = [w \in Worker |-> "off"] /\ got = [w \in Worker |-> 0]
  /\ buf = [w \in Worker |-> {}]

DropChunk ==
  /\ text' = NoText /\ batch' = <<>> /\ next' = 1 /\ saved' = {}
  /\ wpc' = [w \in Worker |-> "off"] /\ got' = [w \in Worker |-> 0]
  /\ buf' = [w \in Worker |-> {}]

ParallelInit ==
  /\ node \in [Node -> NodeState] /\ tomb = {} /\ pruned = {} /\ touched = Node
  /\ vec \in [Node -> [Model -> {NoRow, NoHash}]]
  /\ cur \in Model /\ scope = {} /\ step = "idle" /\ removed = FALSE
  /\ NoChunk
  /\ watcher = "off" /\ cancelled = FALSE /\ sentinel = FALSE
  /\ outcome = "none" /\ unindexed = FALSE

-----------------------------------------------------------------------------
(* The main thread.                                                        *)

\* The run ends.
Leave(how) == step' = "idle" /\ outcome' = how /\ cancelled' = FALSE /\ removed' = FALSE

\* Invalidation of the databases as they are.
StartRun(m, sc) ==
  /\ step = "idle"
  /\ F!Invalidate(TRUE)
  /\ cur' = m /\ scope' = sc
  /\ removed' = RemovedAny(node, tomb, vec)
  /\ outcome' = "none"
  /\ step' = "count"
  /\ UNCHANGED <<node, pruned, chunkVars, workVars, stopVars, sentinel, unindexed>>

Todo == Pending(node, vec, cur) \cap scope

\* The pending nodes are counted.  Without any, removed vectors still force a
\* rebuild.
CountPending ==
  /\ step = "count"
  /\ IF Todo = {} /\ ~ removed
       THEN Leave("nothing")
       ELSE /\ step' = IF Todo = {} THEN "rebuild" ELSE "select"
            /\ UNCHANGED <<removed, outcome, cancelled>>
  /\ UNCHANGED <<storeVars, cur, scope, chunkVars, workVars, watcher, sentinel, unindexed>>

\* Ways to cut the items of S into batches.
BatchesOf(S) ==
  {q \in UNION {[1 .. k -> (SUBSET S) \ {{}}] : k \in 1 .. Cardinality(S)} :
     /\ UNION Range(q) = S
     /\ \A i, j \in DOMAIN q : i # j => q[i] \cap q[j] = {}}

\* choose_workers: --parallel, but no more than there are batches, and one for
\* a backend with a single submit loop.
Workers(n) ==
  {W \in SUBSET Worker :
     Cardinality(W) = IF SingleSubmitter \/ n = 1 THEN 1
                      ELSE IF n < Cardinality(Worker) THEN n ELSE Cardinality(Worker)}

\* The chunk SELECT, whose rows that do not decode are skipped, the batches, the
\* watcher and the workers.
LoadChunk ==
  /\ step = "select"
  /\ \E S \in (SUBSET Todo) \ {{}} :
       /\ Cardinality(S) <= ChunkRows
       /\ text' = [n \in Node |-> IF n \in S THEN EmbedInput(node[n]) ELSE NoRow]
       /\ batch' \in BatchesOf(S)
  /\ \E W \in Workers(Len(batch')) :
       wpc' = [w \in Worker |-> IF w \in W THEN "claim" ELSE "off"]
  /\ next' = 1 /\ watcher' = "polling" /\ step' = "work"
  /\ UNCHANGED <<storeVars, cur, scope, removed, outcome, got, buf, saved, cancelled, sentinel, unindexed>>

\* All workers are joined; the watcher is told to stop.
JoinWorkers ==
  /\ step = "work" /\ Alive = {}
  /\ step' = "join"
  /\ UNCHANGED <<storeVars, cur, scope, removed, outcome, chunkVars, workVars, stopVars,
                 sentinel, unindexed>>

\* Faulty variant: the watcher is not waited for.
WatcherGoneDetached == TRUE

\* w.join()
WatcherGone == watcher = "off"

\* The watcher is joined as well.  An error of a worker ends the run; a cancel
\* ends the loop; otherwise the next chunk is selected.
JoinWatcher ==
  /\ step = "join" /\ WatcherGone
  /\ IF \E w \in Worker : wpc[w] = "failed"
       THEN Leave("failed")
       ELSE /\ step' = IF cancelled THEN "checkpoint" ELSE "select"
            /\ UNCHANGED <<removed, outcome, cancelled>>
  /\ DropChunk
  /\ UNCHANGED <<storeVars, cur, scope, watcher, sentinel, unindexed>>

\* Nothing is left to select.
EndLoop ==
  /\ step = "select" /\ Todo = {}
  /\ step' = "checkpoint"
  /\ UNCHANGED <<storeVars, cur, scope, removed, outcome, chunkVars, workVars, stopVars,
                 sentinel, unindexed>>

\* A cancelled run consumes the sentinel and, unless told otherwise, leaves the
\* old index; any other run goes on to rebuild it.
AfterLoop(rebuildOnCancel) ==
  /\ step = "checkpoint"
  /\ sentinel' = (sentinel /\ ~ cancelled)
  /\ IF cancelled /\ ~ rebuildOnCancel
       THEN Leave("cancelled")
       ELSE step' = "rebuild" /\ UNCHANGED <<removed, outcome, cancelled>>
  /\ UNCHANGED <<storeVars, cur, scope, chunkVars, workVars, watcher, unindexed>>

\* rebuild_index, as one step (Reindex has its steps): a sweep whose failure is
\* not fatal, and an error when neither space has a row left.
Rebuild ==
  /\ step = "rebuild"
  /\ F!Invalidate(FALSE) \/ (CanFail /\ UNCHANGED <<tomb, vec, touched>>)
  /\ IF \E n \in Node : /\ vec'[n][cur] # NoRow
                        /\ (InCodeSpace(n, node[n]) \/ InDocSpace(n, node[n]))
       THEN Leave("rebuilt") /\ unindexed' = FALSE
       ELSE Leave("failed") /\ UNCHANGED unindexed
  /\ UNCHANGED <<node, pruned, cur, scope, chunkVars, workVars, watcher, sentinel>>

-----------------------------------------------------------------------------
(* A worker.                                                               *)

\* Faulty variant: the counter is read and not advanced when a batch is left.
NextAfterStuck == next

\* next_batch.fetch_add(1)
NextAfter == next + 1

Claim(w) ==
  /\ wpc[w] = "claim"
  /\ next' = NextAfter
  /\ IF next <= Len(batch)
       THEN got' = [got EXCEPT ![w] = next] /\ wpc' = [wpc EXCEPT ![w] = "embed"]
       ELSE UNCHANGED got /\ wpc' = [wpc EXCEPT ![w] = "tail"]
  /\ UNCHANGED <<storeVars, mainVars, chunkVars, stopVars, sentinel, buf, saved, unindexed>>

\* The batch is embedded into the buffer; whether a flush is due depends on the
\* size of the buffer and on the time.
Embed(w) ==
  /\ wpc[w] = "embed"
  /\ buf' = [buf EXCEPT ![w] = @ \cup batch[got[w]]]
  /\ \E due \in {"claim", "flush"} : wpc' = [wpc EXCEPT ![w] = due]
  /\ UNCHANGED <<storeVars, mainVars, chunkVars, stopVars, sentinel, next, got, saved, unindexed>>

\* BEGIN, an INSERT OR REPLACE for each item of S, COMMIT.
Commit(w, S) ==
  /\ vec' = [n \in Node |-> IF n \in S THEN [vec[n] EXCEPT ![cur] = text[n]] ELSE vec[n]]
  /\ saved' = saved \cup S
  /\ unindexed' = (unindexed \/ S # {})
  /\ buf' = [buf EXCEPT ![w] = {}]
  /\ UNCHANGED <<node, tomb, pruned, touched, mainVars, chunkVars, stopVars, sentinel, next, got>>

Flush(w) ==
  /\ wpc[w] = "flush"
  /\ Commit(w, buf[w])
  /\ wpc' = [wpc EXCEPT ![w] = "claim"]

\* Faulty variant: a worker leaves without committing the rest of its buffer.
TailOfNone(w) == {}

\* What a worker commits when the queue is exhausted.
TailOf(w) == buf[w]

FlushTail(w) ==
  /\ wpc[w] = "tail"
  /\ Commit(w, TailOf(w))
  /\ wpc' = [wpc EXCEPT ![w] = "done"]

\* An error ends the thread and its buffer is lost: it could not open embed.db
\* before its first claim, or the backend or SQLite failed later.
Fail(w) ==
  /\ CanFail
  /\ wpc[w] \in {"embed", "flush", "tail"} \/ (wpc[w] = "claim" /\ got[w] = 0)
  /\ wpc' = [wpc EXCEPT ![w] = "failed"] /\ buf' = [buf EXCEPT ![w] = {}]
  /\ UNCHANGED <<storeVars, mainVars, chunkVars, stopVars, sentinel, next, got, saved, unindexed>>

-----------------------------------------------------------------------------
(* The cancel watcher, and what happens around the run.                    *)

WatchSee ==
  /\ watcher = "polling" /\ sentinel
  /\ watcher' = "seen"
  /\ UNCHANGED <<storeVars, mainVars, chunkVars, workVars, cancelled, sentinel, unindexed>>

\* Faulty variant: the queue is left as it is.
DrainedNext == next

\* next_batch.store(n_batches)
Drained == Len(batch) + 1

WatchDrain ==
  /\ watcher = "seen"
  /\ watcher' = "drained" /\ next' = Drained
  /\ UNCHANGED <<storeVars, mainVars, chunkVars, wpc, got, buf, saved, cancelled, sentinel,
                 unindexed>>

WatchCancel ==
  /\ watcher = "drained"
  /\ watcher' = "off" /\ cancelled' = TRUE
  /\ UNCHANGED <<storeVars, mainVars, chunkVars, workVars, sentinel, unindexed>>

\* The loop condition of the watcher is read again after watcher_done was set.
WatchStop ==
  /\ watcher = "polling" /\ step = "join"
  /\ watcher' = "off"
  /\ UNCHANGED <<storeVars, mainVars, chunkVars, workVars, cancelled, sentinel, unindexed>>

\* The daemon or the CLI asks for a cancel.
RequestCancel ==
  /\ ~ sentinel /\ sentinel' = TRUE
  /\ UNCHANGED <<storeVars, mainVars, chunkVars, workVars, stopVars, unindexed>>

DaemonEdit ==
  /\ UNCHANGED <<mainVars, chunkVars, workVars, stopVars, sentinel, unindexed>>
  /\ F!Daemon

\* The process dies with all its threads, or an error of the main thread ends it:
\* a query fails, or no row of a chunk decodes.
Die ==
  /\ CanFail /\ step # "idle"
  /\ step' = "idle" /\ outcome' = "died" /\ removed' = FALSE
  /\ watcher' = "off" /\ cancelled' = FALSE
  /\ DropChunk
  /\ UNCHANGED <<storeVars, cur, scope, sentinel, unindexed>>

-----------------------------------------------------------------------------
Main ==
  \/ CountPending \/ LoadChunk \/ JoinWorkers \/ JoinWatcher \/ EndLoop
  \/ (\E rebuildOnCancel \in BOOLEAN : AfterLoop(rebuildOnCancel))
  \/ Rebuild

WorkerStep(w) == Claim(w) \/ Embed(w) \/ Flush(w) \/ FlushTail(w) \/ Fail(w)

Watcher == WatchSee \/ WatchDrain \/ WatchCancel \/ WatchStop

Run == Main \/ (\E w \in Worker : WorkerStep(w)) \/ Watcher

ParallelNext ==
  \/ \E m \in Model, sc \in Scope : StartRun(m, sc)
  \/ Run \/ RequestCancel \/ DaemonEdit \/ Die

ParallelSpec == ParallelInit /\ [][ParallelNext]_pvars

\* Every thread is scheduled; from some time on nothing is edited.
ParallelFairSpec ==
  /\ ParallelSpec
  /\ WF_pvars(Main) /\ WF_pvars(Watcher) /\ \A w \in Worker : WF_pvars(WorkerStep(w))
  /\ <>[][~ DaemonEdit]_pvars

-----------------------------------------------------------------------------
(* Properties.                                                             *)

\* With any number of workers, whatever they interleave with and whichever of
\* them fails, a run does to the databases what one pass of Freshness does: a
\* chunk holds only pending nodes of the phase, nothing that was read is
\* dropped while the pass goes on, and the next chunk is read after all of it
\* is committed.
ImplementsFreshness == F!Spec

InHand(w) == buf[w] \cup IF wpc[w] = "embed" THEN batch[got[w]] ELSE {}

\* No item is embedded twice: it is with one worker, or committed, and a worker
\* does not claim a batch it has embedded already.
ClaimedOnce ==
  /\ \A w \in Worker : InHand(w) \cap saved = {}
  /\ \A w \in Worker : wpc[w] = "embed" => buf[w] \cap batch[got[w]] = {}
  /\ \A v, w \in Worker : v # w => InHand(v) \cap InHand(w) = {}

\* When the workers of a chunk have left without an error, all of it is
\* committed, unless a cancel has drained the queue.
NothingLeftBehind ==
  step = "join" /\ (\A w \in Worker : wpc[w] # "failed") /\ Unsaved # {} =>
    cancelled \/ watcher = "drained"

\* A cancelled run stops within the batches that are in flight: once the flag
\* is raised no worker takes up another one.
CancelStopsClaims ==
  [][\A w \in Worker : cancelled /\ wpc[w] = "claim" => wpc'[w] # "embed"]_pvars

\* Every run comes to its end, whether it is cancelled or not.
RunEnds == step # "idle" ~> step = "idle"

\* The claim of the cancel message: running the reindex again makes the rows
\* of a cancelled run searchable.
ResumeMakesSearchable == step = "idle" /\ outcome = "nothing" => ~ unindexed
=============================================================================
