----------------------------- MODULE EmbedPass -----------------------------
(***************************************************************************)
(* The embedding loop of a serial pass: select a chunk of pending rows,    *)
(* sort it, cut it into batches (Batching), embed them one by one, and     *)
(* commit the rows they give when there are enough of them or when the     *)
(* last commit is too long ago.  The loop has no list of what is done: it  *)
(* ends because a committed row is not selected again.                     *)
(*                                                                         *)
(* A host outside of the repository kills a pass whose row count does not  *)
(* move for long.  Time passes in ticks while a query or a batch runs.     *)
(***************************************************************************)
EXTENDS Batching, FiniteSets

CONSTANTS
  Item,          \* the nodes that are pending when the loop begins
  Workload,      \* the estimates they may have: functions from Item
  Undecodable,   \* the sets of items whose row may be unreadable
  Overrides,     \* values of TRAVSR_EMBED_TOKEN_BUDGET to consider
  ChunkRows,     \* PENDING_CHUNK_ROWS
  TxBatch,       \* TX_BATCH
  Interval,      \* TX_FLUSH_INTERVAL, in ticks
  SelectTime,    \* the most ticks that selecting a chunk takes
  BatchTime      \* the most ticks that embedding a batch takes

ASSUME PassAssumption ==
  /\ IsFiniteSet(Item) /\ Workload \subseteq [Item -> Nat] /\ Undecodable \subseteq SUBSET Item
  /\ Overrides \subseteq Nat /\ {SelectTime, BatchTime} \subseteq Nat
  /\ {ChunkRows, TxBatch, Interval} \subseteq Nat \ {0}

VARIABLES
  weight,      \* estimate_tokens of each item's text
  unreadable,  \* the items whose row does not decode
  pc,          \* where the loop is
  chunk,       \* texts: the items of the chunk, sorted by weight
  done,        \* the batches of the chunk that were embedded
  buffer,      \* tx_buffer
  committed,   \* the items with a row in embed.db
  elapsed,     \* last_flush.elapsed(), which saturates at Interval
  busy,        \* the ticks of the call that runs
  quiet,       \* the ticks since the row count moved (history)
  times        \* how often each item was embedded (history)

passVars == <<weight, unreadable, pc, chunk, done, buffer, committed, elapsed, busy, quiet, times>>
vars     == <<batchVars, passVars>>
given    == <<weight, unreadable, bucketed, budget>>

Ended == {"done", "failed", "died"}

\* The longest silence that the loop allows itself, given what the calls take.
Silence == Larger(Interval - 1, SelectTime) + BatchTime

Capped(n, cap) == IF n < cap THEN n + 1 ELSE cap

-----------------------------------------------------------------------------

Init ==
  /\ weight \in Workload /\ unreadable \in Undecodable
  /\ \/ bucketed = TRUE  /\ budget = BudgetShare(1, TRUE)
     \/ bucketed = FALSE /\ budget \in {BudgetShare(1, TRUE)} \cup {BudgetOverride(v) : v \in Overrides}
  /\ est = <<>> /\ next = 1 /\ start = 1 /\ maxEst = 0 /\ ranges = <<>>
  /\ pc = "select" /\ chunk = <<>> /\ done = 0
  /\ buffer = {} /\ committed = {}
  /\ elapsed = 0 /\ busy = 0 /\ quiet = 0 /\ times = [i \in Item |-> 0]

Waiting == Item \ committed

\* What LIMIT leaves of the pending rows, whatever their order.
Selection ==
  {S \in SUBSET Waiting :
     Cardinality(S) = IF Cardinality(Waiting) < ChunkRows THEN Cardinality(Waiting) ELSE ChunkRows}

\* The orders of S that sort_by_key may give.
Sorted(S) ==
  {q \in [1 .. Cardinality(S) -> S] :
     \A j, k \in DOMAIN q : j < k => q[j] # q[k] /\ weight[q[j]] <= weight[q[k]]}

\* Faulty variant: unreadable rows are embedded as empty texts.
DecodedAll(S) == S

\* The rows that pending_row_to_text can read; the others are counted and skipped.
Decoded(S) == S \ unreadable

\* Faulty variants: a chunk without a readable row ends the loop, or repeats it.
NoTextSilent(S) == "done"

NoTextRepeats(S) == IF S = {} THEN "done" ELSE "select"

\* A chunk without a readable row: nothing pending, or an error.
NoText(S) == IF S = {} THEN "done" ELSE "failed"

SelectNothing ==
  /\ pc = "select"
  /\ \E S \in Selection : Decoded(S) = {} /\ pc' = NoText(S)
  /\ UNCHANGED <<batchVars, weight, unreadable, chunk, done, buffer, committed, elapsed, busy, quiet, times>>

SelectChunk ==
  /\ pc = "select"
  /\ \E S \in Selection :
       /\ Decoded(S) # {}
       /\ chunk' \in Sorted(Decoded(S))
  /\ ScanInit([k \in DOMAIN chunk' |-> weight[chunk'[k]]])
  /\ pc' = "scan" /\ done' = 0 /\ busy' = 0
  /\ UNCHANGED <<given, buffer, committed, elapsed, quiet, times>>

ScanStep ==
  /\ pc = "scan"
  /\ ScanCut \/ ScanTake
  /\ UNCHANGED passVars

ScanFinish ==
  /\ pc = "scan" /\ ScanEnd
  /\ pc' = "embed"
  /\ UNCHANGED <<weight, unreadable, chunk, done, buffer, committed, elapsed, busy, quiet, times>>

\* Faulty variant: only the number of rows decides.
ShouldFlushRowsOnly(buffered) == Cardinality(buffered) >= TxBatch

ShouldFlush(buffered) ==
  buffered # {} /\ (Cardinality(buffered) >= TxBatch \/ elapsed >= Interval)

FlushBuffer(buffered) ==
  /\ committed' = committed \cup buffered
  /\ buffer' = {} /\ elapsed' = 0 /\ quiet' = 0

BatchItems(r) == {chunk[k] : k \in r.first .. r.last}

\* Embedding a batch, and the commit that may follow.
EmbedBatch ==
  /\ pc = "embed" /\ done < Len(ranges)
  /\ LET items    == BatchItems(ranges[done + 1])
         buffered == buffer \cup items
     IN /\ times' = [i \in Item |-> IF i \in items THEN Capped(times[i], 2) ELSE times[i]]
        /\ IF ShouldFlush(buffered)
             THEN FlushBuffer(buffered)
             ELSE buffer' = buffered /\ UNCHANGED <<committed, elapsed, quiet>>
  /\ done' = done + 1 /\ busy' = 0
  /\ UNCHANGED <<batchVars, weight, unreadable, pc, chunk>>

\* Faulty variant: the rest of a chunk waits for the next one's rows.
RestPendingNone == FALSE

RestPending == buffer # {}

\* The rest of the chunk is committed before the next select.
CommitTail ==
  /\ pc = "embed" /\ done = Len(ranges)
  /\ IF RestPending THEN FlushBuffer(buffer) ELSE UNCHANGED <<buffer, committed, elapsed, quiet>>
  /\ pc' = "select"
  /\ UNCHANGED <<batchVars, weight, unreadable, chunk, done, busy, times>>

\* A query, an inference or a commit fails, or the process dies: the buffer is lost.
Stop ==
  /\ pc \notin Ended /\ pc' \in {"failed", "died"}
  /\ buffer' = {}
  /\ UNCHANGED <<batchVars, weight, unreadable, chunk, done, committed, elapsed, busy, quiet, times>>

Running == pc = "embed" /\ done < Len(ranges)

Tick ==
  /\ \/ pc = "select" /\ busy < SelectTime
     \/ Running /\ busy < BatchTime
  /\ busy' = busy + 1
  /\ elapsed' = Capped(elapsed, Interval)
  /\ quiet' = Capped(quiet, Silence + 1)
  /\ UNCHANGED <<batchVars, weight, unreadable, pc, chunk, done, buffer, committed, times>>

Loop == SelectNothing \/ SelectChunk \/ ScanStep \/ ScanFinish \/ EmbedBatch \/ CommitTail

Next == Loop \/ Stop \/ Tick

Spec == Init /\ [][Next]_vars

\* The pass is a program on a running machine: it takes its next step.
FairSpec == Spec /\ WF_vars(Loop)

-----------------------------------------------------------------------------
(* Properties.                                                             *)

PassTypeOK ==
  /\ weight \in [Item -> Nat] /\ unreadable \subseteq Item
  /\ bucketed \in BOOLEAN /\ budget \in Nat
  /\ est \in Seq(Nat) /\ next \in 1 .. Len(est) + 1 /\ start \in 1 .. Len(est) + 1 /\ maxEst \in Nat
  /\ ranges \in Seq([first : Nat, last : Nat])
  /\ pc \in {"select", "scan", "embed"} \cup Ended
  /\ chunk \in Seq(Item) /\ done \in 0 .. Len(ranges)
  /\ buffer \subseteq Item /\ committed \subseteq Item \ unreadable
  /\ elapsed \in 0 .. Interval /\ busy \in Nat /\ quiet \in 0 .. Silence + 1
  /\ times \in [Item -> 0 .. 2]

\* main.rs 113-135: the row count that the host watches never stands still for
\* longer than a flush interval (or a select, when that takes longer) and one
\* batch, however few rows the pass has and however they are cut.
WatchdogFed == pc \notin Ended => quiet <= Silence

\* main.rs 1320-1323: no item is embedded twice by a pass; a row that is not yet
\* visible to the SELECT is never selected again.
EmbeddedOnce == \A i \in Item : times[i] <= 1

\* main.rs 1262-1271: a pass that reports success has committed every item that
\* was pending; a row it cannot read, or one it still buffers, never ends it in
\* silence.
NoSilentEnd == pc = "done" => committed = Item /\ buffer = {}

\* The loop ends, with whatever outcome.
LoopEnds == <>(pc \in Ended)
=============================================================================
