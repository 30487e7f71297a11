------------------------------ MODULE Batching ------------------------------
(***************************************************************************)
(* How the pending texts of a chunk are cut into inference batches, and    *)
(* the tensors the batches become.                                         *)
(*                                                                         *)
(* The texts are sorted by an estimate of their tokens.  One loop builds   *)
(* the ranges of a CPU engine, whose tensors are as wide as the longest    *)
(* text and cost rows times width against a budget; another those of an    *)
(* accelerated engine, which wants few distinct shapes, so widths are      *)
(* rounded up to a bucket and every bucket has its number of rows.  The    *)
(* two loops differ only in the condition that closes a batch.             *)
(*                                                                         *)
(* The tokenizer decides a text's width afterwards: the estimate may be    *)
(* wrong either way, and a text is cut at MaxSeq tokens.                   *)
(***************************************************************************)
EXTENDS Naturals, Sequences

CONSTANTS
  MaxBatch,      \* MAX_BATCH
  TotalBudget,   \* TOTAL_TOKEN_BUDGET
  TokenBudget,   \* TOKEN_BUDGET
  MinBudget,     \* MIN_TOKEN_BUDGET
  MaxSeq,        \* MAX_SEQ
  SeqBucket,     \* GPU_BUCKETS.seq_buckets
  RowsPerSeq     \* GPU_BUCKETS.rows_per_seq

\* The row counts that next_power_of_two may give for a batch.
PowerOfTwo == {2 ^ k : k \in 0 .. MaxBatch}

ASSUME BatchingAssumption ==
  /\ PowerOfTwo \subseteq Nat /\ \E p \in PowerOfTwo : p >= MaxBatch
  /\ {MaxBatch, TotalBudget, TokenBudget, MinBudget, MaxSeq} \subseteq Nat \ {0}
  /\ MaxSeq <= MinBudget /\ MinBudget <= TokenBudget
  /\ MaxSeq \in SeqBucket /\ SeqBucket \subseteq 1 .. MaxSeq
  /\ RowsPerSeq \in [SeqBucket -> 1 .. MaxBatch]
  /\ \A b, c \in SeqBucket : b <= c => RowsPerSeq[c] <= RowsPerSeq[b]

VARIABLES
  bucketed,   \* is_accelerated(): which of the two loops runs
  budget,     \* the padded-token budget of a batch
  est,        \* est_lens of the chunk
  next,       \* the item the loop looks at
  start,      \* the first item of the open batch
  maxEst,     \* its largest estimate
  ranges      \* the batches closed so far

scanVars  == <<next, start, maxEst, ranges>>
batchVars == <<bucketed, budget, est, scanVars>>

Larger(a, b) == IF a >= b THEN a ELSE b

-----------------------------------------------------------------------------
(* Budgets, buckets and shapes.                                            *)

\* token_budget_for without the override: a share of the total for each worker.
BudgetShare(parallel, single) ==
  LET workers == IF single THEN 1 ELSE Larger(parallel, 1)
      share   == TotalBudget \div workers
  IN CASE share < MinBudget   -> MinBudget
       [] share > TokenBudget -> TokenBudget
       [] OTHER               -> share

\* TRAVSR_EMBED_TOKEN_BUDGET, which may be any number.
BudgetOverride(v) == Larger(v, MaxSeq)

\* The smallest bucket a text of this many tokens fits in, or else the last.
PadSeq(seq) ==
  IF \E b \in SeqBucket : b >= seq
    THEN CHOOSE b \in SeqBucket : b >= seq /\ \A c \in SeqBucket : c >= seq => b <= c
    ELSE MaxSeq

RowsForSeq(width) == RowsPerSeq[PadSeq(width)]

NextPowerOfTwo(n) ==
  CHOOSE p \in PowerOfTwo : p >= n /\ \A q \in PowerOfTwo : q >= n => p <= q

\* Faulty variant: an oversized batch is padded like any other.
PadBatchUncapped(rows, width) == NextPowerOfTwo(rows)

\* Rows of the tensor a batch becomes.
PadBatch(rows, width) ==
  LET cap   == RowsForSeq(width)
      next2 == NextPowerOfTwo(rows)
  IN CASE rows >= cap  -> rows
       [] next2 >= cap -> cap
       [] OTHER        -> next2

Size(r) == r.last - r.first + 1

\* tokenize: the tensor of batch r when its longest text has this many tokens.
Shape(r, longest) ==
  IF bucketed
    THEN [rows |-> PadBatch(Size(r), PadSeq(longest)), width |-> PadSeq(longest)]
    ELSE [rows |-> Size(r), width |-> longest]

-----------------------------------------------------------------------------
(* The loops.                                                              *)

ScanInit(lens) ==
  /\ est' = lens /\ next' = 1 /\ start' = 1 /\ maxEst' = 0 /\ ranges' = <<>>

\* Rows of the open batch with the item the loop looks at.
RowsWith == next - start + 1
MaxWith  == Larger(maxEst, est[next])

\* Faulty variant: the budget is compared without the item.
OverBudgetLate == maxEst * (next - start) > budget \/ next - start >= MaxBatch

OverBudget == MaxWith * RowsWith > budget \/ next - start >= MaxBatch

\* Faulty variant: only the row count closes a batch.
OverBucketRowsOnly == RowsWith > RowsForSeq(PadSeq(maxEst))

OverBucket == PadSeq(maxEst) # PadSeq(MaxWith) \/ RowsWith > RowsForSeq(PadSeq(MaxWith))

ScanDone == next > Len(est)

\* A batch closes before an item that does not fit; the first item always does.
ScanCut ==
  /\ ~ ScanDone /\ next > start
  /\ IF bucketed THEN OverBucket ELSE OverBudget
  /\ ranges' = Append(ranges, [first |-> start, last |-> next - 1])
  /\ start' = next /\ maxEst' = est[next] /\ next' = next + 1
  /\ UNCHANGED <<bucketed, budget, est>>

ScanTake ==
  /\ ~ ScanDone
  /\ next > start => ~ (IF bucketed THEN OverBucket ELSE OverBudget)
  /\ maxEst' = MaxWith /\ next' = next + 1
  /\ UNCHANGED <<bucketed, budget, est, start, ranges>>

\* Faulty variant: the batch still open at the end is forgotten.
LastRangeNone == ranges

LastRange ==
  IF start <= Len(est) THEN Append(ranges, [first |-> start, last |-> Len(est)]) ELSE ranges

\* The batch still open at the end.
ScanEnd ==
  /\ ScanDone
  /\ ranges' = LastRange /\ start' = Len(est) + 1
  /\ UNCHANGED <<bucketed, budget, est, next, maxEst>>

-----------------------------------------------------------------------------
(* Properties.                                                             *)

Batches == {ranges[k] : k \in DOMAIN ranges}

\* The batches are not empty and follow each other without a gap or an overlap,
\* up to the item before the open batch: no text is left out or embedded twice,
\* whatever the estimates, even when every single text is over the budget.
RangesPartition ==
  /\ \A k \in DOMAIN ranges :
       /\ ranges[k].first <= ranges[k].last
       /\ ranges[k].first = IF k = 1 THEN 1 ELSE ranges[k - 1].last + 1
  /\ start = IF ranges = <<>> THEN 1 ELSE ranges[Len(ranges)].last + 1

\* A text of a batch tokenized beyond what the batch was cut for.
Underestimated(r, longest) ==
  /\ Size(r) > 1
  /\ IF bucketed THEN PadSeq(longest) > PadSeq(est[r.last]) ELSE longest > est[r.last]

\* A tensor is within the budget, or within the rows of its bucket and one of few.
ShapeFits(shape) ==
  IF bucketed
    THEN /\ shape.rows <= RowsPerSeq[shape.width]
         /\ shape.rows \in PowerOfTwo \cup {RowsPerSeq[shape.width]}
    ELSE shape.rows * shape.width <= budget /\ shape.rows <= MaxBatch

\* However a batch tokenizes, unless a text was underestimated, its tensor stays
\* within the budget, or within the rows of its bucket; and an accelerated engine
\* sees, for each width, only the bucket's row count and smaller powers of two.
\* A single text is never over the limit, whatever its estimate.
ShapesBounded ==
  \A r \in Batches, longest \in 1 .. MaxSeq :
    Underestimated(r, longest) \/ ShapeFits(Shape(r, longest))
=============================================================================
