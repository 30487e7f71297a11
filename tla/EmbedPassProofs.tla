--------------------------- MODULE EmbedPassProofs ---------------------------
(***************************************************************************)
(* Proofs that the embedding loop keeps its safety properties for all      *)
(* items, workloads, budgets, buckets, chunk sizes and clock bounds.       *)
(*                                                                         *)
(* The inductive invariant has three parts that build on the types: how    *)
(* the batches lie in the chunk and that each was cut to fit (CutInv),     *)
(* which items have been embedded (RowInv), and how the silence so far     *)
(* divides into what came before the running call and that call            *)
(* (ClockInv). Two more results follow: the loop is a pass of Freshness,   *)
(* and each of its steps lowers a rank, so that it takes finitely many.    *)
(***************************************************************************)
EXTENDS EmbedPass, TLAPS, WellFoundedInduction, FiniteSetTheorems

-----------------------------------------------------------------------------
(* Lemmas about budgets, buckets and shapes (module Batching).             *)

\* A set of numbers that is not empty has a least one.
LEMMA LeastExists ==
  ASSUME NEW T, T \subseteq Nat, T # {}
  PROVE  \E x \in T : \A y \in T : x <= y
<1>1. PICK x \in T : \A y \in T : ~ (<<y, x>> \in OpToRel(<, Nat))
  <2>. HIDE DEF OpToRel
  <2>. QED  BY NatLessThanWellFounded, WFMin
<1>2. \A y \in T : <<y, x>> \in Nat \X Nat /\ <<y, x>>[1] = y /\ <<y, x>>[2] = x
  OBVIOUS
<1>3. \A y \in T : ~ y < x
  BY <1>1, <1>2 DEF OpToRel
<1>. QED  BY <1>3

\* The assumption on the constants, in the form the proofs use.
LEMMA ConstantTypes ==
  /\ MaxBatch \in Nat /\ MaxSeq \in Nat /\ TotalBudget \in Nat /\ TokenBudget \in Nat
  /\ MinBudget \in Nat /\ MaxSeq <= MinBudget /\ MaxSeq <= TokenBudget
  /\ MaxBatch >= 1 /\ MaxSeq >= 1 /\ MaxSeq \in SeqBucket
  /\ \A b \in SeqBucket : b \in Nat /\ b <= MaxSeq
BY BatchingAssumption

-----------------------------------------------------------------------------
(* Budgets.                                                                *)

\* Every worker's share holds a text of the greatest length.
LEMMA BudgetShareFits ==
  ASSUME NEW parallel \in Nat, NEW single \in BOOLEAN
  PROVE  BudgetShare(parallel, single) \in Nat /\ BudgetShare(parallel, single) >= MaxSeq
BY ConstantTypes DEF BudgetShare, Larger

\* And so does any override.
LEMMA BudgetOverrideFits ==
  ASSUME NEW v \in Nat
  PROVE  BudgetOverride(v) \in Nat /\ BudgetOverride(v) >= MaxSeq
BY ConstantTypes DEF BudgetOverride, Larger

-----------------------------------------------------------------------------
(* Buckets.                                                                *)

\* Rounding up gives a bucket: the least that fits, or the greatest there is.
LEMMA PadSeqIsBucket ==
  ASSUME NEW n \in Nat
  PROVE  /\ PadSeq(n) \in SeqBucket /\ PadSeq(n) \in Nat
         /\ n <= MaxSeq => n <= PadSeq(n)
         /\ n > MaxSeq  => PadSeq(n) = MaxSeq
         /\ \A b \in SeqBucket : b >= n => PadSeq(n) <= b
<1>. DEFINE Fitting == {b \in SeqBucket : b >= n}
<1>1. CASE Fitting = {}
  <2>1. PadSeq(n) = MaxSeq
    BY <1>1 DEF PadSeq
  <2>. QED  BY <1>1, <2>1, ConstantTypes
<1>2. CASE Fitting # {}
  <2>1. \E b \in Fitting : \A c \in Fitting : b <= c
    BY <1>2, LeastExists, ConstantTypes
  <2>2. /\ PadSeq(n) \in SeqBucket /\ PadSeq(n) >= n
        /\ \A c \in SeqBucket : c >= n => PadSeq(n) <= c
    BY <2>1 DEF PadSeq
  <2>3. PadSeq(n) \in Nat /\ PadSeq(n) <= MaxSeq
    BY <2>2, ConstantTypes
  <2>4. MaxSeq \in Nat
    BY ConstantTypes
  <2>. HIDE DEF Fitting
  <2>. QED  BY <2>2, <2>3, <2>4
<1>. QED  BY <1>1, <1>2

\* A bucket is padded to itself.
LEMMA PadSeqOfBucket ==
  ASSUME NEW b \in SeqBucket
  PROVE  PadSeq(b) = b
<1>1. b \in Nat /\ b <= MaxSeq
  BY ConstantTypes
<1>. QED  BY <1>1, PadSeqIsBucket

\* A longer text never gets a narrower tensor.
LEMMA PadSeqMonotone ==
  ASSUME NEW m \in Nat, NEW n \in Nat, m <= n
  PROVE  PadSeq(m) <= PadSeq(n)
<1>1. CASE n <= MaxSeq
  BY <1>1, PadSeqIsBucket
<1>2. CASE n > MaxSeq
  BY <1>2, PadSeqIsBucket, ConstantTypes
<1>. QED  BY <1>1, <1>2, ConstantTypes

\* The rows of a padded width are those of its bucket.
LEMMA RowsOfBucket ==
  ASSUME NEW n \in Nat
  PROVE  /\ RowsForSeq(PadSeq(n)) = RowsPerSeq[PadSeq(n)]
         /\ RowsForSeq(PadSeq(n)) \in 1 .. MaxBatch
BY PadSeqIsBucket, PadSeqOfBucket, BatchingAssumption DEF RowsForSeq

-----------------------------------------------------------------------------
(* Shapes.                                                                 *)

\* For a batch within the cap, the next power of two is one.
LEMMA NextPowerExists ==
  ASSUME NEW n \in Nat, n <= MaxBatch
  PROVE  NextPowerOfTwo(n) \in PowerOfTwo /\ NextPowerOfTwo(n) >= n
<1>. DEFINE Above == {p \in PowerOfTwo : p >= n}
<1>1. Above \subseteq Nat /\ Above # {}
  <2>1. PICK p \in PowerOfTwo : p >= MaxBatch
    BY BatchingAssumption
  <2>2. p \in Nat /\ p >= n
    BY <2>1, BatchingAssumption, ConstantTypes
  <2>. QED  BY <2>2, BatchingAssumption
<1>2. \E p \in Above : \A q \in Above : p <= q
  <2>. HIDE DEF Above
  <2>. QED  BY <1>1, LeastExists
<1>. QED  BY <1>2 DEF NextPowerOfTwo

\* A batch within its bucket's rows is never padded beyond them.
LEMMA PadBatchBounded ==
  ASSUME NEW n \in Nat, NEW rows \in Nat, rows <= RowsPerSeq[PadSeq(n)]
  PROVE  /\ PadBatch(rows, PadSeq(n)) <= RowsPerSeq[PadSeq(n)]
         /\ PadBatch(rows, PadSeq(n)) \in PowerOfTwo \cup {RowsPerSeq[PadSeq(n)]}
<1>. DEFINE cap == RowsPerSeq[PadSeq(n)]
<1>1. RowsForSeq(PadSeq(n)) = cap /\ cap \in 1 .. MaxBatch
  BY RowsOfBucket
<1>2. rows <= MaxBatch
  BY <1>1, ConstantTypes
<1>3. NextPowerOfTwo(rows) \in PowerOfTwo /\ NextPowerOfTwo(rows) \in Nat
  BY <1>2, NextPowerExists, BatchingAssumption
<1>. HIDE DEF cap
<1>4. PadBatch(rows, PadSeq(n))
        = CASE rows >= cap -> rows
            [] NextPowerOfTwo(rows) >= cap -> cap
            [] OTHER -> NextPowerOfTwo(rows)
  BY <1>1 DEF PadBatch
<1>5. PadBatch(rows, PadSeq(n)) <= cap /\ PadBatch(rows, PadSeq(n)) \in PowerOfTwo \cup {cap}
  BY <1>1, <1>3, <1>4 DEF cap
<1>. QED  BY <1>5 DEF cap

-----------------------------------------------------------------------------
(* The inductive invariant.                                                *)

\* The chunk is a list of readable items without a repetition, by weight.
ChunkInv ==
  /\ Len(est) = Len(chunk)
  /\ \A k \in 1 .. Len(chunk) : est[k] = weight[chunk[k]] /\ chunk[k] \notin unreadable
  /\ \A j, k \in 1 .. Len(chunk) : j < k => chunk[j] # chunk[k] /\ est[j] <= est[k]

\* The items from f to l were put into one batch rightly.
Fits(f, l) ==
  \/ f = l
  \/ IF bucketed
       THEN l - f + 1 <= RowsPerSeq[PadSeq(est[l])]
       ELSE est[l] * (l - f + 1) <= budget /\ l - f + 1 <= MaxBatch

CutInv ==
  /\ RangesPartition
  /\ start <= next
  /\ start = next /\ pc = "scan" => next = 1
  /\ IF next = 1 THEN maxEst = 0 ELSE maxEst = est[next - 1]
  /\ start < next => Fits(start, next - 1)
  /\ \A k \in 1 .. Len(ranges) : ranges[k].last <= Len(est) /\ Fits(ranges[k].first, ranges[k].last)
  /\ pc \in {"scan", "embed"} => Len(chunk) > 0
  /\ pc = "embed" => start = Len(est) + 1

EmbeddedUpTo == IF done = 0 THEN 0 ELSE ranges[done].last

RowInv ==
  /\ buffer \cap unreadable = {}
  /\ pc \in {"select", "scan"} => buffer = {}
  /\ pc = "scan" => done = 0
  /\ pc \notin Ended => times = [i \in Item |-> IF i \in committed \cup buffer THEN 1 ELSE 0]
  /\ pc \in {"scan", "embed"} =>
       \A k \in 1 .. Len(chunk) : k > EmbeddedUpTo => chunk[k] \notin committed \cup buffer

ClockInv ==
  /\ elapsed = IF quiet < Interval THEN quiet ELSE Interval
  /\ pc = "select" => busy <= SelectTime /\ quiet = busy
  /\ pc = "scan" => busy = 0 /\ quiet <= SelectTime
  /\ pc = "embed" =>
       /\ busy <= BatchTime /\ busy <= quiet
       /\ done = 0 => buffer = {} /\ quiet - busy <= SelectTime
       /\ done > 0 /\ buffer = {} => quiet = busy
       /\ buffer # {} => quiet - busy < Interval
       /\ done = Len(ranges) => busy = 0

IInv == PassTypeOK /\ budget >= MaxSeq /\ ChunkInv /\ CutInv /\ RowInv /\ EmbeddedOnce /\ ClockInv

-----------------------------------------------------------------------------
(* The initial states and the small facts.                                 *)

LEMMA PassTypes ==
  /\ ChunkRows \in Nat /\ ChunkRows >= 1 /\ TxBatch \in Nat
  /\ Interval \in Nat /\ Interval >= 1 /\ SelectTime \in Nat /\ BatchTime \in Nat
  /\ Silence \in Nat /\ Silence >= BatchTime
  /\ Silence >= Interval - 1 + BatchTime /\ Silence >= SelectTime + BatchTime
BY PassAssumption DEF Silence, Larger

LEMMA InitIInv == Init => IInv
<1>. SUFFICES ASSUME Init PROVE IInv
  OBVIOUS
<1>1. budget \in Nat /\ budget >= MaxSeq
  BY BudgetShareFits, BudgetOverrideFits, PassAssumption, ConstantTypes DEF Init
<1>2. PassTypeOK
  <2>1. est \in Seq(Nat) /\ Len(est) = 0 /\ chunk \in Seq(Item)
    BY DEF Init
  <2>2. ranges \in Seq([first : Nat, last : Nat]) /\ Len(ranges) = 0
    BY DEF Init
  <2>3. weight \in [Item -> Nat] /\ unreadable \subseteq Item
    BY PassAssumption DEF Init
  <2>4. times \in [Item -> 0 .. 2]
    BY DEF Init
  <2>5. bucketed \in BOOLEAN
    BY DEF Init
  <2>6. next \in 1 .. Len(est) + 1 /\ start \in 1 .. Len(est) + 1 /\ done \in 0 .. Len(ranges)
    BY <2>1, <2>2 DEF Init
  <2>7. elapsed \in 0 .. Interval /\ busy \in Nat /\ quiet \in 0 .. Silence + 1 /\ maxEst \in Nat
    BY PassTypes DEF Init
  <2>. QED  BY <1>1, <2>1, <2>2, <2>3, <2>4, <2>5, <2>6, <2>7 DEF Init, PassTypeOK
<1>3. ChunkInv /\ CutInv
  BY DEF Init, ChunkInv, CutInv, RangesPartition
<1>4. RowInv /\ EmbeddedOnce
  BY DEF Init, RowInv, EmbeddedOnce, EmbeddedUpTo, Ended
<1>5. ClockInv
  BY PassTypes DEF Init, ClockInv
<1>. QED  BY <1>1, <1>2, <1>3, <1>4, <1>5 DEF IInv

\* A selected chunk has a readable item, and only pending ones.
LEMMA SelectedChunk ==
  ASSUME IInv, SelectChunk
  PROVE  /\ chunk' \in Seq(Item) /\ Len(chunk') > 0
         /\ est' \in Seq(Nat) /\ Len(est') = Len(chunk')
         /\ \A k \in 1 .. Len(chunk') :
              /\ est'[k] = weight[chunk'[k]]
              /\ chunk'[k] \in Item \ unreadable /\ chunk'[k] \notin committed
         /\ \A j, k \in 1 .. Len(chunk') : j < k => chunk'[j] # chunk'[k] /\ est'[j] <= est'[k]
<1>1. PICK S \in Selection : Decoded(S) # {} /\ chunk' \in Sorted(Decoded(S))
  BY DEF SelectChunk
<1>. DEFINE R == Decoded(S)
            n == Cardinality(R)
<1>2. R \subseteq Item \ unreadable /\ R \cap committed = {}
  BY <1>1 DEF Selection, Waiting, Decoded
<1>3. IsFiniteSet(R)
  BY <1>2, PassAssumption, FS_Subset, Item \ unreadable \subseteq Item
<1>4. n \in Nat /\ n > 0
  BY <1>1, <1>3, FS_CardinalityType, FS_EmptySet
<1>5. /\ chunk' \in [1 .. n -> R]
      /\ \A j, k \in 1 .. n : j < k => chunk'[j] # chunk'[k] /\ weight[chunk'[j]] <= weight[chunk'[k]]
  BY <1>1 DEF Sorted
<1>. HIDE DEF n, R
<1>6. chunk' \in Seq(Item) /\ Len(chunk') = n
  BY <1>2, <1>4, <1>5
<1>7. est' = [k \in 1 .. n |-> weight[chunk'[k]]]
  BY <1>5 DEF SelectChunk, ScanInit
<1>8. \A k \in 1 .. n : chunk'[k] \in Item \ unreadable /\ chunk'[k] \notin committed
  BY <1>2, <1>5
<1>9. weight \in [Item -> Nat]
  BY DEF IInv, PassTypeOK
<1>10. est' \in Seq(Nat) /\ Len(est') = n
  BY <1>4, <1>7, <1>8, <1>9
<1>. QED  BY <1>4, <1>5, <1>6, <1>7, <1>8, <1>10

-----------------------------------------------------------------------------
(* Types and the cutting of a chunk.                                       *)

\* What a list of batches is after one more.
LEMMA AppendRange ==
  ASSUME NEW s \in Seq([first : Nat, last : Nat]), NEW f \in Nat, NEW l \in Nat
  PROVE  LET new == [first |-> f, last |-> l]
             t   == Append(s, new)
         IN /\ t \in Seq([first : Nat, last : Nat]) /\ t # <<>>
            /\ Len(s) \in Nat /\ Len(t) = Len(s) + 1 /\ DOMAIN t = 1 .. Len(s) + 1
            /\ \A k \in 1 .. Len(s) : t[k] = s[k]
            /\ t[Len(s) + 1].first = f /\ t[Len(s) + 1].last = l
            /\ (s = <<>>) <=> (Len(s) = 0)
<1>. DEFINE new == [first |-> f, last |-> l]
            t   == Append(s, new)
<1>1. new \in [first : Nat, last : Nat] /\ new.first = f /\ new.last = l
  OBVIOUS
<1>. HIDE DEF new
<1>2. /\ t \in Seq([first : Nat, last : Nat]) /\ t # <<>>
      /\ Len(s) \in Nat /\ Len(t) = Len(s) + 1 /\ DOMAIN t = 1 .. Len(s) + 1
      /\ \A k \in 1 .. Len(s) : t[k] = s[k]
      /\ t[Len(s) + 1] = new
      /\ (s = <<>>) <=> (Len(s) = 0)
  BY <1>1
<1>. QED  BY <1>1, <1>2 DEF new

\* A batch that begins where the last one ends continues the partition.
LEMMA AppendPartition ==
  ASSUME NEW f \in Nat, NEW l \in Nat, f <= l, f = start,
         ranges \in Seq([first : Nat, last : Nat]), RangesPartition,
         ranges' = Append(ranges, [first |-> f, last |-> l]), start' = l + 1
  PROVE  RangesPartition'
<1>. DEFINE n == Len(ranges)
<1>1. /\ n \in Nat /\ Len(ranges') = n + 1 /\ DOMAIN ranges' = 1 .. n + 1 /\ ranges' # <<>>
      /\ \A k \in 1 .. n : ranges'[k] = ranges[k]
      /\ ranges'[n + 1].first = f /\ ranges'[n + 1].last = l
      /\ (ranges = <<>>) <=> (n = 0)
  BY AppendRange
<1>2. start = IF n = 0 THEN 1 ELSE ranges[n].last + 1
  BY <1>1 DEF RangesPartition
<1>3. \A k \in 1 .. n : /\ ranges[k].first <= ranges[k].last
                       /\ ranges[k].first = IF k = 1 THEN 1 ELSE ranges[k - 1].last + 1
  <2>1. DOMAIN ranges = 1 .. n
    OBVIOUS
  <2>. QED  BY <2>1 DEF RangesPartition
<1>. HIDE DEF n
<1>4. ASSUME NEW k \in 1 .. n + 1
      PROVE  /\ ranges'[k].first <= ranges'[k].last
             /\ ranges'[k].first = IF k = 1 THEN 1 ELSE ranges'[k - 1].last + 1
  <2>1. CASE k \in 1 .. n
    <3>1. k # 1 => k - 1 \in 1 .. n
      BY <1>1, <2>1
    <3>. QED  BY <1>1, <1>3, <2>1, <3>1
  <2>2. CASE k = n + 1
    <3>1. k # 1 => n \in 1 .. n /\ k - 1 = n
      BY <1>1, <2>2
    <3>. QED  BY <1>1, <1>2, <2>2, <3>1
  <2>. QED  BY <1>1, <2>1, <2>2
<1>. QED  BY <1>1, <1>4 DEF RangesPartition

\* Batches lie within the chunk.
LEMMA RangeInChunk ==
  ASSUME IInv, NEW k \in 1 .. Len(ranges)
  PROVE  /\ ranges[k].first \in Nat /\ ranges[k].last \in Nat
         /\ 1 <= ranges[k].first /\ ranges[k].first <= ranges[k].last
         /\ ranges[k].last <= Len(chunk)
         /\ ranges[k].first = IF k = 1 THEN 1 ELSE ranges[k - 1].last + 1
<1>1. ranges \in Seq([first : Nat, last : Nat]) /\ DOMAIN ranges = 1 .. Len(ranges)
  BY DEF IInv, PassTypeOK
<1>2. \A j \in 1 .. Len(ranges) : ranges[j].first \in Nat /\ ranges[j].last \in Nat
  <2>. DEFINE Batch == [first : Nat, last : Nat]
  <2>1. ranges \in Seq(Batch)
    BY <1>1
  <2>. HIDE DEF Batch
  <2>2. \A j \in 1 .. Len(ranges) : ranges[j] \in Batch
    BY <2>1
  <2>. QED  BY <2>2 DEF Batch
<1>3. k # 1 => k - 1 \in 1 .. Len(ranges)
  BY <1>1
<1>4. /\ ranges[k].first <= ranges[k].last /\ ranges[k].last <= Len(chunk)
      /\ ranges[k].first = IF k = 1 THEN 1 ELSE ranges[k - 1].last + 1
  BY <1>1 DEF IInv, CutInv, ChunkInv, RangesPartition
<1>. QED  BY <1>2, <1>3, <1>4

LEMMA TypesStep == IInv /\ [Next]_vars => PassTypeOK' /\ (budget >= MaxSeq)' /\ ChunkInv'
<1>. SUFFICES ASSUME IInv, [Next]_vars PROVE PassTypeOK' /\ (budget >= MaxSeq)' /\ ChunkInv'
  OBVIOUS
<1>. USE PassTypes DEF IInv
<1>1. CASE SelectNothing
  BY <1>1 DEF SelectNothing, NoText, PassTypeOK, ChunkInv, batchVars, scanVars, Ended
<1>2. CASE SelectChunk
  <2>1. PassTypeOK'
    BY <1>2, SelectedChunk DEF SelectChunk, ScanInit, PassTypeOK, given
  <2>2. ChunkInv'
    BY <1>2, SelectedChunk DEF SelectChunk, ChunkInv, given
  <2>. QED  BY <1>2, <2>1, <2>2 DEF SelectChunk, given
<1>3. CASE ScanStep
  <2>1. CASE ScanCut
    <3>1. start \in Nat /\ next - 1 \in Nat /\ ranges \in Seq([first : Nat, last : Nat])
      BY <2>1 DEF ScanCut, PassTypeOK
    <3>2. ranges' \in Seq([first : Nat, last : Nat]) /\ Len(ranges') = Len(ranges) + 1
      BY <2>1, <3>1, AppendRange DEF ScanCut
    <3>3. /\ next' \in 1 .. Len(est) + 1 /\ start' \in 1 .. Len(est) + 1 /\ maxEst' \in Nat
          /\ UNCHANGED <<est, budget, bucketed>>
      BY <2>1 DEF ScanCut, ScanDone, PassTypeOK
    <3>4. done \in 0 .. Len(ranges')
      BY <3>1, <3>2 DEF PassTypeOK
    <3>. QED  BY <1>3, <3>2, <3>3, <3>4 DEF ScanStep, PassTypeOK, ChunkInv, passVars
  <2>2. CASE ScanTake
    BY <1>3, <2>2 DEF ScanStep, ScanTake, ScanDone, MaxWith, Larger, PassTypeOK, ChunkInv, passVars
  <2>. QED  BY <1>3, <2>1, <2>2 DEF ScanStep
<1>4. CASE ScanFinish
  <2>1. start \in Nat /\ Len(est) \in Nat /\ ranges \in Seq([first : Nat, last : Nat])
    BY DEF PassTypeOK
  <2>2. /\ ranges' \in Seq([first : Nat, last : Nat])
        /\ Len(ranges') = Len(ranges) + 1 \/ Len(ranges') = Len(ranges)
    BY <1>4, <2>1, AppendRange DEF ScanFinish, ScanEnd, LastRange
  <2>. QED  BY <1>4, <2>1, <2>2 DEF ScanFinish, ScanEnd, ScanDone, PassTypeOK, ChunkInv
<1>5. CASE EmbedBatch
  <2>. DEFINE r == ranges[done + 1]
              items == BatchItems(r)
  <2>1. items \subseteq Item \ unreadable
    <3>1. done + 1 \in 1 .. Len(ranges) /\ chunk \in Seq(Item)
      BY <1>5 DEF EmbedBatch, PassTypeOK
    <3>2. \A k \in r.first .. r.last : k \in 1 .. Len(chunk)
      BY <3>1, RangeInChunk
    <3>. QED  BY <3>1, <3>2 DEF BatchItems, ChunkInv
  <2>2. buffer' \subseteq Item /\ committed' \subseteq Item \ unreadable
    BY <1>5, <2>1 DEF EmbedBatch, FlushBuffer, PassTypeOK, RowInv
  <2>3. times' \in [Item -> 0 .. 2]
    BY <1>5 DEF EmbedBatch, Capped, PassTypeOK
  <2>4. elapsed' \in 0 .. Interval /\ quiet' \in 0 .. Silence + 1
    BY <1>5 DEF EmbedBatch, FlushBuffer, PassTypeOK
  <2>5. done' \in 0 .. Len(ranges')
    BY <1>5 DEF EmbedBatch, PassTypeOK, batchVars, scanVars
  <2>. QED  BY <1>5, <2>2, <2>3, <2>4, <2>5
            DEF EmbedBatch, PassTypeOK, ChunkInv, batchVars, scanVars
<1>6. CASE CommitTail
  BY <1>6 DEF CommitTail, FlushBuffer, PassTypeOK, ChunkInv, RowInv, batchVars, scanVars
<1>7. CASE Stop
  BY <1>7 DEF Stop, PassTypeOK, ChunkInv, batchVars, scanVars, Ended
<1>8. CASE Tick
  BY <1>8 DEF Tick, Capped, PassTypeOK, ChunkInv, batchVars, scanVars
<1>9. CASE UNCHANGED vars
  BY <1>9 DEF vars, passVars, PassTypeOK, ChunkInv, batchVars, scanVars
<1>. QED  BY <1>1, <1>2, <1>3, <1>4, <1>5, <1>6, <1>7, <1>8, <1>9 DEF Next, Loop

\* A batch that is closed before an item that does not fit, and the item that
\* opens the next one.
LEMMA CutFits ==
  ASSUME IInv, pc = "scan", ScanCut, UNCHANGED passVars
  PROVE  CutInv'
<1>. DEFINE new == [first |-> start, last |-> next - 1]
<1>1. /\ start \in Nat /\ next \in Nat /\ start >= 1 /\ start < next /\ next <= Len(est)
      /\ ranges \in Seq([first : Nat, last : Nat]) /\ ranges' = Append(ranges, new)
      /\ start' = next /\ next' = next + 1 /\ maxEst' = est[next]
      /\ est' = est /\ budget' = budget /\ bucketed' = bucketed
      /\ pc' = pc /\ chunk' = chunk /\ Len(est) \in Nat /\ new \in [first : Nat, last : Nat]
  BY DEF ScanCut, ScanDone, IInv, PassTypeOK, passVars
<1>2. RangesPartition'
  BY <1>1, AppendPartition DEF IInv, CutInv
<1>3. Fits(start, next - 1)
  BY <1>1 DEF IInv, CutInv
<1>4. \A k \in 1 .. Len(ranges') :
        ranges'[k].last <= Len(est) /\ Fits(ranges'[k].first, ranges'[k].last)
  BY <1>1, <1>3, AppendRange DEF IInv, CutInv
<1>5. \A f, l : Fits(f, l)' <=> Fits(f, l)
  BY <1>1 DEF Fits
<1>6. Fits(start', next' - 1)
  BY <1>1 DEF Fits
<1>7. pc = "scan" /\ Len(chunk) > 0
  BY DEF IInv, CutInv
<1>. HIDE DEF new
<1>. QED  BY <1>1, <1>2, <1>4, <1>5, <1>6, <1>7 DEF CutInv

\* An item that is put into the open batch fits.
LEMMA TakeFits ==
  ASSUME IInv, pc = "scan", ScanTake, UNCHANGED passVars
  PROVE  CutInv'
<1>1. /\ start \in Nat /\ next \in Nat /\ start >= 1 /\ start <= next /\ next <= Len(est)
      /\ ranges \in Seq([first : Nat, last : Nat]) /\ ranges' = ranges
      /\ start' = start /\ next' = next + 1
      /\ est' = est /\ budget' = budget /\ bucketed' = bucketed
      /\ pc' = pc /\ chunk' = chunk /\ Len(est) \in Nat /\ est \in Seq(Nat) /\ maxEst \in Nat
  BY DEF ScanTake, ScanDone, IInv, PassTypeOK, CutInv, passVars
<1>2. maxEst <= est[next]
  <2>1. CASE next = 1
    BY <1>1, <2>1 DEF IInv, CutInv
  <2>2. CASE next # 1
    <3>1. next - 1 \in 1 .. Len(chunk) /\ next \in 1 .. Len(chunk) /\ next - 1 < next
      BY <1>1, <2>2 DEF IInv, ChunkInv
    <3>2. est[next - 1] <= est[next]
      BY <3>1 DEF IInv, ChunkInv
    <3>. QED  BY <2>2, <3>2 DEF IInv, CutInv
  <2>. QED  BY <2>1, <2>2
<1>3. maxEst' = est[next] /\ MaxWith = est[next] /\ est[next] \in Nat
  BY <1>1, <1>2 DEF ScanTake, MaxWith, Larger
<1>4. Fits(start, next)
  <2>1. CASE start = next
    BY <2>1 DEF Fits
  <2>2. CASE start < next /\ bucketed
    <3>1. next - start + 1 <= RowsForSeq(PadSeq(est[next]))
      BY <1>1, <1>3, <2>2, RowsOfBucket DEF ScanTake, OverBucket, RowsWith
    <3>. QED  BY <1>3, <2>2, <3>1, RowsOfBucket DEF Fits
  <2>3. CASE start < next /\ ~ bucketed
    <3>1. est[next] * (next - start + 1) <= budget /\ next - start < MaxBatch
      BY <1>1, <1>3, <2>3, ConstantTypes DEF ScanTake, OverBudget, RowsWith, IInv, PassTypeOK
    <3>. QED  BY <1>1, <2>3, <3>1, ConstantTypes DEF Fits
  <2>. QED  BY <1>1, <2>1, <2>2, <2>3
<1>5. \A f, l : Fits(f, l)' <=> Fits(f, l)
  BY <1>1 DEF Fits
<1>6. RangesPartition'
  BY <1>1 DEF IInv, CutInv, RangesPartition
<1>7. next' - 1 = next /\ (start' = next' => FALSE) /\ (next' = 1 => FALSE) /\ start' <= next'
  BY <1>1
<1>. QED  BY <1>1, <1>3, <1>4, <1>5, <1>6, <1>7 DEF IInv, CutInv

LEMMA EndFits ==
  ASSUME IInv, ScanFinish
  PROVE  CutInv'
<1>1. /\ start \in Nat /\ start >= 1 /\ start <= next /\ next = Len(est) + 1
      /\ ranges \in Seq([first : Nat, last : Nat]) /\ Len(est) > 0
      /\ start' = Len(est) + 1 /\ next' = next /\ maxEst' = maxEst
      /\ est' = est /\ budget' = budget /\ bucketed' = bucketed
      /\ pc' = "embed" /\ chunk' = chunk /\ Len(est) \in Nat /\ Len(chunk) > 0
  BY DEF ScanFinish, ScanEnd, ScanDone, IInv, PassTypeOK, CutInv, ChunkInv
<1>2. start <= Len(est)
  BY <1>1 DEF IInv, CutInv, ScanFinish
<1>. DEFINE new == [first |-> start, last |-> Len(est)]
<1>3. ranges' = Append(ranges, new) /\ new \in [first : Nat, last : Nat]
  BY <1>1, <1>2 DEF ScanFinish, ScanEnd, LastRange
<1>4. RangesPartition'
  BY <1>1, <1>2, <1>3, AppendPartition DEF IInv, CutInv
<1>5. Fits(start, Len(est))
  BY <1>1, <1>2 DEF IInv, CutInv
<1>6. \A k \in 1 .. Len(ranges') :
        ranges'[k].last <= Len(est) /\ Fits(ranges'[k].first, ranges'[k].last)
  BY <1>1, <1>3, <1>5, AppendRange DEF IInv, CutInv
<1>7. \A f, l : Fits(f, l)' <=> Fits(f, l)
  BY <1>1 DEF Fits
<1>8. ~ start' < next' /\ start' <= next' /\ ~ pc' = "scan"
  BY <1>1
<1>9. (IF next = 1 THEN maxEst = 0 ELSE maxEst = est[next - 1])'
  BY <1>1 DEF IInv, CutInv
<1>. HIDE DEF new
<1>. QED  BY <1>1, <1>4, <1>6, <1>7, <1>8, <1>9 DEF CutInv

LEMMA CutStep == IInv /\ [Next]_vars => CutInv'
<1>. SUFFICES ASSUME IInv, [Next]_vars PROVE CutInv'
  OBVIOUS
<1>1. CASE SelectChunk
  <2>1. /\ next' = 1 /\ start' = 1 /\ maxEst' = 0 /\ ranges' = <<>> /\ pc' = "scan" /\ Len(chunk') > 0
    BY <1>1, SelectedChunk DEF SelectChunk, ScanInit
  <2>. QED  BY <2>1 DEF CutInv, RangesPartition
<1>2. CASE ScanStep
  BY <1>2, CutFits, TakeFits DEF ScanStep
<1>3. CASE ScanFinish
  BY <1>3, EndFits
<1>4. CASE /\ UNCHANGED <<batchVars, chunk>>
           /\ pc' \in {pc, "select"} \cup Ended
  <2>1. \A f, l : Fits(f, l)' <=> Fits(f, l)
    BY <1>4 DEF Fits, batchVars
  <2>2. RangesPartition'
    BY <1>4 DEF RangesPartition, IInv, CutInv, batchVars, scanVars
  <2>. QED  BY <1>4, <2>1, <2>2 DEF IInv, CutInv, batchVars, scanVars, Ended
<1>5. CASE SelectNothing \/ EmbedBatch \/ CommitTail \/ Stop \/ Tick \/ UNCHANGED vars
  BY <1>4, <1>5
     DEF SelectNothing, NoText, EmbedBatch, CommitTail, Stop, Tick, vars, passVars, Ended
<1>. QED  BY <1>1, <1>2, <1>3, <1>5 DEF Next, Loop

-----------------------------------------------------------------------------
(* Rows.                                                                   *)

\* A batch that is embedded is new, and so are all items behind it.
LEMMA BatchIsNew ==
  ASSUME IInv, EmbedBatch
  PROVE  LET r     == ranges[done + 1]
             items == BatchItems(r)
         IN /\ done + 1 \in 1 .. Len(ranges) /\ EmbeddedUpTo' = r.last
            /\ items \subseteq Item /\ items # {}
            /\ items \cap (committed \cup buffer) = {} /\ items \cap unreadable = {}
            /\ \A k \in 1 .. Len(chunk) : k > r.last => chunk[k] \notin items \cup committed \cup buffer
<1>. DEFINE r     == ranges[done + 1]
            items == BatchItems(r)
<1>1. done \in Nat /\ done + 1 \in 1 .. Len(ranges) /\ chunk \in Seq(Item) /\ Len(chunk) \in Nat
  BY DEF EmbedBatch, IInv, PassTypeOK
<1>2. /\ r.first \in Nat /\ r.last \in Nat /\ 1 <= r.first /\ r.first <= r.last /\ r.last <= Len(chunk)
      /\ r.first = IF done = 0 THEN 1 ELSE ranges[done].last + 1
  BY <1>1, RangeInChunk
<1>3. done # 0 => ranges[done].last \in Nat
  BY <1>1, RangeInChunk
<1>4. \A k \in 1 .. Len(chunk) : k >= r.first => k > EmbeddedUpTo
  BY <1>1, <1>2, <1>3 DEF EmbeddedUpTo
<1>5. \A k \in 1 .. Len(chunk) : k >= r.first => chunk[k] \notin committed \cup buffer
  BY <1>4 DEF IInv, RowInv, EmbedBatch
<1>6. EmbeddedUpTo' = r.last
  BY <1>1 DEF EmbedBatch, EmbeddedUpTo, batchVars, scanVars
<1>7. \A k \in r.first .. r.last : k \in 1 .. Len(chunk) /\ k >= r.first /\ chunk[k] \in Item
  BY <1>1, <1>2
<1>8. items = {chunk[k] : k \in r.first .. r.last}
  BY DEF BatchItems
<1>. HIDE DEF r, items
<1>9. items \subseteq Item /\ items # {} /\ items \cap (committed \cup buffer) = {}
  BY <1>2, <1>5, <1>7, <1>8
<1>10. items \cap unreadable = {}
  BY <1>7, <1>8 DEF IInv, ChunkInv
<1>11. ASSUME NEW k \in 1 .. Len(chunk), k > r.last
       PROVE  chunk[k] \notin items \cup committed \cup buffer
  <2>1. \A j \in r.first .. r.last : j < k /\ j \in 1 .. Len(chunk)
    BY <1>2, <1>7, <1>11
  <2>2. chunk[k] \notin items
    BY <1>8, <2>1 DEF IInv, ChunkInv
  <2>. QED  BY <1>2, <1>5, <1>11, <2>2
<1>. QED  BY <1>1, <1>6, <1>9, <1>10, <1>11 DEF r, items

LEMMA EmbedRows ==
  ASSUME IInv, EmbedBatch
  PROVE  RowInv' /\ EmbeddedOnce'
<1>. DEFINE items == BatchItems(ranges[done + 1])
<1>1. committed' \cup buffer' = committed \cup buffer \cup items
  BY DEF EmbedBatch, FlushBuffer
<1>2. buffer' \subseteq buffer \cup items
  BY DEF EmbedBatch, FlushBuffer
<1>3. items \subseteq Item /\ items \cap (committed \cup buffer) = {} /\ items \cap unreadable = {}
  BY BatchIsNew
<1>4. times = [i \in Item |-> IF i \in committed \cup buffer THEN 1 ELSE 0]
  BY DEF EmbedBatch, IInv, RowInv, Ended
<1>5. times' = [i \in Item |-> IF i \in items THEN Capped(times[i], 2) ELSE times[i]]
  BY DEF EmbedBatch
<1>6. pc = "embed" /\ pc' = pc /\ unreadable' = unreadable /\ chunk' = chunk
  BY DEF EmbedBatch
<1>7. \A k \in 1 .. Len(chunk') : k > EmbeddedUpTo' => chunk'[k] \notin committed' \cup buffer'
  BY <1>1, <1>6, BatchIsNew
<1>. HIDE DEF items
<1>8. times' = [i \in Item |-> IF i \in committed' \cup buffer' THEN 1 ELSE 0]
  BY <1>1, <1>3, <1>4, <1>5 DEF Capped
<1>9. (buffer \cap unreadable) = {}
  BY DEF IInv, RowInv
<1>10. (buffer' \cap unreadable') = {}
  BY <1>2, <1>3, <1>6, <1>9
<1>11. RowInv'
  BY <1>6, <1>7, <1>8, <1>10 DEF RowInv
<1>12. EmbeddedOnce'
  BY <1>8 DEF EmbeddedOnce
<1>. QED  BY <1>11, <1>12

LEMMA RowStep == IInv /\ [Next]_vars => RowInv' /\ EmbeddedOnce'
<1>. SUFFICES ASSUME IInv, [Next]_vars PROVE RowInv' /\ EmbeddedOnce'
  OBVIOUS
<1>. USE DEF IInv, RowInv, EmbeddedOnce, Ended, EmbeddedUpTo
<1>1. CASE SelectNothing
  BY <1>1 DEF SelectNothing, NoText
<1>2. CASE SelectChunk
  <2>1. /\ pc = "select" /\ pc' = "scan" /\ done' = 0 /\ buffer = {}
        /\ UNCHANGED <<unreadable, buffer, committed, times>>
    BY <1>2 DEF SelectChunk, given
  <2>2. \A k \in 1 .. Len(chunk') : chunk'[k] \notin committed' \cup buffer'
    BY <1>2, <2>1, SelectedChunk
  <2>. QED  BY <2>1, <2>2
<1>3. CASE ScanStep
  BY <1>3 DEF ScanStep, passVars
<1>4. CASE ScanFinish
  BY <1>4 DEF ScanFinish
<1>5. CASE EmbedBatch
  BY <1>5, EmbedRows
<1>6. CASE CommitTail
  <2>1. committed' \cup buffer' = committed \cup buffer /\ buffer' = {}
    BY <1>6 DEF CommitTail, FlushBuffer, RestPending
  <2>. QED  BY <1>6, <2>1 DEF CommitTail
<1>7. CASE Stop
  BY <1>7 DEF Stop
<1>8. CASE Tick
  BY <1>8 DEF Tick, Running, batchVars, scanVars
<1>9. CASE UNCHANGED vars
  BY <1>9 DEF vars, passVars, batchVars, scanVars
<1>. QED  BY <1>1, <1>2, <1>3, <1>4, <1>5, <1>6, <1>7, <1>8, <1>9 DEF Next, Loop

-----------------------------------------------------------------------------
(* The clock.                                                              *)

LEMMA ClockStep == IInv /\ [Next]_vars => ClockInv'
<1>. SUFFICES ASSUME IInv, [Next]_vars PROVE ClockInv'
  OBVIOUS
<1>. USE PassTypes DEF Ended
<1>0. /\ elapsed \in Nat /\ quiet \in Nat /\ busy \in Nat /\ Len(ranges) \in Nat
      /\ done \in 0 .. Len(ranges)
  BY DEF IInv, PassTypeOK
<1>1. CASE SelectNothing
  BY <1>0, <1>1 DEF SelectNothing, NoText, IInv, ClockInv
<1>2. CASE SelectChunk
  BY <1>0, <1>2 DEF SelectChunk, IInv, ClockInv
<1>3. CASE ScanStep
  BY <1>3 DEF ScanStep, passVars, IInv, ClockInv
<1>4. CASE ScanFinish
  <2>1. pc = "scan" /\ pc' = "embed" /\ done = 0 /\ buffer = {} /\ busy = 0 /\ quiet <= SelectTime
    BY <1>4 DEF ScanFinish, IInv, ClockInv, RowInv
  <2>. QED  BY <1>0, <1>4, <2>1 DEF ScanFinish, IInv, ClockInv
<1>5. CASE EmbedBatch
  <2>. DEFINE buffered == buffer \cup BatchItems(ranges[done + 1])
  <2>1. buffered # {} /\ pc' = "embed" /\ busy' = 0 /\ done' = done + 1
    BY <1>5, BatchIsNew DEF EmbedBatch
  <2>2. CASE ShouldFlush(buffered)
    <3>1. elapsed' = 0 /\ quiet' = 0 /\ buffer' = {}
      BY <1>5, <2>2 DEF EmbedBatch, FlushBuffer
    <3>. QED  BY <1>0, <2>1, <3>1 DEF ClockInv
  <2>3. CASE ~ ShouldFlush(buffered)
    <3>1. elapsed' = elapsed /\ quiet' = quiet /\ buffer' = buffered
      BY <1>5, <2>3 DEF EmbedBatch
    <3>2. ~ elapsed >= Interval
      BY <2>1, <2>3 DEF ShouldFlush
    <3>3. quiet < Interval
      BY <1>0, <3>2 DEF IInv, ClockInv
    <3>. HIDE DEF buffered
    <3>. QED  BY <1>0, <2>1, <3>1, <3>3 DEF IInv, ClockInv
  <2>. QED  BY <2>2, <2>3
<1>6. CASE CommitTail
  <2>1. done > 0 /\ busy = 0
    <3>1. ranges # <<>>
      BY <1>6 DEF CommitTail, IInv, CutInv, ChunkInv, RangesPartition
    <3>2. Len(ranges) > 0
      BY <3>1 DEF IInv, PassTypeOK
    <3>. QED  BY <1>0, <1>6, <3>2 DEF CommitTail, IInv, ClockInv
  <2>2. quiet' = 0 /\ elapsed' = 0
    <3>1. CASE buffer = {}
      BY <1>0, <1>6, <2>1, <3>1 DEF CommitTail, RestPending, IInv, ClockInv
    <3>2. CASE buffer # {}
      BY <1>6, <3>2 DEF CommitTail, RestPending, FlushBuffer
    <3>. QED  BY <3>1, <3>2
  <2>. QED  BY <1>6, <2>1, <2>2 DEF CommitTail, ClockInv
<1>7. CASE Stop
  BY <1>7 DEF Stop, IInv, ClockInv
<1>8. CASE Tick
  <2>1. quiet <= Silence
    BY <1>0, <1>8 DEF Tick, Running, IInv, ClockInv
  <2>2. /\ quiet' = quiet + 1 /\ busy' = busy + 1
        /\ elapsed' = IF quiet' < Interval THEN quiet' ELSE Interval
    BY <1>0, <1>8, <2>1 DEF Tick, Capped, IInv, ClockInv
  <2>3. UNCHANGED <<pc, done, buffer, ranges>>
    BY <1>8 DEF Tick, batchVars, scanVars
  <2>. QED  BY <1>0, <1>8, <2>2, <2>3 DEF Tick, Running, IInv, ClockInv
<1>9. CASE UNCHANGED vars
  BY <1>9 DEF vars, passVars, batchVars, scanVars, IInv, ClockInv
<1>. QED  BY <1>1, <1>2, <1>3, <1>4, <1>5, <1>6, <1>7, <1>8, <1>9 DEF Next, Loop

-----------------------------------------------------------------------------
(* The theorems.                                                           *)

THEOREM InductiveInvariant == Spec => []IInv
<1>1. IInv /\ [Next]_vars => IInv'
  BY TypesStep, CutStep, RowStep, ClockStep DEF IInv
<1>. QED  BY <1>1, InitIInv, PTL DEF Spec

\* The loop's state is well typed: an unreadable row is never committed.
THEOREM PassTypeCorrect == Spec => []PassTypeOK
<1>1. IInv => PassTypeOK
  BY DEF IInv
<1>. QED  BY <1>1, InductiveInvariant, PTL

\* However the estimates lie, the batches of a chunk cover it in order.
THEOREM BatchesPartition == Spec => []RangesPartition
<1>1. IInv => RangesPartition
  BY DEF IInv, CutInv
<1>. QED  BY <1>1, InductiveInvariant, PTL

\* No tensor is larger than the budget, or has more rows than its bucket, but
\* when the tokenizer finds more than was estimated.
THEOREM BatchesFit == Spec => []ShapesBounded
<1>1. IInv => ShapesBounded
  <2>. SUFFICES ASSUME IInv, NEW r \in Batches, NEW longest \in 1 .. MaxSeq,
                       ~ Underestimated(r, longest)
                PROVE  ShapeFits(Shape(r, longest))
    BY DEF ShapesBounded
  <2>. DEFINE l == r.last
              n == r.last - r.first + 1
  <2>0. PICK k \in 1 .. Len(ranges) : r = ranges[k]
    BY DEF Batches, IInv, PassTypeOK
  <2>1. r.first \in Nat /\ l \in Nat /\ 1 <= r.first /\ r.first <= l /\ l <= Len(est)
    BY <2>0, RangeInChunk DEF IInv, ChunkInv
  <2>. HIDE DEF l
  <2>6. est[l] \in Nat
    <3>1. l \in 1 .. Len(est) /\ est \in Seq(Nat)
      BY <2>1 DEF IInv, PassTypeOK
    <3>. QED  BY <3>1
  <2>7. n \in Nat /\ n >= 1 /\ Size(r) = n
    BY <2>1 DEF Size, l
  <2>. HIDE DEF n
  <2>8. n = l - r.first + 1 /\ r.last = l
    BY DEF n, l
  <2>2. Fits(r.first, l)
    BY <2>0 DEF IInv, CutInv, l
  <2>3. longest \in Nat /\ longest <= MaxSeq /\ budget \in Nat /\ budget >= MaxSeq
    BY ConstantTypes DEF IInv, PassTypeOK
  <2>4. CASE bucketed
    <3>1. n <= RowsPerSeq[PadSeq(longest)]
      <4>1. CASE n = 1
        <5>1. RowsPerSeq[PadSeq(longest)] \in 1 .. MaxBatch
          BY <2>3, RowsOfBucket
        <5>. QED  BY <4>1, <5>1, ConstantTypes
      <4>2. CASE n # 1
        <5>1. PadSeq(longest) <= PadSeq(est[l])
          <6>1. ~ PadSeq(longest) > PadSeq(est[r.last])
            BY <2>4, <2>7, <4>2 DEF Underestimated
          <6>2. PadSeq(longest) \in Nat /\ PadSeq(est[l]) \in Nat
            BY <2>3, <2>6, PadSeqIsBucket
          <6>. QED  BY <2>8, <6>1, <6>2
        <5>2. n <= RowsPerSeq[PadSeq(est[l])]
          BY <2>1, <2>2, <2>4, <2>7, <2>8, <4>2 DEF Fits
        <5>3. RowsPerSeq[PadSeq(est[l])] <= RowsPerSeq[PadSeq(longest)]
          BY <2>3, <2>6, <5>1, PadSeqIsBucket, BatchingAssumption
        <5>4. RowsPerSeq[PadSeq(est[l])] \in Nat /\ RowsPerSeq[PadSeq(longest)] \in Nat
          <6>1. /\ RowsPerSeq[PadSeq(est[l])] \in 1 .. MaxBatch
                /\ RowsPerSeq[PadSeq(longest)] \in 1 .. MaxBatch
            BY <2>3, <2>6, RowsOfBucket
          <6>. QED  BY <6>1, ConstantTypes
        <5>. QED  BY <2>7, <5>2, <5>3, <5>4
      <4>. QED  BY <4>1, <4>2
    <3>2. /\ Shape(r, longest).rows = PadBatch(n, PadSeq(longest))
          /\ Shape(r, longest).width = PadSeq(longest)
      BY <2>4, <2>7 DEF Shape
    <3>. QED  BY <2>3, <2>4, <2>7, <3>1, <3>2, PadBatchBounded DEF ShapeFits
  <2>5. CASE ~ bucketed
    <3>1. Shape(r, longest).rows = n /\ Shape(r, longest).width = longest
      BY <2>5, <2>7 DEF Shape
    <3>2. n * longest <= budget /\ n <= MaxBatch
      <4>1. CASE n = 1
        BY <2>3, <4>1, ConstantTypes
      <4>2. CASE n # 1
        <5>1. longest <= est[l]
          BY <2>3, <2>5, <2>6, <2>7, <2>8, <4>2 DEF Underestimated
        <5>2. est[l] * n <= budget /\ n <= MaxBatch
          BY <2>1, <2>2, <2>5, <2>7, <2>8, <4>2 DEF Fits
        <5>3. n * longest <= est[l] * n
          BY <2>3, <2>6, <2>7, <5>1
        <5>. QED  BY <2>3, <2>6, <2>7, <5>2, <5>3
      <4>. QED  BY <4>1, <4>2
    <3>. QED  BY <2>3, <2>5, <2>7, <3>1, <3>2 DEF ShapeFits
  <2>. QED  BY <2>4, <2>5
<1>. QED  BY <1>1, InductiveInvariant, PTL

\* The row count stands still for at most one interval (or select) and a batch.
THEOREM SilenceIsBounded == Spec => []WatchdogFed
<1>1. IInv => WatchdogFed
  <2>. SUFFICES ASSUME IInv, pc \notin Ended PROVE quiet <= Silence
    BY DEF WatchdogFed
  <2>1. quiet \in Nat /\ busy \in Nat /\ done \in Nat
    BY DEF IInv, PassTypeOK
  <2>2. pc \in {"select", "scan", "embed"}
    BY DEF IInv, PassTypeOK
  <2>. QED  BY <2>1, <2>2, PassTypes DEF IInv, ClockInv
<1>. QED  BY <1>1, InductiveInvariant, PTL

\* No item is embedded twice.
THEOREM ItemsEmbeddedOnce == Spec => []EmbeddedOnce
<1>1. IInv => EmbeddedOnce
  BY DEF IInv
<1>. QED  BY <1>1, InductiveInvariant, PTL

\* Success means that every pending item has its row.
THEOREM SuccessIsComplete == Spec => []NoSilentEnd
<1>. DEFINE Inv == IInv /\ NoSilentEnd
<1>1. Init => Inv
  BY InitIInv DEF Init, NoSilentEnd
<1>2. Inv /\ [Next]_vars => Inv'
  <2>. SUFFICES ASSUME Inv, [Next]_vars PROVE NoSilentEnd'
    BY TypesStep, CutStep, RowStep, ClockStep DEF IInv
  <2>1. CASE SelectNothing
    <3>1. PICK S \in Selection : Decoded(S) = {} /\ pc' = NoText(S)
      BY <2>1 DEF SelectNothing
    <3>2. CASE S = {}
      <4>1. IsFiniteSet(Waiting) /\ Cardinality(Waiting) \in Nat
        BY PassAssumption, FS_Subset, FS_CardinalityType, Waiting \subseteq Item DEF Waiting
      <4>2. Cardinality(Waiting) = 0
        BY <3>2, <4>1, FS_EmptySet, PassTypes DEF Selection
      <4>3. Waiting = {}
        BY <4>1, <4>2, FS_EmptySet
      <4>. QED  BY <2>1, <4>3 DEF SelectNothing, NoSilentEnd, Waiting, IInv, PassTypeOK, RowInv
    <3>3. CASE S # {}
      BY <3>1, <3>3 DEF NoText, NoSilentEnd
    <3>. QED  BY <3>2, <3>3
  <2>2. CASE SelectChunk \/ ScanStep \/ ScanFinish \/ EmbedBatch \/ CommitTail \/ Stop \/ Tick
    <3>1. pc' # "done"
      BY <2>2 DEF SelectChunk, ScanStep, ScanFinish, EmbedBatch, CommitTail, Stop, Tick,
                  Running, passVars
    <3>. QED  BY <3>1 DEF NoSilentEnd
  <2>3. CASE UNCHANGED vars
    BY <2>3 DEF vars, passVars, NoSilentEnd
  <2>. QED  BY <2>1, <2>2, <2>3 DEF Next, Loop
<1>3. Inv => NoSilentEnd
  OBVIOUS
<1>. QED  BY <1>1, <1>2, <1>3, PTL DEF Spec
-----------------------------------------------------------------------------
(* The loop implements a pass of Freshness, from the moment its model and  *)
(* clauses are chosen and while the daemon is quiet: a row is either       *)
(* pending, held with the rest of its chunk, or committed.                 *)

ChunkItems == {chunk[k] : k \in 1 .. Len(chunk)}
Holding    == IF pc \in {"scan", "embed"} THEN ChunkItems \ committed ELSE {}

StoreVec   == [i \in Item |-> [m \in {"model"} |-> IF i \in committed THEN "text" ELSE "norow"]]
StoreHeld  == [i \in Item |-> IF i \in Holding THEN "text" ELSE "norow"]
StorePass  == IF pc \in Ended THEN "idle" ELSE "embedding"
StoreScope == IF pc \in Ended THEN {} ELSE Item

Store == INSTANCE Freshness WITH
           Node <- Item, DocNode <- {}, NoiseNode <- {}, Text <- {"text"}, Model <- {"model"},
           Absent <- "absent", NullText <- "null", Fallback <- "fallback",
           NoHash <- "nohash", NoRow <- "norow", DocVerifyMaxRows <- 0, Scope <- {Item},
           node <- [i \in Item |-> "text"], tomb <- {}, pruned <- {}, touched <- {},
           vec <- StoreVec, pass <- StorePass, cur <- "model", scope <- StoreScope,
           held <- StoreHeld

\* The steps of a pass: success is the end of Freshness's loop, and any other
\* outcome its crash.
StoreStep ==
  \/ \E S \in SUBSET Item : Store!SelectChunk(S) \/ Store!CommitRows(S)
  \/ pc' = "done" /\ Store!EndPass
  \/ pc' \in {"failed", "died"} /\ Store!Crash

\* What was embedded of a chunk is committed or buffered, and nothing else is.
HeldInv ==
  pc = "embed" =>
    /\ buffer \subseteq ChunkItems /\ buffer \cap committed = {}
    /\ \A k \in 1 .. Len(chunk) : k <= EmbeddedUpTo => chunk[k] \in committed \cup buffer

\* A batch is a part of its chunk.
LEMMA BatchInChunk ==
  ASSUME IInv, EmbedBatch
  PROVE  BatchItems(ranges[done + 1]) \subseteq ChunkItems
<1>1. done + 1 \in 1 .. Len(ranges)
  BY BatchIsNew
<1>2. /\ ranges[done + 1].first \in Nat /\ ranges[done + 1].last \in Nat
      /\ 1 <= ranges[done + 1].first /\ ranges[done + 1].last <= Len(chunk)
  BY <1>1, RangeInChunk
<1>3. Len(chunk) \in Nat
  BY DEF IInv, PassTypeOK
<1>4. \A k \in ranges[done + 1].first .. ranges[done + 1].last : k \in 1 .. Len(chunk)
  BY <1>2, <1>3
<1>. QED  BY <1>4 DEF BatchItems, ChunkItems

LEMMA HeldStep == IInv /\ HeldInv /\ [Next]_vars => HeldInv'
<1>. SUFFICES ASSUME IInv, HeldInv, [Next]_vars, pc' = "embed" PROVE HeldInv'
  BY DEF HeldInv
<1>1. CASE ScanFinish
  <2>1. pc = "scan" /\ buffer' = {} /\ done' = 0 /\ chunk' = chunk
    BY <1>1 DEF ScanFinish, IInv, RowInv
  <2>2. EmbeddedUpTo' = 0
    BY <2>1 DEF EmbeddedUpTo
  <2>3. \A k \in 1 .. Len(chunk') : ~ k <= EmbeddedUpTo'
    BY <2>2
  <2>. QED  BY <2>1, <2>3 DEF HeldInv
<1>2. CASE EmbedBatch
  <2>. DEFINE r == ranges[done + 1]
              items == BatchItems(r)
  <2>1. /\ done \in Nat /\ done + 1 \in 1 .. Len(ranges) /\ EmbeddedUpTo' = r.last /\ items \subseteq Item
        /\ items \cap (committed \cup buffer) = {}
    BY <1>2, BatchIsNew DEF IInv, PassTypeOK
  <2>2. /\ r.first \in Nat /\ r.last \in Nat /\ 1 <= r.first /\ r.last <= Len(chunk)
        /\ r.first = EmbeddedUpTo + 1 /\ EmbeddedUpTo \in Nat
    <3>1. done # 0 => done \in 1 .. Len(ranges)
      BY <2>1
    <3>2. done # 0 => ranges[done].last \in Nat
      BY <3>1, RangeInChunk
    <3>3. /\ r.first \in Nat /\ r.last \in Nat /\ 1 <= r.first /\ r.last <= Len(chunk)
          /\ r.first = IF done = 0 THEN 1 ELSE ranges[done].last + 1
      BY <2>1, RangeInChunk
    <3>. QED  BY <3>2, <3>3 DEF EmbeddedUpTo
  <2>3. items = {chunk[k] : k \in r.first .. r.last} /\ items \subseteq ChunkItems
    BY <1>2, BatchInChunk DEF BatchItems
  <2>4. committed' \cup buffer' = committed \cup buffer \cup items /\ chunk' = chunk /\ pc = "embed"
    BY <1>2 DEF EmbedBatch, FlushBuffer
  <2>5. \/ buffer' = {}
        \/ buffer' = buffer \cup items /\ committed' = committed
    BY <1>2 DEF EmbedBatch, FlushBuffer
  <2>. HIDE DEF items, r
  <2>6. buffer' \subseteq ChunkItems' /\ buffer' \cap committed' = {}
    BY <2>1, <2>3, <2>4, <2>5 DEF HeldInv, ChunkItems
  <2>7. ASSUME NEW k \in 1 .. Len(chunk), k <= r.last PROVE chunk[k] \in committed' \cup buffer'
    <3>1. CASE k <= EmbeddedUpTo
      BY <2>4, <3>1 DEF HeldInv
    <3>2. CASE ~ k <= EmbeddedUpTo
      <4>1. k \in r.first .. r.last
        BY <2>2, <2>7, <3>2
      <4>. QED  BY <2>3, <2>4, <4>1
    <3>. QED  BY <3>1, <3>2
  <2>. QED  BY <2>1, <2>4, <2>6, <2>7 DEF HeldInv
<1>3. CASE Tick \/ UNCHANGED vars
  BY <1>3 DEF Tick, Running, vars, passVars, batchVars, scanVars, HeldInv, EmbeddedUpTo, ChunkItems
<1>4. CASE SelectNothing \/ SelectChunk \/ ScanStep \/ CommitTail \/ Stop
  BY <1>4 DEF SelectNothing, NoText, SelectChunk, ScanStep, passVars, CommitTail, Stop, HeldInv
<1>. QED  BY <1>1, <1>2, <1>3, <1>4 DEF Next, Loop

\* Behind the last batch nothing of the chunk is left.
LEMMA ChunkIsEmbedded ==
  ASSUME IInv, HeldInv, CommitTail
  PROVE  ChunkItems \subseteq committed \cup buffer
<1>1. pc = "embed" /\ done = Len(ranges) /\ start = Len(est) + 1 /\ Len(est) = Len(chunk) /\ Len(chunk) > 0
  BY DEF CommitTail, IInv, CutInv, ChunkInv
<1>2. ranges \in Seq([first : Nat, last : Nat]) /\ Len(chunk) \in Nat
  BY DEF IInv, PassTypeOK
<1>3. ranges # <<>>
  BY <1>1, <1>2 DEF IInv, CutInv, RangesPartition
<1>4. Len(ranges) \in 1 .. Len(ranges) /\ Len(ranges) # 0
  BY <1>2, <1>3
<1>5. start = ranges[Len(ranges)].last + 1 /\ ranges[Len(ranges)].last \in Nat
  BY <1>3, <1>4, RangeInChunk DEF IInv, CutInv, RangesPartition
<1>6. EmbeddedUpTo = Len(chunk)
  BY <1>1, <1>2, <1>4, <1>5 DEF EmbeddedUpTo
<1>. QED  BY <1>1, <1>2, <1>6 DEF HeldInv, ChunkItems

\* The instance's set operators are those of the library.
LEMMA StoreCardinality ==
  ASSUME NEW S
  PROVE  Store!Cardinality(S) = Cardinality(S) /\ (Store!IsFiniteSet(S) <=> IsFiniteSet(S))
BY DEF Store!Cardinality, Cardinality, Store!IsFiniteSet, IsFiniteSet

\* The pending nodes of the pass are the items without a row.
LEMMA StoreTodo ==
  ASSUME pc \notin Ended
  PROVE  Store!Todo = Waiting
BY DEF Store!Todo, Store!Pending, Store!Eligible, StoreVec, StoreScope, Waiting

\* Whatever ends the loop loses what was held.
LEMMA CrashRefines ==
  ASSUME pc \notin Ended, pc' \in {"failed", "died"}, committed' = committed
  PROVE  StoreStep
<1>1. StorePass = "embedding" /\ StorePass' = "idle" /\ StoreScope' = {} /\ StoreVec' = StoreVec
  BY DEF StorePass, StoreScope, StoreVec, Ended
<1>2. StoreHeld' = Store!NothingHeld
  BY DEF StoreHeld, Store!NothingHeld, Holding
<1>. QED  BY <1>1, <1>2 DEF StoreStep, Store!Crash, Store!graphVars

\* What is flushed is committed.
LEMMA CommitRefines ==
  ASSUME NEW S \in SUBSET Item, S # {}, pc = "embed", pc' \in {"embed", "select"},
         S \subseteq ChunkItems \ committed, committed' = committed \cup S, Holding' = Holding \ S
  PROVE  Store!CommitRows(S)
<1>1. Holding = ChunkItems \ committed
  BY DEF Holding
<1>2. StorePass = "embedding" /\ StorePass' = StorePass /\ StoreScope' = StoreScope
  BY DEF StorePass, StoreScope, Ended
<1>3. \A n \in S : StoreHeld[n] = "text"
  BY <1>1 DEF StoreHeld
<1>4. StoreVec' = [n \in Item |->
                    IF n \in S THEN [StoreVec[n] EXCEPT !["model"] = StoreHeld[n]] ELSE StoreVec[n]]
  BY <1>3 DEF StoreVec
<1>5. StoreHeld' = [n \in Item |-> IF n \in S THEN "norow" ELSE StoreHeld[n]]
  BY DEF StoreHeld
<1>. QED  BY <1>2, <1>3, <1>4, <1>5 DEF Store!CommitRows, Store!graphVars

LEMMA StoreSame ==
  ASSUME (pc' \in Ended) <=> (pc \in Ended), committed' = committed, Holding' = Holding
  PROVE  UNCHANGED Store!vars
BY DEF Store!vars, StorePass, StoreScope, StoreVec, StoreHeld

LEMMA StoreRefined == IInv /\ HeldInv /\ [Next]_vars => StoreStep \/ UNCHANGED Store!vars
<1>. SUFFICES ASSUME IInv, HeldInv, [Next]_vars PROVE StoreStep \/ UNCHANGED Store!vars
  OBVIOUS
<1>1. CASE SelectNothing
  <2>1. PICK S \in Selection : Decoded(S) = {} /\ pc' = NoText(S)
    BY <1>1 DEF SelectNothing
  <2>2. pc = "select" /\ committed' = committed
    BY <1>1 DEF SelectNothing
  <2>3. CASE S = {}
    <3>1. IsFiniteSet(Waiting) /\ Cardinality(Waiting) \in Nat
      BY PassAssumption, FS_Subset, FS_CardinalityType, Waiting \subseteq Item DEF Waiting
    <3>2. Waiting = {}
      BY <2>3, <3>1, FS_EmptySet, PassTypes DEF Selection
    <3>3. pc' = "done" /\ Store!Todo = {}
      BY <2>1, <2>2, <2>3, <3>2, StoreTodo DEF NoText, Ended
    <3>4. StorePass = "embedding" /\ StorePass' = "idle" /\ StoreScope' = {} /\ StoreVec' = StoreVec
      BY <2>2, <3>3 DEF StorePass, StoreScope, StoreVec, Ended
    <3>5. StoreHeld' = Store!NothingHeld /\ StoreHeld = Store!NothingHeld
      BY <2>2, <3>3 DEF StoreHeld, Store!NothingHeld, Holding
    <3>. QED  BY <3>3, <3>4, <3>5 DEF StoreStep, Store!EndPass, Store!graphVars
  <2>4. CASE S # {}
    BY <2>1, <2>2, <2>4, CrashRefines DEF NoText, Ended
  <2>. QED  BY <2>3, <2>4
<1>2. CASE SelectChunk
  <2>. DEFINE R == ChunkItems'
  <2>1. pc = "select" /\ pc' = "scan" /\ committed' = committed
    BY <1>2 DEF SelectChunk
  <2>2. R \subseteq Waiting /\ R # {}
    <3>1. \A k \in 1 .. Len(chunk') : chunk'[k] \in Waiting
      BY <1>2, SelectedChunk DEF Waiting
    <3>2. Len(chunk') \in Nat /\ Len(chunk') > 0
      BY <1>2, SelectedChunk
    <3>3. chunk'[1] \in R
      BY <3>2 DEF ChunkItems
    <3>. QED  BY <3>1, <3>3 DEF ChunkItems
  <2>3. IsFiniteSet(R) /\ Cardinality(R) <= ChunkRows
    <3>1. PICK S \in Selection : chunk' \in Sorted(Decoded(S))
      BY <1>2 DEF SelectChunk
    <3>2. S \subseteq Item /\ Decoded(S) \subseteq S
      BY <3>1 DEF Selection, Waiting, Decoded
    <3>3. IsFiniteSet(S) /\ IsFiniteSet(Waiting) /\ Cardinality(Waiting) \in Nat /\ Cardinality(S) \in Nat
      BY <3>2, PassAssumption, FS_Subset, FS_CardinalityType, Waiting \subseteq Item DEF Waiting
    <3>4. Cardinality(S) <= ChunkRows
      BY <3>1, <3>3, PassTypes DEF Selection
    <3>5. R \subseteq S
      <4>1. chunk' \in [1 .. Cardinality(Decoded(S)) -> Decoded(S)]
        BY <3>1 DEF Sorted
      <4>2. IsFiniteSet(Decoded(S)) /\ Cardinality(Decoded(S)) \in Nat
        BY <3>2, <3>3, FS_Subset, FS_CardinalityType
      <4>3. Len(chunk') = Cardinality(Decoded(S))
        BY <4>1, <4>2
      <4>. QED  BY <3>2, <4>1, <4>3 DEF ChunkItems
    <3>6. IsFiniteSet(R) /\ Cardinality(R) \in Nat /\ Cardinality(R) <= Cardinality(S)
      BY <3>3, <3>5, FS_Subset, FS_CardinalityType
    <3>. QED  BY <3>3, <3>4, <3>6, PassTypes
  <2>. HIDE DEF R
  <2>4. Holding = {} /\ Holding' = R
    <3>1. Holding' = ChunkItems' \ committed'
      BY <2>1 DEF Holding
    <3>. QED  BY <2>1, <2>2, <3>1 DEF Holding, R, Waiting
  <2>5. StorePass = "embedding" /\ StorePass' = StorePass /\ StoreScope' = StoreScope /\ StoreVec' = StoreVec
    BY <2>1 DEF StorePass, StoreScope, StoreVec, Ended
  <2>6. StoreHeld = Store!NothingHeld
    BY <2>4 DEF StoreHeld, Store!NothingHeld
  <2>7. StoreHeld' = [n \in Item |-> IF n \in R THEN Store!EmbedInput([i \in Item |-> "text"][n]) ELSE "norow"]
    BY <2>4 DEF StoreHeld, Store!EmbedInput
  <2>8. R \subseteq Store!Todo /\ R \in SUBSET Item
    BY <2>1, <2>2, StoreTodo DEF Ended, Waiting
  <2>9. Store!SelectChunk(R)
    BY <2>2, <2>3, <2>5, <2>6, <2>7, <2>8, StoreCardinality DEF Store!SelectChunk, Store!graphVars
  <2>. QED  BY <2>8, <2>9 DEF StoreStep
<1>3. CASE ScanStep \/ ScanFinish \/ Tick \/ UNCHANGED vars
  <2>1. /\ pc' = pc \/ (pc = "scan" /\ pc' = "embed")
        /\ UNCHANGED <<chunk, committed>>
    <3>1. CASE ScanStep \/ UNCHANGED vars
      BY <3>1 DEF ScanStep, vars, passVars, batchVars, scanVars
    <3>2. CASE ScanFinish \/ Tick
      BY <3>2 DEF ScanFinish, Tick, batchVars, scanVars
    <3>. QED  BY <1>3, <3>1, <3>2
  <2>. QED  BY <2>1, StoreSame DEF Holding, ChunkItems, Ended
<1>4. CASE EmbedBatch
  <2>. DEFINE items == BatchItems(ranges[done + 1])
              S == buffer \cup items
  <2>1. pc = "embed" /\ pc' = pc /\ chunk' = chunk /\ items # {} /\ items \subseteq Item
    BY <1>4, BatchIsNew DEF EmbedBatch
  <2>2. S \subseteq ChunkItems \ committed /\ S \subseteq Item
    <3>1. items \subseteq ChunkItems
      BY <1>4, BatchInChunk
    <3>2. items \cap committed = {}
      BY <1>4, BatchIsNew
    <3>. QED  BY <2>1, <3>1, <3>2 DEF HeldInv, IInv, PassTypeOK
  <2>3. CASE ShouldFlush(S)
    <3>1. committed' = committed \cup S
      BY <1>4, <2>3 DEF EmbedBatch, FlushBuffer
    <3>. HIDE DEF S, items
    <3>2. Holding' = Holding \ S
      BY <2>1, <3>1 DEF Holding, ChunkItems
    <3>3. S # {}
      BY <2>1 DEF S
    <3>. QED  BY <2>1, <2>2, <3>1, <3>2, <3>3, CommitRefines DEF StoreStep
  <2>4. CASE ~ ShouldFlush(S)
    <3>1. committed' = committed
      BY <1>4, <2>4 DEF EmbedBatch
    <3>. QED  BY <2>1, <3>1, StoreSame DEF Holding, ChunkItems
  <2>. QED  BY <2>3, <2>4
<1>5. CASE CommitTail
  <2>1. pc = "embed" /\ pc' = "select" /\ chunk' = chunk /\ Holding' = {}
    BY <1>5 DEF CommitTail, Holding
  <2>2. Holding \subseteq buffer
    BY <1>5, <2>1, ChunkIsEmbedded DEF Holding
  <2>3. CASE buffer # {}
    <3>1. committed' = committed \cup buffer
      BY <1>5, <2>3 DEF CommitTail, RestPending, FlushBuffer
    <3>2. Holding' = Holding \ buffer
      BY <2>1, <2>2
    <3>3. buffer \subseteq Item /\ buffer \subseteq ChunkItems \ committed
      BY <2>1 DEF HeldInv, IInv, PassTypeOK
    <3>. QED  BY <2>1, <2>3, <3>1, <3>2, <3>3, CommitRefines DEF StoreStep
  <2>4. CASE buffer = {}
    <3>1. committed' = committed
      BY <1>5, <2>4 DEF CommitTail, RestPending
    <3>. QED  BY <2>1, <2>2, <2>4, <3>1, StoreSame DEF Ended
  <2>. QED  BY <2>3, <2>4
<1>6. CASE Stop
  BY <1>6, CrashRefines DEF Stop
<1>. QED  BY <1>1, <1>2, <1>3, <1>4, <1>5, <1>6 DEF Next, Loop

LEMMA StoreStepIsNext == StoreStep => Store!Next
BY DEF StoreStep, Store!Next, Store!Sidecar, Store!Progress

\* Every step of the loop is a step of a Freshness pass, or leaves both
\* databases alone: its chunk is pending, what it commits is what it selected
\* and has not committed, it reports success only when nothing is pending.
THEOREM LoopImplementsPass == Spec => [][StoreStep /\ Store!Next]_(Store!vars)
<1>1. Init => HeldInv
  BY DEF Init, HeldInv
<1>2. IInv /\ [Next]_vars => IInv'
  BY TypesStep, CutStep, RowStep, ClockStep DEF IInv
<1>3. IInv /\ HeldInv /\ [Next]_vars => [StoreStep /\ Store!Next]_(Store!vars)
  BY StoreRefined, StoreStepIsNext
<1>. QED  BY <1>1, <1>2, <1>3, InitIInv, HeldStep, PTL DEF Spec

-----------------------------------------------------------------------------
(* The loop cannot go on for ever: each of its steps, a failure and a tick *)
(* of the clock included, lowers a rank in the lexicographic order of five *)
(* natural numbers, which is well founded.                                 *)

\* The items whose chunk the loop has yet to bring behind it.
Left == IF pc \in {"scan", "embed"} THEN Waiting \cup ChunkItems ELSE Waiting

Rank == <<IF pc \in Ended THEN 0 ELSE 1,
          Cardinality(Left),
          CASE pc = "select" -> 2 [] pc = "scan" -> 1 [] OTHER -> 0,
          CASE pc = "scan" -> Len(est) + 1 - next [] pc = "embed" -> Len(ranges) - done [] OTHER -> 0,
          CASE pc = "select" -> SelectTime - busy [] pc = "embed" -> BatchTime - busy [] OTHER -> 0>>

Lower == LexProductOrdering(OpToRel(<, Nat), Nat, 5)

\* No sequence of ranks descends for ever.
LEMMA LowerIsWellFounded == IsWellFoundedOn(Lower, [1 .. 5 -> Nat])
<1>. HIDE DEF OpToRel
<1>. QED  BY NatLessThanWellFounded, WFLexProductOrdering DEF Lower

\* To be lower is to be less in the first number that differs.
LEMMA LowerAt ==
  ASSUME NEW r \in [1 .. 5 -> Nat], NEW s \in [1 .. 5 -> Nat], NEW k \in 1 .. 5,
         r[k] < s[k], \A j \in 1 .. (k - 1) : r[j] = s[j]
  PROVE  <<r, s>> \in Lower
<1>1. <<r[k], s[k]>> \in OpToRel(<, Nat)
  BY DEF OpToRel
<1>. HIDE DEF OpToRel
<1>. QED  BY <1>1 DEF Lower, LexProductOrdering

LEMMA LeftIsFinite ==
  ASSUME IInv
  PROVE  Left \subseteq Item /\ IsFiniteSet(Left) /\ Cardinality(Left) \in Nat
<1>1. Left \subseteq Item
  BY DEF Left, Waiting, ChunkItems, IInv, PassTypeOK
<1>. QED  BY <1>1, PassAssumption, FS_Subset, FS_CardinalityType

LEMMA RankType == IInv => Rank \in [1 .. 5 -> Nat]
<1>. SUFFICES ASSUME IInv PROVE Rank \in [1 .. 5 -> Nat]
  OBVIOUS
<1>1. Cardinality(Left) \in Nat
  BY LeftIsFinite
<1>2. /\ Len(est) + 1 - next \in Nat /\ Len(ranges) - done \in Nat
      /\ pc = "select" => SelectTime - busy \in Nat
      /\ pc = "embed" => BatchTime - busy \in Nat
  BY PassTypes DEF IInv, PassTypeOK, ClockInv
<1>. QED  BY <1>1, <1>2 DEF Rank

LEMMA LoopNumbers ==
  ASSUME IInv
  PROVE  /\ Len(est) \in Nat /\ Len(ranges) \in Nat /\ next \in Nat /\ done \in Nat /\ busy \in Nat
         /\ SelectTime \in Nat /\ BatchTime \in Nat
BY PassTypes DEF IInv, PassTypeOK

LEMMA RankLowered == IInv /\ HeldInv /\ Next /\ IInv' => <<Rank', Rank>> \in Lower
<1>. SUFFICES ASSUME IInv, HeldInv, Next, IInv' PROVE <<Rank', Rank>> \in Lower
  OBVIOUS
<1>0. Rank \in [1 .. 5 -> Nat] /\ Rank' \in [1 .. 5 -> Nat]
  <2>1. (IInv => Rank \in [1 .. 5 -> Nat])'
    BY RankType, PTL
  <2>. QED  BY <2>1, RankType
<1>. DEFINE Falls(k) == Rank'[k] < Rank[k] /\ \A j \in 1 .. (k - 1) : Rank'[j] = Rank[j]
<1>1. SUFFICES \E k \in 1 .. 5 : Falls(k)
  BY <1>0, LowerAt
<1>2. /\ Len(est) \in Nat /\ Len(ranges) \in Nat /\ next \in Nat /\ done \in Nat /\ busy \in Nat
      /\ SelectTime \in Nat /\ BatchTime \in Nat
  BY LoopNumbers
<1>3. CASE SelectNothing \/ Stop
  <2>1. pc \notin Ended /\ pc' \in Ended
    BY <1>3 DEF SelectNothing, NoText, Stop, Ended
  <2>2. Falls(1)
    BY <2>1 DEF Rank
  <2>. QED  BY <2>2
<1>4. CASE SelectChunk
  <2>1. pc = "select" /\ pc' = "scan" /\ committed' = committed
    BY <1>4 DEF SelectChunk
  <2>2. ChunkItems' \subseteq Waiting
    BY <1>4, SelectedChunk DEF ChunkItems, Waiting
  <2>3. Left' = Left
    BY <2>1, <2>2 DEF Left, Waiting
  <2>4. Falls(3)
    BY <2>1, <2>3 DEF Rank, Ended
  <2>. QED  BY <2>4
<1>5. CASE ScanStep
  <2>1. pc = "scan" /\ pc' = "scan" /\ next' = next + 1 /\ est' = est /\ Left' = Left
    BY <1>5 DEF ScanStep, ScanCut, ScanTake, passVars, Left, Waiting, ChunkItems
  <2>2. Falls(4)
    BY <1>2, <2>1 DEF Rank, Ended
  <2>. QED  BY <2>2
<1>6. CASE ScanFinish
  <2>1. pc = "scan" /\ pc' = "embed" /\ Left' = Left
    BY <1>6 DEF ScanFinish, Left, Waiting, ChunkItems
  <2>2. Falls(3)
    BY <2>1 DEF Rank, Ended
  <2>. QED  BY <2>2
<1>7. CASE EmbedBatch
  <2>1. pc = "embed" /\ pc' = "embed" /\ done' = done + 1 /\ ranges' = ranges /\ chunk' = chunk
    BY <1>7 DEF EmbedBatch, batchVars, scanVars
  <2>2. Left' = Left
    <3>. DEFINE items == BatchItems(ranges[done + 1])
    <3>1. committed \subseteq committed' /\ committed' \subseteq committed \cup buffer \cup items
      BY <1>7 DEF EmbedBatch, FlushBuffer
    <3>2. items \subseteq ChunkItems /\ buffer \subseteq ChunkItems
      BY <1>7, <2>1, BatchInChunk DEF HeldInv
    <3>3. ChunkItems' = ChunkItems
      BY <2>1 DEF ChunkItems
    <3>. HIDE DEF items
    <3>. QED  BY <2>1, <3>1, <3>2, <3>3 DEF Left, Waiting
  <2>3. Falls(4)
    BY <1>2, <2>1, <2>2 DEF Rank, Ended
  <2>. QED  BY <2>3
<1>8. CASE CommitTail
  <2>1. pc = "embed" /\ pc' = "select" /\ committed' = committed \cup buffer /\ ChunkItems # {}
    <3>1. 1 \in 1 .. Len(chunk)
      BY <1>8 DEF CommitTail, IInv, PassTypeOK, CutInv
    <3>. QED  BY <1>8, <3>1 DEF CommitTail, RestPending, FlushBuffer, ChunkItems
  <2>2. Left' \subseteq Left /\ Left' # Left
    <3>1. ChunkItems \subseteq committed'
      BY <1>8, <2>1, ChunkIsEmbedded
    <3>. QED  BY <2>1, <3>1 DEF Left, Waiting
  <2>3. Cardinality(Left') < Cardinality(Left)
    <3>1. IsFiniteSet(Left) /\ Cardinality(Left) \in Nat
      BY LeftIsFinite
    <3>2. Cardinality(Left') \in Nat
      BY <2>2, <3>1, FS_Subset, FS_CardinalityType
    <3>. QED  BY <2>2, <3>1, <3>2, FS_Subset
  <2>4. Falls(2)
    BY <2>1, <2>3 DEF Rank, Ended
  <2>. QED  BY <2>4
<1>9. CASE Tick
  <2>1. /\ pc' = pc /\ busy' = busy + 1 /\ UNCHANGED <<est, next, ranges, done>> /\ Left' = Left
        /\ pc \in {"select", "embed"}
    BY <1>9 DEF Tick, Running, batchVars, scanVars, Left, Waiting, ChunkItems
  <2>2. Falls(5)
    BY <1>2, <2>1 DEF Rank, Ended
  <2>. QED  BY <2>2
<1>. QED  BY <1>3, <1>4, <1>5, <1>6, <1>7, <1>8, <1>9 DEF Next, Loop

\* A step lowers the rank.
StepDescends == <<Rank', Rank>> \in Lower

\* A step that changes anything brings the loop closer to its end, whatever
\* the chunk was, however it was cut and wherever it failed: no run of the loop
\* takes infinitely many steps.
THEOREM LoopDescends == Spec => [][StepDescends]_vars
<1>1. Init => HeldInv
  BY DEF Init, HeldInv
<1>2. IInv /\ [Next]_vars => IInv'
  BY TypesStep, CutStep, RowStep, ClockStep DEF IInv
<1>3. IInv /\ IInv' /\ HeldInv /\ [Next]_vars => [StepDescends]_vars
  BY RankLowered DEF StepDescends
<1>. QED  BY <1>1, <1>2, <1>3, InitIInv, HeldStep, PTL DEF Spec
=============================================================================
