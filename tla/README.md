# travsr-embed: specifications, model checks and proofs

travsr-embed is the embedding sidecar of travsr. It computes a vector for every
eligible node of a repository's graph, keeps the vectors in `embed.db`, derives
HNSW index files from them and answers nearest-neighbour queries. This directory
holds TLA+ models of it, the TLC configurations that check them on small
instances, and TLAPS proofs for every value of the constants.

`tlc -config X.cfg M` checks a run; `tlapm M.tla` checks the proofs of the eight
modules whose name ends in `Proofs`.

## The system

| part | state it keeps | operations | talks to |
|---|---|---|---|
| daemon (not in this repository) | `graph.db`: `nodes`, `node_tombstones` | edits nodes, a delete trigger logs tombstones, a GC prunes the log | starts sidecar processes, drops the cancel sentinel |
| embedding store, `freshness.rs` | `embed.db`: `node_embeddings(node, model, vector, text_hash)` | `ensure_schema`, `apply_invalidation` | one transaction over both databases |
| serial reindex, `main.rs:944` | the chunk and the row buffer of the pass, a writable code index | invalidate, count, open the index, select / embed / commit, rebuild | the store, the index files |
| parallel reindex, `main.rs:1375` | chunk, batches, shared counter, a buffer per worker, the cancel flag | the same pass with worker threads and a cancel watcher | the store through a connection per thread, the sentinel file |
| `rebuild_index`, `index.rs` | `hnsw.usearch` and the doc-space file of each model | count rows, build, save beside and rename, quarantine | reads the store; the serving process watches the files |
| serving handle, `index.rs` `VecIndex` | the mapped index, its mtime, time of the last reload attempt | `try_serve`, `knn`, `reload_from_disk` | the index files |
| KNN lanes, `main.rs:330-740` | two handles, one memoized query vector | `knn_impl_code`, `knn_impl_docs`, lazy embedding and its background persist | the handles, both databases |
| batching and padding, `main.rs`, `encode.rs` | none | `build_batch_ranges`, `build_batch_ranges_bucketed`, token budgets, `pad_batch` | called by both reindex paths |
| flush timer, `main.rs:157` | time of the last commit | `should_flush` | the host kills a pass whose row count stands still |
| backends, `backend/*.rs` | the loaded engine | registry, switches, capability filter, provider cascade, `embed_documents` | called by everything that embeds |
| provenance, `main.rs:776-832` | the `embed_backend` key of `embed.db` | a pass reads, warns and overwrites; a daemon reads and warns | links passes and daemons on different engines |

What is hard here. Nothing links the parts but files: two SQLite databases, the
index files and a sentinel, shared by processes that may die at any point.
The daemon edits `graph.db` while a pass holds texts it read minutes ago; the
tombstone log is only a hint, is acknowledged before anything is re-embedded, and
is pruned by someone else; the index is derived state with no version that would
tell that it is out of date; worker threads share a counter that the cancel
watcher overwrites. `PROJECT.json` lists each such place with its line under
`hazards`.

What makes each part correct:

* store: no vector of an outdated text goes unnoticed, no vector of a deleted node
  stays, no good vector is thrown away, the log drains;
* reindex: a pass ends; afterwards every eligible node is searchable by a vector of
  its text; a failure never costs an index that loads; "up to date" is true;
* parallel reindex: threads change nothing of that; each item is embedded once;
  cancelling stops the run and loses nothing that was embedded;
* serving: the served index is some published one and eventually the last one;
* batching: the ranges partition the items in order, and what they tokenize to fits;
* the embedding loop: it ends, embeds each item once, reports success only when
  everything is committed, and its row count moves before the host loses patience;
* backends: a process runs on the best engine that works, and vectors of two engines
  are not mixed in silence;
* query memo: a hit is the vector of the text asked for, and a query costs one inference.

## Modules

```
EmbedStore        the two databases: eligibility, pending nodes, invalidation
   |
Freshness         abstract: what a pass may do to the databases   <- FreshnessProofs
   |     \     \
Reindex   |     LazyEmbed        queries that insert rows         <- LazyProofs
   |      |                      while passes run
   |   ParallelReindex           threads, shared counter, cancel; <- ParallelProofs
   |                             implements Freshness
   serial process, its modes, rebuilds and files                  <- ReindexProofs

Batching          range builders, budgets, padded shapes
   |
EmbedPass         the embedding loop with its clock               <- EmbedPassProofs

ServeIndex        the serving handle and the processes that publish its file
                                                                  <- ServeIndexProofs
Engines           which engine a host's process runs on
   |
Sidecar           the processes and what they write into one embed.db
                                                                  <- SidecarProofs
QueryMemo         the slot shared by the lanes of several queries <- QueryMemoProofs
```

**EmbedStore** has no variables. A text is an opaque value that stands for its own
digest: `text_hash` is a 128-bit hash and only its equality is used. A node
is `Absent`, has a `NullText`, or a text. A stored row is the digest of the text its
vector was computed from, `Fallback` when `build_node_text` made a text up, `NoHash`
when the row is older than the column, or `NoRow`. `Invalidated` composes the three
steps of `apply_invalidation` in their order; `Unacked` are the tombstones it defers.
`Replace` in the daemon stands for a delete and an insert of one path that keep the
node's id, with its new text or with `NULL` until it is regenerated.

**Freshness** is the abstract specification. `node`, `tomb` are `graph.db`, `vec` is
`embed.db`, `held` the texts read and not yet committed. Actions: the daemon's edits;
`BeginPass` (invalidate with acknowledgement), `BeginWorkerPass` (shards leave that
to their parent), `SelectChunk`, `CommitRows`, `EndPass`, `Sweep` (the second
invalidation, in `rebuild_index`), `Crash`. The history variables `pruned` and
`touched` say which tombstones the GC lost and which nodes changed since they were
last verified. One pass at a time runs, an assumption that nothing in the code enforces
(what two would do is under "Not modelled"); which batches a chunk is cut into and
when a buffer is flushed is left open, and so is which of the selected rows decode:
the code skips one that does not, so a chunk is any few pending nodes up to `ChunkRows`.

**LazyEmbed** composes Freshness with the queries of the serving process. `lazy` holds
what each query has read (`LazyRead`, any few pending nodes of both spaces, which
is what the full-text search may return), and `LazyPersist` is the background
thread's transaction of `INSERT OR IGNORE`. A pass knows nothing of it. The
history variable `raced` holds the nodes whose row was inserted after their text had
changed; the properties say that this is all that can go wrong. This module also
states the fairness of Freshness and the liveness properties that need it.

**ServeIndex** has one handle and one file. The handle's calls are split at their
system calls: `try_serve` tests the size (`TryServe`), maps or loads (`ServeView`)
and reads the mtime (`ServeStat`); `knn` reads the mtime (`KnnStat`), tests the size
(`KnnCheck`) and reloads (`KnnReload`). In between the builders sweep the `.tmp`
file (`Start`), create or truncate it (`SaveBegin`), finish it (`SaveEnd`), rename
whatever is at that path (`Rename`) or die, and a pass quarantines what does not
load. `stage[b]` follows the file that builder `b` has open: at the `.tmp` path, at the
served path once somebody renamed it there, or unlinked. A file is `good`, `small`
(below the plausible size, as the run `reindex_empty` shows it can be published),
`garbage`, or `torn` (taken not to open) while it is written and for ever if its writer died; a version stands for its content and its mtime. `handle.index` is 0 when
the index is empty, which is what a failed reload leaves on the platform that loads a
copy (`viewed` FALSE). `wait` counts the ticks since the last reload attempt. Between calls
`pc` says how the last query was answered, with hits, with the empty list or with an error:
`knn` fails at its first line when the file is gone, whatever the handle holds (`KnnStat`),
searches the old map when a reload of it fails, and passes on the error of a failed
load (`KnnReload`). `MappedAnswers` is about these answers.

**Reindex** adds the control of the serial process around those actions: the mode
it was started in, the decision when nothing is pending, opening the code index
(quarantine, rebuilding it from the rows), the loop, and `rebuild_index` with its
own sweep, count, one build per space and rename. Between any two steps the daemon
may edit and the process may die. `file` holds what each published file contains.
The sweep that `rebuild_index` begins with may fail without ending the process, as
in the code. A file is published in one step here, and an index without a vector is an index, so that
`GoodIndexKept` allows a rebuild whose rows went away after it counted them to put one in the place of a good one. Adding vectors to the in-memory code index during the loop is left
out: that index is never saved, `rebuild_index` builds the published one.
The history variable `owed` holds the models whose files may owe a rebuild: a process
failed or died before it, a rebuild left the file of a space without rows alone, or a
pass of another model removed rows of this one.

**ParallelReindex** has the main thread, the workers and the watcher as
separate processes. `next` is the atomic counter (`fetch_add`, and the watcher's
`store`), `buf` a worker's uncommitted rows, `saved` the committed items of the
chunk. The refinement `F == INSTANCE Freshness WITH ...` maps the texts of all items
not yet saved to `held`; `ImplementsFreshness == F!Spec` is checked as a property.
The rebuild at its end is one step here; its own steps are in Reindex. Atomics are
modelled sequentially consistent: each relaxed operation is a read-modify-write or
a store of the same location, and the flag is `SeqCst`.

**Batching** keeps the state of one run of a range builder: the estimates, the item
looked at, the open batch and the ranges closed so far. Both builders share
`ScanCut`, `ScanTake` and `ScanEnd` and differ in `OverBudget` and `OverBucket`.
`Shape` is the tensor that `tokenize` makes of a batch, for every length its longest
text may turn out to have, since estimates are wrong either way. `usize` is a natural
number: a product of an estimate and a row count is far from 2^64.

**EmbedPass** is the serial embedding loop on top of it: a select with `LIMIT`, rows
that do not decode, the sort, the batches, the buffer and its commits. A select takes
up to `SelectTime` ticks and a batch up to `BatchTime`; `elapsed` is the age of the
last commit, which saturates at `Interval`, `quiet` the time since the row count moved,
which is what the host watches. ParallelReindex is the same loop with threads
and without the clock.

**Engines** has no variables. A `Host` is a build on a machine with a model: what is
compiled in, the two switches, the model's family, and the backends that work: those of
ORT load and pass a warm-up inference, tract only builds its plan (`backend/tract.rs:59-84`). `TryBuild` is `try_build` of each factory, with the provider cascade and the
check for the runtime's library; `Best` is a reference definition without the loop,
from the preference tiers that `backend/mod.rs` documents.

**Sidecar** has the processes. Each resolves its engine by the loop of `resolve_with`
(`Launch`, `TryNext`, `GiveUp`), then a pass reads and overwrites the record
(`ReadProvenance`, `RecordProvenance`) and embeds what is pending, and a daemon reads it
once (`Serve`) and persists lazily embedded rows. A row remembers its engine, which the
real one does not: no column says it. The history variables are `told`, the engines a
warning named, `unseen`, the engines whose record was overwritten by a pass that had
read the key before, and `blind` in a row whose daemon had found no record.

**QueryMemo** has the slot and the host's concurrent queries, each a code-lane and then a
docs-lane call with one text. The mutex is taken for the lookup and for the store, not for
the inference between them. An age is counted in ticks up to `MaxAge`. The history
fields `misses`, `since` and `spoiled` of a query count its inferences and what excuses
a second one.

## Runs

| run | what it asks | bound | states | result |
|---|---|---|---|---|
| `freshness` | Does a stale, orphaned or wrongly acknowledged row escape? | a code node and a document, 2 texts, 2 models, chunks of 1, doc sweep cap 1 | 664 k | holds |
| `lazy` | Do rows inserted by queries break that, and does everything converge when the daemon stops? | a code node and a document, 2 texts, 1 model, one query of one node at a time | 247 k | holds |
| `lazy_race` | Is a lazily inserted row covered by the log? | one code node, 2 texts | | violated |
| `reindex` | Is a node searchable after a pass, and is no good file lost? | code node and document, 2 texts, all modes, deaths, one node edited per process | 1.6 M | holds |
| `reindex_live` | Do passes end, and when is "up to date" wrong? | code and structural node, 1 text, 2 models, full passes, deaths, from an empty database | 252 k | holds |
| `parallel` | Do threads, cancels and errors change what a pass does? | 2 workers, 2 items, failures, cancels, one node edited | 256 k | holds |
| `serve` | Does a query find an index through whatever happens to its file, and the last one in the end? | 2 builders, 6 files, an interval of 2 ticks, both platforms | 700 k | holds |
| `embed_pass` | Do the batches fit, is the host told of progress in time, is every item embedded once, does the loop end? | 5 items of 3 lengths in every profile, chunks of 4, one unreadable row, 3 budgets and the buckets | 1.6 M | holds |
| `sidecar` | Does every process get the best engine, are engines mixed in silence, what does a query cost? | 13 hosts for one process, 2 hosts for two, 2 nodes; 2 queries, 2 texts, 2 ticks to live | 256 k | holds |
| `reindex_empty` | Does every published index hold a vector? | as `reindex`, no deaths | | violated |
| `reindex_deleted` | Does a rebuild drop deleted vectors? | as `reindex`, no deaths | | violated |
| `parallel_resume` | Does the run after a cancel make its rows searchable? | as `parallel`, no failures | | violated |

Why the bounds are enough. The invalidation rules treat nodes independently, but for
the doc sweep's cap, which is 1 in `freshness`: two models give up to two doc rows, so
the sweep runs in some states and is skipped in others. Two texts suffice to be stale
and fresh again. A chunk of one row out of two forces several chunks, so that a select
follows a commit. Two workers on two batches show every race for the counter; a
third item adds batches and no new kind of step. `OneEdit` and `EditsOnlyC` bound
how many nodes change during a process, not when: `freshness` has no such bound.
`reindex` starts from missing or corrupt files; good ones come from earlier passes
of the same behaviour. `reindex_live` starts from an empty database (`FromNothing`), has two
models, so that the pass of one cuts rows of the other, and one text: its properties
do not tell texts apart. The `VIEW WithoutTouched` of `reindex` drops the history variable `touched`,
which neither an action's guard nor a property of that run reads, so that no
behaviour is lost. In `serve` six versions allow two overlapping builders, a race, failures
and a good file after them; an interval of two ticks tells a reload that is due from one that
is not yet and one that never is. `CHECK_DEADLOCK FALSE` stands in `MCEmbedPass.cfg`
only: its loop is meant to end.

In `embed_pass` the lengths 1, 3 and 5 lie below the small bucket, between the buckets and
above `MaxSeq`, the budgets range from one that holds a single text to one that holds
several, and a chunk of four out of five items forces a second chunk. Items are numbered by
weight, which loses nothing: the code sorts by it. Flushing happens by count (three rows)
and by age (two ticks, while a batch takes up to two).

`sidecar` explores three things that share no variable, one at a time (`part`). *Choice*:
one process on thirteen hosts, among which every engine outranks another one, every answer
of an attempt to build occurs, and both switches are on and off; the choice reads nothing
another process writes. *Provenance*: two processes on two hosts that resolve to different
engines, which is enough for a pass between a read and a write of another and for a daemon
beside a pass; a third engine adds a name. *Memo*: two queries with two texts, so that one
can push the other out of the slot, and a restart on the other engine. Symmetry permutes
processes, nodes, callers and texts; the run has no temporal property.

### What the violated runs show

* `reindex_empty` (`main.rs:1143-1160`): with document rows and no code index the serial
  pass renames an index without a vector into place, cannot load it, and fails;
  so does every later one.
* `reindex_deleted` (`main.rs:1960`): removing the last vector of one space leaves its
  file untouched while the rebuild reports success.
* `lazy_race` (`main.rs:762`): a query reads a text, the node is edited, a pass
  acknowledges the tombstone because the node has no row (`freshness.rs:213-221`), and
  the query's thread inserts the old row. `INSERT OR IGNORE` is not enough: the row is
  stale, the pass's SELECT takes the node for embedded, and only another edit helps.
  `lazy` shows that nothing else is lost.
* `parallel_resume` (`main.rs:1463`): a cancel after the last batch skips the rebuild; the
  rerun the message recommends finds nothing pending and returns.

### What the exceptions in the properties say

A property that holds with a named exception is a statement about the code, too: without the
exception TLC finds a counterexample.

* `owed` in `UpToDateUnlessOwed` (`main.rs:1101-1110`): the only memory that a rebuild is due
  is `removed_any()` of the process. If it dies before the rebuild, the next pass reports
  "up to date" with a deleted vector in the index, whereas `freshness.rs:146-148` counts
  such a crash among what the orphan sweep catches: it catches it in `embed.db` only.
  It is the memory of one model's process, too: an invalidation deletes the rows of every
  model, and the pass that did it rebuilds the files of its own. The next pass of another
  model finds nothing removed and says "up to date" of an index that lists the node: without
  `OthersCut` in `owed`, `reindex_live` fails. The proof found this (see below).
* `file = NoFile` in `MappedAnswers` (`index.rs:443-446`): a query that finds no file at the
  path, because a pass has just quarantined it, fails, and its caller gets the empty list with a
  warning (`main.rs:426-440`), while the map in the handle is still good. It lasts until the next
  publication. Anything else that happens to the file costs a mapped handle no query.
* `raced` in `StampIsHonest` and `CatchesUp` (`index.rs:242-246`): `try_serve` opens the file and
  then reads its mtime. A rename in between leaves the old index with the new mtime,
  served until another rebuild publishes. `knn` reads the mtime first, which is right.
* `overlap` in `PublishedWhole` (`index.rs:365-374`, `main.rs:1954`): two rebuilds at once write
  one `.tmp` path, so one renames what the other is still writing. The file under
  the served path is torn, and written under the maps of the processes that serve it, which
  is what the comment at `index.rs:359-368` wants to exclude. Nothing in this repository
  keeps two passes of one repository apart; the host may. The handle's own properties,
  `StampIsHonest` and `CatchesUp`, need no such exception: they hold for overlapping rebuilds,
  whose file may also end as a mixture (`garbage`).
* `unseen` and `blind` in `ForeignRowsWarned` (`main.rs:294`, `807-829`): two passes that resolve
  different engines at the same time may both find no record, and a daemon that found no
  record never compares again. Both mix engines without the warning that
  `main.rs:795-798` promises instead of silence.
* `spoiled` and `since` in `OneInference` (`main.rs:179-189`): the one slot holds for a query only
  as long as no other query stores between its two lanes, and the two are less than the
  time to live apart.
* `Underestimated` in `ShapesBounded`: a tensor exceeds its budget or bucket only when several
  texts share it and one has more tokens than the longest was estimated to have. The
  comment at `main.rs:1820-1824` also expects a single item to exceed its bucket's rows;
  that cannot happen, for every bucket has a row.
* `Silence` in `WatchdogFed` (`main.rs:148-162`): `should_flush` is asked after a batch only, so the
  bound is not `TX_FLUSH_INTERVAL`, as its comment says, but that or the select before,
  whichever is longer, and one batch.

Two more remarks on the engines. With `macos_engine = "tract"` the capabilities advertise
ORT engines that the resolver will not use (`backend/mod.rs:143`, `242`): the switch is
the model's, and the handshake knows no model. And a build whose ONNX Runtime library is
missing cannot run a family that tract cannot run, so the fallback the header of
`backend/ort.rs` describes exists for the families of tract only.

### Fairness

`LazyFairSpec` assumes that a pass that runs goes on (its steps are a loop
without waiting), that the daemon keeps starting full passes of every model (it
respawns the sidecar while work is pending; strong fairness, since other passes may
run in between), and that from some time on nothing is edited and no pass dies:
without that nothing converges. Queries go on, and of them nothing is assumed. `ReindexFairness` and `ParallelFairSpec` assume weak
fairness of the process, of each worker and of the watcher, which the operating
system's scheduler gives, and that edits stop: a daemon that edits faster than a
pass embeds keeps it busy for ever. They assume nothing about deaths.
`ServeFairSpec` assumes that queries keep coming, that time passes, and that the
serving process is not restarted for ever; nothing about the publishers. `FairSpec` of
EmbedPass is weak fairness of the loop's own steps, a program on a running machine: a
query or a batch returns, and `SelectTime` and `BatchTime` bound how long it takes.
Failures and deaths may happen or not, and end the loop too.

## Proofs

Every safety property of the passing runs is a theorem. A theorem holds for all values of the constants that
satisfy the named assumptions, without the bounds of a run.

`FreshnessProofs` proves, for any sets of nodes, texts and models, any chunk size
and any scopes, from `StoreAssumption` and `FreshnessAssumption` only:

| theorem | property |
|---|---|
| `TypeCorrect` | `TypeOK` |
| `StaleCovered` | `StaleIsTombstoned` |
| `DocsVerified` | `StaleDocIsRecent` |
| `OrphansSwept` | `OrphanIsRecent` |
| `FreshRowsAreKept` | `FreshRowsSurvive` |
| `AcksAreSettled` | `AckIsSettled` |

`ReindexProofs` proves, for any number of models and edits and a death at any step, from
`ReindexAssumption` and those of Freshness:

| theorem | property |
|---|---|
| `ReindexTypeCorrect` | `ReindexTypeOK` |
| `GoodIndexIsKept` | `GoodIndexKept` |
| `RebuildPublishesRows` | `RebuiltMatchesRows` |
| `SearchableAfterFullPass` | `SearchableAfterPass`, under `DocsFit` |
| `CodeSearchableAfterFullPass` | the same of nodes that are no documents, without it |
| `UpToDateIsRight` | `UpToDateUnlessOwed` |
| `ReindexKeepsStore`, `ReindexKeepsRows` | the theorems of Freshness, of this process |
| `PassDescends` | each step of a process lowers a well-founded rank that no edit changes, if the node ids are finitely many |

`ParallelProofs` proves, for any finite set of workers and of items, any batches and any
interleaving, from `ParallelAssumption` and those of Freshness:

| theorem | property |
|---|---|
| `ParallelTypeCorrect` | `ParallelTypeOK` |
| `EachClaimedOnce` | `ClaimedOnce` |
| `NothingIsLeftBehind` | `NothingLeftBehind` |
| `CancelEndsClaims` | `CancelStopsClaims` |
| `ParallelImplementsFreshness` | `ImplementsFreshness` |
| `RunKeepsStore` | the theorems of Freshness, of this run |
| `RunDescends` | each step of a run lowers a well-founded rank that no edit and no cancel changes |

`LazyProofs` proves, for any number of queries, from `LazyAssumption` and those of Freshness:

| theorem | property |
|---|---|
| `LazyTypeCorrect` | `LazyTypeOK` |
| `StaleCoveredUnlessRaced` | `StaleUnlessRaced` |
| `FreshRowsStayUnlessHeld` | `FreshUnlessHeld` |

`ServeIndexProofs` proves, for any number of builders and versions, any interval and
every platform, from `ServeAssumption` only:

| theorem | property |
|---|---|
| `ServeTypeCorrect` | `ServeTypeOK` |
| `StampsAreHonest` | `StampIsHonest` |
| `MappedIndexAnswers` | `MappedAnswers` |
| `PublicationIsAtomic` | `PublishedWhole` |

`EmbedPassProofs` proves, for any finite set of items, any weights, buckets, budgets, chunk sizes and clock bounds, from `BatchingAssumption` and
`PassAssumption`:

| theorem | property |
|---|---|
| `PassTypeCorrect` | `PassTypeOK` |
| `BatchesPartition` | `RangesPartition` |
| `BatchesFit` | `ShapesBounded` |
| `SilenceIsBounded` | `WatchdogFed` |
| `ItemsEmbeddedOnce` | `EmbeddedOnce` |
| `SuccessIsComplete` | `NoSilentEnd` |
| `LoopImplementsPass` | each step of the loop is a step of Freshness's pass, or stutters |
| `LoopDescends` | each step of the loop lowers a well-founded rank |

`SidecarProofs` proves, for any set of hosts, any providers and families and any number of
processes and nodes, from `EnginesAssumption` and `SidecarAssumption`:

| theorem | property |
|---|---|
| `SidecarTypeCorrect` | `SidecarTypeOK` |
| `BestEngineChosen` | `BestEngine` |
| `NoSilentMixing` | `ForeignRowsWarned` |
| `ComposesBoth` | a behaviour of the composition the run explores is one of Sidecar and one of QueryMemo |
| `SidecarRunTypeCorrect` | `MCTypeOK` |

`QueryMemoProofs` proves, for any callers, texts, engines and time to live, from
`QueryMemoAssumption`:

| theorem | property |
|---|---|
| `MemoTypeCorrect` | `MemoTypeOK` |
| `MemoKeepsContract` | `MemoContract` |

**Freshness.** None of its invariants is inductive: a row is written from `held`, long after its
text was read, and nothing in the invariant says anything of `held`. `IInv` adds that
what is true of a row that could be written now is true of `held`
(`HeldStaleIsTombstoned`, `HeldStaleIsRecent`), that nothing is held outside a pass
(`HeldOnlyWhileEmbedding`, so that a pass that acknowledges tombstones holds no
text read before), and that what is held has no row yet (`HeldHasNoRow`, so that a
commit overwrites no good row). The argument is the same for each action: the edits
that make a row stale log a tombstone or happen where no text was known;
invalidation acknowledges only what it settled. Four lemmas say what `Invalidated` does
to a row (`InvalidatedShape`, `InvalidatedSettles`, `DocSweepSettles`,
`InvalidatedKeepsFresh`), and the steps cite them.

**Reindex.** Each of its steps is a step of Freshness or picks another model
while idle (`StoreStep`), so that `IInv` carries over to it and nothing of the
databases is proved twice. Three invariants build on it. `BuiltInv`: what the process has
written agrees with the rows, so a sweep or an edit since then is of a node in `since`
(`BuiltIsRows`), and a process begins with nothing written and ends owing nothing.
`SearchInv` follows a full pass: after its invalidation the log has only nodes whose text
is not known (`TombstonesSettled`); so what it reads stays current unless the node is
edited (`HeldIsCurrent`), the loop ends only when every node has a row (`AllEmbedded`), and
the file of a node with a row is to be written or is (`SpacesCovered`). `GapInv`: a file
lists a row that `embed.db` has lost only while the process that removed it is going to
rebuild, or `owed` says so (`GapIsOwed`); "up to date" is then right because the
invalidation before the count left no row of a deleted node (`NoOrphan`).

Trying `GapIsOwed` for any number of models showed that `owed` was too small: an
invalidation removes rows of all models. TLC, on two models, confirms the counterexample
without `OthersCut` and finds none with it in the first 12 million states it explores.
`DocsFit` is a hypothesis, not an assumption of the module: above `DOC_VERIFY_MAX_ROWS` doc
rows the sweep is skipped (`freshness.rs`), a row without a hash and without a tombstone
stays, and TLC finds `SearchableAfterPass` violated with a cap of 0. It speaks of all
document nodes and models there can be, which is more than the rows there are. Nodes that
are no documents need no such bound.

**ParallelReindex.** `PInv` follows an item from the counter to the commit. Batches are
disjoint, what a worker holds or has committed lies behind the counter (`HandsClaimed`), two
hands never share an item (`ClaimedOnce`), and each batch behind the counter is in one
hand or committed (`ClaimedIsKept`), until a worker fails or the watcher stores the length
into the counter. A worker leaves only when the counter is past the last batch
(`QueueExhausted`), which together with an empty hand (`GoneHandsEmpty`) gives
`NothingLeftBehind`. `CounterBounded` says by how much the counter can overshoot: each
worker overdraws once, so it stays in its type. For the refinement, each action is
mapped by a lemma to one of Freshness or to a stutter: a claim, an embedding, a failure, a
cancel and a join of a complete chunk change nothing abstract; a chunk is a `SelectChunk`; a
flush is a `CommitRows` of the buffer; the empty select is the `EndPass`; leaving the loop in any
other way, so that texts that were read are lost, is a `Crash`. `RunKeepsStore` instantiates
the theorems of `FreshnessProofs` with the refinement mapping. `Node` and `Worker` are assumed
finite: the select cuts a finite table into batches, and the overshoot is a count of workers.

**LazyEmbed.** A query inserts a row without a tombstone, so `StaleIsTombstoned` is false
here, and half of `IInv` with it. `LInv` keeps the other half: the texts a *pass* holds
remain covered, and rows are except those of `raced`.

**ServeIndex.** `StampIsHonest` is not inductive either: a reload stamps the handle with an mtime read
two system calls earlier. `SInv` adds that whatever is about to be published is newer
than all that was read (`Newer`), so that between a query's stat and its reload the file
only becomes newer (`OnlyNewer`), and that what is published is no older than what is served.
`KInv` adds, for the action property `MappedAnswers`, that a file that opens has a version, that
a mapped handle holds one and that its last query was not answered with the empty list. `WholeInv` adds for
`PublishedWhole` that at most one builder is at work, that none of them has a file open that
was moved, and that what a builder is about to rename is whole.

**EmbedPass.** The properties speak of closed batches, commits and the silence so far.
`CutInv` carries that every closed batch, and the open one, was cut to fit, that the
largest estimate is the last one (the chunk is sorted), and that the batches follow each
other; `RowInv` that exactly the items in the buffer or committed were embedded, and that those
after the last embedded batch are neither; `ClockInv` divides the silence into what lies
before the running call, which is below `Interval` as soon as something is buffered and
within `SelectTime` before, and that call.

The loop is also the serial pass of Freshness seen from close by. `Store` instantiates
Freshness with the committed items as rows and with the items of the open chunk that are
not committed as the texts held; `LoopImplementsPass` says that a
select is `SelectChunk`, a flush `CommitRows` of the buffer, success `EndPass`, a failure or a
death `Crash`, and that the scan, a batch that flushes nothing and the clock stutter. It
rests on `HeldInv`: what is buffered is of this chunk and not committed, and what was
embedded of the chunk is one or the other. The pass alone is refined, from its start on;
the daemon does not move in EmbedPass, so the text of every item is one constant.

**Sidecar and QueryMemo.** `BestEngine` speaks of the engine a search ended with. `SearchInv` says what it has ruled out: a
usable engine belongs to a factory still to be tried, and what was tried ranks before what
is left. Lemmas compare the loop with the reference: `FoundIsBest`, `NothingLeft`,
`UsableIsAdvertised`, `TierIsPreference`. `ForeignRowsWarned` speaks of rows, written long after
the record was; `RecordInv` says that the engine of whoever writes is the recorded one, or
one that was warned of or overwritten unseen. `MemoContract` rests on `Cost`: a query whose code
lane cost an inference, and has no excuse, still finds its text in the slot, and the entry is no
older than its answer (`Kept`).

**Termination.** The liveness properties `LoopEnds`, `RunEnds` and `PassEnds` have a safety half: a
pass does not go on for ever while it takes steps. That half is proved, for all values of the
constants, by a rank that each step lowers; that it can only do so finitely often is the meaning of
well-founded, and the one inference in words here. The rank is a tuple of natural numbers in
lexicographic order, which the library's theorems show to be well founded
(`LowerIsWellFounded`): where the control stands, how many nodes of the pass have no row, the stage
within a chunk, and then what is left of that stage (ranges, ticks, spaces to build; batches not
claimed and the workers at each place, for threads). The point of it is what does *not* raise
the rank: an edit of the daemon (`RankKept`), a request to cancel, a failing worker, a watcher that
overwrites the counter, a chunk of which some rows do not decode. An edit does make work, since the
loop takes nodes that became eligible behind it, but never more than there are node ids
without a row of the model, and no step of the loop takes a row away. `RunDescends` needs `SavedInv`
for that: what counts as saved has its row. The other half, that a step is possible until
the end is reached and that it is taken, needs `ENABLED` and fairness, and stays with TLC.

Only model-checked: the liveness properties (`DocsConverge`, `CodeConverges`, `OrphansGo`,
`BacklogDrains`, `PassEnds`, `RunEnds`, `CatchesUp`, `LoopEnds`) and the counterexamples of the
four violated runs. Out of the prover's reach, and left to TLC: liveness under fairness
and `ENABLED`; induction over data, so what a recursive definition computes for every
input; and modules that declare `RECURSIVE` operators (none here does).

## Not modelled, and why

* What an engine computes, what the tokenizer answers, pooling, truncating and
  normalizing, HNSW search, merging and clamping of scores: external or arithmetic on floats.
  The models take the tokenizer's lengths as any, and the answers of engines as given.
* Argument parsing, the wire protocol, the WAL checkpoints, the `current_embed_model`
  key: they change no state the properties see. `travsr embed reindex --rebuild`, which the
  warnings recommend, is a command of another repository.
* Torn commits over two WAL databases after a power loss: SQLite commits a
  transaction over attached WAL databases per file. The models take it as atomic,
  which it is for a process that dies.
* Two passes over one repository at once. Nothing under `src/` keeps them apart; the models
  and the properties of `embed.db` assume one at a time. What two rebuilds do to the files is in
  ServeIndex, and what two passes do to the provenance key in Sidecar. For the rows the
  assumption matters. Pass A reads the text of a node without a row; the node is edited, which
  logs a tombstone; pass B acknowledges it, because the node has no row
  (`freshness.rs:213-221`); A commits the old text's row (`main.rs:1206-1211`). The row is stale and no
  tombstone covers it: the trace of `lazy_race` with a pass in place of the query, which
  `StaleIsTombstoned` excludes for one pass only.
* A sentinel that outlives its run: one that is created after the last poll, or whose run fails
  or dies, cancels the next run on sight, since only a cancelled run removes it
  (`main.rs:1755-1760`). ParallelReindex behaves so; no property is about it.
* What a pass without work does about a missing or corrupt index file: the parallel path never
  looks (`main.rs:1463`), the serial one looks whether the code file exists. The models have
  both decisions, and files are missing or corrupt at the start of `reindex`, but no property
  says that such a pass repairs them: the code does not and no text claims it.
* A poisoned mutex, so a panic while a lock is held.
* Two nodes inserted by one query at a time, and several queries at a time, in LazyEmbed: each
  row is inserted and invalidated on its own.
* Two rebuilds between the stat of a query and the next with one mtime: a rebuild is
  taken to last longer than the file system's clock needs to advance.
* The benchmark and export tools under `src/bin`: sequential programs over files.

## Plan

Done, in this order: EmbedStore, Freshness and its proofs, Reindex, ParallelReindex,
LazyEmbed, ServeIndex and its proofs, Batching and EmbedPass with theirs, two builders in
ServeIndex, Engines and Sidecar with their proofs, QueryMemo with its own, then the proofs
of ParallelReindex and its refinement, of LazyEmbed and of Reindex, and the refinement of
Freshness by EmbedPass and the three descents. Left, the most
important first:

1. A refinement of Reindex's files by ServeIndex: the published versions there are opaque.
2. ParallelReindex over the ranges and the clock of EmbedPass, in place of any partition and
   any flush, with `WatchdogFed` proved for threads.
3. The choice of an engine as a refinement of the reference `Best`.
