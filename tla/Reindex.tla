------------------------------- MODULE Reindex -------------------------------
(***************************************************************************)
(* The serial reindex pass, rebuild_index and the index files.             *)
(*                                                                         *)
(* Every model has two index files, one for code and one for documents.    *)
(* They are derived from embed.db by a whole rebuild and published by a    *)
(* rename; nothing else tells a later pass that they are out of date.  The *)
(* steps of a pass are the ones between which the daemon may edit graph.db *)
(* and the process may die.  What they do to the databases are the actions *)
(* of Freshness; this module adds the control around them and the files.   *)
(***************************************************************************)
EXTENDS Freshness

CONSTANTS
  Deep,        \* nodes with a shell_number of at least the phase threshold
  Shard,       \* nodes of one shard or row range
  Modes,       \* the ways in which a process is started
  CanDie       \* whether a process may die (TRUE), or always ends (FALSE)

Mode == {"all", "phase1", "phase2", "worker", "rebuild"}

ASSUME ReindexAssumption ==
  /\ Modes \subseteq Mode
  /\ Deep \subseteq Node /\ Shard \subseteq Node /\ CanDie \in BOOLEAN
  /\ Scope = {Node, Deep, Node \ Deep, Shard}

VARIABLES
  step,        \* where the process is
  mode,        \* how it was started
  removed,     \* invalidation.removed_any()
  spaces,      \* index files rebuild_index has still to write
  file,        \* the index files of each model
  outcome,     \* how the last process ended
  \* History variables.
  since,       \* nodes edited since the process started
  built,       \* index files the process has written
  owed         \* models whose index may owe a rebuild: a process failed or
               \* died, a rebuild left the file of an empty space alone, or a
               \* process of another model removed rows of this one

procVars == <<step, mode, removed, spaces, built>>
rvars    == <<vars, procVars, file, outcome, since, owed>>

Space == {"code", "docs"}
Steps == {"idle", "count", "open", "embed", "sweep", "rows", "build"}

ScopeOf == [md \in Mode |-> CASE md = "phase1" -> Deep
                              [] md = "phase2" -> Node \ Deep
                              [] md = "worker" -> Shard
                              [] OTHER -> Node]

NoVectors == [n \in Node |-> NoRow]
NoFile    == [kind |-> "none", has |-> NoVectors]
Corrupt   == [kind |-> "corrupt", has |-> NoVectors]
File      == {NoFile, Corrupt} \cup [kind : {"index"}, has : [Node -> RowState]]

\* A file without a vector is below MIN_PLAUSIBLE_INDEX_BYTES.
Loadable(f) == f.kind = "index" /\ f.has # NoVectors

ReindexTypeOK ==
  /\ step \in Steps /\ mode \in Mode /\ removed \in BOOLEAN
  /\ spaces \subseteq Space /\ built \subseteq Space
  /\ file \in [Model -> [Space -> File]]
  /\ outcome \in {"none", "partial", "uptodate", "rebuilt", "failed", "died"}
  /\ since \subseteq Node /\ owed \subseteq Model

ReindexInit ==
  /\ Init
  /\ step = "idle" /\ mode = "all" /\ removed = FALSE
  /\ spaces = {} /\ built = {}
  /\ file \in [Model -> [Space -> {NoFile, Corrupt}]]
  /\ outcome = "none" /\ since = {} /\ owed = {}

-----------------------------------------------------------------------------
InSpace(s, n) == IF s = "code" THEN InCodeSpace(n, node[n]) ELSE InDocSpace(n, node[n])

\* Faulty variant: the index is built from the rows alone.
RowsOfUnfiltered(m, s) == [n \in Node |-> vec[n][m]]

\* The rows build_from_db selects for space s of model m.
RowsOf(m, s) == [n \in Node |-> IF InSpace(s, n) THEN vec[n][m] ELSE NoRow]

\* build_from_db: all the rows of a space into a new index, saved beside the
\* old file and renamed over it.
Publish(s) == file' = [file EXCEPT ![cur][s] = [kind |-> "index", has |-> RowsOf(cur, s)]]

Ended(how) ==
  /\ step' = "idle" /\ outcome' = how /\ removed' = FALSE /\ spaces' = {}
  /\ owed' = CASE how = "rebuilt" /\ \A s \in Space \ built : file[cur][s].has = NoVectors
                    -> owed \ {cur}
               [] how \in {"rebuilt", "failed", "died"} -> owed \cup {cur}
               [] OTHER -> owed
  /\ UNCHANGED <<mode, built>>

\* The models other than m that the step takes a row from.
OthersCut(m) == {o \in Model \ {m} : \E n \in Node : vec'[n][o] # vec[n][o]}

Goto(st) == step' = st /\ UNCHANGED <<mode, removed, spaces, built, outcome, owed>>

StoreUnchanged == UNCHANGED vars

-----------------------------------------------------------------------------
(* The pass.                                                               *)

\* A process starts, as the main pass of a phase or as a shard worker.  The
\* main pass invalidates, and remembers whether that removed a vector.
Start(m, md) ==
  /\ step = "idle" /\ md # "rebuild"
  /\ IF md = "worker" THEN BeginWorkerPass(m, Shard) ELSE BeginPass(m, ScopeOf[md])
  /\ step' = "count" /\ mode' = md
  /\ removed' = (md # "worker" /\ RemovedAny(node, tomb, vec))
  /\ spaces' = {} /\ built' = {} /\ since' = {}
  /\ outcome' = "none"
  /\ owed' = owed \cup OthersCut(m)
  /\ UNCHANGED file

\* --rebuild-index.
StartRebuild(m) ==
  /\ "rebuild" \in Modes
  /\ step = "idle" /\ pass = "idle"
  /\ cur' = m
  /\ step' = "sweep" /\ mode' = "rebuild" /\ removed' = FALSE
  /\ spaces' = {} /\ built' = {} /\ since' = {}
  /\ outcome' = "none"
  /\ UNCHANGED <<file, graphVars, vec, pass, scope, held, touched, owed>>

\* Faulty variant: a pass with nothing to embed always finds the index good.
AfterNothingPendingIgnoresRemoved ==
  IF mode = "worker" THEN Ended("partial") ELSE Ended("uptodate")

\* Nothing is pending.  A worker leaves; removed vectors force a rebuild; a
\* second phase leaves; otherwise an existing code index is taken to be up to
\* date and a missing one is rebuilt.
AfterNothingPending ==
  CASE mode = "worker" -> Ended("partial")
    [] mode # "worker" /\ removed -> Goto("sweep")
    [] mode = "phase2" /\ ~ removed -> Ended("partial")
    [] OTHER -> IF file[cur]["code"].kind # "none" THEN Ended("uptodate") ELSE Goto("sweep")

\* The pending nodes are counted.
CountPending ==
  /\ step = "count"
  /\ \/ /\ Todo # {} /\ StoreUnchanged
        /\ Goto(IF mode \in {"worker", "phase2"} THEN "embed" ELSE "open")
     \/ EndPass /\ AfterNothingPending
  /\ UNCHANGED <<file, since>>

\* Faulty variant: a file that loads is quarantined too.
QuarantinedAlways(m) == [file EXCEPT ![m]["code"] = NoFile]

\* A code index that does not load is moved aside.
Quarantined(m) ==
  IF Loadable(file[m]["code"]) THEN file ELSE [file EXCEPT ![m]["code"] = NoFile]

\* The code index is opened for adding to.  Without a file that loads one is
\* built from whatever rows the model has, and then loaded: an index without a
\* vector is too small a file to be accepted, and the pass fails.
OpenIndex ==
  /\ step = "open"
  /\ LET kept == Quarantined(cur)
         some == \E n \in Node : vec[n][cur] # NoRow IN
     IF Loadable(kept[cur]["code"]) \/ ~ some
       THEN file' = kept /\ StoreUnchanged /\ Goto("embed")
       ELSE /\ Publish("code")
            /\ IF RowsOf(cur, "code") = NoVectors
                 THEN Crash /\ Ended("failed")
                 ELSE StoreUnchanged /\ Goto("embed")
  /\ UNCHANGED since

\* One step of the embedding loop: select a chunk or commit part of one.
EmbedStep ==
  /\ step = "embed"
  /\ \E S \in SUBSET Node : SelectChunk(S) \/ CommitRows(S)
  /\ UNCHANGED <<procVars, file, outcome, since, owed>>

\* The loop ends: a worker leaves, any other pass rebuilds the index files.
EmbedDone ==
  /\ step = "embed"
  /\ EndPass
  /\ IF mode = "worker" THEN Ended("partial") ELSE Goto("sweep")
  /\ UNCHANGED <<file, since>>

-----------------------------------------------------------------------------
(* rebuild_index.                                                          *)

\* Its own invalidation; a failure of it is not fatal.
RebuildSweep ==
  /\ step = "sweep"
  /\ Sweep \/ StoreUnchanged
  /\ step' = "rows" /\ owed' = owed \cup OthersCut(cur)
  /\ UNCHANGED <<mode, removed, spaces, built, outcome, file, since>>

\* Faulty variant: both files are written as soon as one space has a row.
SpacesWithRowsAny == IF \E n \in Node : vec[n][cur] # NoRow THEN {"code"} ELSE {}

SpacesWithRows == {s \in Space : RowsOf(cur, s) # NoVectors}

\* The rows of each space are counted; without any the rebuild fails.
CountRows ==
  /\ step = "rows" /\ StoreUnchanged
  /\ IF SpacesWithRows = {}
       THEN Ended("failed")
       ELSE /\ step' = "build" /\ spaces' = SpacesWithRows
            /\ UNCHANGED <<mode, removed, outcome, built, owed>>
  /\ UNCHANGED <<file, since>>

\* The files of the spaces that had rows are written, code first.
BuildIndex(s) ==
  /\ step = "build" /\ s \in spaces
  /\ s = "docs" => "code" \notin spaces
  /\ Publish(s)
  /\ spaces' = spaces \ {s} /\ built' = built \cup {s}
  /\ StoreUnchanged
  /\ UNCHANGED <<step, mode, removed, outcome, since, owed>>

RebuildDone ==
  /\ step = "build" /\ spaces = {}
  /\ StoreUnchanged /\ Ended("rebuilt")
  /\ UNCHANGED <<file, since>>

-----------------------------------------------------------------------------
(* The environment.                                                        *)

DaemonEdit ==
  /\ Daemon
  /\ since' = since \cup {n \in Node : node'[n] # node[n]} \cup (tomb' \ tomb)
  /\ UNCHANGED <<procVars, file, outcome, owed>>

\* The process dies at any step.
Die ==
  /\ CanDie /\ step # "idle"
  /\ Crash \/ (pass = "idle" /\ StoreUnchanged)
  /\ Ended("died")
  /\ UNCHANGED <<file, since>>

Process ==
  \/ CountPending \/ OpenIndex \/ EmbedStep \/ EmbedDone
  \/ RebuildSweep \/ CountRows \/ (\E s \in Space : BuildIndex(s)) \/ RebuildDone

ReindexNext ==
  \/ \E m \in Model : StartRebuild(m) \/ \E md \in Modes : Start(m, md)
  \/ Process
  \/ DaemonEdit
  \/ Die

ReindexSpec == ReindexInit /\ [][ReindexNext]_rvars

\* A process that has started goes on; the daemon eventually stops editing.
ReindexFairness == WF_rvars(Process) /\ <>[][~ DaemonEdit]_rvars

-----------------------------------------------------------------------------
(* Properties.                                                             *)

AtRest(how) == step = "idle" /\ outcome = how

\* After a full pass that rebuilt the files, every eligible node that was not
\* edited meanwhile is searchable: its index has a vector of it, a document's
\* of its current text, and a code node's not of a text it no longer has.
SearchableAfterPass ==
  AtRest("rebuilt") /\ mode = "all" =>
    \A n \in Node \ since :
      Eligible(n, node[n]) =>
        LET digest == file[cur][IF n \in DocNode THEN "docs" ELSE "code"].has[n] IN
        /\ digest # NoRow
        /\ n \in DocNode => digest = node[n]
        /\ {digest, node[n]} \subseteq Text => digest = node[n] \/ n \in pruned

\* What a rebuild has written agrees with embed.db: a file holds the vectors of
\* its space's nodes and no other, none of a deleted node, none twice.
RebuiltMatchesRows ==
  AtRest("rebuilt") =>
    \A s \in built, n \in Node \ since :
      file[cur][s].has[n] # NoRow =>
        /\ node[n] # Absent
        /\ s = "docs" <=> n \in DocNode
        /\ file[cur][s].has[n] = vec[n][cur]

\* Only a process that failed or died, the file a rebuild leaves to a space
\* without rows, or an invalidation run for another model makes a gap between
\* embed.db and the index: when no rebuild is owed, a pass that finds the index
\* up to date is right in that no deleted node is in either of its files.
UpToDateUnlessOwed ==
  AtRest("uptodate") /\ cur \notin owed =>
    \A s \in Space, n \in Node \ since :
      node[n] = Absent => file[cur][s].has[n] = NoRow

\* An index that can be served is never taken away: a failed rebuild, a
\* quarantine or a death leaves the previous one in place, and only a rebuild
\* replaces it, if possibly by one without a vector.
GoodIndexKept ==
  [][\A m \in Model, s \in Space :
       Loadable(file[m][s]) => file'[m][s].kind = "index"]_rvars

\* A pass that starts ends: its loop drains the pending nodes.
PassEnds == step # "idle" ~> step = "idle"

-----------------------------------------------------------------------------
(* Claims of the code that do not hold.                                    *)

\* A pass that removed vectors rebuilds the files so that a deleted document
\* is not served any more.
RebuildDropsDeleted ==
  AtRest("rebuilt") =>
    \A s \in Space, n \in Node \ since : node[n] = Absent => file[cur][s].has[n] = NoRow

\* Every published index holds at least one vector.
PublishedHasVector ==
  \A m \in Model, s \in Space : file[m][s].kind = "index" => file[m][s].has # NoVectors
=============================================================================
