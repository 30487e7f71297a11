--------------------------- MODULE ReindexProofs ---------------------------
(***************************************************************************)
(* Proofs about the serial pass, rebuild_index and the index files, for    *)
(* every set of nodes, models and modes, every edit of the daemon and a    *)
(* death at any step.                                                      *)
(*                                                                         *)
(* The store keeps the invariant of FreshnessProofs: a step of Reindex is  *)
(* a step of Freshness or leaves the store alone, but for --rebuild-index, *)
(* which picks a model while no pass runs.  On top of it stand three       *)
(* invariants, one for each property of the files: what a rebuild has      *)
(* written so far, what a full pass has embedded so far, and which files   *)
(* may hold a vector that embed.db has lost. The last part shows that a    *)
(* process takes finitely many steps.                                      *)
(***************************************************************************)
EXTENDS Reindex, FreshnessProofs, FiniteSetTheorems, WellFoundedInduction

InPass    == step \in {"count", "open", "embed"}
InRebuild == step \in {"sweep", "rows", "build"}

-----------------------------------------------------------------------------
(* The store.                                                              *)

\* What --rebuild-index does to the store: it picks a model.
PickModel ==
  /\ pass = "idle" /\ cur' \in Model
  /\ UNCHANGED <<graphVars, vec, pass, scope, held, touched>>

LEMMA ScopeOfInScope == \A md \in Modes : ScopeOf[md] \in Scope /\ Shard \in Scope
BY ReindexAssumption DEF ScopeOf, Mode

LEMMA StoreStep == ReindexNext => [Next]_vars \/ PickModel
<1> SUFFICES ASSUME ReindexNext PROVE [Next]_vars \/ PickModel
  OBVIOUS
<1>1. ASSUME NEW m \in Model, NEW md \in Modes, Start(m, md) PROVE Next
  <2>1. PICK sc \in Scope : BeginPass(m, sc) \/ BeginWorkerPass(m, sc)
    BY <1>1, ScopeOfInScope DEF Start
  <2> QED
    BY <2>1 DEF Next, Sidecar, Progress
<1>2. ASSUME NEW m \in Model, StartRebuild(m) PROVE PickModel
  BY <1>2 DEF StartRebuild, PickModel
<1>3. CASE CountPending
  BY <1>3 DEF CountPending, StoreUnchanged, Next, Sidecar, Progress
<1>4. CASE OpenIndex
  BY <1>4 DEF OpenIndex, StoreUnchanged, Next, Sidecar
<1>5. CASE EmbedStep
  BY <1>5 DEF EmbedStep, Next, Sidecar, Progress
<1>6. CASE EmbedDone
  BY <1>6 DEF EmbedDone, Next, Sidecar, Progress
<1>7. CASE RebuildSweep
  BY <1>7 DEF RebuildSweep, StoreUnchanged, Next, Sidecar, Progress
<1>8. CASE CountRows
  BY <1>8 DEF CountRows, StoreUnchanged
<1>9. ASSUME NEW s \in Space, BuildIndex(s) PROVE UNCHANGED vars
  BY <1>9 DEF BuildIndex, StoreUnchanged
<1>10. CASE RebuildDone
  BY <1>10 DEF RebuildDone, StoreUnchanged
<1>11. CASE DaemonEdit
  BY <1>11 DEF DaemonEdit, Next
<1>12. CASE Die
  BY <1>12 DEF Die, StoreUnchanged, Next, Sidecar
<1> QED
  BY <1>1, <1>2, <1>3, <1>4, <1>5, <1>6, <1>7, <1>8, <1>9, <1>10, <1>11, <1>12
  DEF ReindexNext, Process

LEMMA StoreInvStep == IInv /\ [ReindexNext]_rvars => IInv'
<1> SUFFICES ASSUME IInv, [ReindexNext]_rvars PROVE IInv'
  OBVIOUS
<1>1. CASE [Next]_vars
  BY <1>1, IInvStep
<1>2. CASE PickModel
  BY <1>2
  DEF PickModel, graphVars, IInv, TypeOK, StaleIsTombstoned, HeldStaleIsTombstoned,
      StaleDocIsRecent, OrphanIsRecent, HeldStaleIsRecent, HeldOnlyWhileEmbedding, HeldHasNoRow,
      NothingHeld
<1> QED
  BY <1>1, <1>2, StoreStep DEF rvars

LEMMA StoreInvariant == ReindexSpec => []IInv
<1>1. ReindexInit => IInv
  BY IInvInit DEF ReindexInit
<1> QED
  BY <1>1, StoreInvStep, PTL DEF ReindexSpec

\* The promises of Freshness hold of embed.db when the passes are interleaved
\* with rebuilds, other models and deaths between any two steps.
THEOREM ReindexKeepsStore ==
  ReindexSpec => []StaleIsTombstoned /\ []StaleDocIsRecent /\ []OrphanIsRecent
<1>1. IInv => StaleIsTombstoned /\ StaleDocIsRecent /\ OrphanIsRecent
  BY DEF IInv
<1> QED
  BY <1>1, StoreInvariant, PTL

\* So do its promises about a step: no step of a process takes a matching row,
\* and what it acknowledges is settled.
THEOREM ReindexKeepsRows == ReindexSpec => FreshRowsSurvive /\ AckIsSettled
<1>1. IInv /\ [ReindexNext]_rvars => [FreshRowsKept /\ AckedIsSettled]_vars
  <2> SUFFICES ASSUME IInv, [ReindexNext]_rvars PROVE FreshRowsKept /\ AckedIsSettled
    OBVIOUS
  <2>1. CASE [Next]_vars
    BY <2>1, FreshRowsStep, AckStep
  <2>2. CASE PickModel
    BY <2>2 DEF PickModel, graphVars, FreshRowsKept, AckedIsSettled
  <2> QED
    BY <2>1, <2>2, StoreStep DEF rvars
<1> QED
  BY <1>1, StoreInvariant, PTL
  DEF ReindexSpec, FreshRowsSurvive, AckIsSettled, FreshRowsKept, AckedIsSettled

-----------------------------------------------------------------------------
(* Types.                                                                  *)

LEMMA EndedFacts ==
  ASSUME NEW how, Ended(how)
  PROVE  /\ step' = "idle" /\ outcome' = how /\ removed' = FALSE /\ spaces' = {}
         /\ mode' = mode /\ built' = built
         /\ how \in {"failed", "died"} => owed' = owed \cup {cur}
         /\ how \in {"partial", "uptodate"} => owed' = owed
         /\ how = "rebuilt" => \/ owed' = owed \cup {cur}
                               \/ /\ owed' = owed \ {cur}
                                  /\ \A s \in Space \ built : file[cur][s].has = NoVectors
BY DEF Ended

LEMMA GotoFacts ==
  ASSUME NEW st, Goto(st)
  PROVE  /\ step' = st
         /\ mode' = mode /\ removed' = removed /\ spaces' = spaces /\ built' = built
         /\ outcome' = outcome /\ owed' = owed
BY DEF Goto

LEMMA PublishFacts ==
  ASSUME TypeOK, ReindexTypeOK, NEW s \in Space, Publish(s)
  PROVE  /\ file' \in [Model -> [Space -> File]]
         /\ file'[cur][s].kind = "index" /\ file'[cur][s].has = RowsOf(cur, s)
         /\ \A m \in Model, t \in Space : m # cur \/ t # s => file'[m][t] = file[m][t]
<1>1. RowsOf(cur, s) \in [Node -> RowState]
  BY DEF TypeOK, RowsOf, RowState
<1>2. [kind |-> "index", has |-> RowsOf(cur, s)] \in File
  BY <1>1 DEF File
<1>3. file'[cur][s] = [kind |-> "index", has |-> RowsOf(cur, s)]
  BY DEF TypeOK, ReindexTypeOK, Publish
<1>4. file'[cur][s].kind = "index" /\ file'[cur][s].has = RowsOf(cur, s)
  BY <1>3
<1> QED
  BY <1>2, <1>4 DEF TypeOK, ReindexTypeOK, Publish

LEMMA QuarantinedFacts ==
  ASSUME ReindexTypeOK, NEW m \in Model
  PROVE  /\ Quarantined(m) \in [Model -> [Space -> File]]
         /\ \A o \in Model, t \in Space :
              \/ Quarantined(m)[o][t] = file[o][t]
              \/ Quarantined(m)[o][t] = NoFile /\ ~ Loadable(file[o][t]) /\ o = m
<1>1. "code" \in Space /\ NoFile \in File
  BY DEF Space, File
<1> QED
  BY <1>1 DEF ReindexTypeOK, Quarantined

\* AfterNothingPending as the ends it can come to.
LEMMA NothingPendingEnds ==
  ASSUME AfterNothingPending
  PROVE  \/ Ended("partial") /\ (mode = "worker" \/ ~ removed)
         \/ Goto("sweep")
         \/ Ended("uptodate") /\ mode # "worker" /\ ~ removed
BY DEF AfterNothingPending

LEMMA OpenIndexEnds ==
  ASSUME OpenIndex
  PROVE  \/ file' = Quarantined(cur) /\ StoreUnchanged /\ Goto("embed")
         \/ Publish("code") /\ StoreUnchanged /\ Goto("embed")
         \/ Publish("code") /\ Crash /\ Ended("failed")
BY DEF OpenIndex

LEMMA OthersCutIsModels == \A m \in Model : OthersCut(m) \subseteq Model \ {m}
BY DEF OthersCut

LEMMA ReindexTypeStep == TypeOK /\ TypeOK' /\ ReindexTypeOK /\ [ReindexNext]_rvars => ReindexTypeOK'
<1> SUFFICES ASSUME TypeOK, TypeOK', ReindexTypeOK, [ReindexNext]_rvars PROVE ReindexTypeOK'
  OBVIOUS
<1> USE ReindexAssumption
<1>0. "code" \in Space /\ "all" \in Mode /\ "rebuild" \in Mode /\ cur \in Model
  BY DEF Space, Mode, TypeOK
<1>e. ASSUME NEW how \in {"partial", "uptodate", "rebuilt", "failed", "died"}, Ended(how),
             file' \in [Model -> [Space -> File]], UNCHANGED since
      PROVE  ReindexTypeOK'
  BY <1>e, <1>0, EndedFacts DEF ReindexTypeOK, Steps
<1>g. ASSUME NEW st \in Steps, Goto(st), file' \in [Model -> [Space -> File]], UNCHANGED since
      PROVE  ReindexTypeOK'
  BY <1>g, GotoFacts DEF ReindexTypeOK
<1>1. ASSUME NEW m \in Model, NEW md \in Modes, Start(m, md) PROVE ReindexTypeOK'
  <2>1. removed' \in BOOLEAN /\ owed' \subseteq Model
    BY <1>1, OthersCutIsModels DEF Start, ReindexTypeOK, RemovedAny
  <2> QED
    BY <1>1, <2>1 DEF Start, ReindexTypeOK, Steps
<1>2. ASSUME NEW m \in Model, StartRebuild(m) PROVE ReindexTypeOK'
  BY <1>2, <1>0 DEF StartRebuild, ReindexTypeOK, Steps
<1>3. CASE CountPending
  BY <1>3, <1>e, <1>g, NothingPendingEnds DEF CountPending, ReindexTypeOK, Steps
<1>4. CASE OpenIndex
  <2>1. file' \in [Model -> [Space -> File]]
    BY <1>4, <1>0, OpenIndexEnds, PublishFacts, QuarantinedFacts
  <2>2. Ended("failed") \/ Goto("embed")
    BY <1>4, OpenIndexEnds
  <2>3. UNCHANGED since
    BY <1>4 DEF OpenIndex
  <2> QED
    BY <2>1, <2>2, <2>3, <1>e, <1>g DEF Steps
<1>5. CASE EmbedStep
  BY <1>5 DEF EmbedStep, procVars, ReindexTypeOK
<1>6. CASE EmbedDone
  BY <1>6, <1>e, <1>g DEF EmbedDone, ReindexTypeOK, Steps
<1>7. CASE RebuildSweep
  BY <1>7, <1>0, OthersCutIsModels DEF RebuildSweep, ReindexTypeOK, Steps
<1>8. CASE CountRows
  <2>1. CASE Ended("failed") /\ UNCHANGED <<file, since>>
    BY <2>1, <1>e DEF ReindexTypeOK
  <2>2. CASE /\ step' = "build" /\ spaces' = SpacesWithRows
             /\ UNCHANGED <<mode, removed, outcome, built, owed, file, since>>
    BY <2>2 DEF ReindexTypeOK, Steps, SpacesWithRows
  <2> QED
    BY <1>8, <2>1, <2>2 DEF CountRows
<1>9. ASSUME NEW s \in Space, BuildIndex(s) PROVE ReindexTypeOK'
  BY <1>9, PublishFacts DEF BuildIndex, ReindexTypeOK
<1>10. CASE RebuildDone
  BY <1>10, <1>e DEF RebuildDone, ReindexTypeOK
<1>11. CASE DaemonEdit
  BY <1>11 DEF DaemonEdit, procVars, ReindexTypeOK, TypeOK
<1>12. CASE Die
  BY <1>12, <1>e DEF Die, ReindexTypeOK
<1>13. CASE UNCHANGED rvars
  BY <1>13 DEF rvars, procVars, ReindexTypeOK
<1> QED
  BY <1>1, <1>2, <1>3, <1>4, <1>5, <1>6, <1>7, <1>8, <1>9, <1>10, <1>11, <1>12, <1>13
  DEF ReindexNext, Process

\* The store's invariant and the types, which every proof below starts from.
Base == IInv /\ ReindexTypeOK

LEMMA BaseStep == Base /\ [ReindexNext]_rvars => Base'
BY StoreInvStep, ReindexTypeStep DEF Base, IInv

LEMMA BaseInvariant == ReindexSpec => []Base
<1>1. ReindexInit => Base
  BY IInvInit DEF ReindexInit, Base, ReindexTypeOK, Steps, Mode, File
<1> QED
  BY <1>1, BaseStep, PTL DEF ReindexSpec

\* The process, its history and every index file keep their types.
THEOREM ReindexTypeCorrect == ReindexSpec => []ReindexTypeOK
<1>1. Base => ReindexTypeOK
  BY DEF Base
<1> QED
  BY <1>1, BaseInvariant, PTL

-----------------------------------------------------------------------------
(* A good index is kept.                                                   *)

GoodFilesKept ==
  \A m \in Model, s \in Space : Loadable(file[m][s]) => file'[m][s].kind = "index"

LEMMA GoodFilesStep == Base /\ [ReindexNext]_rvars => GoodFilesKept
<1> SUFFICES ASSUME Base, [ReindexNext]_rvars PROVE GoodFilesKept
  OBVIOUS
<1>t. TypeOK /\ ReindexTypeOK /\ cur \in Model /\ "code" \in Space
  BY DEF Base, IInv, TypeOK, Space
<1>1. CASE UNCHANGED file
  BY <1>1 DEF GoodFilesKept, Loadable
<1>2. ASSUME NEW s \in Space, Publish(s) PROVE GoodFilesKept
  <2>1. file'[cur][s].kind = "index"
    BY <1>2, <1>t, PublishFacts
  <2>2. \A m \in Model, t \in Space : m # cur \/ t # s => file'[m][t] = file[m][t]
    BY <1>2, <1>t, PublishFacts
  <2> QED
    BY <2>1, <2>2 DEF GoodFilesKept, Loadable
<1>3. CASE file' = Quarantined(cur)
  BY <1>3, <1>t, QuarantinedFacts DEF GoodFilesKept, Loadable
<1>4. \/ UNCHANGED file \/ file' = Quarantined(cur) \/ \E s \in Space : Publish(s)
  <2>1. CASE OpenIndex
    BY <2>1, <1>t, OpenIndexEnds
  <2>2. CASE \E s \in Space : BuildIndex(s)
    BY <2>2 DEF BuildIndex
  <2>3. CASE ~ OpenIndex /\ ~ \E s \in Space : BuildIndex(s)
    BY <2>3
    DEF rvars, ReindexNext, Process, Start, StartRebuild, CountPending, EmbedStep, EmbedDone,
        RebuildSweep, CountRows, RebuildDone, DaemonEdit, Die
  <2> QED
    BY <2>1, <2>2, <2>3
<1> QED
  BY <1>1, <1>2, <1>3, <1>4

\* No step takes away an index that can be served: what replaces it, in any
\* mode and at any death, is an index again.
THEOREM GoodIndexIsKept == ReindexSpec => GoodIndexKept
<1>1. Base /\ [ReindexNext]_rvars => [GoodFilesKept]_rvars
  BY GoodFilesStep
<1> QED
  BY <1>1, BaseInvariant, PTL DEF ReindexSpec, GoodIndexKept, GoodFilesKept

-----------------------------------------------------------------------------
(* What a rebuild has written.                                             *)

\* A process starts with nothing written and writes only when it builds.
NothingBuiltYet == InPass \/ step \in {"sweep", "rows"} => built = {}

\* A file the process has written agrees with the rows, node by node, but for
\* the nodes edited since it started.
BuiltIsRows ==
  step = "build" \/ AtRest("rebuilt") =>
    \A s \in built, n \in Node \ since : file[cur][s].has[n] = RowsOf(cur, s)[n]

\* A process that has ended leaves nothing to build and nothing removed.
IdleOwesNothing == step = "idle" => spaces = {} /\ removed = FALSE

BuiltInv == Base /\ IdleOwesNothing /\ NothingBuiltYet /\ BuiltIsRows

LEMMA IdleStep == IdleOwesNothing /\ [ReindexNext]_rvars => IdleOwesNothing'
<1> SUFFICES ASSUME IdleOwesNothing, ReindexNext, step' = "idle" PROVE spaces' = {} /\ removed' = FALSE
  BY DEF IdleOwesNothing, rvars, procVars
<1>1. ASSUME NEW how, Ended(how) PROVE spaces' = {} /\ removed' = FALSE
  BY <1>1, EndedFacts
<1>g. ASSUME NEW st \in Steps \ {"idle"}, Goto(st) PROVE FALSE
  BY <1>g, GotoFacts
<1>2. CASE UNCHANGED procVars
  BY <1>2 DEF procVars, IdleOwesNothing
<1>3. CASE OpenIndex
  BY <1>1, <1>g, <1>3, OpenIndexEnds DEF Steps
<1>4. CASE CountPending
  <2>1. Goto("open") \/ Goto("embed") \/ AfterNothingPending
    BY <1>4 DEF CountPending
  <2> QED
    BY <1>1, <1>g, <2>1, NothingPendingEnds DEF Steps
<1>5. CASE EmbedDone
  BY <1>1, <1>g, <1>5 DEF EmbedDone, Steps
<1> QED
  BY <1>1, <1>2, <1>3, <1>4, <1>5
  DEF ReindexNext, Process, Start, StartRebuild, EmbedStep, RebuildSweep, CountRows, BuildIndex,
      RebuildDone, DaemonEdit, Die

\* An edit of the daemon as the other variables see it.
LEMMA DaemonFacts ==
  ASSUME TypeOK, DaemonEdit
  PROVE  /\ UNCHANGED <<procVars, file, outcome, owed, vec, pass, cur, scope, held>>
         /\ since \subseteq since'
         /\ \A n \in Node \ since' :
              node'[n] = node[n] /\ n \notin since /\ (n \in tomb' => n \in tomb)
<1>1. UNCHANGED <<vec, pass, cur, scope, held>>
  BY DEF DaemonEdit, Daemon, Replace, Create, Regenerate, Remove, PruneLog, passVars
<1> QED
  BY <1>1 DEF DaemonEdit

LEMMA BuiltStep == BuiltInv /\ [ReindexNext]_rvars => BuiltInv'
<1> SUFFICES ASSUME BuiltInv, [ReindexNext]_rvars PROVE NothingBuiltYet' /\ BuiltIsRows'
  BY BaseStep, IdleStep DEF BuiltInv
<1> USE DEF BuiltInv, NothingBuiltYet, InPass
<1>t. TypeOK /\ ReindexTypeOK
  BY DEF Base, IInv
<1>e. ASSUME NEW how \in {"partial", "uptodate", "failed", "died"}, Ended(how)
      PROVE  NothingBuiltYet' /\ BuiltIsRows'
  BY <1>e, EndedFacts DEF BuiltIsRows, AtRest
<1>g. ASSUME NEW st \in {"open", "embed", "sweep"}, Goto(st), InPass
      PROVE  NothingBuiltYet' /\ BuiltIsRows'
  BY <1>g, GotoFacts DEF BuiltIsRows, AtRest
<1>1. ASSUME NEW m \in Model, NEW md \in Modes, Start(m, md)
      PROVE  NothingBuiltYet' /\ BuiltIsRows'
  BY <1>1 DEF Start, BuiltIsRows, AtRest
<1>2. ASSUME NEW m \in Model, StartRebuild(m) PROVE NothingBuiltYet' /\ BuiltIsRows'
  BY <1>2 DEF StartRebuild, BuiltIsRows, AtRest
<1>3. CASE CountPending
  BY <1>3, <1>e, <1>g, NothingPendingEnds DEF CountPending
<1>4. CASE OpenIndex
  BY <1>4, <1>e, <1>g, OpenIndexEnds DEF OpenIndex
<1>5. CASE EmbedStep
  BY <1>5 DEF EmbedStep, procVars, BuiltIsRows, AtRest
<1>6. CASE EmbedDone
  BY <1>6, <1>e, <1>g DEF EmbedDone
<1>7. CASE RebuildSweep
  BY <1>7 DEF RebuildSweep, BuiltIsRows, AtRest
<1>8. CASE CountRows
  BY <1>8, <1>e DEF CountRows, BuiltIsRows, AtRest
<1>9. ASSUME NEW s \in Space, BuildIndex(s) PROVE NothingBuiltYet' /\ BuiltIsRows'
  <2>1. /\ step = "build" /\ step' = "build" /\ built' = built \cup {s}
        /\ UNCHANGED <<node, vec, cur, since>> /\ Publish(s)
    BY <1>9 DEF BuildIndex, StoreUnchanged, vars
  <2>2. \A t \in Space : RowsOf(cur, t)' = RowsOf(cur, t)
    BY <2>1 DEF RowsOf, InSpace
  <2>3. file'[cur][s].has = RowsOf(cur, s)
    BY <2>1, <1>t, PublishFacts
  <2>4. \A t \in built : t # s => file'[cur][t] = file[cur][t]
    BY <2>1, <1>t, PublishFacts DEF TypeOK, ReindexTypeOK
  <2>5. ASSUME NEW t \in built', NEW n \in Node \ since'
        PROVE  file'[cur'][t].has[n] = RowsOf(cur, t)'[n]
    <3>1. t \in Space
      BY <2>1, <1>t DEF ReindexTypeOK
    <3>2. CASE t = s
      BY <2>1, <2>2, <2>3, <3>2
    <3>3. CASE t # s
      BY <2>1, <2>2, <2>4, <3>1, <3>3 DEF BuiltIsRows
    <3> QED
      BY <3>2, <3>3
  <2> QED
    BY <2>1, <2>5 DEF BuiltIsRows
<1>10. CASE RebuildDone
  <2>1. /\ step = "build" /\ step' = "idle" /\ built' = built
        /\ UNCHANGED <<node, vec, cur, since, file>>
    BY <1>10, EndedFacts DEF RebuildDone, StoreUnchanged, vars
  <2> QED
    BY <2>1 DEF BuiltIsRows, RowsOf, InSpace
<1>11. CASE DaemonEdit
  <2>1. /\ UNCHANGED <<procVars, file, outcome, vec, cur>>
        /\ \A n \in Node \ since' : node'[n] = node[n] /\ n \notin since
    BY <1>11, <1>t, DaemonFacts
  <2> QED
    BY <2>1 DEF procVars, BuiltIsRows, AtRest, RowsOf, InSpace
<1>12. CASE Die
  BY <1>12, <1>e DEF Die
<1>13. CASE UNCHANGED rvars
  BY <1>13 DEF rvars, vars, procVars, BuiltIsRows, AtRest, RowsOf, InSpace
<1> QED
  BY <1>1, <1>2, <1>3, <1>4, <1>5, <1>6, <1>7, <1>8, <1>9, <1>10, <1>11, <1>12, <1>13
  DEF ReindexNext, Process

LEMMA BuiltInvariant == ReindexSpec => []BuiltInv
<1>1. ReindexInit => IdleOwesNothing /\ NothingBuiltYet /\ BuiltIsRows
  BY DEF ReindexInit, IdleOwesNothing, NothingBuiltYet, BuiltIsRows, AtRest, InPass
<1>2. Base /\ IdleOwesNothing /\ NothingBuiltYet /\ BuiltIsRows => BuiltInv
  BY DEF BuiltInv
<1> QED
  BY <1>1, <1>2, BaseInvariant, BuiltStep, PTL DEF ReindexSpec

\* What a rebuild publishes agrees with embed.db when it is done: each file
\* holds the vectors of its own space's nodes, as they are stored, and none of
\* a deleted node.
THEOREM RebuildPublishesRows == ReindexSpec => []RebuiltMatchesRows
<1>1. BuiltInv => RebuiltMatchesRows
  <2> SUFFICES ASSUME BuiltInv, AtRest("rebuilt"),
                      NEW s \in built, NEW n \in Node \ since, file[cur][s].has[n] # NoRow
               PROVE  /\ node[n] # Absent
                      /\ s = "docs" <=> n \in DocNode
                      /\ file[cur][s].has[n] = vec[n][cur]
    BY DEF RebuiltMatchesRows
  <2>1. file[cur][s].has[n] = RowsOf(cur, s)[n]
    BY DEF BuiltInv, BuiltIsRows
  <2>2. InSpace(s, n) /\ file[cur][s].has[n] = vec[n][cur]
    BY <2>1 DEF RowsOf
  <2>3. s \in Space
    BY DEF BuiltInv, Base, ReindexTypeOK
  <2> QED
    BY <2>2, <2>3 DEF InSpace, InCodeSpace, InDocSpace, Space
<1> QED
  BY <1>1, BuiltInvariant, PTL

-----------------------------------------------------------------------------
(* What a full pass has embedded.                                          *)

\* The doc sweep is never skipped: the models cannot have more doc rows than
\* it looks at.  Above that a document's outdated vector may stay, and what is
\* proved below of documents rests on this hypothesis.
DocsFit ==
  /\ IsFiniteSet(DocNode \X Model)
  /\ Cardinality(DocNode \X Model) <= DocVerifyMaxRows

SpaceOf(n) == IF n \in DocNode THEN "docs" ELSE "code"

\* A full pass is under way, or has rebuilt the files.
FullPass == mode = "all" /\ (step # "idle" \/ outcome = "rebuilt")

\* The nodes the pass answers for: those nobody edited since it started.
Answerable == {n \in Node \ since : n \in DocNode => DocsFit}

\* What is left of the log are tombstones of nodes whose text is not known.
TombstonesSettled == FullPass => \A n \in tomb \ since : node[n] = NullText

HeldIsCurrent ==
  FullPass => \A n \in Node \ since : held[n] # NoRow => held[n] = EmbedInput(node[n])

DocsMatch ==
  FullPass /\ DocsFit =>
    \A n \in DocNode \ since : node[n] \in Text => vec[n][cur] \in {NoRow, node[n]}

ScopeIsAll == mode = "all" /\ InPass => scope = Node

\* Once the loop is over, also after the second sweep, every node has its row.
AllEmbedded ==
  FullPass /\ ~ InPass =>
    \A n \in Answerable : Eligible(n, node[n]) => vec[n][cur] # NoRow

\* The file of every node's space is written, or is still to be.
SpacesCovered ==
  FullPass /\ step \in {"build", "idle"} =>
    \A n \in Answerable : Eligible(n, node[n]) => SpaceOf(n) \in spaces \cup built

FullPassInv ==
  /\ TombstonesSettled /\ HeldIsCurrent /\ DocsMatch
  /\ ScopeIsAll /\ AllEmbedded /\ SpacesCovered

SearchInv == BuiltInv /\ FullPassInv

LEMMA DocsFitSweeps ==
  ASSUME DocsFit, NEW g, NEW t, NEW v
  PROVE  DocSweepRuns(g, t, v)
<1> DEFINE Rows == DocRows(AfterCdc(g, t, v))
<1>1. Rows \in SUBSET (DocNode \X Model)
  BY DEF DocRows
<1>2. IsFiniteSet(Rows) /\ Cardinality(Rows) <= Cardinality(DocNode \X Model)
  BY <1>1, FS_Subset DEF DocsFit
<1>3. Cardinality(Rows) \in Nat /\ Cardinality(DocNode \X Model) \in Nat
  BY <1>2, FS_CardinalityType DEF DocsFit
<1> QED
  BY <1>2, <1>3, StoreAssumption DEF DocsFit, DocSweepRuns

\* The rows of a node outside the docs stay when the log has nothing on it.
LEMMA UnloggedRowsStay ==
  ASSUME NEW g \in [Node -> NodeState], NEW t \in SUBSET Node,
         NEW v \in [Node -> [Model -> RowState]],
         NEW n \in Node \ DocNode, NEW m \in Model,
         g[n] # Absent, n \in t => g[n] = NullText
  PROVE  Invalidated(g, t, v)[n][m] = v[n][m]
BY StoreAssumption DEF Invalidated, AfterCdc, DropStale, SweepOrphans

LEMMA EligibleInSpace ==
  ASSUME NEW n \in Node, Eligible(n, node[n])
  PROVE  InSpace(SpaceOf(n), n) /\ SpaceOf(n) \in Space
BY DEF Eligible, InSpace, SpaceOf, InCodeSpace, InDocSpace, Space

\* A process that ends without a rebuild owes nothing.
LEMMA NoRebuildEnds ==
  ASSUME NEW how \in {"partial", "uptodate", "failed", "died"}, Ended(how)
  PROVE  FullPassInv'
BY EndedFacts
DEF FullPassInv, TombstonesSettled, HeldIsCurrent, DocsMatch, ScopeIsAll, AllEmbedded,
    SpacesCovered, FullPass, InPass

LEMMA FullStart ==
  ASSUME SearchInv, NEW m \in Model, NEW md \in Modes, Start(m, md)
  PROVE  FullPassInv'
<1> USE DEF InPass
<1>1. step' = "count" /\ mode' = md /\ since' = {} /\ cur' = m
  BY DEF Start, BeginPass, BeginWorkerPass
<1>2. CASE md # "all"
  BY <1>1, <1>2
  DEF FullPassInv, TombstonesSettled, HeldIsCurrent, DocsMatch, ScopeIsAll, AllEmbedded,
      SpacesCovered, FullPass
<1>3. CASE md = "all"
  <2>1. BeginPass(m, Node) /\ TypeOK
    BY <1>3 DEF Start, ScopeOf, Mode, SearchInv, BuiltInv, Base, IInv
  <2>2. held' = NothingHeld /\ scope' = Node /\ node' = node
    BY <2>1 DEF BeginPass, SearchInv, BuiltInv, Base, IInv, HeldOnlyWhileEmbedding
  <2>3. \A n \in tomb' : node'[n] = NullText
    BY <2>1 DEF BeginPass, Invalidate, Unacked
  <2>4. ASSUME DocsFit, NEW n \in DocNode, node[n] \in Text
        PROVE  vec'[n][m] \in {NoRow, node[n]}
    BY <2>1, <2>4, DocsFitSweeps, DocSweepSettles DEF BeginPass, Invalidate, TypeOK
  <2> QED
    BY <1>1, <2>2, <2>3, <2>4
    DEF FullPassInv, TombstonesSettled, HeldIsCurrent, DocsMatch, ScopeIsAll, AllEmbedded,
        SpacesCovered, FullPass, NothingHeld
<1> QED
  BY <1>2, <1>3

LEMMA FullEmbed ==
  ASSUME SearchInv, EmbedStep
  PROVE  FullPassInv'
<1> USE DEF SearchInv, FullPassInv, InPass
<1>t. TypeOK
  BY DEF BuiltInv, Base, IInv
<1>1. /\ step = "embed"
      /\ UNCHANGED <<step, mode, outcome, since, spaces, built, node, tomb, cur, scope>>
  BY DEF EmbedStep, procVars, SelectChunk, CommitRows, graphVars
<1>2. ScopeIsAll' /\ TombstonesSettled' /\ AllEmbedded' /\ SpacesCovered'
  BY <1>1 DEF ScopeIsAll, TombstonesSettled, AllEmbedded, SpacesCovered, FullPass
<1>3. ASSUME NEW S \in SUBSET Node, SelectChunk(S) PROVE HeldIsCurrent' /\ DocsMatch'
  BY <1>1, <1>3 DEF SelectChunk, HeldIsCurrent, DocsMatch, FullPass
<1>4. ASSUME NEW S \in SUBSET Node, CommitRows(S) PROVE HeldIsCurrent' /\ DocsMatch'
  <2>1. \A n \in Node : held'[n] = IF n \in S THEN NoRow ELSE held[n]
    BY <1>4 DEF CommitRows
  <2>2. \A n \in Node : vec'[n][cur] = IF n \in S THEN held[n] ELSE vec[n][cur]
    BY <1>4, <1>t DEF CommitRows, TypeOK
  <2>3. \A n \in S : held[n] # NoRow
    BY <1>4 DEF CommitRows
  <2>4. \A n \in DocNode \ since : FullPass /\ node[n] \in Text /\ n \in S => held[n] = node[n]
    BY <2>3, StoreAssumption DEF HeldIsCurrent, EmbedInput
  <2> QED
    BY <1>1, <2>1, <2>2, <2>4, StoreAssumption DEF HeldIsCurrent, DocsMatch, FullPass
<1> QED
  BY <1>2, <1>3, <1>4 DEF EmbedStep

\* The loop of a full pass ends with a row for every eligible node.
LEMMA FullLoopEnds ==
  ASSUME SearchInv, step \in {"count", "embed"}, EndPass, Goto("sweep"), UNCHANGED since
  PROVE  FullPassInv'
<1> USE DEF SearchInv, FullPassInv, InPass
<1>1. /\ step' = "sweep" /\ UNCHANGED <<mode, spaces, built, outcome, since>>
      /\ UNCHANGED <<node, tomb, vec, cur, held>>
  BY GotoFacts DEF EndPass, graphVars
<1>2. ASSUME mode = "all", NEW n \in Node, Eligible(n, node[n]) PROVE vec[n][cur] # NoRow
  BY <1>2 DEF EndPass, Todo, Pending, ScopeIsAll
<1> QED
  BY <1>1, <1>2
  DEF TombstonesSettled, HeldIsCurrent, DocsMatch, ScopeIsAll, AllEmbedded, SpacesCovered,
      FullPass, Answerable

\* The second sweep takes no row of a node the pass answers for.
LEMMA FullSweep ==
  ASSUME SearchInv, RebuildSweep
  PROVE  FullPassInv'
<1> USE DEF SearchInv, FullPassInv, InPass
<1>t. TypeOK /\ DocNode \subseteq Node
  BY StoreAssumption DEF BuiltInv, Base, IInv
<1>1. /\ step = "sweep" /\ step' = "rows"
      /\ UNCHANGED <<mode, spaces, built, outcome, since, node, tomb, cur, held>>
  BY DEF RebuildSweep, Sweep, Invalidate, passVars, StoreUnchanged, vars
<1>2. vec' = vec \/ vec' = Invalidated(node, tomb, vec)
  BY DEF RebuildSweep, Sweep, Invalidate, StoreUnchanged, vars
<1>3. \A n \in Node : vec'[n][cur] \in {NoRow, vec[n][cur]}
  BY <1>2, <1>t, InvalidatedShape DEF TypeOK
<1>4. ASSUME FullPass, NEW n \in Answerable, Eligible(n, node[n]) PROVE vec'[n][cur] # NoRow
  <2>1. n \in Node \ since /\ node[n] # Absent /\ vec[n][cur] # NoRow
    BY <1>1, <1>4 DEF Answerable, Eligible, AllEmbedded
  <2>2. CASE vec' = vec
    BY <2>1, <2>2
  <2>3. CASE vec' = Invalidated(node, tomb, vec) /\ n \notin DocNode
    <3>1. n \in tomb => node[n] = NullText
      BY <1>4, <2>1 DEF TombstonesSettled
    <3> QED
      BY <1>t, <2>1, <2>3, <3>1, UnloggedRowsStay DEF TypeOK
  <2>4. CASE vec' = Invalidated(node, tomb, vec) /\ n \in DocNode
    <3>1. node[n] \in Text
      BY <1>4, <1>t, <2>4 DEF Eligible, TypeOK, NodeState
    <3>2. vec[n][cur] = node[n]
      BY <1>4, <2>1, <2>4, <3>1 DEF DocsMatch, Answerable
    <3> QED
      BY <1>t, <2>1, <2>4, <3>2, InvalidatedKeepsFresh DEF TypeOK
  <2> QED
    BY <1>2, <2>2, <2>3, <2>4
<1> QED
  BY <1>1, <1>3, <1>4, <1>t
  DEF TombstonesSettled, HeldIsCurrent, DocsMatch, ScopeIsAll, AllEmbedded, SpacesCovered,
      FullPass, Answerable

LEMMA FullCount ==
  ASSUME SearchInv, CountRows
  PROVE  FullPassInv'
<1> USE DEF SearchInv, InPass
<1>1. UNCHANGED <<node, tomb, vec, cur, held, scope, since>> /\ step = "rows"
  BY DEF CountRows, StoreUnchanged, vars
<1>2. CASE Ended("failed")
  BY <1>2, NoRebuildEnds
<1>3. CASE /\ step' = "build" /\ spaces' = SpacesWithRows
           /\ UNCHANGED <<mode, removed, outcome, built, owed>>
  <2>1. ASSUME FullPass, NEW n \in Answerable, Eligible(n, node[n])
        PROVE  SpaceOf(n) \in SpacesWithRows
    <3>1. n \in Node /\ vec[n][cur] # NoRow
      BY <1>1, <2>1 DEF FullPassInv, AllEmbedded, Answerable
    <3>2. RowsOf(cur, SpaceOf(n))[n] # NoRow
      BY <2>1, <3>1, EligibleInSpace DEF RowsOf
    <3> QED
      BY <2>1, <3>1, <3>2, EligibleInSpace DEF SpacesWithRows, NoVectors
  <2> QED
    BY <1>1, <1>3, <2>1
    DEF FullPassInv, TombstonesSettled, HeldIsCurrent, DocsMatch, ScopeIsAll, AllEmbedded,
        SpacesCovered, FullPass, Answerable
<1> QED
  BY <1>2, <1>3 DEF CountRows

LEMMA FullDaemon ==
  ASSUME SearchInv, DaemonEdit
  PROVE  FullPassInv'
<1>t. TypeOK /\ TypeOK' /\ DocNode \subseteq Node
  BY StoreAssumption, IInvStep DEF SearchInv, BuiltInv, Base, IInv, DaemonEdit, Next
<1>1. /\ UNCHANGED <<step, mode, spaces, built, outcome, vec, cur, scope, held>>
      /\ \A n \in Node \ since' :
           node'[n] = node[n] /\ n \notin since /\ (n \in tomb' => n \in tomb)
  BY <1>t, DaemonFacts DEF procVars
<1>2. tomb' \subseteq Node
  BY <1>t DEF TypeOK
<1> USE DEF SearchInv, FullPassInv
<1>3. TombstonesSettled' /\ HeldIsCurrent'
  BY <1>1, <1>2 DEF TombstonesSettled, HeldIsCurrent, FullPass
<1>4. DocsMatch' /\ ScopeIsAll'
  BY <1>1, <1>t DEF DocsMatch, ScopeIsAll, FullPass, InPass
<1>5. AllEmbedded' /\ SpacesCovered'
  BY <1>1 DEF AllEmbedded, SpacesCovered, FullPass, InPass, Answerable
<1> QED
  BY <1>3, <1>4, <1>5

LEMMA SearchStep == SearchInv /\ [ReindexNext]_rvars => SearchInv'
<1> SUFFICES ASSUME SearchInv, [ReindexNext]_rvars PROVE FullPassInv'
  BY BuiltStep DEF SearchInv
<1> USE DEF SearchInv
<1>1. ASSUME NEW m \in Model, NEW md \in Modes, Start(m, md) PROVE FullPassInv'
  BY <1>1, FullStart
<1>2. ASSUME NEW m \in Model, StartRebuild(m) PROVE FullPassInv'
  BY <1>2
  DEF StartRebuild, FullPassInv, TombstonesSettled, HeldIsCurrent, DocsMatch, ScopeIsAll,
      AllEmbedded, SpacesCovered, FullPass
<1>g. ASSUME NEW st \in {"open", "embed"}, Goto(st), InPass, UNCHANGED since, StoreUnchanged
      PROVE  FullPassInv'
  BY <1>g, GotoFacts
  DEF StoreUnchanged, vars, FullPassInv, TombstonesSettled, HeldIsCurrent, DocsMatch, ScopeIsAll,
      AllEmbedded, SpacesCovered, FullPass, InPass
<1>3. CASE CountPending
  <2>1. step = "count" /\ UNCHANGED since
    BY <1>3 DEF CountPending
  <2>2. CASE EndPass /\ AfterNothingPending
    BY <2>1, <2>2, NothingPendingEnds, NoRebuildEnds, FullLoopEnds
  <2>3. CASE StoreUnchanged /\ (Goto("open") \/ Goto("embed"))
    BY <2>1, <2>3, <1>g DEF InPass
  <2> QED
    BY <1>3, <2>2, <2>3 DEF CountPending
<1>4. CASE OpenIndex
  <2>1. step = "open" /\ UNCHANGED since
    BY <1>4 DEF OpenIndex
  <2>2. Ended("failed") \/ (StoreUnchanged /\ Goto("embed"))
    BY <1>4, OpenIndexEnds
  <2> QED
    BY <2>1, <2>2, <1>g, NoRebuildEnds DEF InPass
<1>5. CASE EmbedStep
  BY <1>5, FullEmbed
<1>6. CASE EmbedDone
  BY <1>6, NoRebuildEnds, FullLoopEnds DEF EmbedDone
<1>7. CASE RebuildSweep
  BY <1>7, FullSweep
<1>8. CASE CountRows
  BY <1>8, FullCount
<1>9. ASSUME NEW s \in Space, BuildIndex(s) PROVE FullPassInv'
  BY <1>9
  DEF BuildIndex, StoreUnchanged, vars, FullPassInv, TombstonesSettled, HeldIsCurrent, DocsMatch,
      ScopeIsAll, AllEmbedded, SpacesCovered, FullPass, InPass, Answerable
<1>10. CASE RebuildDone
  <2>1. /\ step = "build" /\ step' = "idle" /\ spaces = {} /\ spaces' = {}
        /\ UNCHANGED <<mode, built, since, node, tomb, vec, cur, held>>
    BY <1>10, EndedFacts DEF RebuildDone, StoreUnchanged, vars
  <2> QED
    BY <2>1
    DEF FullPassInv, TombstonesSettled, HeldIsCurrent, DocsMatch, ScopeIsAll, AllEmbedded,
        SpacesCovered, FullPass, InPass, Answerable
<1>11. CASE DaemonEdit
  BY <1>11, FullDaemon
<1>12. CASE Die
  BY <1>12, NoRebuildEnds DEF Die
<1>13. CASE UNCHANGED rvars
  BY <1>13
  DEF rvars, vars, procVars, FullPassInv, TombstonesSettled, HeldIsCurrent, DocsMatch, ScopeIsAll,
      AllEmbedded, SpacesCovered, FullPass, InPass, Answerable
<1> QED
  BY <1>1, <1>2, <1>3, <1>4, <1>5, <1>6, <1>7, <1>8, <1>9, <1>10, <1>11, <1>12, <1>13
  DEF ReindexNext, Process

LEMMA SearchInvariant == ReindexSpec => []SearchInv
<1>1. ReindexInit => FullPassInv
  BY DEF ReindexInit, FullPassInv, TombstonesSettled, HeldIsCurrent, DocsMatch, ScopeIsAll,
         AllEmbedded, SpacesCovered, FullPass, InPass
<1>2. BuiltInv /\ FullPassInv => SearchInv
  BY DEF SearchInv
<1> QED
  BY <1>1, <1>2, BuiltInvariant, SearchStep, PTL DEF ReindexSpec

\* What the invariant says of one node when the files have been rebuilt.
LEMMA SearchableNode ==
  ASSUME SearchInv, AtRest("rebuilt"), mode = "all",
         NEW n \in Answerable, Eligible(n, node[n])
  PROVE  LET digest == file[cur][SpaceOf(n)].has[n] IN
         /\ digest # NoRow
         /\ n \in DocNode => digest = node[n]
         /\ {digest, node[n]} \subseteq Text => digest = node[n] \/ n \in pruned
<1> USE DEF SearchInv, FullPassInv, BuiltInv, Base, IInv
<1>1. n \in Node \ since /\ FullPass /\ ~ InPass /\ step = "idle"
  BY DEF Answerable, FullPass, AtRest, InPass
<1>2. vec[n][cur] # NoRow
  BY <1>1 DEF AllEmbedded
<1>3. SpaceOf(n) \in built
  <2>1. SpaceOf(n) \in spaces \cup built
    BY <1>1 DEF SpacesCovered
  <2> QED
    BY <2>1, <1>1 DEF IdleOwesNothing
<1>4. file[cur][SpaceOf(n)].has[n] = vec[n][cur]
  BY <1>1, <1>3, EligibleInSpace DEF BuiltIsRows, RowsOf
<1>5. ASSUME n \in DocNode PROVE vec[n][cur] = node[n]
  <2>1. node[n] \in Text
    BY <1>1, <1>5 DEF Eligible, TypeOK, NodeState
  <2> QED
    BY <1>1, <1>2, <1>5, <2>1 DEF DocsMatch, Answerable
<1>6. ASSUME vec[n][cur] \in Text, node[n] \in Text, vec[n][cur] # node[n] PROVE n \in pruned
  <2>1. n \in tomb \cup pruned
    BY <1>1, <1>6 DEF StaleIsTombstoned, TypeOK
  <2>2. n \notin tomb
    BY <1>1, <1>6, StoreAssumption DEF TombstonesSettled
  <2> QED
    BY <2>1, <2>2
<1> QED
  BY <1>2, <1>4, <1>5, <1>6

\* After a full pass every eligible node that nobody edited meanwhile is
\* searchable, whatever dies or is edited around it, when the doc sweep is
\* never skipped.
THEOREM SearchableAfterFullPass == ReindexSpec => [](DocsFit => SearchableAfterPass)
<1>1. SearchInv => (DocsFit => SearchableAfterPass)
  BY SearchableNode DEF SearchableAfterPass, SpaceOf, Answerable
<1> QED
  BY <1>1, SearchInvariant, PTL

\* SearchableAfterPass of the nodes that are no documents.
CodeSearchableAfterPass ==
  AtRest("rebuilt") /\ mode = "all" =>
    \A n \in Node \ (since \cup DocNode) :
      Eligible(n, node[n]) =>
        LET digest == file[cur]["code"].has[n] IN
        /\ digest # NoRow
        /\ {digest, node[n]} \subseteq Text => digest = node[n] \/ n \in pruned

\* For nodes that are no documents this needs no bound on the doc rows.
THEOREM CodeSearchableAfterFullPass == ReindexSpec => []CodeSearchableAfterPass
<1>1. SearchInv => CodeSearchableAfterPass
  BY SearchableNode DEF CodeSearchableAfterPass, SpaceOf, Answerable
<1> QED
  BY <1>1, SearchInvariant, PTL

-----------------------------------------------------------------------------
(* Which files may hold a vector that embed.db has lost.                   *)

FileWithin(m, s) == \A n \in Node : file[m][s].has[n] # NoRow => vec[n][m] # NoRow

\* The process has removed rows of m, or may have, and has not ended yet.
RebuildPending(m) == m = cur /\ (InRebuild \/ removed)

\* A file lists a row that is gone only while a rebuild is pending or owed.
GapIsOwed == \A m \in Model \ owed : RebuildPending(m) \/ \A s \in Space : FileWithin(m, s)

BuiltWithin == step = "build" => \A s \in built : FileWithin(cur, s)

WorkerRemovesNothing == mode = "worker" => removed = FALSE

\* Until it has counted, a pass that invalidated leaves no row of a deleted node.
NoOrphan ==
  (step = "count" /\ mode # "worker") \/ AtRest("uptodate") =>
    \A n \in Node \ since : node[n] = Absent => vec[n][cur] = NoRow

GapParts == GapIsOwed /\ BuiltWithin /\ WorkerRemovesNothing /\ NoOrphan

GapInv == BuiltInv /\ GapParts

LEMMA GapStart ==
  ASSUME GapInv, NEW m \in Model, NEW md \in Modes, Start(m, md)
  PROVE  GapParts'
<1> USE DEF GapInv, GapParts, InPass, InRebuild
<1>t. TypeOK
  BY DEF BuiltInv, Base, IInv
<1>1. /\ step = "idle" /\ step' = "count" /\ mode' = md /\ since' = {} /\ cur' = m
      /\ removed' = (md # "worker" /\ RemovedAny(node, tomb, vec))
      /\ owed' = owed \cup OthersCut(m) /\ UNCHANGED <<node, file>>
  BY DEF Start, BeginPass, BeginWorkerPass, graphVars
<1>2. vec' = IF md = "worker" THEN vec ELSE Invalidated(node, tomb, vec)
  BY DEF Start, BeginPass, BeginWorkerPass, Invalidate
<1>3. \A o \in Model \ owed, s \in Space : FileWithin(o, s)
  BY <1>1 DEF BuiltInv, IdleOwesNothing, GapIsOwed, RebuildPending
<1>4. ASSUME NEW o \in Model \ owed', NEW s \in Space, ~ RebuildPending(o)'
      PROVE  FileWithin(o, s)'
  <2>1. \A n \in Node : vec'[n][o] = vec[n][o]
    BY <1>1, <1>2, <1>4 DEF RebuildPending, RemovedAny, OthersCut
  <2> QED
    BY <1>1, <1>3, <2>1, <1>4 DEF FileWithin
<1>5. md # "worker" => \A n \in Node : node[n] = Absent => vec'[n][m] = NoRow
  BY <1>2, <1>t, InvalidatedSettles DEF TypeOK
<1> QED
  BY <1>1, <1>4, <1>5 DEF GapIsOwed, BuiltWithin, WorkerRemovesNothing, NoOrphan, AtRest

\* A step that takes no row and touches the files of no model but the
\* process's own, where they stay within the rows.
LEMMA GapKeeps ==
  ASSUME GapIsOwed, UNCHANGED cur,
         \A n \in Node, m \in Model : vec[n][m] # NoRow => vec'[n][m] # NoRow,
         \A m \in Model \ {cur}, s \in Space : file'[m][s] = file[m][s],
         \A s \in Space : FileWithin(cur, s) => FileWithin(cur, s)',
         cur \in owed' \/ RebuildPending(cur)' \/ (~ RebuildPending(cur) /\ cur \notin owed),
         owed \ {cur} \subseteq owed'
  PROVE  GapIsOwed'
<1> SUFFICES ASSUME NEW m \in Model \ owed', ~ RebuildPending(m)', NEW s \in Space
             PROVE  FileWithin(m, s)'
  BY DEF GapIsOwed
<1>1. CASE m = cur
  BY <1>1 DEF GapIsOwed, RebuildPending
<1>2. CASE m # cur
  BY <1>2 DEF GapIsOwed, RebuildPending, FileWithin
<1> QED
  BY <1>1, <1>2

LEMMA GapEmbed ==
  ASSUME GapInv, EmbedStep
  PROVE  GapParts'
<1> USE DEF GapInv, GapParts
<1>t. TypeOK
  BY DEF BuiltInv, Base, IInv
<1>1. step = "embed" /\ UNCHANGED <<procVars, file, outcome, owed, since, node, cur>>
  BY DEF EmbedStep, SelectChunk, CommitRows, graphVars
<1>2. \A n \in Node, m \in Model : vec[n][m] # NoRow => vec'[n][m] # NoRow
  BY <1>t DEF EmbedStep, SelectChunk, CommitRows, TypeOK
<1>3. \A s \in Space : FileWithin(cur, s) => FileWithin(cur, s)'
  BY <1>1, <1>2, <1>t DEF FileWithin, TypeOK
<1>4. GapIsOwed'
  BY <1>1, <1>2, <1>3, GapKeeps DEF RebuildPending, InRebuild, procVars
<1> QED
  BY <1>1, <1>4 DEF procVars, BuiltWithin, WorkerRemovesNothing, NoOrphan, AtRest

LEMMA GapOpen ==
  ASSUME GapInv, OpenIndex
  PROVE  GapParts'
<1> USE DEF GapInv, GapParts
<1>t. TypeOK /\ ReindexTypeOK /\ cur \in Model /\ "code" \in Space
  BY DEF BuiltInv, Base, IInv, TypeOK, Space
<1>1. step = "open" /\ UNCHANGED <<vec, node, cur, since>>
  BY OpenIndexEnds DEF OpenIndex, StoreUnchanged, vars, Crash, graphVars
<1>2. \/ Ended("failed") /\ owed' = owed \cup {cur} /\ outcome' = "failed"
      \/ Goto("embed") /\ owed' = owed /\ step' = "embed" /\ removed' = removed
  BY OpenIndexEnds, EndedFacts, GotoFacts
<1> DEFINE Kept == /\ \A m \in Model \ {cur}, s \in Space : file'[m][s] = file[m][s]
                   /\ \A s \in Space : FileWithin(cur, s) => FileWithin(cur, s)'
<1>3. ASSUME Publish("code") PROVE Kept
  <2>1. /\ file'[cur]["code"].has = RowsOf(cur, "code")
        /\ \A m \in Model, t \in Space : m # cur \/ t # "code" => file'[m][t] = file[m][t]
    BY <1>3, <1>t, PublishFacts
  <2>2. FileWithin(cur, "code")'
    BY <1>1, <2>1 DEF FileWithin, RowsOf
  <2>3. \A s \in Space : FileWithin(cur, s) => FileWithin(cur, s)'
    BY <1>1, <1>t, <2>1, <2>2 DEF FileWithin
  <2> QED
    BY <2>1, <2>3
<1>4. ASSUME file' = Quarantined(cur) PROVE Kept
  <2>1. \A s \in Space : file'[cur][s] = file[cur][s] \/ file'[cur][s] = NoFile
    BY <1>4, <1>t, QuarantinedFacts
  <2>2. \A n \in Node : NoFile.has[n] = NoRow
    BY DEF NoFile, NoVectors
  <2>3. \A s \in Space : FileWithin(cur, s) => FileWithin(cur, s)'
    BY <1>1, <2>1, <2>2 DEF FileWithin
  <2>4. \A m \in Model \ {cur}, s \in Space : file'[m][s] = file[m][s]
    BY <1>4, <1>t, QuarantinedFacts
  <2> QED
    BY <2>3, <2>4
<1>5. Kept
  BY <1>3, <1>4, OpenIndexEnds
<1>6. step' # "build" /\ step' # "count" /\ mode' = mode /\ (removed' = removed \/ removed' = FALSE)
  BY <1>2, EndedFacts, GotoFacts
<1>7. cur \in owed' \/ RebuildPending(cur)' \/ (~ RebuildPending(cur) /\ cur \notin owed)
  BY <1>1, <1>2 DEF RebuildPending, InRebuild
<1>8. owed \ {cur} \subseteq owed'
  BY <1>2
<1>9. GapIsOwed'
  BY <1>1, <1>5, <1>7, <1>8, GapKeeps DEF RebuildPending, InRebuild
<1>10. NoOrphan'
  <2>1. step' # "count" /\ (step' # "idle" \/ outcome' # "uptodate")
    BY <1>2, <1>6
  <2> QED
    BY <2>1 DEF NoOrphan, AtRest
<1> QED
  BY <1>6, <1>9, <1>10 DEF BuiltWithin, WorkerRemovesNothing

\* A step of the process that changes neither rows nor files.
LEMMA GapControl ==
  ASSUME GapInv, UNCHANGED <<node, vec, cur, file, since>>, InPass \/ InRebuild,
         \/ \E how \in {"failed", "died"} : Ended(how)
         \/ Ended("partial") /\ (mode = "worker" \/ ~ removed) /\ InPass
         \/ Ended("uptodate") /\ mode # "worker" /\ ~ removed /\ step = "count"
         \/ InPass /\ \E st \in {"open", "embed", "sweep"} : Goto(st)
  PROVE  GapParts'
<1> USE DEF GapInv, GapParts
<1>1. mode' = mode /\ (removed' = removed \/ removed' = FALSE)
  BY EndedFacts, GotoFacts
<1>2. step' # "build" /\ step' # "count"
  BY EndedFacts, GotoFacts
<1>3. owed \ {cur} \subseteq owed'
  BY EndedFacts, GotoFacts
<1>4. cur \in owed' \/ RebuildPending(cur)' \/ (~ RebuildPending(cur) /\ cur \notin owed)
  BY EndedFacts, GotoFacts DEF RebuildPending, InRebuild, InPass, WorkerRemovesNothing
<1>p. /\ \A n \in Node, m \in Model : vec[n][m] # NoRow => vec'[n][m] # NoRow
      /\ \A m \in Model \ {cur}, s \in Space : file'[m][s] = file[m][s]
      /\ \A s \in Space : FileWithin(cur, s) => FileWithin(cur, s)'
  BY DEF FileWithin
<1>5. GapIsOwed'
  BY <1>p, <1>3, <1>4, GapKeeps DEF RebuildPending, InRebuild
<1>6. NoOrphan'
  <2>1. CASE step = "count" /\ mode # "worker"
    BY <1>2, <2>1 DEF NoOrphan, AtRest
  <2>2. CASE step' # "idle" \/ outcome' # "uptodate"
    BY <1>2, <2>2 DEF NoOrphan, AtRest
  <2>3. ASSUME NEW how \in {"failed", "died", "partial"}, Ended(how) PROVE outcome' # "uptodate"
    BY <2>3, EndedFacts
  <2>4. ASSUME NEW st \in {"open", "embed", "sweep"}, Goto(st) PROVE step' # "idle"
    BY <2>4, GotoFacts
  <2> QED
    BY <2>1, <2>2, <2>3, <2>4
<1> QED
  BY <1>1, <1>2, <1>5, <1>6 DEF BuiltWithin, WorkerRemovesNothing

LEMMA GapRebuild ==
  ASSUME GapInv, RebuildSweep \/ CountRows \/ RebuildDone \/ \E s \in Space : BuildIndex(s)
  PROVE  GapParts'
<1> USE DEF GapInv, GapParts
<1>t. TypeOK /\ ReindexTypeOK /\ cur \in Model
  BY DEF BuiltInv, Base, IInv, TypeOK
<1>1. CASE RebuildSweep
  <2>1. /\ step = "sweep" /\ step' = "rows" /\ owed' = owed \cup OthersCut(cur)
        /\ UNCHANGED <<mode, removed, file, cur>>
    BY <1>1 DEF RebuildSweep, Sweep, StoreUnchanged, vars, passVars
  <2>2. ASSUME NEW m \in Model \ owed', ~ RebuildPending(m)', NEW s \in Space
        PROVE  FileWithin(m, s)'
    <3>1. m # cur
      BY <2>1, <2>2 DEF RebuildPending, InRebuild
    <3>2. \A n \in Node : vec'[n][m] = vec[n][m]
      BY <2>1, <2>2, <3>1 DEF OthersCut
    <3>3. FileWithin(m, s)
      BY <2>1, <2>2, <3>1 DEF GapIsOwed, RebuildPending
    <3> QED
      BY <2>1, <3>2, <3>3 DEF FileWithin
  <2> QED
    BY <2>1, <2>2 DEF GapIsOwed, BuiltWithin, WorkerRemovesNothing, NoOrphan, AtRest
<1>2. CASE CountRows
  <2>1. step = "rows" /\ built = {} /\ UNCHANGED <<node, vec, cur, file, since>>
    BY <1>2 DEF CountRows, StoreUnchanged, vars, BuiltInv, NothingBuiltYet
  <2>2. CASE Ended("failed")
    BY <2>1, <2>2, GapControl DEF InRebuild
  <2>3. CASE step' = "build" /\ UNCHANGED <<mode, removed, outcome, built, owed>>
    BY <2>1, <2>3
    DEF GapIsOwed, RebuildPending, InRebuild, FileWithin, BuiltWithin, WorkerRemovesNothing,
        NoOrphan, AtRest
  <2> QED
    BY <1>2, <2>2, <2>3 DEF CountRows
<1>3. ASSUME NEW s \in Space, BuildIndex(s) PROVE GapParts'
  <2>1. /\ step = "build" /\ step' = "build" /\ built' = built \cup {s} /\ Publish(s)
        /\ UNCHANGED <<mode, removed, outcome, since, owed, node, vec, cur>>
    BY <1>3 DEF BuildIndex, StoreUnchanged, vars
  <2>2. /\ file'[cur][s].has = RowsOf(cur, s)
        /\ \A m \in Model, t \in Space : m # cur \/ t # s => file'[m][t] = file[m][t]
    BY <2>1, <1>t, PublishFacts
  <2>3. FileWithin(cur, s)'
    BY <2>1, <2>2 DEF FileWithin, RowsOf
  <2>4. BuiltWithin'
    <3> SUFFICES ASSUME NEW t \in built' PROVE FileWithin(cur, t)'
      BY <2>1 DEF BuiltWithin
    <3>1. t # s => t \in built /\ file'[cur][t] = file[cur][t]
      BY <2>1, <2>2, <1>t DEF ReindexTypeOK
    <3> QED
      BY <2>1, <2>3, <3>1 DEF BuiltWithin, FileWithin
  <2>5. GapIsOwed'
    BY <2>1, <2>2 DEF GapIsOwed, RebuildPending, InRebuild, FileWithin
  <2> QED
    BY <2>1, <2>4, <2>5 DEF WorkerRemovesNothing, NoOrphan, AtRest
<1>4. CASE RebuildDone
  <2>1. /\ step = "build" /\ step' = "idle" /\ outcome' = "rebuilt" /\ removed' = FALSE
        /\ UNCHANGED <<mode, vec, cur, file>>
        /\ \/ owed' = owed \cup {cur}
           \/ owed' = owed \ {cur} /\ \A s \in Space \ built : file[cur][s].has = NoVectors
    BY <1>4, EndedFacts DEF RebuildDone, StoreUnchanged, vars
  <2>2. ASSUME NEW m \in Model \ owed', NEW s \in Space PROVE FileWithin(m, s)
    <3>1. CASE m # cur
      BY <2>1, <2>2, <3>1 DEF GapIsOwed, RebuildPending
    <3>2. CASE m = cur /\ s \in built
      BY <2>1, <3>2 DEF BuiltWithin
    <3>3. CASE m = cur /\ s \notin built
      BY <2>1, <2>2, <3>3 DEF FileWithin, NoVectors
    <3> QED
      BY <3>1, <3>2, <3>3
  <2> QED
    BY <2>1, <2>2
    DEF GapIsOwed, FileWithin, BuiltWithin, WorkerRemovesNothing, NoOrphan, AtRest
<1> QED
  BY <1>1, <1>2, <1>3, <1>4

LEMMA GapStep == GapInv /\ [ReindexNext]_rvars => GapInv'
<1> SUFFICES ASSUME GapInv, [ReindexNext]_rvars PROVE GapParts'
  BY BuiltStep DEF GapInv
<1>t. TypeOK
  BY DEF GapInv, BuiltInv, Base, IInv
<1>1. ASSUME NEW m \in Model, NEW md \in Modes, Start(m, md) PROVE GapParts'
  BY <1>1, GapStart
<1>2. ASSUME NEW m \in Model, StartRebuild(m) PROVE GapParts'
  <2>1. /\ step = "idle" /\ step' = "sweep" /\ mode' = "rebuild" /\ removed' = FALSE
        /\ removed = FALSE /\ UNCHANGED <<vec, file, owed>>
    BY <1>2 DEF StartRebuild, GapInv, BuiltInv, IdleOwesNothing
  <2>2. \A o \in Model \ owed, s \in Space : FileWithin(o, s)
    BY <2>1 DEF GapInv, GapParts, GapIsOwed, RebuildPending, InRebuild
  <2> QED
    BY <2>1, <2>2
    DEF GapParts, GapIsOwed, FileWithin, BuiltWithin, WorkerRemovesNothing, NoOrphan, AtRest
<1>3. CASE CountPending
  <2>1. step = "count" /\ InPass /\ UNCHANGED <<node, vec, cur, file, since>>
    BY <1>3 DEF CountPending, StoreUnchanged, vars, EndPass, graphVars, InPass
  <2>2. CASE AfterNothingPending
    BY <2>1, <2>2, NothingPendingEnds, GapControl
  <2>3. CASE Goto("open") \/ Goto("embed")
    BY <2>1, <2>3, GapControl
  <2> QED
    BY <1>3, <2>2, <2>3 DEF CountPending
<1>4. CASE OpenIndex
  BY <1>4, GapOpen
<1>5. CASE EmbedStep
  BY <1>5, GapEmbed
<1>6. CASE EmbedDone
  <2>1. InPass /\ UNCHANGED <<node, vec, cur, file, since>>
    BY <1>6 DEF EmbedDone, EndPass, graphVars, InPass
  <2> QED
    BY <1>6, <2>1, GapControl DEF EmbedDone
<1>7. CASE RebuildSweep \/ CountRows \/ RebuildDone \/ \E s \in Space : BuildIndex(s)
  BY <1>7, GapRebuild
<1>11. CASE DaemonEdit
  <2>1. /\ UNCHANGED <<step, mode, removed, built, file, outcome, owed, vec, cur>>
        /\ \A n \in Node \ since' : node'[n] = node[n] /\ n \notin since
    BY <1>11, <1>t, DaemonFacts DEF procVars
  <2> QED
    BY <2>1
    DEF GapInv, GapParts, GapIsOwed, RebuildPending, InRebuild, FileWithin, BuiltWithin,
        WorkerRemovesNothing, NoOrphan, AtRest
<1>12. CASE Die
  <2>1. InPass \/ InRebuild
    BY <1>12 DEF Die, GapInv, BuiltInv, Base, ReindexTypeOK, Steps, InPass, InRebuild
  <2>2. UNCHANGED <<node, vec, cur, file, since>> /\ Ended("died")
    BY <1>12 DEF Die, Crash, StoreUnchanged, vars, graphVars
  <2> QED
    BY <2>1, <2>2, GapControl
<1>13. CASE UNCHANGED rvars
  BY <1>13
  DEF rvars, vars, procVars, GapInv, GapParts, GapIsOwed, RebuildPending, InRebuild, FileWithin,
      BuiltWithin, WorkerRemovesNothing, NoOrphan, AtRest
<1> QED
  BY <1>1, <1>2, <1>3, <1>4, <1>5, <1>6, <1>7, <1>11, <1>12, <1>13 DEF ReindexNext, Process

LEMMA GapInvariant == ReindexSpec => []GapInv
<1>1. ReindexInit => GapParts
  <2> SUFFICES ASSUME ReindexInit PROVE GapParts
    OBVIOUS
  <2>1. ASSUME NEW m \in Model, NEW s \in Space PROVE FileWithin(m, s)
    <3>1. file[m][s] \in {NoFile, Corrupt}
      BY DEF ReindexInit
    <3>2. file[m][s].has = NoVectors
      BY <3>1 DEF NoFile, Corrupt
    <3> QED
      BY <3>2 DEF FileWithin, NoVectors
  <2> QED
    BY <2>1
    DEF ReindexInit, GapParts, GapIsOwed, BuiltWithin, WorkerRemovesNothing, NoOrphan, AtRest
<1>2. BuiltInv /\ GapParts => GapInv
  BY DEF GapInv
<1> QED
  BY <1>1, <1>2, BuiltInvariant, GapStep, PTL DEF ReindexSpec

\* A pass that finds the index up to date is right about deleted nodes, in
\* every model, unless one of the causes recorded in owed made a gap.
THEOREM UpToDateIsRight == ReindexSpec => []UpToDateUnlessOwed
<1>1. GapInv => UpToDateUnlessOwed
  <2> SUFFICES ASSUME GapInv, AtRest("uptodate"), cur \notin owed,
                      NEW s \in Space, NEW n \in Node \ since, node[n] = Absent
               PROVE  file[cur][s].has[n] = NoRow
    BY DEF UpToDateUnlessOwed
  <2> USE DEF GapInv, GapParts, BuiltInv
  <2>1. cur \in Model /\ ~ RebuildPending(cur)
    BY DEF AtRest, IdleOwesNothing, RebuildPending, InRebuild, Base, IInv, TypeOK
  <2>2. FileWithin(cur, s)
    BY <2>1 DEF GapIsOwed
  <2>3. vec[n][cur] = NoRow
    BY DEF NoOrphan
  <2> QED
    BY <2>2, <2>3 DEF FileWithin
<1> QED
  BY <1>1, GapInvariant, PTL
-----------------------------------------------------------------------------
(* Finitely many nodes: a process ends after finitely many steps of its    *)
(* own.  Each lowers a rank in the lexicographic order of four natural     *)
(* numbers, and no edit of the daemon raises it again.                     *)

StepRank ==
  CASE step = "count" -> 6 [] step = "open" -> 5 [] step = "embed" -> 4 [] step = "sweep" -> 3
    [] step = "rows" -> 2 [] step = "build" -> 1 [] OTHER -> 0

Rowless  == {n \in Node : vec[n][cur] = NoRow}
HeldRank == IF held = NothingHeld THEN 1 ELSE 0

Rank == <<StepRank, Cardinality(Rowless), HeldRank, Cardinality(spaces)>>

Lower == LexProductOrdering(OpToRel(<, Nat), Nat, 4)

\* No sequence of ranks descends for ever.
LEMMA LowerIsWellFounded == IsWellFoundedOn(Lower, [1 .. 4 -> Nat])
<1> HIDE DEF OpToRel
<1> QED
  BY NatLessThanWellFounded, WFLexProductOrdering DEF Lower

\* To be lower is to be less in the first number that differs.
LEMMA LowerAt ==
  ASSUME NEW r \in [1 .. 4 -> Nat], NEW s \in [1 .. 4 -> Nat], NEW k \in 1 .. 4,
         r[k] < s[k], \A j \in 1 .. (k - 1) : r[j] = s[j]
  PROVE  <<r, s>> \in Lower
<1>1. <<r[k], s[k]>> \in OpToRel(<, Nat)
  BY DEF OpToRel
<1> HIDE DEF OpToRel
<1> QED
  BY <1>1 DEF Lower, LexProductOrdering

LEMMA RankSets ==
  ASSUME IsFiniteSet(Node), ReindexTypeOK
  PROVE  /\ IsFiniteSet(Rowless) /\ Cardinality(Rowless) \in Nat
         /\ IsFiniteSet(spaces) /\ Cardinality(spaces) \in Nat
<1>1. IsFiniteSet(Rowless) /\ Cardinality(Rowless) \in Nat
  BY FS_Subset, FS_CardinalityType DEF Rowless
<1>2. IsFiniteSet(Space)
  BY FS_EmptySet, FS_AddElement, Space = ({} \cup {"code"}) \cup {"docs"} DEF Space
<1>3. IsFiniteSet(spaces) /\ Cardinality(spaces) \in Nat
  BY <1>2, FS_Subset, FS_CardinalityType DEF ReindexTypeOK
<1> QED
  BY <1>1, <1>3

LEMMA RankType == IsFiniteSet(Node) /\ ReindexTypeOK => Rank \in [1 .. 4 -> Nat]
<1> SUFFICES ASSUME IsFiniteSet(Node), ReindexTypeOK PROVE Rank \in [1 .. 4 -> Nat]
  OBVIOUS
<1>1. StepRank \in Nat /\ HeldRank \in Nat
  BY DEF StepRank, HeldRank
<1> QED
  BY <1>1, RankSets DEF Rank

Falls(k) == Rank'[k] < Rank[k] /\ \A j \in 1 .. (k - 1) : Rank'[j] = Rank[j]

\* Every step but those of the loop and of a file moves the process on.
LEMMA ControlFalls ==
  ASSUME ReindexTypeOK,
         \/ CountPending \/ OpenIndex \/ EmbedDone \/ RebuildSweep \/ CountRows \/ RebuildDone
         \/ Die
  PROVE  Falls(1)
<1>1. StepRank' < StepRank
  <2>1. CASE CountPending
    <3>1. step = "count" /\ step' \in {"embed", "open", "sweep", "idle"}
      BY <2>1 DEF CountPending, AfterNothingPending, Ended, Goto
    <3> QED
      BY <3>1 DEF StepRank
  <2>2. CASE OpenIndex
    <3>1. step = "open" /\ step' \in {"embed", "idle"}
      BY <2>2 DEF OpenIndex, Ended, Goto
    <3> QED
      BY <3>1 DEF StepRank
  <2>3. CASE EmbedDone \/ RebuildSweep \/ CountRows \/ RebuildDone
    <3>1. \/ step = "embed" /\ step' \in {"sweep", "idle"}
          \/ step = "sweep" /\ step' = "rows"
          \/ step = "rows" /\ step' \in {"build", "idle"}
          \/ step = "build" /\ step' = "idle"
      BY <2>3 DEF EmbedDone, RebuildSweep, CountRows, RebuildDone, Ended, Goto
    <3> QED
      BY <3>1 DEF StepRank
  <2>4. CASE Die
    BY <2>4 DEF Die, Ended, StepRank, ReindexTypeOK, Steps
  <2> QED
    BY <2>1, <2>2, <2>3, <2>4
<1> QED
  BY <1>1 DEF Falls, Rank

\* A chunk is read when none is held, and a commit leaves fewer nodes without a
\* row: whatever was held had none.
LEMMA EmbedFalls ==
  ASSUME IsFiniteSet(Node), Base, EmbedStep
  PROVE  Falls(2) \/ Falls(3)
<1>1. PICK S \in SUBSET Node : SelectChunk(S) \/ CommitRows(S)
  BY DEF EmbedStep
<1>2. UNCHANGED <<StepRank, spaces>> /\ cur' = cur
  BY <1>1 DEF EmbedStep, procVars, StepRank, SelectChunk, CommitRows
<1>3. CASE SelectChunk(S)
  <2>1. HeldRank = 1 /\ Rowless' = Rowless
    BY <1>2, <1>3 DEF SelectChunk, HeldRank, Rowless
  <2>2. PICK n \in S : n \in Todo
    BY <1>3 DEF SelectChunk
  <2>3. EmbedInput(node[n]) # NoRow
    BY <2>2, StoreAssumption DEF Todo, Pending, Eligible, EmbedInput, Base, IInv, TypeOK, NodeState
  <2>4. held' # NothingHeld
    BY <1>3, <2>2, <2>3 DEF SelectChunk, NothingHeld
  <2>5. HeldRank' < HeldRank
    BY <2>1, <2>4 DEF HeldRank, NothingHeld
  <2>6. Falls(3)
    BY <1>2, <2>1, <2>5 DEF Falls, Rank
  <2> QED
    BY <2>6
<1>4. CASE CommitRows(S)
  <2>1. PICK n \in S : held[n] # NoRow
    BY <1>4 DEF CommitRows
  <2>2. vec \in [Node -> [Model -> RowState]] /\ cur \in Model
    BY DEF Base, IInv, TypeOK
  <2>3. \A k \in Node : vec'[k][cur] = IF k \in S THEN held[k] ELSE vec[k][cur]
    BY <1>4, <2>2 DEF CommitRows
  <2>4. \A k \in S : held[k] # NoRow
    BY <1>4 DEF CommitRows
  <2>5. n \in Rowless
    BY <2>1 DEF Base, IInv, HeldHasNoRow, Rowless
  <2>6. Rowless' \subseteq Rowless /\ Rowless' # Rowless
    BY <1>2, <2>1, <2>3, <2>4, <2>5 DEF Rowless
  <2>7. IsFiniteSet(Rowless) /\ Cardinality(Rowless) \in Nat
    BY RankSets DEF Base
  <2>8. Cardinality(Rowless') \in Nat
    BY <2>6, <2>7, FS_Subset, FS_CardinalityType
  <2>9. Cardinality(Rowless') < Cardinality(Rowless)
    BY <2>6, <2>7, <2>8, FS_Subset
  <2>10. Falls(2)
    BY <1>2, <2>9 DEF Falls, Rank
  <2> QED
    BY <2>10
<1> QED
  BY <1>1, <1>3, <1>4

LEMMA BuildFalls ==
  ASSUME IsFiniteSet(Node), ReindexTypeOK, NEW s \in Space, BuildIndex(s)
  PROVE  Falls(4)
<1>1. UNCHANGED <<step, vec, cur, held>> /\ s \in spaces /\ spaces' = spaces \ {s}
  BY DEF BuildIndex, StoreUnchanged, vars
<1>2. UNCHANGED <<StepRank, Rowless, HeldRank>>
  BY <1>1 DEF StepRank, Rowless, HeldRank, NothingHeld
<1>3. Cardinality(spaces') = Cardinality(spaces) - 1 /\ Cardinality(spaces) \in Nat
  BY <1>1, RankSets, FS_RemoveElement
<1>4. Cardinality(Rowless)' = Cardinality(Rowless)
  BY <1>2
<1> QED
  BY <1>2, <1>3, <1>4 DEF Falls, Rank

LEMMA RankLowered ==
  ASSUME IsFiniteSet(Node), Base, Base', Process \/ Die
  PROVE  <<Rank', Rank>> \in Lower
<1>1. Rank \in [1 .. 4 -> Nat] /\ Rank' \in [1 .. 4 -> Nat]
  <2>1. (IsFiniteSet(Node) /\ ReindexTypeOK => Rank \in [1 .. 4 -> Nat])'
    BY RankType, PTL
  <2> QED
    BY <2>1, RankType DEF Base
<1>2. \E k \in 1 .. 4 : Falls(k)
  <2>1. CASE EmbedStep
    BY <2>1, EmbedFalls
  <2>2. ASSUME NEW s \in Space, BuildIndex(s) PROVE Falls(4)
    BY <2>2, BuildFalls DEF Base
  <2>3. CASE \/ CountPending \/ OpenIndex \/ EmbedDone \/ RebuildSweep \/ CountRows \/ RebuildDone
             \/ Die
    BY <2>3, ControlFalls DEF Base
  <2> QED
    BY <2>1, <2>2, <2>3 DEF Process
<1> QED
  BY <1>1, <1>2, LowerAt DEF Falls

LEMMA RankKept ==
  ASSUME DaemonEdit
  PROVE  Rank' = Rank
<1>1. UNCHANGED <<step, spaces, vec, cur, held>>
  BY DEF DaemonEdit, Daemon, Replace, Remove, Create, Regenerate, PruneLog, passVars, procVars
<1>2. UNCHANGED <<StepRank, Rowless, HeldRank>>
  BY <1>1 DEF StepRank, Rowless, HeldRank, NothingHeld
<1>3. Cardinality(Rowless)' = Cardinality(Rowless) /\ Cardinality(spaces)' = Cardinality(spaces)
  BY <1>1, <1>2
<1> QED
  BY <1>2, <1>3 DEF Rank

\* A step of the process lowers the rank, and an edit keeps it.
StepDescends ==
  /\ Process \/ Die => <<Rank', Rank>> \in Lower
  /\ DaemonEdit => Rank' = Rank

\* Between its start and its end a process takes finitely many steps, however the
\* graph of finitely many nodes is edited meanwhile: a step of the process or its
\* death lowers the rank, and an edit does not change it.  An edit can make the
\* loop take a node that it would not have taken, but there are only so many
\* without a row.
THEOREM PassDescends ==
  ReindexSpec => [][IsFiniteSet(Node) => StepDescends]_rvars
<1>1. Base /\ Base' => [IsFiniteSet(Node) => StepDescends]_rvars
  BY RankLowered, RankKept DEF StepDescends
<1> QED
  BY <1>1, BaseInvariant, PTL DEF ReindexSpec

=============================================================================
