-------------------------- MODULE ServeIndexProofs --------------------------
(***************************************************************************)
(* Proofs about ServeIndex for any number of versions and of rebuilds, any *)
(* interval and every platform.                                            *)
(*                                                                         *)
(* StampIsHonest is not inductive: a query stamps the handle with an mtime *)
(* it read two system calls before it opened the file.  SInv says that a   *)
(* file that is published meanwhile is newer than all that was read.       *)
(***************************************************************************)
EXTENDS ServeIndex, TLAPS

Stage == {"idle", "build", "saved"} \cup Target

Types ==
  /\ version \in Nat /\ seen \in Nat
  /\ {file, tmp} \subseteq [ver : Nat, kind : {"none", "good", "small", "garbage", "torn"}]
  /\ handle.index \in Nat /\ handle.stamp \in Nat
  /\ stage \in [Builder -> Stage]

\* A file that is written under a name exists.
WrittenExists ==
  \A b \in Builder : (stage[b] = "tmp" => tmp # NoFile) /\ (stage[b] = "file" => file # NoFile)

\* What is about to be published is newer than what was ever read, and what is
\* published is no older than what is served.
Newer ==
  /\ file.ver <= version /\ seen <= version /\ handle.index <= version
  /\ tmp # NoFile => /\ tmp.ver > file.ver /\ tmp.ver > seen /\ tmp.ver <= version
                     /\ tmp.ver > handle.index
  /\ file # NoFile => file.ver >= handle.index

\* After a call has read a version or an mtime the file only becomes newer.
OnlyNewer == file # NoFile => file.ver >= seen

\* StampIsHonest for a handle and the history variables.
Honest(h, r) == h.open => h.index >= h.stamp \/ h.index = 0 \/ r

Rest == Types /\ WrittenExists /\ Newer /\ OnlyNewer

SInv == Rest /\ Honest(handle, raced)

LEMMA SInvInit == ServeInit => SInv
<1> SUFFICES ASSUME ServeInit PROVE SInv
  OBVIOUS
<1> USE ServeAssumption DEF ServeInit, NoFile, NoHandle, File
<1>1. Rest
  BY DEF Rest, Types, Stage, WrittenExists, Newer, OnlyNewer
<1>2. Honest(handle, raced)
  BY DEF Honest
<1> QED
  BY <1>1, <1>2 DEF SInv

\* A step that leaves the handle alone leaves what it promises alone.
LEMMA HandleUnchanged ==
  Honest(handle, raced) /\ UNCHANGED <<handle, raced>> => Honest(handle, raced)'
BY DEF Honest

\* One step of a rebuild.
LEMMA RebuildStep ==
  ASSUME Rest, NEW b \in Builder, Rebuild(b)
  PROVE  Rest' /\ UNCHANGED servVars
<1> USE DEF Rest, NoFile, fileVars, servVars
<1>1. CASE Start(b)
  BY <1>1 DEF Start, Moved, Unlink, Types, Stage, Target, WrittenExists, Newer, OnlyNewer
<1>2. CASE SaveBegin(b)
  <2>1. /\ tmp' = [ver |-> version + 1, kind |-> "torn"] /\ version' = version + 1
        /\ stage' = [stage EXCEPT ![b] = "tmp"] /\ UNCHANGED <<file, servVars>>
    BY <1>2 DEF SaveBegin, SavePath
  <2> QED
    BY <2>1 DEF Types, Stage, Target, WrittenExists, Newer, OnlyNewer
<1>3. ASSUME NEW kind \in {"good", "small", "garbage"}, SaveEnd(b, kind) PROVE Rest' /\ UNCHANGED servVars
  <2>1. PICK whole \in {"good", "small", "garbage", "torn"} :
          \/ stage[b] = "tmp" /\ tmp' = [tmp EXCEPT !.kind = whole] /\ file' = file
          \/ stage[b] = "file" /\ file' = [file EXCEPT !.kind = whole] /\ tmp' = tmp
          \/ UNCHANGED <<tmp, file>>
    BY <1>3 DEF SaveEnd, Target
  <2>2. /\ stage' = [stage EXCEPT ![b] = "saved"] /\ version' = version /\ UNCHANGED servVars
    BY <1>3 DEF SaveEnd
  <2>3. /\ tmp'.ver = tmp.ver /\ file'.ver = file.ver
        /\ {file', tmp'} \subseteq [ver : Nat, kind : {"none", "good", "small", "garbage", "torn"}]
        /\ (tmp' = NoFile) <=> (tmp = NoFile)
        /\ (file' = NoFile) <=> (file = NoFile)
    BY <2>1 DEF Types, WrittenExists
  <2> QED
    BY <2>2, <2>3 DEF Types, Stage, Target, WrittenExists, Newer, OnlyNewer
<1>4. CASE Rename(b)
  <2>1. CASE tmp = NoFile
    BY <1>4, <2>1 DEF Rename, Types, Stage, Target, WrittenExists, Newer, OnlyNewer
  <2>2. CASE tmp # NoFile
    <3>1. /\ file' = tmp /\ tmp' = [ver |-> 0, kind |-> "none"] /\ UNCHANGED <<version, servVars>>
          /\ stage' = Moved(b, "idle", [t \in Target |-> IF t = "tmp" THEN "file" ELSE "unlinked"])
      BY <1>4, <2>2 DEF Rename
    <3>2. stage' \in [Builder -> Stage] /\ \A c \in Builder : stage'[c] # "tmp"
      BY <3>1 DEF Moved, Types, Stage, Target
    <3>3. Types' /\ Newer' /\ OnlyNewer'
      BY <2>2, <3>1, <3>2 DEF Types, Newer, OnlyNewer
    <3>4. WrittenExists'
      BY <2>2, <3>1, <3>2 DEF WrittenExists
    <3> QED
      BY <3>1, <3>3, <3>4
  <2> QED
    BY <2>1, <2>2
<1>5. CASE Die(b)
  BY <1>5 DEF Die, Types, Stage, Target, WrittenExists, Newer, OnlyNewer
<1> QED
  BY <1>1, <1>2, <1>3, <1>4, <1>5 DEF Rebuild

LEMMA SInvStep == SInv /\ [ServeNext]_svars => SInv'
<1> SUFFICES ASSUME SInv, [ServeNext]_svars PROVE SInv'
  OBVIOUS
<1>0. Rest /\ Honest(handle, raced)
  BY DEF SInv
<1> SUFFICES Rest' /\ Honest(handle, raced)'
  BY DEF SInv
<1>1. ASSUME NEW b \in Builder, Rebuild(b) PROVE Rest' /\ Honest(handle, raced)'
  BY <1>0, <1>1, RebuildStep, HandleUnchanged DEF servVars
<1> USE DEF Rest, Types, Stage, Target, WrittenExists, Newer, OnlyNewer, NoFile, fileVars, servVars
<1>4. CASE Quarantine
  BY <1>0, <1>4, HandleUnchanged DEF Quarantine
<1>5. CASE TryServe
  BY <1>0, <1>5, HandleUnchanged DEF TryServe
<1>6. CASE ServeView
  BY <1>0, <1>6, HandleUnchanged DEF ServeView
<1>7. CASE ServeStat
  <2>1. CASE file = NoFile
    BY <1>0, <1>7, <2>1, HandleUnchanged DEF ServeStat
  <2>2. CASE file # NoFile
    <3>1. PICK v \in Platform :
            handle' = [index |-> seen, stamp |-> file.ver, viewed |-> v, open |-> TRUE]
      BY <1>7, <2>2 DEF ServeStat
    <3>2. Rest'
      BY <1>0, <1>7, <3>1 DEF ServeStat
    <3>3. handle.index' = seen /\ handle.stamp' = file.ver
      BY <3>1
    <3>4. raced' = (seen # file.ver)
      BY <1>7, <2>2 DEF ServeStat
    <3>5. Honest(handle, raced)'
      <4>1. CASE seen = file.ver
        BY <1>0, <3>3, <4>1 DEF Honest
      <4>2. CASE seen # file.ver
        BY <3>4, <4>2, Zenon DEF Honest
      <4> QED
        BY <4>1, <4>2
    <3> QED
      BY <3>2, <3>5
  <2> QED
    BY <2>1, <2>2
<1>8. CASE KnnStat
  BY <1>0, <1>8, HandleUnchanged DEF KnnStat, Answer, AtRest
<1>9. CASE KnnCheck
  BY <1>0, <1>9, HandleUnchanged DEF KnnCheck, Answer
<1>10. CASE KnnReload
  <2>1. CASE file.kind = "good"
    <3>1. handle' = [handle EXCEPT !.index = file.ver, !.stamp = seen]
      BY <1>10, <2>1 DEF KnnReload, ReloadStamp
    <3> QED
      BY <1>0, <1>10, <2>1, <3>1 DEF KnnReload, Honest
  <2>2. CASE file.kind # "good"
    <3>1. handle' = Kept /\ UNCHANGED <<fileVars, seen, raced>>
      BY <1>10, <2>2 DEF KnnReload
    <3>2. CASE handle.viewed
      BY <1>0, <3>1, <3>2, HandleUnchanged DEF Kept
    <3>3. CASE ~ handle.viewed
      BY <1>0, <3>1, <3>3 DEF Kept, Honest
    <3> QED
      BY <3>2, <3>3
  <2> QED
    BY <2>1, <2>2
<1>11. CASE Tick
  BY <1>0, <1>11, HandleUnchanged DEF Tick
<1>12. CASE Restart
  BY <1>0, <1>12 DEF Restart, NoHandle, Honest
<1>13. CASE UNCHANGED svars
  BY <1>0, <1>13, HandleUnchanged DEF svars
<1> QED
  BY <1>1, <1>4, <1>5, <1>6, <1>7, <1>8, <1>9, <1>10, <1>11, <1>12, <1>13
  DEF ServeNext, Publisher, Calls

\* The mtime a handle remembers is never newer than what it serves, except after
\* an open in a race (try_serve and reload_from_disk).
THEOREM StampsAreHonest == ServeSpec => []StampIsHonest
<1>1. SInv => StampIsHonest
  BY DEF SInv, Honest, StampIsHonest
<1> QED
  BY SInvInit, SInvStep, <1>1, PTL DEF ServeSpec

-----------------------------------------------------------------------------
\* A file that opens has a version, what a call opened was one, and a mapped
\* handle holds one, so that a query on it is never answered with the empty list.
KInv ==
  /\ file # NoFile => file.ver # 0
  /\ tmp.kind = "good" => tmp.ver # 0
  /\ pc = "stat" => seen # 0
  /\ handle.viewed => handle.index # 0 /\ handle.open /\ pc \notin {"empty", "view", "stat"}

\* What MappedAnswers says of one step.
Answered ==
  handle.viewed /\ handle'.open =>
    /\ handle'.index >= handle.index
    /\ pc' # "empty"
    /\ pc' = "error" => handle' = handle /\ (pc = "error" \/ file = NoFile)

LEMMA KInvInit == ServeInit => KInv
BY ServeAssumption DEF ServeInit, KInv, NoFile, NoHandle, File

\* One step of the invariant, and what it does to a mapped handle.
LEMMA KInvStep == SInv /\ KInv /\ [ServeNext]_svars => KInv' /\ Answered
<1> SUFFICES ASSUME SInv, KInv, [ServeNext]_svars PROVE KInv' /\ Answered
  OBVIOUS
<1>0. Rest
  BY DEF SInv
<1>a. handle.index \in Nat
  BY <1>0 DEF Rest, Types
<1> USE DEF KInv, Answered, NoFile, fileVars, servVars
<1>1. ASSUME NEW b \in Builder, Rebuild(b) PROVE KInv' /\ Answered
  <2>1. Rest' /\ UNCHANGED servVars
    BY <1>0, <1>1, RebuildStep
  <2>2. file' # NoFile => file'.ver # 0
    <3>1. CASE file' = file
      BY <3>1
    <3>2. CASE file' = tmp /\ tmp # NoFile
      BY <1>0, <3>2 DEF Rest, Types, Newer
    <3>3. CASE file # NoFile /\ file'.ver = file.ver
      BY <3>3
    <3>4. (file' = tmp /\ tmp # NoFile) \/ file' = file \/ (file # NoFile /\ file'.ver = file.ver)
      BY <1>0, <1>1
         DEF Rebuild, Start, SaveBegin, SavePath, SaveEnd, Rename, Die, Target, Rest, Types, WrittenExists
    <3> QED
      BY <3>1, <3>2, <3>3, <3>4
  <2>3. tmp'.kind = "good" => tmp'.ver # 0
    BY <2>1 DEF Rest, Types, Newer
  <2> QED
    BY <1>a, <2>1, <2>2, <2>3
<1>4. CASE Quarantine
  BY <1>a, <1>4 DEF Quarantine
<1>5. CASE TryServe
  BY <1>a, <1>5 DEF TryServe, NeedsOpen
<1>6. CASE ServeView
  BY <1>a, <1>6 DEF ServeView
<1>7. CASE ServeStat
  <2>1. CASE file = NoFile
    BY <1>a, <1>7, <2>1 DEF ServeStat
  <2>2. CASE file # NoFile
    <3>1. PICK v \in Platform :
            handle' = [index |-> seen, stamp |-> file.ver, viewed |-> v, open |-> TRUE]
      BY <1>7, <2>2 DEF ServeStat
    <3> QED
      BY <1>7, <2>2, <3>1 DEF ServeStat
  <2> QED
    BY <2>1, <2>2
<1>8. CASE KnnStat
  BY <1>a, <1>8 DEF KnnStat, Answer
<1>9. CASE KnnCheck
  BY <1>a, <1>9 DEF KnnCheck, Answer
<1>10. CASE KnnReload
  <2>1. CASE file.kind = "good"
    <3>1. handle' = [handle EXCEPT !.index = file.ver, !.stamp = seen] /\ pc' = "hits"
      BY <1>10, <2>1 DEF KnnReload, ReloadStamp
    <3>2. file # NoFile /\ file.ver >= handle.index
      BY <1>0, <2>1 DEF Rest, Newer
    <3> QED
      BY <1>0, <1>10, <3>1, <3>2 DEF KnnReload, Rest, Types
  <2>2. CASE file.kind # "good"
    <3>1. /\ handle' = Kept /\ UNCHANGED fileVars
          /\ pc' = (IF handle.viewed THEN "hits" ELSE "error")
      BY <1>10, <2>2 DEF KnnReload
    <3>2. CASE handle.viewed
      BY <1>a, <3>1, <3>2 DEF Kept
    <3>3. CASE ~ handle.viewed
      BY <3>1, <3>3 DEF Kept, Rest, Types
    <3> QED
      BY <3>2, <3>3
  <2> QED
    BY <2>1, <2>2
<1>11. CASE Tick
  BY <1>a, <1>11 DEF Tick
<1>12. CASE Restart
  BY <1>12 DEF Restart, NoHandle
<1>13. CASE UNCHANGED svars
  BY <1>a, <1>13 DEF svars
<1> QED
  BY <1>1, <1>4, <1>5, <1>6, <1>7, <1>8, <1>9, <1>10, <1>11, <1>12, <1>13
  DEF ServeNext, Publisher, Calls

\* A query on a mapped handle finds what it found before or newer, whatever
\* becomes of the file, and fails only when it finds none as it begins (knn,
\* reload_from_disk).
THEOREM MappedIndexAnswers == ServeSpec => MappedAnswers
<1>1. SInv /\ KInv /\ [ServeNext]_svars => [Answered]_svars
  BY KInvStep
<1>2. SInv /\ KInv /\ [ServeNext]_svars => SInv' /\ KInv'
  BY SInvStep, KInvStep
<1> QED
  BY SInvInit, KInvInit, <1>1, <1>2, PTL DEF ServeSpec, MappedAnswers, Answered

-----------------------------------------------------------------------------
(* Publication.  As long as rebuilds do not overlap, one at most is not    *)
(* idle, and what it renames is the file that it has finished.             *)

WholeInv ==
  /\ stage \in [Builder -> Stage]
  /\ overlap \/ /\ \A b, c \in Builder : b # c => stage[b] = "idle" \/ stage[c] = "idle"
                /\ \A b \in Builder : stage[b] \notin {"file", "unlinked"}
                /\ \A b \in Builder : stage[b] = "saved" => tmp.kind # "torn"
                /\ file.kind # "torn"

LEMMA WholeStep == SInv /\ WholeInv /\ [ServeNext]_svars => WholeInv'
<1> SUFFICES ASSUME SInv, WholeInv, [ServeNext]_svars PROVE WholeInv'
  OBVIOUS
<1>0. stage' \in [Builder -> Stage] /\ Types
  BY SInvStep DEF SInv, Rest, Types
<1> USE DEF WholeInv, fileVars, servVars
<1>1. CASE overlap
  <2>1. overlap'
    BY <1>1 DEF ServeNext, Publisher, Calls, Rebuild, Start, SaveBegin, SaveEnd, Rename, Die,
                Quarantine, TryServe, ServeView, ServeStat, KnnStat, KnnCheck, KnnReload, Tick,
                Restart, svars
  <2> QED
    BY <1>0, <2>1
<1>2. ASSUME ~ overlap, NEW b \in Builder, Rebuild(b) PROVE WholeInv'
  <2>1. CASE Start(b)
    BY <1>0, <1>2, <2>1 DEF Start, Moved, Unlink, NoFile, Stage, Target
  <2>2. CASE SaveBegin(b)
    BY <1>0, <1>2, <2>2 DEF SaveBegin, SavePath, Stage
  <2>3. ASSUME NEW kind \in {"good", "small", "garbage"}, SaveEnd(b, kind) PROVE WholeInv'
    <3>1. stage[b] = "tmp" /\ \A c \in Builder \ {b} : stage[c] = "idle"
      BY <1>2, <2>3 DEF SaveEnd, Target
    <3>2. tmp' = [tmp EXCEPT !.kind = kind] /\ file' = file
      BY <2>3, <3>1 DEF SaveEnd
    <3>3. stage' = [stage EXCEPT ![b] = "saved"] /\ overlap' = overlap
      BY <2>3 DEF SaveEnd
    <3>4. tmp'.kind # "torn"
      BY <1>0, <2>3, <3>2 DEF Types
    <3> QED
      BY <1>0, <1>2, <3>1, <3>2, <3>3, <3>4
  <2>4. CASE Rename(b)
    BY <1>0, <1>2, <2>4 DEF Rename, Moved, Stage, Target
  <2>5. CASE Die(b)
    BY <1>0, <1>2, <2>5 DEF Die
  <2> QED
    BY <1>2, <2>1, <2>2, <2>3, <2>4, <2>5 DEF Rebuild
<1>3. CASE ~ overlap /\ Quarantine
  BY <1>0, <1>3 DEF Quarantine, NoFile
<1>4. CASE UNCHANGED fileVars
  BY <1>4
<1>5. CASE Calls \/ Tick \/ Restart \/ UNCHANGED svars
  BY <1>4, <1>5 DEF Calls, TryServe, ServeView, ServeStat, KnnStat, KnnCheck, KnnReload, Tick,
                    Restart, svars
<1> QED
  BY <1>1, <1>2, <1>3, <1>5 DEF ServeNext, Publisher

\* What is published is whole, and nobody writes the file that is served, as long
\* as rebuilds do not overlap, wherever they die (build_from_db, rebuild_index).
THEOREM PublicationIsAtomic == ServeSpec => []PublishedWhole
<1>1. ServeInit => WholeInv
  BY DEF ServeInit, WholeInv, Stage, NoFile
<1>2. WholeInv => PublishedWhole
  BY DEF WholeInv, PublishedWhole
<1> QED
  BY SInvInit, SInvStep, WholeStep, <1>1, <1>2, PTL DEF ServeSpec

-----------------------------------------------------------------------------
(* Types.  That a file keeps its type while it is written needs SInv: a    *)
(* rebuild writes under a name only while there is a file of that name.    *)

Kinds == {"good", "small", "garbage", "torn"}

LEMMA FileShapes ==
  /\ NoFile \in File
  /\ \A v \in 1 .. MaxVersion, k \in Kinds : [ver |-> v, kind |-> k] \in File
  /\ \A f \in File : /\ f.ver \in 0 .. MaxVersion
                     /\ f.kind \in Kinds => f.ver \in 1 .. MaxVersion
                     /\ f # NoFile => f.ver \in 1 .. MaxVersion
                                       /\ \A k \in Kinds : [f EXCEPT !.kind = k] \in File
BY ServeAssumption DEF File, NoFile, Kinds

FilesTyped ==
  /\ version \in 1 .. MaxVersion /\ {tmp, file} \subseteq File
  /\ stage \in [Builder -> Stage] /\ overlap \in BOOLEAN

HandleTyped ==
  /\ handle \in [index : 0 .. MaxVersion, stamp : 0 .. MaxVersion,
                 viewed : BOOLEAN, open : BOOLEAN]
  /\ wait \in 0 .. Interval /\ seen \in 0 .. MaxVersion
  /\ pc \in AtRest \cup (IF handle.open THEN {"check", "reload"} ELSE {"view", "stat"})
  /\ raced \in BOOLEAN

LEMMA TypesSplit == ServeTypeOK <=> FilesTyped /\ HandleTyped
BY DEF ServeTypeOK, FilesTyped, HandleTyped, Stage

LEMMA ConstantTypes ==
  /\ MaxVersion \in Nat /\ 1 <= MaxVersion /\ Interval \in Nat /\ 1 <= Interval
  /\ 1 \in 1 .. MaxVersion /\ 0 \in 0 .. MaxVersion /\ Interval \in 0 .. Interval
  /\ NoHandle \in [index : 0 .. MaxVersion, stamp : 0 .. MaxVersion,
                   viewed : BOOLEAN, open : BOOLEAN]
<1>1. MaxVersion \in Nat /\ 1 <= MaxVersion /\ Interval \in Nat /\ 1 <= Interval
  BY ServeAssumption
<1> QED
  BY <1>1 DEF NoHandle

LEMMA RebuildTypes ==
  ASSUME Rest, FilesTyped, NEW b \in Builder, Rebuild(b)
  PROVE  FilesTyped'
<1>0. stage' \in [Builder -> Stage]
  BY RebuildStep DEF Rest, Types
<1> USE DEF FilesTyped
<1>1. CASE Start(b)
  BY <1>0, <1>1, FileShapes DEF Start
<1>2. CASE SaveBegin(b)
  <2>1. version' \in 1 .. MaxVersion
    BY <1>2, ServeAssumption DEF SaveBegin
  <2>2. tmp' = [ver |-> version', kind |-> "torn"] /\ UNCHANGED <<file, overlap>>
    BY <1>2 DEF SaveBegin, SavePath
  <2> QED
    BY <1>0, <2>1, <2>2, FileShapes DEF Kinds
<1>3. ASSUME NEW kind \in {"good", "small", "garbage"}, SaveEnd(b, kind) PROVE FilesTyped'
  <2>1. PICK whole \in Kinds :
          \/ stage[b] = "tmp" /\ tmp' = [tmp EXCEPT !.kind = whole] /\ file' = file
          \/ stage[b] = "file" /\ file' = [file EXCEPT !.kind = whole] /\ tmp' = tmp
          \/ UNCHANGED <<tmp, file>>
    BY <1>3 DEF SaveEnd, Target, Kinds
  <2>2. tmp' \in File /\ file' \in File
    BY <2>1, FileShapes DEF Rest, WrittenExists
  <2> QED
    BY <1>0, <1>3, <2>2 DEF SaveEnd
<1>4. CASE Rename(b)
  BY <1>0, <1>4, FileShapes DEF Rename
<1>5. CASE Die(b)
  BY <1>0, <1>5 DEF Die
<1> QED
  BY <1>1, <1>2, <1>3, <1>4, <1>5 DEF Rebuild

LEMMA CallTypes ==
  ASSUME FilesTyped, HandleTyped, Calls \/ Tick \/ Restart
  PROVE  HandleTyped'
<1> USE ServeAssumption DEF HandleTyped, AtRest
<1>f. file \in File /\ file.ver \in 0 .. MaxVersion
  BY FileShapes DEF FilesTyped
<1>1. CASE TryServe
  BY <1>1 DEF TryServe, NeedsOpen
<1>2. CASE ServeView
  BY <1>2, <1>f DEF ServeView
<1>3. CASE ServeStat
  <2>1. CASE file = NoFile
    BY <1>3, <2>1 DEF ServeStat
  <2>2. CASE file # NoFile
    <3>1. PICK v \in Platform :
            handle' = [index |-> seen, stamp |-> file.ver, viewed |-> v, open |-> TRUE]
      BY <1>3, <2>2 DEF ServeStat
    <3>2. v \in BOOLEAN /\ wait' = Interval /\ seen' = seen /\ pc' = "idle" /\ raced' \in BOOLEAN
      BY <1>3, <2>2 DEF ServeStat
    <3> QED
      BY <1>f, <3>1, <3>2
  <2> QED
    BY <2>1, <2>2
<1>4. CASE KnnStat
  BY <1>4, <1>f DEF KnnStat, Answer, AtRest
<1>5. CASE KnnCheck
  BY <1>5 DEF KnnCheck, Answer
<1>6. CASE KnnReload
  <2>1. CASE file.kind = "good"
    BY <1>6, <1>f, <2>1 DEF KnnReload, ReloadStamp
  <2>2. CASE file.kind # "good"
    BY <1>6, <2>2 DEF KnnReload, Kept
  <2> QED
    BY <2>1, <2>2
<1>7. CASE Tick
  <2>1. wait' \in 0 .. Interval
    BY <1>7 DEF Tick
  <2>2. UNCHANGED <<handle, pc, seen, raced>>
    BY <1>7 DEF Tick
  <2> QED
    BY <2>1, <2>2
<1>8. CASE Restart
  BY <1>8, ConstantTypes DEF Restart
<1> QED
  BY <1>1, <1>2, <1>3, <1>4, <1>5, <1>6, <1>7, <1>8 DEF Calls

LEMMA ServeTypeStep == SInv /\ ServeTypeOK /\ [ServeNext]_svars => ServeTypeOK'
<1> SUFFICES ASSUME SInv, FilesTyped, HandleTyped, [ServeNext]_svars
             PROVE  FilesTyped' /\ HandleTyped'
  BY TypesSplit DEF ServeTypeOK, FilesTyped, HandleTyped, Stage
<1>1. ASSUME NEW b \in Builder, Rebuild(b) PROVE FilesTyped' /\ HandleTyped'
  BY <1>1, RebuildTypes, RebuildStep DEF SInv, servVars, HandleTyped
<1>2. CASE Quarantine
  <2>1. stage' \in [Builder -> Stage]
    BY <1>2 DEF Quarantine, FilesTyped, Stage, Target
  <2> QED
    BY <1>2, <2>1, FileShapes DEF Quarantine, FilesTyped, HandleTyped, servVars
<1>3. CASE Calls \/ Tick \/ Restart
  <2>1. UNCHANGED fileVars
    BY <1>3 DEF Calls, TryServe, ServeView, ServeStat, KnnStat, KnnCheck, KnnReload, Tick, Restart
  <2> QED
    BY <1>3, <2>1, CallTypes DEF fileVars, FilesTyped
<1>4. CASE UNCHANGED svars
  BY <1>4 DEF svars, fileVars, servVars, FilesTyped, HandleTyped
<1> QED
  BY <1>1, <1>2, <1>3, <1>4 DEF ServeNext, Publisher

\* The files, the stages of the rebuilds and the handle keep their types; in
\* particular a call that needs a handle runs only while there is one.
THEOREM ServeTypeCorrect == ServeSpec => []ServeTypeOK
<1>1. ServeInit => ServeTypeOK
  <2> SUFFICES ASSUME ServeInit PROVE FilesTyped /\ HandleTyped
    BY TypesSplit
  <2>1. version = 1 /\ tmp = NoFile /\ file \in File /\ stage = [b \in Builder |-> "idle"]
        /\ overlap = FALSE
    BY DEF ServeInit
  <2>2. FilesTyped
    BY <2>1, ConstantTypes, FileShapes DEF FilesTyped, Stage
  <2>3. HandleTyped
    BY ConstantTypes DEF ServeInit, HandleTyped, AtRest
  <2> QED
    BY <2>2, <2>3
<1> QED
  BY SInvInit, SInvStep, ServeTypeStep, <1>1, PTL DEF ServeSpec
=============================================================================
