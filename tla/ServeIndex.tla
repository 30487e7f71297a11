------------------------------ MODULE ServeIndex ------------------------------
(***************************************************************************)
(* The index handle of the serving process against the processes that      *)
(* publish its file.                                                       *)
(*                                                                         *)
(* A handle maps (or, where a map would lock the file, loads) the index    *)
(* and remembers the file's mtime; a query compares that with the file's   *)
(* mtime now and, at most once in an interval, opens the file again.  The  *)
(* calls of one handle are serialized by a mutex, but the file may be      *)
(* replaced between any two system calls.  The module is about one of the  *)
(* two spaces.                                                             *)
(*                                                                         *)
(* A version number stands for a file's content and for its mtime: a       *)
(* rebuild takes longer than the file system's clock needs to advance.     *)
(*                                                                         *)
(* Rebuilds are not serialized by any lock, and all write the same .tmp    *)
(* name.  What a rebuild is writing is a file that another may truncate,   *)
(* unlink or rename; a file that is still written, or was when its writer  *)
(* died, is torn, and does not open.                                       *)
(***************************************************************************)
EXTENDS Naturals

CONSTANTS
  Builder,      \* the processes that rebuild the index
  MaxVersion,   \* bounds how many files are built
  Interval,     \* RELOAD_MIN_INTERVAL, in ticks
  Platform      \* whether try_serve maps the file (TRUE) or loads a copy (FALSE)

ASSUME ServeAssumption ==
  /\ MaxVersion \in Nat \ {0} /\ Interval \in Nat \ {0}
  /\ Platform # {} /\ Platform \subseteq BOOLEAN

VARIABLES
  version,   \* version of the file built last
  tmp,       \* the file at the .tmp path
  stage,     \* of each rebuild; while it saves, where the file is that it writes
  file,      \* the file at index_path
  handle,    \* the VecIndex: the version it serves and its last_modified
  wait,      \* ticks since last_reload_attempt
  pc,        \* where the serving process is, or how its last query was answered
  seen,      \* what its current call has read: a version or an mtime
  raced,     \* history: the handle was opened while the file was replaced
  overlap    \* history: two rebuilds ran at the same time

fileVars == <<version, tmp, stage, file, overlap>>
servVars == <<handle, wait, pc, seen, raced>>
svars    == <<fileVars, servVars>>

\* Kinds of file: one that opens, one below the plausible size (an index without
\* a vector, or a truncated one), a larger one that does not parse, and one that
\* is not whole.
NoFile == [ver |-> 0, kind |-> "none"]
File   == {NoFile} \cup [ver : 1 .. MaxVersion, kind : {"good", "small", "garbage", "torn"}]

\* Where a file is that a rebuild writes.
Target == {"tmp", "file", "unlinked"}

\* Between calls: none answered yet by this handle, or how the last one was, with
\* hits, with the empty list or with an error (which the caller of knn_impl turns
\* into an empty answer and a warning).
AtRest == {"idle", "hits", "empty", "error"}

\* Version 0 is the empty index a failed load leaves.
NoHandle == [index |-> 0, stamp |-> 0, viewed |-> FALSE, open |-> FALSE]

ServeTypeOK ==
  /\ version \in 1 .. MaxVersion /\ {tmp, file} \subseteq File
  /\ stage \in [Builder -> {"idle", "build", "saved"} \cup Target] /\ overlap \in BOOLEAN
  /\ handle \in [index : 0 .. MaxVersion, stamp : 0 .. MaxVersion,
                viewed : BOOLEAN, open : BOOLEAN]
  /\ wait \in 0 .. Interval /\ seen \in 0 .. MaxVersion
  /\ pc \in AtRest \cup (IF handle.open THEN {"check", "reload"} ELSE {"view", "stat"})
  /\ raced \in BOOLEAN

ServeInit ==
  /\ version = 1 /\ tmp = NoFile /\ stage = [b \in Builder |-> "idle"] /\ overlap = FALSE
  /\ file \in {f \in File : f.ver <= 1 /\ f.kind # "torn"}
  /\ handle = NoHandle /\ wait = Interval /\ pc = "idle" /\ seen = 0 /\ raced = FALSE

-----------------------------------------------------------------------------
(* The processes that rebuild the index.                                   *)

\* The stages after b has gone on to s and the files have moved.
Moved(b, s, to) ==
  [c \in Builder |-> IF c = b THEN s ELSE IF stage[c] \in Target THEN to[stage[c]] ELSE stage[c]]

Unlink == [t \in Target |-> IF t = "file" THEN "file" ELSE "unlinked"]

\* A rebuild begins: it sweeps the .tmp file, whoever writes it.
Start(b) ==
  /\ stage[b] = "idle" /\ version < MaxVersion
  /\ tmp' = NoFile /\ stage' = Moved(b, "build", Unlink)
  /\ overlap' = (overlap \/ \E c \in Builder \ {b} : stage[c] # "idle")
  /\ UNCHANGED <<version, file, servVars>>

\* Faulty variant: the index is saved where it is served from.
SavePathLive == "file"

SavePath == "tmp"

\* save creates the file, or truncates the one there is.
SaveBegin(b) ==
  /\ stage[b] = "build" /\ version < MaxVersion
  /\ version' = version + 1
  /\ LET torn == [ver |-> version + 1, kind |-> "torn"]
     IN IF SavePath = "tmp" THEN tmp' = torn /\ UNCHANGED file
                            ELSE file' = torn /\ UNCHANGED tmp
  /\ stage' = [stage EXCEPT ![b] = SavePath]
  /\ UNCHANGED <<overlap, servVars>>

\* save has written the whole file, wherever it is by now, though it stays torn
\* while another rebuild writes it; what two have written may be a mixture.
SaveEnd(b, kind) ==
  /\ stage[b] \in Target
  /\ kind = "garbage" => overlap
  /\ LET whole == IF \E c \in Builder \ {b} : stage[c] = stage[b] THEN "torn" ELSE kind
     IN CASE stage[b] = "tmp"  -> tmp' = [tmp EXCEPT !.kind = whole] /\ UNCHANGED file
          [] stage[b] = "file" -> file' = [file EXCEPT !.kind = whole] /\ UNCHANGED tmp
          [] OTHER             -> UNCHANGED <<tmp, file>>
  /\ stage' = [stage EXCEPT ![b] = "saved"]
  /\ UNCHANGED <<version, overlap, servVars>>

\* The rename takes whatever is at the .tmp path, and fails if there is nothing.
Rename(b) ==
  /\ stage[b] = "saved"
  /\ IF tmp = NoFile
       THEN stage' = [stage EXCEPT ![b] = "idle"] /\ UNCHANGED <<tmp, file>>
       ELSE /\ file' = tmp /\ tmp' = NoFile
            /\ stage' = Moved(b, "idle", [t \in Target |-> IF t = "tmp" THEN "file" ELSE "unlinked"])
  /\ UNCHANGED <<version, overlap, servVars>>

\* A rebuild fails or dies; what it wrote stays for the next one's sweep.
Die(b) ==
  /\ stage[b] # "idle"
  /\ stage' = [stage EXCEPT ![b] = "idle"]
  /\ UNCHANGED <<version, tmp, file, overlap, servVars>>

\* A pass moves a file that does not load aside.
Quarantine ==
  /\ file.kind \in {"small", "garbage", "torn"}
  /\ file' = NoFile
  /\ stage' = [b \in Builder |-> IF stage[b] = "file" THEN "unlinked" ELSE stage[b]]
  /\ UNCHANGED <<version, tmp, overlap, servVars>>

-----------------------------------------------------------------------------
(* try_serve, at the start of the process or in a query without a handle.  *)

\* Faulty variant: the index is opened in every query.
NeedsOpenAlways == TRUE

NeedsOpen == ~ handle.open

\* Without a file the query finds nothing; a small one is refused unopened.
TryServe ==
  /\ pc \in AtRest /\ NeedsOpen
  /\ pc' = CASE file = NoFile        -> "empty"
             [] file.kind = "small"  -> "error"
             [] OTHER                -> "view"
  /\ UNCHANGED <<fileVars, handle, wait, seen, raced>>

\* view, or load: it fails on a file that is gone or does not parse.
ServeView ==
  /\ pc = "view"
  /\ IF file.kind = "good" THEN pc' = "stat" /\ seen' = file.ver
                           ELSE pc' = "error" /\ UNCHANGED seen
  /\ UNCHANGED <<fileVars, handle, wait, raced>>

\* The mtime is read after the file was opened.
ServeStat ==
  /\ pc = "stat"
  /\ IF file = NoFile
       THEN pc' = "error" /\ UNCHANGED <<handle, wait, raced>>
       ELSE /\ pc' = "idle"
            /\ \E v \in Platform :
                 handle' = [index |-> seen, stamp |-> file.ver, viewed |-> v, open |-> TRUE]
            /\ wait' = Interval
            /\ raced' = (seen # file.ver)
  /\ UNCHANGED <<fileVars, seen>>

-----------------------------------------------------------------------------
(* knn, with a handle.                                                     *)

\* Faulty variant: the interval must be exceeded.
ReloadDueLate == wait > Interval

\* reload_due, given a newer file.
ReloadDue == wait >= Interval

\* What the search of the current index gives.
Answer == IF handle.index = 0 THEN "empty" ELSE "hits"

\* A query first reads the file's mtime, and fails without a file, whatever the
\* handle holds.  If the file is newer and a reload is due it goes on to that,
\* else it searches.
KnnStat ==
  /\ pc \in AtRest /\ handle.open
  /\ IF file.ver > handle.stamp /\ ReloadDue
       THEN pc' = "check" /\ seen' = file.ver /\ wait' = 0
       ELSE pc' = (IF file = NoFile THEN "error" ELSE Answer) /\ UNCHANGED <<seen, wait>>
  /\ UNCHANGED <<fileVars, handle, raced>>

\* plausible_index_file: a small file is not touched, nor one that is gone now;
\* the query searches what it has.
KnnCheck ==
  /\ pc = "check"
  /\ pc' = IF file.kind \in {"good", "garbage", "torn"} THEN "reload" ELSE Answer
  /\ UNCHANGED <<fileVars, handle, wait, seen, raced>>

\* Faulty variant: the old index is freed on every platform.
KeptFreed == [handle EXCEPT !.index = 0]

\* What a failed reload leaves: the old map, or an empty index where the copy was
\* freed before the new one was loaded.
Kept == IF handle.viewed THEN handle ELSE [handle EXCEPT !.index = 0]

\* Faulty variant: stamped with the time of the reload.
ReloadStampNow == version

\* The mtime that the query read before it opened the file.
ReloadStamp == seen

\* reload_from_disk: a map that cannot be replaced is searched as it is, a load
\* that fails is the query's error.
KnnReload ==
  /\ pc = "reload"
  /\ IF file.kind = "good"
       THEN /\ handle' = [handle EXCEPT !.index = file.ver, !.stamp = ReloadStamp]
            /\ pc' = "hits" /\ raced' = FALSE
       ELSE /\ handle' = Kept /\ UNCHANGED raced
            /\ pc' = (IF handle.viewed THEN "hits" ELSE "error")
  /\ UNCHANGED <<fileVars, wait, seen>>

Tick ==
  /\ wait < Interval /\ wait' = wait + 1
  /\ UNCHANGED <<fileVars, handle, pc, seen, raced>>

\* The serving process is restarted.
Restart ==
  /\ handle' = NoHandle /\ wait' = Interval /\ pc' = "idle" /\ seen' = 0 /\ raced' = FALSE
  /\ UNCHANGED fileVars

-----------------------------------------------------------------------------
Rebuild(b) ==
  \/ Start(b) \/ SaveBegin(b) \/ Rename(b) \/ Die(b)
  \/ \E kind \in {"good", "small", "garbage"} : SaveEnd(b, kind)

Publisher == (\E b \in Builder : Rebuild(b)) \/ Quarantine

Calls == TryServe \/ ServeView \/ ServeStat \/ KnnStat \/ KnnCheck \/ KnnReload

ServeNext == Publisher \/ Calls \/ Tick \/ Restart

ServeSpec == ServeInit /\ [][ServeNext]_svars

\* Queries keep coming, time passes, and the process is not restarted for ever.
ServeFairSpec ==
  /\ ServeSpec /\ WF_svars(Calls) /\ WF_svars(Tick)
  /\ <>[][Publisher \/ Calls \/ Tick]_svars

-----------------------------------------------------------------------------
(* Properties.                                                             *)

\* The mtime a handle remembers is never newer than what it serves, so that the
\* next query notices every later file, unless the handle was opened in a race.
\* Only a freed index serves less.
StampIsHonest ==
  handle.open => handle.index >= handle.stamp \/ handle.index = 0 \/ raced

\* A query on a mapped handle is answered with hits, and never from an older file
\* than before, though the file at its path is truncated, garbage or torn, or is
\* replaced or taken away in the middle of a reload.  Only a query that finds no
\* file when it begins fails (index.rs 443-446), and the handle is not lost by it.
MappedAnswers ==
  [][handle.viewed /\ handle'.open =>
       /\ handle'.index >= handle.index
       /\ pc' # "empty"
       /\ pc' = "error" => handle' = handle /\ (pc = "error" \/ file = NoFile)]_svars

\* A good file is served in the end, if it stays: whatever failed before, the
\* index catches up with the last publication, but for a handle opened in a race.
CatchesUp ==
  <>[](file.kind = "good" => handle.open /\ (handle.index = file.ver \/ raced))

\* index.rs 360-368: unless two rebuilds overlap, the file at index_path is never
\* one that is not whole, and nobody writes it under the maps of the processes
\* that serve it: through deaths in the middle of a save, and what they leave.
PublishedWhole ==
  overlap \/ (file.kind # "torn" /\ \A b \in Builder : stage[b] # "file")
=============================================================================
