------------------------------ MODULE Sidecar ------------------------------
(***************************************************************************)
(* The processes of the sidecar that share one embed.db, and the engine    *)
(* each of them runs on: reindex passes (and the shard workers the host    *)
(* starts, which are passes of their own) and daemons, each resolving its  *)
(* engine for itself on the machine as it finds it, recording or reading   *)
(* the provenance in the meta table, and writing vectors.                  *)
(*                                                                         *)
(* Vectors of two engines are not bit-identical (main.rs, issue #6): a     *)
(* store that mixes them is meant to be mixed only after a warning.        *)
(***************************************************************************)
EXTENDS Engines

CONSTANTS
    Hosts,   \* the builds, machines and models a process may be started on
    Proc,    \* the processes
    Node,    \* the nodes of graph.db
    NoRow    \* no embedding

ASSUME SidecarAssumption == /\ Hosts \subseteq Host
                            /\ NoRow \notin [engine : Backends, blind : BOOLEAN]

VARIABLES
    proc,    \* the processes: what each is doing, and on which engine
    rows,    \* node_embeddings: the engine that made each node's vector
    meta,    \* the embed_backend key of embed.db's meta table
    told,    \* the engines somebody was warned are in this store with another
    unseen   \* the engines whose record was overwritten by a pass that had
             \* read the key before it named them
vars == <<proc, rows, meta, told, unseen>>

None == "none"
Row == [engine : Backends, blind : BOOLEAN]

Off == [stage |-> "off"]

SidecarTypeOK ==
    /\ \A p \in Proc :
         \/ proc[p] = Off
         \/ proc[p] \in [stage : {"resolving"}, pass : BOOLEAN, host : Hosts,
                         left : SUBSET Factory]
         \/ proc[p] \in [stage : {"failed"}, host : Hosts]
         \/ proc[p] \in [stage : {"loaded"}, pass : BOOLEAN, host : Hosts, engine : Backends]
         \/ proc[p] \in [stage : {"recording", "serving"}, engine : Backends,
                         prev : Backends \cup {None}]
         \/ proc[p] \in [stage : {"embedding"}, engine : Backends, todo : SUBSET Node]
    /\ rows \in [Node -> Row \cup {NoRow}]
    /\ meta \in Backends \cup {None}
    /\ told \subseteq Backends
    /\ unseen \subseteq Backends

Init == /\ proc = [p \in Proc |-> Off]
        /\ rows = [n \in Node |-> NoRow]
        /\ meta = None
        /\ told = {}
        /\ unseen = {}

(***************************************************************************)
(* Starting a process: create_backend, the same for a pass and a daemon.   *)
(***************************************************************************)
\* registry, the switches and the capability filter; no candidate is an error
Launch(p, pass, h) ==
    /\ proc[p] = Off
    /\ proc' = [proc EXCEPT ![p] =
                  IF Candidates(h) = {}
                  THEN [stage |-> "failed", host |-> h]
                  ELSE [stage |-> "resolving", pass |-> pass, host |-> h,
                        left |-> Candidates(h)]]
    /\ UNCHANGED <<rows, meta, told, unseen>>

\* one turn of the loop over the candidates
TryNext(p) ==
    /\ proc[p].stage = "resolving"
    /\ proc[p].left # {}
    /\ LET h == proc[p].host
           f == NextFactory(h, proc[p].left)
           b == TryBuild(h, f)
       IN  proc' = [proc EXCEPT ![p] =
                      IF b \in Backends
                      THEN [stage |-> "loaded", pass |-> proc[p].pass, host |-> h, engine |-> b]
                      ELSE [proc[p] EXCEPT !.left = @ \ {f}]]
    /\ UNCHANGED <<rows, meta, told, unseen>>

\* the loop found no engine that builds
GiveUp(p) ==
    /\ proc[p].stage = "resolving"
    /\ proc[p].left = {}
    /\ proc' = [proc EXCEPT ![p] = [stage |-> "failed", host |-> proc[p].host]]
    /\ UNCHANGED <<rows, meta, told, unseen>>

(***************************************************************************)
(* A pass: record_backend_provenance reads the key, warns when it names    *)
(* another engine, and only then overwrites it, in two statements and no   *)
(* transaction.                                                            *)
(***************************************************************************)
Differs(prev, engine) == prev # None /\ prev # engine

ReadProvenance(p) ==
    /\ proc[p].stage = "loaded"
    /\ proc[p].pass
    /\ proc' = [proc EXCEPT ![p] = [stage |-> "recording", engine |-> proc[p].engine,
                                    prev |-> meta]]
    /\ UNCHANGED <<rows, meta, told, unseen>>

\* Mutant: the filter keeps the record that agrees
WarnedEqual(prev, engine) == IF Differs(prev, engine) THEN {} ELSE {prev} \ {None}

\* Mutant: a missing record counts as another engine's
WarnedOfNone(prev, engine) == {prev} \ {engine}

Warned(prev, engine) == IF Differs(prev, engine) THEN {prev} ELSE {}

RecordProvenance(p) ==
    /\ proc[p].stage = "recording"
    /\ LET e == proc[p].engine
       IN  /\ told' = told \cup Warned(proc[p].prev, e)
           /\ unseen' = unseen \cup ({meta} \ {None, proc[p].prev, e})
           /\ meta' = e
           /\ proc' = [proc EXCEPT ![p] = [stage |-> "embedding", engine |-> e, todo |-> {}]]
    /\ UNCHANGED rows

\* the next chunk of nodes without an embedding
SelectPending(p) ==
    /\ proc[p].stage = "embedding"
    /\ proc[p].todo = {}
    /\ proc' = [proc EXCEPT ![p].todo = {n \in Node : rows[n] = NoRow}]
    /\ UNCHANGED <<rows, meta, told, unseen>>

\* INSERT OR REPLACE: over whatever was written since the SELECT
EmbedRow(p, n) ==
    /\ proc[p].stage = "embedding"
    /\ n \in proc[p].todo
    /\ rows' = [rows EXCEPT ![n] = [engine |-> proc[p].engine, blind |-> FALSE]]
    /\ proc' = [proc EXCEPT ![p].todo = @ \ {n}]
    /\ UNCHANGED <<meta, told, unseen>>

(***************************************************************************)
(* A daemon: it reads the key once, when it loads, and warns; its lazy     *)
(* embeddings are written beside the pass's, and never recorded.           *)
(***************************************************************************)
CheckProvenance(prev, engine) == IF Differs(prev, engine) THEN {prev, engine} ELSE {}

Serve(p) ==
    /\ proc[p].stage = "loaded"
    /\ ~proc[p].pass
    /\ told' = told \cup CheckProvenance(meta, proc[p].engine)
    /\ proc' = [proc EXCEPT ![p] = [stage |-> "serving", engine |-> proc[p].engine,
                                    prev |-> meta]]
    /\ UNCHANGED <<rows, meta, unseen>>

\* persist_lazy_embeddings: INSERT OR IGNORE. A row is blind when its daemon
\* had found no record to compare itself with
PersistLazy(p, n) ==
    /\ proc[p].stage = "serving"
    /\ rows[n] = NoRow
    /\ rows' = [rows EXCEPT ![n] = [engine |-> proc[p].engine,
                                    blind |-> proc[p].prev = None]]
    /\ UNCHANGED <<proc, meta, told, unseen>>

(***************************************************************************)
(* Invalidation drops a row whose node changed (module Freshness), and a   *)
(* process may end, or be killed, at any point.                            *)
(***************************************************************************)
Invalidate(n) ==
    /\ rows[n] # NoRow
    /\ rows' = [rows EXCEPT ![n] = NoRow]
    /\ UNCHANGED <<proc, meta, told, unseen>>

Exit(p) ==
    /\ proc[p] # Off
    /\ proc' = [proc EXCEPT ![p] = Off]
    /\ UNCHANGED <<rows, meta, told, unseen>>

Next ==
    \/ \E p \in Proc : \/ \E pass \in BOOLEAN, h \in Hosts : Launch(p, pass, h)
                       \/ TryNext(p) \/ GiveUp(p)
                       \/ ReadProvenance(p) \/ RecordProvenance(p) \/ SelectPending(p)
                       \/ Serve(p)
                       \/ \E n \in Node : EmbedRow(p, n) \/ PersistLazy(p, n)
                       \/ Exit(p)
    \/ \E n \in Node : Invalidate(n)

Spec == Init /\ [][Next]_vars

(***************************************************************************)
(* Properties.                                                             *)
(***************************************************************************)

\* backend/mod.rs promises that a process runs on the best engine that its
\* build, its switches and the model permit and that really works there:
\* acceleration first, tract before it on macOS, ORT on the CPU only when
\* nothing else can run the model; that it refuses to start only when no such
\* engine exists, however many engines declined or failed on the way; and that
\* --capabilities, which decides whether a model may be chosen at all,
\* advertised the engine.
BestEngine ==
    \A p \in Proc :
        /\ proc[p].stage = "loaded" =>
             LET h == proc[p].host
                 b == proc[p].engine
             IN  /\ Best(h, b)
                 /\ b # Tract => Capabilities(h).universalOnnx
                 /\ b \in Providers => Capabilities(h).acceleratedCompiled
                 /\ b = Tract => h.family \in Capabilities(h).families
        /\ proc[p].stage = "failed" => Usable(proc[p].host) = {}

\* A vector of an engine other than the recorded one is in embed.db only if
\* somebody was warned that this engine's vectors are mixed with another's
\* (record_backend_provenance and the check a daemon makes when it loads), with
\* two exceptions: a daemon that found no record at all, and an engine whose
\* record a concurrent pass overwrote between its own read and write.
ForeignRowsWarned ==
    \A n \in Node : rows[n] # NoRow =>
        \/ rows[n].engine = meta
        \/ rows[n].engine \in told \cup unseen
        \/ rows[n].blind
=============================================================================
